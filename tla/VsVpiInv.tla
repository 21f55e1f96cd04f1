------------------------------ MODULE VsVpiInv ------------------------------
(***************************************************************************)
(* The inductive invariant of the VPI application: what must hold in every   *)
(* state for the properties of VsVpi to be preserved by every step.         *)
(***************************************************************************)
EXTENDS VsVpiFocus

\* While Verisocks has the focus the simulator is simply blocked; it finishes
\* only on behalf of a server that has left, and it is at its prompt only after
\* a stop.
SimPhase ==
  /\ HasFocus => sim = "run"
  /\ sim = "stopped" => state = "SIM_RUNNING" /\ cur.kind = "stop"
  /\ sim = "finishing" => \/ state \in {"START", "EXIT", "ERROR"}
                          \/ state = "SIM_RUNNING" /\ cur.kind = "stop"
  /\ state = "SIM_RUNNING" => cur.kind \in RunKinds \cup {"stop"}
  /\ state = "ERROR" => sim # "run"
  /\ state = "EXIT" => cur.kind \in {"finish", "exit"} /\ fdClient = cur.conn
  /\ state = "EXIT" /\ cur.kind = "finish" => sim # "run"
  /\ state = "START" => cur = NoReq

\* The callback that the run request m registers.
CallbackOf(m) ==
  IF m.kind = "until_change" THEN [kind |-> "change", at |-> 0]
  ELSE IF m.kind = "until_event" THEN [kind |-> "event", at |-> 0]
  ELSE [kind |-> "time", at |-> DueTime(m)]

\* The simulator holds the callback of the current run and no other, its target
\* is the one of the request and its time has not passed.
CallbackShape ==
  /\ cbs = IF state = "SIM_RUNNING" /\ cur.kind \in RunKinds /\ sim = "run"
             THEN {CallbackOf(cur)} ELSE {}
  /\ state = "PROCESSING" => cur.t0 = simTime
  /\ cbs # {} =>
       /\ cur.kind \in {"until_change", "until_event"} => h_cb = CallbackOf(cur)
       /\ cur.kind = "until_change" => value = cur.arg
       /\ cur.kind \notin {"until_change", "until_event"} => simTime <= DueTime(cur)

\* Queued connections are distinct and still to be served.
BacklogFresh ==
  /\ \A i \in 1..Len(backlog) : cst[backlog[i]] \in {"up", "closed"}
  /\ \A i, j \in 1..Len(backlog) : i # j => backlog[i] # backlog[j]
  /\ fdClient \in Conns => /\ cst[fdClient] # "idle"
                           /\ \A i \in 1..Len(backlog) : backlog[i] # fdClient

\* The stored UUID is the one of the request in hand, to the end of its run.
UuidOfRequest ==
  state \in {"PROCESSING", "SIM_RUNNING"} =>
    uuid = IF cur.tagged THEN <<cur.conn, cur.seq>> ELSE NoUuid

IInv == /\ TypeOK /\ SimPhase /\ CallbackShape
        /\ BacklogFresh /\ NoStaleDescriptor
        /\ Ledger /\ UuidOfRequest /\ ReplyCarriesUuid
=============================================================================
