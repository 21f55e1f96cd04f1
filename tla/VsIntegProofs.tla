---------------------------- MODULE VsIntegProofs ----------------------------
(***************************************************************************)
(* Proofs about the state machine of the Verilator integration, for any number *)
(* of clocks, designs and requests: runs are disciplined, replies match         *)
(* requests, a run is acknowledged when its condition holds, disabled clocks    *)
(* stop, and no event is skipped.  That time goes forward, and that the         *)
(* integration implements VsFocus, holds when no disabled clock can overtake    *)
(* another (NeverOvertaken).                                                *)
(***************************************************************************)
EXTENDS VsIntegFocus, VsClocksProofs

\* UUID that a reply to message m has to carry.
Due(m) == IF m.tagged THEN m.id ELSE NoUuid

\* The stored UUID is that of the last message, and the last reply carried it unless
\* that message is still to be answered.
UuidKept ==
  /\ cur # NoReq => uuid = Due(cur)
  /\ cur # NoReq /\ ~Busy => last.uuid = uuid

Control ==
  /\ nread \in Nat /\ nrep \in Nat /\ timeCb \in BOOLEAN /\ valueCb \in BOOLEAN
  /\ state = "INIT" => ~timeCb /\ ~valueCb

\* The parts hold on to each other: that the end of the simulation answers a run
\* rests on the callback of the run.
IInv == Control /\ OneCallback /\ Ledger /\ UuidKept

-----------------------------------------------------------------------------
(* What a step does to callbacks, messages and replies.                     *)

\* A step that neither reads a message nor answers one.
Quiet ==
  /\ UNCHANGED <<uuid, nread, nrep, cur, last, timeCb, valueCb>>
  /\ \/ state' = state
     \/ state = "INIT" /\ state' \in {"CONNECT", "ERROR"}
     \/ state = "CONNECT" /\ state' \in {"WAITING", "ERROR"}
     \/ state = "WAITING" /\ state' = "CONNECT"
     \/ state = "PROCESSING" /\ cur.kind = "exit" /\ Answered /\ state' = "EXIT"
     \/ state = "SIM_FINISH" /\ state' = "EXIT"

\* A message is read; one that cannot be handled is answered at once.
Reads ==
  /\ state = "WAITING"
  /\ nread' = nread + 1 /\ uuid' = Due(cur')
  /\ timeCb' = timeCb /\ valueCb' = valueCb
  /\ \/ state' = "WAITING" /\ nrep' = nrep + 1 /\ last'.uuid = uuid'
     \/ state' = "PROCESSING" /\ nrep' = nrep /\ last' = last

\* A handler leaves the UUID and the message as they are.
Handles ==
  /\ state = "PROCESSING" /\ ~Answered
  /\ uuid' = uuid /\ nread' = nread /\ cur' = cur

\* A handler replies, and no run begins: only exit stays in its state.
Replies ==
  /\ Handles
  /\ nrep' = nrep + 1 /\ last'.uuid = uuid
  /\ timeCb' = timeCb /\ valueCb' = valueCb
  /\ \/ state' \in {"WAITING", "EXIT"}
     \/ state' = "PROCESSING" /\ cur.kind = "exit"

\* A handler starts a run, with the callback of its request.
Starts ==
  /\ Handles
  /\ nrep' = nrep /\ last' = last /\ state' = "SIM_RUNNING"
  /\ ~timeCb /\ ~valueCb
  /\ \/ timeCb' = TRUE /\ valueCb' = valueCb /\ cur.kind # "until_change"
     \/ timeCb' = timeCb /\ valueCb' = TRUE /\ cur.kind = "until_change"

\* A run stops at its callback, or with the simulation.
Stops ==
  /\ state = "SIM_RUNNING"
  /\ uuid' = uuid /\ nread' = nread /\ cur' = cur
  /\ \/ /\ state' = "WAITING" /\ timeCb' = FALSE /\ valueCb' = FALSE
        /\ nrep' = nrep + 1 /\ last'.uuid = uuid
     \/ /\ state' = "SIM_FINISH" /\ timeCb' = timeCb /\ valueCb' = valueCb
        /\ IF timeCb \/ valueCb THEN nrep' = nrep + 1 /\ last'.uuid = uuid
                                ELSE nrep' = nrep /\ last' = last

\* Every request is handled in a step of one of the kinds.
LEMMA HandlerSteps ==
  ASSUME main_process
  PROVE  Quiet \/ Replies \/ Starts
<1>1. CASE CmdInfo \/ CmdGet \/ CmdType \/ CmdBad \/ CmdStop
  BY <1>1 DEF CmdInfo, CmdGet, CmdType, CmdBad, CmdStop, Processing, Reply, Return, Replies,
     Handles, callbackVars
<1>2. CASE CmdSetValue
  BY <1>2 DEF CmdSetValue, Processing, Reply, Return, Replies, Handles, callbackVars
<1>3. CASE CmdClockError \/ CmdClockOn \/ CmdClockOff
  BY <1>3 DEF CmdClockError, CmdClockOn, CmdClockOff, Processing, Reply, Return, Replies,
     Handles, callbackVars
<1>4. CASE CmdClockCfg
  BY <1>4 DEF CmdClockCfg, Processing, Reply, Return, Replies, Handles, callbackVars
<1>5. CASE CmdRunError \/ CmdFinish \/ CmdExit
  BY <1>5 DEF CmdRunError, CmdFinish, CmdExit, Processing, Reply, Return, Replies,
     Handles, callbackVars
<1>6. CASE CmdRunTime
  BY <1>6 DEF CmdRunTime, Processing, Registrable, register_time_callback, Starts, Handles
<1>7. CASE CmdRunUntilChange
  BY <1>7 DEF CmdRunUntilChange, Processing, Starts, Handles
<1>8. CASE CmdRunToNext
  <2>1. Handles /\ cur.kind = "to_next"
    BY <1>8 DEF CmdRunToNext, Processing, Handles
  <2>2. CASE /\ has_events_pending(clocks', slots')
             /\ Registrable(next_event_time(clocks', slots'))
    <3>1. /\ ~timeCb /\ ~valueCb /\ timeCb' = TRUE /\ valueCb' = valueCb
          /\ nrep' = nrep /\ last' = last /\ state' = "SIM_RUNNING"
      BY <1>8, <2>2 DEF CmdRunToNext, Registrable, register_time_callback
    <3> QED
      BY <2>1, <3>1 DEF Starts
  <2>3. CASE ~(/\ has_events_pending(clocks', slots')
               /\ Registrable(next_event_time(clocks', slots')))
    <3>1. Reply({"error"}) /\ UNCHANGED callbackVars
      BY <1>8, <2>3 DEF CmdRunToNext
    <3> QED
      BY <2>1, <3>1 DEF Reply, Return, Replies, callbackVars
  <2> QED
    BY <2>2, <2>3
<1>9. CASE CmdExitLoop
  BY <1>9 DEF CmdExitLoop, Quiet, callbackVars, histVars
<1> QED
  BY <1>1, <1>2, <1>3, <1>4, <1>5, <1>6, <1>7, <1>8, <1>9 DEF main_process

\* The loop of main_sim takes steps of some of the kinds.
LEMMA SimSteps ==
  ASSUME main_sim
  PROVE  Quiet \/ Stops
<1>1. /\ state = "SIM_RUNNING"
      /\ uuid' = uuid /\ nread' = nread /\ cur' = cur
  BY DEF main_sim
<1>2. CASE SimEnds
  BY <1>1, <1>2 DEF SimEnds, Return, Stops
<1>3. CASE Reached
  BY <1>1, <1>3 DEF Reached, clear_callbacks, Return, Stops
<1>4. CASE UNCHANGED <<state, timeCb, valueCb, nrep, last>>
  BY <1>1, <1>4 DEF Quiet
<1>5. CASE AfterEval
  BY <1>2, <1>3, <1>4, <1>5 DEF AfterEval
<1> QED
  BY <1>2, <1>5 DEF main_sim

\* Every step is of one of the kinds.
LEMMA Steps ==
  ASSUME [Next]_vars
  PROVE  Quiet \/ Reads \/ Replies \/ Starts \/ Stops
<1>1. CASE UNCHANGED vars
  BY <1>1 DEF Quiet, vars, callbackVars, histVars
<1>2. CASE main_init \/ main_connect \/ LoseClient \/ main_sim_finish \/ Leave
  BY <1>2 DEF main_init, main_connect, LoseClient, main_sim_finish, Leave, Quiet,
     callbackVars, histVars
<1>3. CASE main_wait
  <2>1. PICK m : ReadMessage(m) /\ m.id = nread + 1
    <3>1. PICK k \in Kinds, t \in BOOLEAN : \E a \in Args(k), c \in ClockArgs(k) :
            ReadMessage([id |-> nread + 1, kind |-> k, arg |-> a, clk |-> c,
                         tagged |-> t, t0 |-> time])
      BY <1>3 DEF main_wait
    <3> QED
      BY <3>1
  <2>2. state = "WAITING" /\ timeCb' = timeCb /\ valueCb' = valueCb
    BY <1>3 DEF main_wait, callbackVars
  <2>3. cur' = m /\ nread' = nread + 1 /\ uuid' = Due(cur')
    BY <2>1 DEF ReadMessage, StoredUuid, Due
  <2>4. \/ state' = "WAITING" /\ nrep' = nrep + 1 /\ last'.uuid = uuid'
        \/ state' = "PROCESSING" /\ nrep' = nrep /\ last' = last
    BY <2>1, <2>2 DEF ReadMessage, Return
  <2> QED
    BY <2>2, <2>3, <2>4 DEF Reads
<1>4. CASE main_process
  BY <1>4, HandlerSteps
<1>5. CASE main_sim
  BY <1>5, SimSteps
<1> QED
  BY <1>1, <1>2, <1>3, <1>4, <1>5 DEF Next

-----------------------------------------------------------------------------
(* The invariant.                                                           *)

LEMMA InitInv == Init => IInv
<1> SUFFICES ASSUME Init PROVE IInv
  OBVIOUS
<1>1. state = "INIT" /\ ~timeCb /\ ~valueCb /\ nread = 0 /\ nrep = 0 /\ cur = NoReq
      /\ timeCb \in BOOLEAN /\ valueCb \in BOOLEAN
  BY DEF Init
<1> QED
  BY <1>1 DEF IInv, Control, OneCallback, Running, Ledger, Busy, UuidKept

LEMMA NextControl == Control /\ [Next]_vars => Control'
<1> SUFFICES ASSUME Control, [Next]_vars PROVE Control'
  OBVIOUS
<1>1. CASE Quiet
  BY <1>1 DEF Control, Quiet
<1>2. CASE Reads \/ Replies
  BY <1>2 DEF Control, Reads, Replies, Handles
<1>3. CASE Starts
  BY <1>3 DEF Control, Starts, Handles
<1>4. CASE Stops
  <2>1. /\ timeCb' \in {FALSE, timeCb} /\ valueCb' \in {FALSE, valueCb}
        /\ nread' = nread /\ nrep' \in {nrep, nrep + 1} /\ state' # "INIT"
    BY <1>4 DEF Stops
  <2>2. timeCb' \in BOOLEAN /\ valueCb' \in BOOLEAN
    BY <2>1, Zenon DEF Control
  <2>3. nread' \in Nat /\ nrep' \in Nat
    BY <2>1 DEF Control
  <2> QED
    BY <2>1, <2>2, <2>3, Zenon DEF Control
<1> QED
  BY <1>1, <1>2, <1>3, <1>4, Steps

LEMMA NextOneCallback == Control /\ OneCallback /\ [Next]_vars => OneCallback'
<1> SUFFICES ASSUME Control, OneCallback, [Next]_vars PROVE OneCallback'
  OBVIOUS
<1>1. CASE Quiet
  BY <1>1 DEF Quiet, Control, OneCallback, Running
<1>2. CASE Reads
  BY <1>2 DEF Reads, OneCallback, Running
<1>3. CASE Replies
  BY <1>3 DEF Replies, Handles, OneCallback, Running
<1>4. CASE Starts
  BY <1>4 DEF Starts, Handles, OneCallback, Running
<1>5. CASE Stops
  BY <1>5 DEF Stops, OneCallback, Running
<1> QED
  BY <1>1, <1>2, <1>3, <1>4, <1>5, Steps

LEMMA NextLedger == Control /\ OneCallback /\ Ledger /\ [Next]_vars => Ledger'
<1> SUFFICES ASSUME Control, OneCallback, Ledger, [Next]_vars PROVE Ledger'
  OBVIOUS
<1>1. CASE Quiet
  BY <1>1 DEF Quiet, Control, Ledger, Busy, Running, Answered
<1>2. CASE Reads
  BY <1>2 DEF Reads, Control, Ledger, Busy, Running
<1>3. CASE Replies
  BY <1>3 DEF Replies, Handles, Control, Ledger, Busy, Running, Answered
<1>4. CASE Starts
  BY <1>4 DEF Starts, Handles, Control, Ledger, Busy, Running, Answered
<1>5. CASE Stops
  BY <1>5 DEF Stops, Control, OneCallback, Ledger, Busy, Running
<1> QED
  BY <1>1, <1>2, <1>3, <1>4, <1>5, Steps

LEMMA NextUuid ==
  Control /\ OneCallback /\ Ledger /\ UuidKept /\ [Next]_vars => UuidKept'
<1> SUFFICES ASSUME Control, OneCallback, Ledger, UuidKept, [Next]_vars PROVE UuidKept'
  OBVIOUS
<1>1. CASE Quiet
  BY <1>1 DEF Quiet, Control, Ledger, UuidKept, Busy, Running, Answered, Due
<1>2. CASE Reads
  BY <1>2 DEF Reads, Control, Ledger, UuidKept, Busy, Running
<1>3. CASE Replies
  BY <1>3 DEF Replies, Handles, Control, Ledger, UuidKept, Due
<1>4. CASE Starts
  BY <1>4 DEF Starts, Handles, UuidKept, Busy, Running, Due
<1>5. CASE Stops
  BY <1>5 DEF Stops, Control, OneCallback, UuidKept, Running, Due
<1> QED
  BY <1>1, <1>2, <1>3, <1>4, <1>5, Steps

LEMMA Invariance == Spec => []IInv
<1>1. IInv /\ [Next]_vars => IInv'
  BY NextControl, NextOneCallback, NextLedger, NextUuid DEF IInv
<1> QED
  BY <1>1, InitInv, PTL DEF Spec

\* For any clocks and any design, a run has exactly the callback of its request to
\* stop at, and none is left while VslInteg waits or handles a request.
THEOREM RunsHaveOneCallback == Spec => []OneCallback
<1>1. IInv => OneCallback
  BY DEF IInv
<1> QED
  BY <1>1, Invariance, PTL

\* Every message read has one reply but the one in hand, also when the simulation
\* ends under a run.
THEOREM LedgerBalances == Spec => []Ledger
<1>1. IInv => Ledger
  BY DEF IInv
<1> QED
  BY <1>1, Invariance, PTL

\* A reply carries the UUID of its own request, or none if that had none.
THEOREM UuidsMatch == Spec => []ReplyCarriesUuid
<1>1. IInv => ReplyCarriesUuid
  BY DEF IInv, UuidKept, ReplyCarriesUuid, Due
<1> QED
  BY <1>1, Invariance, PTL

-----------------------------------------------------------------------------
(* The clocks that the testbench registers.                                 *)

\* Enabling, making and disabling a clock, and setting its wave, make clocks.
LEMMA EnableType ==
  ASSUME NEW c \in Clock, NEW t \in Nat
  PROVE  /\ Enable(c, t) \in Clock /\ Enable(c, t).name = c.name
         /\ c.enabled \/ c.high = 0 => Enable(c, t) = c
         /\ ~(c.enabled \/ c.high = 0) =>
              /\ Enable(c, t).enabled /\ ~Enable(c, t).waiting
              /\ Enable(c, t).next = t + c.high /\ Enable(c, t).value = 1
<1>1. t + c.high \in Nat
  BY DEF Clock
<1>2. CASE c.enabled \/ c.high = 0
  BY <1>2 DEF Enable
<1>3. CASE ~(c.enabled \/ c.high = 0)
  <2> DEFINE e == [c EXCEPT !.enabled = TRUE, !.waiting = FALSE, !.next = t + c.high,
                            !.value = 1]
  <2>1. Enable(c, t) = e
    BY <1>3 DEF Enable
  <2>2. e \in Clock
    BY <1>1 DEF Clock
  <2>3. e.enabled = TRUE /\ e.waiting = FALSE /\ e.next = t + c.high /\ e.value = 1
        /\ e.name = c.name
    BY DEF Clock
  <2> HIDE DEF e
  <2> QED
    BY <1>3, <2>1, <2>2, <2>3
<1> QED
  BY <1>2, <1>3

LEMMA NewType ==
  ASSUME NEW n \in Clocks, NEW w \in Waves
  PROVE  /\ New(n, w) \in Clock /\ New(n, w).name = n /\ ~New(n, w).waiting
         /\ w.high > 0 => New(n, w).enabled /\ New(n, w).value = 1
         /\ w.high = 0 => ~New(n, w).enabled /\ New(n, w).value = 0 /\ New(n, w).next = 0
<1> DEFINE c == [name |-> n, enabled |-> FALSE, waiting |-> FALSE, next |-> 0,
                 value |-> 0, high |-> w.high, low |-> w.low]
<1>1. w.high \in Nat /\ w.low \in Nat \ {0}
  BY ClocksAssumption
<1>2. New(n, w) = Enable(c, 0)
  BY Zenon DEF New
<1>3. CASE w.high = 0
  <2>1. New(n, w) = c
    BY <1>2, <1>3 DEF Enable
  <2> QED
    BY <1>1, <1>3, <2>1 DEF Clock
<1>4. CASE w.high > 0
  <2>1. c \in Clock /\ c.name = n /\ c.high = w.high /\ ~c.enabled
    BY <1>1 DEF Clock
  <2> HIDE DEF c
  <2> QED
    BY <1>2, <1>4, <2>1, EnableType
<1> QED
  BY <1>1, <1>3, <1>4

\* Registered in any order, there is one clock of every name; they are in order when
\* all of them are enabled.
LEMMA RegisteredIs ==
  ASSUME NEW order \in SetToSeqs(Clocks), NEW w \in [Clocks -> Waves]
  PROVE  /\ Complete(Registered(order, w))
         /\ ToSet(Registered(order, w)) = {New(n, w[n]) : n \in Clocks}
         /\ (\A n \in Clocks : w[n].high > 0) => Ordered(Registered(order, w))
<1> DEFINE N == Len(order)
           new == [n \in 1 .. N |-> New(order[n], w[order[n]])]
           step == [n \in 1 .. N |-> [l \in Seq(Clock) |-> AddClock(l, new[n])]]
           map == CHOOSE f : f = [n \in 0 .. N |-> IF n = 0 THEN <<>>
                        ELSE AddClock(f[n - 1], New(order[n], w[order[n]]))]
<1>1. /\ N \in Nat /\ N = Cardinality(Clocks) /\ order \in [1 .. N -> Clocks]
      /\ \A i, j \in 1 .. N : order[i] = order[j] => i = j
  <2>1. Cardinality(Clocks) \in Nat
    BY ClocksAssumption, FS_CardinalityType
  <2>2. /\ order \in [1 .. Cardinality(Clocks) -> Clocks]
        /\ \A i, j \in 1 .. Cardinality(Clocks) : i # j => order[i] # order[j]
    BY DEF SetToSeqs
  <2>3. order \in Seq(Clocks) /\ Len(order) = Cardinality(Clocks)
    BY <2>1, <2>2
  <2> QED
    BY <2>1, <2>2, <2>3
<1>2. \A n \in Clocks : \E i \in 1 .. N : order[i] = n
  <2>1. order \in Injection(1 .. N, Clocks)
    BY <1>1, Fun_IsInj
  <2>2. Cardinality(1 .. N) = N /\ IsFiniteSet(Clocks)
    BY <1>1, FS_Interval, ClocksAssumption
  <2>3. order \in Surjection(1 .. N, Clocks)
    BY <1>1, <2>1, <2>2, FS_Injection, Zenon
  <2> QED
    BY <2>3 DEF Surjection
<1>20. \A n \in 1 .. N : new[n] = New(order[n], w[order[n]])
  OBVIOUS
<1>3. \A n \in 1 .. N :
        /\ new[n] \in Clock /\ new[n].name = order[n]
        /\ w[order[n]].high > 0 => new[n].enabled
  BY <1>1, <1>20, NewType
<1>4. \A l \in Seq(Clock), c \in Clock : AddClock(l, c) \in Seq(Clock)
  <2>1. \A l \in Seq(Clock), c \in Clock : <<c>> \o l \in Seq(Clock)
    OBVIOUS
  <2> QED
    BY <2>1, SortKeeps DEF AddClock
<1>5. step \in [1 .. N -> [Seq(Clock) -> Seq(Clock)]]
  BY <1>3, <1>4
<1>6. \A n \in 1 .. N, l \in Seq(Clock) : step[n][l] = AddClock(l, new[n])
  OBVIOUS
<1>7. Registered(order, w) = map[N]
  BY Zenon DEF Registered
<1>8. <<>> \in Seq(Clock)
  OBVIOUS
<1> HIDE DEF step, N, new
<1>9. PICK s \in [0 .. N -> Seq(Clock)] : Recurs(s, N, Seq(Clock), <<>>, step)
  BY <1>1, <1>5, <1>8, Recursion
<1>10. s[0] = <<>> /\ \A n \in 1 .. N : s[n] = AddClock(s[n - 1], new[n])
  <2>1. \A n \in 1 .. N : s[n - 1] \in Seq(Clock)
    BY <1>1
  <2> QED
    BY <1>6, <1>9, <2>1 DEF Recurs
<1>11. map = [n \in 0 .. N |-> IF n = 0 THEN <<>>
                              ELSE AddClock(map[n - 1], New(order[n], w[order[n]]))]
  <2>1. s = [n \in 0 .. N |-> IF n = 0 THEN <<>>
                             ELSE AddClock(s[n - 1], New(order[n], w[order[n]]))]
    BY <1>1, <1>10, <1>20
  <2> QED
    BY <2>1, Zenon
<1> HIDE DEF map
<1>12. map[N] = s[N]
  <2>1. \A n \in 0 .. N : map[n] = IF n = 0 THEN <<>>
                                   ELSE AddClock(map[n - 1], New(order[n], w[order[n]]))
    BY <1>11, Zenon
  <2>2. map[0] = <<>>
    BY <1>1, <2>1
  <2>6. ASSUME NEW n \in 1 .. N PROVE map[n] = AddClock(map[n - 1], new[n])
    <3>1. n \in 0 .. N /\ n # 0
      BY <1>1
    <3>2. map[n] = AddClock(map[n - 1], New(order[n], w[order[n]]))
      BY <2>1, <3>1, Zenon
    <3> QED
      BY <1>20, <3>2, Zenon
  <2>3. Recurs(map, N, Seq(Clock), <<>>, step)
    BY <1>6, <2>2, <2>6 DEF Recurs
  <2> DEFINE T == Seq(Clock)
  <2>4. /\ N \in Nat /\ s \in [0 .. N -> T]
        /\ Recurs(s, N, T, <<>>, step) /\ Recurs(map, N, T, <<>>, step)
    BY <1>1, <1>9, <2>3
  <2> HIDE DEF T
  <2>5. \A n \in 0 .. N : map[n] = s[n]
    BY <2>4, OneRecursion
  <2> QED
    BY <1>1, <2>5
<1> DEFINE On(n) == \A i \in 1 .. n : new[i].enabled
           Good == {n \in 0 .. N : /\ Distinct(s[n])
                                   /\ ToSet(s[n]) = {new[i] : i \in 1 .. n}
                                   /\ On(n) => Ordered(s[n])}
<1>13. 0 \in Good
  <2>1. DOMAIN s[0] = {} /\ 1 .. 0 = {}
    BY <1>10
  <2> QED
    BY <1>1, <1>10, <2>1 DEF Distinct, Ordered, ToSet
<1>14. ASSUME NEW n \in 1 .. N, n - 1 \in Good PROVE n \in Good
  <2>1. /\ s[n - 1] \in Seq(Clock) /\ Distinct(s[n - 1]) /\ new[n] \in Clock
        /\ s[n] = AddClock(s[n - 1], new[n])
        /\ ToSet(s[n - 1]) = {new[i] : i \in 1 .. n - 1}
    BY <1>1, <1>3, <1>10, <1>14
  <2>2. \A d \in ToSet(s[n - 1]) : d.name # new[n].name
    <3>1. \A i \in 1 .. n - 1 : new[i].name # new[n].name
      BY <1>1, <1>3
    <3> QED
      BY <2>1, <3>1
  <2>3. /\ Distinct(s[n]) /\ ToSet(s[n]) = ToSet(s[n - 1]) \cup {new[n]}
        /\ (\A d \in ToSet(s[n - 1]) \cup {new[n]} : d.enabled) => Ordered(s[n])
    BY <2>1, <2>2, AddKeeps
  <2>4. ToSet(s[n]) = {new[i] : i \in 1 .. n}
    BY <1>1, <2>1, <2>3
  <2>5. On(n) => Ordered(s[n])
    BY <2>3, <2>4
  <2> QED
    BY <2>3, <2>4, <2>5
<1>15. 0 .. N \subseteq Good
  <2> HIDE DEF Good
  <2> QED
    BY <1>1, <1>13, <1>14, Induction
<1>16. /\ s[N] \in Seq(Clock) /\ Distinct(s[N]) /\ ToSet(s[N]) = {new[i] : i \in 1 .. N}
       /\ On(N) => Ordered(s[N])
  BY <1>1, <1>15
<1>17. {new[i] : i \in 1 .. N} = {New(n, w[n]) : n \in Clocks}
  <2>1. \A i \in 1 .. N : \E n \in Clocks : new[i] = New(n, w[n])
    BY <1>1, <1>20
  <2>2. \A n \in Clocks : \E i \in 1 .. N : new[i] = New(n, w[n])
    BY <1>2, <1>20
  <2> QED
    BY <2>1, <2>2
<1>18. {c.name : c \in ToSet(s[N])} = Clocks
  <2>1. {c.name : c \in ToSet(s[N])} = {order[i] : i \in 1 .. N}
    BY <1>3, <1>16
  <2>2. \A i \in 1 .. N : order[i] \in Clocks
    BY <1>1
  <2> QED
    BY <1>2, <2>1, <2>2
<1>19. (\A n \in Clocks : w[n].high > 0) => On(N)
  BY <1>1, <1>3
<1> QED
  BY <1>7, <1>12, <1>16, <1>17, <1>18, <1>19 DEF Complete

-----------------------------------------------------------------------------
(* Events.                                                                  *)

\* The least element of a set of times is one of them.
LEMMA MinIs ==
  ASSUME NEW sl \in SUBSET Nat, sl # {}
  PROVE  Min(sl) \in sl /\ \A s \in sl : Min(sl) <= s
<1>1. \E m \in sl : \A n \in sl : m <= n
  BY Least
<1> QED
  BY <1>1, Zenon DEF Min

\* The next event is one of the model or that of the clock at the head.
LEMMA NextEventIs ==
  ASSUME NEW cl, Complete(cl), NEW sl \in SUBSET Nat, has_events_pending(cl, sl)
  PROVE  /\ next_event_time(cl, sl) \in Nat
         /\ \/ next_event_time(cl, sl) \in sl
            \/ \E c \in ToSet(cl) : c = Head(cl) /\ next_event_time(cl, sl) = c.next
<1>1. sl # {} => Min(sl) \in sl
  BY MinIs
<1>2. CASE HasNextEvent(cl) /\ (sl = {} \/ NextEvent(cl) <= Min(sl))
  <2>1. cl \in Seq(Clock) /\ cl # <<>>
    BY <1>2 DEF HasNextEvent, Complete
  <2>2. Head(cl) \in ToSet(cl) /\ Head(cl) \in Clock
    <3>1. Head(cl) = cl[1] /\ 1 \in 1 .. Len(cl)
      BY <2>1
    <3> QED
      BY <2>1, <3>1, ElementsOf
  <2>3. next_event_time(cl, sl) = Head(cl).next
    BY <1>2 DEF next_event_time, NextEvent
  <2>4. Head(cl).next \in Nat
    BY <2>2 DEF Clock
  <2> QED
    BY <2>2, <2>3, <2>4
<1>3. CASE ~(HasNextEvent(cl) /\ (sl = {} \/ NextEvent(cl) <= Min(sl)))
  <2>1. next_event_time(cl, sl) = Min(sl) /\ sl # {}
    BY <1>3 DEF next_event_time, has_events_pending
  <2> QED
    BY <1>1, <2>1
<1> QED
  BY <1>2, <1>3

\* It is no later than any event, also when a disabled clock is at the head: then it
\* is 0.  With steady clocks it is one of the events.
LEMMA NextEventIsFirst ==
  ASSUME NEW cl, Complete(cl), NEW sl \in SUBSET Nat, has_events_pending(cl, sl),
         EnabledInOrder(cl), IdleAtZero(cl)
  PROVE  /\ \A s \in sl : next_event_time(cl, sl) <= s
         /\ \A c \in ToSet(cl) : c.enabled => next_event_time(cl, sl) <= c.next
         /\ Steady(cl) =>
              \/ next_event_time(cl, sl) \in sl
              \/ \E c \in ToSet(cl) : c.enabled /\ next_event_time(cl, sl) = c.next
<1>1. sl # {} => Min(sl) \in sl /\ \A s \in sl : Min(sl) <= s
  BY MinIs
<1>2. /\ cl \in Seq(Clock) /\ Len(cl) \in Nat /\ DOMAIN cl = 1 .. Len(cl)
      /\ \A i \in 1 .. Len(cl) : cl[i] \in ToSet(cl) /\ cl[i].next \in Nat
      /\ \A c \in ToSet(cl) : c.next \in Nat /\ \E i \in 1 .. Len(cl) : c = cl[i]
  <2>1. \A c \in Clock : c.next \in Nat
    BY DEF Clock
  <2> QED
    BY <2>1, ElementsOf DEF Complete
<1>3. ASSUME HasNextEvent(cl)
      PROVE  /\ NextEvent(cl) \in Nat
             /\ Steady(cl) => \E c \in ToSet(cl) : c.enabled /\ NextEvent(cl) = c.next
             /\ \A c \in ToSet(cl) : c.enabled => NextEvent(cl) <= c.next
  <2>1. PICK i \in 1 .. Len(cl) : cl[i].enabled
    BY <1>2, <1>3 DEF HasNextEvent
  <2>2. 1 \in 1 .. Len(cl) /\ cl # <<>> /\ NextEvent(cl) = cl[1].next
    BY <1>2, <2>1 DEF NextEvent
  <2>3. Steady(cl) => cl[1].enabled
    BY <1>2, <2>1, <2>2 DEF Steady
  <2>4. ASSUME NEW k \in 1 .. Len(cl), cl[k].enabled PROVE cl[1].next <= cl[k].next
    <3>1. CASE k = 1
      BY <1>2, <3>1
    <3>2. CASE 1 < k /\ cl[1].enabled
      BY <1>2, <2>2, <2>4, <3>2 DEF EnabledInOrder
    <3>3. CASE ~cl[1].enabled
      <4>1. cl[1].next = 0
        BY <1>2, <2>2, <3>3 DEF IdleAtZero
      <4> QED
        BY <1>2, <4>1
    <3> QED
      BY <3>1, <3>2, <3>3
  <2> QED
    BY <1>2, <2>2, <2>3, <2>4
<1>4. CASE HasNextEvent(cl) /\ (sl = {} \/ NextEvent(cl) <= Min(sl))
  <2>1. next_event_time(cl, sl) = NextEvent(cl)
    BY <1>4 DEF next_event_time
  <2>2. ASSUME NEW s \in sl PROVE NextEvent(cl) <= s
    <3>1. Min(sl) \in Nat /\ Min(sl) <= s /\ NextEvent(cl) <= Min(sl) /\ s \in Nat
      BY <1>1, <1>4
    <3> QED
      BY <1>3, <1>4, <3>1
  <2> QED
    BY <1>3, <1>4, <2>1, <2>2
<1>5. CASE ~(HasNextEvent(cl) /\ (sl = {} \/ NextEvent(cl) <= Min(sl)))
  <2>1. next_event_time(cl, sl) = Min(sl) /\ sl # {}
    BY <1>5 DEF next_event_time, has_events_pending
  <2>2. ASSUME NEW c \in ToSet(cl), c.enabled PROVE Min(sl) <= c.next
    <3>1. HasNextEvent(cl)
      BY <1>2, <2>2 DEF HasNextEvent
    <3>2. ~(NextEvent(cl) <= Min(sl)) /\ NextEvent(cl) <= c.next /\ Min(sl) \in Nat
      BY <1>1, <1>3, <1>5, <2>1, <2>2, <3>1
    <3> QED
      BY <1>2, <1>3, <3>1, <3>2
  <2> QED
    BY <1>1, <2>1, <2>2
<1> QED
  BY <1>4, <1>5

\* Evaluating the model runs what is due and leaves what is to come.
LEMMA EvalModelDoes ==
  ASSUME EvalModel, time \in Nat, slots \in SUBSET Nat, gotFinish \in BOOLEAN
  PROVE  /\ sig' \in Nat /\ gotFinish' \in BOOLEAN /\ slots' \in SUBSET Nat
         /\ \A s \in slots' : s > time
         /\ \A s \in slots : s > time => s \in slots'
<1>1. sig' \in Nat /\ gotFinish' \in BOOLEAN
  BY IntegAssumption DEF EvalModel
<1>2. PICK new \in SUBSET {time + d : d \in Delays} : slots' = {s \in slots : s > time} \cup new
  BY DEF EvalModel
<1>3. \A s \in new : s \in Nat /\ s > time
  BY <1>2, IntegAssumption
<1> QED
  BY <1>1, <1>2, <1>3

LEMMA DisableType ==
  ASSUME NEW c \in Clock
  PROVE  /\ Disable(c) \in Clock /\ Disable(c).name = c.name /\ Disable(c).value = c.value
         /\ ~c.enabled => Disable(c) = c
         /\ c.enabled /\ c.value = 0 => ~Disable(c).enabled /\ Disable(c).next = 0
         /\ c.enabled /\ c.value = 1 => /\ Disable(c).enabled /\ Disable(c).waiting
                                       /\ Disable(c).next = c.next
<1>1. c.value \in {0, 1}
  BY DEF Clock
<1>2. CASE ~c.enabled
  BY <1>2 DEF Disable
<1>3. CASE c.enabled /\ c.value = 0
  <2>1. Disable(c) = Stopped(c)
    BY <1>3 DEF Disable
  <2>2. Stopped(c) \in Clock /\ Stopped(c).name = c.name /\ Stopped(c).value = c.value
        /\ Stopped(c).enabled = FALSE /\ Stopped(c).next = 0
    BY DEF Stopped, Clock
  <2> QED
    BY <1>3, <2>1, <2>2
<1>4. CASE c.enabled /\ c.value = 1
  <2>1. Disable(c) = [c EXCEPT !.waiting = TRUE]
    BY <1>4 DEF Disable
  <2>2. /\ Disable(c) \in Clock /\ Disable(c).name = c.name /\ Disable(c).value = c.value
        /\ Disable(c).enabled = c.enabled /\ Disable(c).waiting = TRUE
        /\ Disable(c).next = c.next
    BY <2>1 DEF Clock
  <2> QED
    BY <1>4, <2>2
<1> QED
  BY <1>1, <1>2, <1>3, <1>4

LEMMA SetPeriodType ==
  ASSUME NEW c \in Clock, NEW w \in Waves
  PROVE  /\ SetPeriod(c, w) \in Clock /\ SetPeriod(c, w).name = c.name
         /\ SetPeriod(c, w).enabled = c.enabled /\ SetPeriod(c, w).waiting = c.waiting
         /\ SetPeriod(c, w).next = c.next /\ SetPeriod(c, w).value = c.value
<1>1. w.high \in Nat /\ w.low \in Nat \ {0}
  BY ClocksAssumption
<1> QED
  BY <1>1 DEF SetPeriod, Clock

-----------------------------------------------------------------------------
(* Types.                                                                   *)

\* State, sockets and request go together; a request names a clock when it is about one.
ControlType ==
  /\ state \in {"INIT", "CONNECT", "WAITING", "PROCESSING", "SIM_RUNNING",
                "SIM_FINISH", "EXIT", "ERROR"}
  /\ srv \in BOOLEAN /\ client \in BOOLEAN /\ uuid \in Nat \cup {NoUuid}
  /\ cur \in Request \cup {NoReq} /\ last \in Answer
  /\ state \in {"WAITING", "PROCESSING", "SIM_RUNNING"} => srv /\ client
  /\ state = "CONNECT" => srv
  /\ state \in {"PROCESSING", "SIM_RUNNING"} => cur \in Request
  /\ state \in {"SIM_RUNNING", "SIM_FINISH"} => cur.kind \in RunKinds
  /\ cur.kind = "exit" => state \in {"PROCESSING", "EXIT"}
  /\ cur.kind \in Kinds \cup {"none"}
  /\ cur.kind \in {"clk_on", "clk_off", "clk_cfg"} => cur.clk \in Clocks

ModelType ==
  /\ cb_time \in Nat /\ cb_value \in Nat
  /\ Complete(clocks) /\ wanted \in SUBSET Clocks
  /\ time \in Nat /\ gotFinish \in BOOLEAN /\ slots \in SUBSET Nat /\ sig \in Nat

\* What one iteration of main_sim does: the simulation goes on to the next event, ...
SimStep ==
  /\ state = "SIM_RUNNING"
  /\ UNCHANGED <<srv, client, uuid, cb_time, cb_value, nread, cur, wanted>>

Goes ==
  /\ SimStep /\ eval
  /\ has_events_pending(clocks', slots')
  /\ ~(timeCb /\ next_event_time(clocks', slots') >= cb_time)
  /\ time' = next_event_time(clocks', slots')
  /\ UNCHANGED <<state, timeCb, valueCb, nrep, last>>

\* arrives at the time it was to run to, which is no later than the next event,
Arrives ==
  /\ SimStep /\ eval /\ timeCb
  /\ has_events_pending(clocks', slots') => next_event_time(clocks', slots') >= cb_time
  /\ Reached /\ time' = cb_time

\* stops at the value it was to run to,
Changes ==
  SimStep /\ eval /\ valueCb /\ sig' = cb_value /\ Reached /\ time' = time

\* or ends.
Ends ==
  SimStep /\ (eval \/ UNCHANGED modelVars) /\ SimEnds /\ time' = time

\* What an iteration of the loop of main_sim may do.
LEMMA SimCases ==
  ASSUME main_sim
  PROVE  Goes \/ Arrives \/ Changes \/ Ends
<1>1. SimStep
  BY DEF main_sim, SimStep
<1>2. CASE gotFinish
  BY <1>1, <1>2 DEF main_sim, Ends, modelVars
<1>3. CASE ~gotFinish
  <2>1. eval /\ AfterEval
    BY <1>3 DEF main_sim
  <2>2. CASE gotFinish'
    BY <1>1, <2>1, <2>2 DEF AfterEval, Ends
  <2>3. CASE ~gotFinish' /\ check_value_callback(sig')
    BY <1>1, <2>1, <2>3 DEF AfterEval, check_value_callback, Changes
  <2>4. CASE ~gotFinish' /\ ~check_value_callback(sig') /\ ~has_events_pending(clocks', slots')
    BY <1>1, <2>1, <2>4 DEF AfterEval, Arrives, Ends
  <2>5. CASE /\ ~gotFinish' /\ ~check_value_callback(sig') /\ has_events_pending(clocks', slots')
    <3>1. CASE timeCb /\ next_event_time(clocks', slots') >= cb_time
      BY <1>1, <2>1, <2>5, <3>1 DEF AfterEval, Arrives
    <3>2. CASE ~(timeCb /\ next_event_time(clocks', slots') >= cb_time)
      BY <1>1, <2>1, <2>5, <3>2 DEF AfterEval, Goes
    <3> QED
      BY <3>1, <3>2
  <2> QED
    BY <2>2, <2>3, <2>4, <2>5
<1> QED
  BY <1>2, <1>3

\* What a handler answers is an answer.
LEMMA AnswerType ==
  ASSUME NEW type \in {"ack", "result", "warning", "error"}, Return(type, uuid),
         uuid \in Nat \cup {NoUuid}
  PROVE  last' \in Answer /\ last'.type = type
  BY DEF Return, Answer

\* A handler changes neither sockets nor request; where it leads depends on its kind.
LEMMA HandlerShape ==
  ASSUME main_process, uuid \in Nat \cup {NoUuid}, last \in Answer
  PROVE  /\ state = "PROCESSING" /\ UNCHANGED <<srv, client, uuid, nread, cur>>
         /\ last' \in Answer
         /\ \/ state' = "SIM_RUNNING" /\ cur.kind \in RunKinds
            \/ state' = "WAITING" /\ cur.kind # "exit"
            \/ state' = "EXIT" /\ cur.kind \in {"exit", "finish"}
            \/ state' = "PROCESSING" /\ cur.kind = "exit"
<1>1. ASSUME NEW types \in SUBSET {"ack", "result", "warning", "error"}, Reply(types)
      PROVE  last' \in Answer /\ state' = "WAITING"
  BY <1>1, AnswerType DEF Reply
<1>2. CASE CmdInfo \/ CmdGet \/ CmdType \/ CmdBad \/ CmdStop
  BY <1>1, <1>2 DEF CmdInfo, CmdGet, CmdType, CmdBad, CmdStop, Processing
<1>3. CASE CmdSetValue \/ CmdClockError \/ CmdClockOn \/ CmdClockOff \/ CmdClockCfg
  BY <1>1, <1>3 DEF CmdSetValue, CmdClockError, CmdClockOn, CmdClockOff, CmdClockCfg, Processing
<1>4. CASE CmdRunTime \/ CmdRunUntilChange \/ CmdRunError
  BY <1>1, <1>4 DEF CmdRunTime, CmdRunUntilChange, CmdRunError, Processing, RunKinds
<1>5. CASE CmdRunToNext
  <2>1. state = "PROCESSING" /\ UNCHANGED <<srv, client, uuid, nread, cur>> /\ cur.kind = "to_next"
    BY <1>5 DEF CmdRunToNext, Processing
  <2>2. \/ state' = "SIM_RUNNING" /\ last' = last
        \/ Reply({"error"})
    BY <1>5 DEF CmdRunToNext
  <2> QED
    BY <1>1, <2>1, <2>2 DEF RunKinds
<1>6. CASE CmdFinish \/ CmdExit
  BY <1>6, AnswerType DEF CmdFinish, CmdExit, Processing
<1>7. CASE CmdExitLoop
  <2>1. /\ state = "PROCESSING" /\ UNCHANGED <<srv, client, uuid, nread, cur, last>>
        /\ cur.kind = "exit"
    BY <1>7 DEF CmdExitLoop, histVars
  <2>2. state' \in {"PROCESSING", "EXIT"}
    BY <1>7, <2>1 DEF CmdExitLoop
  <2> QED
    BY <2>1, <2>2
<1> QED
  BY <1>2, <1>3, <1>4, <1>5, <1>6, <1>7 DEF main_process

LEMMA InitControlType == Init => ControlType
<1> SUFFICES ASSUME Init PROVE ControlType
  OBVIOUS
<1>1. NoReq.kind = "none" /\ NoReply \in Answer
  BY DEF NoReq, NoReply, Answer
<1>2. /\ state = "INIT" /\ srv = FALSE /\ client = FALSE /\ uuid = NoUuid
      /\ cur = NoReq /\ last = NoReply
  BY DEF Init
<1> QED
  BY <1>1, <1>2 DEF ControlType

LEMMA RequestType ==
  ASSUME nread \in Nat, time \in Nat,
         NEW k \in Kinds, NEW t \in BOOLEAN, NEW a \in Args(k), NEW c \in ClockArgs(k),
         NEW m, m = [id |-> nread + 1, kind |-> k, arg |-> a, clk |-> c, tagged |-> t,
                     t0 |-> time]
  PROVE  /\ m \in Request /\ m.kind = k /\ m.id = nread + 1 /\ m.t0 = time
         /\ m.kind \in {"clk_on", "clk_off", "clk_cfg"} => m.clk \in Clocks
<1>1. k \in AllKinds /\ a \in Nat /\ c \in Clocks \cup {NoClock}
  BY IntegAssumption DEF Args, ClockArgs
<1>2. k \in {"clk_on", "clk_off", "clk_cfg"} => c \in Clocks
  BY DEF ClockArgs
<1> QED
  BY <1>1, <1>2 DEF Request

\* What reading a message changes, and the types of what it reads.
LEMMA WaitShape ==
  ASSUME main_wait, nread \in Nat, time \in Nat
  PROVE  /\ state = "WAITING" /\ UNCHANGED <<srv, client, callbackVars, modelVars, wanted>>
         /\ cur' \in Request /\ cur'.kind \in Kinds /\ cur'.t0 = time
         /\ cur'.kind \in {"clk_on", "clk_off", "clk_cfg"} => cur'.clk \in Clocks
         /\ nread' = nread + 1 /\ uuid' \in Nat \cup {NoUuid}
         /\ \/ /\ state' = "WAITING" /\ cur'.kind \in {"toolong", "notjson"}
               /\ last' \in Answer /\ nrep' = nrep + 1
            \/ state' = "PROCESSING" /\ last' = last /\ nrep' = nrep
<1>1. PICK k \in Kinds, t \in BOOLEAN : \E a \in Args(k), c \in ClockArgs(k) :
        ReadMessage([id |-> nread + 1, kind |-> k, arg |-> a, clk |-> c,
                     tagged |-> t, t0 |-> time])
  BY DEF main_wait
<1>2. PICK a \in Args(k), c \in ClockArgs(k) :
        ReadMessage([id |-> nread + 1, kind |-> k, arg |-> a, clk |-> c,
                     tagged |-> t, t0 |-> time])
  BY <1>1
<1> DEFINE m == [id |-> nread + 1, kind |-> k, arg |-> a, clk |-> c, tagged |-> t,
                 t0 |-> time]
<1>3. /\ m \in Request /\ m.kind = k /\ m.id = nread + 1 /\ m.t0 = time
      /\ m.kind \in {"clk_on", "clk_off", "clk_cfg"} => m.clk \in Clocks
  BY RequestType
<1>4. ReadMessage(m)
  BY <1>2
<1> HIDE DEF m
<1>5. cur' = m /\ nread' = nread + 1 /\ uuid' \in Nat \cup {NoUuid}
  BY <1>3, <1>4 DEF ReadMessage, StoredUuid
<1>6. state = "WAITING" /\ UNCHANGED <<srv, client, callbackVars, modelVars, wanted>>
  BY DEF main_wait
<1>7. CASE m.kind \in {"toolong", "notjson"}
  <2>1. Return("error", uuid') /\ state' = "WAITING"
    BY <1>4, <1>6, <1>7 DEF ReadMessage
  <2>2. last' \in Answer /\ nrep' = nrep + 1
    BY <1>5, <2>1 DEF Return, Answer
  <2> QED
    BY <1>3, <1>5, <1>6, <1>7, <2>1, <2>2
<1>8. CASE m.kind \notin {"toolong", "notjson"}
  <2>1. state' = "PROCESSING" /\ last' = last /\ nrep' = nrep
    BY <1>4, <1>8 DEF ReadMessage
  <2> QED
    BY <1>3, <1>5, <1>6, <2>1
<1> QED
  BY <1>7, <1>8

LEMMA NextControlType ==
  ControlType /\ Control /\ time \in Nat /\ [Next]_vars => ControlType'
<1> SUFFICES ASSUME ControlType, Control, time \in Nat, [Next]_vars PROVE ControlType'
  OBVIOUS
<1>1. CASE UNCHANGED vars
  BY <1>1 DEF vars, callbackVars, modelVars, histVars, ControlType
<1>2. CASE main_init \/ main_connect \/ LoseClient \/ main_sim_finish \/ Leave
  <2>1. UNCHANGED <<uuid, cur, last>>
    BY <1>2 DEF main_init, main_connect, LoseClient, main_sim_finish, Leave, histVars
  <2>2. \/ state = "INIT" /\ state' = "CONNECT" /\ client' = client /\ srv' = TRUE
        \/ state = "INIT" /\ state' = "ERROR" /\ client' = client /\ srv' = FALSE
        \/ state = "CONNECT" /\ state' = "WAITING" /\ srv' = srv /\ client' = TRUE
        \/ state = "CONNECT" /\ state' = "ERROR" /\ srv' = srv /\ client' = FALSE
        \/ state = "WAITING" /\ state' = "CONNECT" /\ srv' = srv /\ client' = FALSE
        \/ state = "SIM_FINISH" /\ state' = "EXIT" /\ srv' = srv /\ client' = client
        \/ state \in {"EXIT", "ERROR"} /\ state' = state /\ srv' = FALSE /\ client' = client
    BY <1>2 DEF main_init, main_connect, LoseClient, main_sim_finish, Leave
  <2> QED
    BY <2>1, <2>2 DEF ControlType
<1>3. CASE main_wait
  <2>1. nread \in Nat
    BY DEF Control
  <2> QED
    BY <1>3, <2>1, WaitShape DEF ControlType, AllKinds, RunKinds
<1>4. CASE main_process
  <2>1. /\ state = "PROCESSING" /\ UNCHANGED <<srv, client, uuid, nread, cur>>
        /\ last' \in Answer
        /\ \/ state' = "SIM_RUNNING" /\ cur.kind \in RunKinds
           \/ state' = "WAITING" /\ cur.kind # "exit"
           \/ state' = "EXIT" /\ cur.kind \in {"exit", "finish"}
           \/ state' = "PROCESSING" /\ cur.kind = "exit"
    BY <1>4, HandlerShape DEF ControlType
  <2> QED
    BY <2>1 DEF ControlType, RunKinds
<1>5. CASE main_sim
  <2>1. /\ state = "SIM_RUNNING" /\ UNCHANGED <<srv, client, uuid, nread, cur>>
        /\ cur.kind # "exit"
    BY <1>5 DEF main_sim, ControlType, RunKinds
  <2>2. \/ state' = state /\ last' = last
        \/ state' = "WAITING" /\ Return("ack", uuid)
        \/ state' = "SIM_FINISH" /\ (Return("error", uuid) \/ last' = last)
    BY <1>5, SimCases DEF Goes, Arrives, Changes, Ends, Reached, SimEnds
  <2>3. last' \in Answer /\ state' \in {state, "WAITING", "SIM_FINISH"}
    BY <2>2, AnswerType DEF ControlType
  <2> QED
    BY <2>1, <2>3 DEF ControlType
<1> QED
  BY <1>1, <1>2, <1>3, <1>4, <1>5 DEF Next

-----------------------------------------------------------------------------
(* What a step does to clocks, events and time.                             *)

Still == UNCHANGED <<clocks, time, slots, wanted>>

\* A clock is enabled, disabled or configured.
Switches ==
  /\ state = "PROCESSING" /\ cur' = cur
  /\ time' = time /\ slots' = slots
  /\ \/ /\ cur.kind = "clk_on" /\ wanted' = wanted \cup {cur.clk}
        /\ clocks' = Put(clocks, Enable(get_clock(clocks, cur.clk), time))
     \/ /\ cur.kind = "clk_off" /\ wanted' = wanted \ {cur.clk}
        /\ clocks' = Put(clocks, Disable(get_clock(clocks, cur.clk)))
     \/ /\ cur.kind = "clk_cfg" /\ wanted' = wanted
        /\ \E w \in Waves : clocks' = Put(clocks, SetPeriod(get_clock(clocks, cur.clk), w))

\* Clocks and model are evaluated, and time stands still.
Evals ==
  /\ eval /\ time' = time /\ wanted' = wanted /\ cur' = cur
  /\ cur.kind = "to_next" \/ state \in {"SIM_RUNNING", "SIM_FINISH"}

\* The loop of exit goes on to the next event of the model, if there is one.
Leaps ==
  /\ state = "PROCESSING" /\ cur.kind = "exit" /\ cur' = cur
  /\ clocks' = clocks /\ wanted' = wanted /\ EvalModel
  /\ time' = IF slots' = {} THEN time ELSE Min(slots')

\* What a step does to the model and the clocks.
LEMMA ModelSteps ==
  ASSUME [Next]_vars
  PROVE  Still \/ Switches \/ Evals \/ Goes \/ Arrives \/ Leaps
<1>1. CASE UNCHANGED vars
  BY <1>1 DEF vars, modelVars, histVars, Still
<1>2. CASE main_init \/ main_connect \/ LoseClient \/ Leave
  BY <1>2 DEF main_init, main_connect, LoseClient, Leave, modelVars, histVars, Still
<1>3. CASE main_wait
  BY <1>3 DEF main_wait, modelVars, Still
<1>4. CASE main_process
  <2>1. CASE CmdInfo \/ CmdGet \/ CmdType \/ CmdBad \/ CmdStop
    BY <2>1 DEF CmdInfo, CmdGet, CmdType, CmdBad, CmdStop, modelVars, Still
  <2>2. CASE CmdSetValue \/ CmdClockError \/ CmdRunTime \/ CmdRunUntilChange
    BY <2>2 DEF CmdSetValue, CmdClockError, CmdRunTime, CmdRunUntilChange, modelVars, Still
  <2>3. CASE CmdRunError \/ CmdFinish \/ CmdExit
    BY <2>3 DEF CmdRunError, CmdFinish, CmdExit, modelVars, Still
  <2>4. CASE CmdClockOn \/ CmdClockOff
    BY <2>4 DEF CmdClockOn, CmdClockOff, Processing, Switches
  <2>5. CASE CmdClockCfg
    BY <2>5 DEF CmdClockCfg, Processing, Switches, Still
  <2>6. CASE CmdRunToNext
    BY <2>6 DEF CmdRunToNext, Processing, Evals
  <2>7. CASE CmdExitLoop
    <3>1. CASE gotFinish
      BY <2>7, <3>1 DEF CmdExitLoop, modelVars, histVars, Still
    <3>2. CASE ~gotFinish
      BY <2>7, <3>2 DEF CmdExitLoop, histVars, Leaps
    <3> QED
      BY <3>1, <3>2
  <2> QED
    BY <1>4, <2>1, <2>2, <2>3, <2>4, <2>5, <2>6, <2>7 DEF main_process
<1>5. CASE main_sim
  <2>1. CASE Changes
    BY <2>1 DEF Changes, SimStep, Evals
  <2>2. CASE Ends
    BY <2>2 DEF Ends, SimStep, modelVars, Evals, Still
  <2> QED
    BY <1>5, <2>1, <2>2, SimCases
<1>6. CASE main_sim_finish
  BY <1>6 DEF main_sim_finish, histVars, Evals
<1> QED
  BY <1>1, <1>2, <1>3, <1>4, <1>5, <1>6 DEF Next

\* An evaluation keeps the clock map complete.
LEMMA EvalClocks ==
  ASSUME eval, ModelType
  PROVE  Complete(clocks')
<1>1. \A c \in Clock : Eval(c, time) \in Clock
  BY EvalType DEF ModelType
<1>2. ToSet(clocks) \subseteq Clock
  BY ElementsOf DEF ModelType, Complete
<1> QED
  BY <1>1, <1>2, EvalAllKeeps DEF eval, ModelType

\* The watched variable, the end of the simulation and the callback have their types.
LEMMA ValueTypes ==
  ASSUME [Next]_vars, ModelType, ControlType
  PROVE  /\ sig' \in Nat /\ gotFinish' \in BOOLEAN
         /\ cb_time' \in Nat /\ cb_value' \in Nat
<1> USE DEF ModelType
<1>1. CASE UNCHANGED vars
  BY <1>1 DEF vars, modelVars, callbackVars
<1>2. CASE main_init \/ main_connect \/ LoseClient \/ Leave
  BY <1>2 DEF main_init, main_connect, LoseClient, Leave, modelVars, callbackVars
<1>3. CASE main_wait
  BY <1>3 DEF main_wait, modelVars, callbackVars
<1>4. EvalModel => sig' \in Nat /\ gotFinish' \in BOOLEAN /\ slots' \in SUBSET Nat
  BY EvalModelDoes
<1>5. CASE main_process
  <2>1. CASE CmdInfo \/ CmdGet \/ CmdType \/ CmdBad \/ CmdStop
    BY <2>1 DEF CmdInfo, CmdGet, CmdType, CmdBad, CmdStop, modelVars, callbackVars
  <2>2. CASE CmdSetValue
    <3>1. cur.arg \in Nat
      BY <2>2 DEF CmdSetValue, Processing, ControlType, Request
    <3> QED
      BY <2>2, <3>1 DEF CmdSetValue, callbackVars
  <2>3. CASE CmdClockError \/ CmdRunError \/ CmdFinish \/ CmdExit
    BY <2>3 DEF CmdClockError, CmdRunError, CmdFinish, CmdExit, modelVars, callbackVars
  <2>4. CASE CmdClockOn \/ CmdClockOff \/ CmdClockCfg
    BY <2>4 DEF CmdClockOn, CmdClockOff, CmdClockCfg, callbackVars
  <2>5. CASE CmdRunTime \/ CmdRunUntilChange
    <3>1. cur.arg \in Nat
      BY <2>5 DEF CmdRunTime, CmdRunUntilChange, Processing, ControlType, Request
    <3>2. CbTime(cur) \in Nat
      BY <3>1 DEF CbTime, Ticks
    <3> QED
      BY <2>5, <3>1, <3>2 DEF CmdRunTime, CmdRunUntilChange, register_time_callback, modelVars
  <2>6. CASE CmdRunToNext
    <3>1. eval /\ EvalModel
      BY <2>6 DEF CmdRunToNext, eval
    <3>2. CASE /\ has_events_pending(clocks', slots')
               /\ Registrable(next_event_time(clocks', slots'))
      <4>1. next_event_time(clocks', slots') \in Nat
        BY <1>4, <3>1, <3>2, EvalClocks, NextEventIs
      <4> QED
        BY <1>4, <2>6, <3>1, <3>2, <4>1 DEF CmdRunToNext, register_time_callback
    <3>3. CASE ~(/\ has_events_pending(clocks', slots')
                 /\ Registrable(next_event_time(clocks', slots')))
      BY <1>4, <2>6, <3>1, <3>3 DEF CmdRunToNext, callbackVars
    <3> QED
      BY <3>2, <3>3
  <2>7. CASE CmdExitLoop
    BY <1>4, <2>7 DEF CmdExitLoop, modelVars, callbackVars
  <2> QED
    BY <1>5, <2>1, <2>2, <2>3, <2>4, <2>5, <2>6, <2>7 DEF main_process
<1>6. CASE main_sim
  BY <1>4, <1>6 DEF main_sim, eval, modelVars
<1>7. CASE main_sim_finish
  BY <1>4, <1>7 DEF main_sim_finish, eval, callbackVars
<1> QED
  BY <1>1, <1>2, <1>3, <1>5, <1>6, <1>7 DEF Next

\* Enabling, disabling and configuring replace one clock.
LEMMA SwitchesClock ==
  ASSUME Switches, ModelType, ControlType
  PROVE  \E c \in ToSet(clocks), d \in Clock :
           /\ c \in Clock /\ c.name = cur.clk /\ d.name = cur.clk
           /\ cur.clk \in Clocks /\ clocks' = Put(clocks, d)
           /\ \/ cur.kind = "clk_on" /\ wanted' = wanted \cup {cur.clk} /\ d = Enable(c, time)
              \/ cur.kind = "clk_off" /\ wanted' = wanted \ {cur.clk} /\ d = Disable(c)
              \/ /\ cur.kind = "clk_cfg" /\ wanted' = wanted
                 /\ \E w \in Waves : d = SetPeriod(c, w)
<1> DEFINE c == get_clock(clocks, cur.clk)
<1>1. cur.clk \in Clocks
  BY DEF Switches, ControlType
<1>2. c \in ToSet(clocks) /\ c \in Clock /\ c.name = cur.clk
  BY <1>1, GetClock DEF ModelType
<1>3. \A w \in Waves : SetPeriod(c, w) \in Clock /\ SetPeriod(c, w).name = c.name
  BY <1>2, SetPeriodType
<1>4. Enable(c, time) \in Clock /\ Enable(c, time).name = c.name
  BY <1>2, EnableType DEF ModelType
<1>5. Disable(c) \in Clock /\ Disable(c).name = c.name
  BY <1>2, DisableType
<1> HIDE DEF c
<1>6. CASE cur.kind = "clk_on"
  <2>1. wanted' = wanted \cup {cur.clk} /\ clocks' = Put(clocks, Enable(c, time))
    BY <1>6 DEF Switches, c
  <2> QED
    BY <1>1, <1>2, <1>4, <1>6, <2>1
<1>7. CASE cur.kind = "clk_off"
  <2>1. wanted' = wanted \ {cur.clk} /\ clocks' = Put(clocks, Disable(c))
    BY <1>7 DEF Switches, c
  <2> QED
    BY <1>1, <1>2, <1>5, <1>7, <2>1
<1>8. CASE cur.kind = "clk_cfg"
  <2>1. wanted' = wanted /\ \E w \in Waves : clocks' = Put(clocks, SetPeriod(c, w))
    BY <1>8 DEF Switches, c
  <2> QED
    BY <1>1, <1>2, <1>3, <1>8, <2>1
<1> QED
  BY <1>6, <1>7, <1>8 DEF Switches

LEMMA InitModelType == Init => ModelType
<1> SUFFICES ASSUME Init PROVE ModelType
  OBVIOUS
<1>1. PICK order \in SetToSeqs(Clocks), w \in [Clocks -> Waves] :
        /\ clocks = Registered(order, w)
        /\ wanted = {n \in Clocks : w[n].high > 0}
  BY DEF Init
<1>2. Complete(clocks)
  BY <1>1, RegisteredIs
<1> QED
  BY <1>1, <1>2 DEF Init, ModelType

LEMMA NextModelType == ModelType /\ ControlType /\ [Next]_vars => ModelType'
<1> SUFFICES ASSUME ModelType, ControlType, [Next]_vars PROVE ModelType'
  OBVIOUS
<1>1. /\ sig' \in Nat /\ gotFinish' \in BOOLEAN
      /\ cb_time' \in Nat /\ cb_value' \in Nat
  BY ValueTypes
<1>2. EvalModel => slots' \in SUBSET Nat
  BY EvalModelDoes DEF ModelType
<1>3. CASE Still
  BY <1>1, <1>3 DEF Still, ModelType
<1>4. CASE Switches
  <2>1. PICK d \in Clock : clocks' = Put(clocks, d) /\ wanted' \in SUBSET Clocks
    BY <1>4, SwitchesClock DEF ModelType
  <2>2. Complete(clocks')
    BY <2>1, PutKeeps DEF ModelType
  <2> QED
    BY <1>1, <1>4, <2>1, <2>2 DEF Switches, ModelType
<1>5. CASE Evals
  BY <1>1, <1>2, <1>5, EvalClocks DEF Evals, eval, ModelType
<1>6. CASE Goes \/ Arrives
  <2>1. eval /\ wanted' = wanted
    BY <1>6 DEF Goes, Arrives, SimStep
  <2>2. Complete(clocks') /\ slots' \in SUBSET Nat
    BY <1>2, <2>1, EvalClocks DEF eval
  <2>3. time' \in Nat
    BY <1>6, <2>2, NextEventIs DEF Goes, Arrives, ModelType
  <2> QED
    BY <1>1, <2>1, <2>2, <2>3 DEF ModelType
<1>7. CASE Leaps
  <2>1. slots' \in SUBSET Nat
    BY <1>2, <1>7 DEF Leaps
  <2>2. time' \in Nat
    BY <1>7, <2>1, MinIs DEF Leaps, ModelType
  <2> QED
    BY <1>1, <1>7, <2>1, <2>2 DEF Leaps, ModelType
<1> QED
  BY <1>3, <1>4, <1>5, <1>6, <1>7, ModelSteps

\* All types are kept together.
Typed == Control /\ ControlType /\ ModelType

LEMMA Typing == Spec => []Typed
<1>1. Init => Typed
  BY InitInv, InitControlType, InitModelType DEF IInv, Typed
<1>2. Typed /\ [Next]_vars => Typed'
  BY NextControl, NextControlType, NextModelType DEF Typed, ModelType
<1> QED
  BY <1>1, <1>2, PTL DEF Spec

\* Every variable has its type, each clock is in the list once, and the server serves
\* a request only with both its sockets open.
THEOREM TypeCorrect == Spec => []TypeOK
<1>1. ASSUME Typed PROVE TypeOK
  <2>1. /\ clocks \in Seq(Clock) /\ Len(clocks) = Cardinality(Clocks)
        /\ {c.name : c \in ToSet(clocks)} = Clocks
    BY <1>1, CompleteLength DEF Typed, ModelType, Complete
  <2> QED
    BY <1>1, <2>1 DEF Typed, Control, ControlType, ModelType, TypeOK
<1>2. Typed => TypeOK
  BY <1>1
<1> QED
  BY <1>2, Typing, PTL

-----------------------------------------------------------------------------
(* Clocks obey.                                                             *)

\* An idle clock is low and has no event; one that was told to stop is high, waiting
\* for its falling edge.
Obeys(c, on) ==
  /\ ~c.enabled => c.value = 0 /\ c.next = 0
  /\ c.name \notin on /\ c.enabled => c.waiting /\ c.value = 1

ClockInv == \A c \in ToSet(clocks) : Obeys(c, wanted)

\* A clock that obeys the last request about it does so after its evaluation.
LEMMA EvalObeys ==
  ASSUME NEW c \in Clock, NEW t \in Nat, NEW on, Obeys(c, on)
  PROVE  Obeys(Eval(c, t), on)
<1>1. c.value \in {0, 1} /\ c \in Clock
  BY DEF Clock
<1>2. CASE ~IsDue(c, t)
  BY <1>2 DEF Eval
<1>3. CASE IsDue(c, t) /\ c.value = 0
  <2>1. Eval(c, t) = [c EXCEPT !.value = 1, !.next = c.next + c.high]
    BY <1>3 DEF Eval
  <2>2. Eval(c, t).name = c.name /\ Eval(c, t).enabled = c.enabled
    BY <1>1, <2>1 DEF Clock
  <2>3. c.enabled /\ c.name \in on
    BY <1>3 DEF IsDue, Obeys
  <2> QED
    BY <2>2, <2>3 DEF Obeys
<1>4. CASE IsDue(c, t) /\ c.value # 0 /\ c.waiting
  <2>1. Stopped(c) \in Clock /\ Stopped(c).enabled = FALSE /\ Stopped(c).next = 0
    BY <1>1 DEF Stopped, Clock
  <2>2. Eval(c, t) = [Stopped(c) EXCEPT !.waiting = FALSE, !.value = 0]
    BY <1>4 DEF Eval
  <2>3. Eval(c, t).enabled = FALSE /\ Eval(c, t).next = 0 /\ Eval(c, t).value = 0
    BY <2>1, <2>2 DEF Clock
  <2> QED
    BY <2>3 DEF Obeys
<1>5. CASE IsDue(c, t) /\ c.value # 0 /\ ~c.waiting
  <2>1. Eval(c, t) = [c EXCEPT !.value = 0, !.next = c.next + c.low]
    BY <1>5 DEF Eval
  <2>2. Eval(c, t).name = c.name /\ Eval(c, t).enabled = c.enabled
    BY <1>1, <2>1 DEF Clock
  <2>3. c.enabled /\ c.name \in on
    BY <1>5 DEF IsDue, Obeys
  <2> QED
    BY <2>2, <2>3 DEF Obeys
<1> QED
  BY <1>2, <1>3, <1>4, <1>5

LEMMA EvalClockInv ==
  ASSUME eval, ModelType, ClockInv, wanted' = wanted
  PROVE  ClockInv'
<1> DEFINE K == {c \in Clock : Obeys(c, wanted)}
<1>1. \A c \in K : Eval(c, time) \in K
  BY EvalObeys, EvalType DEF ModelType
<1>2. ToSet(clocks) \subseteq K
  BY ElementsOf DEF ModelType, Complete, ClockInv
<1> HIDE DEF K
<1>3. ToSet(clocks') \subseteq K
  BY <1>1, <1>2, EvalAllKeeps DEF eval, ModelType
<1> QED
  BY <1>3 DEF ClockInv, K

LEMMA InitClockInv == Init => ClockInv
<1> SUFFICES ASSUME Init PROVE ClockInv
  OBVIOUS
<1>1. PICK order \in SetToSeqs(Clocks), w \in [Clocks -> Waves] :
        /\ clocks = Registered(order, w)
        /\ wanted = {n \in Clocks : w[n].high > 0}
  BY DEF Init
<1>2. ToSet(clocks) = {New(n, w[n]) : n \in Clocks}
  BY <1>1, RegisteredIs
<1>3. ASSUME NEW n \in Clocks PROVE Obeys(New(n, w[n]), wanted)
  <2>1. w[n] \in Waves /\ w[n].high \in Nat
    BY ClocksAssumption
  <2> QED
    BY <1>1, <2>1, NewType DEF Obeys
<1> QED
  BY <1>2, <1>3 DEF ClockInv

LEMMA NextClockInv == Typed /\ ClockInv /\ [Next]_vars => ClockInv'
<1> SUFFICES ASSUME Typed, ClockInv, [Next]_vars PROVE ClockInv'
  OBVIOUS
<1>1. CASE Still
  BY <1>1 DEF Still, ClockInv
<1>2. CASE Switches
  <2>1. PICK c \in ToSet(clocks), d \in Clock :
           /\ c \in Clock /\ c.name = cur.clk /\ d.name = cur.clk
           /\ cur.clk \in Clocks /\ clocks' = Put(clocks, d)
           /\ \/ cur.kind = "clk_on" /\ wanted' = wanted \cup {cur.clk} /\ d = Enable(c, time)
              \/ cur.kind = "clk_off" /\ wanted' = wanted \ {cur.clk} /\ d = Disable(c)
              \/ /\ cur.kind = "clk_cfg" /\ wanted' = wanted
                 /\ \E w \in Waves : d = SetPeriod(c, w)
    BY <1>2, SwitchesClock DEF Typed
  <2>2. ToSet(clocks') = {e \in ToSet(clocks) : e.name # d.name} \cup {d}
    BY <2>1, PutKeeps DEF Typed, ModelType
  <2>3. \A e \in ToSet(clocks) : e.name # d.name => Obeys(e, wanted')
    BY <2>1 DEF ClockInv, Obeys
  <2>4. c.value \in {0, 1} /\ Obeys(c, wanted) /\ time \in Nat
    BY <2>1 DEF Clock, ClockInv, Typed, ModelType
  <2>5. Obeys(d, wanted')
    <3>1. CASE wanted' = wanted \cup {cur.clk} /\ d = Enable(c, time)
      BY <2>1, <2>4, <3>1, EnableType DEF Obeys
    <3>2. CASE wanted' = wanted \ {cur.clk} /\ d = Disable(c)
      BY <2>1, <2>4, <3>2, DisableType DEF Obeys
    <3>3. CASE wanted' = wanted /\ \E w \in Waves : d = SetPeriod(c, w)
      BY <2>1, <2>4, <3>3, SetPeriodType DEF Obeys
    <3> QED
      BY <2>1, <3>1, <3>2, <3>3
  <2> QED
    BY <2>2, <2>3, <2>5 DEF ClockInv
<1>3. CASE Evals \/ Goes \/ Arrives
  BY <1>3, EvalClockInv DEF Evals, Goes, Arrives, SimStep, Typed
<1>4. CASE Leaps
  BY <1>4 DEF Leaps, ClockInv
<1> QED
  BY <1>1, <1>2, <1>3, <1>4, ModelSteps

LEMMA Obedience == Spec => [](Typed /\ ClockInv)
<1>1. Typed /\ ClockInv /\ [Next]_vars => ClockInv'
  BY NextClockInv
<1> QED
  BY <1>1, InitClockInv, Typing, PTL DEF Spec

\* A clock that is asked to stop stops, low: at once, or at the next falling edge when
\* it is high; whatever the number of clocks and the order they are kept in.
THEOREM DisabledClocksStop == Spec => []DisableObeyed
<1>1. Typed /\ ClockInv => DisableObeyed
  BY DEF ClockInv, Obeys, DisableObeyed
<1> QED
  BY <1>1, Obedience, PTL

-----------------------------------------------------------------------------
(* Runs.                                                                    *)

\* What a run has in front of it: the condition of its request, not reached yet.  The
\* request was read at the present time when its handler begins.
RunInv ==
  /\ state = "PROCESSING" /\ ~Answered => cur.t0 = time
  /\ Running /\ timeCb => time < cb_time
  /\ Running =>
       /\ cur.kind = "for_time"     => cb_time = cur.t0 + Ticks(cur.arg)
       /\ cur.kind = "until_time"   => cb_time = Ticks(cur.arg) /\ cb_time > cur.t0
       /\ cur.kind = "to_next"      => /\ cb_time > cur.t0
                                      /\ \/ cb_time \in slots
                                         \/ \E c \in ToSet(clocks) : IsDue(c, cb_time)
       /\ cur.kind = "until_change" => cb_value = cur.arg

\* An event that is to come outlasts an evaluation.
LEMMA EventKept ==
  ASSUME eval, ModelType, NEW t \in Nat, time < t,
         t \in slots \/ \E c \in ToSet(clocks) : IsDue(c, t)
  PROVE  t \in slots' \/ \E c \in ToSet(clocks') : IsDue(c, t)
<1>1. CASE t \in slots
  BY <1>1, EvalModelDoes DEF eval, ModelType
<1>2. CASE \E c \in ToSet(clocks) : IsDue(c, t)
  <2>1. PICK c \in ToSet(clocks) : IsDue(c, t)
    BY <1>2
  <2>2. ~IsDue(c, time)
    BY <2>1 DEF IsDue, ModelType
  <2>3. \A d \in Clock : Eval(d, time) \in Clock
    BY EvalType DEF ModelType
  <2>4. ToSet(clocks) \subseteq Clock
    BY ElementsOf DEF ModelType, Complete
  <2>5. c \in ToSet(clocks')
    BY <2>1, <2>2, <2>3, <2>4, EvalAllKeeps DEF eval, ModelType
  <2> QED
    BY <2>1, <2>5
<1> QED
  BY <1>1, <1>2

\* A run starts with its condition still to come, and goes on with it.
LEMMA StartsWell ==
  ASSUME Typed, ClockInv, RunInv, CmdRunTime \/ CmdRunToNext \/ CmdRunUntilChange
  PROVE  RunInv'
<1>1. /\ cur' = cur /\ state = "PROCESSING" /\ ~Answered /\ cur.t0 = time
      /\ cur.kind \in RunKinds
  BY DEF CmdRunTime, CmdRunToNext, CmdRunUntilChange, Processing, RunInv, RunKinds
<1>2. time \in Nat /\ cur.arg \in Nat /\ Ticks(cur.arg) \in Nat
  BY <1>1 DEF Typed, ModelType, ControlType, Request, Ticks
<1>3. CASE CmdRunTime
  <2>1. /\ cur.kind \in {"for_time", "until_time"} /\ CbTime(cur) > time
        /\ cb_time' = CbTime(cur) /\ time' = time /\ state' = "SIM_RUNNING"
    BY <1>3 DEF CmdRunTime, Processing, Registrable, register_time_callback, modelVars
  <2>2. CbTime(cur) = Ticks(cur.arg) + IF cur.kind = "for_time" THEN time ELSE 0
    BY DEF CbTime
  <2> QED
    BY <1>1, <1>2, <2>1, <2>2 DEF RunInv, Running
<1>4. CASE CmdRunToNext
  <2>1. eval /\ EvalModel /\ cur.kind = "to_next" /\ time' = time /\ wanted' = wanted
    BY <1>4 DEF CmdRunToNext, Processing, eval
  <2>2. CASE ~(/\ has_events_pending(clocks', slots')
               /\ Registrable(next_event_time(clocks', slots')))
    <3>1. state' = "WAITING"
      BY <1>4, <2>2 DEF CmdRunToNext, Reply
    <3> QED
      BY <3>1 DEF RunInv, Running
  <2>3. CASE /\ has_events_pending(clocks', slots')
             /\ Registrable(next_event_time(clocks', slots'))
    <3>1. /\ cb_time' = next_event_time(clocks', slots') /\ cb_time' > time
          /\ state' = "SIM_RUNNING"
      BY <1>4, <2>3 DEF CmdRunToNext, Registrable, register_time_callback
    <3>2. Complete(clocks') /\ slots' \in SUBSET Nat /\ ClockInv'
      BY <2>1, EvalClocks, EvalModelDoes, EvalClockInv DEF Typed, ModelType
    <3>3. /\ cb_time' \in Nat
          /\ cb_time' \in slots' \/ \E c \in ToSet(clocks') : cb_time' = c.next
      BY <2>3, <3>1, <3>2, NextEventIs
    <3>4. \A c \in ToSet(clocks') : ~c.enabled => c.next = 0
      BY <3>2 DEF ClockInv, Obeys
    <3>5. cb_time' # 0
      BY <1>2, <3>1, <3>3
    <3>6. cb_time' \in slots' \/ \E c \in ToSet(clocks') : IsDue(c, cb_time')
      BY <3>3, <3>4, <3>5 DEF IsDue
    <3>7. time' < cb_time' /\ cb_time' > cur'.t0
      BY <1>1, <1>2, <2>1, <3>1, <3>3
    <3> QED
      BY <1>1, <2>1, <3>1, <3>6, <3>7 DEF RunInv, Running
  <2> QED
    BY <2>2, <2>3
<1>5. CASE CmdRunUntilChange
  <2>1. /\ cur.kind = "until_change" /\ timeCb' = FALSE /\ cb_value' = cur.arg
        /\ state' = "SIM_RUNNING"
    BY <1>5 DEF CmdRunUntilChange, Processing, Typed, Control
  <2> QED
    BY <1>1, <2>1 DEF RunInv, Running
<1> QED
  BY <1>3, <1>4, <1>5

LEMMA GoesOn ==
  ASSUME Typed, OneCallback, RunInv, Goes
  PROVE  RunInv'
<1>1. /\ state = "SIM_RUNNING" /\ state' = state /\ cur' = cur /\ eval /\ EvalModel
      /\ cb_time' = cb_time /\ cb_value' = cb_value /\ timeCb' = timeCb
      /\ time' = next_event_time(clocks', slots')
  BY DEF Goes, SimStep, eval
<1>2. Complete(clocks') /\ slots' \in SUBSET Nat
  BY <1>1, EvalClocks, EvalModelDoes DEF Typed, ModelType
<1>3. time' \in Nat /\ cb_time \in Nat
  BY <1>2, NextEventIs DEF Goes, Typed, ModelType
<1>4. timeCb => time' < cb_time
  BY <1>1, <1>3 DEF Goes
<1>5. cur.kind = "to_next" => timeCb
  BY <1>1 DEF OneCallback, Running
<1>6. ASSUME cur.kind = "to_next"
      PROVE  cb_time \in slots' \/ \E c \in ToSet(clocks') : IsDue(c, cb_time)
  <2>1. time < cb_time /\ (cb_time \in slots \/ \E c \in ToSet(clocks) : IsDue(c, cb_time))
    BY <1>1, <1>5, <1>6 DEF RunInv, Running
  <2> DEFINE t == cb_time
  <2> QED
    BY <1>1, <1>3, <2>1, EventKept DEF Typed
<1> QED
  BY <1>1, <1>4, <1>6 DEF RunInv, Running

LEMMA NextRunInv ==
  Typed /\ ClockInv /\ OneCallback /\ Ledger /\ RunInv /\ [Next]_vars => RunInv'
<1> SUFFICES ASSUME Typed, ClockInv, OneCallback, Ledger, RunInv, [Next]_vars PROVE RunInv'
  OBVIOUS
<1>0. state' \notin {"PROCESSING", "SIM_RUNNING"} => RunInv'
  BY DEF RunInv, Running
<1>1. CASE UNCHANGED vars
  BY <1>1 DEF vars, callbackVars, modelVars, histVars, RunInv, Running, Answered
<1>2. CASE main_init \/ main_connect \/ LoseClient \/ main_sim_finish \/ Leave
  BY <1>0, <1>2 DEF main_init, main_connect, LoseClient, main_sim_finish, Leave
<1>3. CASE main_wait
  <2>1. nread \in Nat /\ time \in Nat
    BY DEF Typed, Control, ModelType
  <2>2. cur'.t0 = time /\ time' = time /\ state' \in {"WAITING", "PROCESSING"}
    BY <1>3, <2>1, WaitShape DEF modelVars
  <2> QED
    BY <2>2 DEF RunInv, Running
<1>4. CASE main_process
  <2>1. CASE CmdRunTime \/ CmdRunToNext \/ CmdRunUntilChange
    BY <2>1, StartsWell
  <2>2. CASE CmdInfo \/ CmdGet \/ CmdType \/ CmdBad \/ CmdStop
    BY <1>0, <2>2 DEF CmdInfo, CmdGet, CmdType, CmdBad, CmdStop, Reply
  <2>3. CASE CmdSetValue \/ CmdClockError \/ CmdClockOn \/ CmdClockOff \/ CmdClockCfg
    BY <1>0, <2>3 DEF CmdSetValue, CmdClockError, CmdClockOn, CmdClockOff, CmdClockCfg, Reply
  <2>4. CASE CmdRunError \/ CmdFinish
    BY <1>0, <2>4 DEF CmdRunError, CmdFinish, Reply
  <2>5. CASE CmdExit
    <3>1. state' = "PROCESSING" /\ nread' = nread /\ nrep' = nrep + 1 /\ state = "PROCESSING"
          /\ ~Answered
      BY <2>5 DEF CmdExit, Processing, Return
    <3>2. nrep' = nread'
      BY <3>1 DEF Ledger, Busy, Running, Answered, Typed, Control
    <3> QED
      BY <3>1, <3>2 DEF RunInv, Running, Answered
  <2>6. CASE CmdExitLoop
    <3>1. Answered /\ nread' = nread /\ nrep' = nrep /\ state = "PROCESSING"
      BY <2>6 DEF CmdExitLoop, histVars
    <3>2. state' \in {"PROCESSING", "EXIT"}
      BY <2>6, <3>1 DEF CmdExitLoop
    <3> QED
      BY <3>1, <3>2 DEF RunInv, Running, Answered
  <2> QED
    BY <1>4, <2>1, <2>2, <2>3, <2>4, <2>5, <2>6 DEF main_process
<1>5. CASE main_sim
  <2>1. CASE Goes
    BY <2>1, GoesOn
  <2>2. CASE Arrives \/ Changes \/ Ends
    BY <1>0, <2>2 DEF Arrives, Changes, Ends, Reached, SimEnds
  <2> QED
    BY <1>5, <2>1, <2>2, SimCases
<1> QED
  BY <1>1, <1>2, <1>3, <1>4, <1>5 DEF Next

\* The runs of a behaviour keep their condition.
LEMMA Runs == Spec => [](Typed /\ ClockInv /\ IInv /\ RunInv)
<1>1. Init => RunInv
  BY DEF Init, RunInv, Running
<1>2. Typed /\ ClockInv /\ IInv /\ RunInv /\ [Next]_vars => RunInv'
  BY NextRunInv DEF IInv
<1> QED
  BY <1>1, <1>2, Obedience, Invariance, PTL DEF Spec

\* A run is acknowledged only when what it waits for has come: the time it was to run
\* to, an event, or the value it was to wait for.
THEOREM AcksAreHonest == Spec => AckIsHonest
<1>1. ASSUME Typed, ClockInv, IInv, RunInv, [Next]_vars,
             Running, nrep' # nrep, last'.type = "ack"
      PROVE  Condition(cur)'
  <2>1. state = "SIM_RUNNING" /\ OneCallback
    BY <1>1 DEF Running, IInv
  <2>2. nrep \in Nat /\ uuid \in Nat \cup {NoUuid} /\ cb_time \in Nat
    BY <1>1 DEF Typed, Control, ControlType, ModelType
  <2>3. main_sim
    <3>1. ~(UNCHANGED vars)
      BY <1>1 DEF vars, histVars
    <3>2. ~(main_init \/ main_connect \/ LoseClient \/ main_wait \/ main_sim_finish \/ Leave)
      BY <2>1 DEF main_init, main_connect, LoseClient, main_wait, main_sim_finish, Leave
    <3>3. ~main_process
      BY <1>1, <2>1, HandlerShape DEF Typed, ControlType
    <3> QED
      BY <1>1, <3>1, <3>2, <3>3 DEF Next
  <2>4. CASE Goes
    BY <1>1, <2>4 DEF Goes
  <2>5. CASE Ends
    <3>1. Return("error", uuid)
      BY <1>1, <2>5 DEF Ends, SimEnds
    <3> QED
      BY <1>1, <3>1 DEF Return
  <2>6. CASE Changes
    <3>1. cur.kind = "until_change" /\ cur' = cur /\ sig' = cb_value /\ cb_value = cur.arg
      BY <1>1, <2>1, <2>6 DEF Changes, SimStep, OneCallback, RunInv
    <3> QED
      BY <3>1 DEF Condition
  <2>7. CASE Arrives
    <3>1. /\ cur' = cur /\ time' = cb_time /\ time < cb_time /\ cur.kind # "until_change"
          /\ eval
      BY <1>1, <2>1, <2>7 DEF Arrives, SimStep, OneCallback, RunInv
    <3>2. cur.kind = "for_time" => cb_time = cur.t0 + cur.arg \div 2
      BY <1>1 DEF RunInv, Ticks
    <3>3. cur.kind = "until_time" => cb_time = cur.arg \div 2 /\ cb_time > cur.t0
      BY <1>1 DEF RunInv, Ticks
    <3>4. ASSUME cur.kind = "to_next"
          PROVE  /\ cb_time > cur.t0
                 /\ cb_time \in slots' \/ \E c \in ToSet(clocks') : IsDue(c, cb_time)
      <4>1. /\ cb_time > cur.t0
            /\ cb_time \in slots \/ \E c \in ToSet(clocks) : IsDue(c, cb_time)
        BY <1>1, <3>4 DEF RunInv
      <4> QED
        BY <1>1, <2>2, <3>1, <4>1, EventKept DEF Typed
    <3> QED
      BY <3>1, <3>2, <3>3, <3>4 DEF Condition, EventNow
  <2> QED
    BY <2>3, <2>4, <2>5, <2>6, <2>7, SimCases
<1>2. Typed /\ ClockInv /\ IInv /\ RunInv /\ [Next]_vars =>
        [Running /\ nrep' # nrep /\ last'.type = "ack" => Condition(cur)']_vars
  BY <1>1
<1> QED
  BY <1>2, Runs, PTL DEF Spec, AckIsHonest

-----------------------------------------------------------------------------
(* No event is skipped.                                                     *)

\* exit is the last message.
LEMMA ExitIsLast ==
  ASSUME ControlType, [Next]_vars, cur.kind = "exit"
  PROVE  cur' = cur
BY Steps DEF ControlType, Quiet, Reads, Replies, Starts, Handles, Stops

\* No clock can be overtaken by a disabled one: there is one at most, or every clock
\* starts enabled and none is ever disabled.
NeverOvertaken ==
  \/ Cardinality(Clocks) <= 1
  \/ (\A w \in Waves : w.high > 0) /\ "clk_off" \notin Kinds

\* The clock list is in the order of the events, and stays so.
InOrder == Ordered(clocks) /\ Steady(clocks)

\* The sort puts the enabled clocks in order: there are three clocks at most, or all
\* are enabled and stay so.
Sortable == Cardinality(Clocks) <= 3 \/ InOrder

\* After an evaluation no event is past, and the enabled clocks are in order.
LEMMA EvalSkipsNothing ==
  ASSUME eval, ModelType, ClockInv, NothingSkipped, Sortable, cur.kind # "exit"
  PROVE  /\ Complete(clocks') /\ EnabledInOrder(clocks') /\ IdleAtZero(clocks')
         /\ slots' \in SUBSET Nat
         /\ \A s \in slots' : s > time
         /\ \A c \in ToSet(clocks') : c.enabled => c.next >= time
<1>1. IdleAtZero(clocks) /\ \A c \in ToSet(clocks) : c.enabled => c.next >= time
  BY DEF IdleAtZero, ClockInv, Obeys, NothingSkipped
<1>2. /\ EnabledInOrder(clocks') /\ IdleAtZero(clocks')
      /\ \A c \in ToSet(clocks') : c.enabled => c.next >= time
  <2>1. Len(clocks) <= 3 \/ Steady(clocks)
    BY CompleteLength DEF Sortable, InOrder, ModelType
  <2> QED
    BY <1>1, <2>1, EvalAllOrders DEF eval, ModelType
<1> QED
  BY <1>2, EvalClocks, EvalModelDoes DEF eval, ModelType

\* Neither enabling nor disabling a clock jumps over an event.
LEMMA SwitchSkipsNothing ==
  ASSUME Switches, Typed, NothingSkipped, cur.kind # "exit"
  PROVE  NothingSkipped'
<1>1. PICK c \in ToSet(clocks), d \in Clock :
         /\ c \in Clock /\ c.name = cur.clk /\ d.name = cur.clk
         /\ cur.clk \in Clocks /\ clocks' = Put(clocks, d)
         /\ \/ cur.kind = "clk_on" /\ wanted' = wanted \cup {cur.clk} /\ d = Enable(c, time)
            \/ cur.kind = "clk_off" /\ wanted' = wanted \ {cur.clk} /\ d = Disable(c)
            \/ /\ cur.kind = "clk_cfg" /\ wanted' = wanted
               /\ \E w \in Waves : d = SetPeriod(c, w)
  BY SwitchesClock DEF Typed
<1>2. Complete(clocks) /\ time \in Nat /\ time' = time /\ slots' = slots /\ cur' = cur
  BY DEF Typed, ModelType, Switches
<1>3. ToSet(clocks') = {e \in ToSet(clocks) : e.name # d.name} \cup {d}
  BY <1>1, <1>2, PutKeeps
<1>4. c.next \in Nat /\ c.high \in Nat
  BY <1>1 DEF Clock
<1>5. d.enabled => \/ c.enabled /\ d.next = c.next
                   \/ d.next = time + c.high
  <2>1. CASE d = Enable(c, time)
    BY <1>1, <1>2, <2>1, EnableType
  <2>2. CASE d = Disable(c)
    <3>1. c.value \in {0, 1}
      BY <1>1 DEF Clock
    <3> QED
      BY <1>1, <2>2, <3>1, DisableType
  <2>3. CASE \E w \in Waves : d = SetPeriod(c, w)
    BY <1>1, <2>3, SetPeriodType
  <2> QED
    BY <1>1, <2>1, <2>2, <2>3
<1>6. \A s \in slots : s >= time
  BY DEF NothingSkipped
<1>7. \A e \in ToSet(clocks) : e.enabled => e.next >= time
  BY DEF NothingSkipped
<1>8. d.enabled => d.next >= time
  BY <1>1, <1>2, <1>4, <1>5, <1>7
<1> QED
  BY <1>2, <1>3, <1>6, <1>7, <1>8 DEF NothingSkipped

LEMMA NextNothingSkipped ==
  ASSUME Typed, ClockInv, NothingSkipped, Sortable, [Next]_vars
  PROVE  NothingSkipped'
<1>1. cur'.kind # "exit" => cur.kind # "exit"
  BY ExitIsLast DEF Typed
<1>2. state \in {"SIM_RUNNING", "SIM_FINISH"} => cur.kind # "exit"
  BY DEF Typed, ControlType
<1>3. CASE Still
  BY <1>1, <1>3 DEF Still, NothingSkipped
<1>4. CASE Switches
  <2>1. cur.kind # "exit"
    BY <1>4 DEF Switches
  <2> QED
    BY <1>4, <2>1, SwitchSkipsNothing
<1>5. CASE Evals \/ Goes \/ Arrives
  <2>1. eval /\ cur.kind # "exit"
    BY <1>2, <1>5 DEF Evals, Goes, Arrives, SimStep
  <2>2. /\ Complete(clocks') /\ EnabledInOrder(clocks') /\ IdleAtZero(clocks')
        /\ slots' \in SUBSET Nat
        /\ \A s \in slots' : s > time
        /\ \A c \in ToSet(clocks') : c.enabled => c.next >= time
    BY <2>1, EvalSkipsNothing DEF Typed
  <2>3. \A c \in ToSet(clocks') : c.next \in Nat
    BY <2>2, ElementsOf DEF Complete, Clock
  <2>4. time \in Nat /\ time' \in Nat
    BY NextModelType DEF Typed, ModelType
  <2>5. CASE Evals
    BY <2>2, <2>3, <2>4, <2>5 DEF Evals, NothingSkipped
  <2>6. CASE Goes
    BY <2>2, <2>6, NextEventIsFirst DEF Goes, NothingSkipped
  <2>7. CASE Arrives
    <3>1. has_events_pending(clocks', slots') => next_event_time(clocks', slots') >= time'
      BY <2>7 DEF Arrives
    <3>2. \A s \in slots' : has_events_pending(clocks', slots')
      BY DEF has_events_pending
    <3>3. \A c \in ToSet(clocks') : c.enabled => has_events_pending(clocks', slots')
      BY <2>2, ElementsOf DEF has_events_pending, HasNextEvent, Complete
    <3>4. has_events_pending(clocks', slots') =>
            next_event_time(clocks', slots') \in Nat
      BY <2>2, NextEventIs
    <3>5. \A s \in slots' : s >= time'
      BY <2>2, <2>4, <3>1, <3>2, <3>4, NextEventIsFirst
    <3>6. \A c \in ToSet(clocks') : c.enabled => c.next >= time'
      BY <2>2, <2>3, <2>4, <3>1, <3>3, <3>4, NextEventIsFirst
    <3> QED
      BY <3>5, <3>6 DEF NothingSkipped
  <2> QED
    BY <1>5, <2>5, <2>6, <2>7
<1>6. CASE Leaps
  BY <1>6 DEF Leaps, NothingSkipped
<1> QED
  BY <1>3, <1>4, <1>5, <1>6, ModelSteps

LEMMA InitNothingSkipped ==
  ASSUME Init
  PROVE  NothingSkipped
<1>1. slots = {} /\ time = 0
  BY DEF Init
<1>2. Complete(clocks)
  BY InitModelType DEF ModelType
<1>3. \A c \in ToSet(clocks) : c.next \in Nat
  BY <1>2, ElementsOf DEF Complete, Clock
<1> QED
  BY <1>1, <1>3 DEF NothingSkipped

-----------------------------------------------------------------------------
(* Time.                                                                    *)

\* A map of at most one clock is in order.
LEMMA ShortInOrder ==
  ASSUME NEW list, Complete(list), Cardinality(Clocks) <= 1
  PROVE  Ordered(list) /\ Steady(list)
<1>1. Len(list) <= 1
  BY CompleteLength
<1>2. list \in Seq(Clock) /\ DOMAIN list = 1 .. Len(list) /\ Len(list) \in Nat
  BY ElementsOf DEF Complete
<1>3. \A i, j \in DOMAIN list : ~(i < j)
  BY <1>1, <1>2
<1> QED
  BY <1>1, <1>3 DEF Ordered, Steady

LEMMA InitInOrder ==
  ASSUME NeverOvertaken, Init
  PROVE  InOrder
<1>1. PICK order \in SetToSeqs(Clocks), w \in [Clocks -> Waves] :
        clocks = Registered(order, w)
  BY DEF Init
<1>2. /\ Complete(clocks) /\ ToSet(clocks) = {New(n, w[n]) : n \in Clocks}
      /\ (\A n \in Clocks : w[n].high > 0) => Ordered(clocks)
  BY <1>1, RegisteredIs
<1>3. CASE Cardinality(Clocks) <= 1
  BY <1>2, <1>3, ShortInOrder DEF InOrder
<1>4. CASE \A v \in Waves : v.high > 0
  <2>1. \A n \in Clocks : w[n].high > 0
    BY <1>4
  <2>2. \A n \in Clocks : New(n, w[n]).enabled /\ ~New(n, w[n]).waiting
    BY <2>1, NewType
  <2> QED
    BY <1>2, <2>1, <2>2 DEF InOrder, Steady
<1> QED
  BY <1>3, <1>4 DEF NeverOvertaken

\* When the clocks are in order, what is to come after an evaluation is strictly ahead.
LEMMA EvalPasses ==
  ASSUME eval, ModelType, NothingSkipped, InOrder, cur.kind # "exit"
  PROVE  InOrder' /\ \A c \in ToSet(clocks') : c.enabled => c.next > time
<1>1. \A c \in ToSet(clocks) : c.enabled => c.next >= time
  BY DEF NothingSkipped
<1> QED
  BY <1>1, EvalAllPasses DEF eval, ModelType, InOrder

\* Enabling and configuring leave the clocks in order.
LEMMA SwitchInOrder ==
  ASSUME NeverOvertaken, Switches, Typed, InOrder
  PROVE  InOrder'
<1>1. PICK c \in ToSet(clocks), d \in Clock :
         /\ c \in Clock /\ c.name = cur.clk /\ d.name = cur.clk
         /\ cur.clk \in Clocks /\ clocks' = Put(clocks, d)
         /\ \/ cur.kind = "clk_on" /\ wanted' = wanted \cup {cur.clk} /\ d = Enable(c, time)
            \/ cur.kind = "clk_off" /\ wanted' = wanted \ {cur.clk} /\ d = Disable(c)
            \/ /\ cur.kind = "clk_cfg" /\ wanted' = wanted
               /\ \E w \in Waves : d = SetPeriod(c, w)
  BY SwitchesClock DEF Typed
<1>2. Complete(clocks) /\ time \in Nat
  BY DEF Typed, ModelType
<1>3. /\ Complete(clocks')
      /\ ToSet(clocks') = {e \in ToSet(clocks) : e.name # d.name} \cup {d}
  BY <1>1, <1>2, PutKeeps
<1>4. CASE Cardinality(Clocks) <= 1
  BY <1>3, <1>4, ShortInOrder DEF InOrder
<1>5. CASE ~(Cardinality(Clocks) <= 1)
  <2>1. cur.kind # "clk_off"
    BY <1>5 DEF NeverOvertaken, Typed, ControlType
  <2>2. \A e \in ToSet(clocks) : e.enabled /\ ~e.waiting
    BY <1>2, <1>5, CompleteLength DEF InOrder, Steady
  <2>3. d.enabled /\ d.next = c.next /\ ~d.waiting
    <3>1. CASE d = Enable(c, time)
      BY <1>1, <1>2, <2>2, <3>1, EnableType
    <3>2. CASE \E w \in Waves : d = SetPeriod(c, w)
      BY <1>1, <2>2, <3>2, SetPeriodType
    <3> QED
      BY <1>1, <2>1, <3>1, <3>2
  <2>4. \A e \in ToSet(clocks) : e.name = d.name => e = c
    BY <1>1, <1>2, OneOfAName
  <2>5. Ordered(clocks')
    BY <1>1, <1>2, <2>3, <2>4, PutKeeps DEF InOrder
  <2> QED
    BY <1>3, <2>2, <2>3, <2>5 DEF InOrder, Steady
<1> QED
  BY <1>4, <1>5

LEMMA NextInOrder ==
  ASSUME NeverOvertaken, Typed, ClockInv, NothingSkipped, InOrder, [Next]_vars
  PROVE  InOrder'
<1>1. CASE Still \/ Leaps
  BY <1>1 DEF Still, Leaps, InOrder
<1>2. CASE Switches
  BY <1>2, SwitchInOrder
<1>3. CASE Evals \/ Goes \/ Arrives
  <2>1. eval /\ cur.kind # "exit"
    BY <1>3 DEF Evals, Goes, Arrives, SimStep, Typed, ControlType
  <2> QED
    BY <2>1, EvalPasses DEF Typed
<1> QED
  BY <1>1, <1>2, <1>3, ModelSteps

\* What the passing of time rests on.
TimeInv == ClockInv /\ RunInv /\ NothingSkipped /\ InOrder

\* Under NeverOvertaken all invariants hold together.
LEMMA Timely ==
  ASSUME NeverOvertaken
  PROVE  Spec => [](Typed /\ IInv /\ TimeInv)
<1>1. Init => InOrder
  BY InitInOrder
<1>2. Init => NothingSkipped
  BY InitNothingSkipped
<1>3. Typed /\ ClockInv /\ NothingSkipped /\ InOrder /\ [Next]_vars =>
        NothingSkipped' /\ InOrder'
  BY NextInOrder, NextNothingSkipped DEF Sortable
<1> QED
  BY <1>1, <1>2, <1>3, Runs, PTL DEF Spec, TimeInv

\* Simulation time is never set past an event of the model or of a clock that has not
\* been evaluated.  With up to three clocks that holds also when a disabled clock stands
\* in the way of the next one: then time falls behind, and no event with it.  With more,
\* it holds when no clock is ever disabled; otherwise the sort may put a later event
\* first, and time is set past the earlier one.
THEOREM NoEventSkipped ==
  ASSUME Cardinality(Clocks) <= 3 \/ NeverOvertaken
  PROVE  Spec => []NothingSkipped
<1>1. CASE NeverOvertaken
  BY <1>1, Timely, PTL DEF TimeInv
<1>2. CASE Cardinality(Clocks) <= 3
  <2>1. Init => NothingSkipped
    BY InitNothingSkipped
  <2>2. Typed /\ ClockInv /\ NothingSkipped /\ [Next]_vars => NothingSkipped'
    BY <1>2, NextNothingSkipped DEF Sortable
  <2> QED
    BY <2>1, <2>2, Runs, PTL DEF Spec
<1> QED
  BY <1>1, <1>2

\* A step leaves time where it is, or moves it forward for a run or for exit.
LEMMA TimeMoves ==
  ASSUME Typed, TimeInv, [Next]_vars
  PROVE  /\ time \in Nat /\ time' \in Nat
         /\ \/ time' = time
            \/ time' > time /\ (Goes \/ Arrives \/ Leaps)
<1>1. time \in Nat /\ time' \in Nat /\ cb_time \in Nat
  BY NextModelType DEF Typed, ModelType
<1>2. CASE Still \/ Switches \/ Evals
  BY <1>1, <1>2 DEF Still, Switches, Evals
<1>3. CASE Goes
  <2>1. eval /\ cur.kind # "exit"
    BY <1>3 DEF Goes, SimStep, Typed, ControlType
  <2>2. /\ Complete(clocks') /\ EnabledInOrder(clocks') /\ IdleAtZero(clocks')
        /\ slots' \in SUBSET Nat
        /\ \A s \in slots' : s > time
    BY <2>1, EvalSkipsNothing DEF Typed, TimeInv, Sortable
  <2>3. Steady(clocks') /\ \A c \in ToSet(clocks') : c.enabled => c.next > time
    BY <2>1, EvalPasses DEF Typed, TimeInv, InOrder
  <2>4. \/ time' \in slots'
        \/ \E c \in ToSet(clocks') : c.enabled /\ time' = c.next
    BY <1>3, <2>2, <2>3, NextEventIsFirst DEF Goes
  <2> QED
    BY <1>1, <1>3, <2>2, <2>3, <2>4
<1>4. CASE Arrives
  BY <1>1, <1>4 DEF Arrives, SimStep, TimeInv, RunInv, Running
<1>5. CASE Leaps
  <2>1. slots' \in SUBSET Nat /\ \A s \in slots' : s > time
    BY <1>5, EvalModelDoes DEF Leaps, Typed, ModelType
  <2>2. slots' = {} \/ Min(slots') \in slots'
    BY <2>1, MinIs
  <2> QED
    BY <1>1, <1>5, <2>1, <2>2 DEF Leaps
<1> QED
  BY <1>2, <1>3, <1>4, <1>5, ModelSteps

\* When no clock can be overtaken by a disabled one, simulation time never goes back.
THEOREM TimeGoesForward ==
  ASSUME NeverOvertaken
  PROVE  Spec => TimeForward
<1>1. ASSUME Typed, TimeInv, [Next]_vars
      PROVE  time' >= time
  BY <1>1, TimeMoves
<1>2. Typed /\ TimeInv /\ [Next]_vars => [time' >= time]_vars
  BY <1>1
<1> QED
  BY <1>2, Timely, PTL DEF Spec, TimeForward

-----------------------------------------------------------------------------
(* The abstract execution focus.                                            *)

\* A reply is owed exactly while a request is handled or run.
Owes == (nrep < nread) <=> Busy

Known == Typed /\ IInv /\ TimeInv /\ Owes

FocusStep == [Focus!Next]_<<Turn, nrep < nread, time>>

\* A step that keeps the turn, the debt of a reply and the time is one of FocusStep.
LEMMA FocusStutters ==
  ASSUME Turn' = Turn, (nrep < nread)' <=> (nrep < nread), time' = time
  PROVE  FocusStep
<1>1. (nrep < nread)' = (nrep < nread)
  OBVIOUS
<1> QED
  BY <1>1 DEF FocusStep

\* Opening and closing the sockets.
LEMMA FocusSockets ==
  ASSUME Known, Known', main_init \/ main_connect \/ LoseClient \/ Leave
  PROVE  FocusStep
<1>1. time' = time /\ nrep' = nrep /\ nread' = nread /\ cur' = cur
  BY DEF main_init, main_connect, LoseClient, Leave, modelVars, histVars
<1>2. ~(nrep < nread)' /\ ~(nrep < nread)
  BY DEF Known, Owes, main_init, main_connect, LoseClient, Leave, Busy, Running
<1>3. CASE main_init
  <2>1. Turn = "init" /\ Turn' \in {"idle", "over"}
    BY <1>3 DEF main_init, Turn
  <2> QED
    BY <1>1, <1>2, <2>1
    DEF FocusStep, Focus!Next, Focus!Start, Focus!End, Focus!Turn
<1>4. CASE main_connect
  <2>1. srv /\ srv' = srv
    BY <1>4 DEF main_connect, Known, Typed, ControlType
  <2>2. Turn = "idle" /\ Turn' \in {"idle", "released"}
    BY <1>4, <2>1 DEF main_connect, Turn
  <2>3. CASE Turn' = "idle"
    BY <1>1, <1>2, <2>2, <2>3, FocusStutters
  <2>4. CASE Turn' = "released"
    BY <1>1, <1>2, <2>2, <2>4 DEF FocusStep, Focus!Next, Focus!Release, Focus!Turn
  <2> QED
    BY <2>2, <2>3, <2>4
<1>5. CASE LoseClient
  <2>1. Turn = "idle" /\ Turn' = "idle"
    BY <1>5 DEF LoseClient, Turn
  <2> QED
    BY <1>1, <1>2, <2>1, FocusStutters
<1>6. CASE Leave
  <2>1. Turn \in {"released", "over"} /\ Turn' = "over"
    BY <1>6 DEF Leave, Turn
  <2>2. CASE Turn = "over"
    BY <1>1, <1>2, <2>1, <2>2, FocusStutters
  <2>3. CASE Turn = "released"
    BY <1>1, <1>2, <2>1, <2>3 DEF FocusStep, Focus!Next, Focus!End, Focus!Turn
  <2> QED
    BY <2>1, <2>2, <2>3
<1> QED
  BY <1>3, <1>4, <1>5, <1>6

\* A message is taken, or answered at once.
LEMMA FocusMessage ==
  ASSUME Known, Known', main_wait
  PROVE  FocusStep
<1>1. /\ state = "WAITING" /\ time' = time
      /\ state' \in {"WAITING", "PROCESSING"}
      /\ state' = "PROCESSING" => nrep' = nrep /\ nread' = nread + 1
  BY WaitShape DEF Known, Typed, Control, ModelType, modelVars
<1>2. nrep = nread /\ nrep \in Nat
  BY <1>1 DEF Known, IInv, Typed, Control, Ledger, Busy, Running
<1>3. CASE state' = "WAITING"
  <2>1. ~(nrep < nread)' /\ ~(nrep < nread)
    BY <1>1, <1>3 DEF Known, Owes, Busy, Running
  <2>2. Turn = "idle" /\ Turn' = "idle"
    BY <1>1, <1>3 DEF Turn
  <2> QED
    BY <1>1, <2>1, <2>2, FocusStutters
<1>4. CASE state' = "PROCESSING"
  <2>1. (nrep < nread)'
    BY <1>1, <1>2, <1>4
  <2>2. Turn = "idle" /\ Turn' = "busy"
    BY <1>1, <1>4, <2>1 DEF Turn
  <2> QED
    BY <1>1, <2>1, <2>2 DEF FocusStep, Focus!Next, Focus!Take, Focus!Turn
<1> QED
  BY <1>1, <1>3, <1>4

\* A handler replies or starts a run; after exit the model runs by itself.
LEMMA FocusHandler ==
  ASSUME Known, Known', main_process
  PROVE  FocusStep
<1>1. /\ state = "PROCESSING" /\ UNCHANGED <<srv, client, uuid, nread, cur>>
      /\ \/ state' = "SIM_RUNNING" /\ cur.kind \in RunKinds
         \/ state' = "WAITING" /\ cur.kind # "exit"
         \/ state' = "EXIT" /\ cur.kind \in {"exit", "finish"}
         \/ state' = "PROCESSING" /\ cur.kind = "exit"
  BY HandlerShape DEF Known, Typed, ControlType
<1>2. srv /\ srv' = srv /\ nread \in Nat /\ nrep \in Nat
  BY <1>1 DEF Known, Typed, Control, ControlType
<1>3. CASE CmdExitLoop
  <2>1. nrep = nread /\ nrep' = nrep /\ cur.kind = "exit" /\ state' \in {"EXIT", "PROCESSING"}
    BY <1>3 DEF CmdExitLoop, Answered, histVars
  <2>2. ~(nrep < nread) /\ ~(nrep < nread)'
    BY <1>1, <1>2, <2>1
  <2>3. Turn = "released" /\ Turn' = "released"
    BY <1>1, <1>2, <2>1, <2>2 DEF Turn
  <2>4. /\ time \in Nat /\ time' \in Nat
        /\ time' = time \/ time' > time
    BY TimeMoves DEF Known, Next
  <2>5. CASE time' = time
    BY <2>2, <2>3, <2>5, FocusStutters
  <2>6. CASE time' > time
    <3>1. (nrep < nread)' = (nrep < nread)
      BY <2>2
    <3> QED
      BY <2>3, <2>4, <2>6, <3>1 DEF FocusStep, Focus!Next, Focus!Advance
  <2> QED
    BY <2>4, <2>5, <2>6
<1>4. CASE ~CmdExitLoop
  <2>1. Processing(AllKinds) /\ time' = time
    BY <1>4 DEF main_process, CmdInfo, CmdGet, CmdType, CmdBad, CmdSetValue, CmdClockError,
      CmdClockOn, CmdClockOff, CmdClockCfg, CmdRunTime, CmdRunToNext, CmdRunUntilChange,
      CmdRunError, CmdStop, CmdFinish, CmdExit, Processing, AllKinds, RunKinds, modelVars
  <2>2. Busy
    BY <2>1 DEF Processing, Busy, Answered
  <2>3. (nrep < nread) /\ Turn = "busy"
    BY <1>1, <2>2 DEF Known, Owes, Turn
  <2>4. state' = "PROCESSING" => nrep' = nrep + 1
    BY <1>1, <1>4 DEF main_process, CmdInfo, CmdGet, CmdType, CmdBad, CmdSetValue,
      CmdClockError, CmdClockOn, CmdClockOff, CmdClockCfg, CmdRunTime, CmdRunToNext,
      CmdRunUntilChange, CmdRunError, CmdStop, CmdFinish, CmdExit, Reply, Return
  <2>5. CASE state' = "SIM_RUNNING"
    <3>1. (nrep < nread)' /\ Turn' = "running"
      BY <2>5 DEF Known, Owes, Busy, Running, Turn
    <3> QED
      BY <2>1, <2>3, <3>1 DEF FocusStep, Focus!Next, Focus!Run, Focus!Turn
  <2>6. CASE state' = "WAITING"
    <3>1. ~(nrep < nread)' /\ Turn' = "idle"
      BY <2>6 DEF Known, Owes, Busy, Running, Turn
    <3> QED
      BY <2>1, <2>3, <3>1 DEF FocusStep, Focus!Next, Focus!Answer, Focus!Turn
  <2>7. CASE state' \in {"EXIT", "PROCESSING"}
    <3>1. nrep = nread - 1
      BY <1>2, <2>2 DEF Known, IInv, Ledger
    <3>2. ~(nrep < nread)'
      BY <1>1, <1>2, <2>4, <2>7, <3>1 DEF Known, Owes, Busy, Running
    <3>3. Turn' = "released"
      BY <1>1, <1>2, <2>7, <3>2 DEF Turn, RunKinds
    <3> QED
      BY <2>1, <2>3, <3>2, <3>3 DEF FocusStep, Focus!Next, Focus!Release, Focus!Turn
  <2> QED
    BY <1>1, <2>5, <2>6, <2>7
<1> QED
  BY <1>3, <1>4

\* The simulation goes on, comes to the end of a run, or ends.
LEMMA FocusSimulation ==
  ASSUME Known, Known', main_sim
  PROVE  FocusStep
<1>1. state = "SIM_RUNNING"
  BY DEF main_sim
<1>2. (nrep < nread) /\ Turn = "running"
  BY <1>1 DEF Known, Owes, Busy, Running, Turn
<1>3. time \in Nat /\ time' \in Nat /\ (time' = time \/ time' > time)
  BY TimeMoves DEF Known, Next
<1>4. CASE Goes
  <2>1. state' = state /\ nrep' = nrep /\ nread' = nread
    BY <1>4 DEF Goes, SimStep
  <2>2. (nrep < nread)' /\ Turn' = "running"
    BY <1>1, <1>2, <2>1 DEF Turn
  <2>3. CASE time' = time
    BY <1>2, <2>2, <2>3, FocusStutters
  <2>4. CASE time' > time
    <3>1. (nrep < nread)' = (nrep < nread)
      BY <1>2, <2>2
    <3> QED
      BY <1>2, <1>3, <2>2, <2>4, <3>1 DEF FocusStep, Focus!Next, Focus!Advance
  <2> QED
    BY <1>3, <2>3, <2>4
<1>5. CASE Arrives \/ Changes
  <2>1. state' = "WAITING"
    BY <1>5 DEF Arrives, Changes, Reached
  <2>2. ~(nrep < nread)' /\ Turn' = "idle"
    BY <2>1 DEF Known, Owes, Busy, Running, Turn
  <2> QED
    BY <1>2, <1>3, <2>2 DEF FocusStep, Focus!Next, Focus!Resume
<1>6. CASE Ends
  <2>1. state' = "SIM_FINISH" /\ time' = time
    BY <1>6 DEF Ends, SimEnds
  <2>2. ~(nrep < nread)' /\ Turn' = "over"
    BY <2>1 DEF Known, Owes, Busy, Running, Turn
  <2> QED
    BY <1>2, <2>1, <2>2 DEF FocusStep, Focus!Next, Focus!End, Focus!Turn
<1> QED
  BY <1>4, <1>5, <1>6, SimCases

LEMMA FocusFinish ==
  ASSUME Known, Known', main_sim_finish
  PROVE  FocusStep
<1>1. /\ state = "SIM_FINISH" /\ state' = "EXIT" /\ cur' = cur /\ time' = time
      /\ cur.kind \in RunKinds
  BY DEF main_sim_finish, histVars, Known, Typed, ControlType
<1>2. Turn = "over" /\ Turn' = "over"
  BY <1>1 DEF Turn, RunKinds
<1>3. ~(nrep < nread) /\ ~(nrep < nread)'
  BY <1>1 DEF Known, Owes, Busy, Running
<1> QED
  BY <1>1, <1>2, <1>3, FocusStutters

\* Under the same condition, the Verilator integration implements the abstract
\* execution focus: Verisocks and the simulation loop take turns, a request is owed a
\* reply exactly while it is handled or run, and time moves only, and only forward,
\* while the simulation has the focus.
THEOREM FocusImplemented ==
  ASSUME NeverOvertaken
  PROVE  Spec => ImplementsFocus
<1>1. Init => Focus!Init
  BY DEF Init, Turn, Focus!Init
<1>2. ASSUME Known, Known', [Next]_vars
      PROVE  FocusStep
  <2>1. CASE UNCHANGED vars
    <3>1. Turn' = Turn /\ nrep' = nrep /\ nread' = nread /\ time' = time
      BY <2>1 DEF vars, modelVars, histVars, Turn
    <3> QED
      BY <3>1, FocusStutters
  <2> QED
    BY <1>2, <2>1, FocusSockets, FocusMessage, FocusHandler, FocusSimulation, FocusFinish
    DEF Next
<1>3. Known /\ Known' /\ [Next]_vars => [Focus!Next]_<<Turn, nrep < nread, time>>
  BY <1>2 DEF FocusStep
<1>4. Typed /\ IInv => Owes
  BY DEF Typed, Control, IInv, Ledger, Owes
<1>5. Spec => []Known
  BY <1>4, Timely, PTL DEF Known
<1> QED
  BY <1>1, <1>3, <1>5, PTL DEF Spec, ImplementsFocus, Focus!Spec
=============================================================================
