------------------------------- MODULE VsVpi -------------------------------
(***************************************************************************)
(* The Verisocks VPI application inside an HDL simulator: the server state  *)
(* machine of src/src/verisocks.c, the command handlers of vs_vpi.c and     *)
(* vs_vpi_run.c, and the simulator callbacks that give the execution focus  *)
(* back to it.  Clients and the simulator are the environment.              *)
(*                                                                          *)
(* One step is one pass of verisocks_main up to its next blocking call or   *)
(* return.  A message is a count in unread until the server reads it; its   *)
(* content is chosen then.                                                  *)
(***************************************************************************)
EXTENDS Integers, Sequences

CONSTANTS
  Conns,     \* TCP connections, one per connect() of a client
  NoConn,    \* fd_client_socket = -1
  NoUuid,    \* uuid.valid = 0
  NoCb,      \* h_cb = NULL
  Kinds,     \* request classes the clients send
  HalfTicks, \* "time" arguments of run requests, in half time steps
  Values,    \* values of the watched signal
  MaxReq,    \* bound: messages a client sends on one connection
  MaxTime    \* bound: the time at which the testbench calls $finish

\* nan_time is a for_time or until_time request whose time is not a number.
RunKinds == {"for_time", "until_time", "nan_time", "to_next", "until_change",
             "until_event"}

AllKinds == RunKinds \cup {"info", "get", "bad", "set", "stop", "finish",
                           "exit", "notjson", "toolong"}

ASSUME ConstantsAssumption ==
  /\ NoConn \notin Conns
  /\ NoUuid \notin Conns \X Nat
  /\ NoCb \notin [kind : {"time", "change", "event"}, at : Nat]
  /\ Kinds \subseteq AllKinds
  /\ HalfTicks \subseteq Nat /\ Values \subseteq Nat /\ 0 \in Values
  /\ MaxReq \in Nat /\ MaxTime \in Nat

VARIABLES
  state,     \* p_vpi_data->state
  srv,       \* fd_server_socket >= 0
  fdClient,  \* fd_client_socket
  p_cmd,     \* p_cmd # NULL
  uuid,      \* uuid of the last message read
  value,     \* target of run(until_change)
  h_cb,      \* handle of the value change callback
  cbs,       \* callbacks registered with the simulator
  sim,       \* "run", "stopped" at its prompt, "finishing" or "ended"
  simTime,   \* simulation time
  sig,       \* value of the watched signal
  cst,       \* per connection: "idle", "up", "closed" (client), "dropped" (server)
  backlog,   \* connections not accepted yet, in order
  unread,    \* messages sent and not read, per connection
  torn,      \* the stream is at the middle of an oversize message
  nread,     \* history: messages read, per connection
  nrep,      \* history: replies written, per connection
  cur,       \* history: the last message read
  last       \* history: the last reply written

serverVars == <<state, srv, fdClient, p_cmd, uuid, value, h_cb>>
simVars    == <<cbs, sim, simTime, sig>>
clientVars == <<cst, backlog, unread>>
histVars   == <<nread, nrep, cur, last>>
vars       == <<serverVars, simVars, clientVars, torn, histVars>>

Callback == [kind : {"time", "change", "event"}, at : Nat]
NoReq    == [conn |-> NoConn, seq |-> 0, kind |-> "none", arg |-> 0,
             tagged |-> FALSE, t0 |-> 0]
NoReply  == [conn |-> NoConn, type |-> "none", uuid |-> NoUuid]

\* The arguments a request of each kind may carry.
Args(k) == IF k \in {"for_time", "until_time", "nan_time"} THEN HalfTicks
           ELSE IF k \in {"set", "until_change"} THEN Values
           ELSE {0}

\* verisocks_main is on the call stack: the simulator is blocked.
HasFocus == state \in {"CONNECT", "WAITING", "PROCESSING"}

Init ==
  /\ state = "START" /\ srv = FALSE /\ fdClient = NoConn /\ p_cmd = FALSE
  /\ uuid = NoUuid /\ value = 0 /\ h_cb = NoCb
  /\ cbs = {} /\ sim = "run" /\ simTime = 0 /\ sig = 0
  /\ cst = [c \in Conns |-> "idle"] /\ backlog = <<>>
  /\ unread = [c \in Conns |-> 0] /\ torn = [c \in Conns |-> FALSE]
  /\ nread = [c \in Conns |-> 0] /\ nrep = [c \in Conns |-> 0]
  /\ cur = NoReq /\ last = NoReply

-----------------------------------------------------------------------------
(* What verisocks_main does with the state a step leaves.                   *)

Enter(st) ==
  /\ state' = st
  /\ p_cmd' = (st \in {"PROCESSING", "SIM_RUNNING"})
  /\ srv' = (srv /\ st \notin {"EXIT", "ERROR"})

FlyCatch_Missing(st) == st

\* A handler that leaves PROCESSING is sent back to WAITING.
FlyCatch(st) == IF st = "PROCESSING" THEN "WAITING" ELSE st

\* The error path of every caller of verisocks_main.
Abort == Enter("ERROR") /\ sim' = "finishing"

\* vs_vpi_return: the reply goes to fd_client_socket under uuid u.  Callers
\* ignore a failed write: a client that has gone simply gets nothing.
Return(type, u) ==
  /\ nrep' = [nrep EXCEPT ![fdClient] = @ + 1]
  /\ last' = [conn |-> fdClient, type |-> type, uuid |-> u]

\* $verisocks_init, called at time 0; the server socket may not be made.
verisocks_init_calltf ==
  /\ state = "START" /\ sim = "run"
  /\ \/ state' = "CONNECT" /\ srv' = TRUE /\ sim' = sim
     \/ state' = state /\ srv' = srv /\ sim' = "finishing"
  /\ UNCHANGED <<fdClient, p_cmd, uuid, value, h_cb, cbs, simTime, sig,
                 clientVars, torn, histVars>>

\* accept() returns the oldest queued connection ...
MainConnect ==
  /\ state = "CONNECT" /\ backlog # <<>>
  /\ fdClient' = Head(backlog) /\ backlog' = Tail(backlog)
  /\ Enter("WAITING")
  /\ UNCHANGED <<uuid, value, h_cb, simVars, cst, unread, torn, histVars>>

\* ... or select() times out, or accept() fails.
ConnectFails ==
  /\ state = "CONNECT"
  /\ fdClient' = NoConn
  /\ Abort
  /\ UNCHANGED <<uuid, value, h_cb, cbs, simTime, sig, clientVars, torn, histVars>>

-----------------------------------------------------------------------------
(* verisocks_main_waiting                                                   *)

MessageReady_AtEof == ~torn[fdClient]

\* vs_msg_read returns a message.
MessageReady == unread[fdClient] > 0 /\ ~torn[fdClient]

LoseClient_StillWaiting ==
  /\ state = "WAITING"
  /\ cst[fdClient] = "closed"
  /\ cst' = [cst EXCEPT ![fdClient] = "dropped"]
  /\ UNCHANGED <<serverVars, simVars, backlog, unread, torn, histVars>>

\* vs_msg_read fails: end of file, a bad header, a message in more than ten
\* fragments, or the rest of an oversize message taken for a header.
LoseClient ==
  /\ state = "WAITING"
  /\ unread[fdClient] > 0 \/ torn[fdClient] \/ cst[fdClient] = "closed"
  /\ cst' = [cst EXCEPT ![fdClient] = "dropped"]
  /\ Enter("CONNECT")
  /\ UNCHANGED <<fdClient, uuid, value, h_cb, simVars, backlog, unread, torn,
                 histVars>>

StoredUuid_Stale(m) == IF m.tagged THEN <<m.conn, m.seq>> ELSE uuid

StoredUuid(m) == IF m.tagged THEN <<m.conn, m.seq>> ELSE NoUuid

\* The next message of the served connection, whatever its content is.
Message(k, a, t) == [conn |-> fdClient, seq |-> nread[fdClient] + 1, kind |-> k,
                     arg |-> a, tagged |-> t, t0 |-> simTime]

\* A message is read.  One that fills the read buffer is refused and, unless it
\* ends exactly there, leaves the rest of its content in the stream; one that
\* is not JSON is refused; any other becomes p_cmd.
ReadMessage(m) ==
  /\ state = "WAITING" /\ MessageReady
  /\ unread' = [unread EXCEPT ![fdClient] = @ - 1]
  /\ nread' = [nread EXCEPT ![fdClient] = @ + 1]
  /\ cur' = m
  /\ uuid' = StoredUuid(m)
  /\ IF m.kind \in {"toolong", "notjson"}
       THEN Return("error", uuid') /\ Enter("WAITING")
       ELSE Enter("PROCESSING") /\ UNCHANGED <<nrep, last>>
  /\ \E rest \in BOOLEAN :
       /\ rest => m.kind = "toolong"
       /\ torn' = [torn EXCEPT ![fdClient] = rest]
  /\ UNCHANGED <<fdClient, value, h_cb, simVars, cst, backlog>>

MainWaiting ==
  \E k \in Kinds, t \in BOOLEAN : \E a \in Args(k) : ReadMessage(Message(k, a, t))

-----------------------------------------------------------------------------
(* vs_vpi_process_command and the handlers.  Any request may lack a field or *)
(* name an object that does not exist: its handler then replies "error".     *)

Processing(kinds) ==
  /\ state = "PROCESSING" /\ cur.kind \in kinds
  /\ UNCHANGED <<fdClient, uuid, clientVars, torn, nread, cur>>

Answered(types) ==
  /\ \E type \in types : Return(type, uuid)
  /\ Enter(FlyCatch("WAITING"))
  /\ UNCHANGED <<value, h_cb, simVars>>

CmdInfo == Processing({"info"}) /\ Answered({"ack", "error"})

\* get of anything: a value is read, nothing changes.
CmdGet == Processing({"get"}) /\ Answered({"result", "error"})

\* A missing or unknown command, run condition or get selector.
CmdBad == Processing({"bad"}) /\ Answered({"error"})

\* set leaves the state alone when it succeeds.  An array is written word by
\* word: an error in the middle keeps the words already written.
CmdSet ==
  /\ Processing({"set"})
  /\ \/ sig' = cur.arg /\ Return("ack", uuid) /\ Enter(FlyCatch("PROCESSING"))
     \/ sig' \in {sig, cur.arg} /\ Return("error", uuid) /\ Enter(FlyCatch("WAITING"))
  /\ UNCHANGED <<value, h_cb, cbs, sim, simTime>>

\* The conversion to simulation time truncates.
Ticks(h) == h \div 2

\* That of a number that is none is undefined: its argument is what it yields, and a
\* time that has passed is due at once.
DueTime(m) == IF m.kind \in {"for_time", "nan_time"} THEN m.t0 + Ticks(m.arg)
              ELSE IF m.kind = "until_time" THEN Ticks(m.arg)
              ELSE m.t0 + 1

TimeValid_Unchecked(m) == TRUE

\* The checks on the argument, made before the conversion: not a number passes both.
TimeValid(m) == /\ m.kind = "for_time" => m.arg > 0
                /\ m.kind = "until_time" => m.arg > 2 * m.t0

\* for_time, until_time, to_next: one callback at the due time.
CmdRunTime ==
  /\ Processing({"for_time", "until_time", "nan_time", "to_next"})
  /\ TimeValid(cur)
  /\ cbs' = cbs \cup {[kind |-> "time", at |-> DueTime(cur)]}
  /\ h_cb' = NoCb
  /\ Enter(FlyCatch("SIM_RUNNING"))
  /\ UNCHANGED <<value, sim, simTime, sig, nrep, last>>

\* until_change: the target is stored, then the callback registered.  A named
\* event has no target.
CmdRunChange ==
  /\ Processing({"until_change", "until_event"})
  /\ value' = cur.arg
  /\ h_cb' = [kind |-> IF cur.kind = "until_event" THEN "event" ELSE "change",
              at |-> 0]
  /\ cbs' = cbs \cup {h_cb'}
  /\ Enter(FlyCatch("SIM_RUNNING"))
  /\ UNCHANGED <<sim, simTime, sig, nrep, last>>

\* The error path of the run handlers; the target may be stored by then.
CmdRunError ==
  /\ Processing(RunKinds)
  /\ Return("error", uuid)
  /\ value' \in {value} \cup (IF cur.kind = "until_change" THEN {cur.arg} ELSE {})
  /\ Enter(FlyCatch("WAITING"))
  /\ UNCHANGED <<h_cb, simVars>>

\* stop gives the simulator to its console user, and registers no callback.
CmdStop ==
  /\ Processing({"stop"})
  /\ Return("ack", uuid) /\ sim' = "stopped" /\ Enter(FlyCatch("SIM_RUNNING"))
  /\ UNCHANGED <<value, h_cb, cbs, simTime, sig>>

CmdFinish ==
  /\ Processing({"finish"})
  /\ Return("ack", uuid) /\ sim' = "finishing" /\ Enter(FlyCatch("EXIT"))
  /\ UNCHANGED <<value, h_cb, cbs, simTime, sig>>

CmdExit ==
  /\ Processing({"exit"})
  /\ Return("ack", uuid) /\ Enter(FlyCatch("EXIT"))
  /\ UNCHANGED <<value, h_cb, simVars>>

ProcessCommand == CmdInfo \/ CmdGet \/ CmdBad \/ CmdSet \/ CmdRunTime
                    \/ CmdRunChange \/ CmdRunError \/ CmdStop \/ CmdFinish \/ CmdExit

-----------------------------------------------------------------------------
(* The simulator, which runs only while verisocks_main is not on the stack.  *)

SimRuns == sim = "run" /\ ~HasFocus /\ state # "START"

Due == {cb \in cbs : cb.kind = "time" /\ cb.at <= simTime}

\* Time moves to the next event, and to the horizon of the testbench at most.
Advance ==
  /\ SimRuns /\ Due = {} /\ simTime < MaxTime
  /\ simTime' = simTime + 1
  /\ UNCHANGED <<serverVars, cbs, sim, sig, clientVars, torn, histVars>>

Reached_KeepsRunning == Return("ack", uuid) /\ Enter("SIM_RUNNING") /\ sim' = sim

\* A run is over: acknowledge it and take the focus.
Reached ==
  /\ Return("ack", uuid)
  /\ Enter("WAITING")
  /\ sim' = sim

\* verisocks_cb, called once by the simulator at the time it was given.
verisocks_cb ==
  /\ SimRuns
  /\ \E cb \in Due : cbs' = cbs \ {cb}
  /\ IF state # "SIM_RUNNING" THEN Abort /\ UNCHANGED <<nrep, last>> ELSE Reached
  /\ UNCHANGED <<fdClient, uuid, value, h_cb, simTime, sig, clientVars, torn,
                 nread, cur>>

verisocks_cb_value_change_NotRemoved(cb) ==
  IF cb.kind = "change" /\ sig' # value
  THEN UNCHANGED <<state, p_cmd, srv, cbs, sim, nrep, last>>
  ELSE cbs' = cbs /\ Reached

\* verisocks_cb_value_change, called at every change (sig' = v) of the signal or
\* trigger of the event until the callback is removed.
verisocks_cb_value_change(cb) ==
  IF state # "SIM_RUNNING" THEN Abort /\ UNCHANGED <<cbs, nrep, last>>
  ELSE IF cb.kind = "change" /\ sig' # value
       THEN UNCHANGED <<state, p_cmd, srv, cbs, sim, nrep, last>>
       ELSE cbs' = cbs \ {h_cb} /\ Reached

\* The design drives the watched signal.
SignalChanges ==
  /\ SimRuns
  /\ sig' \in Values \ {sig}
  /\ IF \E cb \in cbs : cb.kind = "change"
       THEN \E cb \in cbs : cb.kind = "change" /\ verisocks_cb_value_change(cb)
       ELSE UNCHANGED <<state, p_cmd, srv, cbs, sim, nrep, last>>
  /\ UNCHANGED <<fdClient, uuid, value, h_cb, simTime, clientVars, torn, nread, cur>>

\* The design triggers a named event a run waits for.
EventTriggers ==
  /\ SimRuns /\ sig' = sig
  /\ \E cb \in cbs : cb.kind = "event" /\ verisocks_cb_value_change(cb)
  /\ UNCHANGED <<fdClient, uuid, value, h_cb, simTime, clientVars, torn, nread, cur>>

ExitOwesReply_Processing == state = "PROCESSING"

\* A client may be expecting an answer.
ExitOwesReply == state \in {"SIM_RUNNING", "PROCESSING"}

\* verisocks_cb_exit, the end-of-simulation callback.
verisocks_cb_exit ==
  /\ IF ExitOwesReply
       THEN Return("error", uuid) ELSE UNCHANGED <<nrep, last>>
  /\ srv' = FALSE /\ p_cmd' = FALSE
  /\ sim' = "ended" /\ cbs' = {}
  /\ UNCHANGED <<state, fdClient, uuid, value, h_cb, simTime, sig, clientVars,
                 torn, nread, cur>>

\* The design calls $finish or has no event left,
DesignEnds == SimRuns /\ verisocks_cb_exit

\* which it does at its horizon at the latest;
Horizon == SimRuns /\ Due = {} /\ simTime = MaxTime /\ verisocks_cb_exit

\* or vpiFinish takes effect when the simulator has the focus.
SimFinishes == sim = "finishing" /\ ~HasFocus /\ verisocks_cb_exit

\* The user at the prompt of a stopped simulator continues or finishes.
Console ==
  /\ sim = "stopped"
  /\ sim' \in {"run", "finishing"}
  /\ UNCHANGED <<serverVars, cbs, simTime, sig, clientVars, torn, histVars>>

-----------------------------------------------------------------------------
(* Clients                                                                  *)

Connect(c) ==
  /\ cst[c] = "idle" /\ srv
  /\ cst' = [cst EXCEPT ![c] = "up"] /\ backlog' = Append(backlog, c)
  /\ UNCHANGED <<serverVars, simVars, unread, torn, histVars>>

Send(c) ==
  /\ cst[c] = "up" /\ nread[c] + unread[c] < MaxReq
  /\ unread' = [unread EXCEPT ![c] = @ + 1]
  /\ UNCHANGED <<serverVars, simVars, cst, backlog, torn, histVars>>

HangUp(c) ==
  /\ cst[c] = "up"
  /\ cst' = [cst EXCEPT ![c] = "closed"]
  /\ UNCHANGED <<serverVars, simVars, backlog, unread, torn, histVars>>

Server == verisocks_init_calltf \/ MainConnect \/ ConnectFails \/ LoseClient
            \/ MainWaiting \/ ProcessCommand

Simulator == Advance \/ verisocks_cb \/ SignalChanges \/ EventTriggers
               \/ DesignEnds \/ Horizon \/ SimFinishes \/ Console

Next == Server \/ Simulator \/ \E c \in Conns : Connect(c) \/ Send(c) \/ HangUp(c)

Spec == Init /\ [][Next]_vars

\* The main loop does not pause once it has a command; a simulator that has the
\* focus keeps going, and its design has a horizon and no zero-delay loop.
Fairness == /\ WF_vars(ProcessCommand) /\ WF_vars(Advance) /\ WF_vars(verisocks_cb)
            /\ WF_vars(Horizon) /\ WF_vars(SimFinishes)

FairSpec == Spec /\ Fairness
-----------------------------------------------------------------------------
(* Properties                                                               *)

Uuid == (Conns \X Nat) \cup {NoUuid}

Request == [conn : Conns, seq : Nat, kind : AllKinds, arg : Nat, tagged : BOOLEAN,
            t0 : Nat]

Reply == [conn : Conns \cup {NoConn}, type : {"none", "ack", "result", "error"},
          uuid : Uuid]

ServerType ==
  /\ state \in {"START", "CONNECT", "WAITING", "PROCESSING", "SIM_RUNNING",
                "EXIT", "ERROR"}
  /\ srv \in BOOLEAN /\ p_cmd \in BOOLEAN
  /\ fdClient \in Conns \cup {NoConn}
  /\ uuid \in Uuid /\ value \in Nat /\ h_cb \in Callback \cup {NoCb}

SimType ==
  /\ cbs \in SUBSET Callback
  /\ sim \in {"run", "stopped", "finishing", "ended"}
  /\ simTime \in Nat /\ sig \in Nat

ClientType ==
  /\ cst \in [Conns -> {"idle", "up", "closed", "dropped"}]
  /\ backlog \in Seq(Conns)
  /\ unread \in [Conns -> Nat] /\ torn \in [Conns -> BOOLEAN]

HistType ==
  /\ nread \in [Conns -> Nat] /\ nrep \in [Conns -> Nat]
  /\ cur \in Request \cup {NoReq} /\ last \in Reply

\* Every variable has its type, fd_client_socket names a connection whenever it
\* is used, and the request in hand is known and came from that connection.
TypeOK ==
  /\ ServerType /\ SimType /\ ClientType /\ HistType
  /\ state \in {"WAITING", "PROCESSING", "SIM_RUNNING"} => fdClient \in Conns
  /\ state \in {"PROCESSING", "SIM_RUNNING"} => cur \in Request /\ cur.conn = fdClient

\* At most one callback is registered at any time, none unless the simulator has
\* the focus for a run request, and a run that has the focus always has one: so
\* no callback finds the "Inconsistent state" of verisocks_cb, no set command
\* triggers a leftover value change callback and no run waits for nothing.
CallbackDiscipline ==
  /\ \A a, b \in cbs : a = b
  /\ cbs # {} <=> state = "SIM_RUNNING" /\ cur.kind \in RunKinds /\ sim = "run"
  /\ \A cb \in cbs : cb.kind # "time" => cb = h_cb

\* The server writes to and reads from a connection it has accepted and not
\* closed, never to the stale descriptor it keeps after a lost connection.
NoStaleDescriptor ==
  state \in {"WAITING", "PROCESSING", "SIM_RUNNING", "EXIT"} =>
    fdClient \in Conns /\ cst[fdClient] \in {"up", "closed"}

\* The server is working on a request it has not answered.
Busy == \/ state = "PROCESSING"
        \/ state = "SIM_RUNNING" /\ cur.kind # "stop" /\ sim # "ended"

\* Replies are neither lost nor made up: on every connection the server has
\* written one reply per message it read, except for the one it is working on.
\* (The end of a simulation that stop has left adds one: see StopGivesFocus.)
Ledger ==
  \A c \in Conns :
    nrep[c] = nread[c] - (IF Busy /\ c = fdClient THEN 1 ELSE 0)
                       + (IF /\ state = "SIM_RUNNING" /\ cur.kind = "stop"
                             /\ sim = "ended" /\ c = fdClient THEN 1 ELSE 0)

\* Once a request is answered, its reply went to the connection it came from and
\* carried its UUID, or none if it had none, never the UUID of another request.
ReplyCarriesUuid ==
  cur # NoReq /\ ~Busy =>
    /\ last.conn = cur.conn
    /\ last.uuid = IF cur.tagged THEN <<cur.conn, cur.seq>> ELSE NoUuid

\* The condition a run request stops at; a time that is no number is none.
Condition(m) == /\ m.kind = "for_time"     => simTime = m.t0 + m.arg \div 2
                /\ m.kind = "until_time"   => simTime = m.arg \div 2
                /\ m.kind = "to_next"      => simTime = m.t0 + 1
                /\ m.kind = "until_change" => sig = m.arg

\* A run is acknowledged only at the instant its condition holds, whatever the
\* design did and whatever run was asked for before.
AckIsHonest ==
  [][state = "SIM_RUNNING" /\ nrep' # nrep /\ last'.type = "ack"
       => Condition(cur)']_vars

\* While Verisocks waits for or handles a request, and whenever every run so far
\* has been answered, simulation time stands still; only an exit or a stop ends
\* that for good.
TimeFrozen ==
  [][simTime' # simTime =>
       \/ cur.kind \in RunKinds /\ nrep[cur.conn] < nread[cur.conn]
       \/ cur.kind \in {"stop", "exit"}]_vars

Unanswered == \E c \in Conns : nrep[c] < nread[c]

\* Every message that the server reads is answered in the end, even when the run
\* it asks for never meets its condition and the simulation ends instead.
EveryRequestAnswered == Unanswered ~> ~Unanswered

\* tcp_protocol.rst of stop: "After this command, the execution focus goes to
\* Verisocks".
StopGivesFocus ==
  cur.kind = "stop" /\ nrep[cur.conn] >= nread[cur.conn] => HasFocus
=============================================================================
