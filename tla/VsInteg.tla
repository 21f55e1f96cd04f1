------------------------------ MODULE VsInteg ------------------------------
(***************************************************************************)
(* The Verilator integration (include/vsl/): VslInteg runs the simulation    *)
(* itself.  It serves one client at a time and, for a run request, loops      *)
(* over the verilated model and the clocks until a callback is reached.      *)
(* Clients and the verilated model are the environment.                     *)
(*                                                                          *)
(* One step is one function of the state machine, or one iteration of a loop *)
(* that moves simulation time.  A message is chosen when it is read.         *)
(***************************************************************************)
EXTENDS VsClocks

CONSTANTS
  NoUuid,    \* uuid.valid = 0
  NoClock,   \* a request that names no clock
  Kinds,     \* request classes the clients send
  HalfTicks, \* "time" arguments of run requests, in half time steps
  Values,    \* values of the watched variable
  Delays,    \* delays of the design; empty when it is verilated without timing
  MaxReq,    \* bound: messages the server reads
  MaxTime    \* bound: from this time on the design calls $finish

RunKinds == {"for_time", "until_time", "to_next", "until_change"}

AllKinds == RunKinds \cup {"info", "get", "type", "bad", "set", "clk_on", "clk_off",
                           "clk_cfg", "stop", "finish", "exit", "notjson", "toolong"}

ASSUME IntegAssumption ==
  /\ NoClock \notin Clocks /\ NoUuid \notin Nat
  /\ Kinds \subseteq AllKinds
  /\ HalfTicks \subseteq Nat /\ Values \subseteq Nat /\ 0 \in Values
  /\ Delays \subseteq Nat \ {0} /\ IsFiniteSet(Delays)
  /\ MaxReq \in Nat /\ MaxTime \in Nat

VARIABLES
  state,     \* _state
  srv,       \* fd_server_socket >= 0
  client,    \* fd_client_socket >= 0
  uuid,      \* uuid of the last message read
  timeCb,    \* b_has_time_callback
  valueCb,   \* b_has_value_callback
  cb_time,
  cb_value,
  clocks,    \* clock_map.clock_list
  time,      \* p_context->time()
  gotFinish, \* p_context->gotFinish()
  slots,     \* times at which the model has events pending
  sig,       \* value of the watched variable
  nread,     \* history: messages read
  nrep,      \* history: replies written
  cur,       \* history: the last message read
  last,      \* history: the last reply written
  wanted     \* history: clocks whose last clk_en request was to enable

callbackVars == <<timeCb, valueCb, cb_time, cb_value>>
modelVars    == <<clocks, time, gotFinish, slots, sig>>
histVars     == <<nread, nrep, cur, last, wanted>>
vars         == <<state, srv, client, uuid, callbackVars, modelVars, histVars>>

NoReq   == [id |-> 0, kind |-> "none", arg |-> 0, clk |-> NoClock,
            tagged |-> FALSE, t0 |-> 0]
NoReply == [type |-> "none", uuid |-> NoUuid]

Args(k) == IF k \in {"for_time", "until_time"} THEN HalfTicks
           ELSE IF k \in {"set", "until_change"} THEN Values
           ELSE {0}

ClockArgs(k) == IF k \in {"clk_on", "clk_off", "clk_cfg"} THEN Clocks ELSE {NoClock}

\* The clock map once clocks with waves w have been registered in this order.
Registered(order, w) ==
  LET map[n \in 0 .. Len(order)] ==
        IF n = 0 THEN <<>> ELSE AddClock(map[n - 1], New(order[n], w[order[n]]))
  IN map[Len(order)]

\* The testbench registers the clocks in any order, then calls run().
Init ==
  /\ state = "INIT" /\ srv = FALSE /\ client = FALSE /\ uuid = NoUuid
  /\ timeCb = FALSE /\ valueCb = FALSE /\ cb_time = 0 /\ cb_value = 0
  /\ \E order \in SetToSeqs(Clocks), w \in [Clocks -> Waves] :
       /\ clocks = Registered(order, w)
       /\ wanted = {n \in Clocks : w[n].high > 0}
  /\ time = 0 /\ gotFinish = FALSE /\ slots = {} /\ sig = 0
  /\ nread = 0 /\ nrep = 0 /\ cur = NoReq /\ last = NoReply

-----------------------------------------------------------------------------
(* Connection and requests                                                  *)

\* vs_msg_return under uuid u; a failed write is ignored.
Return(type, u) == nrep' = nrep + 1 /\ last' = [type |-> type, uuid |-> u]

main_init ==
  /\ state = "INIT"
  /\ \/ state' = "CONNECT" /\ srv' = TRUE
     \/ state' = "ERROR" /\ srv' = FALSE
  /\ UNCHANGED <<client, uuid, callbackVars, modelVars, histVars>>

\* A client connects or the time-out strikes.
main_connect ==
  /\ state = "CONNECT"
  /\ \/ state' = "WAITING" /\ client' = TRUE
     \/ state' = "ERROR" /\ client' = FALSE
  /\ UNCHANGED <<srv, uuid, callbackVars, modelVars, histVars>>

LoseClient_StillWaiting ==
  /\ state = "WAITING"
  /\ client' = FALSE
  /\ UNCHANGED <<state, srv, uuid, callbackVars, modelVars, histVars>>

\* vs_msg_read fails.
LoseClient ==
  /\ state = "WAITING"
  /\ client' = FALSE /\ state' = "CONNECT"
  /\ UNCHANGED <<srv, uuid, callbackVars, modelVars, histVars>>

StoredUuid_Stale(m) == IF m.tagged THEN m.id ELSE uuid

StoredUuid(m) == IF m.tagged THEN m.id ELSE NoUuid

ReadMessage(m) ==
  /\ nread' = m.id /\ cur' = m
  /\ uuid' = StoredUuid(m)
  /\ IF m.kind \in {"toolong", "notjson"}
       THEN Return("error", uuid') /\ state' = state
       ELSE state' = "PROCESSING" /\ UNCHANGED <<nrep, last>>

main_wait ==
  /\ state = "WAITING" /\ nread < MaxReq
  /\ \E k \in Kinds, t \in BOOLEAN : \E a \in Args(k), c \in ClockArgs(k) :
       ReadMessage([id |-> nread + 1, kind |-> k, arg |-> a, clk |-> c,
                    tagged |-> t, t0 |-> time])
  /\ UNCHANGED <<srv, client, callbackVars, modelVars, wanted>>

-----------------------------------------------------------------------------
(* The verilated model and the clocks                                       *)

\* p_model->eval() at the present time: the model runs the events that are due,
\* may schedule others, change the watched variable, or call $finish.
EvalModel ==
  /\ sig' \in Values
  /\ gotFinish' \in {TRUE} \cup (IF time < MaxTime THEN {gotFinish} ELSE {})
  /\ \E new \in SUBSET {time + d : d \in Delays} :
       slots' = {s \in slots : s > time} \cup new

eval == clocks' = EvalAll(clocks, time) /\ EvalModel

has_events_pending(cl, sl) == sl # {} \/ HasNextEvent(cl)

next_event_time_ModelOnly(cl, sl) ==
  IF sl # {} THEN Min(sl) ELSE NextEvent(cl)

\* The head of the clock list, unless no clock is enabled or the model has an
\* earlier event.
next_event_time(cl, sl) ==
  IF HasNextEvent(cl) /\ (sl = {} \/ NextEvent(cl) <= Min(sl)) THEN NextEvent(cl)
  ELSE Min(sl)

check_value_callback_Any(v) == valueCb

check_value_callback(v) == valueCb /\ v = cb_value

-----------------------------------------------------------------------------
(* main_process and the handlers.  Every one but exit leaves PROCESSING with *)
(* its reply or to run the simulation.                                       *)

Answered == nrep = nread

Processing(kinds) ==
  /\ state = "PROCESSING" /\ cur.kind \in kinds /\ ~Answered
  /\ UNCHANGED <<srv, client, uuid, nread, cur>>

Reply(types) == (\E type \in types : Return(type, uuid)) /\ state' = "WAITING"

CmdInfo == /\ Processing({"info"}) /\ Reply({"ack", "error"})
           /\ UNCHANGED <<callbackVars, modelVars, wanted>>

CmdGet == /\ Processing({"get"}) /\ Reply({"result", "error"})
          /\ UNCHANGED <<callbackVars, modelVars, wanted>>

\* get(sel=type) is not supported.
CmdType == /\ Processing({"type"}) /\ Reply({"warning"})
           /\ UNCHANGED <<callbackVars, modelVars, wanted>>

CmdBad == /\ Processing({"bad"}) /\ Reply({"error"})
          /\ UNCHANGED <<callbackVars, modelVars, wanted>>

\* An array is written word by word: an error may leave some words written.
CmdSetValue ==
  /\ Processing({"set"})
  /\ \/ sig' = cur.arg /\ Reply({"ack"})
     \/ sig' \in {sig, cur.arg} /\ Reply({"error"})
  /\ UNCHANGED <<callbackVars, clocks, time, gotFinish, slots, wanted>>

CmdClockError ==
  /\ Processing({"clk_on", "clk_off", "clk_cfg"}) /\ Reply({"error"})
  /\ UNCHANGED <<callbackVars, modelVars, wanted>>

CmdClockOn ==
  /\ Processing({"clk_on"}) /\ Reply({"ack"})
  /\ clocks' = Put(clocks, Enable(get_clock(clocks, cur.clk), time))
  /\ wanted' = wanted \cup {cur.clk}
  /\ UNCHANGED <<callbackVars, time, gotFinish, slots, sig>>

CmdClockOff ==
  /\ Processing({"clk_off"}) /\ Reply({"ack"})
  /\ clocks' = Put(clocks, Disable(get_clock(clocks, cur.clk)))
  /\ wanted' = wanted \ {cur.clk}
  /\ UNCHANGED <<callbackVars, time, gotFinish, slots, sig>>

\* A period or duty cycle that set_period refuses is acknowledged too.
CmdClockCfg ==
  /\ Processing({"clk_cfg"}) /\ Reply({"ack"})
  /\ \/ clocks' = clocks
     \/ \E w \in Waves :
          clocks' = Put(clocks, SetPeriod(get_clock(clocks, cur.clk), w))
  /\ UNCHANGED <<callbackVars, time, gotFinish, slots, sig, wanted>>

\* The conversion to simulation time truncates.  That of a number that is none, which
\* passes the checks before it, is undefined: some h stands for what it yields.
Ticks(h) == h \div 2

Registrable_AnyTime(t) == ~timeCb /\ ~valueCb

\* A callback is refused while another is registered; a time must be ahead.
Registrable(t) == ~timeCb /\ ~valueCb /\ t > time

register_time_callback(t) == timeCb' = TRUE /\ cb_time' = t

CbTime(m) == Ticks(m.arg) + IF m.kind = "for_time" THEN time ELSE 0

CmdRunTime ==
  /\ Processing({"for_time", "until_time"})
  /\ cur.arg > 0 /\ Registrable(CbTime(cur))
  /\ register_time_callback(CbTime(cur)) /\ state' = "SIM_RUNNING"
  /\ UNCHANGED <<valueCb, cb_value, modelVars, nrep, last, wanted>>

\* to_next evaluates clocks and model before it looks for the next event.
CmdRunToNext ==
  /\ Processing({"to_next"})
  /\ eval
  /\ IF /\ has_events_pending(clocks', slots')
        /\ Registrable(next_event_time(clocks', slots'))
       THEN /\ register_time_callback(next_event_time(clocks', slots'))
            /\ state' = "SIM_RUNNING"
            /\ UNCHANGED <<valueCb, cb_value, nrep, last>>
       ELSE Reply({"error"}) /\ UNCHANGED callbackVars
  /\ UNCHANGED <<time, wanted>>

CmdRunUntilChange ==
  /\ Processing({"until_change"})
  /\ ~timeCb /\ ~valueCb
  /\ valueCb' = TRUE /\ cb_value' = cur.arg
  /\ state' = "SIM_RUNNING"
  /\ UNCHANGED <<timeCb, cb_time, modelVars, nrep, last, wanted>>

\* A missing or wrong argument, a time that truncates to the present.
CmdRunError ==
  /\ Processing({"for_time", "until_time", "until_change"}) /\ Reply({"error"})
  /\ UNCHANGED <<callbackVars, modelVars, wanted>>

\* stop only acknowledges: Verisocks has the focus already.
CmdStop == /\ Processing({"stop"}) /\ Reply({"ack"})
           /\ UNCHANGED <<callbackVars, modelVars, wanted>>

CmdFinish ==
  /\ Processing({"finish"})
  /\ Return("ack", uuid) /\ gotFinish' = TRUE /\ state' = "EXIT"
  /\ UNCHANGED <<callbackVars, clocks, time, slots, sig, wanted>>

\* exit is acknowledged first,
CmdExit ==
  /\ Processing({"exit"})
  /\ Return("ack", uuid) /\ state' = state
  /\ UNCHANGED <<callbackVars, modelVars, wanted>>

\* then runs the model, without the clocks, until $finish or its last event.
CmdExitLoop ==
  /\ state = "PROCESSING" /\ cur.kind = "exit" /\ Answered
  /\ IF gotFinish
       THEN state' = "EXIT" /\ UNCHANGED modelVars
       ELSE /\ EvalModel
            /\ IF slots' = {} THEN state' = "EXIT" /\ time' = time
                              ELSE state' = state /\ time' = Min(slots')
            /\ clocks' = clocks
  /\ UNCHANGED <<srv, client, uuid, callbackVars, histVars>>

main_process ==
  \/ CmdInfo \/ CmdGet \/ CmdType \/ CmdBad
  \/ CmdSetValue \/ CmdClockError \/ CmdClockOn \/ CmdClockOff \/ CmdClockCfg
  \/ CmdRunTime \/ CmdRunToNext \/ CmdRunUntilChange \/ CmdRunError
  \/ CmdStop \/ CmdFinish \/ CmdExit \/ CmdExitLoop

-----------------------------------------------------------------------------
(* main_sim, one iteration at a time                                        *)

clear_callbacks == timeCb' = FALSE /\ valueCb' = FALSE

Reached_KeepsRunning ==
  clear_callbacks /\ Return("ack", uuid) /\ state' = "SIM_RUNNING"

Reached_KeepsCallbacks ==
  /\ UNCHANGED <<timeCb, valueCb>> /\ Return("ack", uuid) /\ state' = "WAITING"

\* A run is over: acknowledge it and wait for the next request.
Reached == clear_callbacks /\ Return("ack", uuid) /\ state' = "WAITING"

SimEnds_Silent ==
  /\ state' = "SIM_FINISH"
  /\ UNCHANGED <<timeCb, valueCb, nrep, last>>

\* The simulation is over: a run that is under way gets an error.
SimEnds ==
  /\ IF timeCb \/ valueCb THEN Return("error", uuid) ELSE UNCHANGED <<nrep, last>>
  /\ state' = "SIM_FINISH"
  /\ UNCHANGED <<timeCb, valueCb>>

\* What follows the evaluation that gives clocks', slots', sig' and gotFinish'.
AfterEval ==
  IF gotFinish' THEN SimEnds /\ time' = time
  ELSE IF check_value_callback(sig') THEN Reached /\ time' = time
  ELSE IF ~has_events_pending(clocks', slots')
       THEN IF timeCb THEN Reached /\ time' = cb_time ELSE SimEnds /\ time' = time
  ELSE IF timeCb /\ next_event_time(clocks', slots') >= cb_time
       THEN Reached /\ time' = cb_time
  ELSE /\ time' = next_event_time(clocks', slots')
       /\ UNCHANGED <<state, timeCb, valueCb, nrep, last>>

main_sim ==
  /\ state = "SIM_RUNNING"
  /\ IF gotFinish THEN SimEnds /\ UNCHANGED modelVars
                  ELSE eval /\ AfterEval
  /\ UNCHANGED <<srv, client, uuid, cb_time, cb_value, nread, cur, wanted>>

main_sim_finish ==
  /\ state = "SIM_FINISH"
  /\ eval /\ state' = "EXIT"
  /\ UNCHANGED <<srv, client, uuid, callbackVars, time, histVars>>

\* run() closes the server socket and returns.
Leave ==
  /\ state \in {"EXIT", "ERROR"} /\ srv
  /\ srv' = FALSE
  /\ UNCHANGED <<state, client, uuid, callbackVars, modelVars, histVars>>

Next == main_init \/ main_connect \/ LoseClient \/ main_wait \/ main_process
          \/ main_sim \/ main_sim_finish \/ Leave

Spec == Init /\ [][Next]_vars

\* The loop of run() pauses only to wait for a client or a request.
Fairness == WF_vars(main_process) /\ WF_vars(main_sim)

FairSpec == Spec /\ Fairness
-----------------------------------------------------------------------------
(* Properties                                                               *)

Request == [id : Nat, kind : AllKinds, arg : Nat, clk : Clocks \cup {NoClock},
            tagged : BOOLEAN, t0 : Nat]

Answer == [type : {"none", "ack", "result", "warning", "error"},
           uuid : Nat \cup {NoUuid}]

\* Every variable has its type, each clock is in the list once, and the server
\* serves a request only with both its sockets open.
TypeOK ==
  /\ state \in {"INIT", "CONNECT", "WAITING", "PROCESSING", "SIM_RUNNING",
                "SIM_FINISH", "EXIT", "ERROR"}
  /\ srv \in BOOLEAN /\ client \in BOOLEAN /\ uuid \in Nat \cup {NoUuid}
  /\ timeCb \in BOOLEAN /\ valueCb \in BOOLEAN /\ cb_time \in Nat /\ cb_value \in Nat
  /\ clocks \in Seq(Clock)
  /\ Len(clocks) = Cardinality(Clocks) /\ {c.name : c \in ToSet(clocks)} = Clocks
  /\ time \in Nat /\ gotFinish \in BOOLEAN /\ slots \in SUBSET Nat /\ sig \in Nat
  /\ nread \in Nat /\ nrep \in Nat
  /\ cur \in Request \cup {NoReq} /\ last \in Answer /\ wanted \in SUBSET Clocks
  /\ state \in {"WAITING", "PROCESSING", "SIM_RUNNING"} => srv /\ client
  /\ state \in {"PROCESSING", "SIM_RUNNING"} => cur \in Request

Running == state = "SIM_RUNNING"

\* A run has exactly one callback to stop at, the one of its request; there is
\* none while Verisocks waits or handles a request, so that a callback is never
\* refused because of an earlier run.
OneCallback ==
  /\ ~(timeCb /\ valueCb)
  /\ Running => (timeCb <=> cur.kind # "until_change") /\ (valueCb <=> cur.kind = "until_change")
  /\ state \in {"CONNECT", "WAITING", "PROCESSING"} => ~timeCb /\ ~valueCb

Busy == Running \/ (state = "PROCESSING" /\ ~(cur.kind = "exit" /\ nrep = nread))

\* One reply per message read, but for the request in hand, through errors, the
\* end of the simulation and the loop of exit.
Ledger == nrep = nread - (IF Busy THEN 1 ELSE 0)

\* A reply carries the UUID of its own request, or none if that had none.
ReplyCarriesUuid ==
  cur # NoReq /\ ~Busy => last.uuid = IF cur.tagged THEN cur.id ELSE NoUuid

\* Simulation time is never set past an event of the model or of a clock that
\* has not been evaluated (before exit): no clock edge is missed, whatever the
\* runs ask for and whatever is enabled, disabled or configured between them.
NothingSkipped ==
  cur.kind # "exit" =>
    /\ \A s \in slots : s >= time
    /\ \A c \in ToSet(clocks) : c.enabled => c.next >= time

\* Simulation time never goes back.
TimeForward == [][time' >= time]_vars

\* A clock that is asked to stop stops, low: at once, or at the next falling edge
\* when it is high.
DisableObeyed ==
  \A c \in ToSet(clocks) :
    /\ ~c.enabled => c.value = 0
    /\ c.name \notin wanted /\ c.enabled => c.waiting /\ c.value = 1

\* An event of a clock or of the model is due now.
EventNow == time \in slots \/ \E c \in ToSet(clocks) : IsDue(c, time)

\* The condition a run request stops at.
Condition(m) ==
  /\ m.kind = "for_time"     => time = m.t0 + m.arg \div 2
  /\ m.kind = "until_time"   => time = m.arg \div 2 /\ time > m.t0
  /\ m.kind = "to_next"      => time > m.t0 /\ EventNow
  /\ m.kind = "until_change" => sig = m.arg

\* A run is acknowledged only when what it waits for has come.
AckIsHonest ==
  [][Running /\ nrep' # nrep /\ last'.type = "ack" => Condition(cur)']_vars

\* Every message that is read is answered in the end.
EveryRequestAnswered == nrep < nread ~> nrep = nread

\* vsl_clocks.hpp of operator<: "Disabled clocks at the back".
DisabledAtBack ==
  \A i, j \in DOMAIN clocks :
    i < j /\ Sorted(clocks)[j].enabled => Sorted(clocks)[i].enabled

\* tcp_protocol.rst of set(clk_en): the value "defines if the concerned clock
\* signal is enabled".
EnableObeyed == \A c \in ToSet(clocks) : c.name \in wanted => c.enabled

\* tcp_protocol.rst of exit: "the simulation continues its course until it ends".
ExitRunsToEnd ==
  state = "EXIT" /\ cur.kind = "exit" =>
    gotFinish \/ ~has_events_pending(clocks, slots)
=============================================================================
