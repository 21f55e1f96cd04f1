----------------------------- MODULE VsVpiProofs -----------------------------
(***************************************************************************)
(* The safety properties of the VPI application, proved for any number of   *)
(* connections, requests and time steps: type correctness, then the parts of *)
(* the inductive invariant of VsVpiInv, each relative to the parts before it. *)
(***************************************************************************)
EXTENDS VsVpiInv, TLAPS

-----------------------------------------------------------------------------
(* Lemmas about the operators the actions are built from                    *)

\* Every message the server reads is a well-formed request of its connection.
LEMMA MessageType ==
  ASSUME TypeOK, fdClient \in Conns, NEW k \in Kinds, NEW t \in BOOLEAN,
         NEW a \in Args(k)
  PROVE  /\ Message(k, a, t) \in Request
         /\ Message(k, a, t).conn = fdClient
         /\ StoredUuid(Message(k, a, t)) \in Uuid
<1>1. k \in AllKinds /\ a \in Nat
  BY ConstantsAssumption DEF Args
<1>2. nread[fdClient] + 1 \in Nat /\ simTime \in Nat
  BY DEF TypeOK, SimType, HistType
<1> QED
  BY <1>1, <1>2 DEF Message, Request, StoredUuid, Uuid

\* MainWaiting reads some well-formed request of the served connection.
LEMMA WaitingReads ==
  ASSUME TypeOK, MainWaiting
  PROVE  \E m \in Request : /\ m.conn = fdClient /\ m.t0 = simTime
                            /\ m.seq = nread[fdClient] + 1
                            /\ StoredUuid(m) \in Uuid /\ ReadMessage(m)
<1>1. PICK k \in Kinds, t \in BOOLEAN : \E a \in Args(k) : ReadMessage(Message(k, a, t))
  BY DEF MainWaiting
<1>2. PICK a \in Args(k) : ReadMessage(Message(k, a, t))
  BY <1>1
<1>3. fdClient \in Conns
  BY <1>2 DEF ReadMessage, TypeOK
<1>4. /\ Message(k, a, t) \in Request
      /\ Message(k, a, t).conn = fdClient
      /\ StoredUuid(Message(k, a, t)) \in Uuid
  BY <1>3, MessageType
<1>5. Message(k, a, t).t0 = simTime /\ Message(k, a, t).seq = nread[fdClient] + 1
  BY DEF Message
<1> QED
  BY <1>2, <1>4, <1>5

\* The due time of a run is a simulation time, and its callback is one.
LEMMA DueTimeType ==
  ASSUME NEW m \in Request
  PROVE  /\ DueTime(m) \in Nat
         /\ CallbackOf(m) \in Callback
<1>1. m.t0 \in Nat /\ m.arg \in Nat
  BY DEF Request
<1>2. Ticks(m.arg) \in Nat
  BY <1>1 DEF Ticks
<1>3. DueTime(m) \in Nat
  BY <1>1, <1>2 DEF DueTime
<1> QED
  BY <1>3 DEF CallbackOf, Callback

\* Writing a reply keeps the history of replies well formed.
LEMMA ReturnType ==
  ASSUME TypeOK, fdClient \in Conns, NEW type \in {"ack", "result", "error"},
         NEW u \in Uuid, Return(type, u)
  PROVE  nrep' \in [Conns -> Nat] /\ last' \in Reply
  BY DEF TypeOK, ServerType, HistType, Return, Reply

\* Entering a state of the server sets the variables of its main loop.
LEMMA EnterType ==
  ASSUME TypeOK, NEW st, Enter(st)
  PROVE  /\ state' = st /\ p_cmd' \in BOOLEAN /\ srv' \in BOOLEAN
  BY DEF TypeOK, ServerType, Enter

-----------------------------------------------------------------------------
(* Type correctness, one lemma per part of TypeOK                           *)

LEMMA InitTypeOK == Init => TypeOK
<1> SUFFICES ASSUME Init PROVE TypeOK
  OBVIOUS
<1> USE ConstantsAssumption DEF Init
<1>1. ServerType
  BY DEF ServerType, Uuid
<1>2. SimType
  BY DEF SimType
<1>3. ClientType
  BY DEF ClientType
<1>4. HistType
  BY DEF HistType, NoReply, Reply, Uuid
<1> QED
  BY <1>1, <1>2, <1>3, <1>4 DEF TypeOK

LEMMA NextClientType == TypeOK /\ [Next]_vars => ClientType'
<1> SUFFICES ASSUME TypeOK, [Next]_vars PROVE ClientType'
  OBVIOUS
<1> USE DEF TypeOK, ClientType
<1>1. CASE UNCHANGED <<clientVars, torn>>
  BY <1>1 DEF clientVars
<1>2. CASE MainConnect
  BY <1>2 DEF MainConnect
<1>3. CASE LoseClient
  BY <1>3 DEF LoseClient
<1>4. CASE MainWaiting
  <2>1. PICK m \in Request : ReadMessage(m)
    BY <1>4, WaitingReads
  <2>2. unread[fdClient] \in Nat
    BY <2>1 DEF ReadMessage
  <2>3. unread' \in [Conns -> Nat]
    BY <2>1, <2>2 DEF ReadMessage, MessageReady
  <2> QED
    BY <2>1, <2>3 DEF ReadMessage
<1>5. ASSUME NEW c \in Conns, Connect(c) \/ Send(c) \/ HangUp(c) PROVE ClientType'
  <2>1. CASE Connect(c)
    BY <2>1 DEF Connect
  <2>2. CASE Send(c)
    BY <2>2 DEF Send
  <2>3. CASE HangUp(c)
    BY <2>3 DEF HangUp
  <2> QED
    BY <1>5, <2>1, <2>2, <2>3
<1>6. CASE verisocks_init_calltf \/ ConnectFails
  BY <1>1, <1>6 DEF verisocks_init_calltf, ConnectFails
<1>7. CASE ProcessCommand
  BY <1>1, <1>7 DEF ProcessCommand, CmdInfo, CmdGet, CmdBad, Answered, CmdSet,
                    CmdRunTime, CmdRunChange,
                    CmdRunError, CmdStop, CmdFinish, CmdExit, Processing
<1>8. CASE Simulator
  BY <1>1, <1>8 DEF Simulator, Advance, verisocks_cb, SignalChanges,
                    EventTriggers,
                    DesignEnds, Horizon, SimFinishes, verisocks_cb_exit, Console
<1> QED
  BY <1>1, <1>2, <1>3, <1>4, <1>5, <1>6, <1>7, <1>8 DEF Next, Server, vars

LEMMA NextSimType == TypeOK /\ [Next]_vars => SimType'
<1> SUFFICES ASSUME TypeOK, [Next]_vars PROVE SimType'
  OBVIOUS
<1> USE DEF TypeOK, SimType
<1>1. CASE UNCHANGED simVars
  BY <1>1 DEF simVars
<1>2. CASE verisocks_init_calltf \/ ConnectFails \/ CmdStop \/ CmdFinish \/ Console
  BY <1>2 DEF verisocks_init_calltf, ConnectFails, Abort, CmdStop, CmdFinish,
              Console
<1>3. CASE CmdSet
  BY <1>3 DEF CmdSet, Processing, Request
<1>4. CASE CmdRunTime
  <2>1. [kind |-> "time", at |-> DueTime(cur)] \in Callback
    BY <1>4, DueTimeType DEF CmdRunTime, Processing, Callback
  <2> QED
    BY <1>4, <2>1 DEF CmdRunTime
<1>5. CASE CmdRunChange
  BY <1>5 DEF CmdRunChange, Callback
<1>6. CASE Advance
  BY <1>6 DEF Advance
<1>7. CASE verisocks_cb
  BY <1>7 DEF verisocks_cb, Reached, Abort
<1>8. CASE SignalChanges \/ EventTriggers
  <2>1. cbs' \subseteq cbs /\ sim' \in {sim, "finishing"}
    BY <1>8 DEF SignalChanges, EventTriggers, verisocks_cb_value_change,
                Reached, Abort
  <2>2. sig' \in Nat /\ simTime' = simTime
    BY <1>8, ConstantsAssumption DEF SignalChanges, EventTriggers
  <2> QED
    BY <2>1, <2>2
<1>9. CASE DesignEnds \/ Horizon \/ SimFinishes
  BY <1>9 DEF DesignEnds, Horizon, SimFinishes, verisocks_cb_exit
<1>10. CASE MainConnect \/ LoseClient \/ MainWaiting
  BY <1>1, <1>10 DEF MainConnect, LoseClient, MainWaiting, ReadMessage
<1>11. CASE CmdInfo \/ CmdGet \/ CmdBad \/ CmdRunError \/ CmdExit
  BY <1>1, <1>11 DEF CmdInfo, CmdGet, CmdBad, Answered, CmdRunError, CmdExit
<1>12. ASSUME NEW c \in Conns, Connect(c) \/ Send(c) \/ HangUp(c) PROVE SimType'
  BY <1>1, <1>12 DEF Connect, Send, HangUp
<1> QED
  BY <1>1, <1>2, <1>3, <1>4, <1>5, <1>6, <1>7, <1>8, <1>9, <1>10, <1>11, <1>12
  DEF Next, Server, Simulator, ProcessCommand, vars

LEMMA NextHistType == TypeOK /\ [Next]_vars => HistType'
<1> SUFFICES ASSUME TypeOK, [Next]_vars PROVE HistType'
  OBVIOUS
<1>1. CASE UNCHANGED histVars
  BY <1>1 DEF histVars, TypeOK, HistType
<1>2. ASSUME fdClient \in Conns, UNCHANGED <<nread, cur>>,
             \/ UNCHANGED <<nrep, last>>
             \/ \E type \in {"ack", "result", "error"} : Return(type, uuid)
      PROVE  HistType'
  <2>1. uuid \in Uuid
    BY DEF TypeOK, ServerType
  <2>2. nrep' \in [Conns -> Nat] /\ last' \in Reply
    BY <1>2, <2>1, ReturnType DEF TypeOK, HistType
  <2> QED
    BY <1>2, <2>2 DEF TypeOK, HistType
<1>3. CASE MainWaiting
  <2>1. PICK m \in Request : StoredUuid(m) \in Uuid /\ ReadMessage(m)
    BY <1>3, WaitingReads
  <2>2. fdClient \in Conns /\ uuid' \in Uuid
    BY <2>1 DEF ReadMessage, TypeOK
  <2>3. nrep' \in [Conns -> Nat] /\ last' \in Reply
    BY <2>1, <2>2, ReturnType DEF ReadMessage, TypeOK, HistType
  <2>4. nread' \in [Conns -> Nat] /\ cur' = m
    BY <2>1, <2>2 DEF ReadMessage, TypeOK, HistType
  <2> QED
    BY <2>3, <2>4 DEF HistType
<1>4. CASE ProcessCommand
  <2>1. fdClient \in Conns /\ UNCHANGED <<nread, cur>>
    BY <1>4 DEF ProcessCommand, CmdInfo, CmdGet, CmdBad, Answered, CmdSet,
                CmdRunTime, CmdRunChange,
                CmdRunError, CmdStop, CmdFinish, CmdExit, Processing, TypeOK
  <2>2. \/ UNCHANGED <<nrep, last>>
        \/ \E type \in {"ack", "result", "error"} : Return(type, uuid)
    BY <1>4 DEF ProcessCommand, CmdInfo, CmdGet, CmdBad, Answered, CmdSet,
                CmdRunTime, CmdRunChange,
                CmdRunError, CmdStop, CmdFinish, CmdExit
  <2> QED
    BY <1>2, <2>1, <2>2
<1>5. CASE verisocks_cb \/ SignalChanges \/ EventTriggers
  <2>1. CASE state = "SIM_RUNNING"
    BY <1>2, <1>5, <2>1
    DEF verisocks_cb, SignalChanges, EventTriggers, verisocks_cb_value_change,
        Reached, TypeOK
  <2>2. CASE state # "SIM_RUNNING"
    BY <1>1, <1>5, <2>2
    DEF verisocks_cb, SignalChanges, EventTriggers, verisocks_cb_value_change,
        histVars
  <2> QED
    BY <2>1, <2>2
<1>6. CASE DesignEnds \/ Horizon \/ SimFinishes
  <2>1. UNCHANGED <<nread, cur>>
    BY <1>6 DEF DesignEnds, Horizon, SimFinishes, verisocks_cb_exit
  <2>2. CASE ExitOwesReply
    BY <1>2, <1>6, <2>1, <2>2
    DEF DesignEnds, Horizon, SimFinishes, verisocks_cb_exit, ExitOwesReply, TypeOK
  <2>3. CASE ~ExitOwesReply
    BY <1>1, <1>6, <2>1, <2>3
    DEF DesignEnds, Horizon, SimFinishes, verisocks_cb_exit, histVars
  <2> QED
    BY <2>2, <2>3
<1>7. CASE verisocks_init_calltf \/ MainConnect \/ ConnectFails \/ LoseClient
  BY <1>1, <1>7 DEF verisocks_init_calltf, MainConnect, ConnectFails, LoseClient
<1>8. CASE Advance \/ Console
  BY <1>1, <1>8 DEF Advance, Console
<1>9. ASSUME NEW c \in Conns, Connect(c) \/ Send(c) \/ HangUp(c) PROVE HistType'
  BY <1>1, <1>9 DEF Connect, Send, HangUp
<1> QED
  BY <1>1, <1>3, <1>4, <1>5, <1>6, <1>7, <1>8, <1>9 DEF Next, Server,
                                                        Simulator, vars

\* Server variables, and the two implications of TypeOK about them.
LEMMA NextServerType ==
  TypeOK /\ [Next]_vars =>
    /\ ServerType'
    /\ state' \in {"WAITING", "PROCESSING", "SIM_RUNNING"} => fdClient' \in Conns
    /\ state' \in {"PROCESSING", "SIM_RUNNING"} =>
         cur' \in Request /\ cur'.conn = fdClient'
<1> DEFINE
  Goal == /\ ServerType'
          /\ state' \in {"WAITING", "PROCESSING", "SIM_RUNNING"} => fdClient' \in Conns
          /\ state' \in {"PROCESSING", "SIM_RUNNING"} =>
               cur' \in Request /\ cur'.conn = fdClient'
<1> SUFFICES ASSUME TypeOK, [Next]_vars PROVE Goal
  OBVIOUS
<1>1. CASE UNCHANGED <<serverVars, cur>>
  BY <1>1 DEF serverVars, TypeOK, ServerType
<1>2. CASE verisocks_init_calltf
  BY <1>2 DEF verisocks_init_calltf, TypeOK, ServerType
<1>3. CASE MainConnect
  <2>1. fdClient' \in Conns
    BY <1>3 DEF MainConnect, TypeOK, ClientType
  <2>2. state' = "WAITING" /\ p_cmd' \in BOOLEAN /\ srv' \in BOOLEAN
    BY <1>3, EnterType DEF MainConnect
  <2> QED
    BY <1>3, <2>1, <2>2 DEF MainConnect, TypeOK, ServerType
<1>4. CASE ConnectFails
  <2>1. state' = "ERROR" /\ p_cmd' \in BOOLEAN /\ srv' \in BOOLEAN
    BY <1>4, EnterType DEF ConnectFails, Abort
  <2> QED
    BY <1>4, <2>1 DEF ConnectFails, TypeOK, ServerType
<1>5. CASE LoseClient
  <2>1. state' = "CONNECT" /\ p_cmd' \in BOOLEAN /\ srv' \in BOOLEAN
    BY <1>5, EnterType DEF LoseClient
  <2> QED
    BY <1>5, <2>1 DEF LoseClient, TypeOK, ServerType
<1>6. CASE MainWaiting
  <2>1. PICK m \in Request : /\ m.conn = fdClient /\ StoredUuid(m) \in Uuid
                             /\ ReadMessage(m)
    BY <1>6, WaitingReads
  <2>2. /\ state' \in {"WAITING", "PROCESSING"}
        /\ p_cmd' \in BOOLEAN /\ srv' \in BOOLEAN
    BY <2>1, EnterType DEF ReadMessage
  <2>3. fdClient' \in Conns /\ cur' \in Request /\ cur'.conn = fdClient'
    BY <2>1 DEF ReadMessage, TypeOK
  <2>4. uuid' \in Uuid /\ value' = value /\ h_cb' = h_cb
    BY <2>1 DEF ReadMessage
  <2> QED
    BY <2>2, <2>3, <2>4 DEF TypeOK, ServerType
<1>7. CASE ProcessCommand
  <2>1. /\ fdClient' \in Conns /\ cur' \in Request /\ cur'.conn = fdClient'
        /\ uuid' \in Uuid
    BY <1>7 DEF ProcessCommand, CmdInfo, CmdGet, CmdBad, Answered, CmdSet,
                CmdRunTime, CmdRunChange,
                CmdRunError, CmdStop, CmdFinish, CmdExit, Processing, TypeOK, ServerType
  <2>2. \E st \in {"WAITING", "SIM_RUNNING", "EXIT"} : Enter(st)
    BY <1>7 DEF ProcessCommand, CmdInfo, CmdGet, CmdBad, Answered, CmdSet,
                CmdRunTime, CmdRunChange,
                CmdRunError, CmdStop, CmdFinish, CmdExit, FlyCatch
  <2>3. /\ state' \in {"WAITING", "SIM_RUNNING", "EXIT"}
        /\ p_cmd' \in BOOLEAN /\ srv' \in BOOLEAN
    BY <2>2, EnterType
  <2>4. value' \in Nat /\ h_cb' \in Callback \cup {NoCb}
    <3>1. cur.arg \in Nat
      BY <1>7 DEF ProcessCommand, CmdInfo, CmdGet, CmdBad, Answered, CmdSet,
                  CmdRunTime, CmdRunChange,
                  CmdRunError, CmdStop, CmdFinish, CmdExit, Processing, TypeOK, Request
    <3> QED
      BY <1>7, <3>1 DEF ProcessCommand, CmdInfo, CmdGet, CmdBad, Answered,
                        CmdSet, CmdRunTime, CmdRunChange,
             CmdRunError, CmdStop, CmdFinish, CmdExit, simVars, Callback, TypeOK, ServerType
  <2> QED
    BY <2>1, <2>3, <2>4 DEF ServerType
<1>8. CASE verisocks_cb \/ SignalChanges \/ EventTriggers
  <2>1. UNCHANGED <<fdClient, uuid, value, h_cb, cur>>
    BY <1>8 DEF verisocks_cb, SignalChanges, EventTriggers
  <2>2. CASE UNCHANGED <<state, p_cmd, srv>>
    BY <1>1, <2>1, <2>2 DEF serverVars
  <2>3. CASE state = "SIM_RUNNING" /\ Enter("WAITING")
    <3>1. fdClient' \in Conns /\ state' = "WAITING" /\ p_cmd' \in BOOLEAN /\ srv' \in BOOLEAN
      BY <2>1, <2>3, EnterType DEF TypeOK
    <3> QED
      BY <2>1, <3>1 DEF TypeOK, ServerType
  <2>4. CASE Enter("ERROR")
    <3>1. state' = "ERROR" /\ p_cmd' \in BOOLEAN /\ srv' \in BOOLEAN
      BY <2>4, EnterType
    <3> QED
      BY <2>1, <3>1 DEF TypeOK, ServerType
  <2> QED
    BY <1>8, <2>2, <2>3, <2>4
    DEF verisocks_cb, SignalChanges, EventTriggers, verisocks_cb_value_change,
        Reached, Abort
<1>9. CASE DesignEnds \/ Horizon \/ SimFinishes
  BY <1>9 DEF DesignEnds, Horizon, SimFinishes, verisocks_cb_exit, TypeOK,
              ServerType
<1>10. CASE Advance \/ Console
  BY <1>1, <1>10 DEF Advance, Console, histVars
<1>11. ASSUME NEW c \in Conns, Connect(c) \/ Send(c) \/ HangUp(c) PROVE Goal
  BY <1>1, <1>11 DEF Connect, Send, HangUp, histVars
<1> QED
  BY <1>1, <1>2, <1>3, <1>4, <1>5, <1>6, <1>7, <1>8, <1>9, <1>10, <1>11
  DEF Next, Server, Simulator, vars, histVars

\* Every variable keeps its type, and the server uses its client descriptor and
\* its request only when it has them.
THEOREM TypeCorrect == Spec => []TypeOK
<1>1. TypeOK /\ [Next]_vars => TypeOK'
  BY NextServerType, NextSimType, NextClientType, NextHistType DEF TypeOK
<1> QED
  BY InitTypeOK, <1>1, PTL DEF Spec
-----------------------------------------------------------------------------
(* The phases of the simulator                                              *)

LEMMA InitSimPhase == Init => SimPhase
  BY DEF Init, SimPhase, HasFocus, NoReq, RunKinds

LEMMA NextSimPhase == TypeOK /\ SimPhase /\ [Next]_vars => SimPhase'
<1> SUFFICES ASSUME TypeOK, SimPhase, [Next]_vars PROVE SimPhase'
  OBVIOUS
<1> USE DEF SimPhase, HasFocus
<1>1. CASE UNCHANGED <<state, sim, cur, fdClient>>
  BY <1>1
<1>2. CASE verisocks_init_calltf
  BY <1>2 DEF verisocks_init_calltf, histVars
<1>3. CASE MainConnect
  BY <1>3 DEF MainConnect, Enter, simVars, histVars
<1>4. CASE ConnectFails
  BY <1>4 DEF ConnectFails, Abort, Enter, histVars
<1>5. CASE LoseClient
  BY <1>5 DEF LoseClient, Enter, simVars, histVars
<1>6. CASE MainWaiting
  <2>1. PICK m \in Request : ReadMessage(m)
    BY <1>6, WaitingReads
  <2>2. state = "WAITING" /\ state' \in {"WAITING", "PROCESSING"} /\ sim' = sim
    BY <2>1 DEF ReadMessage, Enter, simVars
  <2> QED
    BY <2>2
<1>7. CASE CmdInfo \/ CmdGet \/ CmdBad \/ CmdSet \/ CmdRunError
  BY <1>7 DEF CmdInfo, CmdGet, CmdBad, Answered, CmdSet, CmdRunError, Processing,
              Enter, FlyCatch, simVars
<1>8. CASE CmdRunTime \/ CmdRunChange
  BY <1>8 DEF CmdRunTime, CmdRunChange, Processing, Enter, FlyCatch, RunKinds
<1>9. CASE CmdStop \/ CmdFinish \/ CmdExit
  BY <1>9 DEF CmdStop, CmdFinish, CmdExit, Processing, Enter, FlyCatch, simVars, TypeOK
<1>10. CASE verisocks_cb \/ SignalChanges \/ EventTriggers
  <2>1. UNCHANGED <<cur, fdClient>> /\ sim = "run" /\ ~HasFocus
    BY <1>10 DEF verisocks_cb, SignalChanges, EventTriggers, SimRuns
  <2>2. \/ UNCHANGED <<state, sim>>
        \/ state' = "WAITING" /\ sim' = sim
        \/ state' = "ERROR" /\ sim' = "finishing"
    BY <1>10 DEF verisocks_cb, SignalChanges, EventTriggers, Abort, Reached, Enter,
                 verisocks_cb_value_change
  <2> QED
    BY <2>1, <2>2
<1>11. CASE DesignEnds \/ Horizon \/ SimFinishes
  BY <1>11 DEF DesignEnds, Horizon, SimFinishes, verisocks_cb_exit, SimRuns
<1>12. CASE Console
  BY <1>12 DEF Console, serverVars, histVars
<1>13. CASE Advance
  BY <1>13 DEF Advance, serverVars, histVars
<1>14. ASSUME NEW c \in Conns, Connect(c) \/ Send(c) \/ HangUp(c) PROVE SimPhase'
  BY <1>14 DEF Connect, Send, HangUp, serverVars, simVars, histVars
<1> QED
  BY <1>1, <1>2, <1>3, <1>4, <1>5, <1>6, <1>7, <1>8, <1>9, <1>10, <1>11, <1>12,
     <1>13, <1>14
  DEF Next, Server, ProcessCommand, Simulator, vars, serverVars, simVars, histVars

-----------------------------------------------------------------------------
(* The callbacks                                                            *)

LEMMA InitCallbackShape == Init => CallbackShape
  BY DEF Init, CallbackShape

LEMMA NextCallbackShape ==
  TypeOK /\ SimPhase /\ CallbackShape /\ [Next]_vars => CallbackShape'
<1> SUFFICES ASSUME TypeOK, SimPhase, CallbackShape, [Next]_vars
             PROVE  CallbackShape'
  OBVIOUS
<1>1. CASE UNCHANGED <<serverVars, simVars, cur>>
  BY <1>1 DEF CallbackShape, serverVars, simVars
<1>2. ASSUME cbs = {}, cbs' = {}, state' # "PROCESSING",
             ~(state' = "SIM_RUNNING" /\ cur'.kind \in RunKinds /\ sim' = "run")
      PROVE  CallbackShape'
  BY <1>2 DEF CallbackShape
<1>3. state \in {"CONNECT", "WAITING", "PROCESSING"} => cbs = {} /\ sim = "run"
  BY DEF CallbackShape, SimPhase, HasFocus
<1>4. CASE verisocks_init_calltf \/ MainConnect \/ ConnectFails \/ LoseClient
  BY <1>2, <1>3, <1>4
  DEF verisocks_init_calltf, MainConnect, ConnectFails, LoseClient, Enter, Abort,
      simVars, CallbackShape
<1>5. CASE MainWaiting
  <2>1. PICK m \in Request : m.t0 = simTime /\ ReadMessage(m)
    BY <1>5, WaitingReads
  <2>2. /\ state' \in {"WAITING", "PROCESSING"} /\ cbs' = {} /\ cur' = m
        /\ simTime' = simTime
    BY <1>3, <2>1 DEF ReadMessage, Enter, simVars
  <2> QED
    BY <2>1, <2>2 DEF CallbackShape
<1>6. CASE CmdInfo \/ CmdGet \/ CmdBad \/ CmdSet \/ CmdRunError
  BY <1>2, <1>3, <1>6
  DEF CmdInfo, CmdGet, CmdBad, Answered, CmdSet, CmdRunError, Processing, Enter,
      FlyCatch, simVars
<1>7. CASE CmdStop \/ CmdFinish \/ CmdExit
  BY <1>2, <1>3, <1>7
  DEF CmdStop, CmdFinish, CmdExit, Processing, Enter, FlyCatch, simVars, RunKinds
<1>8. CASE CmdRunTime
  <2>1. cur \in Request /\ cur.t0 = simTime /\ cbs = {} /\ sim = "run"
    BY <1>3, <1>8 DEF CmdRunTime, Processing, TypeOK, CallbackShape
  <2>2. cur.kind \in RunKinds \ {"until_change", "until_event"}
    BY <1>8 DEF CmdRunTime, Processing, RunKinds
  <2>3. simTime <= DueTime(cur)
    BY <1>8, <2>1 DEF CmdRunTime, TimeValid, DueTime, Ticks, Request
  <2>4. cbs' = {CallbackOf(cur)}
    BY <1>8, <2>1, <2>2 DEF CmdRunTime, CallbackOf
  <2>5. UNCHANGED <<cur, sim, simTime>> /\ state' = "SIM_RUNNING"
    BY <1>8 DEF CmdRunTime, Processing, Enter, FlyCatch
  <2>6. CallbackOf(cur') = CallbackOf(cur) /\ DueTime(cur') = DueTime(cur)
    BY <2>5
  <2> QED
    BY <2>1, <2>2, <2>3, <2>4, <2>5, <2>6 DEF CallbackShape
<1>9. CASE CmdRunChange
  <2>1. cbs = {} /\ sim = "run" /\ cur.kind \in {"until_change", "until_event"}
    BY <1>3, <1>9 DEF CmdRunChange, Processing
  <2>2. h_cb' = CallbackOf(cur) /\ cbs' = {CallbackOf(cur)} /\ value' = cur.arg
    BY <1>9, <2>1 DEF CmdRunChange, CallbackOf
  <2>3. UNCHANGED <<cur, sim, simTime>> /\ state' = "SIM_RUNNING"
    BY <1>9 DEF CmdRunChange, Processing, Enter, FlyCatch
  <2>4. CallbackOf(cur') = CallbackOf(cur)
    BY <2>3
  <2> QED
    BY <2>1, <2>2, <2>3, <2>4 DEF CallbackShape, RunKinds
<1>10. CASE Advance
  <2>1. /\ Due = {} /\ simTime' = simTime + 1 /\ cbs' = cbs
        /\ UNCHANGED <<state, sim, cur, h_cb, value>> /\ state # "PROCESSING"
    BY <1>10 DEF Advance, SimRuns, HasFocus, serverVars, histVars
  <2>2. ASSUME cbs # {}, cur.kind \notin {"until_change", "until_event"}
        PROVE  simTime < DueTime(cur)
    <3>1. cbs = {CallbackOf(cur)} /\ state = "SIM_RUNNING"
      BY <2>2 DEF CallbackShape
    <3>2. CallbackOf(cur) = [kind |-> "time", at |-> DueTime(cur)]
      BY <2>2 DEF CallbackOf
    <3>3. DueTime(cur) \in Nat /\ simTime \in Nat
      BY <3>1, DueTimeType DEF TypeOK, SimType
    <3>4. ~(DueTime(cur) <= simTime)
      BY <2>1, <3>1, <3>2 DEF Due
    <3> QED
      BY <3>3, <3>4
  <2>3. CallbackOf(cur') = CallbackOf(cur) /\ DueTime(cur') = DueTime(cur)
    BY <2>1
  <2>4. cbs # {} => cur \in Request
    BY DEF CallbackShape, TypeOK
  <2>5. cbs # {} => DueTime(cur) \in Nat /\ simTime \in Nat
    BY <2>4, DueTimeType DEF TypeOK, SimType
  <2> QED
    BY <2>1, <2>2, <2>3, <2>5 DEF CallbackShape
<1>11. CASE verisocks_cb
  <2>1. PICK cb \in Due : cbs' = cbs \ {cb}
    BY <1>11 DEF verisocks_cb
  <2>2. state = "SIM_RUNNING" /\ cbs = {CallbackOf(cur)} /\ cbs' = {}
    BY <2>1 DEF CallbackShape, Due
  <2>3. state' = "WAITING"
    BY <1>11, <2>2 DEF verisocks_cb, Reached, Enter
  <2> QED
    BY <2>2, <2>3 DEF CallbackShape
<1>12. CASE SignalChanges \/ EventTriggers
  <2>1. /\ UNCHANGED <<cur, h_cb, value, simTime>> /\ sim = "run"
        /\ state # "PROCESSING"
    BY <1>12 DEF SignalChanges, EventTriggers, SimRuns, HasFocus
  <2>2. CASE UNCHANGED <<state, cbs, sim>>
    BY <2>1, <2>2 DEF CallbackShape, CallbackOf, DueTime
  <2>3. ASSUME NEW cb \in cbs, cb.kind \in {"change", "event"},
               verisocks_cb_value_change(cb)
        PROVE  CallbackShape'
    <3>1. state = "SIM_RUNNING" /\ cbs = {CallbackOf(cur)} /\ cb = CallbackOf(cur)
      BY DEF CallbackShape
    <3>2. cb = h_cb
      BY <2>3, <3>1 DEF CallbackShape, CallbackOf
    <3>3. CASE cbs' = cbs \ {h_cb} /\ Reached
      BY <3>1, <3>2, <3>3 DEF CallbackShape, Reached, Enter
    <3> QED
      BY <2>2, <2>3, <3>1, <3>3 DEF verisocks_cb_value_change
  <2> QED
    BY <1>12, <2>2, <2>3 DEF SignalChanges, EventTriggers
<1>13. CASE DesignEnds \/ Horizon \/ SimFinishes
  BY <1>13
  DEF DesignEnds, Horizon, SimFinishes, verisocks_cb_exit, SimRuns, HasFocus, CallbackShape
<1>14. CASE Console
  BY <1>2, <1>14 DEF Console, serverVars, histVars, SimPhase, CallbackShape, RunKinds
<1>15. ASSUME NEW c \in Conns, Connect(c) \/ Send(c) \/ HangUp(c)
       PROVE  CallbackShape'
  BY <1>1, <1>15 DEF Connect, Send, HangUp, histVars
<1> QED
  BY <1>1, <1>4, <1>5, <1>6, <1>7, <1>8, <1>9, <1>10, <1>11, <1>12, <1>13, <1>14,
     <1>15
  DEF Next, Server, ProcessCommand, Simulator, vars, histVars

THEOREM CallbackInvariant == Spec => [](SimPhase /\ CallbackShape)
<1>1. Init => TypeOK /\ SimPhase /\ CallbackShape
  BY InitTypeOK, InitSimPhase, InitCallbackShape
<1>2. TypeOK /\ (SimPhase /\ CallbackShape) /\ [Next]_vars => (SimPhase /\ CallbackShape)'
  BY NextSimPhase, NextCallbackShape
<1> QED
  BY <1>1, <1>2, TypeCorrect, PTL DEF Spec

\* The simulator never holds a callback Verisocks does not wait for, and never
\* lacks the one it waits for.
THEOREM CallbacksDisciplined == Spec => []CallbackDiscipline
<1>1. ASSUME SimPhase, CallbackShape PROVE CallbackDiscipline
  <2>1. cbs = {CallbackOf(cur)} \/ cbs = {}
    BY <1>1 DEF CallbackShape
  <2>2. cbs # {} <=> state = "SIM_RUNNING" /\ cur.kind \in RunKinds /\ sim = "run"
    BY <1>1 DEF CallbackShape
  <2>3. ASSUME NEW cb \in cbs, cb.kind # "time" PROVE cb = h_cb
    <3>1. cb = CallbackOf(cur)
      BY <2>1
    <3>2. cur.kind \in {"until_change", "until_event"}
      BY <2>3, <3>1 DEF CallbackOf
    <3> QED
      BY <1>1, <3>1, <3>2 DEF CallbackShape
  <2> QED
    BY <2>1, <2>2, <2>3 DEF CallbackDiscipline
<1> QED
  BY <1>1, CallbackInvariant, PTL

-----------------------------------------------------------------------------
(* The connections                                                          *)

LEMMA InitBacklogFresh == Init => BacklogFresh /\ NoStaleDescriptor
  BY ConstantsAssumption DEF Init, BacklogFresh, NoStaleDescriptor

\* Only the server's accept and close and the clients' steps touch what
\* BacklogFresh and NoStaleDescriptor talk of.
LEMMA ConnectionFrame ==
  ASSUME TypeOK, SimPhase, ProcessCommand \/ Simulator \/ verisocks_init_calltf
  PROVE  /\ UNCHANGED <<fdClient, cst, backlog>>
         /\ \/ state' \notin {"WAITING", "PROCESSING", "SIM_RUNNING", "EXIT"}
            \/ state \in {"WAITING", "PROCESSING", "SIM_RUNNING", "EXIT"}
<1>1. CASE verisocks_init_calltf
  BY <1>1 DEF verisocks_init_calltf, clientVars
<1>2. CASE ProcessCommand
  BY <1>2 DEF ProcessCommand, CmdInfo, CmdGet, CmdBad, Answered, CmdSet, CmdRunTime,
              CmdRunChange, CmdRunError, CmdStop, CmdFinish, CmdExit, Processing,
              clientVars
<1>3. CASE verisocks_cb \/ SignalChanges \/ EventTriggers
  <2>1. UNCHANGED <<fdClient, cst, backlog>>
    BY <1>3 DEF verisocks_cb, SignalChanges, EventTriggers, clientVars
  <2>2. state = "SIM_RUNNING" \/ state' \in {state, "ERROR"}
    BY <1>3 DEF verisocks_cb, SignalChanges, EventTriggers, verisocks_cb_value_change,
                Abort, Enter
  <2> QED
    BY <2>1, <2>2
<1>4. CASE Advance \/ DesignEnds \/ Horizon \/ SimFinishes \/ Console
  BY <1>4 DEF Advance, DesignEnds, Horizon, SimFinishes, verisocks_cb_exit, Console,
              serverVars, clientVars
<1> QED
  BY <1>1, <1>2, <1>3, <1>4 DEF Simulator

LEMMA NextBacklogFresh ==
  TypeOK /\ SimPhase /\ BacklogFresh /\ NoStaleDescriptor /\ [Next]_vars
    => (BacklogFresh /\ NoStaleDescriptor)'
<1> SUFFICES ASSUME TypeOK, SimPhase, BacklogFresh, NoStaleDescriptor, [Next]_vars
             PROVE  (BacklogFresh /\ NoStaleDescriptor)'
  OBVIOUS
<1>0. backlog \in Seq(Conns) /\ cst \in [Conns -> {"idle", "up", "closed", "dropped"}]
  BY DEF TypeOK, ClientType
<1>1. CASE ProcessCommand \/ Simulator \/ verisocks_init_calltf
  <2>1. /\ UNCHANGED <<fdClient, cst, backlog>>
        /\ \/ state' \notin {"WAITING", "PROCESSING", "SIM_RUNNING", "EXIT"}
           \/ state \in {"WAITING", "PROCESSING", "SIM_RUNNING", "EXIT"}
    BY <1>1, ConnectionFrame
  <2> QED
    BY <2>1 DEF BacklogFresh, NoStaleDescriptor
<1>2. CASE UNCHANGED vars
  BY <1>2 DEF vars, serverVars, clientVars, BacklogFresh, NoStaleDescriptor
<1>3. CASE MainConnect
  <2>1. /\ fdClient' = backlog[1] /\ cst' = cst /\ backlog # <<>>
        /\ fdClient' \in Conns /\ Len(backlog') = Len(backlog) - 1
        /\ \A i \in 1..Len(backlog') : backlog'[i] = backlog[i + 1]
    BY <1>0, <1>3 DEF MainConnect
  <2>2. Len(backlog) \in Nat /\ Len(backlog) > 0
    BY <1>0, <2>1
  <2>3. cst'[fdClient'] \in {"up", "closed"}
    BY <2>1, <2>2 DEF BacklogFresh
  <2>4. \A i \in 1..Len(backlog') : /\ cst'[backlog'[i]] \in {"up", "closed"}
                                    /\ backlog'[i] # fdClient'
    BY <2>1, <2>2 DEF BacklogFresh
  <2>5. \A i, j \in 1..Len(backlog') : i # j => backlog'[i] # backlog'[j]
    BY <2>1, <2>2 DEF BacklogFresh
  <2> QED
    BY <2>1, <2>3, <2>4, <2>5 DEF BacklogFresh, NoStaleDescriptor
<1>4. CASE ConnectFails
  <2>1. /\ fdClient' = NoConn /\ UNCHANGED <<cst, backlog>>
        /\ state' = "ERROR"
    BY <1>4 DEF ConnectFails, Abort, Enter, clientVars
  <2> QED
    BY <2>1, ConstantsAssumption DEF BacklogFresh, NoStaleDescriptor
<1>5. CASE LoseClient
  <2>1. /\ UNCHANGED <<fdClient, backlog>> /\ cst' = [cst EXCEPT ![fdClient] = "dropped"]
        /\ fdClient \in Conns /\ state' = "CONNECT"
    BY <1>5 DEF LoseClient, Enter, TypeOK
  <2>2. \A i \in 1..Len(backlog) : backlog[i] \in Conns /\ backlog[i] # fdClient
    BY <1>0, <2>1 DEF BacklogFresh
  <2>3. \A i \in 1..Len(backlog) : cst'[backlog[i]] = cst[backlog[i]]
    BY <1>0, <2>1, <2>2
  <2> QED
    BY <1>0, <2>1, <2>2, <2>3 DEF BacklogFresh, NoStaleDescriptor
<1>6. CASE MainWaiting
  <2>1. PICK m \in Request : ReadMessage(m)
    BY <1>6, WaitingReads
  <2>2. UNCHANGED <<fdClient, cst, backlog>> /\ state = "WAITING"
    BY <2>1 DEF ReadMessage
  <2> QED
    BY <2>2 DEF BacklogFresh, NoStaleDescriptor
<1>7. ASSUME NEW c \in Conns, Connect(c) PROVE (BacklogFresh /\ NoStaleDescriptor)'
  <2>1. /\ cst[c] = "idle" /\ cst' = [cst EXCEPT ![c] = "up"]
        /\ backlog' = Append(backlog, c) /\ UNCHANGED <<state, fdClient>>
    BY <1>7 DEF Connect, serverVars
  <2>2. \A i \in 1..Len(backlog) : backlog[i] \in Conns /\ backlog[i] # c
    BY <1>0, <2>1 DEF BacklogFresh
  <2>3. /\ Len(backlog') = Len(backlog) + 1 /\ backlog'[Len(backlog')] = c
        /\ \A i \in 1..Len(backlog) : backlog'[i] = backlog[i]
    BY <1>0, <2>1
  <2>4. \A i \in 1..Len(backlog') : i \in 1..Len(backlog) \/ i = Len(backlog')
    BY <1>0, <2>3
  <2>5. fdClient \in Conns => fdClient # c
    BY <2>1 DEF BacklogFresh
  <2>6. \A i \in 1..Len(backlog') : cst'[backlog'[i]] \in {"up", "closed"}
    BY <1>0, <2>1, <2>2, <2>3, <2>4 DEF BacklogFresh
  <2>7. \A i, j \in 1..Len(backlog') : i # j => backlog'[i] # backlog'[j]
    BY <2>2, <2>3, <2>4 DEF BacklogFresh
  <2>8. fdClient' \in Conns => /\ cst'[fdClient'] = cst[fdClient]
                              /\ \A i \in 1..Len(backlog') : backlog'[i] # fdClient'
    BY <1>0, <2>1, <2>3, <2>4, <2>5 DEF BacklogFresh
  <2> QED
    BY <2>1, <2>6, <2>7, <2>8 DEF BacklogFresh, NoStaleDescriptor
<1>8. ASSUME NEW c \in Conns, Send(c) PROVE (BacklogFresh /\ NoStaleDescriptor)'
  BY <1>8 DEF Send, serverVars, BacklogFresh, NoStaleDescriptor
<1>9. ASSUME NEW c \in Conns, HangUp(c) PROVE (BacklogFresh /\ NoStaleDescriptor)'
  <2>1. /\ cst[c] = "up" /\ cst' = [cst EXCEPT ![c] = "closed"]
        /\ UNCHANGED <<state, fdClient, backlog>>
    BY <1>9 DEF HangUp, serverVars
  <2>2. \A d \in Conns : \/ cst'[d] = cst[d]
                         \/ cst[d] = "up" /\ cst'[d] = "closed"
    BY <1>0, <2>1
  <2>3. \A i \in 1..Len(backlog) : backlog[i] \in Conns
    BY <1>0
  <2> QED
    BY <2>1, <2>2, <2>3 DEF BacklogFresh, NoStaleDescriptor
<1> QED
  BY <1>1, <1>2, <1>3, <1>4, <1>5, <1>6, <1>7, <1>8, <1>9 DEF Next, Server

\* The server talks only to a connection it has accepted and not closed.
THEOREM DescriptorNeverStale == Spec => []NoStaleDescriptor
<1>1. Init => BacklogFresh /\ NoStaleDescriptor
  BY InitBacklogFresh
<1>2. TypeOK /\ SimPhase /\ (BacklogFresh /\ NoStaleDescriptor) /\ [Next]_vars
        => (BacklogFresh /\ NoStaleDescriptor)'
  BY NextBacklogFresh
<1> QED
  BY <1>1, <1>2, TypeCorrect, CallbackInvariant, PTL DEF Spec

-----------------------------------------------------------------------------
(* Requests and replies                                                     *)

\* The steps of the server and of the simulator, as far as the ledger of replies
\* can tell them apart.
Quiet == UNCHANGED <<nread, nrep, cur, last, uuid>>

Replies == /\ UNCHANGED <<nread, cur, uuid, fdClient>>
           /\ \E type \in {"ack", "result", "error"} : Return(type, uuid)

LEMMA CommandSteps ==
  ASSUME TypeOK, SimPhase, ProcessCommand
  PROVE  /\ state = "PROCESSING" /\ fdClient \in Conns /\ cur' = cur
         /\ fdClient' = fdClient /\ uuid' = uuid /\ sim = "run"
         /\ \/ /\ Replies
               /\ \/ state' \in {"WAITING", "EXIT"}
                  \/ state' = "SIM_RUNNING" /\ cur.kind = "stop" /\ sim' = "stopped"
            \/ /\ Quiet
               /\ state' = "SIM_RUNNING" /\ cur.kind \in RunKinds /\ sim' = "run"
<1>1. /\ state = "PROCESSING" /\ fdClient \in Conns /\ cur' = cur
      /\ fdClient' = fdClient /\ uuid' = uuid /\ nread' = nread
  BY DEF ProcessCommand, CmdInfo, CmdGet, CmdBad, Answered, CmdSet, CmdRunTime,
         CmdRunChange, CmdRunError, CmdStop, CmdFinish, CmdExit, Processing, TypeOK
<1>2. sim = "run"
  BY <1>1 DEF SimPhase, HasFocus
<1>3. CASE CmdInfo \/ CmdGet \/ CmdBad \/ CmdSet \/ CmdRunError
  BY <1>1, <1>2, <1>3 DEF CmdInfo, CmdGet, CmdBad, Answered, CmdSet, CmdRunError,
                          Enter, FlyCatch, Replies
<1>4. CASE CmdRunTime \/ CmdRunChange
  BY <1>1, <1>2, <1>4 DEF CmdRunTime, CmdRunChange, Processing, Enter, FlyCatch,
                          RunKinds, Quiet
<1>5. CASE CmdStop \/ CmdFinish \/ CmdExit
  BY <1>1, <1>2, <1>5 DEF CmdStop, CmdFinish, CmdExit, Processing, Enter, FlyCatch,
                          Replies
<1> QED
  BY <1>1, <1>2, <1>3, <1>4, <1>5 DEF ProcessCommand

LEMMA SimulatorSteps ==
  ASSUME TypeOK, SimPhase, CallbackShape, Simulator
  PROVE  /\ UNCHANGED <<fdClient, cur, uuid>> /\ ~HasFocus
         /\ \/ Quiet /\ state' = state /\ sim \in {"run", "stopped"}
                     /\ sim' \in {"run", "finishing"}
                     /\ (sim' # sim => sim = "stopped")
            \/ /\ Replies /\ state = "SIM_RUNNING" /\ state' = "WAITING"
               /\ sim = "run" /\ sim' = "run" /\ cur.kind \in RunKinds
            \/ /\ state' = state /\ sim # "ended" /\ sim' = "ended"
               /\ IF state = "SIM_RUNNING"
                    THEN Replies /\ last'.type = "error" ELSE Quiet
<1>1. CASE Advance \/ Console
  <2>1. Quiet /\ state' = state /\ fdClient' = fdClient
    BY <1>1 DEF Advance, Console, serverVars, histVars, Quiet
  <2>2. ~HasFocus
    BY <1>1 DEF Advance, Console, SimRuns, SimPhase
  <2> QED
    BY <1>1, <2>1, <2>2 DEF Advance, Console, SimRuns, Quiet
<1>2. CASE verisocks_cb
  <2>1. PICK cb \in Due : cbs' = cbs \ {cb}
    BY <1>2 DEF verisocks_cb
  <2>2. state = "SIM_RUNNING" /\ cur.kind \in RunKinds /\ sim = "run"
    BY <2>1 DEF Due, CallbackShape
  <2>3. UNCHANGED <<fdClient, cur, uuid, nread>>
    BY <1>2 DEF verisocks_cb
  <2>4. Reached
    BY <1>2, <2>2 DEF verisocks_cb
  <2> QED
    BY <2>2, <2>3, <2>4 DEF Reached, Enter, Replies, HasFocus
<1>3. CASE SignalChanges \/ EventTriggers
  <2>1. /\ UNCHANGED <<fdClient, cur, uuid, nread>> /\ sim = "run" /\ ~HasFocus
    BY <1>3 DEF SignalChanges, EventTriggers, SimRuns
  <2>2. CASE UNCHANGED <<state, sim, nrep, last>>
    BY <2>1, <2>2 DEF Quiet
  <2>3. ASSUME NEW cb \in cbs, verisocks_cb_value_change(cb)
        PROVE  \/ UNCHANGED <<state, sim, nrep, last>>
               \/ state = "SIM_RUNNING" /\ cur.kind \in RunKinds /\ Reached
    <3>1. state = "SIM_RUNNING" /\ cur.kind \in RunKinds
      BY DEF CallbackShape
    <3> QED
      BY <2>3, <3>1 DEF verisocks_cb_value_change
  <2>4. CASE state = "SIM_RUNNING" /\ cur.kind \in RunKinds /\ Reached
    BY <2>1, <2>4 DEF Reached, Enter, Replies
  <2> QED
    BY <1>3, <2>2, <2>3, <2>4 DEF SignalChanges, EventTriggers
<1>4. CASE DesignEnds \/ Horizon \/ SimFinishes
  <2>1. verisocks_cb_exit /\ ~HasFocus /\ sim # "ended"
    BY <1>4 DEF DesignEnds, Horizon, SimFinishes, SimRuns
  <2>2. UNCHANGED <<fdClient, cur, uuid, nread, state>> /\ sim' = "ended"
    BY <2>1 DEF verisocks_cb_exit
  <2>3. CASE state = "SIM_RUNNING"
    <3>1. Return("error", uuid)
      BY <2>1, <2>3 DEF verisocks_cb_exit, ExitOwesReply
    <3> QED
      BY <2>1, <2>2, <2>3, <3>1 DEF Replies, Return
  <2>4. CASE state # "SIM_RUNNING"
    BY <2>1, <2>2, <2>4 DEF verisocks_cb_exit, ExitOwesReply, HasFocus, Quiet
  <2> QED
    BY <2>3, <2>4
<1> QED
  BY <1>1, <1>2, <1>3, <1>4 DEF Simulator

LEMMA OtherSteps ==
  ASSUME TypeOK, SimPhase,
         \/ verisocks_init_calltf \/ MainConnect \/ ConnectFails \/ LoseClient
         \/ UNCHANGED vars \/ \E c \in Conns : Connect(c) \/ Send(c) \/ HangUp(c)
  PROVE  /\ Quiet
         /\ \/ UNCHANGED <<state, fdClient, sim>>
            \/ /\ state \in {"START", "CONNECT", "WAITING"}
               /\ state' \in {"START", "CONNECT", "WAITING", "ERROR"}
  BY DEF verisocks_init_calltf, MainConnect, ConnectFails, LoseClient, Connect, Send,
         HangUp, Enter, Abort, vars, serverVars, simVars, histVars, Quiet

LEMMA InitReplies == Init => Ledger /\ UuidOfRequest /\ ReplyCarriesUuid
  BY DEF Init, Ledger, Busy, UuidOfRequest, ReplyCarriesUuid

LEMMA NextLedger ==
  TypeOK /\ SimPhase /\ CallbackShape /\ Ledger /\ [Next]_vars => Ledger'
<1> SUFFICES ASSUME TypeOK, SimPhase, CallbackShape, Ledger, [Next]_vars
             PROVE  Ledger'
  OBVIOUS
<1>0. nread \in [Conns -> Nat] /\ nrep \in [Conns -> Nat]
  BY DEF TypeOK, HistType
<1>1. Replies => nrep' = [nrep EXCEPT ![fdClient] = @ + 1]
  BY DEF Replies, Return
<1>2. CASE ProcessCommand
  <2>1. CASE /\ Replies
             /\ \/ state' \in {"WAITING", "EXIT"}
                \/ state' = "SIM_RUNNING" /\ cur.kind = "stop" /\ sim' = "stopped"
    <3>1. /\ nread' = nread /\ fdClient' = fdClient /\ Busy /\ ~Busy'
          /\ ~(state' = "SIM_RUNNING" /\ sim' = "ended")
      BY <1>2, <2>1, CommandSteps DEF Replies, Busy, Quiet
    <3> QED
      BY <1>0, <1>1, <2>1, <3>1 DEF Ledger, Busy
  <2>2. CASE /\ Quiet /\ state' = "SIM_RUNNING" /\ cur.kind \in RunKinds
             /\ sim' = "run"
    <3>1. /\ UNCHANGED <<nread, nrep, fdClient>> /\ Busy /\ Busy'
          /\ sim' # "ended" /\ sim # "ended"
      BY <1>2, <2>2, CommandSteps DEF Quiet, Busy, RunKinds
    <3> QED
      BY <1>0, <3>1 DEF Ledger
  <2> QED
    BY <1>2, <2>1, <2>2, CommandSteps
<1>3. CASE Simulator
  <2>1. CASE Quiet /\ state' = state /\ sim # "ended" /\ sim' # "ended"
    <3>1. UNCHANGED <<nread, nrep, fdClient, cur>>
      BY <1>3, <2>1, SimulatorSteps DEF Quiet
    <3> QED
      BY <1>0, <2>1, <3>1 DEF Ledger, Busy
  <2>2. CASE Replies /\ state = "SIM_RUNNING" /\ state' = "WAITING" /\ sim = "run"
                     /\ cur.kind \in RunKinds
    <3>1. nread' = nread /\ fdClient' = fdClient /\ Busy /\ ~Busy' /\ fdClient \in Conns
      BY <2>2 DEF Replies, Busy, RunKinds, TypeOK
    <3> QED
      BY <1>0, <1>1, <2>2, <3>1 DEF Ledger
  <2>3. CASE state' = state /\ sim # "ended" /\ sim' = "ended" /\ state = "SIM_RUNNING"
                /\ Replies
    <3>1. nread' = nread /\ fdClient' = fdClient /\ cur' = cur /\ fdClient \in Conns
      BY <2>3 DEF Replies, TypeOK
    <3> QED
      BY <1>0, <1>1, <2>3, <3>1 DEF Ledger, Busy
  <2>4. CASE state' = state /\ state # "SIM_RUNNING" /\ Quiet
    <3>1. UNCHANGED <<nread, nrep, fdClient, cur>>
      BY <1>3, <2>4, SimulatorSteps DEF Quiet
    <3> QED
      BY <1>0, <2>4, <3>1 DEF Ledger, Busy
  <2> QED
    BY <1>3, <2>1, <2>2, <2>3, <2>4, SimulatorSteps
<1>4. CASE MainWaiting
  <2>1. PICK m \in Request : m.conn = fdClient /\ ReadMessage(m)
    BY <1>4, WaitingReads
  <2>2. /\ nread' = [nread EXCEPT ![fdClient] = @ + 1] /\ state = "WAITING"
        /\ fdClient' = fdClient /\ fdClient \in Conns
    BY <2>1 DEF ReadMessage, TypeOK
  <2>3. \/ nrep' = [nrep EXCEPT ![fdClient] = @ + 1] /\ state' = "WAITING"
        \/ nrep' = nrep /\ state' = "PROCESSING"
    BY <2>1 DEF ReadMessage, Return, Enter
  <2> QED
    BY <1>0, <2>2, <2>3 DEF Ledger, Busy
<1>5. CASE \/ verisocks_init_calltf \/ MainConnect \/ ConnectFails \/ LoseClient
           \/ UNCHANGED vars \/ \E c \in Conns : Connect(c) \/ Send(c) \/ HangUp(c)
  <2>1. CASE Quiet /\ UNCHANGED <<state, fdClient, sim>>
    BY <2>1 DEF Quiet, Ledger, Busy
  <2>2. CASE /\ Quiet /\ state \in {"START", "CONNECT", "WAITING"}
             /\ state' \in {"START", "CONNECT", "WAITING", "ERROR"}
    BY <2>2 DEF Quiet, Ledger, Busy
  <2> QED
    BY <1>5, <2>1, <2>2, OtherSteps
<1> QED
  BY <1>2, <1>3, <1>4, <1>5 DEF Next, Server

LEMMA NextReplyUuid ==
  /\ TypeOK /\ SimPhase /\ CallbackShape /\ [Next]_vars
  /\ UuidOfRequest /\ ReplyCarriesUuid
  => (UuidOfRequest /\ ReplyCarriesUuid)'
<1> SUFFICES ASSUME TypeOK, SimPhase, CallbackShape, UuidOfRequest, ReplyCarriesUuid,
                    [Next]_vars
             PROVE  (UuidOfRequest /\ ReplyCarriesUuid)'
  OBVIOUS
<1>1. ASSUME Replies, state \in {"PROCESSING", "SIM_RUNNING"}
      PROVE  (UuidOfRequest /\ ReplyCarriesUuid)'
  <2>1. /\ last'.conn = fdClient /\ last'.uuid = uuid /\ cur' = cur /\ uuid' = uuid
        /\ cur.conn = fdClient
    BY <1>1 DEF Replies, Return, TypeOK
  <2> QED
    BY <1>1, <2>1 DEF UuidOfRequest, ReplyCarriesUuid
<1>2. CASE ProcessCommand
  <2>1. /\ state = "PROCESSING" /\ cur' = cur
        /\ \/ Replies
           \/ /\ Quiet
              /\ state' = "SIM_RUNNING" /\ cur.kind \in RunKinds /\ sim' = "run"
    BY <1>2, CommandSteps
  <2>2. CASE /\ Quiet
             /\ state' = "SIM_RUNNING" /\ cur.kind \in RunKinds /\ sim' = "run"
    BY <2>1, <2>2 DEF Quiet, Busy, RunKinds, UuidOfRequest, ReplyCarriesUuid
  <2> QED
    BY <1>1, <2>1, <2>2
<1>3. CASE Simulator
  <2>1. \/ Replies /\ state = "SIM_RUNNING"
        \/ Quiet /\ state' = state /\ sim # "ended" /\ sim' # "ended"
        \/ Quiet /\ state' = state /\ state # "SIM_RUNNING"
    BY <1>3, SimulatorSteps
  <2>2. CASE Quiet /\ state' = state /\ (Busy <=> Busy')
    BY <2>2 DEF Quiet, UuidOfRequest, ReplyCarriesUuid
  <2>3. CASE Quiet /\ state' = state /\ sim # "ended" /\ sim' # "ended"
    BY <2>2, <2>3 DEF Quiet, Busy
  <2>4. CASE Quiet /\ state' = state /\ state # "SIM_RUNNING"
    BY <2>2, <2>4 DEF Busy
  <2> QED
    BY <1>1, <2>1, <2>3, <2>4
<1>4. CASE MainWaiting
  <2>1. PICK m \in Request : m.conn = fdClient /\ ReadMessage(m)
    BY <1>4, WaitingReads
  <2>2. /\ cur' = m /\ uuid' = (IF m.tagged THEN <<m.conn, m.seq>> ELSE NoUuid)
        /\ \/ state' = "WAITING" /\ last'.conn = fdClient /\ last'.uuid = uuid'
           \/ state' = "PROCESSING"
    BY <2>1 DEF ReadMessage, StoredUuid, Return, Enter
  <2> QED
    BY <2>1, <2>2 DEF UuidOfRequest, ReplyCarriesUuid, Busy
<1>5. CASE \/ verisocks_init_calltf \/ MainConnect \/ ConnectFails \/ LoseClient
           \/ UNCHANGED vars \/ \E c \in Conns : Connect(c) \/ Send(c) \/ HangUp(c)
  <2>1. CASE Quiet /\ UNCHANGED <<state, fdClient, sim>>
    BY <2>1 DEF Quiet, UuidOfRequest, ReplyCarriesUuid, Busy
  <2>2. CASE /\ Quiet /\ state \in {"START", "CONNECT", "WAITING"}
             /\ state' \in {"START", "CONNECT", "WAITING", "ERROR"}
    BY <2>2 DEF Quiet, UuidOfRequest, ReplyCarriesUuid, Busy
  <2> QED
    BY <1>5, <2>1, <2>2, OtherSteps
<1> QED
  BY <1>2, <1>3, <1>4, <1>5 DEF Next, Server

\* On every connection, one reply has been written per message read, but for the
\* request in hand.
THEOREM LedgerBalances == Spec => []Ledger
<1>1. Init => Ledger
  BY InitReplies
<1>2. TypeOK /\ (SimPhase /\ CallbackShape) /\ Ledger /\ [Next]_vars => Ledger'
  BY NextLedger
<1> QED
  BY <1>1, <1>2, TypeCorrect, CallbackInvariant, PTL DEF Spec

\* Every reply goes to the connection of its request, under its UUID.
THEOREM RepliesMatch == Spec => []ReplyCarriesUuid
<1>1. Init => UuidOfRequest /\ ReplyCarriesUuid
  BY InitReplies
<1>2. /\ TypeOK /\ (SimPhase /\ CallbackShape) /\ [Next]_vars
      /\ (UuidOfRequest /\ ReplyCarriesUuid)
      => (UuidOfRequest /\ ReplyCarriesUuid)'
  BY NextReplyUuid
<1> QED
  BY <1>1, <1>2, TypeCorrect, CallbackInvariant, PTL DEF Spec
=============================================================================
