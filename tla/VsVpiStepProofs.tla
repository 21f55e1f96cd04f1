--------------------------- MODULE VsVpiStepProofs ---------------------------
(***************************************************************************)
(* What no step of the VPI application does, and the proof that it           *)
(* implements VsFocus, both from the invariants of VsVpiProofs.             *)
(***************************************************************************)
EXTENDS VsVpiProofs

UnansweredIsBusy == Unanswered = Busy

Invariants == TypeOK /\ SimPhase /\ CallbackShape /\ Ledger /\ UnansweredIsBusy

\* With the ledger balanced, a request is unanswered exactly while the server is
\* busy with it.
LEMMA UnansweredWhileBusy == TypeOK /\ Ledger => UnansweredIsBusy
<1> SUFFICES ASSUME TypeOK, Ledger PROVE UnansweredIsBusy
  OBVIOUS
<1>1. \A c \in Conns : nread[c] \in Nat /\ nrep[c] \in Nat
  BY DEF TypeOK, HistType
<1>2. Busy => fdClient \in Conns
  BY DEF Busy, TypeOK
<1>3. ASSUME Busy PROVE nrep[fdClient] < nread[fdClient]
  BY <1>1, <1>2, <1>3 DEF Ledger, Busy
<1>4. ASSUME ~Busy, NEW c \in Conns PROVE ~(nrep[c] < nread[c])
  BY <1>1, <1>4 DEF Ledger
<1> QED
  BY <1>2, <1>3, <1>4 DEF UnansweredIsBusy, Unanswered, Busy

LEMMA InvariantsHold == Spec => []Invariants
  BY TypeCorrect, CallbackInvariant, LedgerBalances, UnansweredWhileBusy, PTL
  DEF Invariants

-----------------------------------------------------------------------------
(* Time                                                                     *)

\* Only the simulator moves time, one step at a time.
LEMMA OnlyAdvanceMovesTime ==
  ASSUME [Next]_vars, simTime' # simTime
  PROVE  Advance
<1>1. ~(verisocks_init_calltf \/ MainConnect \/ ConnectFails \/ LoseClient)
  BY DEF verisocks_init_calltf, MainConnect, ConnectFails, LoseClient, simVars
<1>2. ~MainWaiting
  BY DEF MainWaiting, ReadMessage, simVars
<1>3. ~ProcessCommand
  BY DEF ProcessCommand, CmdInfo, CmdGet, CmdBad, Answered, CmdSet, CmdRunTime,
         CmdRunChange, CmdRunError, CmdStop, CmdFinish, CmdExit, simVars
<1>4. ~(verisocks_cb \/ SignalChanges \/ EventTriggers)
  BY DEF verisocks_cb, SignalChanges, EventTriggers
<1>5. ~(DesignEnds \/ Horizon \/ SimFinishes \/ Console)
  BY DEF DesignEnds, Horizon, SimFinishes, verisocks_cb_exit, Console
<1>6. ~(UNCHANGED vars) /\ ~\E c \in Conns : Connect(c) \/ Send(c) \/ HangUp(c)
  BY DEF Connect, Send, HangUp, vars, simVars
<1> QED
  BY <1>1, <1>2, <1>3, <1>4, <1>5, <1>6 DEF Next, Server, Simulator

\* Simulation time moves only on behalf of a run that has not been answered, or
\* after a stop or an exit.
THEOREM TimeIsFrozen == Spec => TimeFrozen
<1>1. ASSUME Invariants, [Next]_vars, simTime' # simTime
      PROVE  \/ cur.kind \in RunKinds /\ nrep[cur.conn] < nread[cur.conn]
             \/ cur.kind \in {"stop", "exit"}
  <2>1. sim = "run" /\ ~HasFocus /\ state # "START"
    BY <1>1, OnlyAdvanceMovesTime DEF Advance, SimRuns
  <2>2. state \in {"SIM_RUNNING", "EXIT"}
    BY <1>1, <2>1 DEF Invariants, TypeOK, ServerType, SimPhase, HasFocus
  <2>3. CASE state = "EXIT"
    BY <1>1, <2>1, <2>3 DEF Invariants, SimPhase
  <2>4. CASE state = "SIM_RUNNING" /\ cur.kind # "stop"
    <3>1. cur.kind \in RunKinds /\ Busy
      BY <1>1, <2>1, <2>4 DEF Invariants, SimPhase, Busy
    <3>2. fdClient \in Conns /\ cur.conn = fdClient
      BY <1>1, <2>4 DEF Invariants, TypeOK
    <3>3. nrep[fdClient] = nread[fdClient] - 1
      BY <1>1, <2>1, <2>4, <3>1, <3>2 DEF Invariants, Ledger, TypeOK, HistType
    <3>4. nread[fdClient] \in Nat
      BY <1>1, <3>2 DEF Invariants, TypeOK, HistType
    <3> QED
      BY <3>1, <3>2, <3>3, <3>4
  <2> QED
    BY <2>2, <2>3, <2>4
<1> QED
  BY <1>1, InvariantsHold, PTL DEF Spec, TimeFrozen

-----------------------------------------------------------------------------
(* Acknowledgements of runs                                                 *)

LEMMA TimedRunReached ==
  ASSUME Invariants, verisocks_cb
  PROVE  Condition(cur)'
<1>1. PICK cb \in Due : cbs' = cbs \ {cb}
  BY DEF verisocks_cb
<1>2. /\ state = "SIM_RUNNING" /\ cb = CallbackOf(cur) /\ cur.kind \in RunKinds
      /\ cbs # {}
  BY <1>1 DEF Due, Invariants, CallbackShape
<1>3. cur.kind \notin {"until_change", "until_event"} /\ cb.at = DueTime(cur)
  BY <1>1, <1>2 DEF Due, CallbackOf
<1>4. DueTime(cur) <= simTime /\ simTime <= DueTime(cur)
  BY <1>1, <1>2, <1>3 DEF Due, Invariants, CallbackShape
<1>5. DueTime(cur) \in Nat /\ simTime \in Nat
  BY <1>2, DueTimeType DEF Invariants, TypeOK, SimType
<1>6. simTime' = DueTime(cur) /\ cur' = cur
  BY <1>4, <1>5 DEF verisocks_cb
<1> QED
  BY <1>3, <1>6 DEF Condition, DueTime, Ticks

LEMMA ChangeRunReached ==
  ASSUME Invariants, SignalChanges \/ EventTriggers, nrep' # nrep
  PROVE  Condition(cur)'
<1>1. PICK cb \in cbs : /\ cb.kind \in {"change", "event"} /\ verisocks_cb_value_change(cb)
                        /\ SignalChanges => cb.kind = "change"
                        /\ EventTriggers => cb.kind = "event"
  <2>1. CASE SignalChanges /\ ~EventTriggers
    BY <2>1 DEF SignalChanges
  <2>2. CASE EventTriggers
    <3>1. ~SignalChanges
      BY <2>2 DEF SignalChanges, EventTriggers
    <3> QED
      BY <2>2, <3>1 DEF EventTriggers
  <2> QED
    BY <2>1, <2>2
<1>2. state = "SIM_RUNNING" /\ cb = CallbackOf(cur)
  BY DEF Invariants, CallbackShape
<1>3. cur' = cur
  BY DEF SignalChanges, EventTriggers
<1>4. CASE cb.kind = "event"
  <2>1. cur.kind = "until_event"
    BY <1>2, <1>4 DEF CallbackOf
  <2> QED
    BY <1>3, <2>1 DEF Condition
<1>5. CASE cb.kind = "change"
  <2>1. cur.kind = "until_change"
    BY <1>2, <1>5 DEF CallbackOf
  <2>2. value = cur.arg
    BY <2>1 DEF Invariants, CallbackShape
  <2>3. sig' = value
    BY <1>1, <1>2, <1>5 DEF verisocks_cb_value_change
  <2> QED
    BY <1>3, <2>1, <2>2, <2>3 DEF Condition
<1> QED
  BY <1>1, <1>4, <1>5

\* A run is acknowledged only at the instant its condition holds.
THEOREM AcksAreHonest == Spec => AckIsHonest
<1>1. ASSUME Invariants, [Next]_vars, state = "SIM_RUNNING", nrep' # nrep,
             last'.type = "ack"
      PROVE  Condition(cur)'
  <2>1. CASE verisocks_cb
    BY <1>1, <2>1, TimedRunReached
  <2>2. CASE SignalChanges \/ EventTriggers
    BY <1>1, <2>2, ChangeRunReached
  <2>3. CASE Advance \/ Console
    BY <1>1, <2>3 DEF Advance, Console, histVars
  <2>4. CASE DesignEnds \/ Horizon \/ SimFinishes
    BY <1>1, <2>4 DEF DesignEnds, Horizon, SimFinishes, verisocks_cb_exit,
                      ExitOwesReply, Return
  <2>5. CASE MainWaiting \/ ProcessCommand
    <3>1. CASE MainWaiting
      BY <1>1, <3>1 DEF MainWaiting, ReadMessage
    <3>2. CASE ProcessCommand
      BY <1>1, <3>2, CommandSteps DEF Invariants
    <3> QED
      BY <2>5, <3>1, <3>2
  <2>6. CASE \/ verisocks_init_calltf \/ MainConnect \/ ConnectFails \/ LoseClient
             \/ UNCHANGED vars \/ \E c \in Conns : Connect(c) \/ Send(c) \/ HangUp(c)
    BY <1>1, <2>6, OtherSteps DEF Invariants, Quiet
  <2> QED
    BY <1>1, <2>1, <2>2, <2>3, <2>4, <2>5, <2>6 DEF Next, Server, Simulator
<1> QED
  BY <1>1, InvariantsHold, PTL DEF Spec, AckIsHonest

-----------------------------------------------------------------------------
(* The execution focus                                                      *)

LEMMA InitFocus == Init => Focus!Init
<1> SUFFICES ASSUME Init PROVE Focus!Init
  OBVIOUS
<1>1. Turn = "init" /\ simTime = 0
  BY DEF Init, Turn
<1>2. Unanswered = FALSE
  BY DEF Init, Unanswered
<1> QED
  BY <1>1, <1>2 DEF Focus!Init

\* A step that changes neither the turn nor the request in hand nor time.
LEMMA FocusStutter ==
  ASSUME Invariants, Invariants', Turn' = Turn, Busy' = Busy, simTime' = simTime
  PROVE  [Focus!Next]_<<Turn, Unanswered, simTime>>
<1>1. Unanswered = Busy /\ Unanswered' = Busy'
  BY DEF Invariants, UnansweredIsBusy
<1> QED
  BY <1>1

LEMMA FocusOther ==
  ASSUME Invariants, Invariants',
         \/ verisocks_init_calltf \/ MainConnect \/ ConnectFails \/ LoseClient
         \/ UNCHANGED vars \/ \E c \in Conns : Connect(c) \/ Send(c) \/ HangUp(c)
  PROVE  [Focus!Next]_<<Turn, Unanswered, simTime>>
<1>1. Unanswered = Busy /\ Unanswered' = Busy'
  BY DEF Invariants, UnansweredIsBusy
<1>2. CASE verisocks_init_calltf
  <2>1. simTime' = simTime /\ Turn = "init" /\ Unanswered' = FALSE
    BY <1>1, <1>2 DEF verisocks_init_calltf, Turn, Busy
  <2>2. Turn' \in {"init", "idle"}
    BY <1>2 DEF verisocks_init_calltf, Turn
  <2>3. Unanswered = FALSE
    BY <1>1, <1>2 DEF verisocks_init_calltf, Busy
  <2>4. CASE Turn' = "idle"
    BY <2>1, <2>4 DEF Focus!Next, Focus!Start, Focus!Turn
  <2> QED
    BY <2>1, <2>2, <2>3, <2>4
<1>3. CASE MainConnect \/ LoseClient
  <2>1. Turn = Turn' /\ Busy' = Busy /\ simTime' = simTime
    BY <1>3 DEF MainConnect, LoseClient, Enter, Turn, Busy, simVars, Invariants,
                SimPhase, HasFocus
  <2> QED
    BY <2>1, FocusStutter
<1>4. CASE ConnectFails
  <2>1. /\ Turn = "idle" /\ Turn' = "released" /\ Unanswered' = FALSE
        /\ simTime' = simTime
    BY <1>1, <1>4 DEF ConnectFails, Abort, Enter, Turn, Busy, Invariants, SimPhase,
                      HasFocus
  <2> QED
    BY <2>1 DEF Focus!Next, Focus!Release, Focus!Turn
<1>5. CASE UNCHANGED vars \/ \E c \in Conns : Connect(c) \/ Send(c) \/ HangUp(c)
  <2>1. UNCHANGED <<state, sim, cur, simTime>>
    BY <1>5 DEF vars, serverVars, simVars, histVars, Connect, Send, HangUp
  <2>2. Turn' = Turn /\ Busy' = Busy
    BY <2>1 DEF Turn, Busy
  <2> QED
    BY <2>1, <2>2, FocusStutter
<1> QED
  BY <1>2, <1>3, <1>4, <1>5

LEMMA FocusWaiting ==
  ASSUME Invariants, Invariants', MainWaiting
  PROVE  [Focus!Next]_<<Turn, Unanswered, simTime>>
<1>1. Unanswered = Busy /\ Unanswered' = Busy'
  BY DEF Invariants, UnansweredIsBusy
<1>2. /\ state = "WAITING" /\ state' \in {"WAITING", "PROCESSING"}
      /\ sim = "run" /\ sim' = "run" /\ simTime' = simTime
  BY DEF MainWaiting, ReadMessage, Enter, simVars, Invariants, SimPhase, HasFocus
<1>3. CASE state' = "WAITING"
  BY <1>2, <1>3, FocusStutter DEF Turn, Busy
<1>4. CASE state' = "PROCESSING"
  <2>1. Turn = "idle" /\ Turn' = "busy" /\ Unanswered' = TRUE
    BY <1>1, <1>2, <1>4 DEF Turn, Busy
  <2> QED
    BY <1>2, <2>1 DEF Focus!Next, Focus!Take, Focus!Turn
<1> QED
  BY <1>2, <1>3, <1>4

LEMMA FocusCommand ==
  ASSUME Invariants, Invariants', ProcessCommand
  PROVE  [Focus!Next]_<<Turn, Unanswered, simTime>>
<1>1. Unanswered = Busy /\ Unanswered' = Busy'
  BY DEF Invariants, UnansweredIsBusy
<1>2. simTime' = simTime
  BY DEF ProcessCommand, CmdInfo, CmdGet, CmdBad, Answered, CmdSet, CmdRunTime,
         CmdRunChange, CmdRunError, CmdStop, CmdFinish, CmdExit, simVars
<1>3. /\ state = "PROCESSING" /\ cur' = cur /\ sim = "run"
      /\ \/ state' \in {"WAITING", "EXIT"}
         \/ state' = "SIM_RUNNING" /\ cur.kind = "stop" /\ sim' = "stopped"
         \/ state' = "SIM_RUNNING" /\ cur.kind \in RunKinds /\ sim' = "run"
  BY CommandSteps DEF Invariants
<1>4. Turn = "busy"
  BY <1>3 DEF Turn
<1>5. CASE state' = "WAITING"
  <2>1. Turn' = "idle" /\ Unanswered' = FALSE
    BY <1>1, <1>5 DEF Turn, Busy, Invariants, SimPhase, HasFocus
  <2> QED
    BY <1>2, <1>4, <2>1 DEF Focus!Next, Focus!Answer, Focus!Turn
<1>6. CASE \/ state' = "EXIT"
           \/ state' = "SIM_RUNNING" /\ cur.kind = "stop" /\ sim' = "stopped"
  <2>0. sim' # "ended"
    BY <1>3, <1>6 DEF ProcessCommand, CmdInfo, CmdGet, CmdBad, Answered, CmdSet,
      CmdRunTime, CmdRunChange, CmdRunError, CmdStop, CmdFinish, CmdExit, simVars
  <2>1. Turn' = "released" /\ Unanswered' = FALSE
    BY <1>1, <1>3, <1>6, <2>0 DEF Turn, Busy, RunKinds
  <2> QED
    BY <1>2, <1>4, <2>1 DEF Focus!Next, Focus!Release, Focus!Turn
<1>7. CASE state' = "SIM_RUNNING" /\ cur.kind \in RunKinds /\ sim' = "run"
  <2>1. Turn' = "running" /\ Unanswered' = TRUE
    BY <1>1, <1>3, <1>7 DEF Turn, Busy, RunKinds
  <2> QED
    BY <1>2, <1>4, <2>1 DEF Focus!Next, Focus!Run, Focus!Turn
<1> QED
  BY <1>3, <1>5, <1>6, <1>7

LEMMA FocusSimulator ==
  ASSUME Invariants, Invariants', Simulator
  PROVE  [Focus!Next]_<<Turn, Unanswered, simTime>>
<1>1. Unanswered = Busy /\ Unanswered' = Busy'
  BY DEF Invariants, UnansweredIsBusy
<1>2. CASE Advance
  <2>1. /\ UNCHANGED <<state, sim, cur>> /\ sim = "run" /\ ~HasFocus /\ state # "START"
        /\ simTime' = simTime + 1 /\ simTime \in Nat
    BY <1>2 DEF Advance, SimRuns, serverVars, histVars, Invariants, TypeOK, SimType
  <2>2. Turn \in {"running", "released"} /\ Turn' = Turn
    BY <2>1 DEF Turn, HasFocus
  <2>3. Unanswered' = Unanswered
    BY <1>1, <2>1 DEF Busy
  <2> QED
    BY <2>1, <2>2, <2>3 DEF Focus!Next, Focus!Advance
<1>3. simTime' = simTime \/ Advance
  BY DEF Simulator, verisocks_cb, SignalChanges, EventTriggers, DesignEnds, Horizon,
         SimFinishes, verisocks_cb_exit, Console
<1>4. CASE ~Advance
  <2>1. /\ UNCHANGED <<cur>> /\ ~HasFocus
        /\ \/ /\ state' = state /\ sim \in {"run", "stopped"}
              /\ sim' \in {"run", "finishing"} /\ (sim' # sim => sim = "stopped")
           \/ /\ state = "SIM_RUNNING" /\ state' = "WAITING"
              /\ sim = "run" /\ sim' = "run" /\ cur.kind \in RunKinds
           \/ state' = state /\ sim # "ended" /\ sim' = "ended"
    BY SimulatorSteps DEF Invariants
  <2>2. CASE /\ state' = state /\ sim \in {"run", "stopped"}
             /\ sim' \in {"run", "finishing"} /\ (sim' # sim => sim = "stopped")
    <3>1. Turn' = Turn /\ Busy' = Busy
      BY <2>1, <2>2 DEF Turn, Busy, Invariants, SimPhase, RunKinds
    <3> QED
      BY <1>3, <1>4, <3>1, FocusStutter
  <2>3. CASE /\ state = "SIM_RUNNING" /\ state' = "WAITING"
             /\ sim = "run" /\ sim' = "run" /\ cur.kind \in RunKinds
    <3>1. Turn = "running" /\ Turn' = "idle" /\ Unanswered' = FALSE
      BY <1>1, <2>1, <2>3 DEF Turn, Busy
    <3>2. simTime \in Nat /\ simTime' = simTime
      BY <1>3, <1>4 DEF Invariants, TypeOK, SimType
    <3> QED
      BY <3>1, <3>2 DEF Focus!Next, Focus!Resume
  <2>4. CASE state' = state /\ sim # "ended" /\ sim' = "ended"
    <3>1. Turn \in {"init", "running", "released"} /\ Turn' = "over"
      BY <2>1, <2>4 DEF Turn, HasFocus
    <3>2. Unanswered' = FALSE
      BY <1>1, <2>1, <2>4 DEF Busy, HasFocus
    <3> QED
      BY <1>3, <1>4, <3>1, <3>2 DEF Focus!Next, Focus!End, Focus!Turn
  <2> QED
    BY <2>1, <2>2, <2>3, <2>4
<1> QED
  BY <1>2, <1>4

\* The VPI application implements the abstract execution focus: Verisocks and the
\* simulator take turns, and a run is answered when the focus comes back.
THEOREM FocusImplemented == Spec => ImplementsFocus
<1>1. Init => Focus!Init
  BY InitFocus
<1>2. ASSUME Invariants, Invariants', [Next]_vars
      PROVE  [Focus!Next]_<<Turn, Unanswered, simTime>>
  BY <1>2, FocusOther, FocusWaiting, FocusCommand, FocusSimulator DEF Next, Server
<1> QED
  BY <1>1, <1>2, InvariantsHold, PTL DEF Spec, ImplementsFocus, Focus!Spec
=============================================================================
