------------------------------ MODULE LaunchProofs ------------------------------
(***************************************************************************)
(* What holds of Launch for any number of tasks, servers, terminals, late  *)
(* requests and crashes: one execution per handoff, one writer's answer at *)
(* a time, and what a run leaves behind (a stopped run has no process      *)
(* left, and every terminal is the one on record).                         *)
(***************************************************************************)
EXTENDS Launch, FiniteSetTheorems, TLAPS

-----------------------------------------------------------------------------
(* One execution per handoff *)

HandoffInv ==
  /\ handoff \in [Tasks -> {"none", "partial", "ready", "claimed"}]
  /\ executions \in [Tasks -> {0, 1}]
  /\ \A t \in Tasks : executions[t] = 1 => handoff[t] = "claimed"

\* The only steps that write the handoff or execute it keep the two in step:
\* `create` refuses what is claimed, `worker` claims before it executes.
LEMMA HandoffStep == HandoffInv /\ [Next]_launchVars => HandoffInv'
<1> SUFFICES ASSUME HandoffInv, [Next]_launchVars PROVE HandoffInv'
  OBVIOUS
<1> USE DEF HandoffInv
<1>1. CASE CreateHandoff
  <2>1. executions' = executions
    BY <1>1 DEF CreateHandoff, processes
  <2>2. /\ handoff[op.task] \in {"none", "ready"}
        /\ \/ handoff' = [handoff EXCEPT ![op.task] = "ready"]
           \/ handoff' = [handoff EXCEPT ![op.task] = "partial"]
    BY <1>1 DEF CreateHandoff, HandoffUsable
  <2> QED BY <2>1, <2>2
<1>2. CASE \E t \in Tasks, n \in Servers : Claim(t, n)
  <2> PICK t \in Tasks, n \in Servers : Claim(t, n)
    BY <1>2
  <2>1. CASE handoff[t] = "ready"
    <3>1. /\ handoff' = [handoff EXCEPT ![t] = "claimed"]
          /\ executions' = [executions EXCEPT ![t] = @ + 1] \/ executions' = executions
      BY <2>1 DEF Claim
    <3>2. executions[t] = 0
      BY <2>1
    <3> QED BY <3>1, <3>2
  <2>2. CASE handoff[t] # "ready"
    BY <2>2 DEF Claim
  <2> QED BY <2>1, <2>2
<1>3. CASE UNCHANGED <<handoff, executions>>
  BY <1>3
<1>4. \/ CreateHandoff
      \/ \E t \in Tasks, n \in Servers : Claim(t, n)
      \/ UNCHANGED <<handoff, executions>>
  <2>1. CASE Begin
    BY <2>1 DEF Begin, LaunchNew, LaunchAgain, BeginEnd, BeginAttach, processes
  <2>2. CASE Step
    BY <2>2 DEF Step, StartUnit, IdentifyServer, SaveInvocation, StartPane, FinishLaunch,
      AlreadyEnded, TerminatePane, TerminateServer, ServerExited, SaveStopped,
      StartTerminal, SaveTerminal, SaveWindow, processes
  <2>3. CASE Environment
    BY <2>3 DEF Environment, ServeStart, ServeSession, ServerExits, PaneExits,
      ServeTerminal, TerminalCloses, processes
  <2>4. CASE Abandon \/ ExecuteLate \/ Crash \/ Backup \/ Restore
    BY <2>4 DEF Abandon, ExecuteLate, Crash, Backup, Restore, processes
  <2>5. CASE UNCHANGED launchVars
    BY <2>5 DEF launchVars, processes
  <2> QED BY <2>1, <2>2, <2>3, <2>4, <2>5 DEF Next
<1> QED BY <1>1, <1>2, <1>3, <1>4

\* HandoffOnce: `runtime/handoff.rs` executes the metadata of a run at most
\* once, whatever is retried, crashes or is restored.
THEOREM OneExecution == Spec => []HandoffOnce
<1>1. Init => HandoffInv
  BY DEF Init, HandoffInv
<1>2. HandoffInv => HandoffOnce
  BY DEF HandoffInv, HandoffOnce
<1> QED BY <1>1, <1>2, HandoffStep, PTL DEF Spec

-----------------------------------------------------------------------------
(* Types *)

ControlStates ==
  [invocation : Nat, pane : Nat, ending : BOOLEAN, stopped : BOOLEAN,
   terminal : [nonce : Nat, process : Nat, window : BOOLEAN]]

Steps ==
  {"retry", "start", "identify", "identified", "pane", "paneAsked", "ending",
   "paneSignalled", "serverSignalled", "ended", "attach", "opening", "associate"}

Operations == [at : Steps, task : Tasks, server : Nat, state : ControlStates]

StoreRequests ==
  [kind : {"reserve"}, task : Tasks, shared : BOOLEAN]
    \cup [kind : {"identify"}, task : Tasks, server : Nat]
    \cup [kind : {"save"}, task : Tasks, state : ControlStates]

TypeInv ==
  /\ runs \subseteq Tasks
  /\ recorded \in [Tasks -> Nat]
  /\ controls \in [Tasks -> ControlStates]
  /\ late \in Seq(StoreRequests)
  /\ server \in [Tasks -> Nat] /\ servers \in Nat
  /\ terminals \in [Tasks -> SUBSET [nonce : Nat, process : Nat]]
  /\ opening \in [Tasks -> Seq(Nat)]
  /\ opened \in Nat /\ nonces \in Nat
  /\ op \in {Idle} \cup Operations

rowTypes ==
  runs \subseteq Tasks /\ recorded \in [Tasks -> Nat] /\ controls \in [Tasks -> ControlStates]

LEMMA FreshTypes == FreshControl \in ControlStates
  BY DEF FreshControl, ControlStates, NoTerminal

\* What the database executes, now or late, keeps its rows typed.
LEMMA ExecuteTypes ==
  ASSUME rowTypes, NEW r \in StoreRequests, Execute(r)
  PROVE  rowTypes'
<1>1. CASE r \in [kind : {"reserve"}, task : Tasks, shared : BOOLEAN]
  BY <1>1, FreshTypes DEF rowTypes, Execute
<1>2. CASE r \in [kind : {"identify"}, task : Tasks, server : Nat]
  BY <1>2 DEF rowTypes, Execute
<1>3. CASE r \in [kind : {"save"}, task : Tasks, state : ControlStates]
  BY <1>3 DEF rowTypes, Execute
<1> QED BY <1>1, <1>2, <1>3 DEF StoreRequests

LEMMA SubmitTypes ==
  ASSUME rowTypes, late \in Seq(StoreRequests), NEW r \in StoreRequests, NEW next,
         next \in {Idle} \cup Operations, Submit(r, next)
  PROVE  rowTypes' /\ late' \in Seq(StoreRequests) /\ op' \in {Idle} \cup Operations
<1>1. CASE Execute(r) /\ op' = next /\ UNCHANGED late
  BY <1>1, ExecuteTypes
<1>2. CASE /\ late' = Append(late, r) /\ op' = AfterGivingUp(next)
           /\ UNCHANGED <<runs, recorded, controls, acknowledged, backedUp>>
  BY <1>2 DEF AfterGivingUp, rowTypes
<1> QED BY <1>1, <1>2 DEF Submit

LEMMA IdleOrOperation ==
  ASSUME TypeInv, op # Idle
  PROVE  /\ op \in Operations /\ op.task \in Tasks /\ op.server \in Nat
         /\ op.state \in ControlStates /\ op.at \in Steps
  BY DEF TypeInv, Operations

LEMMA RequestTypes ==
  ASSUME NEW t \in Tasks
  PROVE  /\ \A shared \in BOOLEAN : Reserve(t, shared) \in StoreRequests
         /\ \A n \in Nat : Identify(t, n) \in StoreRequests
         /\ \A state \in ControlStates : Save(t, state) \in StoreRequests
  BY DEF Reserve, Identify, Save, StoreRequests

LEMMA AtTypes ==
  ASSUME NEW step \in Steps, NEW t \in Tasks, NEW n \in Nat, NEW state \in ControlStates
  PROVE  At(step, t, n, state) \in Operations
  BY DEF At, Operations

LEMMA ReconciledTypes ==
  ASSUME TypeInv, NEW t \in Tasks, NEW state \in ControlStates
  PROVE  Reconciled(t, state) \in ControlStates
  BY DEF TypeInv, Reconciled, ControlStates

\* An operation that starts types its state.
LEMMA BeginTypes == TypeInv /\ Begin => TypeInv'
<1> SUFFICES ASSUME TypeInv, Begin PROVE TypeInv'
  OBVIOUS
<1>1. rowTypes /\ late \in Seq(StoreRequests)
  BY DEF TypeInv, rowTypes
<1>2. ASSUME NEW t \in Tasks, NEW shared \in BOOLEAN, LaunchNew(t, shared) PROVE TypeInv'
  <2>1. At("retry", t, 0, FreshControl) \in {Idle} \cup Operations
    BY AtTypes, FreshTypes DEF Steps
  <2>2. rowTypes' /\ late' \in Seq(StoreRequests) /\ op' \in {Idle} \cup Operations
    BY <1>1, <1>2, <2>1, RequestTypes, SubmitTypes DEF LaunchNew
  <2> QED BY <1>2, <2>2 DEF LaunchNew, TypeInv, rowTypes, processes, requests, desktop
<1>3. ASSUME NEW t \in Tasks, LaunchAgain(t) PROVE TypeInv'
  <2>1. recorded[t] \in Nat /\ controls[t] \in ControlStates
    BY DEF TypeInv
  <2>2. op' \in Operations
    BY <1>3, <2>1, AtTypes DEF LaunchAgain, Steps
  <2> QED BY <1>3, <2>2 DEF LaunchAgain, TypeInv, database, processes, requests, desktop
<1>4. ASSUME NEW t \in Tasks, BeginEnd(t) PROVE TypeInv'
  <2> DEFINE known == IF controls[t].pane = 0 THEN Reconciled(t, controls[t]) ELSE controls[t]
             state == [known EXCEPT !.ending = TRUE]
  <2>1. recorded[t] \in Nat /\ known \in ControlStates
    BY ReconciledTypes DEF TypeInv
  <2>2. state \in ControlStates
    BY <2>1 DEF ControlStates
  <2>3. At("ending", t, recorded[t], state) \in {Idle} \cup Operations
    BY <2>1, <2>2, AtTypes DEF Steps
  <2>4. Submit(Save(t, state), At("ending", t, recorded[t], state))
    BY <1>4 DEF BeginEnd
  <2>5. Save(t, state) \in StoreRequests
    BY <2>2, RequestTypes
  <2> HIDE DEF state
  <2>6. rowTypes' /\ late' \in Seq(StoreRequests) /\ op' \in {Idle} \cup Operations
    BY <1>1, <2>3, <2>4, <2>5, SubmitTypes
  <2> QED BY <1>4, <2>6 DEF BeginEnd, TypeInv, rowTypes, processes, requests, desktop
<1>5. ASSUME NEW t \in Tasks, BeginAttach(t) PROVE TypeInv'
  <2> DEFINE kept == KeptIntent(t, controls[t].terminal)
             fresh == [nonce |-> nonces + 1, process |-> 0, window |-> FALSE]
             state == [Reconciled(t, controls[t]) EXCEPT
                         !.terminal = IF kept = NoTerminal THEN fresh ELSE kept]
  <2>1. /\ recorded[t] \in Nat /\ Reconciled(t, controls[t]) \in ControlStates
        /\ controls[t] \in ControlStates
    BY ReconciledTypes DEF TypeInv
  <2>2. state \in ControlStates
    <3>1. kept \in [nonce : Nat, process : Nat, window : BOOLEAN]
      BY <2>1 DEF KeptIntent, NoTerminal, ControlStates
    <3>2. fresh \in [nonce : Nat, process : Nat, window : BOOLEAN]
      BY DEF TypeInv
    <3> QED BY <2>1, <3>1, <3>2 DEF ControlStates
  <2>3. At("attach", t, recorded[t], state) \in {Idle} \cup Operations
    BY <2>1, <2>2, AtTypes DEF Steps
  <2>4. /\ Submit(Save(t, state), At("attach", t, recorded[t], state))
        /\ nonces' \in Nat
    BY <1>5 DEF BeginAttach, TypeInv
  <2>5. Save(t, state) \in StoreRequests
    BY <2>2, RequestTypes
  <2> HIDE DEF state
  <2>6. rowTypes' /\ late' \in Seq(StoreRequests) /\ op' \in {Idle} \cup Operations
    BY <1>1, <2>3, <2>4, <2>5, SubmitTypes
  <2> QED BY <1>5, <2>4, <2>6 DEF BeginAttach, TypeInv, rowTypes, processes, requests
<1> QED BY <1>2, <1>3, <1>4, <1>5 DEF Begin

\* A step that asks the database something and changes nothing else.
LEMMA AskingTypes ==
  ASSUME TypeInv, NEW r \in StoreRequests, NEW next \in {Idle} \cup Operations,
         Submit(r, next), UNCHANGED <<processes, requests, desktop>>
  PROVE  TypeInv'
<1>1. rowTypes /\ late \in Seq(StoreRequests)
  BY DEF TypeInv, rowTypes
<1>2. rowTypes' /\ late' \in Seq(StoreRequests) /\ op' \in {Idle} \cup Operations
  BY <1>1, SubmitTypes
<1> QED BY <1>2 DEF TypeInv, rowTypes, processes, requests, desktop

\* Saving the state of an operation, whatever field of it is set first.
LEMMA SavingTypes ==
  ASSUME TypeInv, op # Idle, NEW state \in ControlStates, NEW next \in {Idle} \cup Operations,
         Submit(Save(op.task, state), next), UNCHANGED <<processes, requests, desktop>>
  PROVE  TypeInv'
<1>1. Save(op.task, state) \in StoreRequests
  BY IdleOrOperation, RequestTypes
<1> QED BY <1>1, AskingTypes

LEMMA StepBusy == Step => op # Idle
<1> SUFFICES ASSUME Step, op.at = "idle" PROVE FALSE
  BY DEF Idle
<1>1. ~(CreateHandoff \/ StartUnit \/ IdentifyServer \/ SaveInvocation \/ StartPane)
  BY DEF CreateHandoff, StartUnit, IdentifyServer, SaveInvocation, StartPane
<1>2. ~(FinishLaunch \/ AlreadyEnded \/ TerminatePane \/ TerminateServer \/ ServerExited)
  BY DEF FinishLaunch, AlreadyEnded, TerminatePane, TerminateServer, ServerExited
<1>3. ~(SaveStopped \/ StartTerminal \/ SaveTerminal \/ SaveWindow)
  BY DEF SaveStopped, StartTerminal, SaveTerminal, SaveWindow
<1> QED BY <1>1, <1>2, <1>3 DEF Step

LEMMA StepTypes == TypeInv /\ Step => TypeInv'
<1> SUFFICES ASSUME TypeInv, Step PROVE TypeInv'
  OBVIOUS
<1>1. op # Idle
  BY StepBusy
<1>2. /\ op \in Operations /\ op.task \in Tasks /\ op.server \in Nat
      /\ op.state \in ControlStates /\ op.at \in Steps
  BY <1>1, IdleOrOperation
<1>3. /\ \A step \in Steps : [op EXCEPT !.at = step] \in Operations
      /\ \A step \in Steps, n \in Nat : [op EXCEPT !.at = step, !.server = n] \in Operations
      /\ \A step \in Steps, state \in ControlStates :
           [op EXCEPT !.at = step, !.state = state] \in Operations
  BY <1>2 DEF Operations
<1>4. server \in [Tasks -> Nat]
  BY DEF TypeInv
<1>5. CASE CreateHandoff
  BY <1>3, <1>5 DEF CreateHandoff, TypeInv, Steps, database, processes, requests, desktop
<1>6. CASE StartUnit
  BY <1>3, <1>6 DEF StartUnit, TypeInv, Steps, database, processes, desktop
<1>7. CASE StartPane
  BY <1>3, <1>7 DEF StartPane, TypeInv, Steps, database, processes, desktop
<1>8. CASE AlreadyEnded \/ ServerExited
  BY <1>3, <1>8 DEF AlreadyEnded, ServerExited, TypeInv, Steps, database, processes,
    requests, desktop
<1>9. CASE TerminatePane \/ TerminateServer
  <2>1. server[op.task] \in Nat
    BY <1>2, <1>4
  <2>2. op' \in Operations
    BY <1>3, <1>9, <2>1 DEF TerminatePane, TerminateServer, Steps
  <2> QED BY <1>9, <2>2 DEF TerminatePane, TerminateServer, TypeInv, database, processes,
    requests, desktop
<1>10. CASE StartTerminal
  <2>1. op.state.terminal.nonce \in Nat
    BY <1>2 DEF ControlStates
  <2>2. opening' = [opening EXCEPT ![op.task] = Append(@, op.state.terminal.nonce)]
    BY <1>10 DEF StartTerminal
  <2>3. opening' \in [Tasks -> Seq(Nat)]
    BY <2>1, <2>2, <1>2 DEF TypeInv
  <2>4. op' \in Operations
    BY <1>3, <1>10 DEF StartTerminal, Steps
  <2> QED BY <1>10, <2>3, <2>4 DEF StartTerminal, TypeInv, database, processes, desktop
<1>11. CASE IdentifyServer
  <2> DEFINE n == server[op.task]
             state == [op.state EXCEPT !.invocation = n]
  <2>1. n \in Nat /\ state \in ControlStates
    BY <1>2, <1>4 DEF ControlStates
  <2>2. Identify(op.task, n) \in StoreRequests
    BY <1>2, <2>1, RequestTypes
  <2>3. At("identified", op.task, n, state) \in {Idle} \cup Operations
    BY <1>2, <2>1, AtTypes DEF Steps
  <2>4. /\ Submit(Identify(op.task, n), At("identified", op.task, n, state))
        /\ UNCHANGED <<processes, requests, desktop>>
    BY <1>11 DEF IdentifyServer
  <2> HIDE DEF state
  <2> QED BY <2>2, <2>3, <2>4, AskingTypes
<1>12. CASE SaveInvocation
  <2>1. /\ Submit(Save(op.task, op.state), [op EXCEPT !.at = "pane"])
        /\ UNCHANGED <<processes, requests, desktop>>
    BY <1>12 DEF SaveInvocation
  <2> QED BY <1>1, <1>2, <1>3, <2>1, SavingTypes DEF Steps
<1>13. CASE FinishLaunch
  <2>1. UNCHANGED <<processes, requests, desktop>>
    BY <1>13 DEF FinishLaunch
  <2>2. CASE Submit(Save(op.task, op.state), Idle)
    BY <1>1, <1>2, <2>1, <2>2, SavingTypes
  <2>3. CASE Submit(Save(op.task, Reconciled(op.task, op.state)), Idle)
    BY <1>1, <1>2, <2>1, <2>3, SavingTypes, ReconciledTypes
  <2> QED BY <1>13, <2>2, <2>3 DEF FinishLaunch
<1>14. CASE SaveStopped
  <2> DEFINE state == [op.state EXCEPT !.stopped = TRUE]
  <2>1. state \in ControlStates
    BY <1>2 DEF ControlStates
  <2>2. Submit(Save(op.task, state), Idle) /\ UNCHANGED <<processes, requests, desktop>>
    BY <1>14 DEF SaveStopped
  <2> HIDE DEF state
  <2> QED BY <1>1, <2>1, <2>2, SavingTypes
<1>15. CASE SaveTerminal
  <2> PICK x \in TerminalOf(op.task, op.state.terminal) :
        LET state == [op.state EXCEPT !.terminal.process = x.process]
        IN  Submit(Save(op.task, state), [op EXCEPT !.at = "associate", !.state = state])
    BY <1>15 DEF SaveTerminal
  <2> DEFINE state == [op.state EXCEPT !.terminal.process = x.process]
  <2>1. x.process \in Nat
    BY <1>2 DEF TerminalOf, TypeInv
  <2>2. state \in ControlStates
    BY <1>2, <2>1 DEF ControlStates
  <2>3. /\ Submit(Save(op.task, state), [op EXCEPT !.at = "associate", !.state = state])
        /\ UNCHANGED <<processes, requests, desktop>>
    BY <1>15 DEF SaveTerminal
  <2> HIDE DEF state
  <2> QED BY <1>1, <1>3, <2>2, <2>3, SavingTypes DEF Steps
<1>16. CASE SaveWindow
  <2> DEFINE state == [op.state EXCEPT !.terminal.window = TRUE]
  <2>1. state \in ControlStates
    BY <1>2 DEF ControlStates
  <2>2. Submit(Save(op.task, state), Idle) /\ UNCHANGED <<processes, requests, desktop>>
    BY <1>16 DEF SaveWindow
  <2> HIDE DEF state
  <2> QED BY <1>1, <2>1, <2>2, SavingTypes
<1> QED BY <1>5, <1>6, <1>7, <1>8, <1>9, <1>10, <1>11, <1>12, <1>13, <1>14, <1>15, <1>16 DEF Step

LEMMA EnvironmentTypes == TypeInv /\ Environment => TypeInv'
<1> SUFFICES ASSUME TypeInv, NEW t \in Tasks,
                    \/ ServeStart(t) \/ ServeSession(t) \/ ServerExits(t)
                    \/ \E n \in Servers : Claim(t, n) \/ PaneExits(t, n)
                    \/ ServeTerminal(t) \/ TerminalCloses(t)
             PROVE  TypeInv'
  BY DEF Environment
<1>1. CASE ServeStart(t)
  BY <1>1 DEF ServeStart, TypeInv, database, desktop
<1>2. CASE ServeSession(t)
  BY <1>2 DEF ServeSession, TypeInv, database, desktop
<1>3. CASE ServerExits(t)
  BY <1>3 DEF ServerExits, TypeInv, database, desktop
<1>4. CASE \E n \in Servers : Claim(t, n) \/ PaneExits(t, n)
  BY <1>4 DEF Claim, PaneExits, TypeInv, database, requests, desktop
<1>5. CASE ServeTerminal(t)
  <2>1. opening[t] \in Seq(Nat) /\ opening[t] # <<>>
    BY <1>5 DEF ServeTerminal, TypeInv
  <2>2. Head(opening[t]) \in Nat /\ Tail(opening[t]) \in Seq(Nat)
    BY <2>1
  <2>3. opening' \in [Tasks -> Seq(Nat)]
    BY <1>5, <2>2 DEF ServeTerminal, TypeInv
  <2>4. opened' \in Nat /\ terminals' \in [Tasks -> SUBSET [nonce : Nat, process : Nat]]
    <3> DEFINE new == [nonce |-> Head(opening[t]), process |-> opened + 1]
    <3>1. opened + 1 \in Nat /\ new \in [nonce : Nat, process : Nat]
      BY <2>2 DEF TypeInv
    <3>2. \/ UNCHANGED <<terminals, opened>>
          \/ opened' = opened + 1 /\ terminals' = [terminals EXCEPT ![t] = @ \cup {new}]
      BY <1>5 DEF ServeTerminal
    <3> DEFINE all == [nonce : Nat, process : Nat]
    <3>3. /\ opened \in Nat /\ terminals \in [Tasks -> SUBSET all]
          /\ new \in all /\ opened + 1 \in Nat
      BY <3>1 DEF TypeInv
    <3> HIDE DEF new, all
    <3>4. opened' \in Nat /\ terminals' \in [Tasks -> SUBSET all]
      <4>1. CASE UNCHANGED <<terminals, opened>>
        BY <3>3, <4>1
      <4>2. CASE opened' = opened + 1 /\ terminals' = [terminals EXCEPT ![t] = @ \cup {new}]
        <5>1. terminals[t] \cup {new} \in SUBSET all
          BY <3>3
        <5> QED BY <3>3, <4>2, <5>1
      <4> QED BY <3>2, <4>1, <4>2
    <3> QED BY <3>4 DEF all
  <2> QED BY <1>5, <2>3, <2>4 DEF ServeTerminal, TypeInv, database, processes
<1>6. CASE TerminalCloses(t)
  BY <1>6 DEF TerminalCloses, TypeInv, database, processes, requests
<1> QED BY <1>1, <1>2, <1>3, <1>4, <1>5, <1>6

LEMMA TypeStep == TypeInv /\ [Next]_launchVars => TypeInv'
<1> SUFFICES ASSUME TypeInv, [Next]_launchVars PROVE TypeInv'
  OBVIOUS
<1>1. CASE Abandon
  BY <1>1 DEF Abandon, TypeInv, database, processes, requests, desktop
<1>2. CASE ExecuteLate
  <2>1. rowTypes /\ late \in Seq(StoreRequests) /\ late # <<>>
    BY <1>2 DEF ExecuteLate, TypeInv, rowTypes
  <2>2. Head(late) \in StoreRequests /\ Tail(late) \in Seq(StoreRequests)
    BY <2>1
  <2>3. Execute(Head(late)) /\ late' = Tail(late)
    BY <1>2 DEF ExecuteLate
  <2>4. rowTypes'
    BY <2>1, <2>2, <2>3, ExecuteTypes
  <2> QED BY <1>2, <2>2, <2>3, <2>4 DEF ExecuteLate, TypeInv, rowTypes, processes,
    requests, desktop
<1>3. CASE Crash
  BY <1>3 DEF Crash, TypeInv, processes, requests, desktop
<1>4. CASE Backup
  BY <1>4 DEF Backup, TypeInv, database, processes, requests, desktop
<1>5. CASE Restore
  BY <1>5, FreshTypes DEF Restore, TypeInv, processes, requests, desktop
<1>6. CASE UNCHANGED launchVars
  BY <1>6 DEF launchVars, TypeInv, database, processes, requests, desktop
<1> QED BY <1>1, <1>2, <1>3, <1>4, <1>5, <1>6, BeginTypes, StepTypes, EnvironmentTypes DEF Next

LEMMA TypeInit == Init => TypeInv
<1> SUFFICES ASSUME Init PROVE TypeInv
  OBVIOUS
<1>1. controls \in [Tasks -> ControlStates]
  BY FreshTypes DEF Init
<1> QED BY <1>1 DEF Init, TypeInv

-----------------------------------------------------------------------------
(* Signals follow durable intent *)

\* An operation goes on only if all it asked for was executed, so the state it
\* ends with is the one on record: the intent to end, with the invocation and
\* the pane that may be signalled.
EndingSteps == {"ending", "paneSignalled", "serverSignalled", "ended"}

SignalInv ==
  /\ TypeInv
  /\ op = Idle \/ late = <<>>
  /\ op.at \in EndingSteps =>
       /\ controls[op.task] = op.state
       /\ op.state.ending
       /\ op.state.pane # 0 /\ op.state.invocation # 0

LEMMA SubmitAlternatives ==
  ASSUME NEW r, NEW next, Submit(r, next)
  PROVE  \/ late = <<>> /\ late' = late /\ Acceptable(r) /\ Execute(r) /\ op' = next
         \/ op' = Idle /\ UNCHANGED <<runs, recorded, controls>>
  BY DEF Submit, InOrder, AfterGivingUp

\* Outside of an ending nothing is asked of the invariant but the queue.
LEMMA SubmitQuiet ==
  ASSUME NEW r, NEW next, next.at \notin EndingSteps, Submit(r, next)
  PROVE  (op' = Idle \/ late' = <<>>) /\ op'.at \notin EndingSteps
<1>1. Idle.at \notin EndingSteps
  BY DEF Idle, EndingSteps
<1> QED BY <1>1, SubmitAlternatives

\* A step that only moves the operation on, and into an ending from an ending.
LEMMA MoveOn ==
  ASSUME SignalInv, TypeInv', op # Idle, UNCHANGED <<controls, late>>,
         op'.task = op.task, op'.state = op.state,
         op'.at \in EndingSteps => op.at \in EndingSteps
  PROVE  SignalInv'
  BY DEF SignalInv

LEMMA EndIntent ==
  ASSUME SignalInv, NEW t \in Tasks, BeginEnd(t)
  PROVE  SignalInv'
<1>1. TypeInv'
  BY TypeStep DEF SignalInv, Next, Begin
<1>2. controls[t] \in ControlStates /\ server[t] \in Nat
  BY DEF SignalInv, TypeInv
<1> DEFINE known == IF controls[t].pane = 0 THEN Reconciled(t, controls[t]) ELSE controls[t]
           state == [known EXCEPT !.ending = TRUE]
<1>3. known \in ControlStates /\ known.pane # 0
  <2>1. CASE controls[t].pane = 0
    <3>1. server[t] # 0
      BY <2>1 DEF BeginEnd, OwnedPane, OwnedServer
    <3>2. known = [controls[t] EXCEPT !.invocation = server[t], !.pane = server[t]]
      BY <2>1 DEF Reconciled
    <3>3. known.pane = server[t]
      BY <1>2, <3>2 DEF ControlStates
    <3>4. known \in ControlStates
      BY <1>2, <2>1, ReconciledTypes DEF SignalInv
    <3> QED BY <3>1, <3>3, <3>4
  <2>2. CASE controls[t].pane # 0
    BY <1>2, <2>2
  <2> QED BY <2>1, <2>2
<1>4. state \in ControlStates /\ state.ending /\ state.pane # 0
  BY <1>3 DEF ControlStates
<1>5. Submit(Save(t, state), At("ending", t, recorded[t], state))
  BY DEF BeginEnd
<1> HIDE DEF state
<1>6. CASE op' = Idle
  BY <1>1, <1>6 DEF SignalInv, Idle, EndingSteps
<1>7. CASE /\ late' = <<>> /\ Acceptable(Save(t, state)) /\ Execute(Save(t, state))
           /\ op' = At("ending", t, recorded[t], state)
  <2>1. WellFormed(state) /\ controls' = [controls EXCEPT ![t] = state]
    BY <1>7 DEF Acceptable, Execute, Save
  <2>2. state.invocation # 0
    BY <1>4, <2>1 DEF WellFormed
  <2>3. controls'[t] = state
    BY <2>1 DEF SignalInv, TypeInv
  <2>4. op'.task = t /\ op'.state = state
    BY <1>7 DEF At
  <2> QED BY <1>1, <1>4, <1>7, <2>2, <2>3, <2>4 DEF SignalInv
<1> QED BY <1>5, <1>6, <1>7, SubmitAlternatives

LEMMA SignalStep == SignalInv /\ [Next]_launchVars => SignalInv'
<1> SUFFICES ASSUME SignalInv, [Next]_launchVars PROVE SignalInv'
  OBVIOUS
<1>1. TypeInv'
  BY TypeStep DEF SignalInv
<1>2. ASSUME op' = Idle PROVE SignalInv'
  BY <1>1, <1>2 DEF SignalInv, Idle, EndingSteps
<1>3. ASSUME NEW r, NEW next, next.at \notin EndingSteps, Submit(r, next) PROVE SignalInv'
  BY <1>1, <1>3, SubmitQuiet DEF SignalInv
<1>4. ASSUME UNCHANGED <<controls, late, op>> PROVE SignalInv'
  BY <1>1, <1>4 DEF SignalInv
<1>5. CASE Begin
  <2>1. ASSUME NEW t \in Tasks, NEW shared \in BOOLEAN, LaunchNew(t, shared) PROVE SignalInv'
    <3>1. Submit(Reserve(t, shared), At("retry", t, 0, FreshControl))
      BY <2>1 DEF LaunchNew
    <3>2. At("retry", t, 0, FreshControl).at \notin EndingSteps
      BY DEF At, EndingSteps
    <3> QED BY <1>3, <3>1, <3>2
  <2>2. ASSUME NEW t \in Tasks, LaunchAgain(t) PROVE SignalInv'
    BY <1>1, <2>2 DEF LaunchAgain, InOrder, SignalInv, EndingSteps, At, database
  <2>3. ASSUME NEW t \in Tasks, BeginAttach(t) PROVE SignalInv'
    <3>1. PICK state : Submit(Save(t, state), At("attach", t, recorded[t], state))
      BY <2>3 DEF BeginAttach
    <3>2. At("attach", t, recorded[t], state).at \notin EndingSteps
      BY DEF At, EndingSteps
    <3> QED BY <1>3, <3>1, <3>2
  <2> QED BY <1>5, <2>1, <2>2, <2>3, EndIntent DEF Begin
<1>6. CASE Step
  <2>1. CASE \/ CreateHandoff \/ StartUnit \/ StartPane \/ StartTerminal
             \/ AlreadyEnded \/ TerminatePane \/ TerminateServer \/ ServerExited
    <3>1. op # Idle
      BY <2>1 DEF CreateHandoff, StartUnit, StartPane, StartTerminal, AlreadyEnded,
        TerminatePane, TerminateServer, ServerExited, Idle
    <3>2. op \in Operations
      BY <3>1, IdleOrOperation DEF SignalInv
    <3>3. UNCHANGED <<controls, late>>
      BY <2>1 DEF CreateHandoff, StartUnit, StartPane, StartTerminal, AlreadyEnded,
        TerminatePane, TerminateServer, ServerExited, database
    <3>4. CASE CreateHandoff \/ StartUnit \/ StartPane \/ StartTerminal
      <4>1. op' = Idle \/ \E s \in Steps \ EndingSteps : op' = [op EXCEPT !.at = s]
        BY <3>4 DEF CreateHandoff, StartUnit, StartPane, StartTerminal, Steps, EndingSteps
      <4> QED BY <1>1, <1>2, <3>1, <3>2, <3>3, <4>1, MoveOn DEF Operations
    <3>5. CASE AlreadyEnded \/ TerminatePane \/ TerminateServer \/ ServerExited
      <4>1. /\ op.at \in EndingSteps
            /\ \E s \in EndingSteps, n \in {op.server, server[op.task]} :
                 \/ op' = [op EXCEPT !.at = s]
                 \/ op' = [op EXCEPT !.at = s, !.server = n]
        BY <3>5 DEF AlreadyEnded, TerminatePane, TerminateServer, ServerExited, EndingSteps
      <4> QED BY <1>1, <3>1, <3>2, <3>3, <4>1, MoveOn DEF Operations
    <3> QED BY <2>1, <3>4, <3>5
  <2>3. CASE IdentifyServer
    <3>1. PICK r, state : Submit(r, At("identified", op.task, server[op.task], state))
      BY <2>3 DEF IdentifyServer
    <3>2. At("identified", op.task, server[op.task], state).at \notin EndingSteps
      BY DEF At, EndingSteps
    <3> QED BY <1>3, <3>1, <3>2
  <2>4. CASE SaveInvocation
    BY <1>3, <2>4 DEF SaveInvocation, SignalInv, TypeInv, Operations, EndingSteps, Idle
  <2>5. CASE SaveTerminal
    <3>1. PICK r, state : Submit(r, [op EXCEPT !.at = "associate", !.state = state])
      BY <2>5 DEF SaveTerminal
    <3>2. op # Idle
      BY <2>5 DEF SaveTerminal, Idle
    <3>3. [op EXCEPT !.at = "associate", !.state = state].at \notin EndingSteps
      BY <3>2 DEF SignalInv, TypeInv, Operations, EndingSteps
    <3> QED BY <1>3, <3>1, <3>3
  <2>6. CASE FinishLaunch \/ SaveStopped \/ SaveWindow
    <3>1. PICK r : Submit(r, Idle)
      BY <2>6 DEF FinishLaunch, SaveStopped, SaveWindow
    <3>2. Idle.at \notin EndingSteps
      BY DEF Idle, EndingSteps
    <3> QED BY <1>3, <3>1, <3>2
  <2> QED BY <1>6, <2>1, <2>3, <2>4, <2>5, <2>6 DEF Step
<1>7. CASE Environment
  BY <1>4, <1>7 DEF Environment, ServeStart, ServeSession, ServerExits, Claim, PaneExits,
    ServeTerminal, TerminalCloses, database
<1>8. CASE Abandon \/ Crash
  BY <1>2, <1>8 DEF Abandon, Crash
<1>9. CASE ExecuteLate
  <2>1. op = Idle /\ op' = op
    BY <1>9 DEF ExecuteLate, SignalInv
  <2> QED BY <1>2, <2>1
<1>10. CASE Backup \/ Restore
  BY <1>2, <1>10 DEF Backup, Restore
<1>11. CASE UNCHANGED launchVars
  BY <1>4, <1>11 DEF launchVars, database
<1> QED BY <1>5, <1>6, <1>7, <1>8, <1>9, <1>10, <1>11 DEF Next

LEMMA SignalInit == Init => SignalInv
  BY TypeInit DEF Init, SignalInv, Idle, EndingSteps

\* SignalsIntended: what `manager/controls.rs` signals is the pane and the server
\* on record, of a run whose end is recorded as intended.
THEOREM SignalsAreIntended == Spec => SignalsIntended
<1> DEFINE Signals == op'.at # op.at =>
             /\ op'.at = "paneSignalled" =>
                  controls[op'.task].ending /\ controls[op'.task].pane = op'.server
             /\ op'.at = "serverSignalled" =>
                  controls[op'.task].ending /\ controls[op'.task].invocation = op'.server
<1>1. SignalInv /\ [Next]_launchVars => [Signals]_launchVars
  <2> SUFFICES ASSUME SignalInv, [Next]_launchVars, op'.at # op.at,
                      op'.at \in {"paneSignalled", "serverSignalled"}
               PROVE  Signals
    OBVIOUS
  <2>1. TerminatePane \/ TerminateServer
    <3>1. Begin \/ Step
      BY DEF Next, Environment, ServeStart, ServeSession, ServerExits, Claim, PaneExits,
        ServeTerminal, TerminalCloses, Abandon, Crash, ExecuteLate, Backup, Restore, Idle,
        launchVars
    <3>2. ASSUME NEW r, NEW next, Submit(r, next) PROVE op'.at = next.at \/ op' = Idle
      BY <3>2, SubmitAlternatives
    <3>3. Idle.at = "idle"
      BY DEF Idle
    <3>4. CASE Begin
      BY <3>2, <3>3, <3>4 DEF Begin, LaunchNew, LaunchAgain, BeginEnd, BeginAttach, At
    <3>5. CASE Step
      <4>1. op \in Operations
        BY <3>5, StepBusy, IdleOrOperation DEF SignalInv
      <4>2. CASE \/ CreateHandoff \/ StartUnit \/ StartPane \/ StartTerminal
                 \/ AlreadyEnded \/ ServerExited
        <5>1. \/ op' = Idle
              \/ \E s \in Steps \ {"paneSignalled", "serverSignalled"} :
                   op' = [op EXCEPT !.at = s]
          BY <4>2 DEF CreateHandoff, StartUnit, StartPane, StartTerminal, AlreadyEnded,
            ServerExited, Steps
        <5> QED BY <3>3, <4>1, <5>1 DEF Operations
      <4>3. CASE \/ IdentifyServer \/ SaveInvocation \/ SaveTerminal
                 \/ FinishLaunch \/ SaveStopped \/ SaveWindow
        <5>1. \E r, next : Submit(r, next) /\ next.at \in {"identified", "pane", "associate", "idle"}
          <6>1. CASE IdentifyServer
            BY <6>1 DEF IdentifyServer, At
          <6>2. CASE SaveInvocation
            BY <4>1, <6>2 DEF SaveInvocation, Operations
          <6>3. CASE SaveTerminal
            <7>1. PICK r, state : Submit(r, [op EXCEPT !.at = "associate", !.state = state])
              BY <6>3 DEF SaveTerminal
            <7>2. [op EXCEPT !.at = "associate", !.state = state].at = "associate"
              BY <4>1 DEF Operations
            <7> QED BY <7>1, <7>2
          <6>4. CASE FinishLaunch \/ SaveStopped \/ SaveWindow
            BY <3>3, <6>4 DEF FinishLaunch, SaveStopped, SaveWindow
          <6> QED BY <4>3, <6>1, <6>2, <6>3, <6>4
        <5> QED BY <3>2, <3>3, <5>1
      <4> QED BY <3>5, <4>2, <4>3 DEF Step
    <3> QED BY <3>1, <3>4, <3>5
  <2>2. op.at \in EndingSteps /\ op # Idle /\ op \in Operations
    <3>1. op.at \in EndingSteps
      BY <2>1 DEF TerminatePane, TerminateServer, EndingSteps
    <3>2. op # Idle
      BY <3>1 DEF Idle, EndingSteps
    <3> QED BY <3>1, <3>2, IdleOrOperation DEF SignalInv
  <2>3. /\ controls[op.task] = op.state /\ op.state.ending
        /\ op.state.pane # 0 /\ op.state.invocation # 0
        /\ controls' = controls
    BY <2>1, <2>2 DEF SignalInv, TerminatePane, TerminateServer, database
  <2>4. CASE TerminatePane
    <3>1. /\ op' = [op EXCEPT !.at = "paneSignalled", !.server = server[op.task]]
          /\ op.state.pane \in {0, server[op.task]}
      BY <2>4 DEF TerminatePane, OwnedPane
    <3> QED BY <2>2, <2>3, <3>1 DEF Operations
  <2>5. CASE TerminateServer
    <3>1. /\ op' = [op EXCEPT !.at = "serverSignalled", !.server = server[op.task]]
          /\ op.state.invocation \in {0, server[op.task]}
      BY <2>5 DEF TerminateServer, OwnedServer
    <3> QED BY <2>2, <2>3, <3>1 DEF Operations
  <2> QED BY <2>1, <2>4, <2>5
<1> QED BY <1>1, SignalInit, SignalStep, PTL DEF Spec, SignalsIntended

-----------------------------------------------------------------------------
(* Runs that may write one project *)

\* A reservation is decided when it is queued and may be executed much later:
\* nothing else is executed in between, so what it was decided on still holds.
\* A backup holds the runs there are: those it brings back to life are paired
\* with an acknowledgement whether they are stopped now or not.
Paired(t, u) == t \in acknowledged \/ u \in acknowledged

WritersInv ==
  /\ SignalInv
  /\ late # <<>> => late = <<late[1]>>
  /\ late # <<>> /\ late[1].kind = "reserve" /\ ~late[1].shared
       => ~OtherWriters(late[1].task)
  /\ WritersAcknowledged
  /\ backedUp => \A t, u \in runs : t # u => Paired(t, u)

RequestKinds == {"reserve", "identify", "save"}

\* A reservation adds one run, paired with every other that may write.
LEMMA ExecutePairs ==
  ASSUME WritersInv, NEW r, r.kind \in RequestKinds, Execute(r),
         r.kind = "reserve" /\ ~r.shared => ~OtherWriters(r.task)
  PROVE  /\ WritersAcknowledged'
         /\ backedUp' => backedUp /\ \A t, u \in runs' : t # u => Paired(t, u)'
<1>1. controls \in [Tasks -> ControlStates] /\ runs \subseteq Tasks
  BY DEF WritersInv, SignalInv, TypeInv
<1>2. \A t, u \in runs :
        t # u /\ ~controls[t].stopped /\ ~controls[u].stopped => Paired(t, u)
  BY DEF WritersInv, WritersAcknowledged, Paired
<1>3. backedUp => \A t, u \in runs : t # u => Paired(t, u)
  BY DEF WritersInv
<1>4. CASE r.kind = "reserve"
  <2>1. CASE UNCHANGED <<runs, recorded, controls, acknowledged, backedUp>>
    BY <1>2, <1>3, <2>1 DEF WritersAcknowledged, Paired
  <2>2. CASE /\ runs' = runs \cup {r.task} /\ controls' = [controls EXCEPT ![r.task] = FreshControl]
             /\ acknowledged' = IF r.shared THEN acknowledged \cup {r.task} ELSE acknowledged
             /\ backedUp' = FALSE /\ r.task \notin runs
    <3>1. ASSUME NEW t \in runs', NEW u \in runs', t # u,
                 ~controls'[t].stopped, ~controls'[u].stopped
          PROVE  t \in acknowledged' \/ u \in acknowledged'
      <4>1. CASE t \in runs /\ u \in runs
        <5>1. controls'[t] = controls[t] /\ controls'[u] = controls[u]
          BY <1>1, <2>2, <4>1
        <5> QED BY <1>2, <2>2, <3>1, <4>1, <5>1 DEF Paired
      <4>2. CASE r.shared
        BY <2>2, <3>1, <4>1, <4>2
      <4>3. CASE ~r.shared /\ (t = r.task \/ u = r.task)
        <5>1. \A v \in runs \ {r.task} : controls[v].stopped /\ controls'[v] = controls[v]
          BY <1>1, <1>4, <2>2, <4>3 DEF OtherWriters
        <5> QED BY <2>2, <3>1, <4>3, <5>1
      <4> QED BY <2>2, <3>1, <4>1, <4>2, <4>3
    <3> QED BY <2>2, <3>1 DEF WritersAcknowledged
  <2> QED BY <1>4, <2>1, <2>2 DEF Execute
<1>5. CASE r.kind = "identify"
  BY <1>2, <1>3, <1>5 DEF Execute, WritersAcknowledged, Paired
<1>6. CASE r.kind = "save"
  <2>1. /\ UNCHANGED <<runs, acknowledged, backedUp>>
        /\ \A t \in runs : controls[t].stopped => controls'[t].stopped
    BY <1>1, <1>6 DEF Execute, Acceptable, SaveAccepted
  <2> QED BY <1>2, <1>3, <2>1 DEF WritersAcknowledged, Paired
<1> QED BY <1>4, <1>5, <1>6 DEF RequestKinds

LEMMA SubmitPairs ==
  ASSUME WritersInv, late = <<>>, SignalInv', NEW r, r.kind \in RequestKinds,
         NEW next, Submit(r, next),
         r.kind = "reserve" /\ ~r.shared => ~OtherWriters(r.task)
  PROVE  WritersInv'
<1>1. CASE Execute(r) /\ UNCHANGED late
  BY <1>1, ExecutePairs DEF WritersInv
<1>2. CASE /\ late' = Append(late, r)
           /\ UNCHANGED <<runs, recorded, controls, acknowledged, backedUp>>
  <2>1. late' = <<r>>
    BY <1>2
  <2>2. late'[1] = r /\ late' = <<late'[1]>>
    BY <2>1
  <2>3. OtherWriters(r.task)' <=> OtherWriters(r.task)
    BY <1>2 DEF OtherWriters
  <2> QED BY <1>2, <2>2, <2>3 DEF WritersInv, WritersAcknowledged, Paired, OtherWriters
<1> QED BY <1>1, <1>2 DEF Submit

LEMMA WritersStep == WritersInv /\ [Next]_launchVars => WritersInv'
<1> SUFFICES ASSUME WritersInv, [Next]_launchVars PROVE WritersInv'
  OBVIOUS
<1>1. SignalInv' /\ TypeInv
  BY SignalStep DEF WritersInv, SignalInv
<1>2. ASSUME late = <<>>, NEW r, r.kind \in {"identify", "save"}, NEW next, Submit(r, next)
      PROVE  WritersInv'
  BY <1>1, <1>2, SubmitPairs DEF RequestKinds
<1>3. ASSUME UNCHANGED <<runs, controls, late, acknowledged, backedUp>> PROVE WritersInv'
  BY <1>1, <1>3 DEF WritersInv, WritersAcknowledged, Paired, OtherWriters
<1>4. CASE Begin
  <2>1. ASSUME NEW t \in Tasks, NEW shared \in BOOLEAN, LaunchNew(t, shared) PROVE WritersInv'
    <3>1. /\ late = <<>> /\ (~shared => ~OtherWriters(t))
          /\ Submit(Reserve(t, shared), At("retry", t, 0, FreshControl))
      BY <2>1 DEF LaunchNew, InOrder
    <3>2. /\ Reserve(t, shared).kind = "reserve" /\ Reserve(t, shared).task = t
          /\ Reserve(t, shared).shared = shared
      BY DEF Reserve
    <3> QED BY <1>1, <3>1, <3>2, SubmitPairs DEF RequestKinds
  <2>2. ASSUME NEW t \in Tasks, LaunchAgain(t) PROVE WritersInv'
    BY <1>3, <2>2 DEF LaunchAgain, database, history
  <2>3. ASSUME NEW t \in Tasks, BeginEnd(t) \/ BeginAttach(t) PROVE WritersInv'
    <3>1. late = <<>> /\ \E state, next : Submit(Save(t, state), next)
      BY <2>3 DEF BeginEnd, BeginAttach, InOrder
    <3>2. \A state : Save(t, state).kind = "save"
      BY DEF Save
    <3> QED BY <1>2, <3>1, <3>2
  <2> QED BY <1>4, <2>1, <2>2, <2>3 DEF Begin
<1>5. CASE Step
  <2>1. late = <<>>
    BY <1>5, StepBusy DEF WritersInv, SignalInv
  <2>2. CASE \/ CreateHandoff \/ StartUnit \/ StartPane \/ StartTerminal
             \/ AlreadyEnded \/ TerminatePane \/ TerminateServer \/ ServerExited
    BY <1>3, <2>2 DEF CreateHandoff, StartUnit, StartPane, StartTerminal, AlreadyEnded,
      TerminatePane, TerminateServer, ServerExited, database, history
  <2>3. CASE \/ IdentifyServer \/ SaveInvocation \/ SaveTerminal
             \/ FinishLaunch \/ SaveStopped \/ SaveWindow
    <3>1. \/ \E next : Submit(Identify(op.task, server[op.task]), next)
          \/ \E state, next : Submit(Save(op.task, state), next)
      BY <2>3 DEF IdentifyServer, SaveInvocation, SaveTerminal, FinishLaunch, SaveStopped,
        SaveWindow
    <3>2. /\ Identify(op.task, server[op.task]).kind = "identify"
          /\ \A state : Save(op.task, state).kind = "save"
      BY DEF Identify, Save
    <3> QED BY <1>2, <2>1, <3>1, <3>2
  <2> QED BY <1>5, <2>2, <2>3 DEF Step
<1>6. CASE Environment
  BY <1>3, <1>6 DEF Environment, ServeStart, ServeSession, ServerExits, Claim, PaneExits,
    ServeTerminal, TerminalCloses, database, history
<1>7. CASE Abandon
  BY <1>3, <1>7 DEF Abandon, database, history
<1>8. CASE ExecuteLate
  <2>1. late # <<>> /\ late = <<late[1]>> /\ late' = Tail(late) /\ Execute(Head(late))
    BY <1>8 DEF ExecuteLate, WritersInv
  <2>2. Head(late) = late[1] /\ late' = <<>>
    BY <2>1
  <2>3. late[1].kind \in RequestKinds
    <3>1. late[1] \in StoreRequests
      BY <1>1, <2>1, <2>2 DEF TypeInv
    <3> QED BY <3>1 DEF StoreRequests, RequestKinds
  <2>4. late[1].kind = "reserve" /\ ~late[1].shared => ~OtherWriters(late[1].task)
    BY <2>1 DEF WritersInv
  <2>5. /\ WritersAcknowledged'
        /\ backedUp' => backedUp /\ \A t, u \in runs' : t # u => Paired(t, u)'
    BY <2>1, <2>2, <2>3, <2>4, ExecutePairs
  <2> QED BY <1>1, <2>2, <2>5 DEF WritersInv
<1>9. CASE Crash
  <2>1. late' = <<>> /\ UNCHANGED <<runs, controls, acknowledged, backedUp>>
    BY <1>9 DEF Crash
  <2> QED BY <1>1, <2>1 DEF WritersInv, WritersAcknowledged, Paired
<1>10. CASE Backup
  <2>1. /\ late' = late /\ late = <<>> /\ UNCHANGED <<runs, controls, acknowledged>>
        /\ \A t \in runs : ~controls[t].stopped
    BY <1>10 DEF Backup, database, FreshControl
  <2> QED BY <1>1, <2>1 DEF WritersInv, WritersAcknowledged, Paired
<1>11. CASE Restore
  <2>1. /\ late' = late /\ late = <<>> /\ backedUp
        /\ UNCHANGED <<runs, acknowledged, backedUp>>
    BY <1>11 DEF Restore
  <2> QED BY <1>1, <2>1 DEF WritersInv, WritersAcknowledged, Paired
<1>12. CASE UNCHANGED launchVars
  BY <1>3, <1>12 DEF launchVars, database, history
<1> QED BY <1>4, <1>5, <1>6, <1>7, <1>8, <1>9, <1>10, <1>11, <1>12 DEF Next

\* WritersAcknowledged: of two runs of one project that are not stopped,
\* `manager/launch.rs` was told of the sharing when it launched one of them,
\* whatever request is executed late and whatever backup is restored.
THEOREM WritersAreAcknowledged == Spec => []WritersAcknowledged
<1>1. Init => WritersInv
  BY SignalInit DEF Init, WritersInv, WritersAcknowledged
<1>2. WritersInv => WritersAcknowledged
  BY DEF WritersInv
<1> QED BY <1>1, <1>2, WritersStep, PTL DEF Spec

-----------------------------------------------------------------------------
(* The processes of one run *)

ProcessTypes ==
  /\ panes \in [Tasks -> [Servers -> Phases]]
  /\ asked \in [Tasks -> SUBSET Servers]
  /\ jobs \in [Tasks -> Nat]
  /\ server \in [Tasks -> 0..MaxServers]
  /\ servers \in 0..MaxServers
  /\ handoff \in [Tasks -> {"none", "partial", "ready", "claimed"}]

Harness(t, n) == panes[t][n] = "harness"

\* A worker lives with its server, and a harness of another server is one that
\* has claimed the handoff before this server was asked for a pane.
PanesConsistent(t) ==
  /\ asked[t] \subseteq {server[t]} \ {0}
  /\ \A n \in Servers :
       /\ panes[t][n] = "worker" => n = server[t]
       /\ Harness(t, n) => handoff[t] = "claimed"
       /\ n \in asked[t] \/ Live(panes[t][n]) => \A m \in Servers \ {n} : ~Harness(t, m)

NothingLeft(t) ==
  server[t] = 0 /\ jobs[t] = 0 /\ \A n \in Servers : ~Live(panes[t][n])

\* Whatever lives, or will, is in the pane of server `n`.
OnlyPane(t, n) ==
  /\ asked[t] \subseteq {n}
  /\ \A m \in Servers \ {n} : ~Live(panes[t][m])

\* Once its process is on record, a terminal is not opened again.
Tracks(t, terminal) ==
  /\ terminal = NoTerminal => terminals[t] = {} /\ opening[t] = <<>>
  /\ \A x \in terminals[t] :
       /\ x.nonce = terminal.nonce
       /\ \A y \in terminals[t] : x = y
  /\ \A i \in DOMAIN opening[t] : opening[t][i] = terminal.nonce
  /\ terminal.process # 0 =>
       opening[t] = <<>> /\ \A x \in terminals[t] : x.process = terminal.process

\* What may be on record of a run, given what there is.
Fits(t, state) ==
  /\ state.stopped => NothingLeft(t)
  /\ state.pane # 0 => state.invocation = state.pane /\ OnlyPane(t, state.pane)
  /\ ~restored => Tracks(t, state.terminal)

\* A server whose pane is dead, and that nothing will follow.
Dying(t, n) ==
  /\ server[t] \in {0, n} /\ jobs[t] = 0
  /\ ~Live(panes[t][n])
  /\ server[t] = n => panes[t][n] = "dead"

\* The thread's copy of the row is behind by an invocation at most.
Current(o) ==
  /\ o.task \in runs
  /\ ~controls[o.task].stopped
  /\ o.state = [controls[o.task] EXCEPT !.invocation = o.state.invocation]
  /\ controls[o.task].invocation \in {0, o.state.invocation}
  /\ o.at \in {"attach", "opening"} => o.state.terminal # NoTerminal
  /\ o.at = "serverSignalled" =>
       o.server \in Servers /\ o.server = o.state.pane /\ Dying(o.task, o.server)
  /\ o.at = "ended" => NothingLeft(o.task)

EndInv ==
  /\ WritersInv
  /\ ProcessTypes
  /\ \A t \in Tasks : PanesConsistent(t) /\ Fits(t, controls[t])
  /\ \A t \in Tasks \ runs : controls[t] = FreshControl
  /\ late # <<>> /\ late[1].kind = "save" =>
       late[1].task \in runs /\ Fits(late[1].task, late[1].state)
  /\ op # Idle => Current(op)

-----------------------------------------------------------------------------
(* Steps of systemd, tmux and the processes *)

\* All that a step may do to a run whatever is on record of it.
Stable(t) ==
  /\ PanesConsistent(t)'
  /\ NothingLeft(t) => NothingLeft(t)'
  /\ \A n \in Nat : n # 0 /\ OnlyPane(t, n) => OnlyPane(t, n)'
  /\ \A n \in Servers : Dying(t, n) => Dying(t, n)'
  /\ \A terminal : ~restored /\ Tracks(t, terminal) => Tracks(t, terminal)'

LEMMA Untouched ==
  ASSUME NEW t \in Tasks, PanesConsistent(t),
         UNCHANGED <<server[t], panes[t], asked[t], jobs[t], handoff[t], terminals[t], opening[t]>>
  PROVE  Stable(t)
  BY DEF Stable, PanesConsistent, NothingLeft, OnlyPane, Dying, Tracks, Harness

\* A step that leaves the terminals alone is about the processes only.
LEMMA TerminalsUntouched ==
  ASSUME NEW t \in Tasks, UNCHANGED <<terminals[t], opening[t]>>
  PROVE  \A terminal : Tracks(t, terminal) => Tracks(t, terminal)'
  BY DEF Tracks

LEMMA ServeStartStable ==
  ASSUME ProcessTypes, NEW t \in Tasks, PanesConsistent(t), ServeStart(t)
  PROVE  /\ ProcessTypes'
         /\ \A u \in Tasks \ {t} : PanesConsistent(u) => Stable(u)
         /\ Stable(t)
<1>1. /\ jobs[t] > 0 /\ jobs' = [jobs EXCEPT ![t] = @ - 1]
      /\ UNCHANGED <<handoff, panes, asked, opening, terminals>>
      /\ \/ server[t] = 0 /\ servers < MaxServers /\ servers' = servers + 1
            /\ server' = [server EXCEPT ![t] = servers + 1]
         \/ UNCHANGED <<server, servers>>
  BY DEF ServeStart, desktop
<1>2. ProcessTypes'
  <2>1. jobs' \in [Tasks -> Nat]
    BY <1>1 DEF ProcessTypes
  <2>2. /\ servers' \in 0..MaxServers
        /\ servers + 1 \in 0..MaxServers \/ UNCHANGED server
    BY <1>1, LaunchAssumption DEF ProcessTypes
  <2>3. server' \in [Tasks -> 0..MaxServers]
    BY <1>1, <2>2 DEF ProcessTypes
  <2> QED BY <1>1, <2>1, <2>2, <2>3 DEF ProcessTypes
<1>3. ASSUME NEW u \in Tasks \ {t}, PanesConsistent(u) PROVE Stable(u)
  <2>1. server'[u] = server[u] /\ jobs'[u] = jobs[u]
    BY <1>1 DEF ProcessTypes
  <2> QED BY <1>1, <1>3, <2>1, Untouched
<1>4. Stable(t)
  <2>1. server[t] = 0 => asked[t] = {}
    BY DEF PanesConsistent
  <2>2. /\ server'[t] = server[t] \/ (server[t] = 0 /\ server'[t] \in Nat)
        /\ UNCHANGED <<panes[t], asked[t], handoff[t]>>
    BY <1>1 DEF ProcessTypes
  <2>3. PanesConsistent(t)'
    BY <2>1, <2>2, LaunchAssumption DEF PanesConsistent, Harness, Servers
  <2>4. ~NothingLeft(t) /\ \A n \in Servers : ~Dying(t, n)
    BY <1>1 DEF NothingLeft, Dying, ProcessTypes
  <2>5. \A n : OnlyPane(t, n) => OnlyPane(t, n)'
    BY <2>2 DEF OnlyPane
  <2> QED BY <1>1, <2>3, <2>4, <2>5, TerminalsUntouched DEF Stable
<1> QED BY <1>2, <1>3, <1>4

LEMMA ServeSessionStable ==
  ASSUME ProcessTypes, NEW t \in Tasks, PanesConsistent(t), ServeSession(t)
  PROVE  /\ ProcessTypes'
         /\ \A u \in Tasks \ {t} : PanesConsistent(u) => Stable(u)
         /\ Stable(t)
<1> DEFINE n == server[t]
<1>1. /\ n # 0 /\ n \in asked[t] /\ n \in Servers
      /\ asked' = [asked EXCEPT ![t] = @ \ {n}]
      /\ \/ panes' = panes
         \/ panes[t][n] = "none" /\ panes' = [panes EXCEPT ![t][n] = "worker"]
      /\ UNCHANGED <<handoff, server, servers, jobs, opening, terminals>>
  BY DEF ServeSession, desktop, ProcessTypes, SeesPane
<1>2. ProcessTypes'
  <2>1. asked' \in [Tasks -> SUBSET Servers]
    BY <1>1 DEF ProcessTypes
  <2>2. panes' \in [Tasks -> [Servers -> Phases]]
    BY <1>1 DEF ProcessTypes, Phases
  <2> QED BY <1>1, <2>1, <2>2 DEF ProcessTypes
<1>3. ASSUME NEW u \in Tasks \ {t}, PanesConsistent(u) PROVE Stable(u)
  <2>1. panes'[u] = panes[u] /\ asked'[u] = asked[u]
    BY <1>1 DEF ProcessTypes
  <2> QED BY <1>1, <1>3, <2>1, Untouched
<1>4. Stable(t)
  <2>1. /\ asked'[t] = asked[t] \ {n}
        /\ \A m \in Servers : \/ panes'[t][m] = panes[t][m]
                              \/ m = n /\ panes'[t][m] = "worker"
        /\ panes[t][n] # "none" => panes'[t] = panes[t]
    BY <1>1 DEF ProcessTypes
  <2>2. PanesConsistent(t)'
    BY <1>1, <2>1 DEF PanesConsistent, Harness, Live
  <2>3. ~NothingLeft(t)
    BY <1>1 DEF NothingLeft
  <2>4. \A m \in Servers : Dying(t, m) => Dying(t, m)'
    BY <1>1, <2>1 DEF Dying
  <2>5. \A m : OnlyPane(t, m) => OnlyPane(t, m)'
    BY <1>1, <2>1 DEF OnlyPane, Live
  <2> QED BY <1>1, <2>2, <2>3, <2>4, <2>5, TerminalsUntouched DEF Stable
<1> QED BY <1>2, <1>3, <1>4

LEMMA ServerExitsStable ==
  ASSUME ProcessTypes, NEW t \in Tasks, PanesConsistent(t), ServerExits(t)
  PROVE  /\ ProcessTypes'
         /\ \A u \in Tasks \ {t} : PanesConsistent(u) => Stable(u)
         /\ Stable(t)
<1> DEFINE n == server[t]
<1>1. PICK phase \in {"none", panes[t][n]} :
        /\ phase \in {"none", "harness"}
        /\ panes' = [panes EXCEPT ![t][n] = phase]
        /\ asked' = [asked EXCEPT ![t] = @ \ {n}]
  BY DEF ServerExits
<1>2. /\ n # 0 /\ n \in Servers /\ server' = [server EXCEPT ![t] = 0]
      /\ UNCHANGED <<handoff, servers, jobs, opening, terminals>>
  BY LaunchAssumption DEF ServerExits, desktop, ProcessTypes, Servers
<1>3. ProcessTypes'
  BY <1>1, <1>2, LaunchAssumption DEF ProcessTypes, Phases
<1>4. ASSUME NEW u \in Tasks \ {t}, PanesConsistent(u) PROVE Stable(u)
  <2>1. panes'[u] = panes[u] /\ asked'[u] = asked[u] /\ server'[u] = server[u]
    BY <1>1, <1>2 DEF ProcessTypes
  <2> QED BY <1>2, <1>4, <2>1, Untouched
<1>5. Stable(t)
  <2>1. /\ asked'[t] = asked[t] \ {n} /\ server'[t] = 0
        /\ \A m \in Servers : m # n => panes'[t][m] = panes[t][m]
        /\ panes'[t][n] = "none" \/ (panes'[t][n] = panes[t][n] /\ Harness(t, n))
    BY <1>1, <1>2 DEF ProcessTypes, Harness
  <2>2. asked'[t] = {}
    BY <2>1 DEF PanesConsistent
  <2>3. PanesConsistent(t)'
    BY <1>2, <2>1, <2>2 DEF PanesConsistent, Harness, Live
  <2>4. ~NothingLeft(t)
    BY <1>2 DEF NothingLeft
  <2>5. \A m \in Servers : Dying(t, m) => Dying(t, m)'
    BY <1>2, <2>1, LaunchAssumption DEF Dying, Live, Harness, Servers
  <2>6. \A m : OnlyPane(t, m) => OnlyPane(t, m)'
    BY <2>1, <2>2 DEF OnlyPane, Live
  <2> QED BY <1>2, <2>3, <2>4, <2>5, <2>6, TerminalsUntouched DEF Stable
<1> QED BY <1>3, <1>4, <1>5

LEMMA PaneStable ==
  ASSUME ProcessTypes, NEW t \in Tasks, PanesConsistent(t), NEW n \in Servers,
         Claim(t, n) \/ PaneExits(t, n)
  PROVE  /\ ProcessTypes'
         /\ \A u \in Tasks \ {t} : PanesConsistent(u) => Stable(u)
         /\ Stable(t)
<1>1. /\ Live(panes[t][n])
      /\ UNCHANGED <<server, servers, jobs, asked, opening, terminals>>
      /\ \E phase \in {"none", "dead", "harness"} :
           /\ panes' = [panes EXCEPT ![t][n] = phase]
           /\ phase = "harness" => panes[t][n] = "worker" /\ handoff' = [handoff EXCEPT ![t] = "claimed"]
      /\ handoff' = handoff \/ handoff' = [handoff EXCEPT ![t] = "claimed"]
  BY DEF Claim, PaneExits, requests, desktop, Live
<1>2. PICK phase \in {"none", "dead", "harness"} :
        /\ panes' = [panes EXCEPT ![t][n] = phase]
        /\ phase = "harness" => panes[t][n] = "worker" /\ handoff' = [handoff EXCEPT ![t] = "claimed"]
  BY <1>1
<1>3. ProcessTypes'
  BY <1>1, <1>2 DEF ProcessTypes, Phases
<1>4. ASSUME NEW u \in Tasks \ {t}, PanesConsistent(u) PROVE Stable(u)
  <2>1. panes'[u] = panes[u] /\ handoff'[u] = handoff[u]
    BY <1>1, <1>2 DEF ProcessTypes
  <2> QED BY <1>1, <1>4, <2>1, Untouched
<1>5. Stable(t)
  <2>1. /\ \A m \in Servers : m # n => panes'[t][m] = panes[t][m]
        /\ panes'[t][n] = phase
        /\ handoff'[t] \in {handoff[t], "claimed"}
        /\ phase = "harness" => panes[t][n] = "worker" /\ handoff'[t] = "claimed"
    BY <1>1, <1>2 DEF ProcessTypes
  <2>2. PanesConsistent(t)'
    BY <1>1, <2>1 DEF PanesConsistent, Harness, Live
  <2>3. ~NothingLeft(t)
    BY <1>1 DEF NothingLeft
  <2>4. \A m \in Servers : Dying(t, m) => Dying(t, m)'
    BY <1>1, <2>1 DEF Dying, Live
  <2>5. \A m : OnlyPane(t, m) => OnlyPane(t, m)'
    BY <1>1, <2>1 DEF OnlyPane, Live
  <2> QED BY <1>1, <2>2, <2>3, <2>4, <2>5, TerminalsUntouched DEF Stable
<1> QED BY <1>3, <1>4, <1>5

TerminalTypes ==
  /\ terminals \in [Tasks -> SUBSET [nonce : Nat, process : Nat]]
  /\ opening \in [Tasks -> Seq(Nat)]

LEMMA QueueFacts ==
  ASSUME NEW queue \in Seq(Nat), queue # <<>>
  PROVE  /\ 1 \in DOMAIN queue /\ Head(queue) = queue[1]
         /\ \A i \in DOMAIN Tail(queue) : i + 1 \in DOMAIN queue /\ Tail(queue)[i] = queue[i + 1]
  OBVIOUS

\* While one waits to be opened, none that is open has another nonce.
LEMMA TerminalStable ==
  ASSUME TerminalTypes, NEW t \in Tasks, PanesConsistent(t), ServeTerminal(t) \/ TerminalCloses(t)
  PROVE  \A u \in Tasks : PanesConsistent(u) => Stable(u)
<1>1. UNCHANGED <<server, panes, asked, jobs, handoff>>
  BY DEF ServeTerminal, TerminalCloses, processes, requests
<1>2. ASSUME NEW u \in Tasks \ {t}, PanesConsistent(u) PROVE Stable(u)
  <2>1. UNCHANGED <<terminals[u], opening[u]>>
    BY DEF TerminalTypes, ServeTerminal, TerminalCloses, requests
  <2> QED BY <1>1, <1>2, <2>1, Untouched
<1>3. ASSUME NEW terminal, Tracks(t, terminal) PROVE Tracks(t, terminal)'
  <2>1. CASE TerminalCloses(t)
    <3>1. terminals'[t] \subseteq terminals[t] /\ opening' = opening
      BY <2>1 DEF TerminalCloses, TerminalTypes, requests
    <3> QED BY <1>3, <3>1 DEF Tracks
  <2>2. CASE ServeTerminal(t)
    <3>1. opening[t] \in Seq(Nat) /\ opening[t] # <<>> /\ opening'[t] = Tail(opening[t])
      BY <2>2 DEF ServeTerminal, TerminalTypes
    <3>2. /\ 1 \in DOMAIN opening[t] /\ Head(opening[t]) = terminal.nonce
          /\ \A i \in DOMAIN opening'[t] : opening'[t][i] = terminal.nonce
          /\ terminal # NoTerminal /\ terminal.process = 0
      BY <1>3, <3>1, QueueFacts DEF Tracks
    <3>3. \/ terminals'[t] = terminals[t]
          \/ \E x : /\ x.nonce = terminal.nonce /\ terminals'[t] = terminals[t] \cup {x}
                    /\ \A y \in terminals[t] : y.nonce # terminal.nonce
      <4> DEFINE new == [nonce |-> Head(opening[t]), process |-> opened + 1]
      <4>1. \/ terminals' = terminals
            \/ /\ terminals' = [terminals EXCEPT ![t] = @ \cup {new}]
               /\ \A y \in terminals[t] : y.nonce # Head(opening[t])
        BY <2>2 DEF ServeTerminal
      <4>2. new.nonce = terminal.nonce
        BY <3>2
      <4> HIDE DEF new
      <4> QED BY <3>2, <4>1, <4>2 DEF TerminalTypes
    <3> QED BY <1>3, <3>2, <3>3 DEF Tracks
  <2> QED BY <2>1, <2>2
<1>4. PanesConsistent(t) => Stable(t)
  BY <1>1, <1>3 DEF Stable, PanesConsistent, NothingLeft, OnlyPane, Dying, Harness
<1> QED BY <1>2, <1>4

LEMMA EnvironmentStable ==
  ASSUME EndInv, Environment
  PROVE  ProcessTypes' /\ \A u \in Tasks : Stable(u)
<1>1. /\ ProcessTypes /\ TerminalTypes /\ \A u \in Tasks : PanesConsistent(u)
  BY DEF EndInv, WritersInv, SignalInv, TypeInv, TerminalTypes
<1>2. PICK t \in Tasks :
        \/ ServeStart(t) \/ ServeSession(t) \/ ServerExits(t)
        \/ \E n \in Servers : Claim(t, n) \/ PaneExits(t, n)
        \/ ServeTerminal(t) \/ TerminalCloses(t)
  BY DEF Environment
<1>3. CASE ServeTerminal(t) \/ TerminalCloses(t)
  <2>1. UNCHANGED <<server, servers, panes, asked, jobs, handoff>>
    BY <1>3 DEF ServeTerminal, TerminalCloses, processes, requests
  <2>2. ProcessTypes'
    BY <1>1, <2>1 DEF ProcessTypes
  <2> QED BY <1>1, <1>3, <2>2, TerminalStable
<1>4. CASE \E n \in Servers : Claim(t, n) \/ PaneExits(t, n)
  BY <1>1, <1>4, PaneStable
<1> QED BY <1>1, <1>2, <1>3, <1>4, ServeStartStable, ServeSessionStable, ServerExitsStable

\* What was fit to be on record stays fit.
LEMMA StableFits ==
  ASSUME NEW t \in Tasks, Stable(t), restored' = restored, NEW state \in ControlStates,
         Fits(t, state)
  PROVE  Fits(t, state)'
<1>1. state.pane \in Nat
  BY DEF ControlStates
<1> QED BY <1>1 DEF Fits, Stable

-----------------------------------------------------------------------------
(* Steps of the thread and of the database *)

world == <<handoff, processes, requests, terminals, opening, restored>>

\* What a step of the thread has to show when it leaves the rows alone.
LEMMA Finish ==
  ASSUME EndInv, WritersInv', ProcessTypes', UNCHANGED <<runs, controls, restored>>,
         \A u \in Tasks : PanesConsistent(u)' /\ Fits(u, controls[u])',
         late' = <<>>, op' # Idle => Current(op)'
  PROVE  EndInv'
  BY DEF EndInv

LEMMA SameWorld ==
  ASSUME EndInv, UNCHANGED world
  PROVE  /\ ProcessTypes'
         /\ \A u \in Tasks : PanesConsistent(u)' /\ Stable(u)
<1>1. UNCHANGED <<server, servers, panes, asked, jobs, handoff, terminals, opening>>
  BY DEF world, processes, requests
<1>2. ProcessTypes'
  BY <1>1 DEF EndInv, ProcessTypes
<1>3. \A u \in Tasks : Stable(u)
  BY <1>1, Untouched DEF EndInv
<1> QED BY <1>2, <1>3 DEF Stable

\* A step that changes nothing but the operation.
LEMMA FinishQuiet ==
  ASSUME EndInv, WritersInv', UNCHANGED <<runs, controls, late, world>>,
         late = <<>>, op' # Idle => Current(op)'
  PROVE  EndInv'
<1>1. \A u \in Tasks : controls[u] \in ControlStates /\ Fits(u, controls[u])
  BY DEF EndInv, WritersInv, SignalInv, TypeInv
<1>2. restored' = restored
  BY DEF world
<1>3. \A u \in Tasks : Fits(u, controls[u])'
  BY <1>1, <1>2, SameWorld, StableFits
<1> QED BY <1>2, <1>3, SameWorld, Finish

Fitting(r) == r.kind = "save" => r.task \in runs /\ Fits(r.task, r.state)

\* What the database executes fits, if it did when it was asked for.
LEMMA ExecuteFits ==
  ASSUME EndInv, NEW r \in StoreRequests, Execute(r), Fitting(r), UNCHANGED world
  PROVE  /\ runs \subseteq runs'
         /\ \A u \in Tasks : Fits(u, controls[u])'
         /\ \A u \in Tasks \ runs' : controls'[u] = FreshControl
<1>1. /\ controls \in [Tasks -> ControlStates] /\ runs \subseteq Tasks
      /\ \A u \in Tasks : Fits(u, controls[u])
      /\ \A u \in Tasks \ runs : controls[u] = FreshControl
  BY DEF EndInv, WritersInv, SignalInv, TypeInv
<1>2. restored' = restored /\ \A u \in Tasks : Stable(u)
  BY SameWorld DEF world
<1>3. ASSUME NEW u \in Tasks, NEW state \in ControlStates, Fits(u, state), controls'[u] = state
      PROVE  Fits(u, controls[u])'
  BY <1>2, <1>3, StableFits
<1>4. CASE r.kind = "reserve"
  <2>1. r.task \in Tasks
    BY <1>4 DEF StoreRequests
  <2>2. controls' = controls /\ runs \subseteq runs'
    BY <1>1, <1>4, <2>1 DEF Execute
  <2> QED BY <1>1, <1>3, <2>2
<1>5. CASE r.kind = "identify"
  <2>1. controls' = controls /\ runs' = runs
    BY <1>5 DEF Execute
  <2> QED BY <1>1, <1>3, <2>1
<1>6. CASE r.kind = "save"
  <2>1. r.task \in runs /\ Fits(r.task, r.state) /\ r.state \in ControlStates
    BY <1>6 DEF Fitting, StoreRequests
  <2>2. /\ runs' = runs
        /\ controls' = controls \/ controls' = [controls EXCEPT ![r.task] = r.state]
    BY <1>6 DEF Execute
  <2>3. \A u \in Tasks : controls'[u] = controls[u] \/ (u = r.task /\ controls'[u] = r.state)
    BY <1>1, <2>2
  <2> QED BY <1>1, <1>3, <2>1, <2>2, <2>3
<1> QED BY <1>4, <1>5, <1>6 DEF StoreRequests

LEMMA SubmitEnds ==
  ASSUME EndInv, WritersInv', late = <<>>, NEW r \in StoreRequests, NEW next, Submit(r, next),
         UNCHANGED world, Fitting(r), op' # Idle => Current(op)'
  PROVE  EndInv'
<1>1. CASE Execute(r) /\ UNCHANGED late
  BY <1>1, ExecuteFits, SameWorld DEF EndInv
<1>2. CASE /\ late' = Append(late, r) /\ op' = Idle
           /\ UNCHANGED <<runs, recorded, controls>>
  <2>1. late' = <<r>>
    BY <1>2
  <2>2. late'[1] = r
    BY <2>1
  <2>3. restored' = restored /\ \A u \in Tasks : Stable(u)
    BY SameWorld DEF world
  <2>4. \A u \in Tasks : Fits(u, controls[u])'
    <3>1. \A u \in Tasks : controls[u] \in ControlStates /\ Fits(u, controls[u])
      BY DEF EndInv, WritersInv, SignalInv, TypeInv
    <3> QED BY <1>2, <2>3, <3>1, StableFits
  <2>5. ASSUME r.kind = "save" PROVE r.task \in runs' /\ Fits(late[1].task, late[1].state)'
    <3>1. r.task \in Tasks /\ r.state \in ControlStates
      BY <2>5 DEF StoreRequests
    <3>2. r.task \in runs' /\ Fits(r.task, r.state)'
      BY <1>2, <2>3, <2>5, <3>1, StableFits DEF Fitting
    <3> QED BY <2>2, <3>2
  <2> QED BY <1>2, <2>2, <2>4, <2>5, SameWorld DEF EndInv
<1> QED BY <1>1, <1>2 DEF Submit, AfterGivingUp

LEMMA Busy ==
  ASSUME EndInv, op # Idle
  PROVE  /\ late = <<>> /\ op \in Operations /\ op.task \in Tasks /\ op.task \in runs
         /\ op.server \in Nat /\ op.state \in ControlStates /\ Current(op)
         /\ controls \in [Tasks -> ControlStates]
         /\ controls[op.task] \in ControlStates
  BY IdleOrOperation DEF EndInv, WritersInv, SignalInv, TypeInv, Current

\* The copy fits as well as the row does.
LEMMA CopyFits ==
  ASSUME EndInv, op # Idle
  PROVE  /\ Fits(op.task, op.state) /\ ~op.state.stopped
         /\ op.state.pane = controls[op.task].pane
         /\ op.state.terminal = controls[op.task].terminal
<1>1. /\ op.state.pane = controls[op.task].pane
      /\ op.state.terminal = controls[op.task].terminal
      /\ op.state.stopped = controls[op.task].stopped /\ ~op.state.stopped
      /\ op.state.pane \in Nat
      /\ controls[op.task].invocation \in {0, op.state.invocation}
  BY Busy DEF Current, ControlStates
<1>2. Fits(op.task, controls[op.task])
  BY Busy DEF EndInv
<1>3. op.state.pane # 0 => op.state.invocation = op.state.pane
  BY <1>1, <1>2 DEF Fits
<1> QED BY <1>1, <1>2, <1>3 DEF Fits

\* What `reconcile` finds fits: the pane it sees is where everything lives.
LEMMA ReconciledFits ==
  ASSUME EndInv, NEW t \in Tasks, NEW state \in ControlStates, NEW n,
         OwnedPane(t, n, state), Fits(t, state), ~state.stopped
  PROVE  /\ Fits(t, Reconciled(t, state)) /\ Reconciled(t, state) \in ControlStates
         /\ ~Reconciled(t, state).stopped
         /\ Reconciled(t, state).terminal = state.terminal
<1> DEFINE found == Reconciled(t, state)
<1>1. /\ server[t] # 0 /\ server[t] \in Servers /\ Live(panes[t][server[t]])
      /\ PanesConsistent(t)
  BY LaunchAssumption DEF OwnedPane, OwnedServer, EndInv, ProcessTypes, Servers
<1>2. OnlyPane(t, server[t])
  BY <1>1 DEF PanesConsistent, OnlyPane, Harness, Live
<1>3. /\ found \in ControlStates /\ found.pane = server[t] /\ found.invocation = server[t]
      /\ found.terminal = state.terminal /\ found.stopped = state.stopped
  <2>1. found \in ControlStates
    BY ReconciledTypes DEF EndInv, WritersInv, SignalInv
  <2> QED BY <2>1 DEF Reconciled, ControlStates
<1> HIDE DEF found
<1>4. Fits(t, found)
  BY <1>2, <1>3 DEF Fits
<1> QED BY <1>3, <1>4 DEF found

\* The thread goes on with the row as it is.
LEMMA Continues ==
  ASSUME EndInv, op # Idle, UNCHANGED <<runs, controls>>,
         op'.task = op.task, op'.state = op.state,
         op'.at \notin {"attach", "opening", "serverSignalled", "ended"}
  PROVE  Current(op)'
  BY Busy DEF Current

LEMMA CreateHandoffEnds ==
  ASSUME EndInv, WritersInv', CreateHandoff
  PROVE  EndInv'
<1> DEFINE t == op.task
<1>1. op # Idle
  BY DEF CreateHandoff, Idle
<1>2. /\ UNCHANGED <<runs, controls, late, server, servers, panes, asked, jobs, terminals,
                    opening, restored>>
      /\ handoff[t] # "claimed"
      /\ \E form \in {"ready", "partial"} : handoff' = [handoff EXCEPT ![t] = form]
      /\ op' = Idle \/ op' = [op EXCEPT !.at = "start"]
  BY DEF CreateHandoff, HandoffUsable, database, processes, requests, desktop, history
<1>3. /\ ProcessTypes'
      /\ \A u \in Tasks : handoff[u] = "claimed" => handoff'[u] = "claimed"
  BY <1>2 DEF EndInv, ProcessTypes
<1>4. ASSUME NEW u \in Tasks PROVE Stable(u)
  BY <1>2, <1>3 DEF EndInv, Stable, PanesConsistent, NothingLeft, OnlyPane, Dying, Tracks, Harness
<1>5. ASSUME NEW u \in Tasks PROVE PanesConsistent(u)' /\ Fits(u, controls[u])'
  <2>1. controls[u] \in ControlStates /\ Fits(u, controls[u])
    BY DEF EndInv, WritersInv, SignalInv, TypeInv
  <2> QED BY <1>2, <1>4, <2>1, StableFits DEF Stable
<1>6. op' # Idle => Current(op)'
  BY <1>1, <1>2, Busy, Continues DEF Operations
<1> QED BY <1>1, <1>2, <1>3, <1>5, <1>6, Busy, Finish

\* A start is asked for only while the run is not stopped.
LEMMA StartUnitEnds ==
  ASSUME EndInv, WritersInv', StartUnit
  PROVE  EndInv'
<1> DEFINE t == op.task
<1>1. op # Idle
  BY DEF StartUnit, Idle
<1>2. /\ UNCHANGED <<runs, controls, late, server, servers, panes, asked, handoff, terminals,
                    opening, restored>>
      /\ jobs' = [jobs EXCEPT ![t] = @ + 1] /\ op' = [op EXCEPT !.at = "identify"]
  BY DEF StartUnit, database, processes, desktop, history
<1>3. ProcessTypes'
  <2>1. t \in Tasks /\ jobs \in [Tasks -> Nat]
    BY <1>1, Busy DEF EndInv, ProcessTypes
  <2>2. jobs' \in [Tasks -> Nat]
    BY <1>2, <2>1
  <2> QED BY <1>2, <2>2 DEF EndInv, ProcessTypes
<1>4. ASSUME NEW u \in Tasks PROVE PanesConsistent(u)' /\ Fits(u, controls[u])'
  <2>1. PanesConsistent(u)'
    BY <1>2 DEF EndInv, PanesConsistent, Harness
  <2>2. controls[u].stopped => jobs'[u] = jobs[u]
    BY <1>1, <1>2, Busy DEF Current, EndInv, ProcessTypes
  <2>3. Fits(u, controls[u])'
    BY <1>2, <2>2 DEF EndInv, Fits, NothingLeft, OnlyPane, Tracks
  <2> QED BY <2>1, <2>3
<1>5. Current(op)'
  <2>1. UNCHANGED <<runs, controls>> /\ op' = [op EXCEPT !.at = "identify"]
    BY <1>2
  <2> QED BY <1>1, <2>1, Busy, Continues DEF Operations
<1> QED BY <1>1, <1>2, <1>3, <1>4, <1>5, Busy, Finish

\* A pane is asked for only of the server on record, and before any harness.
LEMMA StartPaneEnds ==
  ASSUME EndInv, WritersInv', StartPane
  PROVE  EndInv'
<1> DEFINE t == op.task
<1>1. op # Idle
  BY DEF StartPane, Idle
<1>2. /\ UNCHANGED <<runs, controls, late, server, servers, panes, jobs, handoff, terminals,
                    opening, restored>>
      /\ server[t] # 0 /\ op.state.invocation \in {0, server[t]} /\ handoff[t] = "ready"
      /\ asked' = [asked EXCEPT ![t] = @ \cup {server[t]}]
      /\ op' = [op EXCEPT !.at = "paneAsked"]
  BY DEF StartPane, OwnedServer, database, processes, desktop, history
<1>3. t \in Tasks /\ server[t] \in Servers
  BY <1>1, <1>2, Busy, LaunchAssumption DEF EndInv, ProcessTypes, Servers
<1>4. ProcessTypes'
  BY <1>2, <1>3 DEF EndInv, ProcessTypes
<1>5. \A u \in Tasks : asked'[u] = asked[u] \/ (u = t /\ asked'[u] = asked[u] \cup {server[u]})
  BY <1>2 DEF EndInv, ProcessTypes
<1>6. \A u \in Tasks : PanesConsistent(u)'
  BY <1>2, <1>5 DEF EndInv, PanesConsistent, Harness, Live
<1>7. controls[t].pane # 0 => controls[t].pane = server[t]
  BY <1>1, <1>2, CopyFits DEF Fits
<1>8. \A u \in Tasks : Fits(u, controls[u])'
  BY <1>2, <1>5, <1>7 DEF EndInv, Fits, NothingLeft, OnlyPane, Tracks
<1>9. Current(op)'
  <2>1. UNCHANGED <<runs, controls>> /\ op' = [op EXCEPT !.at = "paneAsked"]
    BY <1>2
  <2> QED BY <1>1, <2>1, Busy, Continues DEF Operations
<1> QED BY <1>1, <1>2, <1>4, <1>6, <1>8, <1>9, Busy, Finish

LEMMA StartTerminalEnds ==
  ASSUME EndInv, WritersInv', StartTerminal
  PROVE  EndInv'
<1> DEFINE t == op.task
           nonce == op.state.terminal.nonce
<1>1. op # Idle
  BY DEF StartTerminal, Idle
<1>2. /\ UNCHANGED <<runs, controls, late, server, servers, panes, jobs, asked, handoff,
                    terminals, restored>>
      /\ op.at = "attach" /\ op.state.terminal.process = 0
      /\ opening' = [opening EXCEPT ![t] = Append(@, nonce)]
      /\ op' = [op EXCEPT !.at = "opening"]
  BY DEF StartTerminal, database, processes, desktop, history
<1>3. ProcessTypes' /\ \A u \in Tasks : PanesConsistent(u)'
  BY <1>2 DEF EndInv, ProcessTypes, PanesConsistent, Harness
<1>4. /\ opening \in [Tasks -> Seq(Nat)] /\ t \in Tasks /\ nonce \in Nat
      /\ controls[t].terminal = op.state.terminal /\ op.state.terminal # NoTerminal
  BY <1>1, <1>2, Busy, CopyFits DEF EndInv, WritersInv, SignalInv, TypeInv, Current, ControlStates
<1>5. \A i \in DOMAIN opening'[t] : opening'[t][i] = nonce 
                                   \/ (i \in DOMAIN opening[t] /\ opening'[t][i] = opening[t][i])
  <2>1. opening[t] \in Seq(Nat) /\ opening'[t] = Append(opening[t], nonce)
    BY <1>2, <1>4
  <2> HIDE DEF nonce
  <2> QED BY <1>4, <2>1
<1>6. \A u \in Tasks \ {t} : opening'[u] = opening[u]
  BY <1>2, <1>4
<1>7. Fits(t, controls[t])'
  BY <1>2, <1>4, <1>5 DEF EndInv, Fits, NothingLeft, OnlyPane, Tracks
<1>8. \A u \in Tasks : Fits(u, controls[u])'
  BY <1>2, <1>6, <1>7 DEF EndInv, Fits, NothingLeft, OnlyPane, Tracks
<1>9. Current(op)'
  <2>1. op \in Operations /\ Current(op)
    BY <1>1, Busy
  <2>2. op'.task = op.task /\ op'.state = op.state /\ op'.at = "opening"
    BY <1>2, <2>1 DEF Operations
  <2> QED BY <1>2, <1>4, <2>1, <2>2 DEF Current
<1> QED BY <1>1, <1>2, <1>3, <1>8, <1>9, Busy, Finish

LEMMA AlreadyEndedEnds ==
  ASSUME EndInv, WritersInv', AlreadyEnded
  PROVE  EndInv'
<1> DEFINE t == op.task
<1>1. op # Idle
  BY DEF AlreadyEnded, Idle
<1>2. /\ UNCHANGED <<runs, controls, late, world>>
      /\ EndComplete(t, op.server, op.state) /\ op.at \in EndingSteps
      /\ op' = [op EXCEPT !.at = "ended"]
  BY DEF AlreadyEnded, EndingSteps, database, desktop, history, processes,
    requests, world
<1>3. NothingLeft(t)
  <2>1. op.state.pane # 0 /\ Fits(t, op.state)
    BY <1>1, <1>2, CopyFits DEF EndInv, WritersInv, SignalInv
  <2> QED BY <1>2, <2>1 DEF EndComplete, PaneExited, Answers, Fits, OnlyPane, NothingLeft
<1>4. Current(op)'
  <2>1. op'.task = t /\ op'.state = op.state /\ op'.at = "ended" /\ Current(op)
    BY <1>1, <1>2, Busy DEF Operations
  <2>2. NothingLeft(t)'
    BY <1>1, <1>2, <1>3, SameWorld, Busy DEF Stable
  <2> QED BY <1>2, <2>1, <2>2 DEF Current
<1> QED BY <1>1, <1>2, <1>4, Busy, FinishQuiet

LEMMA TerminatePaneEnds ==
  ASSUME EndInv, WritersInv', TerminatePane
  PROVE  EndInv'
<1>1. op # Idle
  BY DEF TerminatePane, Idle
<1>2. /\ UNCHANGED <<runs, controls, late, world>>
      /\ op' = [op EXCEPT !.at = "paneSignalled", !.server = server[op.task]]
  BY DEF TerminatePane, database, desktop, history, processes,
    requests, world
<1>3. Current(op)'
  <2>1. UNCHANGED <<runs, controls>>
    BY <1>2
  <2> QED BY <1>1, <1>2, <2>1, Busy, Continues DEF Operations
<1> QED BY <1>1, <1>2, <1>3, Busy, FinishQuiet

LEMMA TerminateServerEnds ==
  ASSUME EndInv, WritersInv', TerminateServer
  PROVE  EndInv'
<1> DEFINE t == op.task
           n == server[t]
<1>1. op # Idle
  BY DEF TerminateServer, Idle
<1>2. /\ UNCHANGED <<runs, controls, late, world>>
      /\ jobs[t] = 0 /\ n # 0 /\ op.state.pane = n /\ panes[t][n] = "dead"
      /\ op' = [op EXCEPT !.at = "serverSignalled", !.server = n]
  BY DEF TerminateServer, OwnedServer, PaneDone, Answers, database, desktop, history, processes,
    requests, world
<1>3. Current(op)'
  <2>1. /\ op'.task = t /\ op'.state = op.state /\ op'.at = "serverSignalled"
        /\ op'.server = n /\ Current(op) /\ t \in Tasks
    BY <1>1, <1>2, Busy DEF Operations
  <2>3. n \in Servers
    BY <1>2, <2>1, LaunchAssumption DEF EndInv, ProcessTypes, Servers
  <2>2. UNCHANGED <<server, jobs, panes>>
    BY <1>2 DEF world, processes, requests
  <2> QED BY <1>2, <2>1, <2>2, <2>3 DEF Current, Dying, Live
<1> QED BY <1>1, <1>2, <1>3, Busy, FinishQuiet

LEMMA ServerExitedEnds ==
  ASSUME EndInv, WritersInv', ServerExited
  PROVE  EndInv'
<1> DEFINE t == op.task
<1>1. op # Idle
  BY DEF ServerExited, Idle
<1>2. /\ UNCHANGED <<runs, controls, late, world>>
      /\ op.at = "serverSignalled" /\ server[t] # op.server
      /\ op' = [op EXCEPT !.at = "ended"]
  BY DEF ServerExited, Exited, database, desktop, history, processes,
    requests, world
<1>3. NothingLeft(t)
  <2>1. op.server # 0 /\ op.server = op.state.pane /\ Dying(t, op.server) /\ Fits(t, op.state)
    BY <1>1, <1>2, Busy, CopyFits DEF Current, Servers
  <2> QED BY <1>2, <2>1 DEF Dying, Fits, OnlyPane, NothingLeft
<1>4. Current(op)'
  <2>1. op'.task = t /\ op'.state = op.state /\ op'.at = "ended" /\ Current(op)
    BY <1>1, <1>2, Busy DEF Operations
  <2>2. NothingLeft(t)'
    BY <1>1, <1>2, <1>3, SameWorld, Busy DEF Stable
  <2> QED BY <1>2, <2>1, <2>2 DEF Current
<1> QED BY <1>1, <1>2, <1>4, Busy, FinishQuiet

-----------------------------------------------------------------------------
(* Requests of the thread *)

LEMMA SavedFits ==
  ASSUME NEW t \in Tasks, NEW state \in ControlStates
  PROVE  /\ Save(t, state) \in StoreRequests /\ Save(t, state).kind = "save"
         /\ Save(t, state).task = t /\ Save(t, state).state = state
         /\ t \in runs /\ Fits(t, state) => Fitting(Save(t, state))
  BY RequestTypes DEF Save, Fitting

\* A request of an operation that is over with it.
LEMMA LastSave ==
  ASSUME EndInv, WritersInv', op # Idle, NEW state \in ControlStates, Fits(op.task, state),
         Submit(Save(op.task, state), Idle), UNCHANGED world
  PROVE  EndInv'
<1>1. op' = Idle
  BY SubmitAlternatives
<1> QED BY <1>1, Busy, SavedFits, SubmitEnds

\* An operation that goes on with what it has saved.
LEMMA GoesOn ==
  ASSUME EndInv, WritersInv', late = <<>>, UNCHANGED world, NEW t \in runs,
         NEW state \in ControlStates, Fits(t, state), ~state.stopped,
         NEW next, Submit(Save(t, state), next),
         next.task = t, next.state = state,
         next.at \notin {"serverSignalled", "ended"},
         next.at \in {"attach", "opening"} => state.terminal # NoTerminal
  PROVE  EndInv'
<1>1. t \in Tasks /\ controls \in [Tasks -> ControlStates]
  BY DEF EndInv, WritersInv, SignalInv, TypeInv
<1>2. ASSUME op' # Idle PROVE Current(op)'
  <2>1. op' = next /\ Acceptable(Save(t, state)) /\ Execute(Save(t, state))
    BY <1>2, SubmitAlternatives
  <2>2. controls'[t] = state /\ t \in runs'
    BY <1>1, <2>1 DEF Execute, Save
  <2>3. state = [state EXCEPT !.invocation = state.invocation]
    BY DEF ControlStates
  <2> QED BY <2>1, <2>2, <2>3 DEF Current
<1> QED BY <1>1, <1>2, SavedFits, SubmitEnds

LEMMA LaunchNewEnds ==
  ASSUME EndInv, WritersInv', NEW t \in Tasks, NEW shared \in BOOLEAN, LaunchNew(t, shared)
  PROVE  EndInv'
<1> DEFINE r == Reserve(t, shared)
           next == At("retry", t, 0, FreshControl)
<1>1. /\ late = <<>> /\ UNCHANGED world /\ Submit(r, next)
      /\ t \notin runs /\ Cardinality(runs) < MaxRuns /\ Cardinality(runs) \in Nat
  <2>1. late = <<>> /\ UNCHANGED world /\ Submit(r, next)
    BY DEF LaunchNew, InOrder, world, desktop, processes, requests
  <2>2. IsFiniteSet(runs)
    BY LaunchAssumption, FS_Subset DEF EndInv, WritersInv, SignalInv, TypeInv
  <2> QED BY <2>1, <2>2, FS_CardinalityType DEF LaunchNew
<1>2. r \in StoreRequests /\ Fitting(r) /\ r.kind = "reserve" /\ r.task = t
  BY RequestTypes DEF Reserve, Fitting
<1>3. ASSUME op' # Idle PROVE Current(op)'
  <2>1. op' = next /\ Execute(r)
    BY <1>1, <1>3, SubmitAlternatives
  <2>2. ~(Cardinality(runs) >= MaxRuns)
    BY <1>1, LaunchAssumption
  <2>3. runs' = runs \cup {t} /\ controls' = [controls EXCEPT ![t] = FreshControl]
    BY <1>1, <1>2, <2>1, <2>2 DEF Execute
  <2>4. controls'[t] = FreshControl
    BY <2>3 DEF EndInv, WritersInv, SignalInv, TypeInv
  <2>5. ~FreshControl.stopped /\ FreshControl = [FreshControl EXCEPT !.invocation = FreshControl.invocation]
    BY DEF FreshControl
  <2> QED BY <2>1, <2>3, <2>4, <2>5 DEF Current, At
<1> QED BY <1>1, <1>2, <1>3, SubmitEnds

LEMMA LaunchAgainEnds ==
  ASSUME EndInv, WritersInv', NEW t \in Tasks, LaunchAgain(t)
  PROVE  EndInv'
<1>1. /\ late = <<>> /\ UNCHANGED <<runs, controls, late, world>> /\ t \in runs
      /\ ~controls[t].stopped
      /\ \E step \in {"retry", "pane"} : op' = At(step, t, recorded[t], controls[t])
  BY DEF LaunchAgain, InOrder, database, desktop, history, world, processes, requests
<1>2. controls[t] = [controls[t] EXCEPT !.invocation = controls[t].invocation]
  BY DEF EndInv, WritersInv, SignalInv, TypeInv, ControlStates
<1>3. Current(op)'
  BY <1>1, <1>2 DEF Current, At
<1> QED BY <1>1, <1>3, FinishQuiet

\* The row a run has when an operation begins.
LEMMA RowFacts ==
  ASSUME EndInv, NEW t \in Tasks
  PROVE  controls[t] \in ControlStates /\ Fits(t, controls[t])
  BY DEF EndInv, WritersInv, SignalInv, TypeInv

LEMMA BeginEndEnds ==
  ASSUME EndInv, WritersInv', NEW t \in Tasks, BeginEnd(t)
  PROVE  EndInv'
<1> DEFINE known == IF controls[t].pane = 0 THEN Reconciled(t, controls[t]) ELSE controls[t]
           state == [known EXCEPT !.ending = TRUE]
           next == At("ending", t, recorded[t], state)
<1>1. /\ late = <<>> /\ UNCHANGED world /\ t \in runs /\ Submit(Save(t, state), next)
      /\ ~controls[t].stopped
      /\ controls[t].pane = 0 => OwnedPane(t, recorded[t], controls[t])
  BY DEF BeginEnd, InOrder, world, desktop, processes, requests
<1>2. known \in ControlStates /\ Fits(t, known) /\ ~known.stopped
  BY <1>1, RowFacts, ReconciledFits
<1> HIDE DEF known
<1>3. /\ state \in ControlStates /\ ~state.stopped
      /\ state.pane = known.pane /\ state.invocation = known.invocation
      /\ state.terminal = known.terminal
  BY <1>2 DEF ControlStates
<1>4. Fits(t, state)
  BY <1>2, <1>3 DEF Fits
<1> HIDE DEF state
<1>5. next.task = t /\ next.state = state /\ next.at = "ending"
  BY DEF At
<1> QED BY <1>1, <1>3, <1>4, <1>5, GoesOn

\* A terminal is forgotten only when nothing of it is left or to come.
LEMMA BeginAttachEnds ==
  ASSUME EndInv, WritersInv', NEW t \in Tasks, BeginAttach(t)
  PROVE  EndInv'
<1> DEFINE old == controls[t].terminal
           kept == KeptIntent(t, old)
           fresh == [nonce |-> nonces + 1, process |-> 0, window |-> FALSE]
           terminal == IF kept = NoTerminal THEN fresh ELSE kept
           found == Reconciled(t, controls[t])
           state == [found EXCEPT !.terminal = terminal]
           next == At("attach", t, recorded[t], state)
<1>1. /\ late = <<>> /\ UNCHANGED world /\ t \in runs /\ Submit(Save(t, state), next)
      /\ ~controls[t].stopped /\ OwnedPane(t, recorded[t], controls[t])
  BY DEF BeginAttach, InOrder, world, processes, requests
<1>2. found \in ControlStates /\ Fits(t, found) /\ ~found.stopped /\ found.terminal = old
  BY <1>1, RowFacts, ReconciledFits
<1> HIDE DEF found
<1>3. /\ old \in [nonce : Nat, process : Nat, window : BOOLEAN]
      /\ fresh \in [nonce : Nat, process : Nat, window : BOOLEAN]
      /\ nonces \in Nat /\ fresh.nonce # 0
  <2>1. nonces \in Nat
    BY DEF EndInv, WritersInv, SignalInv, TypeInv
  <2>2. old \in [nonce : Nat, process : Nat, window : BOOLEAN]
    BY RowFacts DEF ControlStates
  <2> QED BY <2>1, <2>2
<1>4. kept = old \/ (kept = NoTerminal /\ Gone(t, old) /\ old.process # 0)
  BY DEF KeptIntent
<1>5. /\ terminal \in [nonce : Nat, process : Nat, window : BOOLEAN] /\ terminal # NoTerminal
      /\ ~restored => Tracks(t, terminal)
  <2>1. fresh # NoTerminal
    BY <1>3 DEF NoTerminal
  <2>2. CASE kept # NoTerminal
    BY <1>2, <1>3, <1>4, <2>2 DEF Fits
  <2>3. CASE kept = NoTerminal
    <3>1. ~restored => terminals[t] = {} /\ opening[t] = <<>>
      BY <1>2, <1>4, <2>3 DEF Fits, Tracks, Gone
    <3>2. ~restored => Tracks(t, fresh)
      BY <2>1, <3>1 DEF Tracks
    <3> QED BY <1>3, <2>1, <2>3, <3>2
  <2> QED BY <2>2, <2>3
<1> HIDE DEF terminal
<1>6. /\ state \in ControlStates /\ ~state.stopped /\ state.terminal = terminal
      /\ state.pane = found.pane /\ state.invocation = found.invocation
  BY <1>2, <1>5 DEF ControlStates
<1>7. Fits(t, state)
  BY <1>2, <1>5, <1>6 DEF Fits
<1> HIDE DEF state
<1>8. next.task = t /\ next.state = state /\ next.at = "attach"
  BY DEF At
<1> QED BY <1>1, <1>5, <1>6, <1>7, <1>8, GoesOn

\* The copy learns the invocation, which the row does not contradict.
LEMMA IdentifyServerEnds ==
  ASSUME EndInv, WritersInv', IdentifyServer
  PROVE  EndInv'
<1> DEFINE t == op.task
           n == server[t]
           state == [op.state EXCEPT !.invocation = n]
           next == At("identified", t, n, state)
<1>1. op # Idle
  BY DEF IdentifyServer, Idle
<1>2. /\ UNCHANGED world /\ op.state.invocation \in {0, n} /\ Submit(Identify(t, n), next)
  BY DEF IdentifyServer, OwnedServer, world, desktop, processes, requests
<1>3. /\ t \in Tasks /\ n \in Nat /\ Current(op) /\ op.state \in ControlStates
      /\ controls[t] \in ControlStates /\ late = <<>>
  BY <1>1, Busy DEF EndInv, WritersInv, SignalInv, TypeInv
<1>4. /\ Identify(t, n) \in StoreRequests /\ Fitting(Identify(t, n))
      /\ Identify(t, n).kind = "identify"
  BY <1>3, RequestTypes DEF Identify, Fitting
<1>5. ASSUME op' # Idle PROVE Current(op)'
  <2>1. op' = next /\ Execute(Identify(t, n))
    BY <1>2, <1>5, SubmitAlternatives
  <2>2. UNCHANGED <<runs, controls>>
    BY <1>4, <2>1 DEF Execute
  <2>3. /\ state = [controls[t] EXCEPT !.invocation = n] /\ state.invocation = n
        /\ controls[t].invocation \in {0, n}
    BY <1>2, <1>3 DEF Current, ControlStates
  <2> HIDE DEF state
  <2>4. op'.task = t /\ op'.state = state /\ op'.at = "identified"
    BY <2>1 DEF At
  <2> QED BY <1>3, <2>2, <2>3, <2>4 DEF Current
<1> QED BY <1>2, <1>3, <1>4, <1>5, SubmitEnds

LEMMA SaveInvocationEnds ==
  ASSUME EndInv, WritersInv', SaveInvocation
  PROVE  EndInv'
<1> DEFINE next == [op EXCEPT !.at = "pane"]
<1>1. op # Idle
  BY DEF SaveInvocation, Idle
<1>2. UNCHANGED world /\ Submit(Save(op.task, op.state), next)
  BY DEF SaveInvocation, world, desktop, processes, requests
<1>3. next.task = op.task /\ next.state = op.state /\ next.at = "pane"
  BY <1>1, Busy DEF Operations
<1> QED BY <1>1, <1>2, <1>3, Busy, CopyFits, GoesOn

LEMMA FinishLaunchEnds ==
  ASSUME EndInv, WritersInv', FinishLaunch
  PROVE  EndInv'
<1> DEFINE t == op.task
<1>1. op # Idle
  BY DEF FinishLaunch, Idle
<1>2. /\ UNCHANGED world
      /\ \/ /\ OwnedPane(t, op.server, op.state)
            /\ Submit(Save(t, Reconciled(t, op.state)), Idle)
         \/ Submit(Save(t, op.state), Idle)
  BY DEF FinishLaunch, world, desktop, processes, requests
<1>3. t \in Tasks /\ op.state \in ControlStates /\ Fits(t, op.state) /\ ~op.state.stopped
  BY <1>1, Busy, CopyFits
<1>4. CASE /\ OwnedPane(t, op.server, op.state)
           /\ Submit(Save(t, Reconciled(t, op.state)), Idle)
  <2>1. Reconciled(t, op.state) \in ControlStates /\ Fits(t, Reconciled(t, op.state))
    BY <1>3, <1>4, ReconciledFits
  <2> QED BY <1>1, <1>2, <1>4, <2>1, LastSave
<1>5. CASE Submit(Save(t, op.state), Idle)
  BY <1>1, <1>2, <1>3, <1>5, LastSave
<1> QED BY <1>2, <1>4, <1>5

LEMMA SaveStoppedEnds ==
  ASSUME EndInv, WritersInv', SaveStopped
  PROVE  EndInv'
<1> DEFINE t == op.task
           state == [op.state EXCEPT !.stopped = TRUE]
<1>1. op # Idle
  BY DEF SaveStopped, Idle
<1>2. UNCHANGED world /\ Submit(Save(t, state), Idle) /\ op.at = "ended"
  BY DEF SaveStopped, world, desktop, processes, requests
<1>3. NothingLeft(t) /\ op.state \in ControlStates /\ Fits(t, op.state)
  BY <1>1, <1>2, Busy, CopyFits DEF Current
<1>4. /\ state \in ControlStates /\ state.pane = op.state.pane
      /\ state.invocation = op.state.invocation /\ state.terminal = op.state.terminal
  BY <1>3 DEF ControlStates
<1> HIDE DEF state
<1>5. Fits(t, state)
  BY <1>3, <1>4 DEF Fits
<1> QED BY <1>1, <1>2, <1>4, <1>5, LastSave

\* The process that is saved is the one of the only terminal there is.
LEMMA SaveTerminalEnds ==
  ASSUME EndInv, WritersInv', SaveTerminal
  PROVE  EndInv'
<1> DEFINE t == op.task
           old == op.state.terminal
<1>1. op # Idle
  BY DEF SaveTerminal, Idle
<1>2. PICK x \in TerminalOf(t, old) :
        LET state == [op.state EXCEPT !.terminal.process = x.process]
        IN  Submit(Save(t, state), [op EXCEPT !.at = "associate", !.state = state])
  BY DEF SaveTerminal
<1>3. UNCHANGED world /\ op.at \in {"attach", "opening"}
  BY DEF SaveTerminal, world, desktop, processes, requests
<1>4. /\ t \in Tasks /\ t \in runs /\ op \in Operations /\ op.state \in ControlStates
      /\ Fits(t, op.state) /\ ~op.state.stopped /\ late = <<>> /\ old # NoTerminal
  BY <1>1, <1>3, Busy, CopyFits DEF Current
<1>5. /\ x \in terminals[t] /\ x \in [nonce : Nat, process : Nat]
      /\ opening[t] = <<>> /\ x.nonce = old.nonce /\ old.process \in {0, x.process}
  BY <1>4 DEF TerminalOf, EndInv, WritersInv, SignalInv, TypeInv
<1> DEFINE terminal == [old EXCEPT !.process = x.process]
           state == [op.state EXCEPT !.terminal = terminal]
           next == [op EXCEPT !.at = "associate", !.state = state]
<1>6. Submit(Save(t, state), next)
  BY <1>2
<1>7. /\ terminal \in [nonce : Nat, process : Nat, window : BOOLEAN]
      /\ terminal.nonce = x.nonce /\ terminal.process = x.process /\ terminal # NoTerminal
  <2>1. old \in [nonce : Nat, process : Nat, window : BOOLEAN]
    BY <1>4 DEF ControlStates
  <2>2. /\ terminal \in [nonce : Nat, process : Nat, window : BOOLEAN]
        /\ terminal.nonce = old.nonce /\ terminal.process = x.process
        /\ terminal.window = old.window
    BY <1>5, <2>1
  <2>3. x.process = 0 => terminal = old
    BY <1>5, <2>1
  <2>4. NoTerminal.process = 0
    BY DEF NoTerminal
  <2> HIDE DEF terminal
  <2> QED BY <1>4, <1>5, <2>2, <2>3, <2>4
<1> HIDE DEF terminal
<1>8. /\ state \in ControlStates /\ ~state.stopped /\ state.terminal = terminal
      /\ state.pane = op.state.pane /\ state.invocation = op.state.invocation
  BY <1>4, <1>7 DEF ControlStates
<1>9. ~restored => Tracks(t, terminal)
  BY <1>4, <1>5, <1>7 DEF Fits, Tracks
<1>10. Fits(t, state)
  BY <1>4, <1>8, <1>9 DEF Fits
<1> HIDE DEF state
<1>11. next.task = t /\ next.state = state /\ next.at = "associate"
  BY <1>4, <1>8 DEF Operations
<1> HIDE DEF next
<1> QED BY <1>3, <1>4, <1>6, <1>8, <1>10, <1>11, GoesOn

LEMMA SaveWindowEnds ==
  ASSUME EndInv, WritersInv', SaveWindow
  PROVE  EndInv'
<1> DEFINE t == op.task
           terminal == [op.state.terminal EXCEPT !.window = TRUE]
           state == [op.state EXCEPT !.terminal = terminal]
<1>1. op # Idle
  BY DEF SaveWindow, Idle
<1>2. UNCHANGED world /\ Submit(Save(t, state), Idle)
  BY DEF SaveWindow, world, desktop, processes, requests
<1>3. op.state \in ControlStates /\ Fits(t, op.state)
  BY <1>1, Busy, CopyFits
<1>4. /\ terminal \in [nonce : Nat, process : Nat, window : BOOLEAN]
      /\ terminal.nonce = op.state.terminal.nonce
      /\ terminal.process = op.state.terminal.process
      /\ terminal # NoTerminal
  BY <1>3 DEF ControlStates, NoTerminal
<1> HIDE DEF terminal
<1>5. /\ state \in ControlStates /\ state.stopped = op.state.stopped
      /\ state.terminal = terminal /\ state.pane = op.state.pane
      /\ state.invocation = op.state.invocation
  BY <1>3, <1>4 DEF ControlStates
<1>6. Fits(t, state)
  BY <1>3, <1>4, <1>5 DEF Fits, Tracks
<1> HIDE DEF state
<1> QED BY <1>1, <1>2, <1>5, <1>6, LastSave

-----------------------------------------------------------------------------
(* Every step *)

\* What the thread and the requests given up hold stays fit meanwhile.
LEMMA EnvironmentEnds ==
  ASSUME EndInv, WritersInv', Environment
  PROVE  EndInv'
<1>1. /\ ProcessTypes' /\ \A u \in Tasks : Stable(u)
      /\ UNCHANGED <<runs, controls, late, op, restored>>
  BY EnvironmentStable DEF Environment, ServeStart, ServeSession, ServerExits, Claim, PaneExits,
    ServeTerminal, TerminalCloses, database, history
<1>2. \A u \in Tasks : PanesConsistent(u)' /\ Fits(u, controls[u])'
  BY <1>1, RowFacts, StableFits DEF Stable
<1>3. late # <<>> /\ late[1].kind = "save" => Fits(late[1].task, late[1].state)'
  <2> SUFFICES ASSUME late # <<>>, late[1].kind = "save"
               PROVE  Fits(late[1].task, late[1].state)'
    OBVIOUS
  <2>1. late[1] \in StoreRequests
    BY DEF EndInv, WritersInv, SignalInv, TypeInv
  <2>2. late[1].task \in Tasks /\ late[1].state \in ControlStates
    BY <2>1 DEF StoreRequests
  <2>3. Fits(late[1].task, late[1].state)
    BY DEF EndInv
  <2> QED BY <1>1, <2>2, <2>3, StableFits
<1>4. ASSUME op # Idle PROVE Current(op)'
  <2>1. Current(op) /\ op.task \in Tasks /\ op.state \in ControlStates
    BY <1>4, Busy
  <2>2. op.at = "ended" => NothingLeft(op.task)'
    BY <1>1, <2>1 DEF Current, Stable
  <2>3. op.at = "serverSignalled" => Dying(op.task, op.server)'
    <3> SUFFICES ASSUME op.at = "serverSignalled" PROVE Dying(op.task, op.server)'
      OBVIOUS
    <3>1. op.server \in Servers /\ Dying(op.task, op.server)
      BY <2>1 DEF Current
    <3> QED BY <1>1, <2>1, <3>1 DEF Stable
  <2> QED BY <1>1, <2>1, <2>2, <2>3 DEF Current
<1> QED BY <1>1, <1>2, <1>3, <1>4 DEF EndInv

LEMMA ExecuteLateEnds ==
  ASSUME EndInv, WritersInv', ExecuteLate
  PROVE  EndInv'
<1>1. /\ late # <<>> /\ late = <<late[1]>> /\ Execute(Head(late)) /\ late' = Tail(late)
      /\ UNCHANGED world /\ op' = op /\ op = Idle
  BY DEF ExecuteLate, EndInv, WritersInv, SignalInv, world, desktop, processes, requests
<1>2. Head(late) = late[1] /\ late' = <<>>
  BY <1>1
<1>3. late[1] \in StoreRequests /\ Fitting(late[1])
  BY <1>1 DEF EndInv, WritersInv, SignalInv, TypeInv, Fitting
<1> QED BY <1>1, <1>2, <1>3, ExecuteFits, SameWorld DEF EndInv

\* A restored backup is older than any end, and than what is known of terminals.
LEMMA RestoreEnds ==
  ASSUME EndInv, WritersInv', Restore
  PROVE  EndInv'
<1>1. /\ op' = Idle /\ late' = <<>> /\ restored' = TRUE /\ runs' = runs
      /\ controls' = [u \in Tasks |-> FreshControl]
      /\ UNCHANGED <<server, servers, panes, asked, jobs, handoff>>
  BY DEF Restore, processes, requests
<1>2. ProcessTypes' /\ \A u \in Tasks : PanesConsistent(u)'
  BY <1>1 DEF EndInv, ProcessTypes, PanesConsistent, Harness
<1>3. \A u \in Tasks : Fits(u, controls[u])'
  BY <1>1 DEF Fits, FreshControl
<1> QED BY <1>1, <1>2, <1>3 DEF EndInv

LEMMA EndStep == EndInv /\ [Next]_launchVars => EndInv'
<1> SUFFICES ASSUME EndInv, [Next]_launchVars PROVE EndInv'
  OBVIOUS
<1>1. WritersInv'
  BY WritersStep DEF EndInv
<1>2. ASSUME UNCHANGED <<runs, controls, world>>, late' = late \/ late' = <<>>,
             op' = Idle
      PROVE  EndInv'
  <2>1. restored' = restored
    BY <1>2 DEF world
  <2>2. \A u \in Tasks : Fits(u, controls[u])'
    BY <1>2, <2>1, SameWorld, RowFacts, StableFits
  <2>3. late' # <<>> /\ late'[1].kind = "save" =>
          late'[1].task \in runs' /\ Fits(late[1].task, late[1].state)'
    <3> SUFFICES ASSUME late # <<>>, late' = late, late[1].kind = "save"
                 PROVE  late'[1].task \in runs' /\ Fits(late[1].task, late[1].state)'
      BY <1>2
    <3>1. late[1] \in StoreRequests
      BY DEF EndInv, WritersInv, SignalInv, TypeInv
    <3>2. /\ late[1].task \in Tasks /\ late[1].state \in ControlStates
          /\ late[1].task \in runs /\ Fits(late[1].task, late[1].state)
      BY <3>1 DEF StoreRequests, EndInv
    <3> QED BY <1>2, <2>1, <3>2, SameWorld, StableFits
  <2> QED BY <1>1, <1>2, <2>2, <2>3, SameWorld DEF EndInv
<1>3. CASE Begin
  BY <1>1, <1>3, LaunchNewEnds, LaunchAgainEnds, BeginEndEnds, BeginAttachEnds DEF Begin
<1>4. CASE Step
  BY <1>1, <1>4, CreateHandoffEnds, StartUnitEnds, IdentifyServerEnds, SaveInvocationEnds,
    StartPaneEnds, FinishLaunchEnds, AlreadyEndedEnds, TerminatePaneEnds, TerminateServerEnds,
    ServerExitedEnds, SaveStoppedEnds, StartTerminalEnds, SaveTerminalEnds, SaveWindowEnds
    DEF Step
<1>5. CASE Environment
  BY <1>1, <1>5, EnvironmentEnds
<1>6. CASE Abandon \/ Crash
  BY <1>2, <1>6 DEF Abandon, Crash, database, desktop, history, world, processes, requests
<1>7. CASE ExecuteLate \/ Restore
  BY <1>1, <1>7, ExecuteLateEnds, RestoreEnds
<1>8. CASE Backup
  BY <1>2, <1>8 DEF Backup, database, desktop, world, processes, requests
<1>9. CASE UNCHANGED launchVars
  <2>1. UNCHANGED <<runs, controls, late, op, world>>
    BY <1>9 DEF launchVars, database, desktop, history, world, processes, requests
  <2>2. CASE op = Idle
    BY <1>2, <2>1, <2>2
  <2>3. CASE op # Idle
    <3>1. Current(op)'
      BY <2>1, <2>3, Busy DEF Current, Dying, NothingLeft, world, processes, requests
    <3> QED BY <1>1, <2>1, <2>3, <3>1, Busy, FinishQuiet
  <2> QED BY <2>2, <2>3
<1> QED BY <1>3, <1>4, <1>5, <1>6, <1>7, <1>8, <1>9 DEF Next

LEMMA EndInit == Init => EndInv
<1> SUFFICES ASSUME Init PROVE EndInv
  OBVIOUS
<1>1. WritersInv
  BY SignalInit DEF Init, WritersInv, WritersAcknowledged
<1>2. ProcessTypes
  BY LaunchAssumption DEF Init, ProcessTypes, Phases
<1>3. \A t \in Tasks : PanesConsistent(t)
  BY DEF Init, PanesConsistent, Harness, Live
<1>4. \A t \in Tasks : Fits(t, controls[t])
  BY DEF Init, Fits, FreshControl, NoTerminal, Tracks
<1> QED BY <1>1, <1>2, <1>3, <1>4 DEF Init, EndInv

\* StoppedMeansGone: when `manager/controls.rs` records a run as stopped there is
\* no server, pane or harness of it, and nothing that was asked for brings one
\* back.
THEOREM StoppedRunsAreGone == Spec => []StoppedMeansGone
<1>1. EndInv => StoppedMeansGone
  BY DEF EndInv, Fits, NothingLeft, StoppedMeansGone
<1> QED BY <1>1, EndInit, EndStep, PTL DEF Spec

\* TerminalTracked: the terminals that `runtime/terminal.rs` opens are those on
\* record, so attaching again finds them.
THEOREM TerminalsAreTracked == Spec => []TerminalTracked
<1>1. EndInv => TerminalTracked
  BY DEF EndInv, Fits, Tracks, TerminalTracked
<1> QED BY <1>1, EndInit, EndStep, PTL DEF Spec
=============================================================================
