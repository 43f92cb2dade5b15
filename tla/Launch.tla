-------------------------------- MODULE Launch --------------------------------
(***************************************************************************)
(* Managed runs: launching, retrying, attaching to and ending one runtime  *)
(* per task (`manager/launch.rs`, `manager/controls.rs`), the rows the      *)
(* database keeps of them (`storage/runners.rs`,                            *)
(* `storage/runtime_control.rs`), the one-use handoff                       *)
(* (`runtime/handoff.rs`) and the ownership checks (`runtime/ownership.rs`).*)
(*                                                                         *)
(* One thread executes one request at a time (`op`); the manager can crash *)
(* between any two of its external effects.  A database request whose      *)
(* answer is not awaited for more than five seconds stays queued and is    *)
(* executed later (`late`).  Whatever the thread asks of systemd, tmux or  *)
(* the database can fail: Abandon.                                         *)
(*                                                                         *)
(* Abstractions.  A run is named by its task.  The identity of a server,   *)
(* of its invocation and of its only pane is the number of the start of    *)
(* the unit; a terminal is a pair of nonce and process.  systemd serves    *)
(* requests in the order it received them, so a query that is answered     *)
(* comes after every start (Answers); tmux may run a request late.  Every  *)
(* process may exit at any time, and a harness may outlive its server.     *)
(* Records of project, preset and task do not change after registration,   *)
(* and all projects have one identity.                                     *)
(***************************************************************************)
EXTENDS Naturals, Sequences, FiniteSets

CONSTANTS
  Tasks,
  MaxRuns,         \* MAX_MANAGED_RUNS
  MaxServers,      \* bound on the servers started for all runs
  MaxTerminals,    \* bound on the terminals started for all runs
  MaxJobs,         \* bound on the starts systemd has not served
  MaxLate,         \* bound on the database requests given up
  MaxCrashes       \* bound on the crashes of the manager

ASSUME LaunchAssumption ==
  /\ IsFiniteSet(Tasks)
  /\ MaxRuns \in Nat /\ MaxServers \in Nat /\ MaxTerminals \in Nat
  /\ MaxJobs \in Nat /\ MaxLate \in Nat /\ MaxCrashes \in Nat

VARIABLES
  \* the database
  runs,           \* tasks that have a run
  recorded,       \* task |-> the server its run has identified, 0 for none yet
  controls,       \* task |-> its ControlState
  late,           \* requests the database has accepted and not executed
  \* the runtime directory of a run
  handoff,        \* task |-> "none", "partial", "ready" (launch.json) or "claimed"
  \* systemd, tmux and their processes
  server,         \* task |-> the server its active unit runs, 0 for no active unit
  panes,          \* task |-> server |-> phase of the process in its pane
  asked,          \* task |-> servers with an unserved new-session request
  jobs,           \* task |-> starts of the unit systemd has not served
  terminals,      \* task |-> terminals alive
  opening,        \* task |-> nonces of terminal units systemd has not served
  servers, opened, nonces, \* servers and terminals started, nonces drawn so far
  \* the thread
  op,
  \* history
  acknowledged,   \* tasks launched with --allow-shared-checkout
  executions,     \* task |-> times a harness was executed
  backedUp,       \* a backup holds every run, none of them identified
  restored,       \* it has been restored, at most once
  crashes

database == <<runs, recorded, controls, late>>
processes == <<server, panes, servers, executions>>
requests == <<asked, jobs, opening>>
desktop == <<terminals, opened, nonces>>
history == <<acknowledged, backedUp, restored, crashes>>
launchVars == <<database, handoff, processes, requests, desktop, op, history>>

Servers == 1..MaxServers
Phases == {"none", "worker", "harness", "dead"}
NoTerminal == [nonce |-> 0, process |-> 0, window |-> FALSE]

\* ControlState::new
FreshControl == [invocation |-> 0, pane |-> 0, terminal |-> NoTerminal,
                 ending |-> FALSE, stopped |-> FALSE]

Idle == [at |-> "idle"]

At(step, t, n, state) == [at |-> step, task |-> t, server |-> n, state |-> state]

Live(phase) == phase \in {"worker", "harness"}

-----------------------------------------------------------------------------
(* The database *)

SaveAccepted(old, new) ==
  /\ old.invocation # 0 => new.invocation = old.invocation
  /\ old.pane # 0 => new.pane = old.pane
  /\ old.stopped => new.stopped
  /\ old.ending => new.ending
  /\ old.terminal # NoTerminal /\ old.terminal.process = 0
       => new.terminal.nonce = old.terminal.nonce

\* ControlState::validate
WellFormed(state) ==
  /\ state.pane # 0 => state.invocation # 0
  /\ state.terminal # NoTerminal => state.pane # 0
  /\ state.stopped => state.ending
  /\ state.terminal.window => state.terminal.process # 0

Acceptable(r) ==
  CASE r.kind = "reserve"  -> TRUE
    [] r.kind = "identify" -> r.task \in runs /\ recorded[r.task] \in {0, r.server}
    [] r.kind = "save"     -> WellFormed(r.state) /\ SaveAccepted(controls[r.task], r.state)

Execute(r) ==
  CASE r.kind = "reserve" ->
         IF r.task \in runs \/ Cardinality(runs) >= MaxRuns
         THEN UNCHANGED <<runs, recorded, controls, acknowledged, backedUp>>
         ELSE /\ runs' = runs \cup {r.task}
              /\ controls' = [controls EXCEPT ![r.task] = FreshControl]
              /\ acknowledged' = IF r.shared THEN acknowledged \cup {r.task} ELSE acknowledged
              /\ backedUp' = FALSE /\ UNCHANGED recorded
    [] r.kind = "identify" ->
         /\ recorded' = IF Acceptable(r) THEN [recorded EXCEPT ![r.task] = r.server] ELSE recorded
         /\ UNCHANGED <<runs, controls, acknowledged, backedUp>>
    [] r.kind = "save" ->
         /\ controls' = IF Acceptable(r) THEN [controls EXCEPT ![r.task] = r.state] ELSE controls
         /\ UNCHANGED <<runs, recorded, acknowledged, backedUp>>

Reserve(t, shared) == [kind |-> "reserve", task |-> t, shared |-> shared]
Identify(t, n) == [kind |-> "identify", task |-> t, server |-> n]
Save(t, state) == [kind |-> "save", task |-> t, state |-> state]

\* The database answers: it executes requests in the order they were queued.
InOrder == late = <<>>

\* Mutant: a request that is given up counts as done.
AfterGivingUpContinues(next) == next

\* The request of the thread stays queued and the operation is over.
AfterGivingUp(next) == Idle

\* `submit`: the request is executed and answered, or given up and executed later.
Submit(r, next) ==
  \/ InOrder /\ Acceptable(r) /\ Execute(r) /\ op' = next /\ UNCHANGED late
  \/ /\ Len(late) < MaxLate
     /\ late' = Append(late, r) /\ op' = AfterGivingUp(next)
     /\ UNCHANGED <<runs, recorded, controls, acknowledged, backedUp>>

ExecuteLate ==
  /\ late # <<>>
  /\ Execute(Head(late))
  /\ late' = Tail(late)
  /\ UNCHANGED <<handoff, processes, requests, desktop, op, restored, crashes>>

\* Mutant: only identified runs count as writers.
OtherWritersIdentified(t) == \E u \in Tasks \ {t} : recorded[u] # 0 /\ ~controls[u].stopped

OtherWriters(t) == \E u \in runs \ {t} : ~controls[u].stopped

-----------------------------------------------------------------------------
(* What the manager observes of systemd and tmux *)

Answers(t) == jobs[t] = 0

OwnedServer(t, saved, state) ==
  /\ Answers(t)
  /\ server[t] # 0
  /\ state.invocation \in {0, server[t]}
  /\ saved \in {0, server[t]}

SeesPane(t) == panes[t][server[t]] # "none"

OwnedPane(t, saved, state) ==
  /\ OwnedServer(t, saved, state)
  /\ Live(panes[t][server[t]])
  /\ state.pane \in {0, server[t]}

\* `reconcile` on success
Reconciled(t, state) == [state EXCEPT !.invocation = server[t], !.pane = server[t]]

Exited(t, n) == n # 0 /\ server[t] # n
PaneExited(t, n) == n # 0 /\ ~Live(panes[t][n])

\* Mutant: the pane is not looked at.
EndCompleteByServer(t, n, state) ==
  state.ending /\ Exited(t, n) /\ state.pane # 0 /\ Answers(t) /\ server[t] = 0

EndComplete(t, n, state) ==
  /\ state.ending
  /\ Exited(t, n)
  /\ PaneExited(t, state.pane)
  /\ Answers(t) /\ server[t] = 0

-----------------------------------------------------------------------------
(* Launch and retry *)

\* A task without a run: a reservation, unless another run may write the project.
LaunchNew(t, shared) ==
  /\ op = Idle
  /\ InOrder
  /\ t \notin runs
  /\ ~shared => ~OtherWriters(t)
  /\ Cardinality(runs) < MaxRuns
  /\ Submit(Reserve(t, shared), At("retry", t, 0, FreshControl))
  /\ UNCHANGED <<handoff, processes, requests, desktop, restored, crashes>>

\* A run that is over, or whose server is gone, is only observed.
LaunchAgain(t) ==
  /\ op = Idle
  /\ InOrder
  /\ t \in runs
  /\ ~controls[t].stopped /\ ~controls[t].ending
  /\ recorded[t] = 0 \/ recorded[t] = server[t]
  /\ op' = At(IF recorded[t] = 0 THEN "retry" ELSE "pane", t, recorded[t], controls[t])
  /\ UNCHANGED <<database, handoff, processes, requests, desktop, history>>

\* Mutant: a claimed handoff is written again.
HandoffUsableAgain(t) == handoff[t] \in {"none", "ready", "claimed"}

\* `handoff::create`: claimed metadata ends the attempt, unreadable metadata too.
HandoffUsable(t) == handoff[t] \in {"none", "ready"}

\* The file is created and written: a crash between leaves what cannot be read.
CreateHandoff ==
  /\ op.at = "retry"
  /\ HandoffUsable(op.task)
  /\ \/ handoff' = [handoff EXCEPT ![op.task] = "ready"] /\ op' = [op EXCEPT !.at = "start"]
     \/ /\ handoff[op.task] # "ready"
        /\ handoff' = [handoff EXCEPT ![op.task] = "partial"] /\ op' = Idle
  /\ UNCHANGED <<database, processes, requests, desktop, history>>

\* systemd-run, whose exit status is not looked at.
StartUnit ==
  /\ op.at = "start"
  /\ jobs[op.task] < MaxJobs
  /\ jobs' = [jobs EXCEPT ![op.task] = @ + 1]
  /\ op' = [op EXCEPT !.at = "identify"]
  /\ UNCHANGED <<database, handoff, processes, asked, opening, desktop, history>>

\* Before a start, when an earlier attempt is found running, and after one.
IdentifyServer ==
  /\ op.at \in {"retry", "identify"}
  /\ LET t == op.task
         n == server[t]
     IN  /\ OwnedServer(t, op.server, op.state)
         /\ Submit(Identify(t, n), At("identified", t, n, [op.state EXCEPT !.invocation = n]))
  /\ UNCHANGED <<handoff, processes, requests, desktop, restored, crashes>>

SaveInvocation ==
  /\ op.at = "identified"
  /\ Submit(Save(op.task, op.state), [op EXCEPT !.at = "pane"])
  /\ UNCHANGED <<handoff, processes, requests, desktop, restored, crashes>>

\* `ensure_pane` without a pane: only while the handoff waits to be claimed.
StartPane ==
  /\ op.at = "pane"
  /\ LET t == op.task
     IN  /\ OwnedServer(t, op.server, op.state)
         /\ ~SeesPane(t)
         /\ handoff[t] = "ready"
         /\ asked' = [asked EXCEPT ![t] = @ \cup {server[t]}]
  /\ op' = [op EXCEPT !.at = "paneAsked"]
  /\ UNCHANGED <<database, handoff, processes, jobs, opening, desktop, history>>

\* A pane is there; what `reconcile` finds is saved, and nothing if it fails.
FinishLaunch ==
  /\ op.at \in {"pane", "paneAsked"}
  /\ LET t == op.task
     IN  /\ OwnedServer(t, op.server, op.state)
         /\ SeesPane(t)
         /\ \/ /\ OwnedPane(t, op.server, op.state)
               /\ Submit(Save(t, Reconciled(t, op.state)), Idle)
            \/ Submit(Save(t, op.state), Idle)
  /\ UNCHANGED <<handoff, processes, requests, desktop, restored, crashes>>

-----------------------------------------------------------------------------
(* End *)

BeginEnd(t) ==
  /\ op = Idle
  /\ InOrder
  /\ t \in runs
  /\ ~controls[t].stopped
  /\ controls[t].pane = 0 => OwnedPane(t, recorded[t], controls[t])
  /\ LET known == IF controls[t].pane = 0 THEN Reconciled(t, controls[t]) ELSE controls[t]
         state == [known EXCEPT !.ending = TRUE]
     IN  Submit(Save(t, state), At("ending", t, recorded[t], state))
  /\ UNCHANGED <<handoff, processes, requests, desktop, restored, crashes>>

AlreadyEnded ==
  /\ op.at = "ending"
  /\ EndComplete(op.task, op.server, op.state)
  /\ op' = [op EXCEPT !.at = "ended"]
  /\ UNCHANGED <<database, handoff, processes, requests, desktop, history>>

\* `end_target` holds the pane; the signal is refused when the pane has exited.
TerminatePane ==
  /\ op.at = "ending"
  /\ LET t == op.task
     IN  /\ OwnedPane(t, op.server, op.state)
         /\ op' = [op EXCEPT !.at = "paneSignalled", !.server = server[t]]
  /\ UNCHANGED <<database, handoff, processes, requests, desktop, history>>

\* The saved pane is there and dead (`matching_dead_pane`).
PaneDone(t, n) == n = server[t] /\ panes[t][n] = "dead"

TerminateServer ==
  /\ op.at \in {"ending", "paneSignalled"}
  /\ LET t == op.task
     IN  /\ OwnedServer(t, op.server, op.state)
         /\ PaneDone(t, op.state.pane)
         /\ op' = [op EXCEPT !.at = "serverSignalled", !.server = server[t]]
  /\ UNCHANGED <<database, handoff, processes, requests, desktop, history>>

ServerExited ==
  /\ op.at = "serverSignalled"
  /\ Exited(op.task, op.server)
  /\ op' = [op EXCEPT !.at = "ended"]
  /\ UNCHANGED <<database, handoff, processes, requests, desktop, history>>

SaveStopped ==
  /\ op.at = "ended"
  /\ Submit(Save(op.task, [op.state EXCEPT !.stopped = TRUE]), Idle)
  /\ UNCHANGED <<handoff, processes, requests, desktop, restored, crashes>>

-----------------------------------------------------------------------------
(* Attach *)

Gone(t, terminal) == \A x \in terminals[t] : x.process # terminal.process

\* Mutant: a terminal whose process is known is taken for gone.
KeptIntentUnlessKnown(t, terminal) == IF terminal.process # 0 THEN NoTerminal ELSE terminal

\* The intent that goes on: a terminal that is gone is forgotten.
KeptIntent(t, terminal) ==
  IF terminal.process # 0 /\ Gone(t, terminal) THEN NoTerminal ELSE terminal

BeginAttach(t) ==
  /\ op = Idle
  /\ InOrder
  /\ t \in runs
  /\ ~controls[t].stopped /\ ~controls[t].ending
  /\ OwnedPane(t, recorded[t], controls[t])
  /\ LET kept == KeptIntent(t, controls[t].terminal)
         fresh == [nonce |-> nonces + 1, process |-> 0, window |-> FALSE]
         state == [Reconciled(t, controls[t]) EXCEPT
                     !.terminal = IF kept = NoTerminal THEN fresh ELSE kept]
     IN  /\ kept = NoTerminal => nonces < MaxTerminals
         /\ nonces' = IF kept = NoTerminal THEN nonces + 1 ELSE nonces
         /\ Submit(Save(t, state), At("attach", t, recorded[t], state))
  /\ UNCHANGED <<handoff, processes, requests, terminals, opened, restored, crashes>>

\* Alone when the unit of the intent is not found and no process of it was saved.
StartTerminal ==
  /\ op.at = "attach"
  /\ LET t == op.task
     IN  /\ OwnedPane(t, op.server, op.state)
         /\ op.state.terminal.process = 0
         /\ Len(opening[t]) < MaxJobs
         /\ opening' = [opening EXCEPT ![t] = Append(@, op.state.terminal.nonce)]
  /\ op' = [op EXCEPT !.at = "opening"]
  /\ UNCHANGED <<database, handoff, processes, asked, jobs, desktop, history>>

\* `terminal_process`: the unit of the nonce, and the process saved if any.
TerminalOf(t, intent) ==
  {x \in terminals[t] : /\ opening[t] = <<>>
                        /\ x.nonce = intent.nonce
                        /\ intent.process \in {0, x.process}}

SaveTerminal ==
  /\ op.at \in {"attach", "opening"}
  /\ op.at = "attach" => OwnedPane(op.task, op.server, op.state)
  /\ \E x \in TerminalOf(op.task, op.state.terminal) :
       LET state == [op.state EXCEPT !.terminal.process = x.process]
       IN  Submit(Save(op.task, state), [op EXCEPT !.at = "associate", !.state = state])
  /\ UNCHANGED <<handoff, processes, requests, desktop, restored, crashes>>

\* `wait_association`, then the window is saved.
SaveWindow ==
  /\ op.at = "associate"
  /\ OwnedPane(op.task, op.server, op.state)
  /\ TerminalOf(op.task, op.state.terminal) # {}
  /\ Submit(Save(op.task, [op.state EXCEPT !.terminal.window = TRUE]), Idle)
  /\ UNCHANGED <<handoff, processes, requests, desktop, restored, crashes>>

-----------------------------------------------------------------------------
(* The operation fails: a query, a check or a read that does not succeed. *)

Abandon ==
  /\ op # Idle
  /\ op' = Idle
  /\ UNCHANGED <<database, handoff, processes, requests, desktop, history>>

(* The manager dies: what the database had accepted is lost. *)

Crash ==
  /\ crashes < MaxCrashes
  /\ crashes' = crashes + 1
  /\ op' = Idle /\ late' = <<>>
  /\ UNCHANGED <<runs, recorded, controls, handoff, processes, requests, desktop,
                 acknowledged, backedUp, restored>>

(* A backup that knows of the reservations only, and its restoration. *)

Backup ==
  /\ op = Idle /\ late = <<>> /\ ~backedUp
  /\ runs # {}
  /\ \A t \in runs : recorded[t] = 0 /\ controls[t] = FreshControl
  /\ backedUp' = TRUE
  /\ UNCHANGED <<database, handoff, processes, requests, desktop, op, acknowledged,
                 restored, crashes>>

Restore ==
  /\ op = Idle /\ late = <<>> /\ backedUp /\ ~restored
  /\ restored' = TRUE
  /\ recorded' = [t \in Tasks |-> 0]
  /\ controls' = [t \in Tasks |-> FreshControl]
  /\ UNCHANGED <<runs, late, handoff, processes, requests, desktop, op, acknowledged,
                 backedUp, crashes>>

-----------------------------------------------------------------------------
(* systemd, tmux and the processes *)

ServeStart(t) ==
  /\ jobs[t] > 0
  /\ jobs' = [jobs EXCEPT ![t] = @ - 1]
  /\ IF server[t] = 0
     THEN /\ servers < MaxServers
          /\ server' = [server EXCEPT ![t] = servers + 1]
          /\ servers' = servers + 1
     ELSE UNCHANGED <<server, servers>>
  /\ UNCHANGED <<database, handoff, panes, executions, asked, opening, desktop, op, history>>

\* A new session is refused when there is one.
ServeSession(t) ==
  /\ server[t] # 0
  /\ server[t] \in asked[t]
  /\ asked' = [asked EXCEPT ![t] = @ \ {server[t]}]
  /\ panes' = IF SeesPane(t) THEN panes ELSE [panes EXCEPT ![t][server[t]] = "worker"]
  /\ UNCHANGED <<database, handoff, server, servers, executions, jobs, opening, desktop,
                 op, history>>

\* `handoff::worker` claims the metadata by renaming it, then becomes the harness.
Claim(t, n) ==
  /\ panes[t][n] = "worker"
  /\ IF handoff[t] = "ready"
     THEN /\ handoff' = [handoff EXCEPT ![t] = "claimed"]
          /\ \/ /\ panes' = [panes EXCEPT ![t][n] = "harness"]
                /\ executions' = [executions EXCEPT ![t] = @ + 1]
             \/ /\ panes' = [panes EXCEPT ![t][n] = "dead"]
                /\ UNCHANGED executions
     ELSE /\ panes' = [panes EXCEPT ![t][n] = "dead"]
          /\ UNCHANGED <<handoff, executions>>
  /\ UNCHANGED <<database, server, servers, requests, desktop, op, history>>

\* A dead pane stays while its server lives.
PaneExits(t, n) ==
  /\ Live(panes[t][n])
  /\ panes' = [panes EXCEPT ![t][n] = IF server[t] = n THEN "dead" ELSE "none"]
  /\ UNCHANGED <<database, handoff, server, servers, executions, requests, desktop, op, history>>

\* A worker does not survive the hangup, a harness may.
ServerExits(t) ==
  /\ server[t] # 0
  /\ LET n == server[t]
     IN  \E phase \in {"none", panes[t][n]} :
           /\ phase \in {"none", "harness"}
           /\ panes' = [panes EXCEPT ![t][n] = phase]
           /\ asked' = [asked EXCEPT ![t] = @ \ {n}]
  /\ server' = [server EXCEPT ![t] = 0]
  /\ UNCHANGED <<database, handoff, servers, executions, jobs, opening, desktop, op, history>>

ServeTerminal(t) ==
  /\ opening[t] # <<>>
  /\ opening' = [opening EXCEPT ![t] = Tail(@)]
  /\ IF \E x \in terminals[t] : x.nonce = Head(opening[t])
     THEN UNCHANGED <<terminals, opened>>
     ELSE /\ opened < MaxTerminals
          /\ opened' = opened + 1
          /\ terminals' = [terminals EXCEPT
               ![t] = @ \cup {[nonce |-> Head(opening[t]), process |-> opened + 1]}]
  /\ UNCHANGED <<database, handoff, processes, asked, jobs, nonces, op, history>>

TerminalCloses(t) ==
  /\ \E x \in terminals[t] : terminals' = [terminals EXCEPT ![t] = @ \ {x}]
  /\ UNCHANGED <<database, handoff, processes, requests, opened, nonces, op, history>>

-----------------------------------------------------------------------------
Init ==
  /\ runs = {} /\ recorded = [t \in Tasks |-> 0] /\ controls = [t \in Tasks |-> FreshControl]
  /\ late = <<>>
  /\ handoff = [t \in Tasks |-> "none"]
  /\ server = [t \in Tasks |-> 0]
  /\ panes = [t \in Tasks |-> [n \in Servers |-> "none"]]
  /\ asked = [t \in Tasks |-> {}] /\ jobs = [t \in Tasks |-> 0]
  /\ terminals = [t \in Tasks |-> {}] /\ opening = [t \in Tasks |-> <<>>]
  /\ servers = 0 /\ opened = 0 /\ nonces = 0
  /\ op = Idle
  /\ acknowledged = {} /\ executions = [t \in Tasks |-> 0]
  /\ backedUp = FALSE
  /\ restored = FALSE /\ crashes = 0

Begin ==
  \E t \in Tasks :
    \/ \E shared \in BOOLEAN : LaunchNew(t, shared)
    \/ LaunchAgain(t) \/ BeginEnd(t) \/ BeginAttach(t)

Step ==
  \/ CreateHandoff \/ StartUnit \/ IdentifyServer \/ SaveInvocation \/ StartPane
  \/ FinishLaunch
  \/ AlreadyEnded \/ TerminatePane \/ TerminateServer \/ ServerExited \/ SaveStopped
  \/ StartTerminal \/ SaveTerminal \/ SaveWindow

Environment ==
  \E t \in Tasks :
    \/ ServeStart(t) \/ ServeSession(t) \/ ServerExits(t)
    \/ \E n \in Servers : Claim(t, n) \/ PaneExits(t, n)
    \/ ServeTerminal(t) \/ TerminalCloses(t)

Next ==
  \/ Begin \/ Step \/ Environment
  \/ Abandon \/ ExecuteLate \/ Crash \/ Backup \/ Restore

Spec == Init /\ [][Next]_launchVars

-----------------------------------------------------------------------------
(* Properties *)

\* The metadata of a run is handed to at most one harness, whatever is
\* retried, delayed, crashed or restored from a backup.
HandoffOnce == \A t \in Tasks : executions[t] <= 1

\* A run recorded as stopped has no server, pane or harness left, and no
\* request that was sent for it can bring one back.
StoppedMeansGone ==
  \A t \in Tasks :
    controls[t].stopped =>
      server[t] = 0 /\ jobs[t] = 0 /\ \A n \in Servers : ~Live(panes[t][n])

\* A signal is sent only to the pane and to the server of the invocation on
\* record, after the intent to end the run is durable.
SignalsIntended ==
  [][op'.at # op.at =>
       /\ op'.at = "paneSignalled" =>
            controls[op'.task].ending /\ controls[op'.task].pane = op'.server
       /\ op'.at = "serverSignalled" =>
            controls[op'.task].ending /\ controls[op'.task].invocation = op'.server]_launchVars

\* Every terminal that is open, or about to be, is the one on record: attaching
\* again never leaves one behind.  Restoring an older backup may.
TerminalTracked ==
  ~restored => \A t \in Tasks :
    /\ \A x \in terminals[t] : x.nonce = controls[t].terminal.nonce
    /\ \A i \in DOMAIN opening[t] : opening[t][i] = controls[t].terminal.nonce

\* Of two runs that may write one project, one was launched with the
\* acknowledgement that the project is shared.
WritersAcknowledged ==
  \A t, u \in runs :
    /\ t # u
    /\ ~controls[t].stopped /\ ~controls[u].stopped
    => t \in acknowledged \/ u \in acknowledged
=============================================================================
