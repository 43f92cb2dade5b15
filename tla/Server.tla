-------------------------------- MODULE Server --------------------------------
(***************************************************************************)
(* The manager as its clients see it: private sockets, sessions and their  *)
(* reactor, the queue of accepted work, the one thread that executes it    *)
(* and the requests it sends to the database; stopping, crashing and       *)
(* starting again (`manager/server.rs`, `manager/server/session.rs`,       *)
(* `manager/operations.rs`, `manager/client.rs`, `ipc/connection.rs`,      *)
(* `ipc/paths.rs`, `storage/worker.rs`).                                   *)
(*                                                                         *)
(* Three threads of a manager run concurrently: the reactor, the worker    *)
(* and the database.  Managers of one user start one after the other, a    *)
(* new one possibly while an old one still drains its queue.               *)
(*                                                                         *)
(* Abstractions.  A request is a number in the order of sending.  It asks  *)
(* for the status, changes the state by one write, or stops the manager;   *)
(* the writes of one operation are the subject of Launch.  Deadlines may   *)
(* pass at any time.  Event connections are accepted and dropped unread.   *)
(***************************************************************************)
EXTENDS Naturals, Sequences, FiniteSets, SequencesExt

CONSTANTS
  MaxRequests,     \* bound on the requests sent
  MaxManagers,     \* bound on the managers started
  MaxConnections,  \* the reactor's ConnectionBudget
  QueueSize,       \* capacity of the channel of accepted work
  MaxOutstanding,  \* capacity of the database worker
  MaxCrashes       \* bound on crashes

ASSUME ServerAssumption ==
  /\ MaxRequests \in Nat /\ MaxManagers \in Nat \ {0} /\ MaxCrashes \in Nat
  /\ MaxConnections \in Nat /\ QueueSize \in Nat /\ MaxOutstanding \in Nat

VARIABLES
  requests,   \* the requests sent, with what their clients were told
  sessions,   \* request |-> where its session is, "none" when it has ended
  reactor,    \* manager |-> "off", "serving", "stopping", "draining", "closing", "over"
  queue,      \* manager |-> accepted work, oldest first
  worker,     \* manager |-> the work it executes: [request, at], or Idle
  replies,    \* request |-> the reply its session waits for or writes, or NoReply
  database,   \* manager |-> requests its database worker holds, oldest first
  revision,   \* of the database
  lock,       \* the manager whose database worker owns the database, or 0
  sockets,    \* the manager whose sockets are bound, 0 for none, Stale
  crashed     \* managers that were killed

vars == <<requests, sessions, reactor, queue, worker, replies, database, revision,
          lock, sockets, crashed>>

served == <<requests, sessions>>
executing == <<queue, worker, database>>
ownership == <<reactor, lock, sockets>>

Managers == 1..MaxManagers
Requests == DOMAIN requests
Kinds == {"status", "change", "stop"}

Stale == MaxManagers + 1
Idle == [request |-> 0, at |-> "idle"]
NoReply == [status |-> "none", revision |-> 0]

Told(r) == requests[r].answer.status # "none"

\* Revisions some client has been told; every client knows the first.
Seen == {0} \cup {requests[r].answer.revision : r \in {q \in Requests : requests[q].answer.status = "ok"}}

Answer(r, answer) == requests' = [requests EXCEPT ![r].answer = answer]

\* An error, an unknown outcome, or a stream that ends before the reply.
Failed == [status |-> "failed", revision |-> 0]

Sessions(m) == {r \in Requests : requests[r].manager = m /\ sessions[r] # "none"}
Backlog(m) == {r \in Sessions(m) : sessions[r] = "backlog"}
Connected(m) == Sessions(m) \ Backlog(m)

\* Sessions end without an answer: the client reads the end of the stream.
Dropped(rs) ==
  /\ sessions' = [r \in DOMAIN sessions |-> IF r \in rs THEN "none" ELSE sessions[r]]
  /\ requests' = [r \in Requests |->
       IF r \in rs THEN [requests[r] EXCEPT !.answer = Failed] ELSE requests[r]]
  /\ replies' = [r \in Requests |-> IF r \in rs THEN NoReply ELSE replies[r]]

-----------------------------------------------------------------------------
(* Clients *)

\* `client::send`: a stateful request carries a revision its client has seen.
Send(kind) ==
  /\ Len(requests) < MaxRequests
  /\ sockets \in Managers
  /\ \E seen \in IF kind = "status" THEN {0} ELSE Seen :
       requests' = Append(requests,
         [kind |-> kind, expected |-> seen, manager |-> sockets, answer |-> NoReply,
          after |-> {r \in Requests : Told(r)}])
  /\ sessions' = Append(sessions, "backlog")
  /\ replies' = Append(replies, NoReply)
  /\ UNCHANGED <<ownership, executing, revision, crashed>>

-----------------------------------------------------------------------------
(* The reactor *)

\* `serve`: the database is opened, which takes its lock, then the sockets are
\* bound; an existing socket ends the start.
\* Mutant: the database is released with the sockets.
ReleasedEarly == \A m \in Managers : reactor[m] \notin {"serving", "stopping"}

Released == lock = 0

Start(m) ==
  /\ reactor[m] = "off" /\ \A n \in 1..m - 1 : reactor[n] # "off"
  /\ Released /\ sockets = 0
  /\ lock' = m /\ sockets' = m
  /\ reactor' = [reactor EXCEPT ![m] = "serving"]
  /\ UNCHANGED <<served, executing, replies, revision, crashed>>

Signal(m) ==
  /\ reactor[m] = "serving"
  /\ reactor' = [reactor EXCEPT ![m] = "stopping"]
  /\ UNCHANGED <<served, executing, replies, revision, lock, sockets, crashed>>

\* The oldest connection is accepted, or dropped when the budget is exhausted.
Accept(m) ==
  /\ reactor[m] = "serving"
  /\ \E r \in Backlog(m) :
       /\ \A q \in Backlog(m) : r <= q
       /\ IF Cardinality(Connected(m)) < MaxConnections
          THEN sessions' = [sessions EXCEPT ![r] = "open"] /\ UNCHANGED <<requests, replies>>
          ELSE Dropped({r})
  /\ UNCHANGED <<ownership, executing, revision, crashed>>

\* The frame is read and parsed, and the work is queued or refused.
Read(r) ==
  /\ sessions[r] = "open"
  /\ LET m == requests[r].manager IN
     IF Len(queue[m]) < QueueSize
     THEN /\ queue' = [queue EXCEPT ![m] = Append(@, r)]
          /\ sessions' = [sessions EXCEPT ![r] = "pending"]
          /\ UNCHANGED replies
     ELSE /\ replies' = [replies EXCEPT ![r] = Failed]
          /\ sessions' = [sessions EXCEPT ![r] = "responding"]
          /\ UNCHANGED queue
  /\ UNCHANGED <<requests, ownership, worker, database, revision, crashed>>

\* The worker's reply is fetched and queued for writing.
Respond(r) ==
  /\ sessions[r] = "pending" /\ replies[r] # NoReply
  /\ sessions' = [sessions EXCEPT ![r] = "responding"]
  /\ UNCHANGED <<requests, ownership, executing, replies, revision, crashed>>

\* Mutant: an answered stop is an answered request.
NeverStops(r) == FALSE

StopAccepted(r) == requests[r].kind = "stop" /\ replies[r].status = "ok"

\* The reply is written: a stop takes effect now.
Flush(r) ==
  /\ sessions[r] = "responding"
  /\ Answer(r, replies[r])
  /\ sessions' = [sessions EXCEPT ![r] = "none"]
  /\ replies' = [replies EXCEPT ![r] = NoReply]
  /\ LET m == requests[r].manager
     IN  reactor' = IF StopAccepted(r) THEN [reactor EXCEPT ![m] = "stopping"] ELSE reactor
  /\ UNCHANGED <<executing, revision, lock, sockets, crashed>>

\* A deadline, 25 seconds without a reply, a bad frame or a closed stream; the
\* work goes on.
EndSession(r) ==
  /\ sessions[r] \in {"open", "pending", "responding"}
  /\ Dropped({r})
  /\ UNCHANGED <<ownership, executing, revision, crashed>>

\* Stopping ends with the last session, or after five seconds; the sockets go
\* first, with the connections nobody has accepted.
EndReactor(m) ==
  /\ reactor[m] = "stopping"
  /\ reactor' = [reactor EXCEPT ![m] = "draining"]
  /\ sockets' = IF sockets = m THEN 0 ELSE sockets
  /\ Dropped(Sessions(m))
  /\ UNCHANGED <<executing, revision, lock, crashed>>

-----------------------------------------------------------------------------
(* The worker *)

\* The operation is over; a session that has ended hears nothing of it.
Conclude(m, r, answer) ==
  /\ worker' = [worker EXCEPT ![m] = Idle]
  /\ replies' = IF sessions[r] = "pending" THEN [replies EXCEPT ![r] = answer] ELSE replies

\* `submit`: the database worker holds `held` and one request more.
Submit(m, r, step, held) ==
  /\ database' = [database EXCEPT ![m] = Append(held, [request |-> r, query |-> step])]
  /\ worker' = [worker EXCEPT ![m] = [request |-> r, at |-> step]]
  /\ UNCHANGED replies

\* Mutant: the revision is not compared.
FirstQueryUnchecked(kind) == IF kind = "change" THEN "write" ELSE "revision"

\* The first query of an operation: a stateful one compares the revision.
FirstQuery(kind) == IF kind = "status" THEN "revision" ELSE "check"

Take(m) ==
  /\ worker[m] = Idle /\ queue[m] # <<>> /\ reactor[m] # "over"
  /\ queue' = [queue EXCEPT ![m] = Tail(@)]
  /\ LET r == Head(queue[m])
     IN  IF Len(database[m]) < MaxOutstanding
         THEN Submit(m, r, FirstQuery(requests[r].kind), database[m])
         ELSE Conclude(m, r, Failed) /\ UNCHANGED database
  /\ UNCHANGED <<served, ownership, revision, crashed>>

\* An answer took more than five seconds; the request stays with the database.
GiveUp(m) ==
  /\ worker[m] # Idle
  /\ Conclude(m, worker[m].request, Failed)
  /\ UNCHANGED <<served, ownership, queue, database, revision, crashed>>

Drained(m) == queue[m] = <<>> /\ worker[m] = Idle

\* Mutant: the manager does not join its worker.
NotJoined(m) == reactor[m] = "draining"

Joined(m) == reactor[m] = "draining" /\ Drained(m)

\* The worker's channel is closed and empty.
EndWorker(m) ==
  /\ Joined(m)
  /\ reactor' = [reactor EXCEPT ![m] = "closing"]
  /\ UNCHANGED <<served, executing, replies, revision, lock, sockets, crashed>>

-----------------------------------------------------------------------------
(* The database *)

\* What the worker does with the answer it waits for: the next query or the end
\* of the operation.  The answered request was its last, so the next has room.
Answered(m, query, ok) ==
  LET r == worker[m].request
      rest == Tail(database[m])
      end(answer) == Conclude(m, r, answer) /\ database' = [database EXCEPT ![m] = rest]
      continue(step) == Submit(m, r, step, rest)
  IN  \/ ~ok /\ end(Failed)
      \/ ok /\ query = "check" /\ requests[r].expected # revision /\ end(Failed)
      \/ /\ ok /\ query = "check" /\ requests[r].expected = revision
         /\ continue(IF requests[r].kind = "change" THEN "write" ELSE "revision")
      \/ ok /\ query = "write" /\ continue("revision")
      \/ ok /\ query = "revision" /\ end([status |-> "ok", revision |-> revision])

\* The oldest request is executed or refused; a worker that has given it up
\* is not there to be answered.
Execute(m) ==
  /\ database[m] # <<>> /\ reactor[m] # "over"
  /\ \E ok \in BOOLEAN :
       LET head == Head(database[m])
       IN /\ revision' = IF ok /\ head.query = "write" THEN revision + 1 ELSE revision
          /\ IF worker[m] = [request |-> head.request, at |-> head.query]
             THEN Answered(m, head.query, ok)
             ELSE /\ database' = [database EXCEPT ![m] = Tail(@)]
                  /\ UNCHANGED <<worker, replies>>
  /\ UNCHANGED <<served, ownership, queue, crashed>>

\* The worker's end closes the database: what is queued may never execute.
CloseDatabase(m) ==
  /\ reactor[m] = "closing"
  /\ database' = [database EXCEPT ![m] = <<>>]
  /\ lock' = IF lock = m THEN 0 ELSE lock
  /\ reactor' = [reactor EXCEPT ![m] = "over"]
  /\ UNCHANGED <<served, queue, worker, replies, revision, sockets, crashed>>

-----------------------------------------------------------------------------
(* Faults *)

\* The process is killed: its lock goes, its sockets stay.
Crash(m) ==
  /\ reactor[m] \notin {"off", "over"} /\ Cardinality(crashed) < MaxCrashes
  /\ crashed' = crashed \cup {m}
  /\ reactor' = [reactor EXCEPT ![m] = "over"]
  /\ queue' = [queue EXCEPT ![m] = <<>>]
  /\ worker' = [worker EXCEPT ![m] = Idle]
  /\ database' = [database EXCEPT ![m] = <<>>]
  /\ lock' = IF lock = m THEN 0 ELSE lock
  /\ sockets' = IF sockets = m THEN Stale ELSE sockets
  /\ Dropped(Sessions(m))
  /\ UNCHANGED revision

\* The user removes the sockets a killed manager has left.
RemoveStale ==
  /\ sockets = Stale /\ sockets' = 0
  /\ UNCHANGED <<served, executing, replies, revision, reactor, lock, crashed>>

-----------------------------------------------------------------------------

Init ==
  /\ requests = <<>> /\ sessions = <<>> /\ replies = <<>>
  /\ reactor = [m \in Managers |-> "off"]
  /\ queue = [m \in Managers |-> <<>>]
  /\ worker = [m \in Managers |-> Idle]
  /\ database = [m \in Managers |-> <<>>]
  /\ revision = 0 /\ lock = 0 /\ sockets = 0
  /\ crashed = {}

Next ==
  \/ \E kind \in Kinds : Send(kind)
  \/ \E m \in Managers : Start(m) \/ Signal(m) \/ Accept(m) \/ EndReactor(m)
  \/ \E r \in Requests : Read(r) \/ Respond(r) \/ Flush(r) \/ EndSession(r)
  \/ \E m \in Managers : Take(m) \/ GiveUp(m) \/ EndWorker(m)
  \/ \E m \in Managers : Execute(m) \/ CloseDatabase(m)
  \/ \E m \in Managers : Crash(m)
  \/ RemoveStale

\* Every thread goes on, every deadline passes, the five seconds of a stop too.
\* Nothing is asked of clients, of signals or of the database's speed.
Fairness ==
  \A m \in Managers :
    /\ WF_vars(Take(m)) /\ WF_vars(GiveUp(m)) /\ WF_vars(EndWorker(m))
    /\ WF_vars(CloseDatabase(m)) /\ WF_vars(EndReactor(m))

Spec == Init /\ [][Next]_vars /\ Fairness

-----------------------------------------------------------------------------
(* The manager is one register of revisions *)

\* A change that was written while its worker waits; the worker reads the
\* revision now.
Written(r) ==
  requests[r].kind = "change"
    /\ \E m \in Managers : worker[m] = [request |-> r, at |-> "revision"]

\* The request may still take effect, whether or not its client waits.
Effective(r) ==
  \/ sessions[r] \in {"backlog", "open"}
  \/ \E m \in Managers :
       \/ r \in Range(queue[m]) \/ worker[m].request = r
       \/ \E i \in DOMAIN database[m] : database[m][i] = [request |-> r, query |-> "write"]

EffectOf(r) ==
  LET done(at) == [phase |-> "done", revision |-> at]
  IN  IF requests[r].answer.status = "ok" THEN done(requests[r].answer.revision)
      ELSE IF replies[r].status = "ok" THEN done(replies[r].revision)
      ELSE IF Written(r) THEN done(requests[r].expected + 1)
      ELSE [phase |-> IF Effective(r) THEN "open" ELSE "over", revision |-> 0]

CallOf(r) ==
  IF r \in Requests
  THEN [kind |-> requests[r].kind, expected |-> requests[r].expected,
        after |-> requests[r].after, effect |-> EffectOf(r), told |-> requests[r].answer.status]
  ELSE [kind |-> "none", expected |-> 0, after |-> {},
        effect |-> [phase |-> "over", revision |-> 0], told |-> "none"]

Register == INSTANCE RevisionRegister
              WITH Calls <- 1..MaxRequests, register <- revision,
                   calls <- [r \in 1..MaxRequests |-> CallOf(r)]

-----------------------------------------------------------------------------
(* Properties *)

\* Whatever the three threads of successive managers, their deadlines, stops and
\* crashes do, requests take effect like calls of a RevisionRegister: at one
\* instant each, over the revision expected, in an order that never puts a
\* request before one its client had been answered about.
ImplementsRevisionRegister == Register!Spec

\* Of the changes clients have sent over one revision, one at most succeeds, and
\* its reply carries the revision it has made: a client that goes on from the
\* reply goes on from its own change.
ExclusiveChanges ==
  \A r \in Requests : requests[r].kind = "change" /\ requests[r].answer.status = "ok" =>
    /\ requests[r].answer.revision = requests[r].expected + 1
    /\ \A q \in Requests \ {r} :
         requests[q].kind = "change" /\ requests[q].answer.status = "ok" =>
           requests[q].expected # requests[r].expected

Outstanding(r) ==
  \/ sessions[r] \in {"backlog", "open"}
  \/ \E m \in Managers :
       \/ r \in Range(queue[m]) \/ worker[m].request = r
       \/ \E i \in DOMAIN database[m] : database[m][i].request = r

\* `UnknownOutcome` says "list before retrying": once a request sent afterwards
\* is answered, what became of the unknown one is final, across deadlines, late
\* database requests, stops and restarts.
ListSettles ==
  \A r \in Requests : requests[r].answer.status = "ok" =>
    \A q \in requests[r].after : ~Outstanding(q)

\* A change is written over exactly the revision its client has seen: the
\* comparison and the write are two database requests, and none of the requests
\* given up before can come between them.
WrittenOverSeen ==
  [][revision' # revision =>
       \E m \in Managers :
         /\ database'[m] # database[m]
         /\ requests[Head(database[m]).request].expected = revision]_vars

\* A manager that got a signal, or told a client that it stops, ends, whatever
\* its clients and its database do; and it ends after all work it has accepted
\* was executed or given up, although the sockets and the reactor go first.
StopDrains ==
  \A m \in Managers :
    \/ reactor[m] = "stopping"
    \/ \E r \in Requests :
         /\ requests[r].kind = "stop" /\ requests[r].manager = m
         /\ requests[r].answer.status = "ok"
    ~> reactor[m] = "over" /\ Drained(m)
=============================================================================
