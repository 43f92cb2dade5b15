------------------------------ MODULE ServerProofs ------------------------------
(***************************************************************************)
(* What holds of Server for any number of managers, requests, connections  *)
(* and crashes, and for any capacity of the two queues.                    *)
(***************************************************************************)
EXTENDS Server, SequenceTheorems, TLAPS

-----------------------------------------------------------------------------
(* Sequences *)

LEMMA Mapped ==
  ASSUME NEW S, NEW n \in Nat, NEW f \in [1..n -> S]
  PROVE  f \in Seq(S) /\ Len(f) = n
<1>1. f \in Seq(S)
  BY SeqDef
<1>2. DOMAIN f = 1..Len(f) /\ Len(f) \in Nat
  BY <1>1, LenProperties
<1> QED BY <1>1, <1>2

LEMMA Appended ==
  ASSUME NEW S, NEW s \in Seq(S), NEW e \in S
  PROVE  /\ Append(s, e) \in Seq(S) /\ Len(Append(s, e)) = Len(s) + 1
         /\ \A i \in 1..Len(s) : Append(s, e)[i] = s[i]
         /\ Append(s, e)[Len(s) + 1] = e
  OBVIOUS

-----------------------------------------------------------------------------
(* Types *)

Answers == [status : {"none", "ok", "failed"}, revision : Nat]
RequestRecords ==
  [kind : Kinds, expected : Nat, manager : Managers, answer : Answers, after : SUBSET Nat]
Phases == {"none", "backlog", "open", "pending", "responding"}
Queries == {"check", "write", "revision"}
Reactors == {"off", "serving", "stopping", "draining", "closing", "over"}

\* Requests, their sessions and their replies grow and change together.
ServedTypes ==
  /\ requests \in Seq(RequestRecords)
  /\ sessions \in Seq(Phases) /\ Len(sessions) = Len(requests)
  /\ replies \in Seq(Answers) /\ Len(replies) = Len(requests)

ExecutingTypes ==
  /\ queue \in [Managers -> Seq(Nat)]
  /\ worker \in [Managers -> [request : Nat, at : Queries \cup {"idle"}]]
  /\ database \in [Managers -> Seq([request : Nat, query : Queries])]
  /\ revision \in Nat

OwnershipTypes ==
  /\ reactor \in [Managers -> Reactors]
  /\ lock \in Nat /\ sockets \in Nat

Types == ServedTypes /\ ExecutingTypes /\ OwnershipTypes

LEMMA RequestFacts ==
  ASSUME ServedTypes
  PROVE  /\ Len(requests) \in Nat /\ Requests = 1..Len(requests)
         /\ DOMAIN sessions = Requests /\ DOMAIN replies = Requests
         /\ \A r \in Requests : /\ requests[r] \in RequestRecords
                                /\ sessions[r] \in Phases /\ replies[r] \in Answers
  BY LenProperties, ElementOfSeq DEF ServedTypes, Requests

Waiting == {"backlog", "open"}

\* What a step leaves of the requests: who they were sent to, when, and the
\* revision they expect; what a client is told is a reply or a failure, and it
\* ends the session; a session that has ended, or whose work is queued, stays so.
KeptRequest(r) ==
  /\ requests'[r].expected = requests[r].expected
  /\ requests'[r].manager = requests[r].manager
  /\ requests'[r].after = requests[r].after
  /\ requests'[r].answer.status = "ok" =>
       requests[r].answer.status = "ok" \/ replies[r].status = "ok"
  /\ requests'[r].answer.status # "none" =>
       requests[r].answer.status # "none" \/ sessions'[r] = "none"
  /\ sessions'[r] # "none" => sessions[r] # "none"
  /\ sessions'[r] \in Waiting => sessions[r] \in Waiting

Kept == Requests' = Requests /\ \A r \in Requests : KeptRequest(r)

LEMMA DroppedKept ==
  ASSUME ServedTypes, NEW rs \in SUBSET Requests, Dropped(rs)
  PROVE  /\ ServedTypes' /\ Kept
         /\ \A r \in rs : sessions'[r] = "none"
<1>1. /\ Len(requests) \in Nat /\ Requests = 1..Len(requests)
      /\ DOMAIN sessions = Requests /\ DOMAIN replies = Requests
      /\ \A r \in Requests : /\ requests[r] \in RequestRecords
                             /\ sessions[r] \in Phases /\ replies[r] \in Answers
  BY RequestFacts
<1>2. /\ sessions' = [r \in Requests |-> IF r \in rs THEN "none" ELSE sessions[r]]
      /\ requests' = [r \in Requests |->
           IF r \in rs THEN [requests[r] EXCEPT !.answer = Failed] ELSE requests[r]]
      /\ replies' = [r \in Requests |-> IF r \in rs THEN NoReply ELSE replies[r]]
  BY <1>1 DEF Dropped
<1>3. sessions' \in [1..Len(requests) -> Phases]
  BY <1>1, <1>2 DEF Phases
<1>4. Failed \in Answers /\ NoReply \in Answers
  BY DEF Failed, NoReply, Answers
<1>5. replies' \in [1..Len(requests) -> Answers]
  BY <1>1, <1>2, <1>4
<1>6. \A r \in Requests :
        /\ requests'[r] \in RequestRecords
        /\ requests'[r].expected = requests[r].expected
        /\ requests'[r].manager = requests[r].manager
        /\ requests'[r].after = requests[r].after
        /\ requests'[r].answer = IF r \in rs THEN Failed ELSE requests[r].answer
  BY <1>1, <1>2, <1>4 DEF RequestRecords
<1>7. requests' \in [1..Len(requests) -> RequestRecords]
  BY <1>1, <1>2, <1>6
<1>8. ServedTypes' /\ Len(requests') = Len(requests)
  BY <1>1, <1>3, <1>5, <1>7, Mapped DEF ServedTypes
<1>9. Requests' = Requests
  BY <1>1, <1>7 DEF Requests
<1> QED BY <1>1, <1>2, <1>6, <1>8, <1>9 DEF Kept, KeptRequest, Waiting, Failed

LEMMA ConcludeTypes ==
  ASSUME ServedTypes, NEW m, NEW r, NEW answer \in Answers, Conclude(m, r, answer)
  PROVE  replies' \in Seq(Answers) /\ Len(replies') = Len(requests)
<1>1. Len(requests) \in Nat /\ replies \in [1..Len(requests) -> Answers]
  BY LenProperties DEF ServedTypes
<1>2. replies' \in [1..Len(requests) -> Answers]
  BY <1>1 DEF Conclude
<1> QED BY <1>1, <1>2, Mapped

\* One session moves on.
LEMMA MovedKept ==
  ASSUME ServedTypes, NEW r \in Requests, NEW phase \in Phases, sessions[r] # "none",
         sessions' = [sessions EXCEPT ![r] = phase], UNCHANGED requests,
         replies' = replies \/ (\E answer \in Answers : replies' = [replies EXCEPT ![r] = answer]),
         phase \in Waiting => sessions[r] \in Waiting
  PROVE  ServedTypes' /\ Kept
<1>1. /\ Len(requests) \in Nat /\ Requests = 1..Len(requests)
      /\ sessions \in [1..Len(requests) -> Phases] /\ replies \in [1..Len(requests) -> Answers]
  BY RequestFacts, LenProperties DEF ServedTypes
<1>2. /\ sessions' \in [1..Len(requests) -> Phases]
      /\ replies' \in [1..Len(requests) -> Answers]
  BY <1>1
<1>3. ServedTypes'
  BY <1>1, <1>2, Mapped DEF ServedTypes
<1> QED BY <1>1, <1>3 DEF Kept, KeptRequest, Requests

LEMMA SendKept ==
  ASSUME Types, NEW kind \in Kinds, Send(kind)
  PROVE  /\ ServedTypes' /\ sockets \in Managers
         /\ Requests' = Requests \cup {Len(requests) + 1}
         /\ requests'[Len(requests) + 1].manager = sockets
         /\ requests'[Len(requests) + 1].after = {r \in Requests : Told(r)}
         /\ requests'[Len(requests) + 1].answer = NoReply
         /\ replies'[Len(requests) + 1] = NoReply
         /\ \A r \in Requests : KeptRequest(r) /\ replies'[r] = replies[r]
<1>1. /\ Len(requests) \in Nat /\ Requests = 1..Len(requests)
      /\ \A r \in Requests : requests[r] \in RequestRecords
  BY RequestFacts DEF Types
<1>2. PICK seen \in IF kind = "status" THEN {0} ELSE Seen :
        requests' = Append(requests,
          [kind |-> kind, expected |-> seen, manager |-> sockets, answer |-> NoReply,
           after |-> {r \in Requests : Told(r)}])
  BY DEF Send
<1> DEFINE new == [kind |-> kind, expected |-> seen, manager |-> sockets, answer |-> NoReply,
                   after |-> {r \in Requests : Told(r)}]
<1>3. seen \in Nat /\ sockets \in Managers /\ NoReply \in Answers
      /\ {r \in Requests : Told(r)} \in SUBSET Nat
  BY <1>1 DEF Seen, RequestRecords, Answers, Send, NoReply
<1>4. /\ new \in RequestRecords /\ new.manager = sockets /\ new.answer = NoReply
      /\ new.after = {r \in Requests : Told(r)}
  BY <1>3 DEF RequestRecords
<1> HIDE DEF new
<1>5. requests' = Append(requests, new)
  BY <1>2 DEF new
<1>6. /\ requests' \in Seq(RequestRecords) /\ Len(requests') = Len(requests) + 1
      /\ \A r \in 1..Len(requests) : requests'[r] = requests[r]
      /\ requests'[Len(requests) + 1] = new
  BY <1>4, <1>5, Appended DEF Types, ServedTypes
<1>7. sessions' = Append(sessions, "backlog") /\ replies' = Append(replies, NoReply)
  BY DEF Send
<1>8. /\ sessions' \in Seq(Phases) /\ Len(sessions') = Len(sessions) + 1
      /\ \A r \in 1..Len(sessions) : sessions'[r] = sessions[r]
  BY <1>7, Appended DEF Types, ServedTypes, Phases
<1>9. /\ replies' \in Seq(Answers) /\ Len(replies') = Len(replies) + 1
      /\ \A r \in 1..Len(replies) : replies'[r] = replies[r]
      /\ replies'[Len(replies) + 1] = NoReply
  BY <1>3, <1>7, Appended DEF Types, ServedTypes
<1>10. ServedTypes'
  BY <1>6, <1>8, <1>9 DEF Types, ServedTypes
<1>11. Requests' = 1..(Len(requests) + 1)
  BY <1>6, LenProperties DEF Requests
<1>12. Len(sessions) = Len(requests) /\ Len(replies) = Len(requests)
  BY DEF Types, ServedTypes
<1> QED BY <1>1, <1>3, <1>4, <1>6, <1>8, <1>9, <1>10, <1>11, <1>12 DEF KeptRequest

SessionStep ==
  \/ \E m \in Managers : Start(m) \/ Signal(m) \/ Accept(m) \/ EndReactor(m) \/ EndWorker(m)
  \/ \E r \in Requests : Respond(r) \/ Flush(r) \/ EndSession(r)
  \/ RemoveStale

LEMMA SessionKept ==
  ASSUME Types, SessionStep
  PROVE  ServedTypes' /\ Kept /\ UNCHANGED <<executing, revision>>
<1>1. UNCHANGED <<executing, revision>>
  BY DEF SessionStep, Start, Signal, Accept, EndReactor, EndWorker, Respond, Flush,
    EndSession, RemoveStale, executing
<1>2. ASSUME UNCHANGED <<served, replies>> PROVE ServedTypes' /\ Kept
  BY <1>2 DEF Types, ServedTypes, Kept, KeptRequest, served, Requests
<1>3. ASSUME NEW m \in Managers, Start(m) \/ Signal(m) \/ EndWorker(m)
      PROVE  ServedTypes' /\ Kept
  BY <1>2, <1>3 DEF Start, Signal, EndWorker
<1>9. RemoveStale => ServedTypes' /\ Kept
  BY <1>2 DEF RemoveStale
<1>4. ASSUME NEW m \in Managers, Accept(m) PROVE ServedTypes' /\ Kept
  <2>1. PICK r \in Backlog(m) :
           \/ sessions' = [sessions EXCEPT ![r] = "open"] /\ UNCHANGED <<requests, replies>>
           \/ Dropped({r})
    BY <1>4 DEF Accept
  <2>2. r \in Requests /\ sessions[r] = "backlog"
    BY DEF Backlog, Sessions
  <2> QED BY <2>1, <2>2, MovedKept, DroppedKept DEF Types, Phases, Waiting
<1>5. ASSUME NEW m \in Managers, EndReactor(m) PROVE ServedTypes' /\ Kept
  BY <1>5, DroppedKept DEF EndReactor, Types, Sessions
<1>6. ASSUME NEW r \in Requests, Respond(r) PROVE ServedTypes' /\ Kept
  BY <1>6, MovedKept DEF Respond, Types, Phases, Waiting
<1>7. ASSUME NEW r \in Requests, EndSession(r) PROVE ServedTypes' /\ Kept
  BY <1>7, DroppedKept DEF EndSession, Types
<1>8. ASSUME NEW r \in Requests, Flush(r) PROVE ServedTypes' /\ Kept
  <2>1. /\ Len(requests) \in Nat /\ Requests = 1..Len(requests)
        /\ \A q \in Requests : requests[q] \in RequestRecords /\ replies[q] \in Answers
        /\ requests \in [1..Len(requests) -> RequestRecords]
        /\ sessions \in [1..Len(requests) -> Phases] /\ replies \in [1..Len(requests) -> Answers]
    BY RequestFacts, LenProperties DEF ServedTypes, Types
  <2>2. /\ requests' = [requests EXCEPT ![r].answer = replies[r]]
        /\ sessions' = [sessions EXCEPT ![r] = "none"]
        /\ replies' = [replies EXCEPT ![r] = NoReply]
    BY <1>8 DEF Flush, Answer
  <2>3. [requests[r] EXCEPT !.answer = replies[r]] \in RequestRecords
    BY <2>1 DEF RequestRecords
  <2>4. requests' \in [1..Len(requests) -> RequestRecords]
    BY <2>1, <2>2, <2>3
  <2>5. /\ sessions' \in [1..Len(requests) -> Phases]
        /\ replies' \in [1..Len(requests) -> Answers]
    BY <2>1, <2>2 DEF Phases, Answers, NoReply
  <2>6. ServedTypes' /\ Requests' = Requests
    BY <2>1, <2>4, <2>5, Mapped DEF ServedTypes, Requests
  <2>7. \A q \in Requests : /\ requests'[q].expected = requests[q].expected
                            /\ requests'[q].manager = requests[q].manager
                            /\ requests'[q].after = requests[q].after
                            /\ requests'[q].answer = IF q = r THEN replies[q] ELSE requests[q].answer
    BY <2>1, <2>2 DEF RequestRecords
  <2> QED BY <2>1, <2>2, <2>6, <2>7 DEF Kept, KeptRequest, Waiting
<1> QED BY <1>1, <1>3, <1>4, <1>5, <1>6, <1>7, <1>8, <1>9 DEF SessionStep

-----------------------------------------------------------------------------
(* The worker and the database *)

WorkStep ==
  \/ \E m \in Managers : Take(m) \/ GiveUp(m) \/ Execute(m)

LEMMA ServedKept ==
  ASSUME ServedTypes, UNCHANGED served, replies' \in Seq(Answers), Len(replies') = Len(requests)
  PROVE  ServedTypes' /\ Kept
  BY DEF ServedTypes, served, Kept, KeptRequest, Requests

LEMMA AnswerTypes ==
  ASSUME revision \in Nat
  PROVE  Failed \in Answers /\ [status |-> "ok", revision |-> revision] \in Answers
  BY DEF Failed, Answers

\* An operation that ends types what it leaves.
LEMMA ConcludedTypes ==
  ASSUME Types, UNCHANGED served, NEW m \in Managers, NEW r, NEW answer \in Answers,
         Conclude(m, r, answer), queue' \in [Managers -> Seq(Nat)],
         database' \in [Managers -> Seq([request : Nat, query : Queries])], revision' \in Nat
  PROVE  ServedTypes' /\ Kept /\ ExecutingTypes'
<1>1. ServedTypes' /\ Kept
  BY ConcludeTypes, ServedKept DEF Types
<1>2. worker' \in [Managers -> [request : Nat, at : Queries \cup {"idle"}]]
  <2>1. Idle \in [request : Nat, at : Queries \cup {"idle"}]
    BY DEF Idle
  <2> QED BY <2>1 DEF Types, ExecutingTypes, Conclude
<1> QED BY <1>1, <1>2 DEF ExecutingTypes

\* An operation that asks the database for one thing more, too.
LEMMA SubmittedTypes ==
  ASSUME Types, UNCHANGED served, NEW m \in Managers, NEW r \in Nat, NEW step \in Queries,
         NEW held \in Seq([request : Nat, query : Queries]), Submit(m, r, step, held),
         queue' \in [Managers -> Seq(Nat)], revision' \in Nat
  PROVE  ServedTypes' /\ Kept /\ ExecutingTypes'
<1>1. ServedTypes' /\ Kept
  BY ServedKept DEF Types, ServedTypes, Submit
<1>2. worker' \in [Managers -> [request : Nat, at : Queries \cup {"idle"}]]
  <2>1. [request |-> r, at |-> step] \in [request : Nat, at : Queries \cup {"idle"}]
    OBVIOUS
  <2> QED BY <2>1 DEF Types, ExecutingTypes, Submit
<1>3. database' \in [Managers -> Seq([request : Nat, query : Queries])]
  <2>1. [request |-> r, query |-> step] \in [request : Nat, query : Queries]
    OBVIOUS
  <2>2. Append(held, [request |-> r, query |-> step]) \in Seq([request : Nat, query : Queries])
    BY <2>1, Appended
  <2> QED BY <2>2 DEF Types, ExecutingTypes, Submit
<1> QED BY <1>1, <1>2, <1>3 DEF ExecutingTypes

\* What the database's answer leads to: the end of the operation or its next query.
LEMMA AnsweredAlternatives ==
  ASSUME NEW m, NEW query, NEW ok, Answered(m, query, ok)
  PROVE  \/ /\ database' = [database EXCEPT ![m] = Tail(database[m])]
            /\ \E answer \in {Failed, [status |-> "ok", revision |-> revision]} :
                 Conclude(m, worker[m].request, answer)
         \/ /\ ok /\ query = "check"
            /\ requests[worker[m].request].expected = revision
            /\ Submit(m, worker[m].request, "write", Tail(database[m]))
         \/ Submit(m, worker[m].request, "revision", Tail(database[m]))
  BY DEF Answered

LEMMA WorkTypes ==
  ASSUME Types, WorkStep
  PROVE  ServedTypes' /\ Kept /\ ExecutingTypes'
<1>1. /\ queue \in [Managers -> Seq(Nat)] /\ revision \in Nat
      /\ worker \in [Managers -> [request : Nat, at : Queries \cup {"idle"}]]
      /\ database \in [Managers -> Seq([request : Nat, query : Queries])]
  BY DEF Types, ExecutingTypes
<1>2. ASSUME NEW m \in Managers, Take(m) PROVE ServedTypes' /\ Kept /\ ExecutingTypes'
  <2>1. queue[m] \in Seq(Nat) /\ queue[m] # <<>>
    BY <1>1, <1>2 DEF Take
  <2>2. Head(queue[m]) \in Nat /\ Tail(queue[m]) \in Seq(Nat)
    BY <2>1, HeadTailProperties
  <2>3. UNCHANGED served /\ queue' \in [Managers -> Seq(Nat)] /\ revision' \in Nat
    BY <1>1, <1>2, <2>2 DEF Take
  <2>4. CASE Conclude(m, Head(queue[m]), Failed) /\ UNCHANGED database
    BY <1>1, <2>3, <2>4, AnswerTypes, ConcludedTypes
  <2>5. CASE Submit(m, Head(queue[m]), FirstQuery(requests[Head(queue[m])].kind), database[m])
    <3>1. FirstQuery(requests[Head(queue[m])].kind) \in Queries
      BY DEF FirstQuery, Queries
    <3>2. database[m] \in Seq([request : Nat, query : Queries])
      BY <1>1
    <3> QED BY <2>2, <2>3, <2>5, <3>1, <3>2, SubmittedTypes
  <2> QED BY <1>2, <2>4, <2>5 DEF Take
<1>3. ASSUME NEW m \in Managers, GiveUp(m) PROVE ServedTypes' /\ Kept /\ ExecutingTypes'
  <2>1. UNCHANGED <<served, queue, database, revision>> /\ Conclude(m, worker[m].request, Failed)
    BY <1>3 DEF GiveUp
  <2> QED BY <1>1, <2>1, AnswerTypes, ConcludedTypes
<1>4. ASSUME NEW m \in Managers, Execute(m) PROVE ServedTypes' /\ Kept /\ ExecutingTypes'
  <2>1. database[m] \in Seq([request : Nat, query : Queries]) /\ database[m] # <<>>
    BY <1>1, <1>4 DEF Execute
  <2>2. Tail(database[m]) \in Seq([request : Nat, query : Queries])
    BY <2>1, HeadTailProperties
  <2>3. UNCHANGED <<served, queue>> /\ revision' \in Nat
    BY <1>1, <1>4 DEF Execute
  <2>4. [database EXCEPT ![m] = Tail(database[m])]
          \in [Managers -> Seq([request : Nat, query : Queries])]
    BY <1>1, <2>2
  <2>5. CASE /\ database' = [database EXCEPT ![m] = Tail(database[m])]
             /\ UNCHANGED <<worker, replies>>
    BY <1>1, <2>3, <2>4, <2>5, ServedKept DEF Types, ServedTypes, ExecutingTypes
  <2>6. ASSUME NEW ok \in BOOLEAN, Answered(m, Head(database[m]).query, ok)
        PROVE  ServedTypes' /\ Kept /\ ExecutingTypes'
    <3>1. worker[m].request \in Nat
      BY <1>1
    <3>2. ASSUME NEW answer \in {Failed, [status |-> "ok", revision |-> revision]},
                 Conclude(m, worker[m].request, answer),
                 database' = [database EXCEPT ![m] = Tail(database[m])]
          PROVE  ServedTypes' /\ Kept /\ ExecutingTypes'
      BY <1>1, <2>3, <2>4, <3>2, AnswerTypes, ConcludedTypes
    <3>3. ASSUME NEW step \in {"write", "revision"},
                 Submit(m, worker[m].request, step, Tail(database[m]))
          PROVE  ServedTypes' /\ Kept /\ ExecutingTypes'
      <4>1. step \in Queries
        BY DEF Queries
      <4> QED BY <1>1, <2>2, <2>3, <3>1, <3>3, <4>1, SubmittedTypes
    <3> QED BY <2>6, <3>2, <3>3, AnsweredAlternatives
  <2> QED BY <1>4, <2>5, <2>6 DEF Execute
<1> QED BY <1>2, <1>3, <1>4 DEF WorkStep

-----------------------------------------------------------------------------
(* The remaining steps, and all of them *)

LEMMA ReadKept ==
  ASSUME Types, NEW r \in Requests, Read(r)
  PROVE  /\ ServedTypes' /\ Kept /\ ExecutingTypes' /\ requests[r].manager \in Managers
         /\ sessions'[r] \notin Waiting
<1> DEFINE m == requests[r].manager
<1>1. m \in Managers /\ r \in Nat
  BY RequestFacts DEF Types, RequestRecords
<1>2. Failed \in Answers
  BY DEF Failed, Answers
<1>3. /\ sessions[r] = "open" /\ UNCHANGED requests
      /\ \E phase \in {"pending", "responding"} : sessions' = [sessions EXCEPT ![r] = phase]
      /\ replies' = replies \/ replies' = [replies EXCEPT ![r] = Failed]
      /\ queue' = queue \/ queue' = [queue EXCEPT ![m] = Append(queue[m], r)]
      /\ UNCHANGED <<worker, database, revision>>
  BY DEF Read
<1>4. ServedTypes' /\ Kept
  BY <1>2, <1>3, MovedKept DEF Types, Phases, Waiting
<1>5. queue' \in [Managers -> Seq(Nat)]
  <2>1. queue[m] \in Seq(Nat)
    BY <1>1 DEF Types, ExecutingTypes
  <2>2. Append(queue[m], r) \in Seq(Nat)
    BY <1>1, <2>1, Appended
  <2> QED BY <1>1, <1>3, <2>2 DEF Types, ExecutingTypes
<1>6. sessions'[r] \in {"pending", "responding"}
  BY <1>3, RequestFacts DEF Types
<1> QED BY <1>1, <1>3, <1>4, <1>5, <1>6 DEF Types, ExecutingTypes, Waiting

LEMMA CrashKept ==
  ASSUME Types, NEW m \in Managers, Crash(m)
  PROVE  ServedTypes' /\ Kept /\ ExecutingTypes'
<1>1. ServedTypes' /\ Kept
  BY DroppedKept DEF Crash, Types, Sessions
<1>2. <<>> \in Seq(Nat) /\ <<>> \in Seq([request : Nat, query : Queries])
  BY EmptySeq
<1>3. Idle \in [request : Nat, at : Queries \cup {"idle"}]
  BY DEF Idle
<1> QED BY <1>1, <1>2, <1>3 DEF Crash, Types, ExecutingTypes

LEMMA CloseKept ==
  ASSUME Types, NEW m \in Managers, CloseDatabase(m)
  PROVE  ServedTypes' /\ Kept /\ ExecutingTypes'
<1>1. ServedTypes' /\ Kept
  BY ServedKept DEF CloseDatabase, Types, ServedTypes
<1>2. <<>> \in Seq([request : Nat, query : Queries])
  BY EmptySeq
<1> QED BY <1>1, <1>2 DEF CloseDatabase, Types, ExecutingTypes

\* A flushed reply belongs to a manager.
LEMMA OwnershipStep ==
  ASSUME Types, [Next]_vars
  PROVE  OwnershipTypes'
<1>1. MaxManagers \in Nat /\ Stale \in Nat /\ \A m \in Managers : m \in Nat
  BY ServerAssumption DEF Stale, Managers
<1>2. ASSUME UNCHANGED ownership PROVE OwnershipTypes'
  BY <1>2 DEF Types, OwnershipTypes, ownership
<1>3. ASSUME NEW kind \in Kinds, Send(kind) PROVE OwnershipTypes'
  BY <1>2, <1>3 DEF Send
<1>4. ASSUME NEW m \in Managers, Start(m) \/ Signal(m) \/ Accept(m) \/ EndReactor(m)
      PROVE  OwnershipTypes'
  BY <1>1, <1>4 DEF Start, Signal, Accept, EndReactor, Types, OwnershipTypes, Reactors, ownership
<1>5. ASSUME NEW r \in Requests, Read(r) \/ Respond(r) \/ Flush(r) \/ EndSession(r)
      PROVE  OwnershipTypes'
  BY <1>5 DEF Read, Respond, Flush, EndSession, Types, OwnershipTypes, Reactors, ownership
<1>6. ASSUME NEW m \in Managers, Take(m) \/ GiveUp(m) \/ EndWorker(m) \/ Execute(m)
      PROVE  OwnershipTypes'
  BY <1>6 DEF Take, GiveUp, EndWorker, Execute, Types, OwnershipTypes, Reactors, ownership
<1>7. ASSUME NEW m \in Managers, CloseDatabase(m) \/ Crash(m)
      PROVE  OwnershipTypes'
  BY <1>1, <1>7 DEF CloseDatabase, Crash, Types, OwnershipTypes, Reactors
<1>8. RemoveStale => OwnershipTypes'
  BY DEF RemoveStale, Types, OwnershipTypes
<1>9. UNCHANGED vars => OwnershipTypes'
  BY <1>2 DEF vars, ownership
<1> QED BY <1>3, <1>4, <1>5, <1>6, <1>7, <1>8, <1>9 DEF Next

LEMMA TypesStep ==
  ASSUME Types, [Next]_vars
  PROVE  Types'
<1>1. OwnershipTypes'
  BY OwnershipStep
<1>2. SessionStep => Types'
  BY <1>1, SessionKept DEF Types, ExecutingTypes, executing
<1>3. WorkStep => Types'
  BY <1>1, WorkTypes DEF Types
<1>4. ASSUME NEW kind \in Kinds, Send(kind) PROVE Types'
  BY <1>1, <1>4, SendKept DEF Types, ExecutingTypes, Send, executing
<1>5. ASSUME NEW r \in Requests, Read(r) PROVE Types'
  BY <1>1, <1>5, ReadKept DEF Types
<1>6. ASSUME NEW m \in Managers, CloseDatabase(m) \/ Crash(m) PROVE Types'
  BY <1>1, <1>6, CloseKept, CrashKept DEF Types
<1>7. UNCHANGED vars => Types'
  BY DEF vars, Types, ServedTypes, ExecutingTypes, OwnershipTypes, served, executing, ownership
<1> QED BY <1>2, <1>3, <1>4, <1>5, <1>6, <1>7 DEF Next, SessionStep, WorkStep

LEMMA TypesInit == Init => Types
<1> SUFFICES ASSUME Init PROVE Types
  OBVIOUS
<1>1. ServedTypes
  BY EmptySeq DEF Init, ServedTypes
<1>2. ExecutingTypes
  <2>1. <<>> \in Seq(Nat) /\ <<>> \in Seq([request : Nat, query : Queries])
    BY EmptySeq
  <2>2. Idle \in [request : Nat, at : Queries \cup {"idle"}]
    BY DEF Idle
  <2> QED BY <2>1, <2>2 DEF Init, ExecutingTypes
<1>3. OwnershipTypes
  BY DEF Init, OwnershipTypes, Reactors
<1> QED BY <1>1, <1>2, <1>3 DEF Types

-----------------------------------------------------------------------------
(* Who owns the database *)

\* The lock is the running manager's, from before its sockets are bound until
\* after its worker has ended; sessions, queue and worker live inside of that.
Accepting == {"serving", "stopping"}

OwnInv ==
  /\ \A m \in Managers : reactor[m] \notin {"off", "over"} <=> lock = m
  /\ \A r \in Requests : sessions[r] # "none" => reactor[requests[r].manager] \in Accepting
  /\ sockets \in Managers => reactor[sockets] \in Accepting
  /\ \A m \in Managers :
       /\ queue[m] # <<>> \/ worker[m] # Idle => reactor[m] \in Accepting \cup {"draining"}
       /\ database[m] # <<>> => lock = m

\* A step that leaves the executing threads and the lock alone.
LEMMA OwnQuiet ==
  ASSUME Types, OwnInv, Kept, UNCHANGED <<executing, lock>>,
         \A m \in Managers : \/ reactor'[m] = reactor[m]
                             \/ reactor[m] \in Accepting /\ reactor'[m] \in Accepting,
         sockets' = sockets
  PROVE  OwnInv'
<1>1. \A r \in Requests : requests[r].manager \in Managers
  BY RequestFacts DEF Types, RequestRecords
<1>2. \A r \in Requests :
        /\ requests'[r].manager = requests[r].manager
        /\ sessions'[r] # "none" => sessions[r] # "none"
  BY DEF Kept, KeptRequest
<1>3. UNCHANGED <<queue, worker, database, lock>> /\ Requests' = Requests
  BY DEF executing, Kept
<1> QED BY <1>1, <1>2, <1>3 DEF OwnInv, Accepting

LEMMA OwnStep ==
  ASSUME Types, OwnInv, [Next]_vars
  PROVE  OwnInv'
<1>1. /\ reactor \in [Managers -> Reactors]
      /\ queue \in [Managers -> Seq(Nat)]
      /\ worker \in [Managers -> [request : Nat, at : Queries \cup {"idle"}]]
      /\ database \in [Managers -> Seq([request : Nat, query : Queries])]
      /\ \A r \in Requests : requests[r].manager \in Managers
  BY RequestFacts DEF Types, OwnershipTypes, ExecutingTypes, RequestRecords
<1>2. \A m \in Managers : m # 0
  BY DEF Managers
<1>3. ASSUME NEW m \in Managers, Signal(m) \/ Accept(m) PROVE OwnInv'
  <2>1. Kept
    BY <1>3, SessionKept DEF SessionStep
  <2> QED BY <1>1, <1>3, <2>1, OwnQuiet DEF Signal, Accept, ownership, Accepting, executing
<1>4. ASSUME NEW r \in Requests, Respond(r) \/ Flush(r) \/ EndSession(r) PROVE OwnInv'
  <2>1. Kept
    BY <1>4, SessionKept DEF SessionStep
  <2>2. sessions[r] # "none"
    BY <1>4 DEF Respond, Flush, EndSession
  <2>3. reactor[requests[r].manager] \in Accepting
    BY <2>2 DEF OwnInv
  <2>4. /\ UNCHANGED <<executing, lock, sockets>>
        /\ \/ reactor' = reactor
           \/ reactor' = [reactor EXCEPT ![requests[r].manager] = "stopping"]
    BY <1>4 DEF Respond, Flush, EndSession, ownership
  <2> QED BY <1>1, <2>1, <2>3, <2>4, OwnQuiet DEF Accepting
<1>5. ASSUME NEW m \in Managers, Start(m) PROVE OwnInv'
  <2>1. Kept /\ UNCHANGED <<queue, worker, database>>
    BY <1>5, SessionKept DEF SessionStep, executing
  <2>2. /\ reactor[m] = "off" /\ lock = 0 /\ lock' = m /\ sockets' = m
        /\ reactor' = [reactor EXCEPT ![m] = "serving"]
    BY <1>5 DEF Start, Released
  <2>3. \A n \in Managers : reactor[n] \in {"off", "over"} /\ database[n] = <<>>
    BY <1>2, <2>2 DEF OwnInv
  <2>4. \A n \in Managers : queue[n] = <<>> /\ worker[n] = Idle
    BY <2>3 DEF OwnInv, Accepting
  <2>5. \A r \in Requests : sessions[r] = "none"
    BY <1>1, <2>3 DEF OwnInv, Accepting
  <2> QED BY <1>1, <2>1, <2>2, <2>3, <2>4, <2>5 DEF OwnInv, Accepting, Kept, KeptRequest
<1>6. ASSUME NEW m \in Managers, EndReactor(m) PROVE OwnInv'
  <2>1. Kept /\ UNCHANGED <<queue, worker, database, lock>>
    BY <1>6, SessionKept DEF SessionStep, executing, EndReactor
  <2>2. /\ reactor[m] = "stopping" /\ reactor' = [reactor EXCEPT ![m] = "draining"]
        /\ sockets' = IF sockets = m THEN 0 ELSE sockets
    BY <1>6 DEF EndReactor
  <2>3. \A r \in Requests : requests[r].manager = m => sessions'[r] = "none"
    <3>1. \A r \in Sessions(m) : sessions'[r] = "none"
      BY <1>6, DroppedKept DEF EndReactor, Types, Sessions
    <3>2. \A r \in Requests : requests[r].manager = m /\ r \notin Sessions(m) => sessions[r] = "none"
      BY DEF Sessions
    <3> QED BY <2>1, <3>1, <3>2 DEF Kept, KeptRequest
  <2>4. \A r \in Requests : sessions'[r] # "none" =>
          reactor'[requests'[r].manager] = reactor[requests[r].manager] /\ sessions[r] # "none"
    BY <1>1, <2>1, <2>2, <2>3 DEF Kept, KeptRequest
  <2>5. sockets' \in Managers => sockets' = sockets /\ sockets # m
    BY <1>2, <2>2
  <2> QED BY <1>1, <2>1, <2>2, <2>4, <2>5 DEF OwnInv, Accepting, Kept
<1>7. ASSUME NEW m \in Managers, EndWorker(m) PROVE OwnInv'
  BY <1>1, <1>7 DEF EndWorker, Joined, Drained, OwnInv, Accepting, served, executing, Requests
<1>8. RemoveStale => OwnInv'
  BY <1>2 DEF RemoveStale, OwnInv, served, executing, Requests, Managers
<1>9. ASSUME NEW kind \in Kinds, Send(kind) PROVE OwnInv'
  <2>1. /\ sockets \in Managers /\ Requests' = Requests \cup {Len(requests) + 1}
        /\ requests'[Len(requests) + 1].manager = sockets
        /\ \A r \in Requests : KeptRequest(r)
    BY <1>9, SendKept
  <2>2. UNCHANGED <<queue, worker, database, reactor, lock, sockets>>
    BY <1>9 DEF Send, ownership, executing
  <2> QED BY <2>1, <2>2 DEF OwnInv, KeptRequest
<1>10. ASSUME NEW r \in Requests, Read(r) PROVE OwnInv'
  <2>1. Kept
    BY <1>10, ReadKept
  <2>2. sessions[r] = "open" /\ UNCHANGED <<reactor, lock, sockets, worker, database>>
    BY <1>10 DEF Read, ownership
  <2>3. reactor[requests[r].manager] \in Accepting
    BY <2>2 DEF OwnInv
  <2>4. \A m \in Managers : m # requests[r].manager => queue'[m] = queue[m]
    BY <1>1, <1>10 DEF Read
  <2> QED BY <2>1, <2>2, <2>3, <2>4 DEF OwnInv, Kept, KeptRequest
<1>11. ASSUME NEW m \in Managers, Take(m) PROVE OwnInv'
  <2>1. /\ queue[m] # <<>> /\ UNCHANGED <<served, reactor, lock, sockets>>
        /\ queue' = [queue EXCEPT ![m] = Tail(queue[m])]
    BY <1>11 DEF Take, ownership
  <2>2. \A n \in Managers : n # m => worker'[n] = worker[n] /\ database'[n] = database[n]
    BY <1>1, <1>11 DEF Take, Conclude, Submit
  <2>3. reactor[m] \in Accepting \cup {"draining"} /\ lock = m
    BY <2>1 DEF OwnInv, Accepting
  <2> QED BY <1>1, <2>1, <2>2, <2>3 DEF OwnInv, served, Requests
<1>12. ASSUME NEW m \in Managers, GiveUp(m) PROVE OwnInv'
  <2>1. /\ UNCHANGED <<served, ownership, queue, database>>
        /\ worker' = [worker EXCEPT ![m] = Idle]
    BY <1>12 DEF GiveUp, Conclude
  <2> QED BY <1>1, <2>1 DEF OwnInv, served, ownership, Requests
<1>13. ASSUME NEW m \in Managers, Execute(m) PROVE OwnInv'
  <2>1. database[m] # <<>> /\ UNCHANGED <<served, ownership, queue>>
    BY <1>13 DEF Execute
  <2>2. /\ \A n \in Managers : n # m => worker'[n] = worker[n] /\ database'[n] = database[n]
        /\ worker[m] = Idle => worker'[m] = Idle
    <3>1. CASE /\ database' = [database EXCEPT ![m] = Tail(database[m])]
               /\ UNCHANGED <<worker, replies>>
      BY <1>1, <3>1
    <3>2. ASSUME NEW ok \in BOOLEAN, Answered(m, Head(database[m]).query, ok), worker[m] # Idle
          PROVE  \A n \in Managers : n # m => worker'[n] = worker[n] /\ database'[n] = database[n]
      <4>1. \/ /\ database' = [database EXCEPT ![m] = Tail(database[m])]
               /\ \E answer : Conclude(m, worker[m].request, answer)
            \/ \E step : Submit(m, worker[m].request, step, Tail(database[m]))
        BY <3>2, AnsweredAlternatives
      <4>2. \E w, d : /\ worker' = [worker EXCEPT ![m] = w]
                      /\ database' = [database EXCEPT ![m] = d]
        BY <4>1 DEF Conclude, Submit
      <4> QED BY <1>1, <4>2
    <3>3. worker[m] = [request |-> Head(database[m]).request, at |-> Head(database[m]).query]
            => worker[m] # Idle
      <4>1. Head(database[m]) \in [request : Nat, query : Queries]
        BY <1>1, <2>1, HeadTailProperties
      <4>2. Head(database[m]).query # "idle"
        BY <4>1 DEF Queries
      <4> QED BY <4>2 DEF Idle
    <3> QED BY <1>13, <3>1, <3>2, <3>3 DEF Execute
  <2>3. lock = m
    BY <2>1 DEF OwnInv
  <2> QED BY <2>1, <2>2, <2>3 DEF OwnInv, served, ownership, Requests
<1>14. ASSUME NEW m \in Managers, CloseDatabase(m) PROVE OwnInv'
  <2>1. /\ reactor[m] = "closing" /\ UNCHANGED <<served, queue, worker, sockets>>
        /\ database' = [database EXCEPT ![m] = <<>>]
        /\ lock' = IF lock = m THEN 0 ELSE lock
        /\ reactor' = [reactor EXCEPT ![m] = "over"]
    BY <1>14 DEF CloseDatabase
  <2>2. lock = m /\ queue[m] = <<>> /\ worker[m] = Idle
    BY <2>1 DEF OwnInv, Accepting
  <2> QED BY <1>1, <1>2, <2>1, <2>2 DEF OwnInv, Accepting, served, Requests
<1>15. ASSUME NEW m \in Managers, Crash(m) PROVE OwnInv'
  <2>1. /\ reactor[m] \notin {"off", "over"} /\ reactor' = [reactor EXCEPT ![m] = "over"]
        /\ queue' = [queue EXCEPT ![m] = <<>>]
        /\ worker' = [worker EXCEPT ![m] = Idle]
        /\ database' = [database EXCEPT ![m] = <<>>]
        /\ lock' = IF lock = m THEN 0 ELSE lock
        /\ sockets' = IF sockets = m THEN Stale ELSE sockets
    BY <1>15 DEF Crash
  <2>2. Kept /\ \A r \in Sessions(m) : sessions'[r] = "none"
    BY <1>15, DroppedKept DEF Crash, Types, Sessions
  <2>3. \A r \in Requests : sessions'[r] # "none" =>
          reactor'[requests'[r].manager] = reactor[requests[r].manager] /\ sessions[r] # "none"
    BY <1>1, <2>1, <2>2 DEF Kept, KeptRequest, Sessions
  <2>4. sockets' \in Managers => sockets' = sockets /\ sockets # m
    BY <2>1, ServerAssumption DEF Stale, Managers
  <2>5. lock = m
    BY <2>1 DEF OwnInv
  <2> QED BY <1>1, <1>2, <2>1, <2>2, <2>3, <2>4, <2>5 DEF OwnInv, Accepting, Kept
<1>16. UNCHANGED vars => OwnInv'
  BY DEF vars, OwnInv, served, executing, ownership, Requests
<1> QED BY <1>3, <1>4, <1>5, <1>6, <1>7, <1>8, <1>9, <1>10, <1>11, <1>12, <1>13, <1>14, <1>15,
      <1>16 DEF Next

-----------------------------------------------------------------------------
(* What the database holds *)

Queued(m) == 1..Len(queue[m])
Held(m) == 1..Len(database[m])

\* The work of a manager is work that was sent, each piece of it once: in the
\* queue, or as one request to the database.
Once(m) ==
  /\ \A i \in Queued(m) : queue[m][i] \in Requests
  /\ \A i \in Held(m) : database[m][i].request \in Requests
  /\ \A i, j \in Queued(m) : i # j => queue[m][i] # queue[m][j]
  /\ \A i, j \in Held(m) : i # j => database[m][i].request # database[m][j].request
  /\ \A i \in Queued(m), j \in Held(m) : queue[m][i] # database[m][j].request

Unread(m) ==
  \A r \in Requests : sessions[r] \in Waiting =>
    /\ \A i \in Queued(m) : queue[m][i] # r
    /\ \A i \in Held(m) : database[m][i].request # r

\* The worker waits for the request the database accepted last.
Awaited(m) ==
  worker[m] # Idle =>
    /\ database[m] # <<>>
    /\ database[m][Len(database[m])] = [request |-> worker[m].request, query |-> worker[m].at]

\* A write is the oldest request there is, and the revision it was compared
\* with is still the revision of the database.
Compared(m) ==
  \A i \in Held(m) : database[m][i].query = "write" =>
    i = 1 /\ requests[database[m][i].request].expected = revision

QueryInv == \A m \in Managers : Once(m) /\ Unread(m) /\ Awaited(m) /\ Compared(m)

ServerInv == Types /\ OwnInv /\ QueryInv

LEMMA QueryQuiet ==
  ASSUME QueryInv, \A r \in Requests : KeptRequest(r), Requests \subseteq Requests',
         NEW m \in Managers, UNCHANGED <<queue[m], database[m], revision>>,
         worker'[m] \in {worker[m], Idle}
  PROVE  Once(m)' /\ Unread(m)' /\ Awaited(m)' /\ Compared(m)'
<1>1. Once(m) /\ Unread(m) /\ Awaited(m) /\ Compared(m)
  BY DEF QueryInv
<1>2. Queued(m)' = Queued(m) /\ Held(m)' = Held(m)
  BY DEF Queued, Held
<1>3. Once(m)'
  BY <1>1, <1>2 DEF Once
<1>4. Unread(m)'
  BY <1>1, <1>2 DEF Once, Unread, KeptRequest
<1>5. Awaited(m)'
  BY <1>1 DEF Awaited
<1>6. Compared(m)'
  BY <1>1, <1>2 DEF Once, Compared, KeptRequest
<1> QED BY <1>3, <1>4, <1>5, <1>6

LEMMA QueryEmpty ==
  ASSUME NEW m \in Managers, queue'[m] = <<>>, database'[m] = <<>>, worker'[m] = Idle
  PROVE  Once(m)' /\ Unread(m)' /\ Awaited(m)' /\ Compared(m)'
<1>1. Queued(m)' = {} /\ Held(m)' = {}
  BY DEF Queued, Held
<1> QED BY <1>1 DEF Once, Unread, Awaited, Compared

\* The work of a frame that was read is queued for the first time.
LEMMA QueryRead ==
  ASSUME ServerInv, NEW r \in Requests, NEW m \in Managers, requests[r].manager = m, Read(r)
  PROVE  QueryInv'
<1>1. /\ Kept /\ sessions'[r] \notin Waiting
  BY ReadKept DEF ServerInv
<1>2. /\ \A q \in Requests : KeptRequest(q) /\ Requests' = Requests
  BY <1>1 DEF Kept
<1>3. /\ UNCHANGED <<worker, database, revision>> /\ sessions[r] = "open"
      /\ queue' = queue \/ queue' = [queue EXCEPT ![m] = Append(queue[m], r)]
  BY DEF Read
<1>4. queue \in [Managers -> Seq(Nat)] /\ r \in Nat
  BY RequestFacts DEF ServerInv, Types, ExecutingTypes
<1>5. ASSUME NEW n \in Managers, queue'[n] = queue[n]
      PROVE  Once(n)' /\ Unread(n)' /\ Awaited(n)' /\ Compared(n)'
  BY <1>2, <1>3, <1>5, QueryQuiet DEF ServerInv
<1>6. ASSUME queue' = [queue EXCEPT ![m] = Append(queue[m], r)]
      PROVE  Once(m)' /\ Unread(m)' /\ Awaited(m)' /\ Compared(m)'
  <2>1. Once(m) /\ Unread(m) /\ Awaited(m) /\ Compared(m)
    BY <1>1 DEF ServerInv, QueryInv
  <2>2. queue[m] \in Seq(Nat) /\ queue'[m] = Append(queue[m], r)
    BY <1>1, <1>4, <1>6
  <2>3. /\ Len(queue[m]) \in Nat /\ Len(queue'[m]) = Len(queue[m]) + 1
        /\ \A i \in 1..Len(queue[m]) : queue'[m][i] = queue[m][i]
        /\ queue'[m][Len(queue[m]) + 1] = r
    BY <1>4, <2>2, Appended, LenProperties
  <2>4. Held(m)' = Held(m) /\ Queued(m)' = Queued(m) \cup {Len(queue[m]) + 1}
    BY <1>3, <2>3 DEF Held, Queued
  <2>5. /\ \A i \in Queued(m) : queue[m][i] # r
        /\ \A i \in Held(m) : database[m][i].request # r
    BY <1>3, <2>1 DEF Unread, Waiting
  <2>6. Once(m)'
    <3>1. \A i \in Queued(m)' : \/ i \in Queued(m) /\ queue'[m][i] = queue[m][i]
                                \/ i = Len(queue[m]) + 1 /\ queue'[m][i] = r
      BY <2>3, <2>4 DEF Queued
    <3>2. /\ \A i \in Queued(m) : queue[m][i] \in Requests
          /\ \A i, j \in Queued(m) : i # j => queue[m][i] # queue[m][j]
          /\ \A i \in Queued(m), j \in Held(m) : queue[m][i] # database[m][j].request
      BY <2>1 DEF Once
    <3>3. \A i \in Queued(m)' : queue'[m][i] \in Requests
      BY <3>1, <3>2
    <3>4. \A i, j \in Queued(m)' : i # j => queue'[m][i] # queue'[m][j]
      BY <2>5, <3>1, <3>2
    <3>5. \A i \in Queued(m)', j \in Held(m) : queue'[m][i] # database[m][j].request
      BY <2>5, <3>1, <3>2
    <3> QED BY <1>2, <1>3, <2>1, <2>4, <3>3, <3>4, <3>5 DEF Once
  <2>7. Unread(m)'
    BY <1>1, <1>2, <1>3, <2>1, <2>3, <2>4 DEF Unread, KeptRequest, Queued
  <2>8. Awaited(m)'
    BY <1>3, <2>1 DEF Awaited
  <2>9. Compared(m)'
    BY <1>2, <1>3, <2>1, <2>4 DEF Compared, KeptRequest, Once
  <2> QED BY <2>6, <2>7, <2>8, <2>9
<1>7. \A n \in Managers : n # m => queue'[n] = queue[n]
  BY <1>3, <1>4
<1> QED BY <1>3, <1>5, <1>6, <1>7 DEF QueryInv

\* Work that is taken moves from the queue to the end of the database's.
LEMMA QueryTake ==
  ASSUME ServerInv, NEW m \in Managers, Take(m)
  PROVE  Once(m)' /\ Unread(m)' /\ Awaited(m)' /\ Compared(m)'
<1>1. Once(m) /\ Unread(m) /\ Awaited(m) /\ Compared(m)
  BY DEF ServerInv, QueryInv
<1>2. /\ queue \in [Managers -> Seq(Nat)] /\ queue[m] \in Seq(Nat)
      /\ database \in [Managers -> Seq([request : Nat, query : Queries])]
      /\ worker \in [Managers -> [request : Nat, at : Queries \cup {"idle"}]]
  BY DEF ServerInv, Types, ExecutingTypes
<1>3. /\ queue[m] # <<>> /\ UNCHANGED <<requests, sessions, revision>>
      /\ queue' = [queue EXCEPT ![m] = Tail(queue[m])]
  BY DEF Take, served
<1>4. /\ Len(queue[m]) \in Nat /\ Len(queue'[m]) = Len(queue[m]) - 1 /\ Len(queue[m]) > 0
      /\ \A i \in 1..Len(queue'[m]) : queue'[m][i] = queue[m][i + 1]
      /\ Head(queue[m]) = queue[m][1]
  BY <1>2, <1>3, HeadTailProperties, EmptySeq, LenProperties
<1>5. /\ 1 \in Queued(m)
      /\ \A i \in Queued(m)' : i + 1 \in Queued(m) /\ i + 1 # 1 /\ queue'[m][i] = queue[m][i + 1]
      /\ \A i, j \in Queued(m)' : i # j => i + 1 # j + 1
  BY <1>4 DEF Queued
<1>6. Requests' = Requests
  BY <1>3 DEF Requests
<1>7. /\ \A i \in Queued(m)' : queue'[m][i] \in Requests
      /\ \A i, j \in Queued(m)' : i # j => queue'[m][i] # queue'[m][j]
      /\ \A i \in Queued(m)', j \in Held(m) : queue'[m][i] # database[m][j].request
      /\ \A i \in Queued(m)' : queue'[m][i] # queue[m][1]
      /\ \A r \in Requests : sessions[r] \in Waiting => \A i \in Queued(m)' : queue'[m][i] # r
  BY <1>1, <1>5 DEF Once, Unread
<1>8. CASE UNCHANGED database /\ worker' = [worker EXCEPT ![m] = Idle]
  <2>1. Held(m)' = Held(m)
    BY <1>8 DEF Held
  <2>2. Once(m)' /\ Unread(m)'
    BY <1>1, <1>3, <1>6, <1>7, <1>8, <2>1 DEF Once, Unread
  <2>3. Awaited(m)' /\ Compared(m)'
    BY <1>1, <1>2, <1>3, <1>8, <2>1 DEF Awaited, Compared
  <2> QED BY <2>2, <2>3
<1>9. ASSUME NEW step \in {"check", "revision"},
             Submit(m, queue[m][1], step, database[m])
      PROVE  Once(m)' /\ Unread(m)' /\ Awaited(m)' /\ Compared(m)'
  <2> DEFINE new == [request |-> queue[m][1], query |-> step]
  <2>1. new \in [request : Nat, query : Queries] /\ database[m] \in Seq([request : Nat, query : Queries])
    BY <1>2, <1>5, ElementOfSeq DEF Queued, Queries
  <2>2. database'[m] = Append(database[m], new) /\ worker'[m] = [request |-> queue[m][1], at |-> step]
    BY <1>2, <1>9 DEF Submit
  <2>3. new.request = queue[m][1] /\ new.query = step
    OBVIOUS
  <2> HIDE DEF new
  <2>4. /\ Len(database[m]) \in Nat /\ Len(database'[m]) = Len(database[m]) + 1
        /\ \A i \in 1..Len(database[m]) : database'[m][i] = database[m][i]
        /\ database'[m][Len(database[m]) + 1] = new
    BY <2>1, <2>2, Appended, LenProperties
  <2>5. \A i \in Held(m)' : \/ i \in Held(m) /\ database'[m][i] = database[m][i]
                            \/ i = Len(database[m]) + 1 /\ database'[m][i] = new
    BY <2>4 DEF Held
  <2>6. /\ queue[m][1] \in Requests
        /\ \A i \in Held(m) : database[m][i].request # queue[m][1]
        /\ \A r \in Requests : sessions[r] \in Waiting => queue[m][1] # r
    BY <1>1, <1>5 DEF Once, Unread
  <2>7. Once(m)'
    <3>1. /\ \A i \in Held(m) : database[m][i].request \in Requests
          /\ \A i, j \in Held(m) : i # j => database[m][i].request # database[m][j].request
      BY <1>1 DEF Once
    <3>2. \A i \in Held(m)' : database'[m][i].request \in Requests
      BY <2>3, <2>5, <2>6, <3>1
    <3>3. \A i, j \in Held(m)' : i # j => database'[m][i].request # database'[m][j].request
      BY <2>3, <2>5, <2>6, <3>1
    <3>4. \A i \in Queued(m)', j \in Held(m)' : queue'[m][i] # database'[m][j].request
      BY <1>7, <2>3, <2>5
    <3> QED BY <1>6, <1>7, <3>2, <3>3, <3>4 DEF Once
  <2>8. Unread(m)'
    BY <1>1, <1>3, <1>6, <1>7, <2>3, <2>5, <2>6 DEF Unread
  <2>9. Awaited(m)'
    <3>1. database'[m] # <<>>
      BY <2>4, EmptySeq
    <3>2. database'[m][Len(database'[m])] = new /\ worker'[m].request = queue[m][1] /\ worker'[m].at = step
      BY <2>2, <2>4
    <3> QED BY <3>1, <3>2 DEF Awaited, new
  <2>10. Compared(m)'
    BY <1>1, <1>3, <2>3, <2>5 DEF Compared
  <2> QED BY <2>7, <2>8, <2>9, <2>10
<1>10. \/ UNCHANGED database /\ worker' = [worker EXCEPT ![m] = Idle]
       \/ \E step \in {"check", "revision"} : Submit(m, queue[m][1], step, database[m])
  BY <1>4 DEF Take, Conclude, FirstQuery
<1> QED BY <1>8, <1>9, <1>10

LEMMA HeldFacts ==
  ASSUME Types, NEW m \in Managers, database[m] # <<>>
  PROVE  /\ Len(database[m]) \in Nat /\ Len(database[m]) > 0
         /\ Head(database[m]) = database[m][1]
         /\ database[m][1] \in [request : Nat, query : Queries]
         /\ Len(Tail(database[m])) \in Nat
         /\ Len(Tail(database[m])) = Len(database[m]) - 1
         /\ \A i \in 1..Len(Tail(database[m])) : Tail(database[m])[i] = database[m][i + 1]
<1> DEFINE Entries == [request : Nat, query : Queries]
<1>1. database[m] \in Seq(Entries)
  BY DEF Types, ExecutingTypes
<1> HIDE DEF Entries
<1>2. Len(database[m]) \in Nat /\ Len(database[m]) > 0
  BY <1>1, EmptySeq, LenProperties
<1>3. Head(database[m]) = database[m][1] /\ database[m][1] \in Entries
  BY <1>1, <1>2, ElementOfSeq
<1>4. Tail(database[m]) \in Seq(Entries)
  BY <1>1, HeadTailProperties
<1>5. /\ Len(Tail(database[m])) = Len(database[m]) - 1
      /\ \A i \in 1..Len(Tail(database[m])) : Tail(database[m])[i] = database[m][i + 1]
  BY <1>1, HeadTailProperties
<1>6. Len(Tail(database[m])) \in Nat
  BY <1>4, LenProperties
<1> QED BY <1>2, <1>3, <1>5, <1>6 DEF Entries

\* An answer that is waited for answers the only request there is.
LEMMA AnsweredAlone ==
  ASSUME Types, NEW m \in Managers, Once(m), Awaited(m), database[m] # <<>>,
         worker[m] = [request |-> database[m][1].request, at |-> database[m][1].query]
  PROVE  /\ worker[m] # Idle /\ worker[m].request = database[m][1].request
         /\ Len(database[m]) = 1 /\ Tail(database[m]) = <<>>
<1>1. Len(database[m]) \in Nat /\ Len(database[m]) > 0
  BY HeldFacts
<1>2. worker[m].request = database[m][1].request /\ worker[m] # Idle
  <2>1. database[m][1].query # "idle"
    BY HeldFacts DEF Queries
  <2> QED BY <2>1 DEF Idle
<1>3. Len(database[m]) = 1
  <2>1. Len(database[m]) \in Held(m) /\ 1 \in Held(m)
    BY <1>1 DEF Held
  <2>2. database[m][Len(database[m])].request = worker[m].request
    BY <1>2 DEF Awaited
  <2> QED BY <1>2, <2>1, <2>2 DEF Once
<1>4. Tail(database[m]) = <<>>
  <2>1. Len(Tail(database[m])) = 0
    BY <1>3, HeldFacts
  <2>2. Tail(database[m]) \in Seq([request : Nat, query : Queries])
    BY HeadTailProperties DEF Types, ExecutingTypes
  <2>3. \A q \in Seq([request : Nat, query : Queries]) : Len(q) = 0 => q = <<>>
    BY EmptySeq
  <2> QED BY <2>1, <2>2, <2>3
<1> QED BY <1>2, <1>3, <1>4

\* What the database has executed is gone; an answer that was waited for may be
\* followed by the next query, which has the database for itself.
LEMMA QueryExecute ==
  ASSUME ServerInv, NEW m \in Managers, Execute(m)
  PROVE  Once(m)' /\ Unread(m)' /\ Awaited(m)' /\ Compared(m)'
<1> DEFINE Entries == [request : Nat, query : Queries]
<1>1. Once(m) /\ Unread(m) /\ Awaited(m) /\ Compared(m)
  BY DEF ServerInv, QueryInv
<1>2. /\ database \in [Managers -> Seq(Entries)]
      /\ worker \in [Managers -> [request : Nat, at : Queries \cup {"idle"}]]
      /\ database[m] \in Seq(Entries)
  BY DEF ServerInv, Types, ExecutingTypes
<1>3. database[m] # <<>> /\ UNCHANGED <<requests, sessions, queue>>
  BY DEF Execute, served
<1>4. /\ Len(database[m]) \in Nat /\ Len(database[m]) > 0
      /\ Head(database[m]) = database[m][1] /\ database[m][1] \in Entries
      /\ Len(Tail(database[m])) \in Nat /\ Len(Tail(database[m])) = Len(database[m]) - 1
      /\ \A i \in 1..Len(Tail(database[m])) : Tail(database[m])[i] = database[m][i + 1]
  BY <1>3, HeldFacts DEF ServerInv
<1>5. Requests' = Requests /\ Queued(m)' = Queued(m) /\ 1 \in Held(m)
  BY <1>3, <1>4 DEF Requests, Queued, Held
<1>6. ASSUME database'[m] = Tail(database[m]),
             \/ worker'[m] = Idle
             \/ /\ worker'[m] = worker[m]
                /\ worker[m] # [request |-> database[m][1].request, at |-> database[m][1].query]
      PROVE  Once(m)' /\ Unread(m)' /\ Awaited(m)' /\ Compared(m)'
  <2>1. \A i \in Held(m)' : i + 1 \in Held(m) /\ i + 1 # 1 /\ database'[m][i] = database[m][i + 1]
    BY <1>4, <1>6 DEF Held
  <2>2. \A i, j \in Held(m)' : i # j => i + 1 # j + 1
    BY DEF Held
  <2>3. Once(m)'
    BY <1>1, <1>3, <1>5, <2>1, <2>2 DEF Once
  <2>4. Unread(m)'
    BY <1>1, <1>3, <1>5, <2>1 DEF Unread
  <2>5. Compared(m)'
    BY <1>1, <2>1 DEF Compared
  <2>6. Awaited(m)'
    <3> SUFFICES ASSUME worker'[m] # Idle
                 PROVE  /\ database'[m] # <<>>
                        /\ database'[m][Len(database'[m])]
                             = [request |-> worker'[m].request, query |-> worker'[m].at]
      BY DEF Awaited
    <3>1. /\ worker'[m] = worker[m]
          /\ worker[m] # [request |-> database[m][1].request, at |-> database[m][1].query]
          /\ database[m][Len(database[m])] = [request |-> worker[m].request, query |-> worker[m].at]
      BY <1>1, <1>6 DEF Awaited
    <3>2. Len(database[m]) # 1
      <4> SUFFICES ASSUME database[m][1] = [request |-> worker[m].request, query |-> worker[m].at]
                   PROVE  FALSE
        BY <3>1
      <4>1. worker[m] \in [request : Nat, at : Queries \cup {"idle"}]
        BY <1>2
      <4>2. worker[m] = [request |-> worker[m].request, at |-> worker[m].at]
        BY <4>1
      <4> QED BY <3>1, <4>2
    <3>3. Len(Tail(database[m])) > 0
      <4>1. \A a, b \in Nat : a > 0 /\ a # 1 /\ b = a - 1 => b > 0
        OBVIOUS
      <4> HIDE DEF Entries
      <4> QED BY <1>4, <3>2, <4>1, Zenon
    <3>4. Tail(database[m])[Len(Tail(database[m]))] = database[m][Len(database[m])]
      BY <1>4, <3>3
    <3>5. Tail(database[m]) # <<>>
      BY <3>3, EmptySeq
    <3> QED BY <1>6, <3>1, <3>4, <3>5
  <2> QED BY <2>3, <2>4, <2>5, <2>6
<1>7. ASSUME worker[m] = [request |-> database[m][1].request, at |-> database[m][1].query],
             NEW step \in {"write", "revision"},
             Submit(m, worker[m].request, step, Tail(database[m])),
             step = "write" => requests[worker[m].request].expected = revision'
      PROVE  Once(m)' /\ Unread(m)' /\ Awaited(m)' /\ Compared(m)'
  <2>1. /\ worker[m] # Idle /\ worker[m].request = database[m][1].request
        /\ Len(database[m]) = 1 /\ Tail(database[m]) = <<>>
    BY <1>1, <1>3, <1>7, AnsweredAlone DEF ServerInv
  <2> DEFINE new == [request |-> worker[m].request, query |-> step]
  <2>4. /\ database'[m] = Append(<<>>, new)
        /\ worker'[m] = [request |-> worker[m].request, at |-> step]
    BY <1>2, <1>7, <2>1 DEF Submit
  <2>5. new.request = worker[m].request /\ new.query = step /\ new \in Entries
    BY <1>2 DEF Queries
  <2> HIDE DEF new
  <2>6. database'[m] # <<>> /\ Len(database'[m]) = 1 /\ database'[m][1] = new
    BY <2>4, <2>5, EmptySeq, Appended
  <2>7. Held(m)' = {1}
    BY <2>6 DEF Held
  <2>8. Once(m)' /\ Unread(m)'
    BY <1>1, <1>3, <1>5, <2>1, <2>5, <2>6, <2>7 DEF Once, Unread
  <2>9. Awaited(m)'
    <3>1. worker'[m].request = worker[m].request /\ worker'[m].at = step
      BY <2>4
    <3> QED BY <2>6, <3>1 DEF Awaited, new
  <2>10. Compared(m)'
    BY <1>3, <1>7, <2>5, <2>6, <2>7 DEF Compared
  <2> QED BY <2>8, <2>9, <2>10
<1>8. PICK ok \in BOOLEAN :
        /\ revision' = IF ok /\ database[m][1].query = "write" THEN revision + 1 ELSE revision
        /\ IF worker[m] = [request |-> database[m][1].request, at |-> database[m][1].query]
           THEN Answered(m, database[m][1].query, ok)
           ELSE /\ database' = [database EXCEPT ![m] = Tail(@)]
                /\ UNCHANGED <<worker, replies>>
  BY <1>4 DEF Execute
<1>9. CASE worker[m] # [request |-> database[m][1].request, at |-> database[m][1].query]
  BY <1>2, <1>6, <1>8, <1>9
<1>10. CASE worker[m] = [request |-> database[m][1].request, at |-> database[m][1].query]
  <2>1. Answered(m, database[m][1].query, ok)
    BY <1>8, <1>10
  <2>2. CASE /\ database' = [database EXCEPT ![m] = Tail(database[m])]
             /\ \E answer : Conclude(m, worker[m].request, answer)
    BY <1>2, <1>6, <2>2 DEF Conclude
  <2>3. CASE /\ ok /\ database[m][1].query = "check"
             /\ requests[worker[m].request].expected = revision
             /\ Submit(m, worker[m].request, "write", Tail(database[m]))
    BY <1>7, <1>8, <1>10, <2>3
  <2>4. CASE Submit(m, worker[m].request, "revision", Tail(database[m]))
    BY <1>7, <1>10, <2>4
  <2> QED BY <2>1, <2>2, <2>3, <2>4, AnsweredAlternatives
<1> QED BY <1>9, <1>10

\* The other managers' threads have no part in a step of this one's.
LEMMA OtherManagers ==
  ASSUME Types, NEW m \in Managers, NEW n \in Managers, n # m,
         Take(m) \/ GiveUp(m) \/ Execute(m) \/ CloseDatabase(m) \/ Crash(m)
  PROVE  UNCHANGED <<queue[n], worker[n], database[n]>>
<1> USE DEF Types, ExecutingTypes
<1>1. CASE Take(m)
  BY <1>1 DEF Take, Conclude, Submit
<1>2. CASE GiveUp(m) \/ CloseDatabase(m) \/ Crash(m)
  BY <1>2 DEF GiveUp, CloseDatabase, Crash, Conclude
<1>3. CASE Execute(m)
  <2>1. queue' = queue
    BY <1>3 DEF Execute
  <2>2. CASE UNCHANGED worker /\ database' = [database EXCEPT ![m] = Tail(@)]
    BY <2>1, <2>2
  <2>3. ASSUME NEW ok \in BOOLEAN, Answered(m, Head(database[m]).query, ok)
        PROVE  UNCHANGED <<worker[n], database[n]>>
    <3>1. \/ /\ database' = [database EXCEPT ![m] = Tail(database[m])]
             /\ \E answer : Conclude(m, worker[m].request, answer)
          \/ \E step : Submit(m, worker[m].request, step, Tail(database[m]))
      BY <2>3, AnsweredAlternatives
    <3>2. \E w, d : /\ worker' = [worker EXCEPT ![m] = w]
                    /\ database' = [database EXCEPT ![m] = d]
      BY <3>1 DEF Conclude, Submit
    <3> QED BY <3>2
  <2> QED BY <1>3, <2>1, <2>2, <2>3 DEF Execute
<1> QED BY <1>1, <1>2, <1>3

LEMMA ServerStep == ServerInv /\ [Next]_vars => ServerInv'
<1> SUFFICES ASSUME ServerInv, [Next]_vars PROVE QueryInv'
  BY TypesStep, OwnStep DEF ServerInv
<1>1. /\ QueryInv
      /\ queue \in [Managers -> Seq(Nat)]
      /\ worker \in [Managers -> [request : Nat, at : Queries \cup {"idle"}]]
      /\ database \in [Managers -> Seq([request : Nat, query : Queries])]
      /\ \A r \in Requests : requests[r].manager \in Managers
  BY RequestFacts DEF ServerInv, Types, ExecutingTypes, RequestRecords
<1>2. CASE SessionStep
  BY <1>1, <1>2, SessionKept, QueryQuiet DEF ServerInv, QueryInv, executing, Kept
<1>3. ASSUME NEW kind \in Kinds, Send(kind) PROVE QueryInv'
  BY <1>1, <1>3, SendKept, QueryQuiet DEF ServerInv, QueryInv, executing, Send
<1>4. ASSUME NEW r \in Requests, Read(r) PROVE QueryInv'
  BY <1>1, <1>4, QueryRead
<1>5. ASSUME NEW m \in Managers, Take(m) \/ GiveUp(m) \/ Execute(m) \/ CloseDatabase(m) \/ Crash(m),
             NEW n \in Managers, n # m
      PROVE  Once(n)' /\ Unread(n)' /\ Awaited(n)' /\ Compared(n)'
  <2>1. \A r \in Requests : KeptRequest(r) /\ Requests' = Requests
    BY <1>5, WorkTypes, CloseKept, CrashKept DEF ServerInv, WorkStep, Kept
  <2>2. UNCHANGED <<queue[n], worker[n], database[n]>>
    BY <1>5, OtherManagers DEF ServerInv
  <2>3. CASE revision' = revision
    BY <1>1, <2>1, <2>2, <2>3, QueryQuiet
  <2>4. CASE revision' # revision
    <3>1. database[m] # <<>>
      BY <1>5, <2>4 DEF Take, GiveUp, Execute, CloseDatabase, Crash
    <3>2. database[n] = <<>>
      BY <1>5, <3>1 DEF ServerInv, OwnInv
    <3>3. Held(n) = {} /\ Held(n)' = {} /\ Queued(n)' = Queued(n)
      BY <2>2, <3>2 DEF Held, Queued
    <3> QED BY <1>1, <2>1, <2>2, <3>3 DEF QueryInv, Once, Unread, Awaited, Compared, KeptRequest
  <2> QED BY <2>3, <2>4
<1>6. ASSUME NEW m \in Managers, Take(m) \/ GiveUp(m) \/ Execute(m) \/ CloseDatabase(m) \/ Crash(m)
      PROVE  QueryInv'
  <2>1. Take(m) \/ Execute(m) => Once(m)' /\ Unread(m)' /\ Awaited(m)' /\ Compared(m)'
    BY QueryTake, QueryExecute
  <2>2. GiveUp(m) => Once(m)' /\ Unread(m)' /\ Awaited(m)' /\ Compared(m)'
    <3> SUFFICES ASSUME GiveUp(m) PROVE Once(m)' /\ Unread(m)' /\ Awaited(m)' /\ Compared(m)'
      OBVIOUS
    <3>1. \A r \in Requests : KeptRequest(r) /\ Requests' = Requests
      BY WorkTypes DEF ServerInv, WorkStep, Kept
    <3>2. UNCHANGED <<queue[m], database[m], revision>> /\ worker'[m] = Idle
      BY <1>1 DEF GiveUp, Conclude
    <3> QED BY <1>1, <3>1, <3>2, QueryQuiet
  <2>3. CloseDatabase(m) \/ Crash(m) => Once(m)' /\ Unread(m)' /\ Awaited(m)' /\ Compared(m)'
    <3>1. ASSUME CloseDatabase(m) PROVE queue'[m] = <<>> /\ database'[m] = <<>> /\ worker'[m] = Idle
      <4>1. reactor[m] = "closing" /\ UNCHANGED <<queue, worker>> /\ database'[m] = <<>>
        BY <1>1, <3>1 DEF CloseDatabase
      <4> QED BY <4>1 DEF ServerInv, OwnInv, Accepting
    <3>2. ASSUME Crash(m) PROVE queue'[m] = <<>> /\ database'[m] = <<>> /\ worker'[m] = Idle
      BY <1>1, <3>2 DEF Crash
    <3> QED BY <3>1, <3>2, QueryEmpty
  <2> QED BY <1>5, <1>6, <2>1, <2>2, <2>3 DEF QueryInv
<1>7. CASE UNCHANGED vars
  <2>1. \A r \in Requests : KeptRequest(r) /\ Requests' = Requests
    BY <1>7 DEF vars, served, KeptRequest, Requests
  <2> QED BY <1>1, <1>7, <2>1, QueryQuiet DEF vars, executing, QueryInv
<1> QED BY <1>2, <1>3, <1>4, <1>6, <1>7 DEF Next, SessionStep

LEMMA ServerInit == Init => ServerInv
<1> SUFFICES ASSUME Init PROVE ServerInv
  OBVIOUS
<1>1. Types
  BY TypesInit
<1>2. Requests = {} /\ \A m \in Managers : Queued(m) = {} /\ Held(m) = {}
  BY EmptySeq DEF Init, Requests, Queued, Held
<1>3. OwnInv
  BY <1>2 DEF Init, OwnInv, Managers
<1>4. QueryInv
  BY <1>2 DEF Init, QueryInv, Once, Unread, Awaited, Compared
<1> QED BY <1>1, <1>3, <1>4 DEF ServerInv

\* WrittenOverSeen: `manager/operations.rs` compares the revision in one
\* database request and writes in the next; whatever other requests were given
\* up, however many managers followed each other, the write finds the revision
\* it was compared with.
THEOREM ChangesAreWrittenOverSeen == Spec => WrittenOverSeen
<1> DEFINE OverSeen == revision' # revision =>
             \E m \in Managers :
               /\ database'[m] # database[m]
               /\ requests[Head(database[m]).request].expected = revision
<1>1. Init => ServerInv
  BY ServerInit
<1>2. ServerInv /\ [Next]_vars => [OverSeen]_vars
  <2> SUFFICES ASSUME ServerInv, Next, revision' # revision
               PROVE  OverSeen
    BY DEF vars
  <2>1. PICK m \in Managers : Execute(m)
    BY DEF Next, Send, Start, Signal, Accept, EndReactor, Read, Respond, Flush, EndSession,
      Take, GiveUp, EndWorker, CloseDatabase, Crash, RemoveStale
  <2>2. database[m] # <<>> /\ database[m] \in Seq([request : Nat, query : Queries])
    BY <2>1 DEF Execute, ServerInv, Types, ExecutingTypes
  <2>3. Head(database[m]) = database[m][1] /\ 1 \in Held(m)
    BY <2>2, EmptySeq, LenProperties DEF Held
  <2>4. database[m][1].query = "write"
    BY <2>1, <2>3 DEF Execute
  <2>5. requests[database[m][1].request].expected = revision
    BY <2>3, <2>4 DEF ServerInv, QueryInv, Compared
  <2>6. database'[m] # database[m]
    <3>1. ServerInv'
      BY ServerStep
    <3>2. CASE database'[m] = database[m]
      <4>1. requests'[database[m][1].request].expected = revision'
        BY <2>3, <2>4, <3>1, <3>2 DEF ServerInv, QueryInv, Compared, Held
      <4>2. requests' = requests
        BY <2>1 DEF Execute, served
      <4> QED BY <2>5, <4>1, <4>2
    <3> QED BY <3>2
  <2> QED BY <2>3, <2>5, <2>6
<1> QED BY <1>1, <1>2, ServerStep, PTL DEF Spec, WrittenOverSeen

-----------------------------------------------------------------------------
(* Listing settles what is unknown *)

\* How work moves in a step: the queue loses its first piece or gains one that
\* was just read; the database loses its first request, or gains what was taken,
\* or has the next query of the request it has executed in its place.
Moved(m, d, e) ==
  /\ \A i \in Queued(m)' :
       \/ i + d \in Queued(m) /\ queue'[m][i] = queue[m][i + d]
       \/ /\ d = 0 /\ \A k \in Queued(m) : k < i
          /\ queue'[m][i] \in Requests /\ sessions[queue'[m][i]] = "open"
  /\ \A i \in Held(m)' :
       \/ i + e \in Held(m) /\ database'[m][i].request = database[m][i + e].request
       \/ /\ d = 1 /\ e = 0 /\ \A k \in Held(m) : k < i
          /\ 1 \in Queued(m) /\ database'[m][i].request = queue[m][1]

Flow(m) == Moved(m, 0, 0) \/ Moved(m, 0, 1) \/ Moved(m, 1, 0)

LEMMA FlowQuiet ==
  ASSUME NEW m \in Managers, UNCHANGED <<queue[m], database[m]>>
  PROVE  Flow(m)
<1>1. Queued(m)' = Queued(m) /\ Held(m)' = Held(m)
  BY DEF Queued, Held
<1>2. \A i \in Queued(m) \cup Held(m) : i + 0 = i
  BY DEF Queued, Held
<1> QED BY <1>1, <1>2 DEF Flow, Moved

LEMMA FlowTake ==
  ASSUME Types, NEW m \in Managers, Take(m)
  PROVE  Flow(m)
<1>1. /\ queue \in [Managers -> Seq(Nat)] /\ queue[m] \in Seq(Nat)
      /\ database \in [Managers -> Seq([request : Nat, query : Queries])]
  BY DEF Types, ExecutingTypes
<1>2. /\ queue[m] # <<>> /\ queue' = [queue EXCEPT ![m] = Tail(queue[m])]
  BY DEF Take
<1>3. /\ Len(queue[m]) \in Nat /\ Len(queue'[m]) = Len(queue[m]) - 1 /\ Len(queue[m]) > 0
      /\ \A i \in 1..Len(queue'[m]) : queue'[m][i] = queue[m][i + 1]
      /\ Head(queue[m]) = queue[m][1]
  BY <1>1, <1>2, HeadTailProperties, EmptySeq, LenProperties
<1>4. /\ 1 \in Queued(m)
      /\ \A i \in Queued(m)' : i + 1 \in Queued(m) /\ queue'[m][i] = queue[m][i + 1]
  BY <1>3 DEF Queued
<1>5. CASE UNCHANGED database
  <2>1. Held(m)' = Held(m) /\ \A i \in Held(m) : i + 0 = i
    BY <1>5 DEF Held
  <2> QED BY <1>4, <1>5, <2>1 DEF Flow, Moved
<1>6. ASSUME NEW step \in {"check", "revision"}, Submit(m, queue[m][1], step, database[m])
      PROVE  Flow(m)
  <2> DEFINE new == [request |-> queue[m][1], query |-> step]
  <2>1. new \in [request : Nat, query : Queries] /\ database[m] \in Seq([request : Nat, query : Queries])
    BY <1>1, <1>4, ElementOfSeq DEF Queued, Queries
  <2>2. database'[m] = Append(database[m], new) /\ new.request = queue[m][1]
    BY <1>1, <1>6 DEF Submit
  <2> HIDE DEF new
  <2>3. /\ Len(database[m]) \in Nat /\ Len(database'[m]) = Len(database[m]) + 1
        /\ \A i \in 1..Len(database[m]) : database'[m][i] = database[m][i]
        /\ database'[m][Len(database[m]) + 1] = new
    BY <2>1, <2>2, Appended, LenProperties
  <2>4. \A i \in Held(m)' :
          \/ i + 0 \in Held(m) /\ database'[m][i].request = database[m][i + 0].request
          \/ /\ \A k \in Held(m) : k < i
             /\ database'[m][i].request = queue[m][1]
    BY <2>2, <2>3 DEF Held
  <2> QED BY <1>4, <2>4 DEF Flow, Moved
<1>7. \/ UNCHANGED database
      \/ \E step \in {"check", "revision"} : Submit(m, queue[m][1], step, database[m])
  BY <1>3 DEF Take, Conclude, FirstQuery
<1> QED BY <1>5, <1>6, <1>7

LEMMA FlowExecute ==
  ASSUME ServerInv, NEW m \in Managers, Execute(m)
  PROVE  Flow(m)
<1>1. /\ database \in [Managers -> Seq([request : Nat, query : Queries])]
      /\ worker \in [Managers -> [request : Nat, at : Queries \cup {"idle"}]]
      /\ Types /\ Once(m) /\ Awaited(m)
  BY DEF ServerInv, QueryInv, Types, ExecutingTypes
<1>2. database[m] # <<>> /\ queue' = queue
  BY DEF Execute
<1>3. Queued(m)' = Queued(m) /\ \A i \in Queued(m) : i + 0 = i
  BY <1>2 DEF Queued
<1>4. ASSUME database'[m] = Tail(database[m]) PROVE Flow(m)
  <2>1. \A i \in Held(m)' : i + 1 \in Held(m) /\ database'[m][i].request = database[m][i + 1].request
    BY <1>1, <1>2, <1>4, HeldFacts DEF Held
  <2> QED BY <1>2, <1>3, <2>1 DEF Flow, Moved
<1>5. ASSUME worker[m] = [request |-> database[m][1].request, at |-> database[m][1].query],
             NEW step \in {"write", "revision"},
             Submit(m, worker[m].request, step, Tail(database[m]))
      PROVE  Flow(m)
  <2>1. /\ worker[m].request = database[m][1].request
        /\ Len(database[m]) = 1 /\ Tail(database[m]) = <<>>
    BY <1>1, <1>2, <1>5, AnsweredAlone
  <2> DEFINE new == [request |-> worker[m].request, query |-> step]
  <2>2. database'[m] = Append(<<>>, new)
    BY <1>1, <1>5, <2>1 DEF Submit
  <2>3. new.request = database[m][1].request /\ new \in [request : Nat, query : Queries]
    BY <1>1, <2>1 DEF Queries
  <2> HIDE DEF new
  <2>4. Len(database'[m]) = 1 /\ database'[m][1] = new
    BY <2>2, <2>3, EmptySeq, Appended
  <2>5. Held(m)' = {1} /\ Held(m) = {1} /\ 1 + 0 = 1
    BY <2>1, <2>4 DEF Held
  <2> QED BY <1>2, <1>3, <2>3, <2>4, <2>5 DEF Flow, Moved
<1>6. PICK ok \in BOOLEAN :
        IF worker[m] = [request |-> database[m][1].request, at |-> database[m][1].query]
        THEN Answered(m, database[m][1].query, ok)
        ELSE database' = [database EXCEPT ![m] = Tail(@)]
  BY <1>1, <1>2, HeldFacts DEF Execute
<1>7. CASE database' = [database EXCEPT ![m] = Tail(database[m])]
  BY <1>1, <1>4, <1>7
<1> QED BY <1>5, <1>6, <1>7, AnsweredAlternatives

LEMMA FlowRead ==
  ASSUME Types, NEW r \in Requests, NEW m \in Managers, Read(r)
  PROVE  Flow(m)
<1>1. queue \in [Managers -> Seq(Nat)] /\ r \in Nat
  BY RequestFacts DEF Types, ExecutingTypes
<1>2. /\ sessions[r] = "open" /\ UNCHANGED database
      /\ queue'[m] = queue[m] \/ queue'[m] = Append(queue[m], r)
  BY <1>1 DEF Read
<1>3. CASE queue'[m] = Append(queue[m], r)
  <2>1. /\ Len(queue[m]) \in Nat /\ Len(queue'[m]) = Len(queue[m]) + 1
        /\ \A i \in 1..Len(queue[m]) : queue'[m][i] = queue[m][i]
        /\ queue'[m][Len(queue[m]) + 1] = r
    BY <1>1, <1>3, Appended, LenProperties
  <2>3. \A i \in Queued(m)' :
          \/ i + 0 \in Queued(m) /\ queue'[m][i] = queue[m][i + 0]
          \/ (\A k \in Queued(m) : k < i) /\ queue'[m][i] = r
    BY <2>1 DEF Queued
  <2>4. Held(m)' = Held(m) /\ \A i \in Held(m) : i + 0 = i
    BY <1>2 DEF Held
  <2> QED BY <1>2, <2>3, <2>4 DEF Flow, Moved
<1> QED BY <1>2, <1>3, FlowQuiet

LEMMA FlowStep ==
  ASSUME ServerInv, [Next]_vars, NEW m \in Managers
  PROVE  Flow(m)
<1>1. Types
  BY DEF ServerInv
<1>2. CASE SessionStep \/ (\E kind \in Kinds : Send(kind)) \/ UNCHANGED vars
  <2>1. UNCHANGED <<queue, database>>
    BY <1>1, <1>2, SessionKept DEF executing, Send, vars
  <2> QED BY <2>1, FlowQuiet
<1>3. CASE \E r \in Requests : Read(r)
  BY <1>1, <1>3, FlowRead
<1>4. ASSUME NEW n \in Managers, Take(n) \/ GiveUp(n) \/ Execute(n) \/ CloseDatabase(n) \/ Crash(n)
      PROVE  Flow(m)
  <2>1. CASE m # n
    BY <1>1, <1>4, <2>1, OtherManagers, FlowQuiet
  <2>2. CASE m = n /\ (Take(n) \/ Execute(n))
    BY <1>1, <2>2, FlowTake, FlowExecute
  <2>3. CASE m = n /\ GiveUp(n)
    BY <2>3, FlowQuiet DEF GiveUp
  <2>4. CASE m = n /\ (CloseDatabase(n) \/ Crash(n))
    <3>1. database'[m] = <<>> /\ (queue'[m] = queue[m] \/ queue'[m] = <<>>)
      BY <1>1, <2>4 DEF CloseDatabase, Crash, Types, ExecutingTypes
    <3>2. Held(m)' = {} /\ (Queued(m)' = {} \/ (Queued(m)' = Queued(m) /\ queue'[m] = queue[m]))
      BY <3>1 DEF Held, Queued
    <3>3. \A i \in Queued(m) : i + 0 = i
      BY DEF Queued
    <3> QED BY <3>2, <3>3 DEF Flow, Moved
  <2> QED BY <1>4, <2>1, <2>2, <2>3, <2>4
<1> QED BY <1>2, <1>3, <1>4 DEF Next, SessionStep

\* Of two pieces of work of one manager the first is executed first.
Ahead(m, q, r) ==
  /\ \A i, j \in Queued(m) : queue[m][i] = q /\ queue[m][j] = r => i < j
  /\ \A i \in Queued(m), j \in Held(m) : ~(queue[m][i] = q /\ database[m][j].request = r)
  /\ \A i, j \in Held(m) : database[m][i].request = q /\ database[m][j].request = r => i < j

Present(q) ==
  \E m \in Managers :
    \/ \E i \in Queued(m) : queue[m][i] = q
    \/ \E i \in Held(m) : database[m][i].request = q

Approved(r) == requests[r].answer.status = "ok" \/ replies[r].status = "ok"

\* What was over for its client when `r` was sent is executed before `r`, and is
\* nowhere when `r` has succeeded.
Settled(r, q) ==
  /\ q \in Requests /\ q # r /\ sessions[q] = "none"
  /\ Approved(r) => ~Present(q)
  /\ \A m \in Managers : Ahead(m, q, r)

SettleInv ==
  /\ ServerInv
  /\ \A r \in Requests : Told(r) => sessions[r] = "none"
  /\ \A r \in Requests : \A q \in requests[r].after : Settled(r, q)

LEMMA PresentFlow ==
  ASSUME NEW q, sessions[q] # "open", \A m \in Managers : Flow(m), Present(q)'
  PROVE  Present(q)
<1>1. PICK m \in Managers : \/ \E i \in Queued(m)' : queue'[m][i] = q
                            \/ \E i \in Held(m)' : database'[m][i].request = q
  BY DEF Present
<1>2. PICK d \in {0, 1}, e \in {0, 1} : Moved(m, d, e)
  BY DEF Flow
<1>3. CASE \E i \in Queued(m)' : queue'[m][i] = q
  BY <1>2, <1>3 DEF Moved, Present
<1>4. CASE \E i \in Held(m)' : database'[m][i].request = q
  BY <1>2, <1>4 DEF Moved, Present
<1> QED BY <1>1, <1>3, <1>4

LEMMA AheadFlow ==
  ASSUME NEW m, Flow(m), NEW q, NEW r, q # r, sessions[q] # "open", Ahead(m, q, r)
  PROVE  Ahead(m, q, r)'
<1>1. PICK d \in {0, 1}, e \in {0, 1} : Moved(m, d, e)
  BY DEF Flow
<1>2. /\ \A i \in Queued(m) : i \in Int
      /\ \A i \in Queued(m)' : i \in Int /\ i >= 1
      /\ \A i \in Held(m)' : i \in Int
  BY DEF Queued, Held
<1>3. ASSUME NEW i \in Queued(m)', NEW j \in Queued(m)', queue'[m][i] = q, queue'[m][j] = r
      PROVE  i < j
  <2>1. i + d \in Queued(m) /\ queue[m][i + d] = q
    BY <1>1, <1>3 DEF Moved
  <2>2. CASE j + d \in Queued(m) /\ queue[m][j + d] = r
    <3>1. i + d < j + d
      BY <2>1, <2>2 DEF Ahead
    <3> QED BY <1>2, <3>1
  <2>3. CASE d = 0 /\ \A k \in Queued(m) : k < j
    <3>1. i + 0 < j
      BY <2>1, <2>3
    <3> QED BY <1>2, <3>1
  <2> QED BY <1>1, <1>3, <2>2, <2>3 DEF Moved
<1>4. ASSUME NEW i \in Queued(m)', NEW j \in Held(m)',
             queue'[m][i] = q, database'[m][j].request = r
      PROVE  FALSE
  <2>1. i + d \in Queued(m) /\ queue[m][i + d] = q
    BY <1>1, <1>4 DEF Moved
  <2>2. CASE j + e \in Held(m) /\ database[m][j + e].request = r
    BY <2>1, <2>2 DEF Ahead
  <2>3. CASE d = 1 /\ 1 \in Queued(m) /\ queue[m][1] = r
    <3>1. i + 1 < 1
      BY <2>1, <2>3 DEF Ahead
    <3> QED BY <1>2, <3>1
  <2> QED BY <1>1, <1>4, <2>2, <2>3 DEF Moved
<1>5. ASSUME NEW i \in Held(m)', NEW j \in Held(m)',
             database'[m][i].request = q, database'[m][j].request = r
      PROVE  i < j
  <2>1. CASE i + e \in Held(m) /\ database[m][i + e].request = q
    <3>1. CASE j + e \in Held(m) /\ database[m][j + e].request = r
      <4>1. i + e < j + e
        BY <2>1, <3>1 DEF Ahead
      <4> QED BY <1>2, <4>1
    <3>2. CASE e = 0 /\ \A k \in Held(m) : k < j
      <4>1. i + 0 < j
        BY <2>1, <3>2
      <4> QED BY <1>2, <4>1
    <3> QED BY <1>1, <1>5, <3>1, <3>2 DEF Moved
  <2>2. CASE 1 \in Queued(m) /\ queue[m][1] = q /\ e = 0
    <3>1. CASE j + e \in Held(m) /\ database[m][j + e].request = r
      BY <2>2, <3>1 DEF Ahead
    <3>2. CASE queue[m][1] = r
      BY <2>2, <3>2
    <3> QED BY <1>1, <1>5, <3>1, <3>2 DEF Moved
  <2> QED BY <1>1, <1>5, <2>1, <2>2 DEF Moved
<1> QED BY <1>3, <1>4, <1>5 DEF Ahead

\* A request succeeds in one place: its last query was executed.
LEMMA ApprovedBy ==
  ASSUME ServerInv, [Next]_vars, NEW r \in Requests,
         replies'[r].status = "ok", replies[r].status # "ok"
  PROVE  \E m \in Managers : database[m] # <<>> /\ Len(database[m]) = 1 /\ database[m][1].request = r
<1>1. /\ DOMAIN replies = Requests /\ replies \in Seq(Answers)
      /\ NoReply.status # "ok" /\ Failed.status # "ok"
  BY RequestFacts DEF ServerInv, Types, ServedTypes, NoReply, Failed
<1>2. \A rs \in SUBSET Requests : ~Dropped(rs)
  BY <1>1 DEF Dropped
<1>3. \A x : replies' # [replies EXCEPT ![x] = NoReply] /\ replies' # [replies EXCEPT ![x] = Failed]
  BY <1>1
<1>4. replies' # replies
  OBVIOUS
<1>5. ASSUME NEW m \in Managers, Start(m) \/ Signal(m) \/ Accept(m) \/ EndReactor(m) \/ Crash(m)
      PROVE  FALSE
  BY <1>2, <1>4, <1>5 DEF Start, Signal, Accept, EndReactor, Crash, Sessions, Backlog
<1>6. ASSUME NEW q \in Requests, Read(q) \/ Respond(q) \/ Flush(q) \/ EndSession(q) PROVE FALSE
  BY <1>2, <1>3, <1>4, <1>6 DEF Read, Respond, Flush, EndSession
<1>7. ASSUME NEW kind \in Kinds, Send(kind) PROVE FALSE
  BY <1>7, SendKept DEF ServerInv
<1>8. ASSUME NEW m \in Managers, EndWorker(m) \/ CloseDatabase(m) PROVE FALSE
  BY <1>4, <1>8 DEF EndWorker, CloseDatabase
<1>9. ASSUME NEW m \in Managers, Take(m) \/ GiveUp(m) PROVE FALSE
  <2>1. \/ replies' = replies \/ \E x : replies' = [replies EXCEPT ![x] = Failed]
    BY <1>9 DEF Take, GiveUp, Conclude, Submit
  <2> QED BY <1>3, <1>4, <2>1
<1>10. ~RemoveStale /\ ~UNCHANGED vars
  BY <1>4 DEF RemoveStale, vars
<1>11. PICK m \in Managers : Execute(m)
  BY <1>5, <1>6, <1>7, <1>8, <1>9, <1>10 DEF Next
<1>12. Types /\ Once(m) /\ Awaited(m) /\ database[m] # <<>>
  BY <1>11 DEF ServerInv, QueryInv, Execute
<1>13. PICK ok \in BOOLEAN :
         /\ worker[m] = [request |-> database[m][1].request, at |-> database[m][1].query]
         /\ Answered(m, database[m][1].query, ok)
  BY <1>4, <1>11, <1>12, HeldFacts DEF Execute
<1>14. /\ worker[m].request = database[m][1].request /\ Len(database[m]) = 1
  BY <1>12, <1>13, AnsweredAlone
<1>15. \E answer : replies' = replies \/ replies' = [replies EXCEPT ![worker[m].request] = answer]
  <2>1. (\E answer : Conclude(m, worker[m].request, answer))
          \/ \E step : Submit(m, worker[m].request, step, Tail(database[m]))
    BY <1>13, AnsweredAlternatives
  <2> QED BY <2>1 DEF Conclude, Submit
<1>16. worker[m].request = r
  BY <1>1, <1>15
<1> QED BY <1>12, <1>14, <1>16

LEMMA SettleStep == SettleInv /\ [Next]_vars => SettleInv'
<1> SUFFICES ASSUME SettleInv, [Next]_vars PROVE SettleInv'
  OBVIOUS
<1>1. ServerInv /\ ServerInv' /\ Types
  BY ServerStep DEF SettleInv, ServerInv
<1>2. /\ Requests \subseteq Requests'
      /\ \A r \in Requests : KeptRequest(r)
  <2>1. CASE SessionStep \/ WorkStep
    BY <1>1, <2>1, SessionKept, WorkTypes DEF Kept
  <2>2. CASE \E kind \in Kinds : Send(kind)
    BY <1>1, <2>2, SendKept
  <2>3. CASE \E r \in Requests : Read(r)
    BY <1>1, <2>3, ReadKept DEF Kept
  <2>4. CASE \E m \in Managers : CloseDatabase(m) \/ Crash(m)
    BY <1>1, <2>4, CloseKept, CrashKept DEF Kept
  <2>5. CASE UNCHANGED vars
    BY <2>5 DEF vars, served, KeptRequest, Requests
  <2> QED BY <2>1, <2>2, <2>3, <2>4, <2>5 DEF Next, SessionStep, WorkStep
<1>3. \A m \in Managers : Flow(m)
  BY <1>1, FlowStep
<1>4. ASSUME NEW r \in Requests, NEW q \in requests[r].after PROVE Settled(r, q)'
  <2>1. Settled(r, q)
    BY DEF SettleInv
  <2>2. q \in Requests' /\ q # r /\ sessions'[q] = "none" /\ sessions[q] = "none"
    BY <1>2, <2>1 DEF Settled, KeptRequest
  <2>3. \A m \in Managers : Ahead(m, q, r)'
    BY <1>3, <2>1, <2>2, AheadFlow DEF Settled
  <2>4. ASSUME Approved(r)', Present(q)' PROVE FALSE
    <3>1. Present(q)
      BY <1>3, <2>2, <2>4, PresentFlow
    <3>2. ~Approved(r)
      BY <2>1, <3>1 DEF Settled
    <3>3. replies'[r].status = "ok" /\ replies[r].status # "ok"
      BY <1>2, <2>4, <3>2 DEF Approved, KeptRequest
    <3>4. PICK m \in Managers : /\ database[m] # <<>> /\ Len(database[m]) = 1
                                /\ database[m][1].request = r
      BY <1>1, <3>3, ApprovedBy
    <3>5. PICK n \in Managers : \/ \E i \in Queued(n) : queue[n][i] = q
                                \/ \E i \in Held(n) : database[n][i].request = q
      BY <3>1 DEF Present
    <3>6. m = n
      <4>1. lock = m
        BY <1>1, <3>4 DEF ServerInv, OwnInv
      <4>2. queue[n] # <<>> \/ database[n] # <<>>
        BY <3>5, EmptySeq DEF Queued, Held
      <4>3. lock = n
        BY <1>1, <4>2 DEF ServerInv, OwnInv, Accepting
      <4> QED BY <4>1, <4>3
    <3>7. Held(m) = {1}
      BY <3>4 DEF Held
    <3> QED BY <2>1, <3>4, <3>5, <3>6, <3>7 DEF Settled, Ahead
  <2> QED BY <2>2, <2>3, <2>4 DEF Settled
<1>5. ASSUME NEW r \in Requests', r \notin Requests
      PROVE  /\ ~Told(r)'
             /\ \A q \in requests'[r].after : Settled(r, q)'
  <2>1. PICK kind \in Kinds : Send(kind)
    <3>1. CASE SessionStep \/ WorkStep
      BY <1>1, <1>5, <3>1, SessionKept, WorkTypes DEF Kept
    <3>2. CASE \E x \in Requests : Read(x)
      BY <1>1, <1>5, <3>2, ReadKept DEF Kept
    <3>3. CASE \E m \in Managers : CloseDatabase(m) \/ Crash(m)
      BY <1>1, <1>5, <3>3, CloseKept, CrashKept DEF Kept
    <3>4. CASE UNCHANGED vars
      BY <1>5, <3>4 DEF vars, served, Requests
    <3> QED BY <3>1, <3>2, <3>3, <3>4 DEF Next, SessionStep, WorkStep
  <2>2. /\ r = Len(requests) + 1
        /\ requests'[r].after = {q \in Requests : Told(q)}
        /\ requests'[r].answer = NoReply /\ replies'[r] = NoReply
    BY <1>1, <1>5, <2>1, SendKept
  <2>3. ~Told(r)' /\ ~Approved(r)'
    BY <2>2 DEF Told, Approved, NoReply
  <2>4. UNCHANGED <<queue, database>>
    BY <2>1 DEF Send, executing
  <2>5. \A m \in Managers : /\ \A i \in Queued(m) : queue[m][i] # r
                            /\ \A i \in Held(m) : database[m][i].request # r
    BY <1>1, <1>5 DEF ServerInv, QueryInv, Once
  <2>6. \A m \in Managers : \A q : Ahead(m, q, r)'
    BY <2>4, <2>5 DEF Ahead, Queued, Held
  <2>7. ASSUME NEW q \in Requests, Told(q) PROVE Settled(r, q)'
    <3>1. sessions[q] = "none"
      BY <2>7 DEF SettleInv
    <3> QED BY <1>2, <1>5, <2>3, <2>6, <3>1 DEF Settled, KeptRequest
  <2> QED BY <2>2, <2>3, <2>7
<1>6. \A r \in Requests : Told(r)' => sessions'[r] = "none"
  BY <1>2 DEF SettleInv, KeptRequest, Told
<1>7. \A r \in Requests : \A q \in requests'[r].after : Settled(r, q)'
  BY <1>2, <1>4 DEF KeptRequest
<1> QED BY <1>1, <1>5, <1>6, <1>7 DEF SettleInv

\* ListSettles: once a request has succeeded, whatever the client was left in
\* doubt about when it sent it is over: `manager/client.rs` may retry.
THEOREM ListingSettles == Spec => []ListSettles
<1>1. Init => SettleInv
  <2>1. Init => Requests = {}
    BY EmptySeq DEF Init, Requests
  <2> QED BY <2>1, ServerInit DEF SettleInv
<1>2. SettleInv => ListSettles
  <2> SUFFICES ASSUME SettleInv, NEW r \in Requests, requests[r].answer.status = "ok",
                      NEW q \in requests[r].after
               PROVE  ~Outstanding(q)
    BY DEF ListSettles
  <2>1. q \in Requests /\ sessions[q] = "none" /\ ~Present(q)
    BY DEF SettleInv, Settled, Approved
  <2>2. /\ Types /\ \A m \in Managers : Awaited(m)
        /\ queue \in [Managers -> Seq(Nat)]
        /\ database \in [Managers -> Seq([request : Nat, query : Queries])]
    BY DEF SettleInv, ServerInv, QueryInv, Types, ExecutingTypes
  <2>6. q # 0
    <3>1. Requests = 1..Len(requests) /\ Len(requests) \in Nat
      BY <2>2, RequestFacts DEF Types
    <3> QED BY <2>1, <3>1
  <2>3. ASSUME NEW m \in Managers PROVE q \notin Range(queue[m])
    <3>1. DOMAIN queue[m] = Queued(m)
      BY <2>2, LenProperties DEF Queued
    <3> QED BY <2>1, <3>1 DEF Range, Present
  <2>4. ASSUME NEW m \in Managers, NEW i \in DOMAIN database[m], database[m][i].request = q
        PROVE  FALSE
    <3>1. DOMAIN database[m] = Held(m)
      BY <2>2, LenProperties DEF Held
    <3> QED BY <2>1, <2>4, <3>1 DEF Present
  <2>5. ASSUME NEW m \in Managers, worker[m].request = q PROVE FALSE
    <3>1. worker[m] # Idle
      BY <2>5, <2>6 DEF Idle
    <3>2. /\ database[m] # <<>>
          /\ database[m][Len(database[m])] = [request |-> worker[m].request, query |-> worker[m].at]
      BY <2>2, <3>1 DEF Awaited
    <3>3. Len(database[m]) \in DOMAIN database[m]
      BY <2>2, <3>2, HeldFacts, LenProperties
    <3> QED BY <2>4, <2>5, <3>2, <3>3
  <2> QED BY <2>1, <2>3, <2>4, <2>5 DEF Outstanding
<1> QED BY <1>1, <1>2, SettleStep, PTL DEF Spec

-----------------------------------------------------------------------------
(* What becomes of a request *)

\* The worker goes on alone with the database once it has compared; what it
\* reads in the end is what it has compared, or what it has written over that.
Confirmed(m) ==
  worker[m] # Idle /\ worker[m].at # "check" /\ requests[worker[m].request].kind # "status" =>
    /\ Len(database[m]) = 1
    /\ worker[m].at = "revision" /\ requests[worker[m].request].kind = "change" =>
         revision = requests[worker[m].request].expected + 1
    /\ worker[m].at = "revision" /\ requests[worker[m].request].kind = "stop" =>
         revision = requests[worker[m].request].expected

OnlyChanges(m) ==
  \A i \in Held(m) : database[m][i].query = "write" =>
    requests[database[m][i].request].kind = "change"

\* What has succeeded is nowhere any more.
Finished == \A r \in Requests : Approved(r) => ~Present(r) /\ sessions[r] \notin Waiting

CallInv ==
  /\ SettleInv
  /\ Requests \subseteq 1..MaxRequests
  /\ \A m \in Managers : Confirmed(m) /\ OnlyChanges(m)
  /\ Finished

\* A request is answered once: it fails with its session, or its reply is written.
AsAsked(r) ==
  /\ requests'[r].kind = requests[r].kind
  /\ requests'[r].expected = requests[r].expected
  /\ requests'[r].after = requests[r].after

Unsuccessful(r) ==
  /\ AsAsked(r)
  /\ \/ requests'[r].answer = requests[r].answer
     \/ requests[r].answer.status = "none" /\ requests'[r].answer.status = "failed"
  /\ replies'[r] \in {replies[r], NoReply, Failed}

AnsweredOnce(r) ==
  /\ AsAsked(r)
  /\ Unsuccessful(r) \/ (\E m \in Managers : Execute(m)) \/ \E q \in Requests : Flush(q)

RecordsTyped == \A r \in Requests : requests[r] \in RequestRecords

LEMMA RecordTypes == ServedTypes => RecordsTyped
BY RequestFacts DEF RecordsTyped

LEMMA RecordTypesAfter == ServedTypes' => RecordsTyped'
BY RecordTypes, PTL

LEMMA DroppedAnswers ==
  ASSUME SettleInv, NEW rs \in SUBSET Requests, \A r \in rs : sessions[r] # "none",
         Dropped(rs), NEW r \in Requests
  PROVE  Unsuccessful(r)
<1>1. /\ Requests = 1..Len(requests) /\ requests[r] \in RequestRecords
      /\ requests[r].answer.status \in {"none", "ok", "failed"}
  BY RequestFacts DEF SettleInv, ServerInv, Types, RequestRecords, Answers
<1>2. r \in rs => requests[r].answer.status = "none"
  BY DEF SettleInv, Told
<1>3. /\ requests'[r] = IF r \in rs THEN [requests[r] EXCEPT !.answer = Failed] ELSE requests[r]
      /\ replies'[r] \in {replies[r], NoReply}
  BY DEF Dropped
<1> QED BY <1>1, <1>2, <1>3 DEF Unsuccessful, AsAsked, RequestRecords, Failed

SilentStep ==
  \/ \E kind \in Kinds : Send(kind)
  \/ \E m \in Managers : Start(m) \/ Signal(m) \/ Accept(m) \/ EndReactor(m) \/ EndWorker(m)
  \/ \E q \in Requests : Read(q) \/ Respond(q) \/ EndSession(q)
  \/ \E m \in Managers : Take(m) \/ GiveUp(m) \/ CloseDatabase(m) \/ Crash(m)
  \/ RemoveStale \/ UNCHANGED vars

LEMMA SilentAnswers ==
  ASSUME SettleInv, SilentStep, NEW r \in Requests
  PROVE  r \in Requests' /\ Unsuccessful(r)
<1>1. /\ Types /\ DOMAIN replies = Requests /\ DOMAIN requests = Requests
      /\ requests[r] \in RequestRecords
      /\ requests[r].answer.status \in {"none", "ok", "failed"}
  BY RequestFacts DEF SettleInv, ServerInv, Types, RequestRecords, Answers, Requests
<1>2. ASSUME UNCHANGED requests, replies'[r] \in {replies[r], NoReply, Failed}
      PROVE  r \in Requests' /\ Unsuccessful(r)
  BY <1>2 DEF Unsuccessful, AsAsked, Requests
<1>3. CASE \E m \in Managers : Start(m) \/ Signal(m) \/ EndWorker(m) \/ CloseDatabase(m)
  BY <1>2, <1>3 DEF Start, Signal, EndWorker, CloseDatabase, served
<1>4. CASE \E m \in Managers : Take(m) \/ GiveUp(m)
  <2>1. UNCHANGED requests /\ \E x : replies' \in {replies, [replies EXCEPT ![x] = Failed]}
    BY <1>4 DEF Take, GiveUp, Conclude, Submit, served
  <2> QED BY <1>1, <1>2, <2>1
<1>5. CASE RemoveStale \/ UNCHANGED vars
  BY <1>2, <1>5 DEF RemoveStale, served, vars
<1>6. CASE \E kind \in Kinds : Send(kind)
  <2>1. PICK kind \in Kinds : Send(kind)
    BY <1>6
  <2>2. \E new \in RequestRecords : requests' = Append(requests, new)
    <3>1. ServedTypes' /\ Requests' = Requests \cup {Len(requests) + 1}
      BY <1>1, <2>1, SendKept
    <3>2. requests'[Len(requests) + 1] \in RequestRecords
      BY <3>1, RecordTypesAfter DEF RecordsTyped
    <3>3. \E new : requests' = Append(requests, new)
      BY <2>1 DEF Send
    <3> QED BY <1>1, <3>2, <3>3, LenProperties DEF Types, ServedTypes
  <2>3. requests'[r] = requests[r] /\ r \in Requests' /\ replies'[r] = replies[r]
    BY <1>1, <2>1, <2>2, SendKept, Appended, RequestFacts DEF Types, ServedTypes
  <2> QED BY <2>3 DEF Unsuccessful, AsAsked
<1>7. CASE \E q \in Requests : Read(q) \/ Respond(q)
  <2>1. UNCHANGED requests /\ \E q \in Requests : replies' \in {replies, [replies EXCEPT ![q] = Failed]}
    BY <1>7 DEF Read, Respond
  <2> QED BY <1>1, <1>2, <2>1
<1>8. CASE \E rs \in SUBSET Requests : Dropped(rs) /\ \A q \in rs : sessions[q] # "none"
  BY <1>1, <1>8, DroppedAnswers, DroppedKept DEF Kept, Types
<1>9. CASE \E m \in Managers : Accept(m) \/ EndReactor(m) \/ Crash(m)
  <2>1. \/ UNCHANGED <<requests, replies>>
        \/ \E rs \in SUBSET Requests : Dropped(rs) /\ \A q \in rs : sessions[q] # "none"
    <3>1. ASSUME NEW m \in Managers, Accept(m)
          PROVE  UNCHANGED <<requests, replies>> \/ \E q \in Backlog(m) : Dropped({q})
      BY <3>1, Zenon DEF Accept
    <3>2. ASSUME NEW m \in Managers, EndReactor(m) \/ Crash(m) PROVE Dropped(Sessions(m))
      BY <3>2 DEF EndReactor, Crash
    <3>3. \A m \in Managers : Sessions(m) \in SUBSET Requests /\ Backlog(m) \in SUBSET Sessions(m)
                              /\ \A q \in Sessions(m) : sessions[q] # "none"
      BY DEF Sessions, Backlog
    <3>4. ASSUME NEW m \in Managers, NEW q \in Backlog(m)
          PROVE  {q} \in SUBSET Requests /\ \A x \in {q} : sessions[x] # "none"
      BY <3>3
    <3> QED BY <1>9, <3>1, <3>2, <3>3, <3>4, Zenon
  <2> QED BY <1>2, <1>8, <2>1
<1>10. CASE \E q \in Requests : EndSession(q)
  <2>1. \E rs \in SUBSET Requests : Dropped(rs) /\ \A q \in rs : sessions[q] # "none"
    BY <1>10 DEF EndSession
  <2> QED BY <1>8, <2>1
<1> QED BY <1>3, <1>4, <1>5, <1>6, <1>7, <1>9, <1>10 DEF SilentStep

LEMMA FlushAnswers ==
  ASSUME SettleInv, NEW q \in Requests, Flush(q), NEW r \in Requests
  PROVE  /\ AsAsked(r) /\ requests[q].answer.status = "none"
         /\ requests'[r].answer = IF r = q THEN replies[r] ELSE requests[r].answer
         /\ replies'[r] = IF r = q THEN NoReply ELSE replies[r]
<1>1. /\ Types /\ DOMAIN replies = Requests /\ DOMAIN requests = Requests
      /\ requests[q].answer.status \in {"none", "ok", "failed"}
      /\ requests[r] \in RequestRecords
  BY RequestFacts DEF SettleInv, ServerInv, Types, RequestRecords, Answers, Requests
<1>2. /\ requests' = [requests EXCEPT ![q].answer = replies[q]]
      /\ replies' = [replies EXCEPT ![q] = NoReply] /\ sessions[q] = "responding"
  BY DEF Flush, Answer
<1>3. requests[q].answer.status = "none"
  BY <1>2 DEF SettleInv, Told
<1> QED BY <1>1, <1>2, <1>3 DEF AsAsked, RequestRecords

LEMMA RequestStep ==
  ASSUME SettleInv, [Next]_vars, NEW r \in Requests
  PROVE  r \in Requests' /\ AnsweredOnce(r)
<1>1. CASE SilentStep
  BY <1>1, SilentAnswers DEF AnsweredOnce, Unsuccessful
<1>2. CASE \E q \in Requests : Flush(q)
  BY <1>2, FlushAnswers, SessionKept DEF AnsweredOnce, SessionStep, Kept, SettleInv, ServerInv
<1>3. CASE \E m \in Managers : Execute(m)
  BY <1>3 DEF Execute, served, AnsweredOnce, AsAsked, Requests
<1> QED BY <1>1, <1>2, <1>3 DEF Next, SilentStep

-----------------------------------------------------------------------------
(* What a request to the database does *)

LEMMA Alone ==
  ASSUME ServerInv, NEW m \in Managers, database[m] # <<>>, NEW n \in Managers, n # m
  PROVE  queue[n] = <<>> /\ worker[n] = Idle /\ database[n] = <<>>
BY DEF ServerInv, OwnInv, Accepting

\* The worker has given the request up.
Ignored(m) ==
  /\ worker[m] # [request |-> database[m][1].request, at |-> database[m][1].query]
  /\ database'[m] = Tail(database[m])
  /\ UNCHANGED <<worker, replies>>

Heard(m) ==
  /\ worker[m] = [request |-> database[m][1].request, at |-> database[m][1].query]
  /\ Len(database[m]) = 1

Ended(m, answer) ==
  /\ Heard(m) /\ database'[m] = <<>> /\ worker' = [worker EXCEPT ![m] = Idle]
  /\ replies' = IF sessions[database[m][1].request] = "pending"
                THEN [replies EXCEPT ![database[m][1].request] = answer] ELSE replies

Continued(m, step) ==
  /\ Heard(m)
  /\ database'[m] = <<[request |-> database[m][1].request, query |-> step]>>
  /\ worker' = [worker EXCEPT ![m] = [request |-> database[m][1].request, at |-> step]]
  /\ UNCHANGED replies

Execution(m) ==
  LET asked == requests[database[m][1].request]
      query == database[m][1].query
  IN  \/ Ignored(m) /\ revision' = revision
      \/ Ignored(m) /\ query = "write" /\ revision' = revision + 1
      \/ Ended(m, Failed) /\ revision' = revision
      \/ /\ Ended(m, [status |-> "ok", revision |-> revision])
         /\ query = "revision" /\ revision' = revision
      \/ /\ Continued(m, "write") /\ query = "check"
         /\ asked.kind = "change" /\ asked.expected = revision /\ revision' = revision
      \/ /\ Continued(m, "revision") /\ query = "check"
         /\ asked.kind # "change" /\ asked.expected = revision /\ revision' = revision
      \/ Continued(m, "revision") /\ query = "write" /\ revision' = revision + 1

LEMMA ExecuteCases ==
  ASSUME ServerInv, NEW m \in Managers, Execute(m)
  PROVE  Execution(m)
<1>1. /\ Types /\ Once(m) /\ Awaited(m) /\ database[m] # <<>>
      /\ database \in [Managers -> Seq([request : Nat, query : Queries])]
      /\ worker \in [Managers -> [request : Nat, at : Queries \cup {"idle"}]]
  BY DEF ServerInv, QueryInv, Types, ExecutingTypes, Execute
<1> DEFINE x == database[m][1].request
           y == database[m][1].query
<1>2. PICK ok \in BOOLEAN :
        /\ revision' = IF ok /\ y = "write" THEN revision + 1 ELSE revision
        /\ IF worker[m] = [request |-> x, at |-> y]
           THEN Answered(m, y, ok)
           ELSE /\ database' = [database EXCEPT ![m] = Tail(@)]
                /\ UNCHANGED <<worker, replies>>
  BY <1>1, HeldFacts DEF Execute
<1>3. CASE worker[m] # [request |-> x, at |-> y]
  BY <1>1, <1>2, <1>3 DEF Execution, Ignored
<1>4. CASE worker[m] = [request |-> x, at |-> y]
  <2>1. Heard(m) /\ worker[m].request = x /\ Tail(database[m]) = <<>>
    BY <1>1, <1>4, AnsweredAlone DEF Heard
  <2>2. Answered(m, y, ok)
    BY <1>2, <1>4
  <2>3. ASSUME NEW answer, Conclude(m, x, answer),
               database' = [database EXCEPT ![m] = Tail(database[m])]
        PROVE  Ended(m, answer)
    BY <1>1, <2>1, <2>3 DEF Conclude, Ended
  <2>4. ASSUME NEW step, Submit(m, x, step, Tail(database[m])) PROVE Continued(m, step)
    <3>1. database'[m] = Append(<<>>, [request |-> x, query |-> step])
      BY <1>1, <2>1, <2>4 DEF Submit
    <3> QED BY <2>1, <2>4, <3>1 DEF Continued, Submit
  <2>5. \/ /\ database' = [database EXCEPT ![m] = Tail(database[m])]
           /\ Conclude(m, x, Failed)
           /\ ~ok \/ y = "check"
        \/ ok /\ y = "check" /\ requests[x].expected = revision
             /\ Submit(m, x, IF requests[x].kind = "change" THEN "write" ELSE "revision",
                       Tail(database[m]))
        \/ ok /\ y = "write" /\ Submit(m, x, "revision", Tail(database[m]))
        \/ /\ database' = [database EXCEPT ![m] = Tail(database[m])]
           /\ Conclude(m, x, [status |-> "ok", revision |-> revision])
           /\ y = "revision"
    BY <2>1, <2>2 DEF Answered
  <2> HIDE DEF x, y
  <2>6. CASE /\ database' = [database EXCEPT ![m] = Tail(database[m])]
             /\ Conclude(m, x, Failed)
             /\ ~ok \/ y = "check"
    BY <1>2, <2>3, <2>6 DEF Execution
  <2>7. CASE ok /\ y = "check" /\ requests[x].expected = revision
             /\ Submit(m, x, IF requests[x].kind = "change" THEN "write" ELSE "revision",
                       Tail(database[m]))
    BY <1>2, <2>4, <2>7 DEF Execution, x, y
  <2>8. CASE ok /\ y = "write" /\ Submit(m, x, "revision", Tail(database[m]))
    BY <1>2, <2>4, <2>8 DEF Execution, y
  <2>9. CASE /\ database' = [database EXCEPT ![m] = Tail(database[m])]
             /\ Conclude(m, x, [status |-> "ok", revision |-> revision])
             /\ y = "revision"
    BY <1>2, <2>3, <2>9 DEF Execution, y
  <2> QED BY <2>5, <2>6, <2>7, <2>8, <2>9
<1> QED BY <1>3, <1>4

\* The request the worker works on is the last the database holds.
LEMMA WorkedOn ==
  ASSUME ServerInv, NEW m \in Managers, worker[m] # Idle
  PROVE  /\ database[m] # <<>> /\ worker[m].request \in Requests
         /\ Len(database[m]) \in Held(m) /\ worker[m].at \in Queries
         /\ database[m][Len(database[m])].request = worker[m].request
         /\ database[m][Len(database[m])].query = worker[m].at
<1>1. /\ Types /\ Once(m) /\ database[m] # <<>>
      /\ database[m][Len(database[m])] = [request |-> worker[m].request, query |-> worker[m].at]
  BY DEF ServerInv, QueryInv, Awaited
<1>2. Len(database[m]) \in Held(m)
  BY <1>1, HeldFacts DEF Held
<1>3. database[m][Len(database[m])] \in [request : Nat, query : Queries]
  BY <1>1, <1>2, ElementOfSeq DEF Types, ExecutingTypes, Held
<1> QED BY <1>1, <1>2, <1>3 DEF Once

\* Requests come one by one and never go.
LEMMA SettleSame ==
  ASSUME ServerInv, [Next]_vars
  PROVE  Requests' = Requests \/ \E kind \in Kinds : Send(kind)
<1>1. CASE SessionStep \/ WorkStep
  BY <1>1, SessionKept, WorkTypes DEF Kept, ServerInv, Types
<1>2. CASE \E r \in Requests : Read(r)
  BY <1>2, ReadKept DEF Kept, ServerInv
<1>3. CASE \E m \in Managers : CloseDatabase(m) \/ Crash(m)
  BY <1>3, CloseKept, CrashKept DEF Kept, ServerInv
<1>4. CASE UNCHANGED vars
  BY <1>4 DEF vars, served, Requests
<1> QED BY <1>1, <1>2, <1>3, <1>4 DEF Next, SessionStep, WorkStep

LEMMA SettleKept ==
  ASSUME ServerInv, [Next]_vars, NEW r \in Requests
  PROVE  KeptRequest(r)
<1>1. CASE SessionStep \/ WorkStep
  BY <1>1, SessionKept, WorkTypes DEF Kept, ServerInv, Types
<1>2. CASE \E q \in Requests : Read(q)
  BY <1>2, ReadKept DEF Kept, ServerInv
<1>3. CASE \E m \in Managers : CloseDatabase(m) \/ Crash(m)
  BY <1>3, CloseKept, CrashKept DEF Kept, ServerInv
<1>4. CASE UNCHANGED vars
  BY <1>4 DEF vars, served, KeptRequest
<1>5. CASE \E kind \in Kinds : Send(kind)
  BY <1>5, SendKept DEF ServerInv
<1> QED BY <1>1, <1>2, <1>3, <1>4, <1>5 DEF Next, SessionStep, WorkStep

\* A worker that has the database for itself reads what it has compared.
LEMMA CallQuiet ==
  ASSUME CallInv, \A r \in Requests : AnsweredOnce(r), NEW m \in Managers,
         UNCHANGED <<database[m], revision>>, worker'[m] \in {worker[m], Idle}
  PROVE  Confirmed(m)' /\ OnlyChanges(m)'
<1>1. ServerInv /\ Once(m) /\ Confirmed(m) /\ OnlyChanges(m) /\ Held(m)' = Held(m)
  BY DEF CallInv, SettleInv, ServerInv, QueryInv, Held
<1>2. worker[m] # Idle => worker[m].request \in Requests
  BY <1>1, WorkedOn
<1> QED BY <1>1, <1>2 DEF Confirmed, OnlyChanges, AnsweredOnce, AsAsked, Once

LEMMA CallEmpty ==
  ASSUME NEW m \in Managers, database'[m] = <<>>, worker'[m] = Idle
  PROVE  Confirmed(m)' /\ OnlyChanges(m)'
BY DEF Confirmed, OnlyChanges, Held

LEMMA CallTake ==
  ASSUME CallInv, NEW m \in Managers, Take(m)
  PROVE  Confirmed(m)' /\ OnlyChanges(m)'
<1>1. /\ Types /\ Confirmed(m) /\ OnlyChanges(m)
      /\ database \in [Managers -> Seq([request : Nat, query : Queries])]
      /\ worker \in [Managers -> [request : Nat, at : Queries \cup {"idle"}]]
      /\ queue[m] \in Seq(Nat) /\ queue[m] # <<>>
  BY DEF CallInv, SettleInv, ServerInv, Types, ExecutingTypes, Take
<1>2. UNCHANGED <<requests, revision>> /\ Head(queue[m]) \in Nat
  BY <1>1, HeadTailProperties DEF Take, served
<1> DEFINE r == Head(queue[m])
           new == [request |-> r, query |-> FirstQuery(requests[r].kind)]
<1>3. CASE UNCHANGED database /\ worker' = [worker EXCEPT ![m] = Idle]
  BY <1>1, <1>2, <1>3 DEF Confirmed, OnlyChanges, Held
<1>4. CASE Submit(m, r, FirstQuery(requests[r].kind), database[m])
  <2>1. /\ new \in [request : Nat, query : Queries] /\ new.query \in {"check", "revision"}
        /\ new.query = "revision" => requests[r].kind = "status"
    BY <1>2 DEF FirstQuery, Queries
  <2>2. /\ database'[m] = Append(database[m], new)
        /\ worker'[m] = [request |-> r, at |-> new.query]
    BY <1>1, <1>4 DEF Submit
  <2> HIDE DEF new
  <2>3. \A i \in Held(m)' : \/ i \in Held(m) /\ database'[m][i] = database[m][i]
                            \/ database'[m][i] = new
    <3>1. database[m] \in Seq([request : Nat, query : Queries])
      BY <1>1
    <3> QED BY <2>1, <2>2, <3>1, Appended, LenProperties DEF Held
  <2>4. OnlyChanges(m)'
    BY <1>1, <1>2, <2>1, <2>3 DEF OnlyChanges
  <2>5. Confirmed(m)'
    <3> HIDE DEF r
    <3> QED BY <1>2, <2>1, <2>2 DEF Confirmed
  <2> QED BY <2>4, <2>5
<1> QED BY <1>3, <1>4 DEF Take, Conclude

LEMMA CallExecute ==
  ASSUME CallInv, NEW m \in Managers, Execute(m)
  PROVE  Confirmed(m)' /\ OnlyChanges(m)'
<1>1. /\ ServerInv /\ Types /\ Once(m) /\ Awaited(m) /\ Compared(m) /\ Confirmed(m) /\ OnlyChanges(m)
      /\ database[m] # <<>> /\ worker \in [Managers -> [request : Nat, at : Queries \cup {"idle"}]]
  BY DEF CallInv, SettleInv, ServerInv, QueryInv, Execute, Types, ExecutingTypes
<1>2. Execution(m) /\ UNCHANGED requests
  BY <1>1, ExecuteCases DEF Execute, served
<1> DEFINE x == database[m][1].request
<1>3. /\ Len(database[m]) \in Nat /\ 1 \in Held(m) /\ database[m][1].query # "idle"
      /\ Len(Tail(database[m])) = Len(database[m]) - 1
      /\ \A i \in 1..Len(Tail(database[m])) : Tail(database[m])[i] = database[m][i + 1]
      /\ database[m][1] \in [request : Nat, query : Queries]
  BY <1>1, HeldFacts DEF Held, Queries
<1>4. x \in Requests /\ revision \in Nat /\ requests[x].kind \in Kinds
  BY <1>1, <1>3, RequestFacts DEF Once, Types, ExecutingTypes, RequestRecords
<1>5. CASE Ignored(m)
  <2>1. \A i \in Held(m)' : i + 1 \in Held(m) /\ database'[m][i] = database[m][i + 1]
    BY <1>3, <1>5 DEF Ignored, Held
  <2>2. OnlyChanges(m)'
    BY <1>1, <1>2, <2>1 DEF OnlyChanges
  <2>3. worker[m] # Idle => Len(database[m]) # 1
    <3> SUFFICES ASSUME worker[m] # Idle, Len(database[m]) = 1 PROVE FALSE
      OBVIOUS
    <3>1. worker[m].request = x /\ worker[m].at = database[m][1].query
      BY <1>1, WorkedOn
    <3>2. worker[m] \in [request : Nat, at : Queries \cup {"idle"}]
      BY <1>1
    <3> QED BY <1>5, <3>1, <3>2 DEF Ignored
  <2>4. Confirmed(m)'
    BY <1>1, <1>2, <1>5, <2>3 DEF Confirmed, Ignored
  <2> QED BY <2>2, <2>4
<1>6. CASE \E answer : Ended(m, answer)
  BY <1>1, <1>6, CallEmpty DEF Ended
<1>7. ASSUME NEW step, Continued(m, step)
      PROVE  /\ Len(database'[m]) = 1 /\ Held(m)' = {1}
             /\ database'[m][1].request = x /\ database'[m][1].query = step
             /\ worker'[m].request = x /\ worker'[m].at = step
  BY <1>1, <1>7 DEF Continued, Held
<1>8. database[m][1].query = "write" =>
        requests[x].expected = revision /\ requests[x].kind = "change"
  BY <1>1, <1>3 DEF Compared, OnlyChanges
<1>9. CASE Continued(m, "write") /\ requests[x].kind = "change"
  BY <1>2, <1>7, <1>9 DEF Confirmed, OnlyChanges
<1>10. CASE /\ Continued(m, "revision")
            /\ \/ /\ database[m][1].query = "check" /\ requests[x].kind # "change"
                  /\ requests[x].expected = revision /\ revision' = revision
               \/ database[m][1].query = "write" /\ revision' = revision + 1
  BY <1>2, <1>7, <1>8, <1>10 DEF Confirmed, OnlyChanges
<1> QED BY <1>2, <1>5, <1>6, <1>9, <1>10 DEF Execution

\* What succeeds has left the queue and the database, and its client waits.
LEMMA FinishedStep ==
  ASSUME CallInv, ServerInv', [Next]_vars, NEW r \in Requests, Approved(r)'
  PROVE  ~Present(r)' /\ sessions'[r] \notin Waiting
<1>1. /\ ServerInv /\ Types /\ QueryInv
  BY DEF CallInv, SettleInv, ServerInv
<1>2. AnsweredOnce(r)
  BY RequestStep DEF CallInv
<1>3. \A m \in Managers : Flow(m)
  BY <1>1, FlowStep
<1>4. KeptRequest(r)
  BY <1>1, SettleKept
<1>5. CASE Approved(r)
  <2>1. ~Present(r) /\ sessions[r] \notin Waiting
    BY <1>5 DEF CallInv, Finished
  <2> QED BY <1>3, <1>4, <2>1, PresentFlow DEF Waiting, KeptRequest
<1>6. CASE ~Approved(r)
  <2>1. replies'[r].status = "ok" /\ replies[r].status # "ok"
    BY <1>4, <1>6 DEF Approved, KeptRequest
  <2>2. PICK m \in Managers : Execute(m)
        <3>1. ~Unsuccessful(r)
      BY <2>1 DEF Unsuccessful, NoReply, Failed
    <3>2. ASSUME NEW q \in Requests, Flush(q) PROVE FALSE
      BY <2>1, <3>2, FlushAnswers DEF CallInv, NoReply
    <3> QED BY <1>2, <3>1, <3>2 DEF AnsweredOnce
  <2>3. /\ Execution(m) /\ UNCHANGED <<sessions, queue>> /\ database[m] # <<>>
        /\ DOMAIN replies = Requests
    BY <1>1, <2>2, ExecuteCases, RequestFacts DEF Execute, served, Types
  <2>4. PICK answer : Ended(m, answer)
    <3>1. replies' # replies
      BY <2>1
    <3> QED BY <2>3, <3>1 DEF Execution, Ignored, Continued
  <2>5. database[m][1].request = r /\ sessions[r] = "pending"
    BY <2>1, <2>3, <2>4 DEF Ended
  <2>6. Once(m) /\ 1 \in Held(m)
    BY <1>1, <2>3, HeldFacts DEF QueryInv, Held
  <2>7. \A i \in Queued(m)' : queue'[m][i] # r
    BY <2>3, <2>5, <2>6 DEF Once, Queued
  <2>8. Held(m)' = {}
    BY <2>4 DEF Ended, Held
  <2>9. ASSUME NEW n \in Managers, n # m PROVE Queued(n)' = {} /\ Held(n)' = {}
    <3>1. queue[n] = <<>> /\ database[n] = <<>>
      BY <1>1, <2>3, <2>9, Alone
    <3>2. queue'[n] = <<>> /\ database'[n] = <<>>
      BY <1>1, <2>2, <2>9, <3>1, OtherManagers
    <3> QED BY <3>2 DEF Queued, Held
  <2>10. ~Present(r)'
    BY <2>7, <2>8, <2>9 DEF Present
  <2> QED BY <2>3, <2>5, <2>10 DEF Waiting
<1> QED BY <1>5, <1>6

LEMMA CallStep == CallInv /\ [Next]_vars => CallInv'
<1> SUFFICES ASSUME CallInv, [Next]_vars PROVE CallInv'
  OBVIOUS
<1>1. /\ SettleInv /\ SettleInv' /\ ServerInv /\ ServerInv' /\ Types
      /\ worker \in [Managers -> [request : Nat, at : Queries \cup {"idle"}]]
      /\ database \in [Managers -> Seq([request : Nat, query : Queries])]
  BY SettleStep DEF CallInv, SettleInv, ServerInv, Types, ExecutingTypes
<1>2. \A r \in Requests : AnsweredOnce(r)
  BY <1>1, RequestStep
<1>3. /\ Requests' = Requests
      \/ \E kind \in Kinds : Send(kind)
  BY <1>1, SettleSame
<1>4. CASE Requests' = Requests
  <2>1. Requests' \subseteq 1..MaxRequests
    BY <1>4 DEF CallInv
  <2>2. Finished'
    BY <1>1, <1>4, FinishedStep DEF Finished
  <2>3. ASSUME NEW m \in Managers PROVE Confirmed(m)' /\ OnlyChanges(m)'
    <3>1. CASE UNCHANGED <<executing, revision>>
      BY <1>2, <3>1, CallQuiet DEF executing
    <3>2. CASE \E r \in Requests : Read(r)
      BY <1>2, <3>2, CallQuiet DEF Read
    <3>3. ASSUME NEW n \in Managers, Take(n) \/ GiveUp(n) \/ Execute(n) \/ CloseDatabase(n) \/ Crash(n)
          PROVE  Confirmed(m)' /\ OnlyChanges(m)'
      <4>1. CASE m # n
        <5>1. UNCHANGED <<worker[m], database[m]>>
          BY <1>1, <3>3, <4>1, OtherManagers
        <5>2. CASE Execute(n)
          <6>1. worker[m] = Idle /\ database[m] = <<>>
            BY <1>1, <4>1, <5>2, Alone DEF Execute
          <6> QED BY <5>1, <6>1, CallEmpty
        <5>3. CASE revision' = revision
          BY <1>2, <5>1, <5>3, CallQuiet
        <5> QED BY <3>3, <5>2, <5>3 DEF Take, GiveUp, CloseDatabase, Crash
      <4>2. CASE m = n /\ (Take(n) \/ Execute(n))
        BY <4>2, CallTake, CallExecute
      <4>3. CASE m = n /\ GiveUp(n)
        <5>1. UNCHANGED <<database, revision>> /\ worker'[m] = Idle
          BY <1>1, <4>3 DEF GiveUp, Conclude
        <5> QED BY <1>2, <5>1, CallQuiet
      <4>4. CASE m = n /\ (CloseDatabase(n) \/ Crash(n))
        <5>1. database'[m] = <<>> /\ worker'[m] = Idle
          <6>1. CASE CloseDatabase(m)
            <7>1. reactor[m] = "closing" /\ UNCHANGED worker /\ database'[m] = <<>>
              BY <1>1, <6>1 DEF CloseDatabase
            <7> QED BY <1>1, <7>1 DEF ServerInv, OwnInv, Accepting
          <6>2. CASE Crash(m)
            BY <1>1, <6>2 DEF Crash
          <6> QED BY <4>4, <6>1, <6>2
        <5> QED BY <5>1, CallEmpty
      <4> QED BY <3>3, <4>1, <4>2, <4>3, <4>4
    <3>4. SessionStep => UNCHANGED <<executing, revision>>
      BY <1>1, SessionKept
    <3>5. (\E kind \in Kinds : Send(kind)) \/ UNCHANGED vars => UNCHANGED <<executing, revision>>
      BY DEF Send, vars, executing
    <3> QED BY <3>1, <3>2, <3>3, <3>4, <3>5 DEF Next, SessionStep
  <2> QED BY <1>1, <2>1, <2>2, <2>3 DEF CallInv
<1>5. ASSUME NEW kind \in Kinds, Send(kind) PROVE CallInv'
  <2>5. PICK new \in Nat : new = Len(requests) + 1
    BY <1>1, RequestFacts DEF Types
  <2>1. /\ Requests' = Requests \cup {new} /\ Len(requests) < MaxRequests
        /\ requests'[new].answer = NoReply /\ replies'[new] = NoReply
        /\ UNCHANGED <<executing, revision>>
    BY <1>1, <1>5, <2>5, SendKept DEF Send
  <2>2. Requests' \subseteq 1..MaxRequests
    BY <1>1, <2>1, <2>5, RequestFacts, ServerAssumption DEF CallInv, Types
  <2>3. \A m \in Managers : Confirmed(m)' /\ OnlyChanges(m)'
    BY <1>2, <2>1, CallQuiet DEF executing
  <2>4. Finished'
    <3>1. ~Approved(new)'
      BY <2>1 DEF Approved, NoReply
    <3> QED BY <1>1, <2>1, <3>1, FinishedStep DEF Finished
  <2> QED BY <1>1, <2>2, <2>3, <2>4 DEF CallInv
<1> QED BY <1>3, <1>4, <1>5

-----------------------------------------------------------------------------
(* Where a request may still take effect *)

Placed(m, r) ==
  \/ \E i \in Queued(m) : queue[m][i] = r
  \/ worker[m].request = r
  \/ \E i \in Held(m) : database[m][i].request = r /\ database[m][i].query = "write"

EffectiveWhere ==
  \A r \in Requests : Effective(r) <=> sessions[r] \in Waiting \/ \E m \in Managers : Placed(m, r)

LEMMA EffectiveIsPlaced == Types => EffectiveWhere
<1> SUFFICES ASSUME Types, NEW r \in Requests
             PROVE  Effective(r) <=> sessions[r] \in Waiting \/ \E m \in Managers : Placed(m, r)
  BY DEF EffectiveWhere
<1>1. ASSUME NEW m \in Managers
      PROVE  /\ r \in Range(queue[m]) <=> \E i \in Queued(m) : queue[m][i] = r
             /\ (\E i \in DOMAIN database[m] : database[m][i] = [request |-> r, query |-> "write"])
                  <=> \E i \in Held(m) : database[m][i].request = r /\ database[m][i].query = "write"
  <2>1. /\ queue[m] \in Seq(Nat)
        /\ database[m] \in Seq([request : Nat, query : Queries])
    BY DEF Types, ExecutingTypes
  <2>2. DOMAIN queue[m] = Queued(m) /\ DOMAIN database[m] = Held(m)
    BY <2>1, LenProperties DEF Queued, Held
  <2>3. \A i \in Held(m) : database[m][i] \in [request : Nat, query : Queries]
    BY <2>1, ElementOfSeq DEF Held
  <2>4. \A i \in Held(m) : database[m][i] = [request |-> r, query |-> "write"]
                             <=> database[m][i].request = r /\ database[m][i].query = "write"
    BY <2>3
  <2> QED BY <2>2, <2>4 DEF Range
<1> QED BY <1>1 DEF Effective, Placed, Waiting

LEMMA EffectiveIsPlacedAfter == Types' => EffectiveWhere'
BY EffectiveIsPlaced, PTL

WrittenWhere ==
  \A r \in Requests :
    Written(r) <=> /\ requests[r].kind = "change"
                   /\ \E m \in Managers : worker[m].request = r /\ worker[m].at = "revision"

LEMMA WrittenIsRead == Types => WrittenWhere
<1> SUFFICES ASSUME Types, NEW r \in Requests, NEW m \in Managers
             PROVE  worker[m] = [request |-> r, at |-> "revision"]
                      <=> worker[m].request = r /\ worker[m].at = "revision"
  BY DEF WrittenWhere, Written
<1>1. worker[m] \in [request : Nat, at : Queries \cup {"idle"}]
  BY DEF Types, ExecutingTypes
<1> QED BY <1>1

LEMMA WrittenIsReadAfter == Types' => WrittenWhere'
BY WrittenIsRead, PTL

\* What the worker works on is nowhere else, except in its last query.
LEMMA WorkedOnce ==
  ASSUME ServerInv, NEW m \in Managers, NEW r \in Requests, worker[m].request = r
  PROVE  /\ worker[m] # Idle /\ database[m] # <<>>
         /\ sessions[r] \notin Waiting /\ \A i \in Queued(m) : queue[m][i] # r
         /\ \A i \in Held(m) : database[m][i].request = r => database[m][i].query = worker[m].at
         /\ \A n \in Managers : n # m => ~Placed(n, r) /\ worker[n].request # r
<1>1. Types /\ Once(m) /\ Unread(m) /\ r # 0
  BY RequestFacts DEF ServerInv, QueryInv, Types
<1>2. worker[m] # Idle
  BY <1>1 DEF Idle
<1>3. /\ database[m] # <<>> /\ Len(database[m]) \in Held(m)
      /\ database[m][Len(database[m])].request = r
      /\ database[m][Len(database[m])].query = worker[m].at
  BY <1>2, WorkedOn
<1>4. /\ sessions[r] \notin Waiting /\ \A i \in Queued(m) : queue[m][i] # r
  BY <1>1, <1>3 DEF Once, Unread
<1>5. \A i \in Held(m) : database[m][i].request = r => i = Len(database[m])
  BY <1>1, <1>3 DEF Once
<1>6. \A n \in Managers : n # m => queue[n] = <<>> /\ worker[n] = Idle /\ database[n] = <<>>
  BY <1>3, Alone
<1>7. \A n \in Managers : n # m => Queued(n) = {} /\ Held(n) = {} /\ worker[n].request # r
  BY <1>1, <1>6 DEF Queued, Held, Idle
<1> QED BY <1>2, <1>3, <1>4, <1>5, <1>7 DEF Placed

LEMMA ApprovedIdle ==
  ASSUME CallInv, NEW r \in Requests, Approved(r)
  PROVE  ~Effective(r) /\ ~Written(r)
<1>1. /\ ServerInv /\ Types /\ ~Present(r) /\ sessions[r] \notin Waiting
  BY DEF CallInv, SettleInv, ServerInv, Finished
<1>2. \A m \in Managers : worker[m].request # r
  <2> SUFFICES ASSUME NEW m \in Managers, worker[m].request = r PROVE FALSE
    OBVIOUS
  <2>1. worker[m] # Idle
    BY <1>1, WorkedOnce
  <2>2. Len(database[m]) \in Held(m) /\ database[m][Len(database[m])].request = r
    BY <1>1, <2>1, WorkedOn
  <2> QED BY <1>1, <2>2 DEF Present
<1>3. \A m \in Managers : ~Placed(m, r)
  BY <1>1, <1>2 DEF Placed, Present
<1> QED BY <1>1, <1>2, <1>3, EffectiveIsPlaced, WrittenIsRead DEF EffectiveWhere, WrittenWhere

-----------------------------------------------------------------------------
(* Calls that fail, end, or stay as they are *)

\* The step leaves the call as it is, or takes something away from it.
Lost(r) == \E call \in Register!Failing(CallOf(r)) : CallOf(r)' \in Register!Ending(call)

Fading(r) ==
  /\ AsAsked(r)
  /\ \/ requests'[r].answer = requests[r].answer
     \/ requests[r].answer.status = "none" /\ requests'[r].answer.status \in {"none", "failed"}
  /\ replies'[r].status = "ok" => replies'[r] = replies[r]
  /\ Effective(r)' => Effective(r)
  /\ Written(r)' => Written(r)
  /\ Written(r) /\ ~Written(r)' => ~Effective(r)'

LEMMA FadingLoses ==
  ASSUME CallInv, NEW r \in Requests, r \in Requests', Fading(r)
  PROVE  Lost(r)
<1>1. Approved(r) => ~Effective(r) /\ ~Written(r)
  BY ApprovedIdle
<1>2. PICK told : told = requests'[r].answer.status
  OBVIOUS
<1>3. PICK status : status = requests[r].answer.status
  OBVIOUS
<1>4. PICK effect : effect = EffectOf(r)'
  OBVIOUS
<1>5. told = status \/ (status = "none" /\ told = "failed")
  <2>1. \/ requests'[r].answer = requests[r].answer
        \/ requests[r].answer.status = "none" /\ requests'[r].answer.status \in {"none", "failed"}
    BY DEF Fading
  <2> QED BY <1>2, <1>3, <2>1
<1> DEFINE kept == [CallOf(r) EXCEPT !.told = told]
<1>6. CallOf(r)' = [kind |-> requests[r].kind, expected |-> requests[r].expected,
                    after |-> requests[r].after, effect |-> effect, told |-> told]
  BY <1>2, <1>4 DEF Fading, AsAsked, CallOf
<1>7. /\ CallOf(r) = [kind |-> requests[r].kind, expected |-> requests[r].expected,
                      after |-> requests[r].after, effect |-> EffectOf(r), told |-> status]
      /\ kept = [kind |-> requests[r].kind, expected |-> requests[r].expected,
                 after |-> requests[r].after, effect |-> EffectOf(r), told |-> told]
  BY <1>3 DEF CallOf
<1>8. kept \in Register!Failing(CallOf(r))
  <2>1. requests[r].kind # "none"
    BY RequestFacts DEF CallInv, SettleInv, ServerInv, Types, RequestRecords, Kinds
  <2>2. told = status => kept = CallOf(r)
    BY <1>7
  <2> QED BY <1>5, <1>7, <2>1, <2>2 DEF Register!Failing
<1> HIDE DEF kept
<1>9. CallOf(r)' = [kept EXCEPT !.effect = effect]
  BY <1>6, <1>7
<1>10. effect = EffectOf(r) => CallOf(r)' = kept
  BY <1>6, <1>7
<1>11. CASE status = "ok"
  <2>1. requests'[r].answer = requests[r].answer
    BY <1>3, <1>11 DEF Fading
  <2>2. effect = EffectOf(r)
    BY <1>3, <1>4, <1>11, <2>1 DEF EffectOf
  <2> QED BY <1>8, <1>10, <2>2 DEF Lost, Register!Ending
<1>12. CASE status # "ok"
  <2>1. told # "ok"
    BY <1>5, <1>12
  <2>2. effect \in {EffectOf(r), [phase |-> "over", revision |-> 0]}
    <3>1. CASE replies'[r].status = "ok"
      <4>1. replies'[r] = replies[r]
        BY <3>1 DEF Fading
      <4> QED BY <1>2, <1>3, <1>4, <1>12, <2>1, <3>1, <4>1 DEF EffectOf
    <3>2. CASE replies'[r].status # "ok" /\ replies[r].status = "ok"
      <4>1. ~Effective(r)' /\ ~Written(r)'
        BY <1>1, <3>2 DEF Fading, Approved
      <4> QED BY <1>2, <1>4, <2>1, <3>2, <4>1 DEF EffectOf
    <3>3. CASE replies'[r].status # "ok" /\ replies[r].status # "ok"
      <4>1. CASE Written(r) /\ Written(r)'
        <5>1. requests'[r].expected = requests[r].expected
          BY DEF Fading, AsAsked
        <5> QED BY <1>2, <1>3, <1>4, <1>12, <2>1, <3>3, <4>1, <5>1 DEF EffectOf
      <4>2. CASE ~Written(r)' /\ ~Effective(r)'
        BY <1>2, <1>4, <2>1, <3>3, <4>2 DEF EffectOf
      <4>3. CASE ~Written(r) /\ ~Written(r)' /\ Effective(r) /\ Effective(r)'
        BY <1>2, <1>3, <1>4, <1>12, <2>1, <3>3, <4>3 DEF EffectOf
      <4> QED BY <4>1, <4>2, <4>3 DEF Fading
    <3> QED BY <3>1, <3>2, <3>3
  <2> QED BY <1>7, <1>8, <1>9, <1>10, <2>1, <2>2 DEF Lost, Register!Ending, Register!Over
<1> QED BY <1>11, <1>12

LEMMA AllLost ==
  ASSUME Requests' = Requests, revision' = revision, \A r \in Requests : Lost(r)
  PROVE  Register!Lose
<1>1. ASSUME NEW r \in 1..MaxRequests PROVE Lost(r)
  <2>1. CASE r \in Requests
    BY <2>1
  <2>2. CASE r \notin Requests
    BY <2>2 DEF Lost, CallOf, Register!Failing, Register!Ending
  <2> QED BY <2>1, <2>2
<1> QED BY <1>1 DEF Register!Lose, Lost

-----------------------------------------------------------------------------
(* The steps of the manager as steps of the register *)

\* What both sides of a step are known to be.
Before == ServerInv /\ Types /\ EffectiveWhere /\ WrittenWhere

LEMMA BeforeStep == CallInv => Before
BY EffectiveIsPlaced, WrittenIsRead DEF CallInv, SettleInv, ServerInv, Before

LEMMA AfterStep == CallInv' => Before'
BY BeforeStep, PTL

LEMMA SameCall ==
  ASSUME NEW r \in Requests, r \in Requests', AsAsked(r), requests'[r].answer = requests[r].answer,
         replies'[r] = replies[r], Effective(r)' <=> Effective(r), Written(r)' <=> Written(r)
  PROVE  CallOf(r)' = CallOf(r)
<1>1. EffectOf(r)' = EffectOf(r)
  BY DEF EffectOf, AsAsked
<1> QED BY <1>1 DEF CallOf, AsAsked

LEMMA SameLost ==
  ASSUME NEW r, CallOf(r)' = CallOf(r)
  PROVE  Lost(r)
BY DEF Lost, Register!Failing, Register!Ending

\* Work disappears, and what a worker has written is written no more.
Shrinks(m, r) ==
  /\ \A i \in Queued(m)' : queue'[m][i] = r => \E j \in Queued(m) : queue[m][j] = r
  /\ \A i \in Held(m)' :
       database'[m][i].request = r /\ database'[m][i].query = "write" =>
         \E j \in Held(m) : database[m][j].request = r /\ database[m][j].query = "write"
  /\ worker'[m] \in {worker[m], Idle}

LEMMA ShrinkingFades ==
  ASSUME Before, Before', NEW r \in Requests, r \in Requests', Unsuccessful(r), KeptRequest(r),
         \A m \in Managers : Shrinks(m, r)
  PROVE  Fading(r)
<1>1. r # 0
  BY RequestFacts DEF Before, Types
<1>2. \A m \in Managers : Placed(m, r)' => Placed(m, r)
  BY <1>1 DEF Shrinks, Placed, Idle
<1>3. sessions'[r] \in Waiting => sessions[r] \in Waiting
  BY DEF KeptRequest
<1>4. Effective(r)' => Effective(r)
  BY <1>2, <1>3 DEF EffectiveWhere, Before
<1>5. \A m \in Managers : worker'[m].request = r => worker'[m] = worker[m]
  BY <1>1 DEF Shrinks, Idle
<1>6. requests'[r].kind = requests[r].kind
  BY DEF Unsuccessful, AsAsked
<1>7. Written(r)' => Written(r)
  BY <1>5, <1>6 DEF WrittenWhere, Before
<1>8. ASSUME Written(r), ~Written(r)' PROVE ~Effective(r)'
  <2>1. requests[r].kind = "change"
    BY <1>8 DEF WrittenWhere, Before
  <2>2. PICK m \in Managers : worker[m].request = r /\ worker[m].at = "revision"
    BY <1>8 DEF WrittenWhere, Before
  <2>3. worker'[m] # worker[m]
    BY <1>6, <1>8, <2>1, <2>2 DEF WrittenWhere, Before
  <2>4. worker'[m] = Idle
    BY <2>3 DEF Shrinks
  <2>5. /\ sessions[r] \notin Waiting /\ \A i \in Queued(m) : queue[m][i] # r
        /\ \A i \in Held(m) : database[m][i].request = r => database[m][i].query # "write"
        /\ \A n \in Managers : n # m => ~Placed(n, r)
    BY <2>2, WorkedOnce DEF Before
  <2>6. ~Placed(m, r)'
    BY <1>1, <2>4, <2>5 DEF Placed, Shrinks, Idle
  <2> QED BY <1>2, <1>3, <2>5, <2>6 DEF EffectiveWhere, Before
<1>9. replies'[r].status = "ok" => replies'[r] = replies[r]
  BY DEF Unsuccessful, NoReply, Failed
<1>10. \/ requests'[r].answer = requests[r].answer
       \/ requests[r].answer.status = "none" /\ requests'[r].answer.status \in {"none", "failed"}
  BY DEF Unsuccessful
<1> QED BY <1>4, <1>7, <1>8, <1>9, <1>10 DEF Fading, Unsuccessful

LEMMA ShrinkQuiet ==
  ASSUME NEW m \in Managers, NEW r, UNCHANGED <<queue[m], database[m]>>,
         worker'[m] \in {worker[m], Idle}
  PROVE  Shrinks(m, r)
<1>1. Queued(m)' = Queued(m) /\ Held(m)' = Held(m)
  BY DEF Queued, Held
<1> QED BY <1>1 DEF Shrinks

LEMMA ShrinkEmpty ==
  ASSUME NEW m \in Managers, NEW r, queue'[m] \in {queue[m], <<>>}, database'[m] = <<>>,
         worker'[m] \in {worker[m], Idle}
  PROVE  Shrinks(m, r)
<1>1. Held(m)' = {} /\ (Queued(m)' = {} \/ (Queued(m)' = Queued(m) /\ queue'[m] = queue[m]))
  BY DEF Queued, Held
<1> QED BY <1>1 DEF Shrinks

\* Steps that let nothing take effect, and no client succeed.
LEMMA RegisterLoses ==
  ASSUME CallInv, Requests' = Requests, revision' = revision,
         \A r \in Requests : Fading(r)
  PROVE  Register!Lose
BY FadingLoses, AllLost

LEMMA RegisterSessions ==
  ASSUME CallInv, CallInv', SessionStep, ~\E q \in Requests : Flush(q)
  PROVE  Register!Lose
<1>1. Before /\ Before' /\ SilentStep /\ [Next]_vars
  BY BeforeStep, AfterStep DEF SessionStep, SilentStep, Next
<1>2. Kept /\ UNCHANGED <<queue, worker, database, revision>>
  BY <1>1, SessionKept DEF Before, executing
<1>3. ASSUME NEW r \in Requests PROVE Fading(r)
  <2>1. r \in Requests' /\ Unsuccessful(r)
    BY <1>1, SilentAnswers DEF CallInv
  <2>2. \A m \in Managers : Shrinks(m, r)
    BY <1>2, ShrinkQuiet
  <2> QED BY <1>1, <1>2, <2>1, <2>2, ShrinkingFades DEF Kept
<1> QED BY <1>2, <1>3, RegisterLoses DEF Kept

LEMMA RegisterEnds ==
  ASSUME CallInv, CallInv', NEW m \in Managers, GiveUp(m) \/ CloseDatabase(m) \/ Crash(m)
  PROVE  Register!Lose
<1>1. Before /\ Before' /\ SilentStep /\ [Next]_vars
  BY BeforeStep, AfterStep DEF SilentStep, Next
<1>2. Kept /\ revision' = revision
  BY <1>1, WorkTypes, CloseKept, CrashKept DEF Before, WorkStep, GiveUp, CloseDatabase, Crash
<1>3. /\ queue \in [Managers -> Seq(Nat)]
      /\ worker \in [Managers -> [request : Nat, at : Queries \cup {"idle"}]]
      /\ database \in [Managers -> Seq([request : Nat, query : Queries])]
  BY <1>1 DEF Before, Types, ExecutingTypes
<1>4. ASSUME NEW r \in Requests PROVE Fading(r)
  <2>1. r \in Requests' /\ Unsuccessful(r)
    BY <1>1, SilentAnswers DEF CallInv
  <2>2. ASSUME NEW n \in Managers, n # m PROVE Shrinks(n, r)
    BY <1>1, <2>2, OtherManagers, ShrinkQuiet DEF Before
  <2>3. GiveUp(m) => Shrinks(m, r)
    BY <1>3, ShrinkQuiet DEF GiveUp, Conclude
  <2>4. CloseDatabase(m) \/ Crash(m) => Shrinks(m, r)
    BY <1>3, ShrinkEmpty DEF CloseDatabase, Crash
  <2> QED BY <1>1, <1>2, <2>1, <2>2, <2>3, <2>4, ShrinkingFades DEF Kept
<1> QED BY <1>2, <1>4, RegisterLoses DEF Kept

\* A request that is read is refused, or may take effect from the queue.
LEMMA RegisterRead ==
  ASSUME CallInv, CallInv', NEW q \in Requests, Read(q)
  PROVE  Register!Lose
<1>1. Before /\ Before' /\ SilentStep /\ [Next]_vars
  BY BeforeStep, AfterStep DEF SilentStep, Next
<1>2. Kept /\ requests[q].manager \in Managers /\ UNCHANGED <<requests, worker, database, revision>>
  BY <1>1, ReadKept DEF Before, Read
<1>3. sessions[q] = "open" /\ queue \in [Managers -> Seq(Nat)] /\ q \in Nat
  BY <1>1, RequestFacts DEF Read, Before, Types, ExecutingTypes
<1>4. ASSUME NEW r \in Requests PROVE Fading(r)
  <2>1. r \in Requests' /\ Unsuccessful(r) /\ KeptRequest(r)
    BY <1>1, <1>2, SilentAnswers DEF CallInv, Kept
  <2>2. Written(r)' <=> Written(r)
    BY <1>2 DEF Written
  <2>3. ASSUME NEW m \in Managers, Placed(m, r)' PROVE Placed(m, r) \/ r = q
    <3>1. Held(m)' = Held(m)
      BY <1>2 DEF Held
    <3>2. queue'[m] = queue[m] \/ queue'[m] = Append(queue[m], q)
      BY <1>3 DEF Read
    <3>3. \A i \in Queued(m)' : \/ i \in Queued(m) /\ queue'[m][i] = queue[m][i]
                                \/ queue'[m][i] = q
      <4>1. CASE queue'[m] = queue[m]
        BY <4>1 DEF Queued
      <4>2. CASE queue'[m] = Append(queue[m], q)
        BY <1>3, <4>2, Appended, LenProperties DEF Queued
      <4> QED BY <3>2, <4>1, <4>2
    <3> QED BY <1>2, <2>3, <3>1, <3>3 DEF Placed
  <2>4. Effective(r)' => Effective(r)
    BY <1>1, <1>3, <2>1, <2>3 DEF Before, EffectiveWhere, KeptRequest, Waiting
  <2>5. replies'[r].status = "ok" => replies'[r] = replies[r]
    BY <2>1 DEF Unsuccessful, NoReply, Failed
  <2>6. \/ requests'[r].answer = requests[r].answer
        \/ requests[r].answer.status = "none" /\ requests'[r].answer.status \in {"none", "failed"}
    BY <2>1 DEF Unsuccessful
  <2> QED BY <2>1, <2>2, <2>4, <2>5, <2>6 DEF Fading, Unsuccessful
<1> QED BY <1>2, <1>4, RegisterLoses DEF Kept

\* Work that is taken may take effect from the worker, or is refused.
LEMMA RegisterTake ==
  ASSUME CallInv, CallInv', NEW m \in Managers, Take(m)
  PROVE  Register!Lose
<1>1. Before /\ Before' /\ SilentStep /\ [Next]_vars
  BY BeforeStep, AfterStep DEF SilentStep, Next
<1>2. Kept /\ UNCHANGED <<requests, sessions, revision>> /\ worker[m] = Idle
  BY <1>1, WorkTypes DEF Before, WorkStep, Take, Types, served
<1>3. /\ worker \in [Managers -> [request : Nat, at : Queries \cup {"idle"}]]
      /\ database \in [Managers -> Seq([request : Nat, query : Queries])]
      /\ queue \in [Managers -> Seq(Nat)] /\ queue[m] \in Seq(Nat) /\ queue[m] # <<>>
  BY <1>1 DEF Before, Types, ExecutingTypes, Take
<1> DEFINE x == Head(queue[m])
<1>4. /\ x \in Nat /\ queue'[m] = Tail(queue[m]) /\ 1 \in Queued(m) /\ queue[m][1] = x
      /\ \A i \in Queued(m)' : i + 1 \in Queued(m) /\ queue'[m][i] = queue[m][i + 1]
  <2>1. /\ Len(queue[m]) \in Nat /\ Len(queue[m]) > 0 /\ Len(Tail(queue[m])) = Len(queue[m]) - 1
        /\ \A i \in 1..Len(Tail(queue[m])) : Tail(queue[m])[i] = queue[m][i + 1]
        /\ Head(queue[m]) = queue[m][1] /\ Head(queue[m]) \in Nat
    BY <1>3, HeadTailProperties, EmptySeq, LenProperties
  <2>2. queue'[m] = Tail(queue[m])
    BY <1>3 DEF Take
  <2> QED BY <2>1, <2>2 DEF Queued
<1>5. \/ UNCHANGED database /\ worker'[m] = Idle
      \/ \E step \in {"check", "revision"} :
           /\ database'[m] = Append(database[m], [request |-> x, query |-> step])
           /\ worker'[m] = [request |-> x, at |-> step]
           /\ step = "revision" => requests[x].kind = "status"
  <2>1. \/ UNCHANGED database /\ Conclude(m, x, Failed)
        \/ Submit(m, x, FirstQuery(requests[x].kind), database[m])
    BY DEF Take
  <2> HIDE DEF x
  <2> QED BY <1>3, <2>1 DEF Conclude, Submit, FirstQuery
<1> HIDE DEF x
<1>6. /\ worker'[m].request \in {0, x}
      /\ worker'[m].at = "revision" => requests[worker'[m].request].kind = "status"
      /\ \A i \in Held(m)' : database'[m][i].query = "write" =>
           i \in Held(m) /\ database'[m][i] = database[m][i]
  <2>1. CASE UNCHANGED database /\ worker'[m] = Idle
    BY <2>1 DEF Idle, Held
  <2>2. ASSUME NEW step \in {"check", "revision"},
               database'[m] = Append(database[m], [request |-> x, query |-> step]),
               worker'[m] = [request |-> x, at |-> step],
               step = "revision" => requests[x].kind = "status"
        PROVE  /\ worker'[m].request \in {0, x}
               /\ worker'[m].at = "revision" => requests[worker'[m].request].kind = "status"
               /\ \A i \in Held(m)' : database'[m][i].query = "write" =>
                    i \in Held(m) /\ database'[m][i] = database[m][i]
    <3> DEFINE new == [request |-> x, query |-> step]
    <3>1. new \in [request : Nat, query : Queries] /\ new.query # "write"
      BY <1>4 DEF Queries
    <3> HIDE DEF new
    <3>2. database'[m] = Append(database[m], new)
      BY <2>2 DEF new
    <3>3. database[m] \in Seq([request : Nat, query : Queries])
      BY <1>3
    <3>4. \A i \in Held(m)' : \/ i \in Held(m) /\ database'[m][i] = database[m][i]
                              \/ database'[m][i] = new
      BY <3>1, <3>2, <3>3, Appended, LenProperties DEF Held
    <3>5. worker'[m].request = x /\ worker'[m].at = step
      BY <2>2
    <3>6. \A i \in Held(m)' : database'[m][i].query = "write" =>
            i \in Held(m) /\ database'[m][i] = database[m][i]
      BY <3>1, <3>4
    <3> QED BY <2>2, <3>5, <3>6
  <2> QED BY <1>5, <2>1, <2>2
<1>7. \A n \in Managers : n # m => UNCHANGED <<queue[n], worker[n], database[n]>>
  BY <1>1, OtherManagers DEF Before
<1>8. ASSUME NEW r \in Requests PROVE Fading(r)
  <2>1. r \in Requests' /\ Unsuccessful(r) /\ r # 0
    BY <1>1, SilentAnswers, RequestFacts DEF CallInv, Before, Types
  <2>2. ASSUME NEW n \in Managers, Placed(n, r)' PROVE Placed(n, r)
    <3>1. CASE n # m
      BY <1>7, <2>2, <3>1 DEF Placed, Queued, Held
    <3>2. CASE n = m
      BY <1>4, <1>6, <2>1, <2>2, <3>2 DEF Placed
    <3> QED BY <3>1, <3>2
  <2>3. Effective(r)' => Effective(r)
    BY <1>1, <1>2, <2>1, <2>2 DEF Before, EffectiveWhere
  <2>4. ASSUME NEW n \in Managers, requests[r].kind = "change"
        PROVE  worker'[n].request = r /\ worker'[n].at = "revision"
                 <=> worker[n].request = r /\ worker[n].at = "revision"
    <3>1. CASE n = m
      BY <1>2, <1>6, <2>4, <3>1 DEF Idle
    <3> QED BY <1>7, <3>1
  <2>5. Written(r)' <=> Written(r)
    BY <1>1, <1>2, <2>1, <2>4 DEF Before, WrittenWhere
  <2>6. replies'[r].status = "ok" => replies'[r] = replies[r]
    BY <2>1 DEF Unsuccessful, NoReply, Failed
  <2>7. \/ requests'[r].answer = requests[r].answer
        \/ requests[r].answer.status = "none" /\ requests'[r].answer.status \in {"none", "failed"}
    BY <2>1 DEF Unsuccessful
  <2> QED BY <2>1, <2>3, <2>5, <2>6, <2>7 DEF Fading, Unsuccessful
<1> QED BY <1>2, <1>8, RegisterLoses DEF Kept

\* One call changes, or is new; the others are as they were.
LEMMA UpdatedCalls ==
  ASSUME NEW q \in 1..MaxRequests, Requests' \subseteq Requests \cup {q}, Requests \subseteq Requests',
         \A r \in Requests : r # q => CallOf(r)' = CallOf(r)
  PROVE  \A r \in 1..MaxRequests : r # q => CallOf(r)' = CallOf(r)
<1>1. ASSUME NEW r \in 1..MaxRequests, r # q, r \notin Requests PROVE CallOf(r)' = CallOf(r)
  BY <1>1 DEF CallOf
<1> QED BY <1>1

LEMMA RegisterFlush ==
  ASSUME CallInv, CallInv', NEW q \in Requests, Flush(q)
  PROVE  Register!Next
<1>1. Before /\ Before' /\ [Next]_vars
  BY BeforeStep, AfterStep DEF Next
<1>2. Kept /\ UNCHANGED <<queue, worker, database, revision>>
  BY <1>1, SessionKept DEF Before, SessionStep, executing
<1>3. /\ sessions[q] = "responding" /\ sessions' = [sessions EXCEPT ![q] = "none"]
      /\ \A r \in Requests : sessions'[r] \in Waiting <=> sessions[r] \in Waiting
  BY <1>1, RequestFacts DEF Flush, Waiting, Before, Types
<1>4. ASSUME NEW r \in Requests
      PROVE  /\ Effective(r)' <=> Effective(r)
             /\ Written(r)' <=> Written(r)
             /\ r \in Requests' /\ AsAsked(r)
             /\ requests'[r].answer = IF r = q THEN replies[r] ELSE requests[r].answer
             /\ replies'[r] = IF r = q THEN NoReply ELSE replies[r]
  <2>1. \A m \in Managers : Placed(m, r)' <=> Placed(m, r)
    BY <1>2 DEF Placed, Queued, Held
  <2>2. r \in Requests'
    BY <1>2 DEF Kept
  <2>3. Effective(r)' <=> Effective(r)
    BY <1>1, <1>3, <2>1, <2>2 DEF Before, EffectiveWhere
  <2>4. /\ AsAsked(r)
        /\ requests'[r].answer = IF r = q THEN replies[r] ELSE requests[r].answer
        /\ replies'[r] = IF r = q THEN NoReply ELSE replies[r]
    BY FlushAnswers DEF CallInv
  <2>5. Written(r)' <=> Written(r)
    BY <1>1, <1>2, <2>2, <2>4 DEF Before, WrittenWhere, AsAsked
  <2> QED BY <2>2, <2>3, <2>4, <2>5
<1>5. requests[q].answer.status = "none"
  BY FlushAnswers DEF CallInv
<1>6. \A r \in Requests : r # q => CallOf(r)' = CallOf(r)
  BY <1>4, SameCall
<1>7. CASE replies[q].status # "ok"
  <2>1. replies[q].status \in {"none", "failed"}
    BY <1>1, <1>7, RequestFacts DEF Before, Types, Answers
  <2>2. Fading(q)
    BY <1>4, <1>5, <2>1 DEF Fading, NoReply
  <2>3. \A r \in Requests : Lost(r)
    BY <1>4, <1>6, <2>2, FadingLoses, SameLost
  <2> QED BY <1>2, <2>3, AllLost DEF Kept, Register!Next
<1>8. CASE replies[q].status = "ok"
  <2>1. EffectOf(q)' = EffectOf(q) /\ EffectOf(q).phase = "done"
    BY <1>4, <1>5, <1>8 DEF EffectOf
  <2>2. /\ CallOf(q)' = [CallOf(q) EXCEPT !.told = "ok"]
        /\ CallOf(q).effect.phase = "done" /\ CallOf(q).told = "none"
    BY <1>4, <1>5, <1>8, <2>1 DEF CallOf, AsAsked
  <2>3. q \in 1..MaxRequests
    BY DEF CallInv
  <2>4. \A r \in 1..MaxRequests : r # q => CallOf(r)' = CallOf(r)
    BY <1>2, <1>6, <2>3, UpdatedCalls DEF Kept
  <2>5. Register!Succeed(q)
    BY <1>2, <2>2, <2>3, <2>4 DEF Register!Succeed
  <2> QED BY <2>3, <2>5 DEF Register!Next
<1> QED BY <1>7, <1>8

-----------------------------------------------------------------------------
(* The database decides which of its requests take effect *)

\* The request at the head is one its worker waits for, or has given up; its
\* work is nowhere else.
Headed(m, x) ==
  /\ Before /\ database[m] # <<>> /\ x \in Requests /\ 1 \in Held(m)
  /\ database[m][1].request = x /\ database[m][1].query \in Queries
  /\ sessions[x] \notin Waiting
  /\ \A i \in Queued(m) : queue[m][i] # x
  /\ \A i \in Held(m) : i # 1 => database[m][i].request # x
  /\ \A n \in Managers : n # m => ~Placed(n, x) /\ worker[n].request # x
  /\ worker[m].request = x =>
       worker[m] = [request |-> x, at |-> database[m][1].query]

LEMMA HeadFacts ==
  ASSUME CallInv, NEW m \in Managers, database[m] # <<>>
  PROVE  Headed(m, database[m][1].request)
<1> DEFINE x == database[m][1].request
<1>1. Before /\ Types /\ Once(m) /\ Unread(m) /\ Awaited(m)
  BY BeforeStep DEF Before, ServerInv, QueryInv
<1>2. /\ 1 \in Held(m) /\ database[m][1].query \in Queries
      /\ Len(database[m]) \in Held(m)
  BY <1>1, HeldFacts DEF Held
<1>3. /\ x \in Requests /\ x # 0
      /\ \A i \in Held(m) : i # 1 => database[m][i].request # x
      /\ \A i \in Queued(m) : queue[m][i] # x
      /\ sessions[x] \notin Waiting
  BY <1>1, <1>2, RequestFacts DEF Once, Unread, Types
<1>4. ASSUME NEW n \in Managers, n # m PROVE ~Placed(n, x) /\ worker[n].request # x
  <2>1. queue[n] = <<>> /\ worker[n] = Idle /\ database[n] = <<>>
    BY <1>1, <1>4, Alone DEF Before
  <2>2. Queued(n) = {} /\ Held(n) = {} /\ worker[n].request # x
    BY <1>3, <2>1 DEF Queued, Held, Idle
  <2> QED BY <2>2 DEF Placed
<1>5. ASSUME worker[m].request = x
      PROVE  worker[m] = [request |-> x, at |-> database[m][1].query]
  <2>1. worker[m] # Idle
    BY <1>1, <1>3, <1>5 DEF Idle
  <2>2. /\ database[m][Len(database[m])].request = x
        /\ database[m][Len(database[m])].query = worker[m].at
    BY <1>1, <1>5, <2>1, WorkedOn DEF Before
  <2>3. Len(database[m]) = 1
    BY <1>2, <1>3, <2>2
  <2>4. worker[m] \in [request : Nat, at : Queries \cup {"idle"}]
    BY <1>1 DEF Types, ExecutingTypes
  <2> QED BY <1>5, <2>2, <2>3, <2>4
<1> HIDE DEF x
<1> QED BY <1>1, <1>2, <1>3, <1>4, <1>5 DEF Headed, x

\* Its client had been answered only about what is settled.
LEMMA HeadSettled ==
  ASSUME CallInv, NEW m \in Managers, NEW x, Headed(m, x), NEW d \in requests[x].after
  PROVE  d \in Requests /\ ~Effective(d)
<1>1. /\ Settled(x, d) /\ Types /\ Before
  BY DEF CallInv, SettleInv, Headed, Before
<1>2. /\ d \in Requests /\ d # x /\ sessions[d] = "none" /\ Ahead(m, d, x) /\ d # 0
  BY <1>1, RequestFacts DEF Settled, Types
<1>3. \A i \in Queued(m) : queue[m][i] # d
  BY <1>2 DEF Ahead, Headed
<1>4. \A i \in Held(m) : database[m][i].request # d
  BY <1>2 DEF Ahead, Headed, Held
<1>5. worker[m].request # d
  <2> SUFFICES ASSUME worker[m].request = d PROVE FALSE
    OBVIOUS
  <2>1. worker[m] # Idle
    BY <1>2 DEF Idle
  <2> QED BY <1>1, <1>4, <2>1, WorkedOn DEF Before
<1>6. ASSUME NEW n \in Managers, n # m PROVE ~Placed(n, d)
  <2>1. queue[n] = <<>> /\ worker[n] = Idle /\ database[n] = <<>>
    BY <1>1, <1>6, Alone DEF Before, Headed
  <2>2. Queued(n) = {} /\ Held(n) = {} /\ worker[n].request # d
    BY <1>2, <2>1 DEF Queued, Held, Idle
  <2> QED BY <2>2 DEF Placed
<1>7. \A n \in Managers : ~Placed(n, d)
  BY <1>3, <1>4, <1>5, <1>6 DEF Placed
<1> QED BY <1>1, <1>2, <1>7 DEF Before, EffectiveWhere, Waiting

\* What the database executes is work that was neither answered nor read again.
LEMMA HeadOpen ==
  ASSUME CallInv, NEW m \in Managers, NEW x, Headed(m, x),
         worker[m].request = x \/ database[m][1].query = "write"
  PROVE  /\ ~Approved(x) /\ Effective(x)
         /\ Written(x) <=> /\ requests[x].kind = "change" /\ worker[m].request = x
                           /\ worker[m].at = "revision"
<1>1. Before /\ x \in Requests
  BY DEF Headed
<1>2. Present(x)
  BY DEF Present, Headed
<1>3. ~Approved(x)
  BY <1>1, <1>2 DEF CallInv, Finished
<1>4. Placed(m, x)
  BY DEF Placed, Headed
<1>5. Effective(x)
  BY <1>1, <1>4 DEF Before, EffectiveWhere
<1>6. Written(x) <=> /\ requests[x].kind = "change" /\ worker[m].request = x
                     /\ worker[m].at = "revision"
  BY <1>1 DEF Before, WrittenWhere, Headed
<1> QED BY <1>3, <1>5, <1>6

\* The other requests are where they were.
LEMMA ExecuteOthers ==
  ASSUME CallInv, CallInv', NEW m \in Managers, Execute(m), NEW r \in Requests,
         r # database[m][1].request
  PROVE  r \in Requests' /\ CallOf(r)' = CallOf(r)
<1> DEFINE x == database[m][1].request
<1>1. /\ Before /\ Before' /\ Types /\ Execution(m) /\ database[m] # <<>>
      /\ UNCHANGED <<requests, sessions, queue>> /\ r # 0 /\ r # x
      /\ worker \in [Managers -> [request : Nat, at : Queries \cup {"idle"}]]
      /\ DOMAIN replies = Requests /\ Requests' = Requests
  <2>1. Before /\ Before' /\ Types /\ Execution(m)
    BY BeforeStep, AfterStep, ExecuteCases DEF Before
  <2>2. database[m] # <<>> /\ UNCHANGED <<requests, sessions, queue>>
    BY DEF Execute, served
  <2>3. DOMAIN replies = Requests /\ r # 0
    BY <2>1, RequestFacts DEF Types
  <2>4. Requests' = Requests
    BY <2>2 DEF Requests
  <2> QED BY <2>1, <2>2, <2>3, <2>4 DEF Types, ExecutingTypes
<1>2. Headed(m, x)
  BY <1>1, HeadFacts
<1>3. \A n \in Managers : n # m => UNCHANGED <<queue[n], worker[n], database[n]>>
  BY <1>1, OtherManagers
<1>4. /\ Len(database[m]) \in Nat /\ Len(Tail(database[m])) = Len(database[m]) - 1
      /\ Len(database[m]) > 0
      /\ \A i \in 1..Len(Tail(database[m])) : Tail(database[m])[i] = database[m][i + 1]
  BY <1>1, HeldFacts
<1>5. /\ (\E i \in Held(m)' : database'[m][i].request = r /\ database'[m][i].query = "write")
           <=> \E i \in Held(m) : database[m][i].request = r /\ database[m][i].query = "write"
      /\ worker'[m].request = r <=> worker[m].request = r
      /\ worker'[m].request = r => worker'[m] = worker[m]
      /\ replies'[r] = replies[r]
  <2> HIDE DEF x
  <2>1. CASE Ignored(m)
    <3>1. UNCHANGED <<worker, replies>> /\ database'[m] = Tail(database[m])
      BY <2>1 DEF Ignored
    <3>2. \A i \in Held(m)' : i + 1 \in Held(m) /\ database'[m][i] = database[m][i + 1]
      BY <1>4, <3>1 DEF Held
    <3>3. \A i \in Held(m) : i = 1 \/ (i - 1 \in Held(m)' /\ database'[m][i - 1] = database[m][i])
      BY <1>4, <3>1 DEF Held
    <3>4. database[m][1].request # r
      BY <1>1 DEF x
    <3> QED BY <3>1, <3>2, <3>3, <3>4
  <2>2. ASSUME NEW answer, Ended(m, answer)
        PROVE  /\ Held(m)' = {} /\ Held(m) = {1} /\ worker[m].request = x
               /\ worker'[m].request = 0 /\ replies'[r] = replies[r]
    BY <1>1, <2>2 DEF Ended, Heard, Held, Idle, x
  <2>3. ASSUME NEW step, Continued(m, step)
        PROVE  /\ Held(m)' = {1} /\ Held(m) = {1} /\ worker[m].request = x
               /\ database'[m][1].request = x /\ worker'[m].request = x /\ replies'[r] = replies[r]
    BY <1>1, <2>3 DEF Continued, Heard, Held, x
  <2>4. database[m][1].request = x
    BY DEF x
  <2> QED BY <1>1, <2>1, <2>2, <2>3, <2>4 DEF Execution
<1>6. ASSUME NEW n \in Managers
      PROVE  /\ Placed(n, r)' <=> Placed(n, r)
             /\ worker'[n].request = r /\ worker'[n].at = "revision"
                  <=> worker[n].request = r /\ worker[n].at = "revision"
  <2>1. CASE n = m
    <3>1. Queued(m)' = Queued(m) /\ queue'[m] = queue[m]
      BY <1>1 DEF Queued
    <3> QED BY <1>5, <2>1, <3>1 DEF Placed
  <2>2. CASE n # m
    BY <1>3, <2>2 DEF Placed, Queued, Held
  <2> QED BY <2>1, <2>2
<1>7. Effective(r)' <=> Effective(r)
  BY <1>1, <1>6 DEF Before, EffectiveWhere
<1>8. Written(r)' <=> Written(r)
  BY <1>1, <1>6 DEF Before, WrittenWhere
<1>9. AsAsked(r) /\ requests'[r].answer = requests[r].answer
  BY <1>1 DEF AsAsked
<1> QED BY <1>1, <1>5, <1>7, <1>8, <1>9, SameCall

LEMMA RegisterExecute ==
  ASSUME CallInv, CallInv', NEW m \in Managers, Execute(m)
  PROVE  Register!Next
<1>0. PICK x : x = database[m][1].request
  OBVIOUS
<1>20. PICK query : query = database[m][1].query
  OBVIOUS
<1>1. /\ Before /\ Before' /\ Execution(m) /\ Types
  BY BeforeStep, AfterStep, ExecuteCases DEF Before
<1>2. /\ database[m] # <<>> /\ UNCHANGED <<requests, sessions, queue>>
      /\ worker \in [Managers -> [request : Nat, at : Queries \cup {"idle"}]]
      /\ DOMAIN replies = Requests /\ Requests' = Requests /\ revision \in Nat
  <2>1. database[m] # <<>> /\ UNCHANGED <<requests, sessions, queue>>
    BY DEF Execute, served
  <2> QED BY <1>1, <2>1, RequestFacts DEF Types, ExecutingTypes, Requests
<1>3. Headed(m, x) /\ x \in Requests /\ x \in 1..MaxRequests
  BY <1>0, <1>2, HeadFacts DEF Headed, CallInv
<1>4. /\ Confirmed(m) /\ OnlyChanges(m) /\ Compared(m)
      /\ requests[x].kind \in Kinds /\ x # 0
  BY <1>1, <1>3, RequestFacts
     DEF CallInv, Before, ServerInv, QueryInv, Types, RequestRecords
<1>5. ASSUME NEW r \in 1..MaxRequests, r # x PROVE CallOf(r)' = CallOf(r)
  <2>1. r \in Requests => CallOf(r)' = CallOf(r)
    BY <1>0, <1>5, ExecuteOthers
  <2>2. r \notin Requests => CallOf(r)' = CallOf(r)
    BY <1>2 DEF CallOf
  <2> QED BY <2>1, <2>2
<1>6. AsAsked(x) /\ requests'[x].answer = requests[x].answer
  BY <1>2 DEF AsAsked
<1>7. /\ \A i \in Queued(m)' : queue'[m][i] # x
      /\ \A n \in Managers : n # m => ~Placed(n, x)' /\ worker'[n].request # x
  <2>1. \A n \in Managers : n # m => UNCHANGED <<queue[n], worker[n], database[n]>>
    BY <1>1, OtherManagers
  <2>2. Queued(m)' = Queued(m) /\ queue'[m] = queue[m]
    BY <1>2 DEF Queued
  <2>3. ASSUME NEW n \in Managers, n # m PROVE Placed(n, x)' <=> Placed(n, x)
    BY <2>1, <2>3 DEF Placed, Queued, Held
  <2> QED BY <1>3, <2>1, <2>2, <2>3 DEF Headed
\* What is left of it.
<1>8. /\ Effective(x)' <=> Placed(m, x)'
      /\ Written(x)' <=> /\ requests[x].kind = "change" /\ worker'[m].request = x
                         /\ worker'[m].at = "revision"
  <2>1. sessions'[x] \notin Waiting /\ x \in Requests' /\ requests' = requests
    BY <1>2, <1>3 DEF Headed
  <2>2. Effective(x)' <=> Placed(m, x)'
    BY <1>1, <1>7, <2>1 DEF Before, EffectiveWhere
  <2>3. Written(x)' <=> /\ requests[x].kind = "change"
                        /\ \E n \in Managers : worker'[n].request = x /\ worker'[n].at = "revision"
    BY <1>1, <2>1 DEF Before, WrittenWhere
  <2> QED BY <1>7, <2>2, <2>3
<1>9. \/ Ignored(m) /\ revision' = revision
      \/ Ignored(m) /\ query = "write" /\ revision' = revision + 1
      \/ Ended(m, Failed) /\ revision' = revision
      \/ /\ Ended(m, [status |-> "ok", revision |-> revision])
         /\ query = "revision" /\ revision' = revision
      \/ /\ Continued(m, "write") /\ query = "check"
         /\ requests[x].kind = "change" /\ requests[x].expected = revision /\ revision' = revision
      \/ /\ Continued(m, "revision") /\ query = "check"
         /\ requests[x].kind # "change" /\ requests[x].expected = revision /\ revision' = revision
      \/ Continued(m, "revision") /\ query = "write" /\ revision' = revision + 1
  BY <1>0, <1>20, <1>1 DEF Execution
\* A worker that ends is gone, a request that was given up is gone.
<1>10. Ignored(m) => /\ ~Placed(m, x)' /\ worker'[m].request # x /\ worker[m].request # x
                     /\ UNCHANGED replies
  <2> SUFFICES ASSUME Ignored(m)
               PROVE  /\ ~Placed(m, x)' /\ worker'[m].request # x /\ worker[m].request # x
                      /\ UNCHANGED replies
    OBVIOUS
  <2>1. UNCHANGED <<worker, replies>> /\ database'[m] = Tail(database[m]) /\ worker[m].request # x
    BY <1>3, <1>20, <1>0 DEF Ignored, Headed
  <2>2. \A i \in Held(m)' : database'[m][i].request # x
    BY <1>1, <1>2, <1>3, <2>1, HeldFacts DEF Held, Headed
  <2> QED BY <1>3, <1>7, <2>1, <2>2 DEF Placed
<1>11. ASSUME NEW answer, Ended(m, answer)
       PROVE  /\ ~Placed(m, x)' /\ worker'[m].request # x /\ worker[m].request = x
              /\ worker[m].at = query
              /\ replies' = IF sessions[x] = "pending" THEN [replies EXCEPT ![x] = answer] ELSE replies
  <2>1. /\ database'[m] = <<>> /\ worker'[m] = Idle /\ worker[m].request = x /\ worker[m].at = query
        /\ replies' = IF sessions[x] = "pending" THEN [replies EXCEPT ![x] = answer] ELSE replies
    BY <1>0, <1>20, <1>2, <1>11 DEF Ended, Heard
  <2>2. Held(m)' = {} /\ worker'[m].request # x
    BY <1>4, <2>1 DEF Held, Idle
  <2> QED BY <1>3, <1>7, <2>1, <2>2 DEF Placed
<1>12. ASSUME NEW step, Continued(m, step)
       PROVE  /\ Placed(m, x)' /\ worker'[m].request = x /\ worker'[m].at = step
              /\ worker[m].request = x /\ worker[m].at = query /\ UNCHANGED replies
  <2>1. /\ worker'[m].request = x /\ worker'[m].at = step
        /\ worker[m].request = x /\ worker[m].at = query /\ UNCHANGED replies
    BY <1>0, <1>20, <1>2, <1>12 DEF Continued, Heard
  <2> QED BY <2>1 DEF Placed
\* The step takes something away from the call, and changes no other.
<1>13. ASSUME Lost(x), revision' = revision PROVE Register!Next
  <2>1. \A r \in Requests : Lost(r)
    BY <1>3, <1>5, <1>13, SameLost DEF CallInv
  <2> QED BY <1>2, <1>13, <2>1, AllLost DEF Register!Next
\* The call takes effect.
<1>14. ASSUME NEW heard \in BOOLEAN, ~Approved(x), Effective(x), ~Written(x),
              requests[x].kind # "status" => requests[x].expected = revision,
              revision' = (IF requests[x].kind = "change" THEN revision + 1 ELSE revision),
              EffectOf(x)' = IF heard THEN Register!Done(revision') ELSE Register!Over
       PROVE  Register!Next
  <2>1. EffectOf(x) = Register!Open
    BY <1>14 DEF EffectOf, Approved, Register!Open
  <2>2. CallOf(x) = [kind |-> requests[x].kind, expected |-> requests[x].expected,
                     after |-> requests[x].after, effect |-> Register!Open,
                     told |-> requests[x].answer.status]
    BY <1>3, <2>1 DEF CallOf
  <2>3. PICK effect : effect = EffectOf(x)'
    OBVIOUS
  <2>4. CallOf(x)' = [kind |-> requests[x].kind, expected |-> requests[x].expected,
                      after |-> requests[x].after, effect |-> effect,
                      told |-> requests[x].answer.status]
    BY <1>2, <1>3, <2>3 DEF CallOf
  <2>5. CallOf(x)' = [CallOf(x) EXCEPT !.effect = effect]
    BY <2>2, <2>4
  <2>6. ASSUME NEW d \in requests[x].after
        PROVE  d \in 1..MaxRequests /\ CallOf(d).effect # Register!Open
    <3>1. d \in Requests /\ ~Effective(d)
      BY <1>3, HeadSettled
    <3>2. EffectOf(d) # Register!Open
      BY <3>1 DEF EffectOf, Register!Open
    <3> QED BY <3>1, <3>2 DEF CallInv, CallOf
  <2>7. effect = IF heard THEN Register!Done(revision') ELSE Register!Over
    BY <1>14, <2>3
  <2>8. [r \in 1..MaxRequests |-> CallOf(r)]'
          = [[r \in 1..MaxRequests |-> CallOf(r)] EXCEPT ![x].effect = effect]
    BY <1>3, <1>5, <2>5
  <2>9. Register!TakeEffect(x, heard)
    BY <1>3, <1>14, <2>2, <2>6, <2>7, <2>8 DEF Register!TakeEffect
  <2> QED BY <1>3, <2>9 DEF Register!Next
\* A step that only takes work away.
<1>15. ASSUME ~Placed(m, x)', worker'[m].request # x, replies'[x] \in {replies[x], Failed},
              revision' = revision
       PROVE  Register!Next
  <2>1. ~Effective(x)' /\ ~Written(x)'
    BY <1>8, <1>15
  <2>2. replies'[x].status = "ok" => replies'[x] = replies[x]
    BY <1>15 DEF Failed
  <2>3. Fading(x)
    BY <1>6, <2>1, <2>2 DEF Fading
  <2>4. Lost(x)
    BY <1>2, <1>3, <2>3, FadingLoses
  <2> QED BY <1>13, <1>15, <2>4
\* A step that changes nothing a client could know.
<1>16. ASSUME CallOf(x)' = CallOf(x), revision' = revision PROVE Register!Next
  BY <1>13, <1>16, SameLost
<1>17. CASE Ignored(m) /\ revision' = revision
  BY <1>10, <1>15, <1>17
<1>18. CASE Ignored(m) /\ query = "write" /\ revision' = revision + 1
  <2>1. /\ requests[x].kind = "change" /\ requests[x].expected = revision
    BY <1>0, <1>3, <1>4, <1>18, <1>20 DEF OnlyChanges, Compared, Headed
  <2>2. ~Approved(x) /\ Effective(x) /\ ~Written(x)
    BY <1>3, <1>10, <1>18, <1>20, HeadOpen
  <2>3. ~Effective(x)' /\ ~Written(x)' /\ ~Approved(x)'
    BY <1>2, <1>8, <1>10, <1>18, <2>2 DEF Approved
  <2>4. EffectOf(x)' = Register!Over
    BY <2>3 DEF EffectOf, Approved, Register!Over
  <2> QED BY <1>14, <1>18, <2>1, <2>2, <2>4
<1>19. CASE Ended(m, Failed) /\ revision' = revision
  <2>1. replies'[x] \in {replies[x], Failed}
    BY <1>2, <1>3, <1>11, <1>19
  <2> QED BY <1>11, <1>15, <1>19, <2>1
<1>21. CASE /\ Ended(m, [status |-> "ok", revision |-> revision])
            /\ query = "revision" /\ revision' = revision
  <2>1. /\ worker[m].request = x /\ worker[m].at = "revision"
        /\ ~Placed(m, x)' /\ worker'[m].request # x
        /\ replies' = IF sessions[x] = "pending"
                      THEN [replies EXCEPT ![x] = [status |-> "ok", revision |-> revision]]
                      ELSE replies
    BY <1>11, <1>21
  <2>2. CASE sessions[x] # "pending"
    BY <1>15, <1>21, <2>1, <2>2
  <2>3. CASE sessions[x] = "pending"
    <3>1. ~Approved(x) /\ Effective(x) /\ (Written(x) <=> requests[x].kind = "change")
      BY <1>3, <2>1, HeadOpen
    <3>2. replies'[x] = [status |-> "ok", revision |-> revision]
      BY <1>2, <1>3, <2>1, <2>3
    <3>3. requests'[x] = requests[x]
      BY <1>2
    <3>4. EffectOf(x)' = Register!Done(revision)
      BY <3>1, <3>2, <3>3 DEF EffectOf, Approved, Register!Done
    <3>5. /\ requests[x].kind = "change" => revision = requests[x].expected + 1
          /\ requests[x].kind = "stop" => revision = requests[x].expected
      BY <1>4, <2>1 DEF Confirmed, Idle
    <3>6. CASE requests[x].kind = "change"
      <4>1. EffectOf(x) = Register!Done(revision)
        BY <3>1, <3>5, <3>6 DEF EffectOf, Approved, Register!Done
      <4>2. CallOf(x)' = CallOf(x)
        BY <1>2, <1>3, <3>4, <4>1 DEF CallOf
      <4> QED BY <1>16, <1>21, <4>2
    <3>7. CASE requests[x].kind # "change"
      <4>1. requests[x].kind # "status" => requests[x].expected = revision
        BY <1>4, <3>5, <3>7 DEF Kinds
      <4> QED BY <1>14, <1>21, <3>1, <3>4, <3>7, <4>1
    <3> QED BY <3>6, <3>7
  <2> QED BY <2>2, <2>3
<1>22. ASSUME NEW step, Continued(m, step), query = "check", revision' = revision,
              step = "write" \/ requests[x].kind # "change"
       PROVE  Register!Next
  <2>1. /\ worker[m].request = x /\ worker[m].at = "check" /\ UNCHANGED replies
        /\ Placed(m, x)' /\ worker'[m].request = x /\ worker'[m].at = step
    BY <1>12, <1>22
  <2>2. Effective(x) /\ ~Written(x)
    BY <1>3, <2>1, HeadOpen
  <2>3. Effective(x)' /\ ~Written(x)'
    BY <1>8, <1>22, <2>1
  <2>4. CallOf(x)' = CallOf(x)
    BY <1>2, <1>3, <1>6, <2>1, <2>2, <2>3, SameCall
  <2> QED BY <1>16, <1>22, <2>4
<1>23. CASE Continued(m, "revision") /\ query = "write" /\ revision' = revision + 1
  <2>1. /\ requests[x].kind = "change" /\ requests[x].expected = revision
    BY <1>0, <1>3, <1>4, <1>20, <1>23 DEF OnlyChanges, Compared, Headed
  <2>2. /\ worker[m].request = x /\ worker[m].at = "write" /\ UNCHANGED replies
        /\ worker'[m].request = x /\ worker'[m].at = "revision"
    BY <1>12, <1>23
  <2>3. ~Approved(x) /\ Effective(x) /\ ~Written(x)
    BY <1>3, <2>2, HeadOpen
  <2>4. Written(x)' /\ ~Approved(x)' /\ requests'[x] = requests[x]
    BY <1>2, <1>8, <2>1, <2>2, <2>3 DEF Approved
  <2>5. EffectOf(x)' = Register!Done(revision')
    BY <1>23, <2>1, <2>4 DEF EffectOf, Approved, Register!Done
  <2> QED BY <1>14, <1>23, <2>1, <2>3, <2>5
<1> QED BY <1>9, <1>17, <1>18, <1>19, <1>21, <1>22, <1>23

\* A request that is sent is a call: it comes after whatever a client was told.
LEMMA RegisterSend ==
  ASSUME CallInv, CallInv', NEW kind \in Kinds, Send(kind)
  PROVE  Register!Next
<1>1. /\ Before /\ Before' /\ Types /\ SilentStep
  BY BeforeStep, AfterStep DEF Before, SilentStep
<1>2. Len(requests) \in Nat /\ Requests = 1..Len(requests)
  BY <1>1, RequestFacts DEF Types
<1>3. PICK new \in Nat : new = Len(requests) + 1
  BY <1>2
<1>4. PICK seen \in IF kind = "status" THEN {0} ELSE Seen :
        requests' = Append(requests,
          [kind |-> kind, expected |-> seen, manager |-> sockets, answer |-> NoReply,
           after |-> {r \in Requests : Told(r)}])
  BY DEF Send
<1>5. /\ Requests' = Requests \cup {new} /\ new \notin Requests /\ new \in 1..MaxRequests
      /\ requests'[new].after = {r \in Requests : Told(r)}
      /\ requests'[new].answer = NoReply /\ replies'[new] = NoReply
      /\ UNCHANGED <<queue, worker, database, revision>>
      /\ \A r \in Requests : KeptRequest(r) /\ replies'[r] = replies[r]
  <2>1. Requests' = Requests \cup {new}
    BY <1>1, <1>3, SendKept
  <2>2. new \notin Requests /\ new \in 1..MaxRequests
    BY <1>2, <1>3, <2>1 DEF CallInv
  <2> QED BY <1>1, <1>3, <2>1, <2>2, SendKept DEF Send, executing
<1>6. /\ requests'[new].kind = kind /\ requests'[new].expected = seen
      /\ sessions'[new] = "backlog" /\ \A r \in Requests : sessions'[r] = sessions[r]
  <2>1. /\ sessions \in Seq(Phases) /\ "backlog" \in Phases /\ Len(sessions) = Len(requests)
        /\ sessions' = Append(sessions, "backlog") /\ Requests = 1..Len(sessions)
    BY <1>1, <1>2 DEF Types, ServedTypes, Phases, Send
  <2>2. sessions'[new] = "backlog" /\ \A r \in Requests : sessions'[r] = sessions[r]
    BY <1>3, <2>1, Appended
  <2>3. requests'[new] = [kind |-> kind, expected |-> seen, manager |-> sockets,
                          answer |-> NoReply, after |-> {r \in Requests : Told(r)}]
    BY <1>1, <1>3, <1>4 DEF Types, ServedTypes
  <2> QED BY <2>2, <2>3
\* The other calls stay as they are.
<1>7. \A m \in Managers : \A r : Placed(m, r)' <=> Placed(m, r)
  BY <1>5 DEF Placed, Queued, Held
<1>8. ASSUME NEW r \in Requests PROVE CallOf(r)' = CallOf(r)
  <2>1. Effective(r)' <=> Effective(r)
    BY <1>1, <1>5, <1>6, <1>7 DEF Before, EffectiveWhere
  <2>2. requests'[r] = requests[r]
    <3>1. \E e : requests' = Append(requests, e) /\ e \in RequestRecords
      <4>1. requests'[new] \in RequestRecords
        BY <1>1, <1>5, RequestFacts, RecordTypesAfter DEF Before, Types, RecordsTyped
      <4>2. \E e : requests' = Append(requests, e)
        BY <1>4
      <4> QED BY <1>1, <1>3, <4>1, <4>2 DEF Types, ServedTypes
    <3> QED BY <1>1, <1>2, <3>1, Appended DEF Types, ServedTypes
  <2>3. Written(r)' <=> Written(r)
    BY <1>1, <1>5, <2>2 DEF Before, WrittenWhere
  <2> QED BY <1>5, <2>1, <2>2, <2>3, SameCall DEF AsAsked
\* The new one may still take effect.
<1>9. EffectOf(new)' = Register!Open
  <2>1. Effective(new)'
    BY <1>1, <1>5, <1>6 DEF Before, EffectiveWhere, Waiting
  <2>2. \A m \in Managers : worker[m].request # new
    <3> SUFFICES ASSUME NEW m \in Managers, worker[m].request = new PROVE FALSE
      OBVIOUS
    <3>1. worker[m] # Idle
      BY <1>3, <1>2 DEF Idle
    <3> QED BY <1>1, <1>5, <3>1, WorkedOn DEF Before
  <2>3. ~Written(new)'
    BY <1>1, <1>5, <2>2 DEF Before, WrittenWhere
  <2> QED BY <1>5, <2>1, <2>3 DEF EffectOf, NoReply, Register!Open
<1>10. CallOf(new) = Register!Unsent
  BY <1>5 DEF CallOf, Register!Unsent, Register!Over
<1>11. Register!Known = {r \in Requests : Told(r)}
  <2>1. \A r \in Requests : r \in 1..MaxRequests /\ (CallOf(r).told # "none" <=> Told(r))
    BY DEF CallInv, CallOf, Told
  <2>2. \A r \in 1..MaxRequests : r \notin Requests => CallOf(r).told = "none"
    BY DEF CallOf
  <2> QED BY <2>1, <2>2 DEF Register!Known
<1>12. Register!Shown = Seen
  <2>1. \A r \in Requests :
          /\ r \in 1..MaxRequests /\ (CallOf(r).told = "ok" <=> requests[r].answer.status = "ok")
          /\ requests[r].answer.status = "ok" =>
               CallOf(r).effect.revision = requests[r].answer.revision
    BY DEF CallInv, CallOf, EffectOf
  <2>2. \A r \in 1..MaxRequests : r \notin Requests => CallOf(r).told # "ok"
    BY DEF CallOf
  <2>3. {r \in 1..MaxRequests : CallOf(r).told = "ok"}
          = {r \in Requests : requests[r].answer.status = "ok"}
    BY <2>1, <2>2
  <2>4. Register!Shown = {0} \cup {CallOf(r).effect.revision :
                                   r \in {d \in 1..MaxRequests : CallOf(d).told = "ok"}}
    BY DEF Register!Shown
  <2> QED BY <2>1, <2>3, <2>4 DEF Seen
<1>13. \A r \in 1..MaxRequests : r # new => CallOf(r)' = CallOf(r)
  BY <1>5, <1>8, UpdatedCalls
<1>14. PICK effect : effect = EffectOf(new)'
  OBVIOUS
<1>15. CallOf(new)' = [kind |-> kind, expected |-> seen, after |-> Register!Known,
                       effect |-> Register!Open, told |-> "none"]
  <2>1. CallOf(new)' = [kind |-> kind, expected |-> seen, after |-> {r \in Requests : Told(r)},
                        effect |-> effect, told |-> "none"]
    BY <1>5, <1>6, <1>14 DEF CallOf, NoReply
  <2> QED BY <1>9, <1>11, <1>14, <2>1
<1>16. [r \in 1..MaxRequests |-> CallOf(r)]'
         = [[r \in 1..MaxRequests |-> CallOf(r)] EXCEPT ![new] =
              [kind |-> kind, expected |-> seen, after |-> Register!Known,
               effect |-> Register!Open, told |-> "none"]]
  BY <1>5, <1>13, <1>15
<1>17. seen \in IF kind = "status" THEN {0} ELSE Register!Shown
  BY <1>4, <1>12
<1>18. Register!Invoke(new, kind, seen)
  BY <1>5, <1>10, <1>16, <1>17 DEF Register!Invoke
<1>19. seen \in Register!Shown
  BY <1>17 DEF Register!Shown
<1> QED BY <1>5, <1>18, <1>19 DEF Register!Next, Kinds

LEMMA RegisterStep ==
  ASSUME CallInv, CallInv', [Next]_vars
  PROVE  [Register!Next]_<<revision, [r \in 1..MaxRequests |-> CallOf(r)]>>
<1>1. CASE \E kind \in Kinds : Send(kind)
  BY <1>1, RegisterSend
<1>2. CASE \E q \in Requests : Flush(q)
  BY <1>2, RegisterFlush
<1>3. CASE SessionStep /\ ~\E q \in Requests : Flush(q)
  BY <1>3, RegisterSessions DEF Register!Next
<1>4. CASE \E q \in Requests : Read(q)
  BY <1>4, RegisterRead DEF Register!Next
<1>5. CASE \E m \in Managers : Take(m)
  BY <1>5, RegisterTake DEF Register!Next
<1>6. CASE \E m \in Managers : GiveUp(m) \/ CloseDatabase(m) \/ Crash(m)
  BY <1>6, RegisterEnds DEF Register!Next
<1>7. CASE \E m \in Managers : Execute(m)
  BY <1>7, RegisterExecute
<1>8. CASE UNCHANGED vars
  BY <1>8 DEF vars, CallOf, EffectOf, Written, Effective, Requests
<1> QED BY <1>1, <1>2, <1>3, <1>4, <1>5, <1>6, <1>7, <1>8 DEF Next, SessionStep

LEMMA CallInit == Init => CallInv /\ Register!Init
<1> SUFFICES ASSUME Init PROVE CallInv /\ Register!Init
  OBVIOUS
<1>1. Requests = {} /\ ServerInv
  BY EmptySeq, ServerInit DEF Init, Requests
<1>2. SettleInv
  BY <1>1 DEF SettleInv
<1>3. \A m \in Managers : Confirmed(m) /\ OnlyChanges(m)
  BY DEF Init, Confirmed, OnlyChanges, Held
<1>4. CallInv
  BY <1>1, <1>2, <1>3 DEF CallInv, Finished
<1>5. \A r \in 1..MaxRequests : CallOf(r) = Register!Unsent
  BY <1>1 DEF CallOf, Register!Unsent, Register!Over
<1> QED BY <1>4, <1>5 DEF Init, Register!Init

\* The manager is one register of revisions for any number of requests and of
\* successive managers, any capacities and any crashes: every step of its threads
\* is a call that is sent, takes effect, succeeds, fails or ends, or nothing.
THEOREM ServerImplementsRegister == Spec => ImplementsRevisionRegister
BY CallInit, CallStep, RegisterStep, PTL
   DEF Spec, ImplementsRevisionRegister, Register!Spec, Register!registerVars

-----------------------------------------------------------------------------
(* What follows from being a register *)

CallRecords ==
  [kind : Kinds \cup {"none"}, expected : Nat, after : SUBSET Nat,
   effect : [phase : {"open", "over", "done"}, revision : Nat], told : {"none", "ok", "failed"}]

CallsTyped == \A r \in 1..MaxRequests : CallOf(r) \in CallRecords

LEMMA CallTypes == Types => CallsTyped
<1> SUFFICES ASSUME Types, NEW r \in 1..MaxRequests PROVE CallOf(r) \in CallRecords
  BY DEF CallsTyped
<1>1. CASE r \in Requests
  <2>1. requests[r] \in RequestRecords /\ replies[r] \in Answers /\ requests[r].answer \in Answers
    BY <1>1, RequestFacts DEF Types, RequestRecords
  <2>2. EffectOf(r) \in [phase : {"open", "over", "done"}, revision : Nat]
    BY <2>1 DEF EffectOf, Answers, RequestRecords
  <2> QED BY <1>1, <2>1, <2>2 DEF CallOf, CallRecords, Answers, RequestRecords
<1>2. CASE r \notin Requests
  BY <1>2 DEF CallOf, CallRecords
<1> QED BY <1>1, <1>2

LEMMA CallTypesAfter == Types' => CallsTyped'
BY CallTypes, PTL

\* A change that has taken effect stays as it was, or is forgotten.
LEMMA ExclusiveKept ==
  ASSUME Register!Exclusive, revision' = revision,
         \A r \in 1..MaxRequests :
           \/ CallOf(r)'.effect.phase # "done"
           \/ /\ CallOf(r)'.kind = CallOf(r).kind /\ CallOf(r)'.expected = CallOf(r).expected
              /\ CallOf(r)'.effect = CallOf(r).effect
  PROVE  Register!Exclusive'
<1>1. ASSUME NEW r \in 1..MaxRequests, Register!IsChange(r)'
      PROVE  /\ Register!IsChange(r) /\ CallOf(r)'.expected = CallOf(r).expected
             /\ CallOf(r)'.effect = CallOf(r).effect
  BY <1>1 DEF Register!IsChange
<1> QED BY <1>1 DEF Register!Exclusive

LEMMA ExclusiveStep ==
  ASSUME CallInv, CallInv', [Next]_vars, Register!Exclusive
  PROVE  Register!Exclusive'
<1>1. CallsTyped /\ CallsTyped' /\ revision \in Nat
  BY CallTypes, CallTypesAfter DEF CallInv, SettleInv, ServerInv, Types, ExecutingTypes
<1>2. [Register!Next]_<<revision, [r \in 1..MaxRequests |-> CallOf(r)]>>
  BY RegisterStep
<1>3. CASE UNCHANGED <<revision, [r \in 1..MaxRequests |-> CallOf(r)]>>
  <2>1. \A r \in 1..MaxRequests : CallOf(r)' = CallOf(r)
    BY <1>3
  <2> QED BY <1>3, <2>1, ExclusiveKept
<1>4. CASE Register!Lose
  <2>1. ASSUME NEW r \in 1..MaxRequests
        PROVE  \/ CallOf(r)'.effect.phase # "done"
               \/ /\ CallOf(r)'.kind = CallOf(r).kind /\ CallOf(r)'.expected = CallOf(r).expected
                  /\ CallOf(r)'.effect = CallOf(r).effect
    <3>1. PICK call \in Register!Failing(CallOf(r)) : CallOf(r)' \in Register!Ending(call)
      BY <1>4 DEF Register!Lose
    <3>2. CallOf(r) \in CallRecords
      BY <1>1 DEF CallsTyped
    <3>3. /\ call \in CallRecords /\ call.kind = CallOf(r).kind
          /\ call.expected = CallOf(r).expected /\ call.effect = CallOf(r).effect
      BY <3>1, <3>2 DEF Register!Failing, CallRecords
    <3> QED BY <3>1, <3>3 DEF Register!Ending, Register!Over, CallRecords
  <2>2. revision' = revision
    BY <1>4 DEF Register!Lose
  <2> QED BY <2>1, <2>2, ExclusiveKept
<1>5. ASSUME NEW c \in 1..MaxRequests, Register!Succeed(c) PROVE Register!Exclusive'
  <2>1. \A r \in 1..MaxRequests :
          CallOf(r)' = IF r = c THEN [CallOf(r) EXCEPT !.told = "ok"] ELSE CallOf(r)
    BY <1>5 DEF Register!Succeed
  <2>2. revision' = revision
    BY <1>5 DEF Register!Succeed
  <2>3. \A r \in 1..MaxRequests : CallOf(r) \in CallRecords
    BY <1>1 DEF CallsTyped
  <2>4. \A r \in 1..MaxRequests :
          /\ CallOf(r)'.kind = CallOf(r).kind /\ CallOf(r)'.expected = CallOf(r).expected
          /\ CallOf(r)'.effect = CallOf(r).effect
    BY <2>1, <2>3 DEF CallRecords
  <2> QED BY <2>2, <2>4, ExclusiveKept
<1>6. ASSUME NEW c \in 1..MaxRequests, NEW kind, NEW expected, Register!Invoke(c, kind, expected)
      PROVE  Register!Exclusive'
  <2>1. \A r \in 1..MaxRequests : r # c => CallOf(r)' = CallOf(r)
    BY <1>6 DEF Register!Invoke
  <2>2. CallOf(c)'.effect.phase = "open" /\ revision' = revision
    BY <1>6 DEF Register!Invoke, Register!Open
  <2> QED BY <2>1, <2>2, ExclusiveKept
<1>7. ASSUME NEW c \in 1..MaxRequests, NEW heard \in BOOLEAN, Register!TakeEffect(c, heard)
      PROVE  Register!Exclusive'
  <2>1. CallOf(c) \in CallRecords
    BY <1>1 DEF CallsTyped
  <2>2. PICK effect : effect = IF heard THEN Register!Done(revision') ELSE Register!Over
    OBVIOUS
  <2>3. /\ \A r \in 1..MaxRequests : r # c => CallOf(r)' = CallOf(r)
        /\ CallOf(c)' = [CallOf(c) EXCEPT !.effect = effect]
        /\ revision' = IF CallOf(c).kind = "change" THEN revision + 1 ELSE revision
        /\ CallOf(c).kind # "status" => CallOf(c).expected = revision
    BY <1>7, <2>2 DEF Register!TakeEffect
  <2>4. /\ CallOf(c)'.kind = CallOf(c).kind /\ CallOf(c)'.expected = CallOf(c).expected
        /\ CallOf(c)'.effect = effect
    BY <2>1, <2>3 DEF CallRecords
  <2>5. Register!IsChange(c)' =>
          /\ CallOf(c)'.effect.revision = revision' /\ revision' = revision + 1
          /\ CallOf(c)'.expected = revision
    <3>1. Register!IsChange(c)' => CallOf(c)'.kind = "change" /\ CallOf(c)'.effect.phase = "done"
      BY DEF Register!IsChange
    <3>2. effect.phase = "done" => effect.revision = revision'
      BY <2>2 DEF Register!Done, Register!Over
    <3> QED BY <2>3, <2>4, <3>1, <3>2
  <2>6. \A r \in 1..MaxRequests : r # c => (Register!IsChange(r)' <=> Register!IsChange(r))
    BY <2>3 DEF Register!IsChange
  <2>7. \A r \in 1..MaxRequests : CallOf(r).expected \in Nat
    BY <1>1 DEF CallsTyped, CallRecords
  <2>8. ASSUME NEW r \in 1..MaxRequests, Register!IsChange(r)'
        PROVE  /\ CallOf(r)'.effect.revision = CallOf(r)'.expected + 1
               /\ CallOf(r)'.expected < revision'
               /\ \A d \in (1..MaxRequests) \ {r} :
                    Register!IsChange(d)' => CallOf(d)'.expected # CallOf(r)'.expected
    <3>1. CASE r = c
      <4>1. ASSUME NEW d \in (1..MaxRequests) \ {r}, Register!IsChange(d)'
            PROVE  CallOf(d)'.expected < revision
        BY <2>3, <2>6, <3>1, <4>1 DEF Register!Exclusive
      <4> QED BY <1>1, <2>5, <2>7, <2>8, <3>1, <4>1
    <3>2. CASE r # c
      <4>1. /\ CallOf(r)'.effect.revision = CallOf(r).expected + 1
            /\ CallOf(r)'.expected = CallOf(r).expected /\ CallOf(r).expected < revision
            /\ \A d \in (1..MaxRequests) \ {r} :
                 Register!IsChange(d) => CallOf(d).expected # CallOf(r).expected
        BY <2>3, <2>6, <2>8, <3>2 DEF Register!Exclusive
      <4>2. revision' = revision \/ revision' = revision + 1
        BY <2>3
      <4>3. ASSUME NEW d \in (1..MaxRequests) \ {r}, Register!IsChange(d)'
            PROVE  CallOf(d)'.expected # CallOf(r)'.expected
        <5>1. CASE d = c
          BY <1>1, <2>5, <2>7, <4>1, <4>3, <5>1
        <5>2. CASE d # c
          BY <2>3, <2>6, <4>1, <4>3, <5>2
        <5> QED BY <5>1, <5>2
      <4> QED BY <1>1, <2>7, <4>1, <4>2, <4>3
    <3> QED BY <3>1, <3>2
  <2> QED BY <2>8 DEF Register!Exclusive
<1> QED BY <1>2, <1>3, <1>4, <1>5, <1>6, <1>7 DEF Register!Next

\* Of the changes sent over one revision one at most succeeds, and it is told the
\* revision it has made, for any number of clients, requests and managers.
THEOREM ChangesAreExclusive == Spec => []ExclusiveChanges
<1>1. Init => CallInv /\ Register!Exclusive
  <2>1. Register!Init => \A r \in 1..MaxRequests : ~Register!IsChange(r)
    BY DEF Register!Init, Register!Unsent, Register!IsChange
  <2> QED BY <2>1, CallInit DEF Register!Exclusive
<1>2. CallInv /\ Register!Exclusive /\ [Next]_vars => (CallInv /\ Register!Exclusive)'
  BY CallStep, ExclusiveStep
<1>3. CallInv /\ Register!Exclusive => ExclusiveChanges
  <2> SUFFICES ASSUME CallInv, Register!Exclusive PROVE ExclusiveChanges
    OBVIOUS
  <2>1. ASSUME NEW r \in Requests, requests[r].kind = "change", requests[r].answer.status = "ok"
        PROVE  /\ r \in 1..MaxRequests /\ Register!IsChange(r)
               /\ CallOf(r).effect.revision = requests[r].answer.revision
               /\ CallOf(r).expected = requests[r].expected
    BY <2>1 DEF CallInv, Register!IsChange, CallOf, EffectOf
  <2> QED BY <2>1 DEF Register!Exclusive, ExclusiveChanges
<1> QED BY <1>1, <1>2, <1>3, PTL DEF Spec
====
