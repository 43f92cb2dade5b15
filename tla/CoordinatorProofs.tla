--------------------------- MODULE CoordinatorProofs ---------------------------
(***************************************************************************)
(* What the coordinator's protocol of jobs, retries and replays preserves, *)
(* for any number of producers, runs, events, retries, stops and crashes.  *)
(***************************************************************************)
EXTENDS Coordinator, TurnProofs

-----------------------------------------------------------------------------
(* Calls: whose answer a job may receive, and what it proves               *)

CommitFields == {"kind", "event", "policy", "notify", "purpose", "request", "ticket",
                 "reply", "discarded", "retries", "result"}
ReconcileFields == {"kind", "request", "ticket", "reply", "result"}

IsCommitJob(j) == j.kind = "Commit" /\ j = [f \in CommitFields |-> j[f]]

IsReconcileJob(j) == j.kind = "Reconcile" /\ j = [f \in ReconcileFields |-> j[f]]

\* A request of a commit job is about the event of the job.
CarriesOut(request, e) ==
  /\ request.op \in {"Context", "Apply", "RetireProducer"}
  /\ request.op = "Context" => request.body = e
  /\ request.op = "Apply" => request.body.fact = e

\* A reply that says an event was committed is right.
Truthful(reply, e, known) ==
  /\ reply.kind = "Context" /\ reply.body.receipt = "Exact" => e \in known
  /\ reply.kind = "Committed" => e \in known

Harmless(reply) == reply.kind = "Error" => reply.body # "Committed"

JobCalls(j, known) ==
  /\ j.ticket = "None" => j.reply = NoValue
  /\ \/ /\ IsCommitJob(j) /\ CarriesOut(j.request, j.event)
        /\ j.reply # NoValue => Truthful(j.reply, j.event, known) /\ Harmless(j.reply)
        /\ j.result = "Committed" => j.event \in known
     \/ /\ IsReconcileJob(j) /\ j.request.op = "Reconcile"
        /\ j.reply # NoValue => Harmless(j.reply)
        /\ j.result # "Committed"

IsQueue == \E S : queue \in Seq(S)

\* One request is awaited at most: the one the job holds a ticket for.
Awaits ==
  \A i \in 1..Len(queue) :
    /\ queue[i] = [request |-> queue[i].request, awaited |-> queue[i].awaited]
    /\ queue[i].awaited =>
         /\ JobCalls(job, accepted) /\ job.request = queue[i].request
         /\ job.ticket = "Held" /\ job.reply = NoValue /\ job.result = NoValue
         /\ \A k \in 1..Len(queue) : queue[k].awaited => k = i

CallInv ==
  /\ IsQueue /\ Awaits
  /\ job # NoJob => JobCalls(job, accepted)
  /\ pending # NoValue => CarriesOut(pending.request, pending.event)
  /\ receipt # NoValue => receipt \in accepted
  /\ \A f \in facts : f.write.fact \in accepted

LEMMA QueueFacts ==
  ASSUME IsQueue
  PROVE  /\ Len(queue) \in Nat
         /\ queue # <<>> =>
              /\ Len(queue) > 0 /\ Head(queue) = queue[1]
              /\ Len(Tail(queue)) = Len(queue) - 1
              /\ \A i \in 1..Len(Tail(queue)) : Tail(queue)[i] = queue[i + 1] /\ i + 1 \in 1..Len(queue)
              /\ \E S : Tail(queue) \in Seq(S)
         /\ \A x : /\ \E S : Append(queue, x) \in Seq(S)
                   /\ Len(Append(queue, x)) = Len(queue) + 1
                   /\ Append(queue, x)[Len(queue) + 1] = x
                   /\ \A i \in 1..Len(queue) : Append(queue, x)[i] = queue[i]
         /\ (\E S : Unawaited \in Seq(S)) /\ Len(Unawaited) = Len(queue)
         /\ \E S : <<>> \in Seq(S)
<1>1. PICK S : queue \in Seq(S)
  BY DEF IsQueue
<1>2. Len(queue) \in Nat
  BY <1>1
<1>3. queue # <<>> =>
        /\ Len(queue) > 0 /\ Head(queue) = queue[1]
        /\ Len(Tail(queue)) = Len(queue) - 1
        /\ \A i \in 1..Len(Tail(queue)) : Tail(queue)[i] = queue[i + 1] /\ i + 1 \in 1..Len(queue)
        /\ Tail(queue) \in Seq(S)
  BY <1>1
<1>4. ASSUME NEW x
      PROVE  /\ \E T : Append(queue, x) \in Seq(T)
             /\ Len(Append(queue, x)) = Len(queue) + 1
             /\ Append(queue, x)[Len(queue) + 1] = x
             /\ \A i \in 1..Len(queue) : Append(queue, x)[i] = queue[i]
  <2>1. queue \in Seq(S \cup {x}) /\ x \in S \cup {x}
    BY <1>1
  <2>2. Append(queue, x) \in Seq(S \cup {x})
    BY <2>1
  <2> QED BY <1>1, <2>1, <2>2
<1>5. (\E T : Unawaited \in Seq(T)) /\ Len(Unawaited) = Len(queue)
  <2> DEFINE T == {[queue[i] EXCEPT !.awaited = FALSE] : i \in 1..Len(queue)}
             g(i) == [queue[i] EXCEPT !.awaited = FALSE]
  <2>1. \A i \in 1..Len(queue) : g(i) \in T
    OBVIOUS
  <2>2. Unawaited = [i \in 1..Len(queue) |-> g(i)]
    BY DEF Unawaited
  <2> HIDE DEF T, g
  <2>3. Unawaited \in Seq(T) /\ Len(Unawaited) = Len(queue)
    BY <1>2, <2>1, <2>2
  <2> QED BY <2>3
<1>6. <<>> \in Seq({})
  OBVIOUS
<1> QED BY <1>2, <1>3, <1>4, <1>5

LEMMA NobodyWaits ==
  ASSUME Awaits, \/ job.ticket # "Held"
                 \/ job.reply # NoValue \/ job.result # NoValue
  PROVE  \A i \in 1..Len(queue) : ~queue[i].awaited
BY DEF Awaits

\* A job may become anything while nobody waits.
LEMMA SameQueue ==
  ASSUME IsQueue, Awaits, queue' = queue, \A i \in 1..Len(queue) : ~queue[i].awaited
  PROVE  IsQueue' /\ Awaits'
BY DEF IsQueue, Awaits

LEMMA ReleasedQueue ==
  ASSUME IsQueue, Awaits, queue' = Unawaited
  PROVE  IsQueue' /\ Awaits'
<1>1. (\E S : queue' \in Seq(S)) /\ Len(queue') = Len(queue)
  BY QueueFacts
<1>2. \A i \in 1..Len(queue) :
        queue'[i] = [queue[i] EXCEPT !.awaited = FALSE]
  BY DEF Unawaited
<1>3. \A i \in 1..Len(queue) :
        queue'[i] = [request |-> queue'[i].request, awaited |-> queue'[i].awaited]
        /\ ~queue'[i].awaited
  BY <1>2 DEF Awaits
<1> QED BY <1>1, <1>3 DEF IsQueue, Awaits

LEMMA EmptiedQueue ==
  ASSUME queue' = <<>>
  PROVE  IsQueue' /\ Awaits'
<1>1. <<>> \in Seq({}) /\ Len(<<>>) = 0
  OBVIOUS
<1> QED BY <1>1 DEF IsQueue, Awaits

\* What the state of a job depends on only grows.
LEMMA CallsKept ==
  ASSUME NEW j, NEW known, NEW more, JobCalls(j, known), known \subseteq more
  PROVE  JobCalls(j, more)
BY DEF JobCalls, Truthful

\* A commit job that is given another request about its event goes on waiting for
\* nothing; one that ends as committed has an accepted event.
LEMMA JobGoesOn ==
  ASSUME NEW j, NEW known, JobCalls(j, known), j.kind = "Commit",
         NEW k, IsCommitJob(k), k.event = j.event, CarriesOut(k.request, j.event),
         k.reply = NoValue, k.result = "Committed" => j.event \in known
  PROVE  JobCalls(k, known)
BY DEF JobCalls

\* How the updates of decision.rs act on a commit job.
LEMMA FrozenJob ==
  ASSUME NEW j, IsCommitJob(j)
  PROVE  /\ IsCommitJob(Frozen(j)) /\ Frozen(j).event = j.event
         /\ Frozen(j).request = j.request /\ Frozen(j).result = j.result
BY DEF IsCommitJob, CommitFields, Frozen

LEMMA EndedJob ==
  ASSUME NEW j, IsCommitJob(j), NEW a, NEW k, k = [j EXCEPT !.result = a, !.reply = NoValue]
  PROVE  /\ IsCommitJob(k) /\ k.event = j.event /\ k.request = j.request
         /\ k.reply = NoValue /\ k.result = a
BY DEF IsCommitJob, CommitFields

LEMMA NextJob ==
  ASSUME NEW j, IsCommitJob(j), NEW a, NEW b, NEW k,
         k = NextRequest(j, a, b) \/ k = [NextRequest(j, a, b) EXCEPT !.retries = @ + 1]
  PROVE  /\ IsCommitJob(k) /\ k.event = j.event /\ k.request = b
         /\ k.reply = NoValue /\ k.result = j.result
<1>1. CASE k = NextRequest(j, a, b)
  BY <1>1 DEF IsCommitJob, CommitFields, NextRequest
<1>2. CASE k = [NextRequest(j, a, b) EXCEPT !.retries = @ + 1]
  BY <1>2 DEF IsCommitJob, CommitFields, NextRequest
<1> QED BY <1>1, <1>2

LEMMA JobKinds ==
  ASSUME NEW j, NEW known, JobCalls(j, known)
  PROVE  /\ j.kind = "Commit" => IsCommitJob(j) /\ CarriesOut(j.request, j.event)
         /\ j.kind # "Commit" => IsReconcileJob(j) /\ j.request.op = "Reconcile"
BY DEF JobCalls, IsCommitJob, IsReconcileJob

LEMMA TicketedJob ==
  ASSUME NEW j, NEW known, JobCalls(j, known), NEW a, a \in {"Held", "Lost"},
         NEW k, k = [j EXCEPT !.ticket = a]
  PROVE  /\ JobCalls(k, known) /\ k.ticket = a /\ k.request = j.request
         /\ k.reply = j.reply /\ k.result = j.result
<1>1. CASE IsCommitJob(j)
  BY <1>1 DEF IsCommitJob, CommitFields, JobCalls, IsReconcileJob
<1>2. CASE IsReconcileJob(j)
  BY <1>2 DEF IsReconcileJob, ReconcileFields, JobCalls, IsCommitJob
<1> QED BY <1>1, <1>2 DEF JobCalls

LEMMA AnsweredJob ==
  ASSUME NEW j, NEW known, JobCalls(j, known), j.ticket # "None", NEW a, Harmless(a),
         j.kind = "Commit" => Truthful(a, j.event, known),
         NEW k, k = [j EXCEPT !.reply = a]
  PROVE  JobCalls(k, known)
<1>1. CASE IsCommitJob(j)
  BY <1>1 DEF IsCommitJob, CommitFields, JobCalls, IsReconcileJob
<1>2. CASE IsReconcileJob(j)
  BY <1>2 DEF IsReconcileJob, ReconcileFields, JobCalls, IsCommitJob
<1> QED BY <1>1, <1>2 DEF JobCalls

LEMMA ReconcileEnds ==
  ASSUME NEW j, NEW known, JobCalls(j, known), j.kind # "Commit", NEW a, a # "Committed",
         NEW k, k = [j EXCEPT !.result = a, !.reply = NoValue]
  PROVE  JobCalls(k, known)
BY DEF IsReconcileJob, ReconcileFields, JobCalls, IsCommitJob

-----------------------------------------------------------------------------
(* Steps of a job                                                          *)

\* What Submit leaves: the new request is the only one awaited.
LEMMA SubmitCalls ==
  ASSUME CallInv, Submit, accepted' = accepted
  PROVE  IsQueue' /\ Awaits' /\ JobCalls(job', accepted)
<1> DEFINE entry == [request |-> job.request, awaited |-> TRUE]
<1>1. /\ job # NoJob /\ JobCalls(job, accepted) /\ job.ticket = "None" /\ job.result = NoValue
      /\ queue' = Append(queue, entry)
  BY DEF CallInv, Submit, Running
<1>2. /\ JobCalls(job', accepted) /\ job'.ticket = "Held" /\ job'.request = job.request
      /\ job'.reply = job.reply /\ job'.result = job.result
  <2>1. job' = [job EXCEPT !.ticket = "Held"]
    BY DEF Submit
  <2>2. JobCalls(job, accepted)
    BY <1>1
  <2> HIDE DEF entry
  <2> QED BY <2>1, <2>2, TicketedJob
<1>3. \A i \in 1..Len(queue) : ~queue[i].awaited
  BY <1>1, NobodyWaits DEF CallInv
<1>4. job.reply = NoValue
  BY <1>1 DEF JobCalls
<1>5. /\ Len(queue) \in Nat /\ Len(queue') = Len(queue) + 1
      /\ queue'[Len(queue) + 1] = entry
      /\ \A i \in 1..Len(queue) : queue'[i] = queue[i]
      /\ \E S : queue' \in Seq(S)
  BY <1>1, QueueFacts DEF CallInv
<1>6. entry.request = job.request /\ entry.awaited
      /\ entry = [request |-> entry.request, awaited |-> entry.awaited]
  OBVIOUS
<1> HIDE DEF entry
<1>7. ASSUME NEW i \in 1..Len(queue')
      PROVE  /\ queue'[i] = [request |-> queue'[i].request, awaited |-> queue'[i].awaited]
             /\ queue'[i].awaited =>
                  /\ JobCalls(job', accepted) /\ job'.request = queue'[i].request
                  /\ job'.ticket = "Held" /\ job'.reply = NoValue /\ job'.result = NoValue
                  /\ \A k \in 1..Len(queue') : queue'[k].awaited => k = i
  <2>1. CASE i \in 1..Len(queue)
    BY <2>1, <1>3, <1>5 DEF CallInv, Awaits
  <2>2. CASE i = Len(queue) + 1
    <3>1. queue'[i] = entry
      BY <2>2, <1>5
    <3>2. \A k \in 1..Len(queue') : queue'[k].awaited => k = i
      BY <2>2, <1>3, <1>5
    <3> QED BY <3>1, <3>2, <1>1, <1>2, <1>4, <1>6
  <2> QED BY <2>1, <2>2, <1>5
<1> QED BY <1>2, <1>5, <1>7 DEF Awaits, IsQueue

LEMMA OrphanedJob ==
  ASSUME CallInv, Orphaned(job) # NoJob
  PROVE  JobCalls(Orphaned(job), accepted)
<1>1. CASE Running /\ job.ticket = "Held" /\ job.reply = NoValue
  <2>1. Orphaned(job) = [job EXCEPT !.ticket = "Lost"]
    BY <1>1 DEF Orphaned
  <2>2. JobCalls(job, accepted)
    BY <1>1 DEF Running, CallInv
  <2> QED BY <2>1, <2>2, TicketedJob
<1>2. CASE ~(Running /\ job.ticket = "Held" /\ job.reply = NoValue)
  <2>1. Orphaned(job) = job
    BY <1>2 DEF Orphaned
  <2> QED BY <2>1 DEF CallInv
<1> QED BY <1>1, <1>2

\* The answer reaches the job that asked for it, or nobody.
LEMMA AnswerCalls ==
  ASSUME CallInv, queue # <<>>, NEW reply, Answer(reply), accepted \subseteq accepted',
         Harmless(reply),
         (Head(queue).awaited /\ job.kind = "Commit") => Truthful(reply, job.event, accepted')
  PROVE  /\ IsQueue' /\ Awaits'
         /\ job' # NoJob => JobCalls(job', accepted')
<1>1. /\ Len(queue) \in Nat /\ Len(queue) > 0 /\ Head(queue) = queue[1]
      /\ Len(Tail(queue)) = Len(queue) - 1
      /\ \A i \in 1..Len(Tail(queue)) : Tail(queue)[i] = queue[i + 1] /\ i + 1 \in 1..Len(queue)
      /\ \E S : Tail(queue) \in Seq(S)
  BY QueueFacts DEF CallInv
<1>2. CASE Head(queue).awaited
  <2>1. /\ JobCalls(job, accepted) /\ job.ticket = "Held"
        /\ \A k \in 1..Len(queue) : queue[k].awaited => k = 1
    BY <1>1, <1>2 DEF CallInv, Awaits
  <2>2. job' = [job EXCEPT !.reply = reply]
    BY <1>2 DEF Answer
  <2>3. JobCalls(job, accepted')
    BY <2>1, CallsKept
  <2>4. JobCalls(job', accepted')
    BY <2>1, <2>2, <2>3, <1>2, AnsweredJob
  <2>5. CASE worker = "Up"
    <3>1. queue' = Tail(queue)
      BY <2>5 DEF Answer
    <3>2. \A i \in 1..Len(queue') : queue'[i] = queue[i + 1] /\ ~queue'[i].awaited
      BY <3>1, <1>1, <2>1
    <3>3. \A i \in 1..Len(queue') :
            queue'[i] = [request |-> queue'[i].request, awaited |-> queue'[i].awaited]
      BY <3>1, <1>1 DEF CallInv, Awaits
    <3> QED BY <1>1, <2>4, <3>1, <3>2, <3>3 DEF IsQueue, Awaits
  <2>6. CASE worker # "Up"
    <3>1. queue' = <<>>
      BY <2>6 DEF Answer
    <3> QED BY <3>1, <2>4, EmptiedQueue
  <2> QED BY <2>5, <2>6
<1>3. CASE ~Head(queue).awaited /\ worker = "Up"
  <2>1. queue' = Tail(queue) /\ job' = job
    BY <1>3 DEF Answer
  <2>2. \A i \in 1..Len(queue') : queue'[i] = queue[i + 1] /\ i + 1 \in 1..Len(queue)
    BY <2>1, <1>1
  <2>3. job' # NoJob => JobCalls(job', accepted')
    BY <2>1, CallsKept DEF CallInv
  <2>4. ASSUME NEW i \in 1..Len(queue')
        PROVE  /\ queue'[i] = [request |-> queue'[i].request, awaited |-> queue'[i].awaited]
               /\ queue'[i].awaited =>
                    /\ JobCalls(job', accepted') /\ job'.request = queue'[i].request
                    /\ job'.ticket = "Held" /\ job'.reply = NoValue /\ job'.result = NoValue
                    /\ \A k \in 1..Len(queue') : queue'[k].awaited => k = i
    <3>1. queue'[i] = queue[i + 1] /\ i + 1 \in 1..Len(queue)
      BY <2>2
    <3>2. queue[i + 1] = [request |-> queue[i + 1].request, awaited |-> queue[i + 1].awaited]
      BY <3>1 DEF CallInv, Awaits
    <3>3. ASSUME queue[i + 1].awaited
          PROVE  /\ JobCalls(job, accepted) /\ job.request = queue[i + 1].request
                 /\ job.ticket = "Held" /\ job.reply = NoValue /\ job.result = NoValue
                 /\ \A k \in 1..Len(queue) : queue[k].awaited => k = i + 1
      BY <3>1, <3>3 DEF CallInv, Awaits
    <3>4. ASSUME queue[i + 1].awaited, NEW k \in 1..Len(queue'), queue'[k].awaited
          PROVE  k = i
      <4>1. queue[k + 1].awaited /\ k + 1 \in 1..Len(queue)
        BY <3>4, <2>2
      <4>2. k + 1 = i + 1
        BY <4>1, <3>3, <3>4
      <4>3. k \in Nat /\ i \in Nat
        BY <2>1, <1>1
      <4> QED BY <4>2, <4>3
    <3> QED BY <3>1, <3>2, <3>3, <3>4, <2>1, CallsKept
  <2>5. IsQueue'
    BY <2>1, <1>1 DEF IsQueue
  <2> QED BY <2>3, <2>4, <2>5 DEF Awaits
<1>4. CASE ~Head(queue).awaited /\ worker # "Up"
  <2>1. queue' = <<>> /\ job' = Orphaned(job)
    BY <1>4 DEF Answer
  <2>2. job' # NoJob => JobCalls(job', accepted')
    BY <2>1, OrphanedJob, CallsKept
  <2> QED BY <2>1, <2>2, EmptiedQueue
<1> QED BY <1>2, <1>3, <1>4

LEMMA ErrorsAreCoordinatorAssumption ==
  /\ \A w : ApplyOutcome(w) # "Committed"
  /\ \A q : RetireOutcome(q) # "Committed" /\ ReconcileOutcome(q) # "Committed"
<1>1. \A expected : RevisionOutcome(expected) # "Committed"
  BY DEF RevisionOutcome
<1>2. \A adding : DiscardedOutcome(adding) # "Committed"
  BY DEF DiscardedOutcome
<1>3. \A e : ScopeOutcome(e) # "Committed"
  BY DEF ScopeOutcome
<1>4. \A w : AttentionOutcome(w) # "Committed"
  BY DEF AttentionOutcome
<1>5. \A w : TombstoneOutcome(w) # "Committed"
  BY DEF TombstoneOutcome
<1>6. \A q : PreviousTurnOutcome(q) # "Committed" /\ RegistrationOutcome(q) # "Committed"
  BY DEF PreviousTurnOutcome, RegistrationOutcome
<1>7. \A w : ApplyOutcome(w) # "Committed"
  BY <1>1, <1>2, <1>3, <1>4, <1>5, Zenon DEF ApplyOutcome, FirstFailure
<1>8. \A q : ReconcileOutcome(q) # "Committed"
  BY <1>1, <1>2, <1>6, Zenon DEF ReconcileOutcome, FirstFailure
<1>9. \A q : RetireOutcome(q) # "Committed"
  BY <1>1, <1>2, Zenon DEF RetireOutcome, FirstFailure
<1> QED BY <1>7, <1>8, <1>9


LEMMA ContextTruth ==
  ASSUME CallInv, NEW e, Receipt(e) = "Exact"
  PROVE  e \in accepted
BY DEF CallInv, Receipt, StoredExactly, StoredFor

LEMMA DuplicateTruth ==
  ASSUME CallInv, NEW w, ApplyOutcome(w) = "Duplicate"
  PROVE  w.fact \in accepted
<1>1. \E f \in StoredFor(w.fact) : f.write = w
  <2>1. FirstFailure(RevisionOutcome(w.expected),
         FirstFailure(ScopeOutcome(w.fact),
         FirstFailure(DiscardedOutcome(w.discarded),
         FirstFailure(IF Cardinality(facts) >= MaxFacts THEN "ResourceExhausted" ELSE "Ok",
         FirstFailure(AttentionOutcome(w), TombstoneOutcome(w)))))) # "Duplicate"
    BY DEF FirstFailure, RevisionOutcome, ScopeOutcome, DiscardedOutcome, AttentionOutcome,
           TombstoneOutcome
  <2> QED BY <2>1 DEF ApplyOutcome
<1> QED BY <1>1 DEF StoredFor, CallInv

\* The request at the head of the queue is the one its ticket holder sent.
LEMMA HeadRequest ==
  ASSUME CallInv, queue # <<>>, Head(queue).awaited, job.kind = "Commit"
  PROVE  /\ CarriesOut(Head(queue).request, job.event)
<1>1. Head(queue) = queue[1] /\ 1 \in 1..Len(queue)
  BY QueueFacts DEF CallInv
<1>2. JobCalls(job, accepted) /\ job.request = Head(queue).request
  BY <1>1 DEF CallInv, Awaits
<1> QED BY <1>2, JobKinds

LEMMA ExecuteCalls ==
  ASSUME CallInv, Execute
  PROVE  CallInv'
<1> DEFINE request == Head(queue).request
<1>1. queue # <<>> /\ UNCHANGED <<pending, receipt>>
  BY DEF Execute
<1>2. ASSUME accepted \subseteq accepted', \A f \in facts' : f.write.fact \in accepted',
             NEW reply, Answer(reply), Harmless(reply),
             \A e : CarriesOut(request, e) => Truthful(reply, e, accepted')
      PROVE  CallInv'
  <2>1. /\ IsQueue' /\ Awaits'
        /\ job' # NoJob => JobCalls(job', accepted')
    BY <1>1, <1>2, AnswerCalls, HeadRequest
  <2> QED BY <1>1, <1>2, <2>1 DEF CallInv
<1>3. CASE request.op = "Context" /\ ExecuteContext(request.body)
  <2> DEFINE reply == [kind |-> "Context",
             body |-> [revision |-> revision, producer |-> producers[request.body.producer],
                       receipt |-> Receipt(request.body), view |-> ViewOf(request.body)]]
  <2>1. /\ accepted' = accepted /\ facts' = facts
        /\ Answer(reply) /\ Harmless(reply)
    BY <1>3, Zenon DEF ExecuteContext, storeVars, Harmless
  <2>2. ASSUME NEW e, CarriesOut(request, e)
        PROVE  Truthful(reply, e, accepted')
    <3>1. request.body = e
      BY <1>3, <2>2 DEF CarriesOut
    <3> QED BY <3>1, <2>1, ContextTruth DEF Truthful
  <2> HIDE DEF reply, request
  <2> QED BY <2>1, <2>2, <1>2 DEF CallInv
<1>4. CASE request.op = "Apply" /\ ExecuteApply(request.body)
  <2> DEFINE w == request.body
  <2>1. \A e : CarriesOut(request, e) => w.fact = e
    BY <1>4 DEF CarriesOut
  <2>2. CASE /\ ApplyEffect(w) /\ accepted' = accepted \cup {w.fact}
             /\ Answer([kind |-> "Committed", body |-> revision + 1])
    <3> DEFINE reply == [kind |-> "Committed", body |-> revision + 1]
    <3>1. /\ Harmless(reply)
          /\ \A e : CarriesOut(request, e) => Truthful(reply, e, accepted')
      BY <2>1, <2>2 DEF Harmless, Truthful
    <3>2. facts' = facts \cup {[write |-> w, revision |-> revision + 1]}
      BY <2>2 DEF ApplyEffect
    <3>3. \A f \in facts' : f.write.fact \in accepted'
      BY <3>2, <2>2 DEF CallInv
    <3>4. Answer(reply)
      BY <2>2
    <3> HIDE DEF request, reply
    <3> QED BY <3>1, <3>3, <3>4, <2>2, <1>2
  <2>3. CASE /\ ApplyOutcome(w) = "Duplicate" /\ accepted' = accepted /\ facts' = facts
             /\ \E body : Answer([kind |-> "Committed", body |-> body])
    <3>1. PICK body : Answer([kind |-> "Committed", body |-> body])
      BY <2>3
    <3> DEFINE reply == [kind |-> "Committed", body |-> body]
    <3>2. w.fact \in accepted
      BY <2>3, DuplicateTruth
    <3>3. /\ Harmless(reply)
          /\ \A e : CarriesOut(request, e) => Truthful(reply, e, accepted')
      BY <2>1, <2>3, <3>2 DEF Harmless, Truthful
    <3>4. Answer(reply)
      BY <3>1
    <3> HIDE DEF request, reply
    <3> QED BY <3>3, <3>4, <2>3, <1>2 DEF CallInv
  <2>4. CASE /\ accepted' = accepted /\ facts' = facts
             /\ Answer([kind |-> "Error", body |-> ApplyOutcome(w)])
    <3> DEFINE reply == [kind |-> "Error", body |-> ApplyOutcome(w)]
    <3>1. /\ Harmless(reply) /\ \A e : Truthful(reply, e, accepted')
      BY ErrorsAreCoordinatorAssumption DEF Harmless, Truthful
    <3>2. Answer(reply)
      BY <2>4
    <3> HIDE DEF request, reply
    <3> QED BY <3>1, <3>2, <2>4, <1>2 DEF CallInv
  <2> QED BY <1>4, <2>2, <2>3, <2>4 DEF ExecuteApply, storeVars
<1>5. ASSUME accepted' = accepted, facts' = facts, NEW kind, NEW body,
             kind \in {"Retired", "Registered"} \/ (kind = "Error" /\ body # "Committed"),
             Answer([kind |-> kind, body |-> body])
      PROVE  CallInv'
  <2> DEFINE reply == [kind |-> kind, body |-> body]
  <2>1. /\ Harmless(reply) /\ \A e : Truthful(reply, e, accepted')
    BY <1>5 DEF Harmless, Truthful
  <2>2. Answer(reply)
    BY <1>5
  <2> HIDE DEF request, reply
  <2> QED BY <2>1, <2>2, <1>5, <1>2 DEF CallInv
<1>6. CASE ExecuteRetire(request.body)
  <2>1. accepted' = accepted /\ facts' = facts
    BY <1>6 DEF ExecuteRetire, RetireProducer, RetireEffect, storeVars
  <2>2. \/ Answer([kind |-> "Retired", body |-> revision + 1])
        \/ Answer([kind |-> "Error", body |-> RetireOutcome(request.body)])
    BY <1>6, Zenon DEF ExecuteRetire
  <2>3. RetireOutcome(request.body) # "Committed"
    BY ErrorsAreCoordinatorAssumption
  <2> HIDE DEF request
  <2> QED BY <2>1, <2>2, <2>3, <1>5
<1>7. CASE ExecuteReconcile(request.body)
  <2>1. accepted' = accepted /\ facts' = facts
    BY <1>7 DEF ExecuteReconcile, Reconcile, ReconcileEffect, storeVars
  <2>2. \/ Answer([kind |-> "Registered", body |-> issued + 1])
        \/ Answer([kind |-> "Error", body |-> ReconcileOutcome(request.body)])
    BY <1>7, Zenon DEF ExecuteReconcile
  <2>3. ReconcileOutcome(request.body) # "Committed"
    BY ErrorsAreCoordinatorAssumption
  <2> HIDE DEF request
  <2> QED BY <2>1, <2>2, <2>3, <1>5
<1> QED BY <1>3, <1>4, <1>6, <1>7 DEF Execute


\* Whatever decision.rs makes of a reply, a job that ends as committed is right.
LEMMA ReceiveCommitCalls ==
  ASSUME JobCalls(job, accepted), job.kind = "Commit", job.reply # NoValue,
         ReceiveCommit(job.reply)
  PROVE  JobCalls(job', accepted)
<1>1. /\ IsCommitJob(job) /\ CarriesOut(job.request, job.event)
      /\ Truthful(job.reply, job.event, accepted) /\ Harmless(job.reply)
      /\ job.result = "Committed" => job.event \in accepted
  BY DEF JobCalls, IsReconcileJob
<1>2. /\ IsCommitJob(Frozen(job)) /\ Frozen(job).event = job.event
      /\ Frozen(job).request = job.request /\ Frozen(job).result = job.result
  BY <1>1, FrozenJob
<1>3. ASSUME NEW from, from = job \/ from = Frozen(job), NEW result, result # "Committed" \/ job.event \in accepted,
             job' = [from EXCEPT !.result = result, !.reply = NoValue]
      PROVE  JobCalls(job', accepted)
  <2>1. /\ IsCommitJob(from) /\ from.event = job.event /\ from.request = job.request
    BY <1>1, <1>2, <1>3
  <2>2. /\ IsCommitJob(job') /\ job'.event = from.event /\ job'.request = from.request
        /\ job'.reply = NoValue /\ job'.result = result
    <3>1. IsCommitJob(from) /\ job' = [from EXCEPT !.result = result, !.reply = NoValue]
      BY <2>1, <1>3
    <3> QED BY <3>1 DEF IsCommitJob, CommitFields
  <2> QED BY <1>1, <1>3, <2>1, <2>2, JobGoesOn
<1>4. ASSUME NEW from, from = job \/ from = Frozen(job), NEW purpose, NEW request,
             CarriesOut(request, job.event),
             \/ job' = NextRequest(from, purpose, request)
             \/ job' = [NextRequest(from, purpose, request) EXCEPT !.retries = @ + 1]
      PROVE  JobCalls(job', accepted)
  <2>1. /\ IsCommitJob(from) /\ from.event = job.event /\ from.result = job.result
    BY <1>1, <1>2, <1>4
  <2>2. /\ IsCommitJob(job') /\ job'.event = from.event /\ job'.request = request
        /\ job'.reply = NoValue /\ job'.result = from.result
    BY <2>1, <1>4, NextJob
  <2> QED BY <1>1, <1>4, <2>1, <2>2, JobGoesOn
<1>5. CASE job.reply.kind = "Context" /\ DecideContext(job.reply.body)
  <2> DEFINE ctx == job.reply.body
             e == job.event
             decision == Disposition(ctx, e, job.policy)
             effects == Reduce(ctx.view, e, job.policy)
             write(j) == [expected |-> ctx.revision, fact |-> e, effects |-> effects,
                          notify |-> job.notify, discarded |-> j.discarded]
             retirement(j) == [expected |-> ctx.revision, producer |-> e.producer,
                               generation |-> e.generation, discarded |-> j.discarded]
  <2>1. CASE decision \in {"Unreconciled", "Committed"} /\ End(decision)
    <3>1. decision = "Committed" => ctx.receipt = "Exact"
      BY DEF Disposition
    <3>2. decision # "Committed" \/ job.event \in accepted
      BY <3>1, <1>1, <1>5 DEF Truthful
    <3>3. job' = [job EXCEPT !.result = decision, !.reply = NoValue]
      BY <2>1 DEF End
    <3> HIDE DEF decision
    <3> QED BY <3>2, <3>3, <1>3
  <2>2. CASE job' = NextRequest(Frozen(job), "Retire", RetireRequest(retirement(Frozen(job))))
    <3>1. CarriesOut(RetireRequest(retirement(Frozen(job))), job.event)
      BY DEF CarriesOut, RetireRequest
    <3> QED BY <3>1, <2>2, <1>4
  <2>3. ASSUME NEW from, from = job \/ from = Frozen(job),
               job' = NextRequest(from, "Apply", ApplyRequest(write(from)))
        PROVE  JobCalls(job', accepted)
    <3>1. CarriesOut(ApplyRequest(write(from)), job.event)
      BY DEF CarriesOut, ApplyRequest
    <3> QED BY <3>1, <2>3, <1>4
  <2>4. \/ decision \in {"Unreconciled", "Committed"} /\ End(decision)
        \/ job' = NextRequest(Frozen(job), "Retire", RetireRequest(retirement(Frozen(job))))
        \/ job' = NextRequest(Frozen(job), "Apply", ApplyRequest(write(Frozen(job))))
        \/ job' = NextRequest(job, "Apply", ApplyRequest(write(job)))
    BY <1>5, Zenon DEF DecideContext
  <2> HIDE DEF decision, write, retirement
  <2> QED BY <2>1, <2>2, <2>3, <2>4
<1>6. CASE job.reply.kind = "Committed" /\ End("Committed")
  BY <1>1, <1>3, <1>6 DEF End, Truthful
<1>7. CASE End("Rejected")
  BY <1>3, <1>7 DEF End
<1>8. CASE job' = [NextRequest(job, "Context", ContextRequest(job.event)) EXCEPT !.retries = @ + 1]
  <2>1. CarriesOut(ContextRequest(job.event), job.event)
    BY DEF CarriesOut, ContextRequest
  <2> QED BY <2>1, <1>4, <1>8
<1>9. CASE job.reply.kind = "Error" /\ EndUncertain(job.reply.body)
  <2>1. job' = [Frozen(job) EXCEPT !.result = job.reply.body, !.reply = NoValue]
    BY <1>9 DEF EndUncertain
  <2>2. job.reply.body # "Committed"
    BY <1>1, <1>9 DEF Harmless
  <2> QED BY <2>1, <2>2, <1>3
<1> QED BY <1>5, <1>6, <1>7, <1>8, <1>9, Zenon DEF ReceiveCommit

LEMMA ReceiveReconcileCalls ==
  ASSUME JobCalls(job, accepted), job.kind # "Commit", job.reply # NoValue,
         ReceiveReconcile(job.reply)
  PROVE  JobCalls(job', accepted)
<1>1. Harmless(job.reply)
  BY DEF JobCalls, IsCommitJob
<1>2. \E result : result # "Committed" /\ End(result)
  BY <1>1, Zenon DEF ReceiveReconcile, Harmless
<1> QED BY <1>2, ReconcileEnds DEF End


-----------------------------------------------------------------------------
(* Nothing leaves the spool that the database has not accepted             *)

LEMMA CallInit == CoordInit => CallInv
<1>1. <<>> \in Seq({}) /\ Len(<<>>) = 0
  OBVIOUS
<1> QED BY <1>1 DEF CoordInit, Init, CallInv, IsQueue, Awaits

LEMMA FreeRegistry ==
  ASSUME CallInv, job = NoJob
  PROVE  \A i \in 1..Len(queue) : ~queue[i].awaited
<1>1. job.kind = "None"
  BY DEF NoJob
<1>2. ~JobCalls(job, accepted)
  BY <1>1 DEF JobCalls, IsCommitJob, IsReconcileJob
<1> QED BY <1>2 DEF CallInv, Awaits

LEMMA CallStep == CallInv /\ [CoordNext]_vars => CallInv'
<1> SUFFICES ASSUME CallInv, [CoordNext]_vars PROVE CallInv'
  OBVIOUS
<1>1. ASSUME UNCHANGED <<queue, job, pending, receipt, accepted>>, facts' \subseteq facts
      PROVE  CallInv'
  BY <1>1 DEF CallInv, IsQueue, Awaits
<1>2. ASSUME IsQueue', Awaits', UNCHANGED <<accepted, facts>>,
             job' # NoJob => JobCalls(job', accepted),
             pending' # NoValue => CarriesOut(pending'.request, pending'.event),
             receipt' # NoValue => receipt' \in accepted
      PROVE  CallInv'
  BY <1>2 DEF CallInv
<1>3. ASSUME queue' = queue, \A i \in 1..Len(queue) : ~queue[i].awaited,
             UNCHANGED <<accepted, facts>>, job' # NoJob => JobCalls(job', accepted),
             pending' = pending \/ pending' = NoValue,
             receipt' = receipt \/ receipt' \in accepted
      PROVE  CallInv'
  BY <1>2, <1>3, SameQueue DEF CallInv
<1>4. ASSUME NEW e, NEW policy, NEW notify, NEW purpose, NEW request, NEW lost,
             CarriesOut(request, e)
      PROVE  JobCalls(CommitJob(e, policy, notify, purpose, request, lost), accepted)
  BY <1>4, CoordinatorAssumption DEF CommitJob, JobCalls, IsCommitJob, CommitFields
<1>5. CASE \E p \in Producers : Admit(p) \/ Pop(p) \/ Block(p)
  BY <1>1, <1>5 DEF Admit, Pop, Block, storeVars, historyVars
<1>6. CASE \E p \in Producers, r \in Runs, g \in 1..issued, envelope \in Envelopes :
             Stage(p, r, g, envelope)
  BY <1>1, <1>6 DEF Stage, storeVars, managerVars, historyVars
<1>7. ASSUME NEW e \in spool, NEW policy, NEW notify, StartCommit(e, policy, notify)
      PROVE  CallInv'
  <2>1. CarriesOut(ContextRequest(e), e)
    BY DEF CarriesOut, ContextRequest
  <2> QED BY <2>1, <1>3, <1>4, <1>7, FreeRegistry DEF StartCommit, storeVars, historyVars
<1>8. ASSUME NEW p, NEW r, NEW first, NEW previous, NEW baseline, NEW resolved, NEW continued,
             StartReconcile(p, r, first, previous, baseline, resolved, continued)
      PROVE  CallInv'
  <2>1. PICK q : job' = [kind |-> "Reconcile", request |-> ReconcileRequest(q), ticket |-> "None",
                         reply |-> NoValue, result |-> NoValue]
    BY <1>8 DEF StartReconcile
  <2>2. JobCalls(job', accepted)
    BY <2>1, CoordinatorAssumption DEF JobCalls, IsReconcileJob, ReconcileFields, ReconcileRequest
  <2> QED BY <2>2, <1>3, <1>8, FreeRegistry DEF StartReconcile, storeVars
<1>9. CASE ResumeCommit
  <2>1. CarriesOut(pending.request, pending.event)
    BY <1>9 DEF ResumeCommit, CallInv
  <2>2. JobCalls(job', accepted)
    BY <2>1, <1>4, <1>9 DEF ResumeCommit
  <2> QED BY <2>2, <1>3, <1>9, FreeRegistry DEF ResumeCommit, storeVars, historyVars
<1>10. CASE Submit
  <2>1. UNCHANGED <<accepted, facts, pending, receipt>>
    BY <1>10 DEF Submit, storeVars, historyVars
  <2> QED BY <2>1, <1>2, <1>10, SubmitCalls DEF CallInv
<1>11. ASSUME NEW result, result # "Committed", Running, EndUncertain(result), job.ticket # "Held",
              UNCHANGED <<storeVars, queue, pending, receipt, accepted>>
       PROVE  CallInv'
  <2>1. JobCalls(job, accepted) /\ \A i \in 1..Len(queue) : ~queue[i].awaited
    BY <1>11, NobodyWaits DEF Running, CallInv
  <2>2. CASE job.kind = "Commit"
    <3>1. /\ IsCommitJob(job) /\ CarriesOut(job.request, job.event)
      BY <2>1, <2>2, JobKinds
    <3>2. /\ IsCommitJob(Frozen(job)) /\ Frozen(job).event = job.event
          /\ Frozen(job).request = job.request
      BY <3>1, FrozenJob
    <3>3. job' = [Frozen(job) EXCEPT !.result = result, !.reply = NoValue]
      BY <1>11, <2>2 DEF EndUncertain
    <3>4. /\ IsCommitJob(job') /\ job'.event = job.event /\ job'.request = job.request
          /\ job'.reply = NoValue /\ job'.result = result
      BY <3>2, <3>3 DEF IsCommitJob, CommitFields
    <3>5. JobCalls(job', accepted)
      BY <1>11, <2>1, <2>2, <3>1, <3>4, JobGoesOn
    <3> QED BY <3>5, <2>1, <1>3, <1>11 DEF storeVars
  <2>3. CASE job.kind # "Commit"
    <3>1. job' = [job EXCEPT !.result = result, !.reply = NoValue]
      BY <1>11, <2>3 DEF EndUncertain, End
    <3>2. JobCalls(job', accepted)
      BY <3>1, <1>11, <2>1, <2>3, ReconcileEnds
    <3> QED BY <3>2, <2>1, <1>3, <1>11 DEF storeVars
  <2> QED BY <2>2, <2>3
<1>12. CASE SubmitRefused
  BY <1>11, <1>12 DEF SubmitRefused
<1>13. CASE PollUnknown
  BY <1>11, <1>13 DEF PollUnknown
<1>14. CASE Receive
  <2>1. job # NoJob /\ JobCalls(job, accepted) /\ job.reply # NoValue
    BY <1>14 DEF Receive, Running, CallInv
  <2>2. JobCalls(job', accepted)
    BY <2>1, <1>14, ReceiveCommitCalls, ReceiveReconcileCalls DEF Receive
  <2>3. \A i \in 1..Len(queue) : ~queue[i].awaited
    BY <2>1, NobodyWaits DEF CallInv
  <2> QED BY <2>2, <2>3, <1>3, <1>14 DEF Receive, storeVars
<1>15. CASE TakeCommitted
  <2>1. JobCalls(job, accepted) /\ job.result = "Committed" /\ job.result # NoValue
    BY <1>15, CoordinatorAssumption DEF TakeCommitted, CallInv
  <2>2. job.event \in accepted
    BY <2>1 DEF JobCalls
  <2>3. \A i \in 1..Len(queue) : ~queue[i].awaited
    BY <2>1, NobodyWaits DEF CallInv
  <2> QED BY <2>2, <2>3, <1>3, <1>15 DEF TakeCommitted, storeVars, historyVars
<1>16. CASE Retain
  <2>1. /\ queue' = Unawaited /\ job' = NoJob /\ UNCHANGED <<accepted, facts, receipt>>
        /\ JobCalls(job, accepted) /\ job.kind = "Commit"
    BY <1>16 DEF Retain, storeVars, CallInv
  <2>2. pending'.request = job.request /\ pending'.event = job.event
    BY <1>16 DEF Retain
  <2>3. CarriesOut(job.request, job.event)
    BY <2>1, JobKinds
  <2> QED BY <2>1, <2>2, <2>3, <1>2, ReleasedQueue DEF CallInv
<1>17. CASE Drop
  <2>1. /\ queue' = Unawaited /\ job' = NoJob
        /\ UNCHANGED <<accepted, facts, pending, receipt>>
    BY <1>17 DEF Drop, storeVars, historyVars
  <2> QED BY <2>1, <1>2, ReleasedQueue DEF CallInv
<1>18. CASE Confirm
  <2>1. /\ UNCHANGED <<queue, job, pending, accepted, facts>> /\ receipt' = NoValue
    BY <1>18 DEF Confirm, storeVars
  <2> QED BY <2>1 DEF CallInv, IsQueue, Awaits
<1>19. CASE Execute
  BY <1>19, ExecuteCalls
<1>20. CASE OtherRequest
  <2>1. facts' \subseteq facts /\ UNCHANGED <<queue, job, pending, receipt, accepted>>
    BY <1>20 DEF OtherRequest, OtherWrite, Maintain, managerVars, historyVars
  <2> QED BY <2>1, <1>1
<1>21. CASE RequestShutdown
  BY <1>1, <1>21 DEF RequestShutdown, storeVars, managerVars, historyVars
<1>22. CASE EndWorker
  <2>1. /\ queue' = <<>> /\ job' = Orphaned(job)
        /\ UNCHANGED <<accepted, facts, pending, receipt>>
    BY <1>22 DEF EndWorker, storeVars, historyVars
  <2> QED BY <2>1, <1>2, EmptiedQueue, OrphanedJob DEF CallInv
<1>23. CASE StartWorker
  <2>1. UNCHANGED <<facts, queue, job, pending, receipt, accepted>>
    BY <1>23 DEF StartWorker, Reopen, storeVars, managerVars, historyVars
  <2> QED BY <2>1, <1>1
<1>24. CASE Crash
  <2>1. /\ queue' = <<>> /\ job' = NoJob /\ pending' = NoValue /\ receipt' = NoValue
        /\ UNCHANGED <<accepted, facts>>
    BY <1>24 DEF Crash, storeVars, historyVars
  <2> QED BY <2>1, <1>2, EmptiedQueue
<1>25. CASE UNCHANGED vars
  BY <1>1, <1>25 DEF vars, storeVars, managerVars, historyVars
<1> QED
  BY <1>5, <1>6, <1>7, <1>8, <1>9, <1>10, <1>12, <1>13, <1>14, <1>15, <1>16, <1>17, <1>18,
     <1>19, <1>20, <1>21, <1>22, <1>23, <1>24, <1>25 DEF CoordNext

\* A staged event leaves the spool only once the database has accepted exactly
\* that event, whatever was retried, resumed, dropped or lost in a crash
\* (confirm_spool in coordinator/).
THEOREM ConfirmedIsDurable == CoordSpec => ConfirmedDurable
<1>1. ASSUME CallInv, [CoordNext]_vars
      PROVE  [\A e \in spool \ spool' : e \in accepted]_vars
  <2>1. CASE CoordNext /\ ~Confirm
    <3>1. \A p : Admit(p) \/ Pop(p) \/ Block(p) => spool' = spool
      BY DEF Admit, Pop, Block
    <3>2. \A p, r, g, envelope : Stage(p, r, g, envelope) => spool \subseteq spool'
      BY DEF Stage
    <3>3. /\ \A e, policy, notify : StartCommit(e, policy, notify) => spool' = spool
          /\ \A p, r, first, previous, baseline, resolved, continued :
               StartReconcile(p, r, first, previous, baseline, resolved, continued) => spool' = spool
      BY DEF StartCommit, StartReconcile
    <3>4. (ResumeCommit \/ Submit \/ SubmitRefused \/ PollUnknown \/ Receive
           \/ TakeCommitted \/ Retain \/ Drop) => spool' = spool
      BY DEF ResumeCommit, Submit, SubmitRefused, PollUnknown, Receive, TakeCommitted,
             Retain, Drop
    <3>5. (Execute \/ OtherRequest \/ RequestShutdown \/ EndWorker \/ StartWorker
           \/ Crash) => spool' = spool
      BY DEF Execute, OtherRequest, RequestShutdown, EndWorker, StartWorker, Crash
    <3>6. spool \subseteq spool'
      BY <2>1, <3>1, <3>2, <3>3, <3>4, <3>5 DEF CoordNext
    <3> QED BY <3>6
  <2>2. CASE Confirm
    BY <2>2, <1>1 DEF Confirm, CallInv
  <2> QED BY <1>1, <2>1, <2>2
<1> QED BY <1>1, CallInit, CallStep, PTL DEF CoordSpec, ConfirmedDurable


-----------------------------------------------------------------------------
(* Where requests come from                                                *)

Queued == {queue[i].request : i \in 1..Len(queue)}

\* Every request that may still be executed or submitted.
Requests ==
  Queued \cup (IF job # NoJob THEN {job.request} ELSE {})
         \cup (IF pending # NoValue THEN {pending.request} ELSE {})

\* Every event that may still be asked about.
Subjects ==
  spool \cup (IF job # NoJob /\ job.kind = "Commit" THEN {job.event} ELSE {})
        \cup (IF pending # NoValue THEN {pending.event} ELSE {})

Staged(e) ==
  \E p \in Producers, r \in Runs, g \in 1..issued, envelope \in Envelopes :
    e = EventOf(p, g, r, envelope.seq, envelope.id, envelope.payload)

\* What decision.rs computes from a context.
RetirementFrom(j, ctx, lost) ==
  [expected |-> ctx.revision, producer |-> j.event.producer, generation |-> j.event.generation,
   discarded |-> lost]
WriteFrom(j, ctx, lost) ==
  [expected |-> ctx.revision, fact |-> j.event, effects |-> Reduce(ctx.view, j.event, j.policy),
   notify |-> j.notify, discarded |-> lost]

\* A step of the job makes `r`; what may end the generation closes it first.
Decided(r) ==
  /\ job # NoJob /\ job.kind = "Commit" /\ job.reply # NoValue /\ job.reply.kind = "Context"
  /\ job'.reply = NoValue
  /\ \E lost \in {job.discarded, Frozen(job).discarded} :
       \/ /\ r = RetireRequest(RetirementFrom(job, job.reply.body, lost))
          /\ Freeze(job)
       \/ /\ Disposition(job.reply.body, job.event, job.policy) = "Apply"
          /\ r = ApplyRequest(WriteFrom(job, job.reply.body, lost))
          /\ Freeze(job) \/ ~r.body.effects.reconcile

\* A reconciliation starts with request `r`, its previous generation closed.
Begun(r) ==
  \E p \in Producers, run \in Runs, first \in FirstSequences,
     baseline \in Baselines \cup {NoValue} :
    \E previous \in Believed(p) : \E resolved, continued \in {NoValue, projections[run].current} :
      /\ r = ReconcileRequest(
               [ReconciliationOf(p, run, first, baseline, Backlog(p, previous), resolved, continued)
                  EXCEPT !.previous = previous])
      /\ Invalidate(p, previous) /\ job'.reply = NoValue

LEMMA QueuedShrinks ==
  ASSUME CallInv, queue' = queue \/ queue' = <<>> \/ queue' = Unawaited
                    \/ (queue # <<>> /\ queue' = Tail(queue))
  PROVE  Queued' \subseteq Queued
<1>1. CASE queue' = queue
  BY <1>1 DEF Queued
<1>2. CASE queue' = <<>>
  BY <1>2 DEF Queued
<1>3. CASE queue' = Unawaited
  <2>1. Len(queue') = Len(queue)
    BY <1>3, QueueFacts DEF CallInv
  <2>2. \A i \in 1..Len(queue) : queue'[i].request = queue[i].request
    <3>1. \A i \in 1..Len(queue) : queue'[i] = [queue[i] EXCEPT !.awaited = FALSE]
      BY <1>3 DEF Unawaited
    <3> QED BY <3>1 DEF CallInv, Awaits
  <2> QED BY <2>1, <2>2 DEF Queued
<1>4. CASE queue # <<>> /\ queue' = Tail(queue)
  <2>1. \A i \in 1..Len(queue') : queue'[i] = queue[i + 1] /\ i + 1 \in 1..Len(queue)
    BY <1>4, QueueFacts DEF CallInv
  <2> QED BY <2>1 DEF Queued
<1> QED BY <1>1, <1>2, <1>3, <1>4

LEMMA RequestKept ==
  ASSUME CallInv, job # NoJob, NEW k, k = Orphaned(job) \/ \E reply : k = [job EXCEPT !.reply = reply]
  PROVE  k.request = job.request
<1>1. IsCommitJob(job) \/ IsReconcileJob(job)
  BY DEF CallInv, JobCalls
<1> QED BY <1>1 DEF Orphaned, IsCommitJob, IsReconcileJob, CommitFields, ReconcileFields

LEMMA RequestOrigins ==
  ASSUME CallInv, [CoordNext]_vars, NEW r, r \in Requests'
  PROVE  \/ r \in Requests \/ Begun(r) \/ Decided(r)
         \/ \E e \in Subjects : r = ContextRequest(e)
<1>1. ASSUME Queued' \subseteq Queued, UNCHANGED <<job, pending>>
      PROVE  r \in Requests
  BY <1>1 DEF Requests
<1>2. ASSUME Queued' \subseteq Queued, pending' = pending \/ pending' = NoValue
      PROVE  r \in Requests \/ (job' # NoJob /\ r = job'.request)
  BY <1>2 DEF Requests
<1>3. CASE \E p \in Producers : Admit(p) \/ Pop(p) \/ Block(p)
  BY <1>1, <1>3, QueuedShrinks DEF Admit, Pop, Block
<1>4. CASE \E p \in Producers, run \in Runs, g \in 1..issued, envelope \in Envelopes :
             Stage(p, run, g, envelope)
  BY <1>1, <1>4, QueuedShrinks DEF Stage, managerVars
<1>5. ASSUME NEW e \in spool, NEW policy, NEW notify, StartCommit(e, policy, notify)
      PROVE  r \in Requests \/ \E d \in Subjects : r = ContextRequest(d)
  <2>1. job'.request = ContextRequest(e)
    BY <1>5 DEF StartCommit, CommitJob
  <2>2. e \in Subjects
    BY DEF Subjects
  <2> QED BY <1>2, <1>5, <2>1, <2>2, QueuedShrinks DEF StartCommit
<1>6. ASSUME NEW p \in Producers, NEW run \in Runs, NEW first \in FirstSequences,
             NEW previous \in Believed(p), NEW baseline \in Baselines \cup {NoValue},
             NEW resolved \in {NoValue, projections[run].current},
             NEW continued \in {NoValue, projections[run].current},
             StartReconcile(p, run, first, previous, baseline, resolved, continued)
      PROVE  r \in Requests \/ Begun(r)
  <2> DEFINE q == [ReconciliationOf(p, run, first, baseline, Backlog(p, previous), resolved, continued)
                     EXCEPT !.previous = previous]
  <2>1. job'.request = ReconcileRequest(q)
    BY <1>6 DEF StartReconcile
  <2>2. Invalidate(p, previous) /\ job'.reply = NoValue
    BY <1>6 DEF StartReconcile
  <2>3. Begun(ReconcileRequest(q))
    BY <1>6, <2>2, Zenon DEF Begun
  <2> HIDE DEF q
  <2> QED BY <1>2, <1>6, <2>1, <2>3, QueuedShrinks DEF StartReconcile
<1>7. CASE ResumeCommit
  <2>1. job'.request = pending.request /\ pending # NoValue
    BY <1>7 DEF ResumeCommit, CommitJob
  <2> QED BY <2>1, <1>2, <1>7, QueuedShrinks DEF ResumeCommit, Requests
<1>8. CASE Submit
  <2>1. job # NoJob /\ pending' = pending
    BY <1>8 DEF Submit, Running
  <2>2. job'.request = job.request
    BY <2>1, <1>8, TicketedJob DEF Submit, CallInv
  <2>3. Queued' \subseteq Queued \cup {job.request}
    <3>1. queue' = Append(queue, [request |-> job.request, awaited |-> TRUE])
      BY <1>8 DEF Submit
    <3>2. /\ Len(queue') = Len(queue) + 1 /\ Len(queue) \in Nat
          /\ queue'[Len(queue) + 1] = [request |-> job.request, awaited |-> TRUE]
          /\ \A i \in 1..Len(queue) : queue'[i] = queue[i]
      BY <3>1, QueueFacts DEF CallInv
    <3>3. ASSUME NEW i \in 1..Len(queue')
          PROVE  queue'[i].request \in Queued \cup {job.request}
      <4>1. CASE i \in 1..Len(queue)
        BY <4>1, <3>2 DEF Queued
      <4>2. CASE i = Len(queue) + 1
        BY <4>2, <3>2
      <4> QED BY <4>1, <4>2, <3>2
    <3> QED BY <3>3 DEF Queued
  <2> QED BY <2>1, <2>2, <2>3 DEF Requests
<1>9. ASSUME UNCHANGED <<queue, pending>>, job # NoJob, job'.request = job.request
      PROVE  r \in Requests
  BY <1>2, <1>9, QueuedShrinks DEF Requests
<1>10. ASSUME NEW result, EndUncertain(result), job # NoJob
       PROVE  job'.request = job.request
  <2>1. CASE job.kind = "Commit"
    <3>1. IsCommitJob(job)
      BY <2>1, <1>10, JobKinds DEF CallInv
    <3>2. IsCommitJob(Frozen(job)) /\ Frozen(job).request = job.request
      BY <3>1, FrozenJob
    <3>3. job' = [Frozen(job) EXCEPT !.result = result, !.reply = NoValue]
      BY <1>10, <2>1 DEF EndUncertain
    <3> QED BY <3>2, <3>3 DEF IsCommitJob, CommitFields
  <2>2. CASE job.kind # "Commit"
    <3>1. IsReconcileJob(job)
      BY <2>2, <1>10, JobKinds DEF CallInv
    <3>2. job' = [job EXCEPT !.result = result, !.reply = NoValue]
      BY <1>10, <2>2 DEF EndUncertain, End
    <3> QED BY <3>1, <3>2 DEF IsReconcileJob, ReconcileFields
  <2> QED BY <2>1, <2>2
<1>11. CASE SubmitRefused
  BY <1>9, <1>10, <1>11 DEF SubmitRefused, Running
<1>12. CASE PollUnknown
  BY <1>9, <1>10, <1>12 DEF PollUnknown, Running
<1>13. CASE Receive
  <2>1. /\ job # NoJob /\ JobCalls(job, accepted) /\ job.reply # NoValue
        /\ UNCHANGED <<queue, pending>>
    BY <1>13 DEF Receive, Running, CallInv
  <2>2. ASSUME NEW result, End(result)
        PROVE  job'.request = job.request
    <3>1. IsCommitJob(job) \/ IsReconcileJob(job)
      BY <2>1 DEF JobCalls
    <3> QED BY <3>1, <2>2 DEF End, IsCommitJob, IsReconcileJob, CommitFields, ReconcileFields
  <2>3. CASE job.kind = "Commit"
    <3>1. /\ IsCommitJob(job) /\ IsCommitJob(Frozen(job))
      BY <2>1, <2>3, JobKinds, FrozenJob
    <3>2. ASSUME NEW from, from = job \/ from = Frozen(job), NEW purpose, NEW request,
                 \/ job' = NextRequest(from, purpose, request)
                 \/ job' = [NextRequest(from, purpose, request) EXCEPT !.retries = @ + 1]
          PROVE  job'.request = request /\ job'.reply = NoValue
      BY <3>1, <3>2, NextJob
    <3>3. CASE job.reply.kind = "Context" /\ DecideContext(job.reply.body)
      <4> DEFINE decision == Disposition(job.reply.body, job.event, job.policy)
             effects == Reduce(job.reply.body.view, job.event, job.policy)
      <4>1. \/ End(decision)
            \/ /\ job' = NextRequest(Frozen(job), "Retire",
                     RetireRequest(RetirementFrom(job, job.reply.body, Frozen(job).discarded)))
               /\ Freeze(job)
            \/ /\ decision = "Apply" /\ Freeze(job)
               /\ job' = NextRequest(Frozen(job), "Apply",
                     ApplyRequest(WriteFrom(job, job.reply.body, Frozen(job).discarded)))
            \/ /\ decision = "Apply" /\ ~effects.reconcile
               /\ job' = NextRequest(job, "Apply",
                     ApplyRequest(WriteFrom(job, job.reply.body, job.discarded)))
        BY <3>3, Zenon DEF DecideContext, RetirementFrom, WriteFrom
      <4>2. CASE End(decision)
        BY <4>2, <2>1, <2>2, <1>9
      <4>3. CASE /\ job' = NextRequest(Frozen(job), "Retire",
                      RetireRequest(RetirementFrom(job, job.reply.body, Frozen(job).discarded)))
                 /\ Freeze(job)
        <5>1. job'.reply = NoValue /\ job'.request =
                RetireRequest(RetirementFrom(job, job.reply.body, Frozen(job).discarded))
          BY <4>3, <3>2
        <5>2. Decided(job'.request)
          BY <5>1, <4>3, <3>3, <2>1, <2>3 DEF Decided
        <5> QED BY <5>2, <1>2, <2>1, QueuedShrinks
      <4>4. CASE /\ decision = "Apply" /\ Freeze(job)
                 /\ job' = NextRequest(Frozen(job), "Apply",
                      ApplyRequest(WriteFrom(job, job.reply.body, Frozen(job).discarded)))
        <5>1. job'.reply = NoValue /\ job'.request =
                ApplyRequest(WriteFrom(job, job.reply.body, Frozen(job).discarded))
          BY <4>4, <3>2
        <5>2. Decided(job'.request)
          BY <5>1, <4>4, <3>3, <2>1, <2>3 DEF Decided
        <5> QED BY <5>2, <1>2, <2>1, QueuedShrinks
      <4>5. CASE /\ decision = "Apply" /\ ~effects.reconcile
                 /\ job' = NextRequest(job, "Apply",
                      ApplyRequest(WriteFrom(job, job.reply.body, job.discarded)))
        <5>1. /\ job'.reply = NoValue
              /\ job'.request = ApplyRequest(WriteFrom(job, job.reply.body, job.discarded))
          BY <4>5, <3>2
        <5>2. ApplyRequest(WriteFrom(job, job.reply.body, job.discarded)).body.effects = effects
          BY DEF ApplyRequest, WriteFrom
        <5>3. Decided(job'.request)
          BY <5>1, <5>2, <4>5, <3>3, <2>1, <2>3 DEF Decided
        <5> QED BY <5>3, <1>2, <2>1, QueuedShrinks
      <4> HIDE DEF decision, effects
      <4> QED BY <4>1, <4>2, <4>3, <4>4, <4>5
    <3>4. CASE job' = [NextRequest(job, "Context", ContextRequest(job.event)) EXCEPT !.retries = @ + 1]
      <4>1. job'.request = ContextRequest(job.event)
        BY <3>4, <3>2
      <4>2. job.event \in Subjects
        BY <2>1, <2>3 DEF Subjects
      <4> QED BY <4>1, <4>2, <1>2, <2>1, QueuedShrinks
    <3>5. CASE End("Committed") \/ End("Rejected")
      BY <3>5, <2>1, <2>2, <1>9
    <3>6. CASE EndUncertain(job.reply.body)
      BY <3>6, <2>1, <1>9, <1>10
    <3> QED BY <1>13, <2>3, <3>3, <3>4, <3>5, <3>6 DEF Receive, ReceiveCommit
  <2>4. CASE job.kind # "Commit"
    <3>1. \E result : End(result)
      BY <1>13, <2>4, Zenon DEF Receive, ReceiveReconcile
    <3> QED BY <3>1, <2>1, <2>2, <1>9
  <2> QED BY <2>3, <2>4
<1>14. CASE TakeCommitted
  BY <1>2, <1>14, QueuedShrinks DEF TakeCommitted
<1>15. CASE Retain
  <2>1. /\ job # NoJob /\ job' = NoJob /\ queue' = Unawaited /\ pending'.request = job.request
    BY <1>15 DEF Retain
  <2> QED BY <2>1, QueuedShrinks DEF Requests
<1>16. CASE Drop
  BY <1>2, <1>16, QueuedShrinks DEF Drop
<1>17. CASE Confirm
  BY <1>1, <1>17, QueuedShrinks DEF Confirm
<1>18. CASE Execute
  <2>1. queue # <<>> /\ pending' = pending
    BY <1>18 DEF Execute
  <2>2. PICK reply : Answer(reply)
    BY <1>18, Zenon DEF Execute, ExecuteContext, ExecuteApply, ExecuteRetire, ExecuteReconcile
  <2>3. queue' = Tail(queue) \/ queue' = <<>>
    BY <2>2 DEF Answer
  <2>4. \/ job' = [job EXCEPT !.reply = reply] /\ Head(queue).awaited
        \/ job' = job \/ job' = Orphaned(job)
    BY <2>2 DEF Answer
  <2>5. job = NoJob => ~Head(queue).awaited
    <3>1. Head(queue) = queue[1] /\ 1 \in 1..Len(queue)
      BY <2>1, QueueFacts DEF CallInv
    <3> QED BY <3>1, FreeRegistry
  <2>6. job = NoJob => job' = NoJob
    BY <2>4, <2>5 DEF Orphaned, Running
  <2>7. job # NoJob => job'.request = job.request
    BY <2>4, RequestKept
  <2> QED BY <2>1, <2>3, <2>6, <2>7, <1>2, QueuedShrinks DEF Requests
<1>19. CASE OtherRequest
  BY <1>1, <1>19, QueuedShrinks DEF OtherRequest, managerVars
<1>20. CASE RequestShutdown
  BY <1>1, <1>20, QueuedShrinks DEF RequestShutdown, managerVars
<1>21. CASE EndWorker
  <2>1. queue' = <<>> /\ job' = Orphaned(job) /\ pending' = pending
    BY <1>21 DEF EndWorker
  <2>2. job = NoJob => job' = NoJob
    BY <2>1 DEF Orphaned, Running
  <2>3. job # NoJob => job'.request = job.request
    BY <2>1, RequestKept
  <2> QED BY <2>1, <2>2, <2>3, <1>2, QueuedShrinks DEF Requests
<1>22. CASE StartWorker
  BY <1>1, <1>22, QueuedShrinks DEF StartWorker, managerVars
<1>23. CASE Crash
  BY <1>2, <1>23, QueuedShrinks DEF Crash
<1>24. CASE UNCHANGED vars
  BY <1>1, <1>24, QueuedShrinks DEF vars, managerVars
<1>25. CASE \E p \in Producers, run \in Runs, first \in FirstSequences,
               baseline \in Baselines \cup {NoValue} :
              \E resolved, continued \in {NoValue, projections[run].current} :
                \E previous \in Believed(p) :
                  StartReconcile(p, run, first, previous, baseline, resolved, continued)
  BY <1>6, <1>25
<1>26. CASE \E e \in spool, policy \in Policies, notify \in NotifyChoices :
              StartCommit(e, policy, notify)
  BY <1>5, <1>26
<1> QED
  BY <1>3, <1>4, <1>7, <1>8, <1>11, <1>12, <1>13, <1>14, <1>15, <1>16, <1>17, <1>18, <1>19,
     <1>20, <1>21, <1>22, <1>23, <1>24, <1>25, <1>26 DEF CoordNext


-----------------------------------------------------------------------------
(* A job keeps what it was started for                                     *)

Continues(k, j) ==
  /\ IsCommitJob(k) /\ k.event = j.event /\ k.policy = j.policy /\ k.notify = j.notify
  /\ k.discarded \in {j.discarded, Frozen(j).discarded}

LEMMA CommitContinues ==
  ASSUME NEW j, IsCommitJob(j), NEW from, from = j \/ from = Frozen(j), NEW k,
         \/ k = from
         \/ \E a : k = [from EXCEPT !.result = a, !.reply = NoValue]
         \/ \E a, b : k = NextRequest(from, a, b)
         \/ \E a, b : k = [NextRequest(from, a, b) EXCEPT !.retries = @ + 1]
         \/ \E a : k = [from EXCEPT !.ticket = a]
         \/ \E a : k = [from EXCEPT !.reply = a]
  PROVE  Continues(k, j)
<1>1. /\ IsCommitJob(from) /\ from.event = j.event /\ from.policy = j.policy
      /\ from.notify = j.notify /\ from.discarded \in {j.discarded, Frozen(j).discarded}
  BY DEF IsCommitJob, CommitFields, Frozen
<1>2. ASSUME IsCommitJob(k), k.event = from.event, k.policy = from.policy,
             k.notify = from.notify, k.discarded = from.discarded
      PROVE  Continues(k, j)
  BY <1>1, <1>2 DEF Continues
<1>3. CASE k = from
  BY <1>1, <1>2, <1>3
<1>4. CASE \E a : k = [from EXCEPT !.result = a, !.reply = NoValue]
  BY <1>1, <1>2, <1>4 DEF IsCommitJob, CommitFields
<1>5. CASE \E a, b : k = NextRequest(from, a, b)
  BY <1>1, <1>2, <1>5 DEF IsCommitJob, CommitFields, NextRequest
<1>6. CASE \E a, b : k = [NextRequest(from, a, b) EXCEPT !.retries = @ + 1]
  BY <1>1, <1>2, <1>6 DEF IsCommitJob, CommitFields, NextRequest
<1>7. CASE \E a : k = [from EXCEPT !.ticket = a]
  BY <1>1, <1>2, <1>7 DEF IsCommitJob, CommitFields
<1>8. CASE \E a : k = [from EXCEPT !.reply = a]
  BY <1>1, <1>2, <1>8 DEF IsCommitJob, CommitFields
<1> QED BY <1>3, <1>4, <1>5, <1>6, <1>7, <1>8

LEMMA ReconcileContinues ==
  ASSUME NEW j, IsReconcileJob(j), NEW k,
         \/ k = j
         \/ \E a : k = [j EXCEPT !.result = a, !.reply = NoValue]
         \/ \E a : k = [j EXCEPT !.ticket = a]
         \/ \E a : k = [j EXCEPT !.reply = a]
  PROVE  k.kind = "Reconcile"
BY DEF IsReconcileJob, ReconcileFields

\* The steps of a job that is kept.
LEMMA JobMoves ==
  ASSUME CallInv, job # NoJob,
         Submit \/ SubmitRefused \/ PollUnknown \/ Receive \/ Execute \/ EndWorker
  PROVE  /\ job.kind = "Commit" => Continues(job', job)
         /\ job.kind # "Commit" => job'.kind = "Reconcile"
<1>1. /\ job.kind = "Commit" => IsCommitJob(job)
      /\ job.kind # "Commit" => IsReconcileJob(job)
  BY JobKinds DEF CallInv
<1>2. ASSUME NEW result, EndUncertain(result)
      PROVE  /\ job.kind = "Commit" => Continues(job', job)
             /\ job.kind # "Commit" => job'.kind = "Reconcile"
  <2>1. job.kind = "Commit" => job' = [Frozen(job) EXCEPT !.result = result, !.reply = NoValue]
    BY <1>2 DEF EndUncertain
  <2>2. job.kind # "Commit" => job' = [job EXCEPT !.result = result, !.reply = NoValue]
    BY <1>2 DEF EndUncertain, End
  <2> QED BY <1>1, <2>1, <2>2, CommitContinues, ReconcileContinues
<1>3. CASE Submit
  <2>1. job' = [job EXCEPT !.ticket = "Held"]
    BY <1>3 DEF Submit
  <2> QED BY <1>1, <2>1, CommitContinues, ReconcileContinues
<1>4. CASE SubmitRefused \/ PollUnknown
  BY <1>2, <1>4 DEF SubmitRefused, PollUnknown
<1>5. CASE Receive /\ job.kind = "Commit"
  <2>1. ReceiveCommit(job.reply)
    BY <1>5 DEF Receive
  <2>2. CASE DecideContext(job.reply.body)
    <3>1. \E from : /\ from = job \/ from = Frozen(job)
                    /\ \/ \E a : job' = [from EXCEPT !.result = a, !.reply = NoValue]
                       \/ \E a, b : job' = NextRequest(from, a, b)
      BY <2>2, Zenon DEF DecideContext, End
    <3> QED BY <1>1, <1>5, <3>1, CommitContinues
  <2>3. CASE \E a : End(a)
    BY <1>1, <1>5, <2>3, CommitContinues DEF End
  <2>4. CASE \E a, b : job' = [NextRequest(job, a, b) EXCEPT !.retries = @ + 1]
    BY <1>1, <1>5, <2>4, CommitContinues
  <2>5. CASE EndUncertain(job.reply.body)
    BY <1>2, <2>5
  <2> QED BY <2>1, <2>2, <2>3, <2>4, <2>5, Zenon DEF ReceiveCommit
<1>6. CASE Receive /\ job.kind # "Commit"
  <2>1. \E a : End(a)
    BY <1>6, Zenon DEF Receive, ReceiveReconcile
  <2> QED BY <1>1, <1>6, <2>1, ReconcileContinues DEF End
<1>7. ASSUME \/ job' = job \/ job' = Orphaned(job) \/ \E a : job' = [job EXCEPT !.reply = a]
      PROVE  /\ job.kind = "Commit" => Continues(job', job)
             /\ job.kind # "Commit" => job'.kind = "Reconcile"
  <2>1. \/ job' = job \/ \E a : job' = [job EXCEPT !.ticket = a]
        \/ \E a : job' = [job EXCEPT !.reply = a]
    BY <1>7 DEF Orphaned
  <2> QED BY <1>1, <2>1, CommitContinues, ReconcileContinues
<1>8. CASE Execute
  <2>1. \E reply : Answer(reply)
    BY <1>8, Zenon DEF Execute, ExecuteContext, ExecuteApply, ExecuteRetire, ExecuteReconcile
  <2> QED BY <2>1, <1>7, Zenon DEF Answer
<1>9. CASE EndWorker
  BY <1>7, <1>9 DEF EndWorker
<1> QED BY <1>3, <1>4, <1>5, <1>6, <1>8, <1>9

LEMMA StillFree ==
  ASSUME CallInv, job = NoJob, Execute \/ EndWorker
  PROVE  job' = NoJob
<1>1. CASE Execute
  <2>1. queue # <<>> /\ \E reply : Answer(reply)
    BY <1>1, Zenon DEF Execute, ExecuteContext, ExecuteApply, ExecuteRetire, ExecuteReconcile
  <2>2. ~Head(queue).awaited
    <3>1. Head(queue) = queue[1] /\ 1 \in 1..Len(queue)
      BY <2>1, QueueFacts DEF CallInv
    <3> QED BY <3>1, FreeRegistry
  <2> QED BY <2>1, <2>2 DEF Answer, Orphaned, Running
<1>2. CASE EndWorker
  BY <1>2 DEF EndWorker, Orphaned, Running
<1> QED BY <1>1, <1>2

LEMMA SubjectOrigins ==
  ASSUME CallInv, [CoordNext]_vars, NEW e, e \in Subjects'
  PROVE  e \in Subjects \/ Staged(e)
<1>1. ASSUME spool' \subseteq spool, UNCHANGED <<job, pending>>
      PROVE  e \in Subjects
  BY <1>1 DEF Subjects
<1>2. ASSUME spool' = spool, pending' = pending \/ pending' = NoValue
      PROVE  e \in Subjects \/ (job' # NoJob /\ job'.kind = "Commit" /\ e = job'.event)
  BY <1>2 DEF Subjects
<1>3. CASE \E p \in Producers : Admit(p) \/ Pop(p) \/ Block(p)
  BY <1>1, <1>3 DEF Admit, Pop, Block
<1>4. ASSUME NEW p \in Producers, NEW r \in Runs, NEW g \in 1..issued, NEW envelope \in Envelopes,
             Stage(p, r, g, envelope)
      PROVE  e \in Subjects \/ Staged(e)
  <2> DEFINE d == EventOf(p, g, r, envelope.seq, envelope.id, envelope.payload)
  <2>1. spool' = spool \cup {d} /\ UNCHANGED <<job, pending>>
    BY <1>4 DEF Stage, managerVars
  <2>2. Staged(d)
    BY DEF Staged
  <2> HIDE DEF d
  <2> QED BY <2>1, <2>2 DEF Subjects
<1>5. ASSUME NEW d \in spool, NEW policy, NEW notify, StartCommit(d, policy, notify)
      PROVE  e \in Subjects
  <2>1. job'.event = d /\ spool' = spool /\ pending' = pending
    BY <1>5 DEF StartCommit, CommitJob
  <2> QED BY <1>2, <2>1 DEF Subjects
<1>6. ASSUME NEW p, NEW r, NEW first, NEW previous, NEW baseline, NEW resolved, NEW continued,
             StartReconcile(p, r, first, previous, baseline, resolved, continued)
      PROVE  e \in Subjects
  <2>1. job'.kind = "Reconcile" /\ spool' = spool /\ pending' = pending
    BY <1>6 DEF StartReconcile
  <2> QED BY <1>2, <2>1
<1>7. CASE ResumeCommit
  <2>1. job'.event = pending.event /\ pending # NoValue /\ spool' = spool /\ pending' = NoValue
    BY <1>7 DEF ResumeCommit, CommitJob
  <2> QED BY <1>2, <2>1 DEF Subjects
<1>8. CASE Submit \/ SubmitRefused \/ PollUnknown \/ Receive \/ Execute \/ EndWorker
  <2>1. spool' = spool /\ pending' = pending
    BY <1>8 DEF Submit, SubmitRefused, PollUnknown, Receive, Execute, EndWorker
  <2>2. job # NoJob => /\ job.kind = "Commit" => job'.event = job.event
                       /\ job.kind # "Commit" => job'.kind = "Reconcile"
    BY <1>8, JobMoves DEF Continues
  <2>3. job = NoJob => job' = NoJob
    BY <1>8, StillFree DEF Submit, SubmitRefused, PollUnknown, Receive, Running
  <2> QED BY <1>2, <2>1, <2>2, <2>3 DEF Subjects
<1>9. CASE TakeCommitted \/ Drop \/ Crash
  BY <1>2, <1>9 DEF TakeCommitted, Drop, Crash
<1>10. CASE Retain
  <2>1. /\ spool' = spool /\ job # NoJob /\ job.kind = "Commit" /\ job' = NoJob
        /\ pending'.event = job.event
    BY <1>10 DEF Retain
  <2> QED BY <2>1 DEF Subjects
<1>11. CASE Confirm
  BY <1>1, <1>11 DEF Confirm
<1>12. CASE OtherRequest \/ RequestShutdown \/ StartWorker
  BY <1>1, <1>12 DEF OtherRequest, RequestShutdown, StartWorker, managerVars
<1>13. CASE UNCHANGED vars
  BY <1>1, <1>13 DEF vars, managerVars
<1>14. CASE \E p \in Producers, r \in Runs, g \in 1..issued, envelope \in Envelopes :
              Stage(p, r, g, envelope)
  BY <1>4, <1>14
<1>15. CASE \E p \in Producers, r \in Runs, first \in FirstSequences,
               baseline \in Baselines \cup {NoValue} :
              \E resolved, continued \in {NoValue, projections[r].current} :
                \E previous \in Believed(p) :
                  StartReconcile(p, r, first, previous, baseline, resolved, continued)
  BY <1>6, <1>15
<1>16. CASE \E d \in spool, policy \in Policies, notify \in NotifyChoices :
              StartCommit(d, policy, notify)
  BY <1>5, <1>16
<1> QED
  BY <1>3, <1>7, <1>8, <1>9, <1>10, <1>11, <1>12, <1>13, <1>14, <1>15, <1>16 DEF CoordNext


-----------------------------------------------------------------------------
(* What the database accepts is in order                                   *)

LEMMA StoreSteps ==
  ASSUME CallInv, [CoordNext]_vars
  PROVE  \/ UNCHANGED <<storeVars, accepted>>
         \/ \E r \in Queued : /\ r.op = "Apply" /\ Apply(r.body)
                              /\ accepted' = accepted \cup {r.body.fact}
         \/ /\ accepted' = accepted
            /\ \/ \E r \in Queued : r.op = "Reconcile" /\ Reconcile(r.body)
               \/ \E r \in Queued : r.op = "RetireProducer" /\ RetireProducer(r.body)
               \/ OtherWrite \/ Reopen
               \/ Maintain(IF CleanupFacts THEN facts ELSE {}, tombstones, {})
<1>1. CASE Execute
  <2> DEFINE request == Head(queue).request
  <2>1. request \in Queued
    BY <1>1, QueueFacts DEF Execute, Queued, CallInv
  <2>2. CASE request.op = "Context" /\ ExecuteContext(request.body)
    BY <2>2 DEF ExecuteContext
  <2>3. CASE request.op = "Apply" /\ ExecuteApply(request.body)
    BY <2>1, <2>3, Zenon DEF ExecuteApply, Apply
  <2>4. CASE request.op = "RetireProducer" /\ ExecuteRetire(request.body)
    BY <2>1, <2>4, Zenon DEF ExecuteRetire
  <2>5. CASE request.op = "Reconcile" /\ ExecuteReconcile(request.body)
    BY <2>1, <2>5, Zenon DEF ExecuteReconcile
  <2> HIDE DEF request
  <2> QED BY <1>1, <2>2, <2>3, <2>4, <2>5 DEF Execute, request
<1>2. CASE OtherRequest
  BY <1>2 DEF OtherRequest, historyVars
<1>3. CASE StartWorker
  BY <1>3 DEF StartWorker, historyVars
<1>4. CASE \E p \in Producers : Admit(p) \/ Pop(p) \/ Block(p)
  BY <1>4 DEF Admit, Pop, Block, historyVars
<1>5. CASE \E p \in Producers, r \in Runs, g \in 1..issued, envelope \in Envelopes :
             Stage(p, r, g, envelope)
  BY <1>5 DEF Stage, historyVars
<1>6. CASE \/ \E e \in spool, policy \in Policies, notify \in NotifyChoices :
                StartCommit(e, policy, notify)
           \/ \E p \in Producers, r \in Runs, first \in FirstSequences,
                 baseline \in Baselines \cup {NoValue} :
                \E resolved, continued \in {NoValue, projections[r].current} :
                  \E previous \in Believed(p) :
                    StartReconcile(p, r, first, previous, baseline, resolved, continued)
  <2>1. /\ \A e, policy, notify :
             StartCommit(e, policy, notify) => UNCHANGED <<storeVars, accepted>>
        /\ \A p, r, first, previous, baseline, resolved, continued :
             StartReconcile(p, r, first, previous, baseline, resolved, continued)
               => UNCHANGED <<storeVars, accepted>>
    BY DEF StartCommit, StartReconcile, historyVars
  <2> QED BY <1>6, <2>1
<1>7. CASE ResumeCommit \/ Submit \/ SubmitRefused \/ PollUnknown \/ Receive \/ TakeCommitted
  BY <1>7 DEF ResumeCommit, Submit, SubmitRefused, PollUnknown, Receive, TakeCommitted, historyVars
<1>8. CASE Retain \/ Drop \/ Confirm \/ RequestShutdown \/ EndWorker \/ Crash
  BY <1>8 DEF Retain, Drop, Confirm, RequestShutdown, EndWorker, Crash, historyVars
<1>9. CASE UNCHANGED vars
  BY <1>9 DEF vars, historyVars
<1> QED BY <1>1, <1>2, <1>3, <1>4, <1>5, <1>6, <1>7, <1>8, <1>9 DEF CoordNext

RowFields == {"generation", "run", "next", "active", "reconciled"}

\* A row is of a generation drawn before, and waits for a sequence number.
IsRow(row, drawn) ==
  /\ row = [f \in RowFields |-> row[f]]
  /\ row.generation \in 1..drawn /\ row.next \in Seqs \cup {NoValue}

\* The events known of the row's generation are those before the one it waits for.
FollowsLog(row, p, known) ==
  row.next # NoValue =>
    \E first \in FirstSequences :
      /\ first <= row.next
      /\ Numbers(p, row.generation, known) = first..(row.next - 1)

RequestInv ==
  /\ \A r \in Requests :
       /\ r.op = "Reconcile" => r.body.producer \in Producers /\ r.body.next \in FirstSequences
       /\ r.op = "RetireProducer" => r.body.producer \in Producers
       /\ r.op = "Apply" => r.body.fact.producer \in Producers /\ r.body.fact.seq \in Seqs
  /\ \A e \in Subjects : e.producer \in Producers /\ e.seq \in Seqs

OrderInv ==
  /\ issued \in Nat
  /\ producers = [p \in Producers |-> producers[p]]
  /\ \A p \in Producers : producers[p] # NoValue =>
       IsRow(producers[p], issued) /\ FollowsLog(producers[p], p, accepted)
  /\ \A e \in accepted : e.generation \in 1..issued /\ e.seq \in Seqs
  /\ AcceptedInOrder

LEMMA RequestStep ==
  ASSUME CallInv, RequestInv, [CoordNext]_vars
  PROVE  RequestInv'
<1>1. ASSUME NEW e, e \in Subjects'
      PROVE  e.producer \in Producers /\ e.seq \in Seqs
  <2>1. CASE e \in Subjects
    BY <2>1 DEF RequestInv
  <2>2. CASE Staged(e)
    BY <2>2, CoordinatorAssumption DEF Staged, EventOf
  <2> QED BY <1>1, <2>1, <2>2, SubjectOrigins
<1>2. ASSUME NEW r, r \in Requests'
      PROVE  /\ r.op = "Reconcile" => r.body.producer \in Producers /\ r.body.next \in FirstSequences
             /\ r.op = "RetireProducer" => r.body.producer \in Producers
             /\ r.op = "Apply" => r.body.fact.producer \in Producers /\ r.body.fact.seq \in Seqs
  <2>1. CASE r \in Requests
    BY <2>1 DEF RequestInv
  <2>2. CASE Begun(r)
    BY <2>2 DEF Begun, ReconcileRequest, ReconciliationOf
  <2>3. CASE Decided(r)
    <3>1. job.event \in Subjects
      BY <2>3 DEF Decided, Subjects
    <3>2. \/ r.op = "RetireProducer" /\ r.body.producer = job.event.producer
          \/ r.op = "Apply" /\ r.body.fact = job.event
      BY <2>3 DEF Decided, RetireRequest, ApplyRequest, RetirementFrom, WriteFrom
    <3> QED BY <3>1, <3>2 DEF RequestInv
  <2>4. CASE \E e \in Subjects : r = ContextRequest(e)
    BY <2>4 DEF ContextRequest
  <2> QED BY <1>2, <2>1, <2>2, <2>3, <2>4, RequestOrigins
<1> QED BY <1>1, <1>2 DEF RequestInv

LEMMA RequestStart == CoordInit => RequestInv
<1> SUFFICES ASSUME CoordInit PROVE RequestInv
  OBVIOUS
<1>1. Queued = {}
  BY DEF CoordInit, Queued
<1> QED BY <1>1 DEF CoordInit, RequestInv, Requests, Subjects

\* Steps that accept nothing.
LEMMA OrderKept ==
  ASSUME OrderInv, accepted' = accepted, issued' \in {issued, issued + 1},
         producers' = [p \in Producers |-> producers'[p]],
         \A p \in Producers :
           \/ producers'[p] = producers[p]
           \/ /\ producers[p] # NoValue
              /\ producers'[p] = [f \in RowFields |-> producers'[p][f]]
              /\ producers'[p].generation = producers[p].generation
              /\ producers'[p].next = producers[p].next
           \/ /\ producers'[p] = [f \in RowFields |-> producers'[p][f]]
              /\ issued' = issued + 1
              /\ producers'[p].generation = issued' /\ producers'[p].next \in FirstSequences
  PROVE  OrderInv'
<1>1. issued' \in Nat /\ issued <= issued' /\ 1..issued \subseteq 1..issued'
  BY DEF OrderInv
<1>2. AcceptedInOrder'
  BY DEF OrderInv, AcceptedInOrder
<1>3. \A e \in accepted' : e.generation \in 1..issued' /\ e.seq \in Seqs
  BY <1>1 DEF OrderInv
<1>4. ASSUME NEW p \in Producers, producers'[p] # NoValue
      PROVE  IsRow(producers'[p], issued') /\ FollowsLog(producers'[p], p, accepted')
  <2>1. CASE producers'[p] = producers[p]
    BY <1>1, <1>4, <2>1 DEF OrderInv, IsRow
  <2>2. CASE /\ producers[p] # NoValue
             /\ producers'[p] = [f \in RowFields |-> producers'[p][f]]
             /\ producers'[p].generation = producers[p].generation
             /\ producers'[p].next = producers[p].next
    BY <1>1, <2>2 DEF OrderInv, IsRow, FollowsLog
  <2>3. CASE /\ producers'[p] = [f \in RowFields |-> producers'[p][f]]
             /\ issued' = issued + 1
             /\ producers'[p].generation = issued' /\ producers'[p].next \in FirstSequences
    <3>1. producers'[p].next \in Seqs /\ producers'[p].next \in Nat
      BY <2>3, InputAssumption DEF Seqs
    <3>2. IsRow(producers'[p], issued')
      BY <3>1, <2>3, <1>1 DEF IsRow, OrderInv
    <3>3. \A e \in accepted : e.generation # producers'[p].generation
      BY <2>3 DEF OrderInv
    <3>4. Numbers(p, producers'[p].generation, accepted') = {}
      BY <3>3 DEF Numbers
    <3>5. producers'[p].next..(producers'[p].next - 1) = {}
      BY <3>1
    <3> QED BY <3>1, <3>2, <3>4, <3>5, <2>3 DEF FollowsLog
  <2> QED BY <2>1, <2>2, <2>3
<1> QED BY <1>1, <1>2, <1>3, <1>4 DEF OrderInv

LEMMA OrderRetire ==
  ASSUME OrderInv, NEW retired \in SUBSET ActiveProducers, Retire(retired), accepted' = accepted,
         issued' = issued
  PROVE  OrderInv'
<1>1. producers' = [p \in Producers |->
    IF p \in retired THEN [producers[p] EXCEPT !.active = FALSE, !.reconciled = FALSE]
    ELSE producers[p]]
  BY DEF Retire, Deactivate
<1>2. ASSUME NEW p \in Producers
      PROVE  \/ producers'[p] = producers[p]
             \/ /\ producers[p] # NoValue
                /\ producers'[p] = [f \in RowFields |-> producers'[p][f]]
                /\ producers'[p].generation = producers[p].generation
                /\ producers'[p].next = producers[p].next
  <2>1. CASE p \notin retired
    BY <1>1, <2>1
  <2>2. CASE p \in retired
    <3>1. producers[p] # NoValue
      BY <2>2 DEF ActiveProducers
    <3>2. producers[p] = [f \in RowFields |-> producers[p][f]]
      BY <3>1 DEF OrderInv, IsRow
    <3>3. producers'[p] = [producers[p] EXCEPT !.active = FALSE, !.reconciled = FALSE]
      BY <1>1, <2>2
    <3> QED BY <3>1, <3>2, <3>3 DEF RowFields
  <2> QED BY <2>1, <2>2
<1>3. producers' = [p \in Producers |-> producers'[p]]
  BY <1>1
<1> QED BY <1>2, <1>3, OrderKept

LEMMA NumbersWith ==
  ASSUME NEW events, NEW e, NEW p, NEW g
  PROVE  Numbers(p, g, events \cup {e})
           = Numbers(p, g, events)
               \cup (IF p = e.producer /\ g = e.generation THEN {e.seq} ELSE {})
BY DEF Numbers

LEMMA OrderAccept ==
  ASSUME OrderInv, NEW w, w.fact.producer \in Producers, w.fact.seq \in Seqs, Apply(w),
         accepted' = accepted \cup {w.fact}
  PROVE  OrderInv'
<1> DEFINE e == w.fact
           row == producers[e.producer]
<1>1. Seqs \subseteq Nat
  BY StoreAssumption DEF Seqs
<1>2. /\ row # NoValue /\ row.generation = e.generation /\ row.next = e.seq
      /\ IsRow(row, issued) /\ FollowsLog(row, e.producer, accepted)
  <2>1. ScopeOutcome(e) = "Ok"
    BY ApplyOk DEF Apply
  <2>2. row # NoValue /\ row.generation = e.generation
    BY <2>1 DEF ScopeOutcome
  <2>3. row.next # NoValue /\ ~(row.next < e.seq) /\ ~(row.next > e.seq)
    BY <2>1, <2>2 DEF ScopeOutcome
  <2>4. IsRow(row, issued) /\ FollowsLog(row, e.producer, accepted)
    BY <2>2 DEF OrderInv
  <2>5. row.next \in Seqs /\ e.seq \in Seqs
    BY <2>3, <2>4 DEF IsRow
  <2>6. row.next \in Nat /\ e.seq \in Nat
    BY <2>5, <1>1
  <2> HIDE DEF row, e
  <2> QED BY <2>2, <2>3, <2>4, <2>6
<1>3. /\ issued' = issued
      /\ producers' = [producers EXCEPT ![e.producer] =
                         [@ EXCEPT !.next       = CheckedNext(e.seq, MaxSeq),
                                   !.active     = ~w.effects.reconcile,
                                   !.reconciled = ~w.effects.reconcile]]
  BY DEF Apply, ApplyEffect
<1> DEFINE new == producers'[e.producer]
<1>4. /\ producers' = [p \in Producers |-> producers'[p]]
      /\ \A p \in Producers \ {e.producer} : producers'[p] = producers[p]
      /\ new = [row EXCEPT !.next       = CheckedNext(e.seq, MaxSeq),
                           !.active     = ~w.effects.reconcile,
                           !.reconciled = ~w.effects.reconcile]
  BY <1>3 DEF OrderInv
<1>5. /\ new = [f \in RowFields |-> new[f]]
      /\ new.generation = e.generation /\ new.next = CheckedNext(e.seq, MaxSeq)
  <2> HIDE DEF row, new, e
  <2> QED BY <1>2, <1>4 DEF IsRow, RowFields
<1>6. /\ new.next # NoValue => new.next = e.seq + 1 /\ e.seq # MaxSeq
      /\ new.next \in Seqs \cup {NoValue}
  BY <1>5, StoreAssumption DEF CheckedNext, Seqs
<1>7. PICK first \in FirstSequences :
        /\ first <= e.seq /\ first \in Nat
        /\ Numbers(e.producer, e.generation, accepted) = first..(e.seq - 1)
  BY <1>1, <1>2, NoValueAssumption, InputAssumption DEF FollowsLog
<1>8. /\ Numbers(e.producer, e.generation, accepted') = first..e.seq
      /\ \A p, g : (p # e.producer \/ g # e.generation) =>
           Numbers(p, g, accepted') = Numbers(p, g, accepted)
  <2>1. \A p, g : Numbers(p, g, accepted')
          = Numbers(p, g, accepted) \cup
              (IF p = e.producer /\ g = e.generation THEN {e.seq} ELSE {})
    BY NumbersWith
  <2>2. e.seq \in Nat
    BY <1>1
  <2> HIDE DEF e
  <2>3. (first..(e.seq - 1)) \cup {e.seq} = first..e.seq
    BY <2>2, <1>7
  <2>4. ASSUME NEW p, NEW g, p # e.producer \/ g # e.generation
        PROVE  Numbers(p, g, accepted') = Numbers(p, g, accepted)
    BY <2>1, <2>4
  <2> QED BY <2>1, <2>3, <2>4, <1>7
<1>9. IsRow(new, issued') /\ FollowsLog(new, e.producer, accepted')
  <2>1. IsRow(new, issued')
    BY <1>2, <1>3, <1>5, <1>6 DEF IsRow
  <2>2. e.seq \in Nat
    BY <1>1
  <2> HIDE DEF new, e
  <2>3. new.next # NoValue => first <= new.next /\ new.next - 1 = e.seq
    BY <2>2, <1>6, <1>7
  <2> QED BY <2>1, <2>3, <1>5, <1>8 DEF FollowsLog
<1>10. ASSUME NEW p \in Producers \ {e.producer}, producers'[p] # NoValue
       PROVE  IsRow(producers'[p], issued') /\ FollowsLog(producers'[p], p, accepted')
  <2>1. producers'[p] = producers[p] /\ IsRow(producers[p], issued)
        /\ FollowsLog(producers[p], p, accepted)
    BY <1>4, <1>10 DEF OrderInv
  <2> QED BY <2>1, <1>3, <1>8 DEF FollowsLog
<1>11. \A d \in accepted' : d.generation \in 1..issued' /\ d.seq \in Seqs
  BY <1>2, <1>3 DEF OrderInv, IsRow
<1>12. \A d \in accepted :
         (d.producer = e.producer /\ d.generation = e.generation) => d.seq # e.seq
  <2> SUFFICES ASSUME NEW d \in accepted, d.producer = e.producer, d.generation = e.generation
               PROVE  d.seq # e.seq
    OBVIOUS
  <2>1. d.seq \in first..(e.seq - 1)
    BY <1>7 DEF Numbers
  <2> HIDE DEF e
  <2> QED BY <2>1, <1>1, <1>7
<1>13. ASSUME NEW d \in accepted', NEW c \in accepted',
              c.producer = d.producer, c.generation = d.generation, c.seq = d.seq
       PROVE  c = d
  <2> HIDE DEF e
  <2>1. /\ d \in accepted \/ d = e
        /\ c \in accepted \/ c = e
    BY DEF e
  <2> QED BY <2>1, <1>12, <1>13 DEF OrderInv, AcceptedInOrder
<1>14. ASSUME NEW d \in accepted'
       PROVE  \E n \in FirstSequences, last \in Seqs :
                Numbers(d.producer, d.generation, accepted') = n..last
  <2>1. CASE d.producer = e.producer /\ d.generation = e.generation
    BY <1>7, <1>8, <2>1
  <2>2. CASE d.producer # e.producer \/ d.generation # e.generation
    <3>1. d \in accepted
      BY <2>2
    <3>2. \E n \in FirstSequences, last \in Seqs :
            Numbers(d.producer, d.generation, accepted) = n..last
      BY <3>1 DEF OrderInv, AcceptedInOrder
    <3> QED BY <2>2, <3>2, <1>8
  <2> QED BY <2>1, <2>2
<1>15. AcceptedInOrder'
  BY <1>13, <1>14 DEF AcceptedInOrder
<1> HIDE DEF new
<1> QED BY <1>3, <1>4, <1>9, <1>10, <1>11, <1>15 DEF OrderInv, new

LEMMA OrderStep ==
  ASSUME CallInv, RequestInv, OrderInv, [CoordNext]_vars
  PROVE  OrderInv'
<1>1. CASE UNCHANGED <<storeVars, accepted>>
  BY <1>1 DEF OrderInv, storeVars, AcceptedInOrder
<1>2. ASSUME NEW r \in Queued, r.op = "Apply", Apply(r.body),
             accepted' = accepted \cup {r.body.fact}
      PROVE  OrderInv'
  <2>1. r.body.fact.producer \in Producers /\ r.body.fact.seq \in Seqs
    BY <1>2 DEF RequestInv, Requests
  <2> QED BY <1>2, <2>1, OrderAccept
<1>3. ASSUME NEW r \in Queued, r.op = "Reconcile", Reconcile(r.body), accepted' = accepted
      PROVE  OrderInv'
  <2> DEFINE q == r.body
             fresh == [generation |-> issued + 1, run |-> q.run, next |-> q.next,
                       active |-> q.baseline # NoValue, reconciled |-> q.baseline # NoValue]
  <2>1. q.producer \in Producers /\ q.next \in FirstSequences
    BY <1>3 DEF RequestInv, Requests
  <2>2. issued' = issued + 1 /\ producers' = [producers EXCEPT ![q.producer] = fresh]
    BY <1>3 DEF Reconcile, ReconcileEffect
  <2>3. /\ fresh = [f \in RowFields |-> fresh[f]]
        /\ fresh.generation = issued + 1 /\ fresh.next = q.next
    BY <2>1 DEF RowFields
  <2>4. producers = [p \in Producers |-> producers[p]]
    BY DEF OrderInv
  <2> HIDE DEF fresh, q
  <2>5. /\ producers' = [p \in Producers |-> producers'[p]]
        /\ producers'[q.producer] = fresh
        /\ \A p \in Producers \ {q.producer} : producers'[p] = producers[p]
    BY <2>1, <2>2, <2>4
  <2>6. ASSUME NEW p \in Producers
        PROVE  \/ producers'[p] = producers[p]
               \/ /\ producers'[p] = [f \in RowFields |-> producers'[p][f]]
                  /\ issued' = issued + 1
                  /\ producers'[p].generation = issued' /\ producers'[p].next \in FirstSequences
    BY <2>1, <2>2, <2>3, <2>5
  <2> QED BY <1>3, <2>2, <2>5, <2>6, OrderKept
<1>4. ASSUME NEW r \in Queued, r.op = "RetireProducer", RetireProducer(r.body),
             accepted' = accepted
      PROVE  OrderInv'
  <2> DEFINE q == r.body
  <2>1. q.producer \in Producers
    BY <1>4 DEF RequestInv, Requests
  <2>2. producers[q.producer] # NoValue /\ producers[q.producer].active
    BY <1>4 DEF RetireProducer, RetireOutcome, FirstFailure
  <2>3. {q.producer} \in SUBSET ActiveProducers
    BY <2>1, <2>2 DEF ActiveProducers
  <2>4. Retire({q.producer}) /\ issued' = issued
    BY <1>4 DEF RetireProducer, RetireEffect
  <2> QED BY <1>4, <2>3, <2>4, OrderRetire
<1>5. ASSUME accepted' = accepted, OtherWrite
      PROVE  OrderInv'
  BY <1>5 DEF OtherWrite, OrderInv, AcceptedInOrder
<1>6. ASSUME accepted' = accepted, Reopen
      PROVE  OrderInv'
  BY <1>6, OrderRetire DEF Reopen
<1>7. ASSUME accepted' = accepted,
             Maintain(IF CleanupFacts THEN facts ELSE {}, tombstones, {})
      PROVE  OrderInv'
  <2>1. Retire(Unprotected(tombstones)) /\ issued' = issued
    BY <1>7 DEF Maintain
  <2>2. Unprotected(tombstones) \in SUBSET ActiveProducers
    BY DEF Unprotected
  <2> QED BY <1>7, <2>1, <2>2, OrderRetire
<1> QED BY StoreSteps, <1>1, <1>2, <1>3, <1>4, <1>5, <1>6, <1>7

LEMMA OrderStart == CoordInit => OrderInv
BY DEF CoordInit, Init, OrderInv, AcceptedInOrder

\* Whatever a retry, a resumption or a replay after a crash submits again, the
\* events accepted under one generation are numbered from the first number of
\* a registration without a gap and with one event per number
\* (queries::check_fact_scope in storage/, decision.rs in coordinator/).
THEOREM AcceptedIsInOrder == CoordSpec => []AcceptedInOrder
<1>1. CallInv /\ RequestInv /\ OrderInv /\ [CoordNext]_vars
        => CallInv' /\ RequestInv' /\ OrderInv'
  BY CallStep, RequestStep, OrderStep
<1>2. OrderInv => AcceptedInOrder
  BY DEF OrderInv
<1> QED
  BY <1>1, <1>2, CallInit, RequestStart, OrderStart, PTL DEF CoordSpec


-----------------------------------------------------------------------------
(* The registry keeps counts, and a job the terms it was started under     *)

EntryFields == {"generation", "run", "blocked", "queued"}

Counts(entries) ==
  /\ entries = [p \in Producers |-> entries[p]]
  /\ \A p \in Producers : entries[p] # NoValue =>
       entries[p] = [f \in EntryFields |-> entries[p][f]] /\ entries[p].queued \in Nat

LEMMA CountChanged ==
  ASSUME NEW entries, Counts(entries), NEW p, NEW entry,
         p \in Producers => entry = [f \in EntryFields |-> entry[f]] /\ entry.queued \in Nat
  PROVE  Counts([entries EXCEPT ![p] = entry])
BY DEF Counts

LEMMA CountsInvalidated ==
  ASSUME Counts(registry), NEW p, NEW g, Invalidate(p, g)
  PROVE  Counts(registry')
<1>1. CASE ~Names(p, g)
  BY <1>1 DEF Invalidate
<1>2. CASE Names(p, g)
  <2> DEFINE entry == [registry[p] EXCEPT !.blocked = TRUE, !.queued = 0]
  <2>1. registry' = [registry EXCEPT ![p] = entry]
    BY <1>2 DEF Invalidate
  <2>2. ASSUME p \in Producers
        PROVE  entry = [f \in EntryFields |-> entry[f]] /\ entry.queued \in Nat
    <3>1. registry[p] = [f \in EntryFields |-> registry[p][f]]
      BY <1>2, <2>2 DEF Names, Counts
    <3> QED BY <3>1 DEF EntryFields
  <2> HIDE DEF entry
  <2> QED BY <2>1, <2>2, CountChanged
<1> QED BY <1>1, <1>2

LEMMA CountsStep ==
  ASSUME Counts(registry), [CoordNext]_vars
  PROVE  Counts(registry')
<1>1. ASSUME NEW p \in Producers, registry[p] # NoValue
      PROVE  registry[p] = [f \in EntryFields |-> registry[p][f]] /\ registry[p].queued \in Nat
  BY <1>1 DEF Counts
<1>2. ASSUME NEW p \in Producers, Admit(p)
      PROVE  Counts(registry')
  <2> DEFINE n == registry[p].queued + 1
             entry == [registry[p] EXCEPT !.queued = n]
  <2>1. registry[p] # NoValue /\ registry' = [registry EXCEPT ![p].queued = n]
    BY <1>2 DEF Admit
  <2>2. n \in Nat
    <3>1. registry[p].queued \in Nat
      BY <1>1, <2>1
    <3>2. registry[p].queued > 0 \/ n = registry[p].queued + 1
      BY <2>1
    <3> QED BY <3>1, <3>2
  <2> HIDE DEF n
  <2>3. registry' = [registry EXCEPT ![p] = entry]
    BY <2>1
  <2>4. entry = [f \in EntryFields |-> entry[f]] /\ entry.queued \in Nat
    BY <1>1, <2>1, <2>2 DEF EntryFields
  <2> HIDE DEF entry
  <2> QED BY <2>3, <2>4, CountChanged
<1>3. ASSUME NEW p \in Producers, Pop(p)
      PROVE  Counts(registry')
  <2> DEFINE n == registry[p].queued - 1
             entry == [registry[p] EXCEPT !.queued = n]
  <2>1. registry[p] # NoValue /\ registry[p].queued > 0 /\ registry' = [registry EXCEPT ![p].queued = n]
    BY <1>3 DEF Pop
  <2>2. n \in Nat
    <3>1. registry[p].queued \in Nat
      BY <1>1, <2>1
    <3>2. registry[p].queued > 0 \/ n = registry[p].queued + 1
      BY <2>1
    <3> QED BY <3>1, <3>2
  <2> HIDE DEF n
  <2>3. registry' = [registry EXCEPT ![p] = entry]
    BY <2>1
  <2>4. entry = [f \in EntryFields |-> entry[f]] /\ entry.queued \in Nat
    BY <1>1, <2>1, <2>2 DEF EntryFields
  <2> HIDE DEF entry
  <2> QED BY <2>3, <2>4, CountChanged
<1>4. ASSUME NEW p \in Producers, Block(p)
      PROVE  Counts(registry')
  <2> DEFINE entry == [registry[p] EXCEPT !.blocked = TRUE]
  <2>1. registry[p] # NoValue /\ registry' = [registry EXCEPT ![p] = entry]
    BY <1>4 DEF Block
  <2>2. entry = [f \in EntryFields |-> entry[f]] /\ entry.queued \in Nat
    BY <1>1, <2>1 DEF EntryFields
  <2> HIDE DEF entry
  <2> QED BY <2>1, <2>2, CountChanged
<1>5. ASSUME NEW p, NEW r, NEW first, NEW previous, NEW baseline, NEW resolved, NEW continued,
             StartReconcile(p, r, first, previous, baseline, resolved, continued)
      PROVE  Counts(registry')
  BY <1>5, CountsInvalidated DEF StartReconcile
<1>6. CASE Freeze(job)
  BY <1>6, CountsInvalidated DEF Freeze
<1>7. CASE registry' = registry
  BY <1>7
<1>8. ASSUME NEW result, EndUncertain(result)
      PROVE  Counts(registry')
  BY <1>6, <1>7, <1>8 DEF EndUncertain
<1>9. CASE SubmitRefused \/ PollUnknown
  BY <1>8, <1>9 DEF SubmitRefused, PollUnknown
<1>10. CASE Receive /\ job.kind = "Commit"
  <2>1. ReceiveCommit(job.reply)
    BY <1>10 DEF Receive
  <2>2. DecideContext(job.reply.body) => registry' = registry \/ Freeze(job)
    BY Zenon DEF DecideContext
  <2> QED BY <2>1, <2>2, <1>6, <1>7, <1>8 DEF ReceiveCommit
<1>11. CASE Receive /\ job.kind # "Commit"
  <2> DEFINE q == job.request.body
             entry == Entry(job.reply.body, q.run)
  <2>1. registry' = registry \/ registry' = [registry EXCEPT ![q.producer] = entry]
    BY <1>11 DEF Receive, ReceiveReconcile
  <2>2. entry = [f \in EntryFields |-> entry[f]] /\ entry.queued \in Nat
    BY DEF Entry, EntryFields
  <2> HIDE DEF entry
  <2> QED BY <2>1, <2>2, <1>7, CountChanged
<1>12. CASE Retain
  BY <1>6, <1>12 DEF Retain
<1>13. CASE Crash
  <2>1. registry' = [p \in Producers |-> NoValue]
    BY <1>13 DEF Crash
  <2> QED BY <2>1 DEF Counts
<1>14. CASE \/ \E p \in Producers, r \in Runs, g \in 1..issued, envelope \in Envelopes :
                 Stage(p, r, g, envelope)
            \/ \E e \in spool, policy \in Policies, notify \in NotifyChoices :
                 StartCommit(e, policy, notify)
  BY <1>7, <1>14 DEF Stage, StartCommit, managerVars
<1>15. CASE ResumeCommit \/ Submit \/ TakeCommitted \/ Drop \/ Confirm
  BY <1>7, <1>15 DEF ResumeCommit, Submit, TakeCommitted, Drop, Confirm
<1>16. CASE Execute \/ OtherRequest \/ RequestShutdown \/ EndWorker \/ StartWorker
  BY <1>7, <1>16 DEF Execute, OtherRequest, RequestShutdown, EndWorker, StartWorker, managerVars
<1>17. CASE UNCHANGED vars
  BY <1>7, <1>17 DEF vars, managerVars
<1>18. CASE \E p \in Producers, r \in Runs, first \in FirstSequences,
               baseline \in Baselines \cup {NoValue} :
              \E resolved, continued \in {NoValue, projections[r].current} :
                \E previous \in Believed(p) :
                  StartReconcile(p, r, first, previous, baseline, resolved, continued)
  BY <1>5, <1>18
<1> QED
  BY <1>2, <1>3, <1>4, <1>9, <1>10, <1>11, <1>12, <1>13, <1>14, <1>15, <1>16, <1>17, <1>18
     DEF CoordNext

LEMMA BacklogCounts ==
  ASSUME Counts(registry), NEW p \in Producers, NEW g
  PROVE  Backlog(p, g) \in Nat
BY DEF Counts, Backlog, Names

LEMMA JobCases ==
  ASSUME CallInv, [CoordNext]_vars
  PROVE  /\ \/ job' = job \/ job' = NoJob \/ job'.kind = "Reconcile"
            \/ job # NoJob /\ job.kind = "Commit" /\ Continues(job', job)
            \/ \E e \in spool, policy \in Policies, notify \in NotifyChoices :
                 job' = CommitJob(e, policy, notify, "Context", ContextRequest(e), 0)
            \/ ResumeCommit
         /\ pending' = pending \/ pending' = NoValue \/ Retain
<1>1. CASE Submit \/ SubmitRefused \/ PollUnknown \/ Receive \/ Execute \/ EndWorker
  <2>1. pending' = pending
    BY <1>1 DEF Submit, SubmitRefused, PollUnknown, Receive, Execute, EndWorker
  <2>2. job = NoJob => job' = NoJob
    BY <1>1, StillFree DEF Submit, SubmitRefused, PollUnknown, Receive, Running
  <2> QED BY <1>1, <2>1, <2>2, JobMoves
<1>2. CASE \E p \in Producers : Admit(p) \/ Pop(p) \/ Block(p)
  BY <1>2 DEF Admit, Pop, Block
<1>3. CASE \E p \in Producers, r \in Runs, g \in 1..issued, envelope \in Envelopes :
             Stage(p, r, g, envelope)
  BY <1>3 DEF Stage, managerVars
<1>4. CASE \E e \in spool, policy \in Policies, notify \in NotifyChoices :
             StartCommit(e, policy, notify)
  BY <1>4 DEF StartCommit
<1>5. CASE \E p \in Producers, r \in Runs, first \in FirstSequences,
              baseline \in Baselines \cup {NoValue} :
              \E resolved, continued \in {NoValue, projections[r].current} :
                \E previous \in Believed(p) :
                  StartReconcile(p, r, first, previous, baseline, resolved, continued)
  BY <1>5 DEF StartReconcile
<1>6. CASE ResumeCommit
  BY <1>6 DEF ResumeCommit
<1>7. CASE TakeCommitted \/ Drop \/ Crash \/ Retain
  BY <1>7 DEF TakeCommitted, Drop, Crash, Retain
<1>8. CASE Confirm
  BY <1>8 DEF Confirm
<1>9. CASE OtherRequest \/ RequestShutdown \/ StartWorker
  BY <1>9 DEF OtherRequest, RequestShutdown, StartWorker, managerVars
<1>10. CASE UNCHANGED vars
  BY <1>10 DEF vars, managerVars
<1> QED
  BY <1>1, <1>2, <1>3, <1>4, <1>5, <1>6, <1>7, <1>8, <1>9, <1>10 DEF CoordNext

Terms(policy, notify, lost) ==
  policy \in Policies /\ notify \in NotifyChoices /\ lost \in Nat

TermsInv ==
  /\ Counts(registry)
  /\ job # NoJob /\ job.kind = "Commit" => Terms(job.policy, job.notify, job.discarded)
  /\ pending # NoValue => Terms(pending.policy, pending.notify, pending.discarded)

LEMMA FrozenTerms ==
  ASSUME CallInv, RequestInv, TermsInv, job # NoJob, job.kind = "Commit"
  PROVE  Terms(job.policy, job.notify, Frozen(job).discarded)
<1>1. job.event.producer \in Producers
  BY DEF RequestInv, Subjects
<1>2. IsCommitJob(job)
  BY JobKinds DEF CallInv
<1>3. Frozen(job).discarded = job.discarded + Backlog(job.event.producer, job.event.generation)
  BY <1>2 DEF Frozen, IsCommitJob, CommitFields
<1> QED BY <1>1, <1>3, BacklogCounts DEF TermsInv, Terms

LEMMA TermsStep ==
  ASSUME CallInv, RequestInv, TermsInv, [CoordNext]_vars
  PROVE  TermsInv'
<1>1. Counts(registry')
  BY CountsStep DEF TermsInv
<1>2. ASSUME job' # NoJob, job'.kind = "Commit"
      PROVE  Terms(job'.policy, job'.notify, job'.discarded)
  <2>1. CASE job' = job
    BY <1>2, <2>1 DEF TermsInv
  <2>2. CASE job # NoJob /\ job.kind = "Commit" /\ Continues(job', job)
    BY <2>2, FrozenTerms DEF TermsInv, Continues
  <2>3. CASE \E e \in spool, policy \in Policies, notify \in NotifyChoices :
               job' = CommitJob(e, policy, notify, "Context", ContextRequest(e), 0)
    BY <2>3 DEF CommitJob, Terms
  <2>4. CASE ResumeCommit
    BY <2>4 DEF ResumeCommit, CommitJob, TermsInv
  <2> QED BY <1>2, <2>1, <2>2, <2>3, <2>4, JobCases
<1>3. ASSUME pending' # NoValue
      PROVE  Terms(pending'.policy, pending'.notify, pending'.discarded)
  <2>1. CASE pending' = pending
    BY <1>3, <2>1 DEF TermsInv
  <2>2. CASE Retain
    <3>1. /\ job # NoJob /\ job.kind = "Commit"
          /\ pending'.policy = job.policy /\ pending'.notify = job.notify
          /\ pending'.discarded = Frozen(job).discarded
      BY <2>2 DEF Retain
    <3> QED BY <3>1, FrozenTerms
  <2> QED BY <1>3, <2>1, <2>2, JobCases
<1> QED BY <1>1, <1>2, <1>3 DEF TermsInv


-----------------------------------------------------------------------------
(* Every commit is one that a serial client could have made                *)

\* What the context of a reply says, and for which event.
Contexts ==
  IF /\ job # NoJob /\ job.kind = "Commit"
     /\ job.reply # NoValue /\ job.reply.kind = "Context"
  THEN {[event |-> job.event, ctx |-> job.reply.body]} ELSE {}

\* A context read at the present revision is the present state.
ContextCurrent(c) ==
  /\ c.ctx.revision \in Nat /\ c.ctx.revision <= revision
  /\ c.ctx.revision = revision => c.ctx.view = ViewOf(c.event)

ClientEvent(e) ==
  \E p \in Producers, r \in Runs, g \in Nat, s \in Seqs, id \in EventIds, payload \in Payloads :
    e = EventOf(p, g, r, s, id, payload)

\* A write under the present revision is one computed from the present state.
WriteCurrent(w) ==
  /\ w.expected \in Nat /\ w.expected <= revision
  /\ ClientEvent(w.fact)
  /\ w.expected = revision =>
       \E policy \in Policies, notify \in NotifyChoices, lost \in Nat :
         /\ w = WriteOf(w.fact, policy, notify, lost)
         /\ Validate(ViewOf(w.fact), w.fact, policy) = "Ok"

ReconciliationCurrent(q) ==
  /\ q.expected \in Nat /\ q.expected <= revision
  /\ q.expected = revision =>
       \E p \in Producers, run \in Runs, first \in FirstSequences,
          baseline \in Baselines \cup {NoValue}, lost \in Nat :
         \E previous : \E resolved, continued \in {NoValue, projections[run].current} :
           q = [ReconciliationOf(p, run, first, baseline, lost, resolved, continued)
                  EXCEPT !.previous = previous]

RetirementTyped(q) ==
  \E expected, generation : \E p \in Producers, lost \in Nat :
    q = [expected |-> expected, producer |-> p, generation |-> generation, discarded |-> lost]

RequestCurrent(r) ==
  /\ r.op = "Apply" => WriteCurrent(r.body)
  /\ r.op = "Reconcile" => ReconciliationCurrent(r.body)
  /\ r.op = "RetireProducer" => RetirementTyped(r.body)

SerialInv ==
  /\ revision \in Nat
  /\ \A e \in Subjects : ClientEvent(e)
  /\ \A c \in Contexts : ContextCurrent(c)
  /\ \A r \in Requests : RequestCurrent(r)
  /\ \A r \in Queued : r.op = "Apply" => AdmissibleEffects(r.body.fact, r.body.effects)

LEMMA RevisionMoves ==
  ASSUME CallInv, [CoordNext]_vars, revision \in Nat
  PROVE  UNCHANGED storeVars \/ revision' = revision + 1
<1>1. CASE UNCHANGED <<storeVars, accepted>>
  BY <1>1
<1>2. CASE \E r \in Queued : Apply(r.body)
  BY <1>2 DEF Apply, ApplyEffect, Advance
<1>3. CASE \E r \in Queued : Reconcile(r.body)
  BY <1>3 DEF Reconcile, ReconcileEffect, Advance
<1>4. CASE \E r \in Queued : RetireProducer(r.body)
  BY <1>4 DEF RetireProducer, RetireEffect, Advance
<1>5. CASE \/ OtherWrite \/ Reopen
           \/ Maintain(IF CleanupFacts THEN facts ELSE {}, tombstones, {})
  BY <1>5 DEF OtherWrite, Reopen, Maintain, Advance
<1> QED BY <1>1, <1>2, <1>3, <1>4, <1>5, StoreSteps

\* What was current stays current, or becomes stale for good.
LEMMA CurrentKept ==
  ASSUME CallInv, [CoordNext]_vars, revision \in Nat
  PROVE  /\ \A r : RequestCurrent(r) => RequestCurrent(r)'
         /\ \A c : ContextCurrent(c) => ContextCurrent(c)'
<1>1. CASE UNCHANGED storeVars
  <2>1. \A e : ViewOf(e)' = ViewOf(e)
    BY <1>1 DEF ViewOf, TombstoneOf, TombstonesOf, storeVars
  <2>2. \A e, policy, notify, lost :
          WriteOf(e, policy, notify, lost)' = WriteOf(e, policy, notify, lost)
    BY <1>1, <2>1 DEF WriteOf, storeVars
  <2>3. \A p, run, first, baseline, lost, resolved, continued :
          ReconciliationOf(p, run, first, baseline, lost, resolved, continued)'
            = ReconciliationOf(p, run, first, baseline, lost, resolved, continued)
    BY <1>1 DEF ReconciliationOf, GenerationOf, storeVars
  <2>4. revision' = revision /\ projections' = projections
    BY <1>1 DEF storeVars
  <2>5. \A c : ContextCurrent(c) => ContextCurrent(c)'
    BY <2>1, <2>4 DEF ContextCurrent
  <2>6. \A w : WriteCurrent(w) => WriteCurrent(w)'
    BY <2>1, <2>2, <2>4 DEF WriteCurrent
  <2>7. \A q : ReconciliationCurrent(q) => ReconciliationCurrent(q)'
    BY <2>3, <2>4 DEF ReconciliationCurrent
  <2> QED BY <2>5, <2>6, <2>7 DEF RequestCurrent
<1>2. CASE revision' = revision + 1
  <2>1. \A n \in Nat : n <= revision => n <= revision' /\ n # revision'
    BY <1>2
  <2>2. \A c : ContextCurrent(c) => ContextCurrent(c)'
    BY <2>1 DEF ContextCurrent
  <2>3. \A w : WriteCurrent(w) => WriteCurrent(w)'
    BY <2>1 DEF WriteCurrent
  <2>4. \A q : ReconciliationCurrent(q) => ReconciliationCurrent(q)'
    BY <2>1 DEF ReconciliationCurrent
  <2> QED BY <2>2, <2>3, <2>4 DEF RequestCurrent
<1> QED BY <1>1, <1>2, RevisionMoves

LEMMA BegunCurrent ==
  ASSUME SerialInv, TermsInv, NEW r, Begun(r)
  PROVE  RequestCurrent(r)
<1>1. PICK p \in Producers, run \in Runs, first \in FirstSequences,
           baseline \in Baselines \cup {NoValue} :
        \E previous \in Believed(p) :
          \E resolved, continued \in {NoValue, projections[run].current} :
            /\ r = ReconcileRequest(
                     [ReconciliationOf(p, run, first, baseline, Backlog(p, previous), resolved, continued)
                        EXCEPT !.previous = previous])
            /\ Invalidate(p, previous) /\ job'.reply = NoValue
  BY Zenon DEF Begun
<1>2. PICK previous : \E resolved, continued \in {NoValue, projections[run].current} :
          r = ReconcileRequest(
                [ReconciliationOf(p, run, first, baseline, Backlog(p, previous), resolved, continued)
                   EXCEPT !.previous = previous])
  BY <1>1
<1> DEFINE lost == Backlog(p, previous)
<1>3. lost \in Nat
  BY BacklogCounts DEF TermsInv
<1> HIDE DEF lost
<1>4. PICK resolved \in {NoValue, projections[run].current},
           continued \in {NoValue, projections[run].current} :
        r = ReconcileRequest([ReconciliationOf(p, run, first, baseline, lost, resolved, continued)
                                EXCEPT !.previous = previous])
  BY <1>2 DEF lost
<1> DEFINE q == [ReconciliationOf(p, run, first, baseline, lost, resolved, continued)
                   EXCEPT !.previous = previous]
<1>5. q.expected = revision
  BY DEF ReconciliationOf
<1>6. \E pp \in Producers, rr \in Runs, ff \in FirstSequences, bb \in Baselines \cup {NoValue},
            ll \in Nat :
         \E vv : \E ss, cc \in {NoValue, projections[rr].current} :
           q = [ReconciliationOf(pp, rr, ff, bb, ll, ss, cc) EXCEPT !.previous = vv]
  BY <1>3, Zenon
<1>7. r.op = "Reconcile" /\ r.body = q
  BY <1>4 DEF ReconcileRequest
<1> HIDE DEF q
<1>8. ReconciliationCurrent(q)
  <2>1. q.expected \in Nat /\ q.expected <= revision
    BY <1>5 DEF SerialInv
  <2> QED BY <2>1, <1>6, Zenon DEF ReconciliationCurrent
<1> QED BY <1>7, <1>8 DEF RequestCurrent

LEMMA DecidedCurrent ==
  ASSUME CallInv, RequestInv, SerialInv, TermsInv, NEW r, Decided(r)
  PROVE  RequestCurrent(r)
<1> DEFINE ctx == job.reply.body
           e == job.event
           c == [event |-> e, ctx |-> ctx]
<1>1. /\ job # NoJob /\ job.kind = "Commit" /\ c \in Contexts /\ e \in Subjects
  BY DEF Decided, Contexts, Subjects
<1>2. /\ ctx.revision \in Nat /\ ctx.revision <= revision
      /\ ctx.revision = revision => ctx.view = ViewOf(e)
      /\ ClientEvent(e) /\ e.producer \in Producers
  <2>1. ContextCurrent(c)
    BY <1>1 DEF SerialInv
  <2>2. c.event = e /\ c.ctx = ctx
    OBVIOUS
  <2> HIDE DEF c, ctx, e
  <2> QED BY <1>1, <2>1, <2>2 DEF SerialInv, ContextCurrent, RequestInv
<1>3. job.policy \in Policies /\ job.notify \in NotifyChoices
  BY <1>1 DEF TermsInv, Terms
<1>4. PICK lost \in {job.discarded, Frozen(job).discarded} :
         \/ r = RetireRequest(RetirementFrom(job, ctx, lost))
         \/ /\ Disposition(ctx, e, job.policy) = "Apply"
            /\ r = ApplyRequest(WriteFrom(job, ctx, lost))
  BY DEF Decided
<1>5. lost \in Nat
  BY <1>1, FrozenTerms DEF TermsInv, Terms
<1>6. CASE r = RetireRequest(RetirementFrom(job, ctx, lost))
  <2>1. RetirementTyped(RetirementFrom(job, ctx, lost))
    BY <1>2, <1>5 DEF RetirementTyped, RetirementFrom
  <2> QED BY <1>6, <2>1 DEF RequestCurrent, RetireRequest
<1>7. CASE /\ Disposition(ctx, e, job.policy) = "Apply"
           /\ r = ApplyRequest(WriteFrom(job, ctx, lost))
  <2> DEFINE w == WriteFrom(job, ctx, lost)
  <2>1. w.expected = ctx.revision /\ w.fact = e
    BY DEF WriteFrom
  <2>2. Validate(ctx.view, e, job.policy) = "Ok"
    BY <1>7 DEF Disposition
  <2>3. ASSUME ctx.revision = revision
        PROVE  w = WriteOf(e, job.policy, job.notify, lost) /\ Validate(ViewOf(e), e, job.policy) = "Ok"
    BY <1>2, <2>2, <2>3 DEF WriteOf, WriteFrom
  <2> HIDE DEF w, e, ctx
  <2>4. WriteCurrent(w)
    BY <1>2, <1>3, <1>5, <2>1, <2>3 DEF WriteCurrent
  <2> QED BY <1>7, <2>4 DEF RequestCurrent, ApplyRequest, w
<1> QED BY <1>4, <1>6, <1>7


LEMMA QueuedOrigins ==
  ASSUME CallInv, [CoordNext]_vars, NEW r, r \in Queued'
  PROVE  r \in Queued \/ (Admissible(job.request) /\ r = job.request)
<1>1. CASE Submit
  <2>1. queue' = Append(queue, [request |-> job.request, awaited |-> TRUE])
    BY <1>1 DEF Submit
  <2>2. /\ Len(queue') = Len(queue) + 1 /\ Len(queue) \in Nat
        /\ queue'[Len(queue) + 1] = [request |-> job.request, awaited |-> TRUE]
        /\ \A i \in 1..Len(queue) : queue'[i] = queue[i]
    BY <2>1, QueueFacts DEF CallInv
  <2>3. ASSUME NEW i \in 1..Len(queue')
        PROVE  queue'[i].request \in Queued \/ queue'[i].request = job.request
    <3>1. CASE i \in 1..Len(queue)
      BY <3>1, <2>2 DEF Queued
    <3>2. CASE i = Len(queue) + 1
      BY <3>2, <2>2
    <3> QED BY <3>1, <3>2, <2>2
  <2> QED BY <1>1, <2>3 DEF Queued, Submit
<1>2. CASE queue' = queue \/ queue' = <<>> \/ queue' = Unawaited
  BY <1>2, QueuedShrinks
<1>3. CASE Execute
  <2>1. queue # <<>> /\ \E reply : Answer(reply)
    BY <1>3, Zenon DEF Execute, ExecuteContext, ExecuteApply, ExecuteRetire, ExecuteReconcile
  <2> QED BY <2>1, QueuedShrinks DEF Answer
<1>4. CASE \/ \E p \in Producers : Admit(p) \/ Pop(p) \/ Block(p)
           \/ \E p \in Producers, run \in Runs, g \in 1..issued, envelope \in Envelopes :
                Stage(p, run, g, envelope)
           \/ \E e \in spool, policy \in Policies, notify \in NotifyChoices :
                StartCommit(e, policy, notify)
  BY <1>2, <1>4 DEF Admit, Pop, Block, Stage, StartCommit
<1>5. CASE \E p \in Producers, run \in Runs, first \in FirstSequences,
              baseline \in Baselines \cup {NoValue} :
              \E resolved, continued \in {NoValue, projections[run].current} :
                \E previous \in Believed(p) :
                  StartReconcile(p, run, first, previous, baseline, resolved, continued)
  BY <1>2, <1>5 DEF StartReconcile
<1>6. CASE ResumeCommit \/ SubmitRefused \/ PollUnknown \/ Receive \/ TakeCommitted \/ Retain
           \/ Drop \/ Confirm
  BY <1>2, <1>6 DEF ResumeCommit, SubmitRefused, PollUnknown, Receive, TakeCommitted, Retain,
     Drop, Confirm
<1>7. CASE OtherRequest \/ RequestShutdown \/ EndWorker \/ StartWorker \/ Crash
  BY <1>2, <1>7 DEF OtherRequest, RequestShutdown, EndWorker, StartWorker, Crash
<1>8. CASE UNCHANGED vars
  BY <1>2, <1>8 DEF vars
<1> QED BY <1>1, <1>3, <1>4, <1>5, <1>6, <1>7, <1>8 DEF CoordNext

\* The reply a job holds stays, goes, or arrives.
LEMMA ReplyMoves ==
  ASSUME CallInv, [CoordNext]_vars
  PROVE  \/ job' = NoJob \/ job'.reply = NoValue
         \/ /\ job # NoJob /\ job'.reply = job.reply
            /\ \/ job'.kind = "Reconcile"
               \/ job'.kind = job.kind /\ (job.kind = "Commit" => job'.event = job.event)
         \/ Execute
<1>1. ASSUME job # NoJob, job'.reply = job.reply,
             Submit \/ EndWorker
      PROVE  \/ job'.kind = "Reconcile"
             \/ job'.kind = job.kind /\ (job.kind = "Commit" => job'.event = job.event)
  BY <1>1, JobMoves DEF Continues, IsCommitJob
<1>2. CASE Submit
  <2>1. job # NoJob /\ JobCalls(job, accepted) /\ job' = [job EXCEPT !.ticket = "Held"]
    BY <1>2 DEF Submit, Running, CallInv
  <2>2. job'.reply = job.reply
    BY <2>1, TicketedJob
  <2> QED BY <1>1, <1>2, <2>1, <2>2
<1>3. CASE EndWorker
  <2>1. job' = job \/ (job # NoJob /\ job' = [job EXCEPT !.ticket = "Lost"])
    BY <1>3 DEF EndWorker, Orphaned, Running
  <2>2. job # NoJob => job'.reply = job.reply
    BY <2>1, TicketedJob DEF CallInv
  <2> QED BY <1>1, <1>3, <2>1, <2>2
<1>4. ASSUME NEW result, job # NoJob,
             job' = [job EXCEPT !.result = result, !.reply = NoValue]
      PROVE  job'.reply = NoValue
  <2>1. IsCommitJob(job) \/ IsReconcileJob(job)
    BY <1>4 DEF CallInv, JobCalls
  <2> QED BY <1>4, <2>1 DEF IsCommitJob, IsReconcileJob, CommitFields, ReconcileFields
<1>5. ASSUME NEW result, job # NoJob, EndUncertain(result)
      PROVE  job'.reply = NoValue
  <2>1. CASE job.kind = "Commit"
    <3>1. IsCommitJob(Frozen(job))
      BY <1>5, <2>1, JobKinds, FrozenJob DEF CallInv
    <3>2. job' = [Frozen(job) EXCEPT !.result = result, !.reply = NoValue]
      BY <1>5, <2>1 DEF EndUncertain
    <3> QED BY <3>1, <3>2 DEF IsCommitJob, CommitFields
  <2>2. CASE job.kind # "Commit"
    BY <1>4, <1>5, <2>2 DEF EndUncertain, End
  <2> QED BY <2>1, <2>2
<1>6. CASE SubmitRefused \/ PollUnknown
  BY <1>5, <1>6 DEF SubmitRefused, PollUnknown, Running
<1>7. CASE Receive /\ job.kind # "Commit"
  <2>1. job # NoJob /\ \E result : End(result)
    BY <1>7, Zenon DEF Receive, ReceiveReconcile, Running
  <2> QED BY <1>4, <2>1 DEF End
<1>8. CASE Receive /\ job.kind = "Commit"
  <2>1. job # NoJob /\ ReceiveCommit(job.reply) /\ IsCommitJob(job) /\ IsCommitJob(Frozen(job))
    BY <1>8, JobKinds, FrozenJob DEF Receive, Running, CallInv
  <2>2. ASSUME NEW from, from = job \/ from = Frozen(job), NEW a, NEW b,
               \/ job' = NextRequest(from, a, b)
               \/ job' = [NextRequest(from, a, b) EXCEPT !.retries = @ + 1]
        PROVE  job'.reply = NoValue
    BY <2>1, <2>2, NextJob
  <2>3. CASE DecideContext(job.reply.body)
    <3>1. \/ \E a : End(a)
          \/ \E from : /\ from = job \/ from = Frozen(job)
                       /\ \E a, b : job' = NextRequest(from, a, b)
      BY <2>3, Zenon DEF DecideContext
    <3> QED BY <3>1, <2>1, <2>2, <1>4 DEF End
  <2> QED BY <2>1, <2>2, <2>3, <1>4, <1>5 DEF ReceiveCommit, End
<1>9. CASE job' = job
  BY <1>9
<1>10. CASE ResumeCommit \/ \E e \in spool, policy \in Policies, notify \in NotifyChoices :
                              StartCommit(e, policy, notify)
  BY <1>10 DEF ResumeCommit, StartCommit, CommitJob
<1>11. CASE \E p \in Producers, run \in Runs, first \in FirstSequences,
               baseline \in Baselines \cup {NoValue} :
              \E resolved, continued \in {NoValue, projections[run].current} :
                \E previous \in Believed(p) :
                  StartReconcile(p, run, first, previous, baseline, resolved, continued)
  BY <1>11 DEF StartReconcile
<1>12. CASE \/ \E p \in Producers : Admit(p) \/ Pop(p) \/ Block(p)
            \/ \E p \in Producers, run \in Runs, g \in 1..issued, envelope \in Envelopes :
                 Stage(p, run, g, envelope)
  BY <1>9, <1>12 DEF Admit, Pop, Block, Stage, managerVars
<1>13. CASE TakeCommitted \/ Retain \/ Drop \/ Crash
  BY <1>13 DEF TakeCommitted, Retain, Drop, Crash
<1>14. CASE Confirm \/ OtherRequest \/ RequestShutdown \/ StartWorker \/ UNCHANGED vars
  BY <1>9, <1>14 DEF Confirm, OtherRequest, RequestShutdown, StartWorker, managerVars, vars
<1>15. CASE Execute
  BY <1>15
<1> QED BY <1>2, <1>3, <1>6, <1>7, <1>8, <1>10, <1>11, <1>12, <1>13, <1>14, <1>15 DEF CoordNext


LEMMA ContextOrigins ==
  ASSUME CallInv, [CoordNext]_vars, revision \in Nat, NEW c, c \in Contexts'
  PROVE  c \in Contexts \/ (ContextCurrent(c) /\ UNCHANGED storeVars)
<1>1. /\ job' # NoJob /\ job'.kind = "Commit" /\ job'.reply # NoValue
      /\ job'.reply.kind = "Context" /\ c = [event |-> job'.event, ctx |-> job'.reply.body]
  BY DEF Contexts
<1>2. ASSUME job # NoJob, job'.reply = job.reply, job'.kind = job.kind,
             job.kind = "Commit" => job'.event = job.event
      PROVE  c \in Contexts
  BY <1>1, <1>2 DEF Contexts
<1>3. CASE Execute
  <2>1. queue # <<>> /\ job # NoJob
    BY <1>1, <1>3, StillFree DEF Execute
  <2>2. job.kind = "Commit" /\ job'.event = job.event /\ IsCommitJob(job)
    BY <1>1, <1>3, <2>1, JobMoves, JobKinds DEF Continues, CallInv
  <2>3. ASSUME NEW reply, Answer(reply), reply.kind # "Context"
        PROVE  c \in Contexts
    <3>1. \/ job' = [job EXCEPT !.reply = reply] \/ job' = job
          \/ job' = [job EXCEPT !.ticket = "Lost"]
      BY <2>3 DEF Answer, Orphaned
    <3>2. CASE job' = [job EXCEPT !.reply = reply]
      <4>1. job'.reply = reply
        BY <3>2, <2>2 DEF IsCommitJob, CommitFields
      <4> QED BY <4>1, <1>1, <2>3
    <3>3. CASE job' = job
      BY <3>3, <2>1, <1>2
    <3>4. CASE job' = [job EXCEPT !.ticket = "Lost"]
      <4>1. job'.reply = job.reply
        BY <3>4, <2>1, TicketedJob DEF CallInv
      <4> QED BY <4>1, <1>1, <2>1, <2>2, <1>2
    <3> QED BY <3>1, <3>2, <3>3, <3>4
  <2> DEFINE request == Head(queue).request
             e == request.body
             ctx == [revision |-> revision, producer |-> producers[e.producer],
                     receipt |-> Receipt(e), view |-> ViewOf(e)]
             answer == [kind |-> "Context", body |-> ctx]
  <2>4. CASE request.op = "Context" /\ ExecuteContext(e)
    <3>1. Answer(answer) /\ UNCHANGED storeVars
      BY <2>4, Zenon DEF ExecuteContext
    <3>2. CASE Head(queue).awaited
      <4>1. CarriesOut(request, job.event)
        BY <3>2, <2>1, <2>2, HeadRequest
      <4>2. e = job.event
        BY <4>1, <2>4 DEF CarriesOut
      <4>3. job' = [job EXCEPT !.reply = answer]
        BY <3>1, <3>2 DEF Answer
      <4>4. job'.reply = answer
        <5> HIDE DEF answer
        <5> QED BY <4>3, <2>2 DEF IsCommitJob, CommitFields
      <4>5. c.event = e /\ c.ctx = ctx
        <5> HIDE DEF ctx, e
        <5> QED BY <4>4, <4>2, <1>1, <2>2
      <4>6. c.ctx.revision = revision /\ c.ctx.view = ViewOf(c.event)
        BY <4>5
      <4> QED BY <4>6, <3>1 DEF ContextCurrent
    <3>3. CASE ~Head(queue).awaited
      <4>1. job' = job \/ job' = [job EXCEPT !.ticket = "Lost"]
        BY <3>1, <3>3 DEF Answer, Orphaned
      <4>2. job'.reply = job.reply
        BY <4>1, <2>1, TicketedJob DEF CallInv
      <4> QED BY <4>2, <1>1, <2>1, <2>2, <1>2
    <3> QED BY <3>2, <3>3
  <2>5. CASE request.op # "Context"
    <3>1. \E reply : Answer(reply) /\ reply.kind # "Context"
      <4>1. \/ ExecuteApply(request.body)
            \/ ExecuteRetire(request.body)
            \/ ExecuteReconcile(request.body)
        BY <1>3, <2>5, Zenon DEF Execute
      <4>2. \/ \E body : Answer([kind |-> "Committed", body |-> body])
            \/ \E body : Answer([kind |-> "Retired", body |-> body])
            \/ \E body : Answer([kind |-> "Registered", body |-> body])
            \/ \E body : Answer([kind |-> "Error", body |-> body])
        <5>1. CASE ExecuteApply(request.body)
          BY <5>1, Zenon DEF ExecuteApply
        <5>2. CASE ExecuteRetire(request.body)
          BY <5>2, Zenon DEF ExecuteRetire
        <5>3. CASE ExecuteReconcile(request.body)
          BY <5>3, Zenon DEF ExecuteReconcile
        <5> QED BY <4>1, <5>1, <5>2, <5>3
      <4>3. ASSUME NEW k, NEW body, Answer([kind |-> k, body |-> body]),
                   k # "Context"
            PROVE  \E reply : Answer(reply) /\ reply.kind # "Context"
        <5>1. [kind |-> k, body |-> body].kind # "Context"
          BY <4>3
        <5> QED BY <5>1, <4>3, Zenon
      <4>4. /\ "Committed" # "Context" /\ "Retired" # "Context"
            /\ "Registered" # "Context" /\ "Error" # "Context"
        OBVIOUS
      <4> QED BY <4>2, <4>3, <4>4, Zenon
    <3> QED BY <3>1, <2>3
  <2> QED BY <1>3, <2>4, <2>5 DEF Execute
<1> QED BY <1>1, <1>2, <1>3, ReplyMoves

LEMMA SerialStep ==
  ASSUME CallInv, RequestInv, TermsInv, SerialInv, [CoordNext]_vars,
         issued \in Nat
  PROVE  SerialInv'
<1>1. revision \in Nat /\ revision' \in Nat
  BY RevisionMoves DEF SerialInv, storeVars
<1>2. /\ \A r : RequestCurrent(r) => RequestCurrent(r)'
      /\ \A c : ContextCurrent(c) => ContextCurrent(c)'
  BY <1>1, CurrentKept
<1>3. ASSUME NEW e, e \in Subjects'
      PROVE  ClientEvent(e)
  <2>1. CASE e \in Subjects
    BY <2>1 DEF SerialInv
  <2>2. CASE Staged(e)
    <3>1. PICK p \in Producers, r \in Runs, g \in 1..issued, envelope \in Envelopes :
            e = EventOf(p, g, r, envelope.seq, envelope.id, envelope.payload)
      BY <2>2 DEF Staged
    <3>2. g \in Nat /\ envelope.seq \in Seqs /\ envelope.id \in EventIds
          /\ envelope.payload \in Payloads
      BY CoordinatorAssumption
    <3> QED BY <3>1, <3>2 DEF ClientEvent
  <2> QED BY <1>3, <2>1, <2>2, SubjectOrigins
<1>4. ASSUME NEW c, c \in Contexts'
      PROVE  ContextCurrent(c)'
  BY <1>1, <1>2, <1>4, ContextOrigins DEF SerialInv
<1>5. ASSUME NEW r, r \in Requests'
      PROVE  RequestCurrent(r)'
  <2>1. CASE r \in Requests
    BY <2>1, <1>2 DEF SerialInv
  <2>2. CASE Begun(r)
    BY <2>2, <1>2, BegunCurrent
  <2>3. CASE Decided(r)
    BY <2>3, <1>2, DecidedCurrent
  <2>4. CASE \E e \in Subjects : r = ContextRequest(e)
    <3>1. RequestCurrent(r)
      BY <2>4 DEF RequestCurrent, ContextRequest
    <3> QED BY <3>1, <1>2
  <2> QED BY <1>5, <2>1, <2>2, <2>3, <2>4, RequestOrigins
<1>6. ASSUME NEW r, r \in Queued', r.op = "Apply"
      PROVE  AdmissibleEffects(r.body.fact, r.body.effects)
  BY <1>6, QueuedOrigins DEF SerialInv, Admissible
<1> QED BY <1>1, <1>3, <1>4, <1>5, <1>6 DEF SerialInv

LEMMA SerialStart == CoordInit => SerialInv /\ TermsInv
<1> SUFFICES ASSUME CoordInit PROVE SerialInv /\ TermsInv
  OBVIOUS
<1>1. Queued = {}
  BY DEF CoordInit, Queued
<1>2. SerialInv
  BY <1>1 DEF CoordInit, Init, SerialInv, Requests, Subjects, Contexts
<1>3. Counts(registry)
  BY DEF CoordInit, Counts
<1> QED BY <1>2, <1>3 DEF CoordInit, TermsInv

\* What a serial client could have sent.
LEMMA SerialApply ==
  ASSUME SerialInv, OrderInv, LostCounts = Nat, ReuseEventIds,
         NEW r \in Queued, r.op = "Apply", Apply(r.body)
  PROVE  Next
<1> DEFINE w == r.body
           e == w.fact
<1>1. RequestCurrent(r) /\ AdmissibleEffects(w.fact, w.effects)
  BY DEF SerialInv, Requests
<1>2. ApplyOutcome(w) = "Ok"
  BY DEF Apply
<1>3. /\ RevisionOutcome(w.expected) = "Ok" /\ ScopeOutcome(e) = "Ok"
  BY <1>2, ApplyOk
<1>4. w.expected = revision
  BY <1>3 DEF RevisionOutcome
<1>5. WriteCurrent(w)
  BY <1>1 DEF RequestCurrent
<1>6. PICK policy \in Policies, notify \in NotifyChoices, lost \in Nat :
        w = WriteOf(e, policy, notify, lost) /\ Validate(ViewOf(e), e, policy) = "Ok"
  BY <1>4, <1>5 DEF WriteCurrent
<1>7. PICK p \in Producers, run \in Runs, g \in Nat, s \in Seqs, id \in EventIds,
           payload \in Payloads : e = EventOf(p, g, run, s, id, payload)
  BY <1>5 DEF WriteCurrent, ClientEvent
<1>8. e.producer = p /\ e.generation = g
  BY <1>7 DEF EventOf
<1>9. /\ producers[p] # NoValue /\ producers[p].active /\ producers[p].generation = g
  BY <1>3, <1>8 DEF ScopeOutcome
<1>10. p \in ActiveProducers
  BY <1>9 DEF ActiveProducers
<1>11. w.effects = Reduce(ViewOf(e), e, policy)
  BY <1>6 DEF WriteOf
<1>12. Observe(e, policy, notify, lost)
  <2> HIDE DEF w, e
  <2>1. Apply(w)
    BY DEF w
  <2>2. AdmissibleEffects(e, Reduce(ViewOf(e), e, policy))
    BY <1>1, <1>11 DEF e
  <2> QED BY <2>1, <2>2, <1>6 DEF Observe
<1>13. Observe(EventOf(p, producers[p].generation, run, s, id, payload), policy, notify, lost)
  <2> HIDE DEF e
  <2> QED BY <1>7, <1>9, <1>12
<1>14. lost \in LostCounts
  OBVIOUS
<1> QED BY <1>10, <1>13, <1>14, Zenon DEF Next

LEMMA SerialReconcile ==
  ASSUME SerialInv, LostCounts = Nat, NEW r \in Queued, r.op = "Reconcile", Reconcile(r.body)
  PROVE  Next
<1> DEFINE q == r.body
<1>1. ReconciliationCurrent(q)
  BY DEF SerialInv, Requests, RequestCurrent
<1>2. ReconcileOutcome(q) = "Ok"
  BY DEF Reconcile
<1>3. RevisionOutcome(q.expected) = "Ok" /\ RegistrationOutcome(q) = "Ok"
  BY <1>2 DEF ReconcileOutcome, FirstFailure
<1>4. q.expected = revision
  BY <1>3 DEF RevisionOutcome
<1>5. PICK p \in Producers, run \in Runs, first \in FirstSequences,
           baseline \in Baselines \cup {NoValue}, lost \in Nat :
        \E previous : \E resolved, continued \in {NoValue, projections[run].current} :
          q = [ReconciliationOf(p, run, first, baseline, lost, resolved, continued)
                 EXCEPT !.previous = previous]
  BY <1>1, <1>4 DEF ReconciliationCurrent
<1>6. PICK previous : \E resolved, continued \in {NoValue, projections[run].current} :
          q = [ReconciliationOf(p, run, first, baseline, lost, resolved, continued)
                 EXCEPT !.previous = previous]
  BY <1>5
<1>7. PICK resolved \in {NoValue, projections[run].current},
           continued \in {NoValue, projections[run].current} :
        q = [ReconciliationOf(p, run, first, baseline, lost, resolved, continued)
               EXCEPT !.previous = previous]
  BY <1>6
<1>8. q.producer = p /\ q.previous = previous
  BY <1>7 DEF ReconciliationOf
<1>9. previous = GenerationOf(p)
  BY <1>3, <1>8 DEF RegistrationOutcome, GenerationOf
<1>10. q = ReconciliationOf(p, run, first, baseline, lost, resolved, continued)
  BY <1>7, <1>9 DEF ReconciliationOf
<1>11. Reconcile(ReconciliationOf(p, run, first, baseline, lost, resolved, continued))
  <2> HIDE DEF q
  <2>1. Reconcile(q)
    BY DEF q
  <2> QED BY <2>1, <1>10
<1>12. lost \in LostCounts
  OBVIOUS
<1> QED BY <1>11, <1>12, Zenon DEF Next

LEMMA SerialRetire ==
  ASSUME SerialInv, LostCounts = Nat, NEW r \in Queued, r.op = "RetireProducer",
         RetireProducer(r.body)
  PROVE  Next
<1> DEFINE q == r.body
<1>1. RetirementTyped(q)
  BY DEF SerialInv, Requests, RequestCurrent
<1>2. PICK expected, generation : \E p \in Producers, lost \in Nat :
        q = [expected |-> expected, producer |-> p, generation |-> generation, discarded |-> lost]
  BY <1>1 DEF RetirementTyped
<1>3. PICK p \in Producers, lost \in Nat :
        q = [expected |-> expected, producer |-> p, generation |-> generation, discarded |-> lost]
  BY <1>2
<1>4. RetireOutcome(q) = "Ok"
  BY DEF RetireProducer
<1>5. /\ expected = revision /\ producers[p] # NoValue /\ producers[p].active
      /\ producers[p].generation = generation
  <2> HIDE DEF q
  <2> QED BY <1>3, <1>4 DEF RetireOutcome, RevisionOutcome, FirstFailure
<1>6. p \in ActiveProducers
  BY <1>5 DEF ActiveProducers
<1>7. q = RetirementOf(p, lost)
  BY <1>3, <1>5 DEF RetirementOf, GenerationOf
<1>8. RetireProducer(RetirementOf(p, lost))
  <2> HIDE DEF q
  <2>1. RetireProducer(q)
    BY DEF q
  <2> QED BY <2>1, <1>7
<1>9. lost \in LostCounts
  OBVIOUS
<1> QED BY <1>6, <1>8, <1>9, Zenon DEF Next

LEMMA StepsAreSerial ==
  ASSUME CallInv, SerialInv, OrderInv, LostCounts = Nat, ReuseEventIds, [CoordNext]_vars
  PROVE  UNCHANGED storeVars \/ Next
<1>1. CASE OtherWrite \/ Reopen
  BY <1>1 DEF Next
<1>2. CASE Maintain(IF CleanupFacts THEN facts ELSE {}, tombstones, {})
  <2>1. (IF CleanupFacts THEN facts ELSE {}) \in SUBSET facts /\ tombstones \in SUBSET tombstones
        /\ {} \in SUBSET {o \in outbox : o.state \notin FinalDeliveries}
    OBVIOUS
  <2> QED BY <1>2, <2>1, Zenon DEF Next
<1> QED BY <1>1, <1>2, StoreSteps, SerialApply, SerialReconcile, SerialRetire

\* The optimistic protocol of coordinator/ and storage/worker.rs is no more
\* than a serial client: every transaction that commits is one the store allows
\* to a client that read the state it writes to.  The serial client may report
\* any number of lost entries and reuse the id of a pruned fact.
THEOREM CommitsAreSerializable ==
  ASSUME LostCounts = Nat, ReuseEventIds
  PROVE  CoordSpec => SerializableWrites
<1> DEFINE All == CallInv /\ RequestInv /\ OrderInv /\ TermsInv /\ SerialInv
<1>1. CoordInit => All
  BY CallInit, RequestStart, OrderStart, SerialStart
<1>2. ASSUME All, [CoordNext]_vars
      PROVE  All'
  <2>1. issued \in Nat
    BY <1>2 DEF OrderInv
  <2> QED BY <1>2, <2>1, CallStep, RequestStep, OrderStep, TermsStep, SerialStep
<1>3. ASSUME All, [CoordNext]_vars
      PROVE  [UNCHANGED storeVars \/ Next]_vars
  BY <1>3, StepsAreSerial
<1> HIDE DEF All
<1> QED BY <1>1, <1>2, <1>3, PTL DEF CoordSpec, SerializableWrites

\* The coordinator with its spool, registry, jobs and crashes implements the
\* store as its serial client sees it.
THEOREM CoordinatorRefinesStore ==
  ASSUME LostCounts = Nat, ReuseEventIds
  PROVE  CoordSpec => Spec
<1>1. CoordInit => Init
  BY DEF CoordInit
<1>2. [UNCHANGED storeVars \/ Next]_vars => [Next]_storeVars
  BY DEF vars
<1> QED BY <1>1, <1>2, CommitsAreSerializable, PTL DEF CoordSpec, Spec, SerializableWrites



\* Every theorem about the store holds of the coordinator as well: its rows keep
\* their types, one producer observes a run, what a run shows as its turn is the
\* observer's, freshness is earned, and the last resort of the coordinator, to
\* retire an active producer, is available (StoreProofs).
THEOREM CoordinatorKeepsStore ==
  ASSUME LostCounts = Nat, ReuseEventIds
  PROVE  CoordSpec => [](/\ TypeOK /\ OneObserverPerRun /\ CurrentTurnInScope
                         /\ FreshMeansObserved /\ RetirementNeverRefused)
<1>1. CoordSpec => Spec
  BY CoordinatorRefinesStore
<1> QED
  BY <1>1, TypeCorrect, OneObserver, TurnOfTheObserver, FreshnessIsEarned, RetirementAvailable, PTL

\* Through lost replies, retries, replays of the spool and crashes, a turn ends
\* once, is protected once ended and asks nothing any more, and the evidence of
\* the rows stays consistent (TurnProofs).
THEOREM CoordinatorKeepsTurns ==
  ASSUME LostCounts = Nat, ReuseEventIds
  PROVE  CoordSpec => [](/\ EndedTurnsProtected /\ OneOutcomePerTurn
                         /\ EndedTurnsAskNothing /\ EvidenceConsistent)
<1>1. CoordSpec => Spec
  BY CoordinatorRefinesStore
<1> QED
  BY <1>1, ProtectionLasts, TurnsEndOnce, PromptsEndWithTurns, EvidenceHolds, PTL

\* No replay or retry undoes what a person has reviewed or what was delivered.
THEOREM CoordinatorKeepsReviews ==
  ASSUME LostCounts = Nat, ReuseEventIds
  PROVE  CoordSpec => HumanStateKept
BY CoordinatorRefinesStore, HumanStateIsKept

\* The coordinator implements the store, which implements the log of a
\* generation: through all the above a generation stays a log written in
\* sequence order that closes once.
THEOREM CoordinatorImplementsLog ==
  ASSUME LostCounts = Nat, ReuseEventIds
  PROVE  CoordSpec => ImplementsGenerationLog
BY CoordinatorRefinesStore, StoreImplementsLog

-----------------------------------------------------------------------------
(* The registry: what jobs leave alone, and what they close in time        *)

LEMMA InvalidatedElsewhere ==
  ASSUME Counts(registry), NEW p \in Producers, NEW q, NEW g, Invalidate(q, g), ~Names(p, g)
  PROVE  registry'[p] = registry[p]
<1>1. CASE ~Names(q, g)
  BY <1>1 DEF Invalidate
<1>2. CASE Names(q, g)
  <2>1. q # p
    BY <1>2
  <2>2. registry' = [registry EXCEPT ![q] = [registry[q] EXCEPT !.blocked = TRUE, !.queued = 0]]
    BY <1>2 DEF Invalidate
  <2>3. registry = [x \in Producers |-> registry[x]]
    BY DEF Counts
  <2> QED BY <2>1, <2>2, <2>3
<1> QED BY <1>1, <1>2

\* While a commit job borrows the registry, its steps invalidate the generation
\* of its event or leave the registry alone.
LEMMA CommitTouches ==
  ASSUME CallInv, [CoordNext]_vars, job # NoJob, job.kind = "Commit", crashes' = crashes
  PROVE  registry' = registry \/ Freeze(job)
<1>1. ASSUME NEW result, EndUncertain(result)
      PROVE  Freeze(job)
  BY <1>1 DEF EndUncertain
<1>2. CASE SubmitRefused \/ PollUnknown
  BY <1>1, <1>2 DEF SubmitRefused, PollUnknown
<1>3. CASE Receive
  <2>1. ReceiveCommit(job.reply)
    BY <1>3 DEF Receive
  <2>2. DecideContext(job.reply.body) => registry' = registry \/ Freeze(job)
    BY Zenon DEF DecideContext
  <2> QED BY <2>1, <2>2, <1>1 DEF ReceiveCommit
<1>4. CASE Retain
  BY <1>4 DEF Retain
<1>5. CASE Crash
  <2>1. crashes' = crashes + 1 /\ crashes < MaxCrashes
    BY <1>5 DEF Crash
  <2> QED BY <2>1
<1>6. CASE \/ \E p \in Producers, run \in Runs, first \in FirstSequences,
                 baseline \in Baselines \cup {NoValue} :
                \E resolved, continued \in {NoValue, projections[run].current} :
                  \E previous \in Believed(p) :
                    StartReconcile(p, run, first, previous, baseline, resolved, continued)
           \/ \E p \in Producers : Admit(p) \/ Pop(p) \/ Block(p)
  <2>1. /\ \A p, run, first, previous, baseline, resolved, continued :
             StartReconcile(p, run, first, previous, baseline, resolved, continued) => job = NoJob
        /\ \A p : Admit(p) \/ Pop(p) \/ Block(p) => job = NoJob
    BY DEF StartReconcile, Admit, Pop, Block
  <2> QED BY <1>6, <2>1, Zenon
<1>7. CASE \/ \E p \in Producers, run \in Runs, g \in 1..issued, envelope \in Envelopes :
                Stage(p, run, g, envelope)
           \/ \E e \in spool, policy \in Policies, notify \in NotifyChoices :
                StartCommit(e, policy, notify)
  BY <1>7 DEF Stage, StartCommit, managerVars
<1>8. CASE ResumeCommit \/ Submit \/ TakeCommitted \/ Drop \/ Confirm
  BY <1>8 DEF ResumeCommit, Submit, TakeCommitted, Drop, Confirm
<1>9. CASE Execute \/ OtherRequest \/ RequestShutdown \/ EndWorker \/ StartWorker \/ UNCHANGED vars
  BY <1>9 DEF Execute, OtherRequest, RequestShutdown, EndWorker, StartWorker, vars, managerVars
<1> QED BY <1>2, <1>3, <1>4, <1>5, <1>6, <1>7, <1>8, <1>9 DEF CoordNext

\* An old event of the spool disturbs nothing newer: a commit job touches the
\* registry only at its own event's generation (freeze in coordinator/commit.rs).
THEOREM OldReplaysAreHarmless == CoordSpec => OldReplayHarmless
<1> DEFINE All == CallInv /\ Counts(registry)
           Harm == \A p \in Producers :
             (/\ job # NoJob /\ job.kind = "Commit" /\ crashes' = crashes
              /\ ~Names(p, job.event.generation))
               => registry'[p] = registry[p]
<1>1. CoordInit => All
  BY CallInit, SerialStart DEF TermsInv
<1>2. All /\ [CoordNext]_vars => All'
  BY CallStep, CountsStep
<1>3. All /\ [CoordNext]_vars => [Harm]_vars
  <2> SUFFICES ASSUME All, [CoordNext]_vars, NEW p \in Producers,
                      job # NoJob, job.kind = "Commit", crashes' = crashes,
                      ~Names(p, job.event.generation)
               PROVE  registry'[p] = registry[p]
    OBVIOUS
  <2>1. CASE registry' = registry
    BY <2>1
  <2>2. CASE Freeze(job)
    BY <2>2, InvalidatedElsewhere DEF Freeze
  <2> QED BY <2>1, <2>2, CommitTouches
<1> HIDE DEF All, Harm
<1>4. CoordSpec => [][Harm]_vars
  BY <1>1, <1>2, <1>3, PTL DEF CoordSpec
<1> QED BY <1>4 DEF OldReplayHarmless, Harm


\* What `p` has installed keeps its generation, and stays closed once closed.
Stays(p) ==
  /\ registry[p] # NoValue /\ registry'[p].generation = registry[p].generation
  /\ registry[p].blocked => registry'[p].blocked

LEMMA SameEntries ==
  ASSUME Counts(registry), NEW p \in Producers, registry'[p] # NoValue,
         \/ registry' = registry
         \/ \E q, entry : /\ registry' = [registry EXCEPT ![q] = entry]
                          /\ registry[q] # NoValue
                          /\ entry.generation = registry[q].generation
                          /\ registry[q].blocked => entry.blocked
  PROVE  Stays(p)
<1>1. registry = [x \in Producers |-> registry[x]]
  BY DEF Counts
<1>2. CASE registry' = registry
  BY <1>2 DEF Stays
<1>3. ASSUME NEW q, NEW entry, registry' = [registry EXCEPT ![q] = entry],
             registry[q] # NoValue, entry.generation = registry[q].generation,
             registry[q].blocked => entry.blocked
      PROVE  Stays(p)
  <2>1. CASE q = p
    BY <1>1, <1>3, <2>1 DEF Stays
  <2>2. CASE q # p
    <3>1. registry'[p] = registry[p]
      BY <1>1, <1>3, <2>2
    <3> QED BY <3>1 DEF Stays
  <2> QED BY <2>1, <2>2
<1> QED BY <1>2, <1>3

LEMMA InvalidatedStays ==
  ASSUME Counts(registry), NEW p \in Producers, registry'[p] # NoValue,
         NEW q \in Producers, NEW g, Invalidate(q, g)
  PROVE  Stays(p) /\ (p = q /\ registry'[p].generation = g => registry'[p].blocked)
<1>1. CASE ~Names(q, g)
  <2>1. registry' = registry
    BY <1>1 DEF Invalidate
  <2> QED BY <1>1, <2>1, SameEntries DEF Names
<1>2. CASE Names(q, g)
  <2> DEFINE entry == [registry[q] EXCEPT !.blocked = TRUE, !.queued = 0]
  <2>1. registry' = [registry EXCEPT ![q] = entry] /\ registry[q] # NoValue
    BY <1>2 DEF Invalidate, Names
  <2>2. entry.generation = registry[q].generation /\ entry.blocked
    <3>1. registry[q] = [f \in EntryFields |-> registry[q][f]]
      BY <2>1 DEF Counts
    <3> QED BY <3>1 DEF EntryFields
  <2>3. registry = [x \in Producers |-> registry[x]]
    BY DEF Counts
  <2> HIDE DEF entry
  <2>4. Stays(p)
    BY <2>1, <2>2, SameEntries
  <2>5. p = q => registry'[p].blocked
    BY <2>1, <2>2, <2>3
  <2> QED BY <2>4, <2>5
<1> QED BY <1>1, <1>2

LEMMA RegistryMoves ==
  ASSUME CallInv, RequestInv, Counts(registry), [CoordNext]_vars,
         NEW p \in Producers, registry'[p] # NoValue
  PROVE  \/ Stays(p)
         \/ /\ job # NoJob /\ job.reply # NoValue /\ job.reply.kind = "Registered"
            /\ registry'[p].generation = job.reply.body
<1>0. /\ registry = [x \in Producers |-> registry[x]]
      /\ \A q \in Producers : registry[q] # NoValue =>
           registry[q] = [f \in EntryFields |-> registry[q][f]]
  BY DEF Counts
<1>1. CASE registry' = registry
  BY <1>1, SameEntries
<1>2. ASSUME job # NoJob, job.kind = "Commit", Freeze(job)
      PROVE  Stays(p)
  <2>1. job.event.producer \in Producers
    BY <1>2 DEF RequestInv, Subjects
  <2> QED BY <1>2, <2>1, InvalidatedStays DEF Freeze
<1>3. CASE job # NoJob /\ job.kind = "Commit" /\ crashes' = crashes
  BY <1>1, <1>2, <1>3, CommitTouches
<1>4. CASE Crash
  BY <1>4 DEF Crash
<1>5. ASSUME NEW q \in Producers, NEW n, registry[q] # NoValue,
             registry' = [registry EXCEPT ![q].queued = n]
      PROVE  Stays(p)
  <2> DEFINE entry == [registry[q] EXCEPT !.queued = n]
  <2>1. registry' = [registry EXCEPT ![q] = entry]
    BY <1>5
  <2>2. entry.generation = registry[q].generation /\ entry.blocked = registry[q].blocked
    BY <1>0, <1>5 DEF EntryFields
  <2> HIDE DEF entry
  <2> QED BY <1>5, <2>1, <2>2, SameEntries
<1>6. ASSUME NEW q \in Producers, Admit(q) \/ Pop(q)
      PROVE  Stays(p)
  BY <1>5, <1>6 DEF Admit, Pop
<1>7. ASSUME NEW q \in Producers, Block(q)
      PROVE  Stays(p)
  <2> DEFINE entry == [registry[q] EXCEPT !.blocked = TRUE]
  <2>1. registry' = [registry EXCEPT ![q] = entry] /\ registry[q] # NoValue
    BY <1>7 DEF Block
  <2>2. entry.generation = registry[q].generation /\ entry.blocked
    BY <1>0, <2>1 DEF EntryFields
  <2> HIDE DEF entry
  <2> QED BY <2>1, <2>2, SameEntries
<1>8. ASSUME NEW q \in Producers, NEW run, NEW first, NEW previous, NEW baseline,
             NEW resolved, NEW continued,
             StartReconcile(q, run, first, previous, baseline, resolved, continued)
      PROVE  Stays(p)
  <2>1. Invalidate(q, previous)
    BY <1>8 DEF StartReconcile
  <2> QED BY <2>1, InvalidatedStays
<1>9. CASE (SubmitRefused \/ PollUnknown) /\ job.kind # "Commit"
  BY <1>1, <1>9 DEF SubmitRefused, PollUnknown, EndUncertain
<1>10. CASE Receive /\ job.kind # "Commit"
  <2>1. job # NoJob /\ job.reply # NoValue /\ ReceiveReconcile(job.reply)
    BY <1>10 DEF Receive, Running
  <2> DEFINE q == job.request.body
             entry == Entry(job.reply.body, q.run)
  <2>2. \/ registry' = registry
        \/ /\ job.reply.kind = "Registered"
           /\ registry' = [registry EXCEPT ![q.producer] = entry]
    BY <2>1 DEF ReceiveReconcile
  <2>3. entry.generation = job.reply.body
    BY DEF Entry
  <2>4. CASE registry' = registry
    BY <1>1, <2>4
  <2>5. CASE /\ job.reply.kind = "Registered"
             /\ registry' = [registry EXCEPT ![q.producer] = entry]
    <3>1. CASE q.producer = p
      <4> HIDE DEF entry
      <4> QED BY <1>0, <2>1, <2>3, <2>5, <3>1
    <3>2. CASE q.producer # p
      <4> HIDE DEF entry
      <4>1. registry'[p] = registry[p]
        BY <1>0, <2>5, <3>2
      <4> QED BY <4>1 DEF Stays
    <3> QED BY <3>1, <3>2
  <2> QED BY <2>2, <2>4, <2>5
<1>11. CASE SubmitRefused \/ PollUnknown \/ Receive
  <2>1. crashes' = crashes /\ job # NoJob
    BY <1>11 DEF SubmitRefused, PollUnknown, Receive, Running
  <2> QED BY <1>3, <1>9, <1>10, <1>11, <2>1
<1>12. CASE Retain
  BY <1>3, <1>12 DEF Retain
<1>13. CASE \/ \E q \in Producers, run \in Runs, g \in 1..issued, envelope \in Envelopes :
                 Stage(q, run, g, envelope)
            \/ \E e \in spool, policy \in Policies, notify \in NotifyChoices :
                 StartCommit(e, policy, notify)
  BY <1>1, <1>13 DEF Stage, StartCommit, managerVars
<1>14. CASE ResumeCommit \/ Submit \/ TakeCommitted \/ Drop \/ Confirm
  BY <1>1, <1>14 DEF ResumeCommit, Submit, TakeCommitted, Drop, Confirm
<1>15. CASE Execute \/ OtherRequest \/ RequestShutdown \/ EndWorker \/ StartWorker \/ UNCHANGED vars
  BY <1>1, <1>15 DEF Execute, OtherRequest, RequestShutdown, EndWorker, StartWorker, vars,
     managerVars
<1> QED BY <1>4, <1>6, <1>7, <1>8, <1>11, <1>12, <1>13, <1>14, <1>15, Zenon DEF CoordNext


LEMMA IssuedGrows ==
  ASSUME CallInv, [CoordNext]_vars, issued \in Nat
  PROVE  issued' \in Nat /\ issued <= issued' /\ 1..issued \subseteq 1..issued'
<1>1. issued' = issued \/ issued' = issued + 1
  <2>1. CASE UNCHANGED <<storeVars, accepted>>
    BY <2>1 DEF storeVars
  <2>2. CASE \E r \in Queued : Apply(r.body)
    BY <2>2 DEF Apply, ApplyEffect
  <2>3. CASE \E r \in Queued : Reconcile(r.body)
    BY <2>3 DEF Reconcile, ReconcileEffect
  <2>4. CASE \E r \in Queued : RetireProducer(r.body)
    BY <2>4 DEF RetireProducer, RetireEffect, Retire
  <2>5. CASE OtherWrite \/ Reopen \/ Maintain(IF CleanupFacts THEN facts ELSE {}, tombstones, {})
    BY <2>5 DEF OtherWrite, Reopen, Maintain, Retire
  <2> QED BY <2>1, <2>2, <2>3, <2>4, <2>5, StoreSteps
<1> QED BY <1>1

\* A generation reaches a job as the one that was just drawn.
LEMMA RegisteredReply ==
  ASSUME CallInv, [CoordNext]_vars, job' # NoJob, job'.reply # NoValue,
         job'.reply.kind = "Registered"
  PROVE  \/ job # NoJob /\ job'.reply = job.reply
         \/ job'.reply.body = issued + 1 /\ issued' = issued + 1
<1>1. CASE Execute
  <2> DEFINE request == Head(queue).request
             Fresh(reply) == reply.kind = "Registered" =>
                               reply.body = issued + 1 /\ issued' = issued + 1
  <2>1. queue # <<>> /\ job # NoJob
    BY <1>1, StillFree DEF Execute
  <2>2. \E reply : Answer(reply) /\ Fresh(reply)
    <3>1. CASE ExecuteContext(request.body) \/ ExecuteApply(request.body)
               \/ ExecuteRetire(request.body)
      <4>1. \E k \in {"Context", "Committed", "Retired", "Error"} :
              \E body : Answer([kind |-> k, body |-> body])
        BY <3>1, Zenon DEF ExecuteContext, ExecuteApply, ExecuteRetire
      <4>2. PICK k \in {"Context", "Committed", "Retired", "Error"} :
              \E body : Answer([kind |-> k, body |-> body])
        BY <4>1
      <4>3. PICK body : Answer([kind |-> k, body |-> body])
        BY <4>2
      <4>4. Fresh([kind |-> k, body |-> body])
        <5>1. k # "Registered"
          OBVIOUS
        <5> QED BY <5>1
      <4> QED BY <4>3, <4>4, Zenon
    <3>2. CASE ExecuteReconcile(request.body)
      <4>1. \/ /\ Reconcile(request.body)
               /\ Answer([kind |-> "Registered", body |-> issued + 1])
            \/ Answer([kind |-> "Error", body |-> ReconcileOutcome(request.body)])
        BY <3>2, Zenon DEF ExecuteReconcile
      <4>2. CASE /\ Reconcile(request.body)
                 /\ Answer([kind |-> "Registered", body |-> issued + 1])
        <5>1. issued' = issued + 1
          BY <4>2 DEF Reconcile, ReconcileEffect
        <5>2. Fresh([kind |-> "Registered", body |-> issued + 1])
          BY <5>1
        <5> QED BY <4>2, <5>2, Zenon
      <4>3. CASE Answer([kind |-> "Error", body |-> ReconcileOutcome(request.body)])
        <5>1. Fresh([kind |-> "Error", body |-> ReconcileOutcome(request.body)])
          OBVIOUS
        <5> QED BY <4>3, <5>1, Zenon
      <4> QED BY <4>1, <4>2, <4>3
    <3> QED BY <1>1, <3>1, <3>2, Zenon DEF Execute
  <2>3. PICK reply : Answer(reply) /\ Fresh(reply)
    BY <2>2
  <2>4. CASE Head(queue).awaited
    <3>1. job' = [job EXCEPT !.reply = reply]
      BY <2>3, <2>4 DEF Answer
    <3>2. job'.reply = reply
      <4>1. IsCommitJob(job) \/ IsReconcileJob(job)
        BY <2>1 DEF CallInv, JobCalls
      <4> QED BY <3>1, <4>1 DEF IsCommitJob, IsReconcileJob, CommitFields, ReconcileFields
    <3> QED BY <3>2, <2>3
  <2>5. CASE ~Head(queue).awaited
    <3>1. job' = job \/ job' = [job EXCEPT !.ticket = "Lost"]
      BY <2>3, <2>5 DEF Answer, Orphaned
    <3>2. job'.reply = job.reply
      BY <3>1, <2>1, TicketedJob DEF CallInv
    <3> QED BY <3>2, <2>1
  <2> QED BY <2>4, <2>5
<1>2. CASE ~Execute
  BY <1>2, ReplyMoves
<1> QED BY <1>1, <1>2


\* The producer whose generation a request may end.
Aims(r, p) ==
  /\ r.op = "Apply" => r.body.fact.producer = p
  /\ r.op # "Apply" => r.body.producer = p

\* The generation a request may end is that of no registration still open, and
\* a generation about to be installed is newer than any of them.
ClosedInv ==
  /\ \A p \in Producers : registry[p] # NoValue => registry[p].generation \in 1..issued
  /\ \A e \in Subjects : e.generation \in 1..issued
  /\ \A r \in Requests : RetiringGeneration(r) \in 1..issued \cup {NoValue}
  /\ \A r \in Requests, p \in Producers :
       Aims(r, p) /\ Names(p, RetiringGeneration(r)) => registry[p].blocked
  /\ (job # NoJob /\ job.reply # NoValue /\ job.reply.kind = "Registered") =>
       /\ job.reply.body \in 1..issued
       /\ \A r \in Requests :
            RetiringGeneration(r) # NoValue => RetiringGeneration(r) < job.reply.body

\* Where a request that may end a generation comes from: closed when made.
LEMMA NewlyRetiring ==
  ASSUME CallInv, RequestInv, OrderInv, ClosedInv, Counts(registry), [CoordNext]_vars,
         NEW r, r \in Requests', r \notin Requests, RetiringGeneration(r) # NoValue
  PROVE  /\ RetiringGeneration(r) \in 1..issued
         /\ job'.reply = NoValue
         /\ \A p \in Producers :
              (Aims(r, p) /\ registry'[p] # NoValue
               /\ registry'[p].generation = RetiringGeneration(r)) => registry'[p].blocked
<1>1. CASE Begun(r)
  <2>1. PICK q \in Producers :
          \E previous \in Believed(q) :
            /\ r.op = "Reconcile" /\ r.body.producer = q /\ r.body.previous = previous
            /\ Invalidate(q, previous) /\ job'.reply = NoValue
    <3>1. PICK q \in Producers, run \in Runs, first \in FirstSequences,
               baseline \in Baselines \cup {NoValue} :
            \E previous \in Believed(q) :
              \E resolved, continued \in {NoValue, projections[run].current} :
                /\ r = ReconcileRequest(
                         [ReconciliationOf(q, run, first, baseline, Backlog(q, previous), resolved, continued)
                            EXCEPT !.previous = previous])
                /\ Invalidate(q, previous) /\ job'.reply = NoValue
      BY <1>1, Zenon DEF Begun
    <3>2. PICK previous \in Believed(q) :
            \E resolved, continued \in {NoValue, projections[run].current} :
              /\ r = ReconcileRequest(
                       [ReconciliationOf(q, run, first, baseline, Backlog(q, previous), resolved, continued)
                          EXCEPT !.previous = previous])
              /\ Invalidate(q, previous) /\ job'.reply = NoValue
      BY <3>1
    <3>3. PICK resolved \in {NoValue, projections[run].current},
               continued \in {NoValue, projections[run].current} :
            /\ r = ReconcileRequest(
                     [ReconciliationOf(q, run, first, baseline, Backlog(q, previous), resolved, continued)
                        EXCEPT !.previous = previous])
            /\ Invalidate(q, previous) /\ job'.reply = NoValue
      BY <3>2
    <3>4. r.op = "Reconcile" /\ r.body.producer = q /\ r.body.previous = previous
      BY <3>3 DEF ReconcileRequest, ReconciliationOf
    <3> QED BY <3>3, <3>4
  <2>2. PICK previous \in Believed(q) :
          /\ r.op = "Reconcile" /\ r.body.producer = q /\ r.body.previous = previous
          /\ Invalidate(q, previous) /\ job'.reply = NoValue
    BY <2>1
  <2>3. RetiringGeneration(r) = previous
    BY <2>2 DEF RetiringGeneration
  <2>4. previous \in 1..issued
    BY <2>3 DEF Believed, GenerationOf, ClosedInv, OrderInv, IsRow
  <2>5. \A p \in Producers : Aims(r, p) => p = q
    BY <2>2 DEF Aims
  <2> QED BY <2>2, <2>3, <2>4, <2>5, InvalidatedStays
<1>2. CASE Decided(r)
  <2>1. job.event \in Subjects /\ job'.reply = NoValue
    BY <1>2 DEF Decided, Subjects
  <2>2. job.event.generation \in 1..issued /\ job.event.producer \in Producers
    BY <2>1 DEF ClosedInv, RequestInv
  <2>3. PICK lost : \/ /\ r = RetireRequest(RetirementFrom(job, job.reply.body, lost))
                       /\ Freeze(job)
                    \/ /\ r = ApplyRequest(WriteFrom(job, job.reply.body, lost))
                       /\ Freeze(job) \/ ~r.body.effects.reconcile
    BY <1>2 DEF Decided
  <2>4. \/ r.op = "RetireProducer" /\ r.body.producer = job.event.producer
           /\ r.body.generation = job.event.generation /\ Freeze(job)
        \/ r.op = "Apply" /\ r.body.fact = job.event /\ (Freeze(job) \/ ~r.body.effects.reconcile)
    BY <2>3 DEF RetireRequest, RetirementFrom, ApplyRequest, WriteFrom
  <2>5. /\ RetiringGeneration(r) = job.event.generation /\ Freeze(job)
        /\ \A p \in Producers : Aims(r, p) => p = job.event.producer
    BY <2>4 DEF RetiringGeneration, Aims
  <2> QED BY <2>1, <2>2, <2>5, InvalidatedStays DEF Freeze
<1>3. CASE \E e \in Subjects : r = ContextRequest(e)
  BY <1>3 DEF ContextRequest, RetiringGeneration
<1> QED BY <1>1, <1>2, <1>3, RequestOrigins

LEMMA ClosedStep ==
  ASSUME CallInv, RequestInv, OrderInv, ClosedInv, Counts(registry), [CoordNext]_vars
  PROVE  ClosedInv'
<1>1. issued' \in Nat /\ issued <= issued' /\ 1..issued \subseteq 1..issued' /\ issued \in Nat
  BY IssuedGrows DEF OrderInv
<1>2. ASSUME NEW p \in Producers, registry'[p] # NoValue
      PROVE  registry'[p].generation \in 1..issued
  BY <1>2, RegistryMoves DEF Stays, ClosedInv
<1>3. ASSUME NEW e, e \in Subjects'
      PROVE  e.generation \in 1..issued
  <2>1. CASE e \in Subjects
    BY <2>1 DEF ClosedInv
  <2>2. CASE Staged(e)
    BY <2>2 DEF Staged, EventOf
  <2> QED BY <1>3, <2>1, <2>2, SubjectOrigins
<1>4. ASSUME NEW r, r \in Requests'
      PROVE  RetiringGeneration(r) \in 1..issued \cup {NoValue}
  BY <1>4, NewlyRetiring DEF ClosedInv
<1>5. ASSUME NEW r, r \in Requests', NEW p \in Producers, Aims(r, p), registry'[p] # NoValue,
             registry'[p].generation = RetiringGeneration(r)
      PROVE  registry'[p].blocked
  <2>1. RetiringGeneration(r) \in 1..issued /\ RetiringGeneration(r) # NoValue
    BY <1>2, <1>5, NoValueAssumption
  <2>2. CASE r \notin Requests
    BY <1>5, <2>1, <2>2, NewlyRetiring
  <2>3. CASE r \in Requests /\ Stays(p)
    <3>1. Names(p, RetiringGeneration(r))
      BY <1>5, <2>3 DEF Stays, Names
    <3> QED BY <1>5, <2>3, <3>1 DEF Stays, ClosedInv
  <2>4. CASE /\ r \in Requests /\ job # NoJob /\ job.reply # NoValue
             /\ job.reply.kind = "Registered" /\ registry'[p].generation = job.reply.body
    <3>1. RetiringGeneration(r) < RetiringGeneration(r)
      BY <1>5, <2>1, <2>4 DEF ClosedInv
    <3> QED BY <3>1, <2>1
  <2> QED BY <1>5, <2>2, <2>3, <2>4, RegistryMoves
<1>6. ASSUME job' # NoJob, job'.reply # NoValue, job'.reply.kind = "Registered"
      PROVE  /\ job'.reply.body \in 1..issued'
             /\ \A r \in Requests' :
                  RetiringGeneration(r) # NoValue => RetiringGeneration(r) < job'.reply.body
  <2>1. \A r \in Requests' : RetiringGeneration(r) # NoValue => r \in Requests
    BY <1>6, NewlyRetiring
  <2>2. CASE job # NoJob /\ job'.reply = job.reply
    BY <1>1, <1>6, <2>1, <2>2 DEF ClosedInv
  <2>3. CASE job'.reply.body = issued + 1 /\ issued' = issued + 1
    BY <1>1, <2>1, <2>3 DEF ClosedInv
  <2> QED BY <1>6, <2>2, <2>3, RegisteredReply
<1>7. \A p \in Producers : registry'[p] # NoValue => registry'[p].generation \in 1..issued'
  BY <1>1, <1>2
<1>8. \A r \in Requests', p \in Producers :
        Aims(r, p) /\ Names(p, RetiringGeneration(r))' => registry'[p].blocked
  BY <1>5 DEF Names
<1> QED BY <1>1, <1>3, <1>4, <1>6, <1>7, <1>8 DEF ClosedInv, RetiringGeneration, Aims, Names

\* Volatile admission closes before the request that ends a generation can reach
\* the database, and stays closed for it: while such a request is held or
\* queued, whoever made it and however old it is, the registry admits nothing to
\* the generation it ends (freeze in coordinator/commit.rs, ReconciliationJob::new).
THEOREM RetiringIsFrozen == CoordSpec => []RetiringMeansFrozen
<1> DEFINE All == CallInv /\ RequestInv /\ OrderInv /\ ClosedInv /\ Counts(registry)
<1>1. CoordInit => All
  <2> SUFFICES ASSUME CoordInit PROVE ClosedInv
    BY CallInit, RequestStart, OrderStart, SerialStart DEF TermsInv
  <2>1. Queued = {}
    BY DEF CoordInit, Queued
  <2> QED BY <2>1 DEF CoordInit, ClosedInv, Requests, Subjects
<1>2. All /\ [CoordNext]_vars => All'
  BY CallStep, RequestStep, OrderStep, ClosedStep, CountsStep
<1>3. All => RetiringMeansFrozen
  <2> SUFFICES ASSUME ClosedInv,
                      NEW r \in Queued \cup (IF Running THEN {job.request} ELSE {}),
                      NEW p \in Producers, Names(p, RetiringGeneration(r)), Aims(r, p)
               PROVE  registry[p].blocked
    BY Zenon DEF RetiringMeansFrozen, Queued, Aims
  <2>1. r \in Requests
    BY DEF Requests, Running
  <2> QED BY <2>1 DEF ClosedInv
<1> HIDE DEF All
<1> QED BY <1>1, <1>2, <1>3, PTL DEF CoordSpec


-----------------------------------------------------------------------------
(* What the store counts as lost                                           *)

\* The generation of `x` is open in the database.
Live(x) ==
  /\ producers[x.producer] # NoValue /\ producers[x.producer].active
  /\ producers[x.producer].generation = x.generation

Written(w) == \E f \in facts : f.write = w

\* The database might still add what this request reports as lost.
Countable(r) ==
  \/ /\ r.op = "Apply" /\ r.body.expected = revision
     /\ Live(r.body.fact) /\ ~Written(r.body)
  \/ r.op = "RetireProducer" /\ r.body.expected = revision /\ Live(r.body)
  \/ r.op = "Reconcile" /\ r.body.expected = revision

\* A commit, running or retained, whose losses are counted, or never will be:
\* its write is stored, or the generation of its event is closed.
Settled(c) ==
  ~Live(c.event) \/ (c.request.op = "Apply" /\ Written(c.request.body))

Owed(c) == IF Settled(c) THEN 0 ELSE c.discarded

JobOwes(j) ==
  IF j = NoJob THEN 0
  ELSE IF j.kind = "Commit" THEN Owed(j)
  ELSE IF Countable(j.request) THEN j.request.body.discarded ELSE 0

PendingOwes(c) == IF c = NoValue THEN 0 ELSE Owed(c)

Owes == JobOwes(job) + PendingOwes(pending)

Held == (IF job # NoJob THEN {job.request} ELSE {})
        \cup (IF pending # NoValue THEN {pending.request} ELSE {})

\* What is lost is at least what is counted, what the job and the retained
\* commit may still report, and what one request left behind may: of those that
\* nobody holds any more, one at most is executed, for it moves the revision.
Balanced ==
  /\ discarded + Owes <= lostEver
  /\ \A r \in Queued \ Held :
       Countable(r) => discarded + Owes + r.body.discarded <= lostEver

\* A request reports no more than its commit knows of, about its event.
Carries(c) ==
  /\ c.request.op = "Apply" =>
       c.request.body.fact = c.event /\ c.request.body.discarded \in 0..c.discarded
  /\ c.request.op = "RetireProducer" =>
       /\ c.request.body.producer = c.event.producer
       /\ c.request.body.generation = c.event.generation
       /\ c.request.body.discarded \in 0..c.discarded

\* A request refused as stale will never be executed.
Overtaken(r) ==
  /\ r.op = "Apply" => r.body.expected < revision /\ ~Written(r.body)
  /\ r.op = "RetireProducer" => r.body.expected < revision

Fits(reply, request) ==
  /\ reply.kind = "Context" => request.op = "Context"
  /\ reply.kind = "Error" /\ reply.body = "StaleRevision" => Overtaken(request)

PastRetirement(r) ==
  r.op = "RetireProducer" => r.body.expected \in Nat /\ r.body.expected <= revision

LossInv ==
  /\ discarded \in Nat /\ lostEver \in Nat
  /\ \A r \in Requests : PastRetirement(r)
  /\ job # NoJob /\ job.kind = "Commit" => Carries(job)
  /\ pending # NoValue => Carries(pending)
  /\ (job # NoJob /\ job.kind = "Commit" /\ job.reply # NoValue) => Fits(job.reply, job.request)

\* What a job in progress does with its request and its losses.
Discards(j, k) ==
  \/ k.discarded = j.discarded /\ lostEver' = lostEver
  \/ /\ k.discarded = j.discarded + Backlog(j.event.producer, j.event.generation)
     /\ lostEver' = lostEver + Backlog(j.event.producer, j.event.generation)

Reasks(j, k) ==
  \/ k.request = j.request /\ k.reply \in {j.reply, NoValue}
  \/ /\ k.reply = NoValue /\ j.reply.kind = "Error" /\ j.reply.body = "StaleRevision"
     /\ k.request = ContextRequest(j.event)
  \/ /\ k.reply = NoValue /\ j.reply.kind = "Context"
     /\ \/ k.request = RetireRequest(RetirementFrom(j, j.reply.body, k.discarded))
        \/ k.request = ApplyRequest(WriteFrom(j, j.reply.body, k.discarded))

Progresses(j, k) ==
  /\ k # NoJob /\ k.kind = j.kind /\ k.event = j.event
  /\ Discards(j, k) /\ Reasks(j, k)

LEMMA FrozenDiscards ==
  ASSUME NEW j, IsCommitJob(j)
  PROVE  Frozen(j).discarded = j.discarded + Backlog(j.event.producer, j.event.generation)
BY DEF IsCommitJob, CommitFields, Frozen

\* How the updates of decision.rs act on a commit job's losses.
LEMMA NextFields ==
  ASSUME NEW j, IsCommitJob(j), NEW k,
         \/ \E a : k = [j EXCEPT !.result = a, !.reply = NoValue]
         \/ \E a : k = [j EXCEPT !.ticket = a]
  PROVE  /\ k # NoJob /\ k.kind = j.kind /\ k.event = j.event /\ k.request = j.request
         /\ k.discarded = j.discarded /\ k.reply \in {j.reply, NoValue}
<1>1. k.kind = "Commit"
  BY DEF IsCommitJob, CommitFields
<1>2. k # NoJob
  <2>1. NoJob.kind # "Commit"
    BY DEF NoJob
  <2> QED BY <1>1, <2>1
<1> QED BY <1>2 DEF IsCommitJob, CommitFields

LEMMA AskedFields ==
  ASSUME NEW j, IsCommitJob(j), NEW a, NEW b, NEW k,
         k = NextRequest(j, a, b) \/ k = [NextRequest(j, a, b) EXCEPT !.retries = @ + 1]
  PROVE  /\ k # NoJob /\ k.kind = j.kind /\ k.event = j.event /\ k.request = b
         /\ k.discarded = j.discarded /\ k.reply = NoValue
<1>1. k.kind = "Commit"
  BY DEF IsCommitJob, CommitFields, NextRequest
<1>2. k # NoJob
  <2>1. NoJob.kind # "Commit"
    BY DEF NoJob
  <2> QED BY <1>1, <2>1
<1>3. CASE k = NextRequest(j, a, b)
  BY <1>2, <1>3 DEF IsCommitJob, CommitFields, NextRequest
<1>4. CASE k = [NextRequest(j, a, b) EXCEPT !.retries = @ + 1]
  BY <1>2, <1>4 DEF IsCommitJob, CommitFields, NextRequest
<1> QED BY <1>3, <1>4

LEMMA FreezeLoses ==
  ASSUME Freeze(job)
  PROVE  lostEver' = lostEver + Backlog(job.event.producer, job.event.generation)
BY DEF Freeze, Invalidate

LEMMA DecideProgresses ==
  ASSUME IsCommitJob(job), job.reply.kind = "Context", DecideContext(job.reply.body)
  PROVE  Progresses(job, job')
<1> DEFINE ctx == job.reply.body
           decision == Disposition(ctx, job.event, job.policy)
           n == Backlog(job.event.producer, job.event.generation)
<1>1. \/ \E a : End(a) /\ lostEver' = lostEver
      \/ /\ Freeze(job)
         /\ job' = NextRequest(Frozen(job), "Retire",
                     RetireRequest(RetirementFrom(job, ctx, Frozen(job).discarded)))
      \/ /\ Freeze(job)
         /\ job' = NextRequest(Frozen(job), "Apply",
                     ApplyRequest(WriteFrom(job, ctx, Frozen(job).discarded)))
      \/ /\ lostEver' = lostEver
         /\ job' = NextRequest(job, "Apply", ApplyRequest(WriteFrom(job, ctx, job.discarded)))
  BY Zenon DEF DecideContext, RetirementFrom, WriteFrom
<1>2. /\ IsCommitJob(Frozen(job)) /\ Frozen(job).event = job.event
      /\ Frozen(job).discarded = job.discarded + n
      /\ Frozen(job).kind = job.kind
  BY FrozenJob, FrozenDiscards DEF IsCommitJob
<1>3. CASE \E a : End(a) /\ lostEver' = lostEver
  <2>1. \E a : job' = [job EXCEPT !.result = a, !.reply = NoValue]
    BY <1>3 DEF End
  <2> QED BY <1>3, <2>1, NextFields DEF Progresses, Discards, Reasks
<1>4. CASE /\ Freeze(job)
           /\ job' = NextRequest(Frozen(job), "Retire",
                     RetireRequest(RetirementFrom(job, ctx, Frozen(job).discarded)))
  <2>1. /\ job' # NoJob /\ job'.kind = job.kind /\ job'.event = job.event
        /\ job'.request = RetireRequest(RetirementFrom(job, ctx, Frozen(job).discarded))
        /\ job'.discarded = Frozen(job).discarded /\ job'.reply = NoValue
    BY <1>2, <1>4, AskedFields
  <2>2. lostEver' = lostEver + n
    BY <1>4, FreezeLoses
  <2> QED BY <1>2, <2>1, <2>2 DEF Progresses, Discards, Reasks
<1>5. CASE /\ Freeze(job)
           /\ job' = NextRequest(Frozen(job), "Apply",
                     ApplyRequest(WriteFrom(job, ctx, Frozen(job).discarded)))
  <2>1. /\ job' # NoJob /\ job'.kind = job.kind /\ job'.event = job.event
        /\ job'.request = ApplyRequest(WriteFrom(job, ctx, Frozen(job).discarded))
        /\ job'.discarded = Frozen(job).discarded /\ job'.reply = NoValue
    BY <1>2, <1>5, AskedFields
  <2>2. lostEver' = lostEver + n
    BY <1>5, FreezeLoses
  <2> QED BY <1>2, <2>1, <2>2 DEF Progresses, Discards, Reasks
<1>6. CASE /\ lostEver' = lostEver
           /\ job' = NextRequest(job, "Apply", ApplyRequest(WriteFrom(job, ctx, job.discarded)))
  <2>1. /\ job' # NoJob /\ job'.kind = job.kind /\ job'.event = job.event
        /\ job'.request = ApplyRequest(WriteFrom(job, ctx, job.discarded))
        /\ job'.discarded = job.discarded /\ job'.reply = NoValue
    BY <1>6, AskedFields
  <2> QED BY <1>6, <2>1 DEF Progresses, Discards, Reasks
<1> QED BY <1>1, <1>3, <1>4, <1>5, <1>6

\* The steps a commit job takes by itself.
LEMMA CommitProgresses ==
  ASSUME CallInv, job # NoJob, job.kind = "Commit",
         Submit \/ SubmitRefused \/ PollUnknown \/ Receive \/ EndWorker
  PROVE  Progresses(job, job')
<1>1. IsCommitJob(job)
  BY JobKinds DEF CallInv
<1>2. ASSUME NEW result, EndUncertain(result)
      PROVE  Progresses(job, job')
  <2>1. /\ Freeze(job)
        /\ job' = [Frozen(job) EXCEPT !.result = result, !.reply = NoValue]
    BY <1>2 DEF EndUncertain
  <2>2. /\ IsCommitJob(Frozen(job)) /\ Frozen(job).event = job.event
        /\ Frozen(job).request = job.request /\ Frozen(job).kind = job.kind
        /\ Frozen(job).reply = job.reply
        /\ Frozen(job).discarded = job.discarded
             + Backlog(job.event.producer, job.event.generation)
    <3>1. Frozen(job).reply = job.reply
      BY <1>1 DEF IsCommitJob, CommitFields, Frozen
    <3> QED BY <1>1, <3>1, FrozenJob, FrozenDiscards DEF IsCommitJob
  <2>3. /\ job' # NoJob /\ job'.kind = Frozen(job).kind /\ job'.event = Frozen(job).event
        /\ job'.request = Frozen(job).request
        /\ job'.discarded = Frozen(job).discarded
        /\ job'.reply \in {Frozen(job).reply, NoValue}
    <3>1. \E a : job' = [Frozen(job) EXCEPT !.result = a, !.reply = NoValue]
      BY <2>1
    <3> QED BY <2>2, <3>1, NextFields
  <2> QED BY <2>1, <2>2, <2>3, FreezeLoses DEF Progresses, Discards, Reasks
<1>3. ASSUME lostEver' = lostEver,
             \/ \E a : job' = [job EXCEPT !.result = a, !.reply = NoValue]
             \/ \E a : job' = [job EXCEPT !.ticket = a]
      PROVE  Progresses(job, job')
  BY <1>1, <1>3, NextFields DEF Progresses, Discards, Reasks
<1>4. CASE Submit
  BY <1>3, <1>4 DEF Submit, historyVars
<1>5. CASE SubmitRefused \/ PollUnknown
  BY <1>2, <1>5 DEF SubmitRefused, PollUnknown
<1>6. CASE EndWorker
  <2>1. lostEver' = lostEver /\ job' = Orphaned(job)
    BY <1>6 DEF EndWorker, historyVars
  <2>2. CASE job' = job
    BY <2>1, <2>2 DEF Progresses, Discards, Reasks
  <2> QED BY <1>3, <2>1, <2>2 DEF Orphaned
<1>7. CASE Receive
  <2>1. ReceiveCommit(job.reply)
    BY <1>7 DEF Receive
  <2>2. CASE job.reply.kind = "Context" /\ DecideContext(job.reply.body)
    BY <1>1, <2>2, DecideProgresses
  <2>3. CASE \E a : End(a) /\ lostEver' = lostEver
    BY <1>3, <2>3 DEF End
  <2>4. CASE /\ job.reply.kind = "Error" /\ job.reply.body = "StaleRevision"
             /\ job' = [NextRequest(job, "Context", ContextRequest(job.event))
                          EXCEPT !.retries = @ + 1]
             /\ lostEver' = lostEver
    BY <1>1, <2>4, AskedFields DEF Progresses, Discards, Reasks
  <2>5. CASE EndUncertain(job.reply.body)
    BY <1>2, <2>5
  <2> QED BY <2>1, <2>2, <2>3, <2>4, <2>5, Zenon DEF ReceiveCommit
<1> QED BY <1>4, <1>5, <1>6, <1>7

LEMMA ReconcileProgresses ==
  ASSUME CallInv, RequestInv, TermsInv, lostEver \in Nat, job # NoJob, job.kind # "Commit",
         Submit \/ SubmitRefused \/ PollUnknown \/ Receive \/ EndWorker
  PROVE  /\ job' # NoJob /\ job'.kind = job.kind /\ job'.request = job.request
         /\ \E n \in Nat : lostEver' = lostEver + n
<1>1. IsReconcileJob(job) /\ job.request.op = "Reconcile"
  BY JobKinds DEF CallInv
<1>2. ASSUME \/ \E a : job' = [job EXCEPT !.result = a, !.reply = NoValue]
             \/ \E a : job' = [job EXCEPT !.ticket = a]
             \/ job' = job
      PROVE  job' # NoJob /\ job'.kind = job.kind /\ job'.request = job.request
  <2>1. job'.kind = "Reconcile" /\ job.kind = "Reconcile" /\ NoJob.kind # "Reconcile"
    BY <1>1, <1>2 DEF IsReconcileJob, ReconcileFields, NoJob
  <2>2. job'.request = job.request
    BY <1>1, <1>2 DEF IsReconcileJob, ReconcileFields
  <2> QED BY <2>1, <2>2
<1>3. ASSUME lostEver' = lostEver
      PROVE  \E n \in Nat : lostEver' = lostEver + n
  <2>1. lostEver' = lostEver + 0
    BY <1>3
  <2> QED BY <2>1
<1>4. CASE Submit \/ EndWorker
  <2>1. lostEver' = lostEver
    BY <1>4 DEF Submit, EndWorker, historyVars
  <2>2. \/ \E a : job' = [job EXCEPT !.ticket = a]
        \/ job' = job
    BY <1>4 DEF Submit, EndWorker, Orphaned
  <2> QED BY <1>2, <1>3, <2>1, <2>2
<1>5. CASE SubmitRefused \/ PollUnknown
  <2>1. lostEver' = lostEver /\ \E a : End(a)
    BY <1>5, Zenon DEF SubmitRefused, PollUnknown, EndUncertain
  <2> QED BY <1>2, <1>3, <2>1 DEF End
<1>6. CASE Receive
  <2> DEFINE q == job.request.body
             old == registry[q.producer]
             n == IF old = NoValue THEN 0 ELSE old.queued
  <2>1. /\ \E a : End(a)
        /\ lostEver' = lostEver \/ lostEver' = lostEver + n
    <3>1. ReceiveReconcile(job.reply)
      BY <1>6 DEF Receive
    <3> QED BY <3>1, Zenon DEF ReceiveReconcile
  <2>2. n \in Nat
    <3>1. job.request \in Requests
      BY DEF Requests
    <3>2. q.producer \in Producers
      BY <1>1, <3>1 DEF RequestInv
    <3> QED BY <3>2 DEF TermsInv, Counts
  <2> HIDE DEF n
  <2> QED BY <1>2, <1>3, <2>1, <2>2 DEF End
<1> QED BY <1>4, <1>5, <1>6

\* An answer reaches the job that holds the ticket and changes nothing else of
\* what jobs know.
LEMMA AnswerLeaves ==
  ASSUME CallInv, queue # <<>>, NEW reply, Answer(reply)
  PROVE  /\ Queued' \subseteq Queued
         /\ job = NoJob => job' = NoJob
         /\ job # NoJob =>
              /\ job' # NoJob /\ job'.kind = job.kind /\ job'.request = job.request
              /\ job.kind = "Commit" => job'.event = job.event /\ job'.discarded = job.discarded
              /\ \/ job'.reply = job.reply
                 \/ job'.reply = reply /\ job.request = Head(queue).request
<1>1. Head(queue) = queue[1] /\ 1 \in 1..Len(queue)
  BY QueueFacts DEF CallInv
<1>2. Queued' \subseteq Queued
  BY QueuedShrinks DEF Answer
<1>3. CASE Head(queue).awaited
  <2>1. /\ JobCalls(job, accepted) /\ job.request = Head(queue).request
        /\ job' = [job EXCEPT !.reply = reply]
    BY <1>1, <1>3 DEF CallInv, Awaits, Answer
  <2>2. IsCommitJob(job) \/ IsReconcileJob(job)
    BY <2>1 DEF JobCalls
  <2>3. job'.kind \in {"Commit", "Reconcile"} /\ job.kind \in {"Commit", "Reconcile"}
    BY <2>1, <2>2 DEF IsCommitJob, IsReconcileJob, CommitFields, ReconcileFields
  <2>4. NoJob.kind \notin {"Commit", "Reconcile"}
    BY DEF NoJob
  <2>5. job'.kind = job.kind /\ job'.request = job.request /\ job'.reply = reply
    BY <2>1, <2>2 DEF IsCommitJob, IsReconcileJob, CommitFields, ReconcileFields
  <2>6. job.kind = "Commit" => job'.event = job.event /\ job'.discarded = job.discarded
    BY <2>1, <2>2 DEF IsCommitJob, IsReconcileJob, CommitFields, ReconcileFields
  <2> QED BY <1>2, <2>1, <2>3, <2>4, <2>5, <2>6
<1>4. CASE ~Head(queue).awaited
  <2>1. job' = job \/ (Running /\ job' = [job EXCEPT !.ticket = "Lost"])
    BY <1>4 DEF Answer, Orphaned
  <2>2. CASE job' = job
    BY <1>2, <2>2
  <2>3. CASE Running /\ job' = [job EXCEPT !.ticket = "Lost"]
    <3>1. job # NoJob /\ (IsCommitJob(job) \/ IsReconcileJob(job))
      BY <2>3 DEF Running, CallInv, JobCalls
    <3>2. job'.kind \in {"Commit", "Reconcile"} /\ NoJob.kind \notin {"Commit", "Reconcile"}
      BY <2>3, <3>1 DEF IsCommitJob, IsReconcileJob, CommitFields, ReconcileFields, NoJob
    <3>3. job'.kind = job.kind /\ job'.request = job.request /\ job'.reply = job.reply
      BY <2>3, <3>1 DEF IsCommitJob, IsReconcileJob, CommitFields, ReconcileFields
    <3>4. job.kind = "Commit" => job'.event = job.event /\ job'.discarded = job.discarded
      BY <2>3, <3>1 DEF IsCommitJob, IsReconcileJob, CommitFields, ReconcileFields
    <3> QED BY <1>2, <3>1, <3>2, <3>3, <3>4
  <2> QED BY <2>1, <2>2, <2>3
<1> QED BY <1>3, <1>4

\* What the worker may do with the request at the head of its queue.
LEMMA ExecuteCases ==
  ASSUME Execute
  PROVE  LET request == Head(queue).request
         IN  /\ queue # <<>> /\ lostEver' = lostEver /\ pending' = pending
             /\ \/ /\ UNCHANGED storeVars
                   /\ \E reply : /\ Answer(reply)
                                 /\ \/ reply.kind = "Context" /\ request.op = "Context"
                                    \/ reply.kind \notin {"Context", "Error"}
                                    \/ /\ reply.kind = "Error"
                                       /\ \/ request.op = "Reconcile"
                                          \/ /\ request.op = "Apply"
                                             /\ reply.body = ApplyOutcome(request.body)
                                          \/ /\ request.op = "RetireProducer"
                                             /\ reply.body = RetireOutcome(request.body)
                \/ /\ \/ request.op = "Apply" /\ Apply(request.body)
                      \/ request.op = "Reconcile" /\ Reconcile(request.body)
                      \/ request.op = "RetireProducer" /\ RetireProducer(request.body)
                   /\ \E reply : Answer(reply) /\ reply.kind \notin {"Context", "Error"}
<1> DEFINE request == Head(queue).request
           Untouched == \E reply : /\ Answer(reply)
                               /\ \/ reply.kind = "Context" /\ request.op = "Context"
                                  \/ reply.kind \notin {"Context", "Error"}
                                  \/ /\ reply.kind = "Error"
                                     /\ \/ request.op = "Reconcile"
                                        \/ /\ request.op = "Apply"
                                           /\ reply.body = ApplyOutcome(request.body)
                                        \/ /\ request.op = "RetireProducer"
                                           /\ reply.body = RetireOutcome(request.body)
           Done == \E reply : Answer(reply) /\ reply.kind \notin {"Context", "Error"}
<1>1. queue # <<>> /\ lostEver' = lostEver /\ pending' = pending
  BY DEF Execute
<1>2. ASSUME NEW kind, kind \notin {"Context", "Error"}, NEW body, Answer([kind |-> kind, body |-> body])
      PROVE  Untouched /\ Done
  <2> DEFINE reply == [kind |-> kind, body |-> body]
  <2>1. reply.kind \notin {"Context", "Error"} /\ Answer(reply)
    BY <1>2
  <2> HIDE DEF reply
  <2> QED BY <2>1, Zenon
<1>3. ASSUME NEW body, Answer([kind |-> "Error", body |-> body]),
             \/ request.op = "Reconcile"
             \/ request.op = "Apply" /\ body = ApplyOutcome(request.body)
             \/ request.op = "RetireProducer" /\ body = RetireOutcome(request.body)
      PROVE  Untouched
  <2> DEFINE reply == [kind |-> "Error", body |-> body]
  <2>1. reply.kind = "Error" /\ reply.body = body /\ Answer(reply)
    BY <1>3
  <2> HIDE DEF reply
  <2> QED BY <1>3, <2>1, Zenon
<1>4. CASE request.op = "Context" /\ ExecuteContext(request.body)
  <2>1. PICK body : Answer([kind |-> "Context", body |-> body])
    BY <1>4, Zenon DEF ExecuteContext
  <2> DEFINE reply == [kind |-> "Context", body |-> body]
  <2>2. reply.kind = "Context" /\ Answer(reply)
    BY <2>1
  <2> HIDE DEF reply
  <2>3. Untouched
    BY <1>4, <2>2, Zenon
  <2>4. UNCHANGED storeVars
    BY <1>4 DEF ExecuteContext
  <2> QED BY <1>1, <2>3, <2>4
<1> HIDE DEF Untouched, Done
<1>5. CASE request.op = "Apply" /\ ExecuteApply(request.body)
  <2>1. \/ Apply(request.body) /\ Answer([kind |-> "Committed", body |-> revision + 1])
        \/ UNCHANGED storeVars /\ \E body : Answer([kind |-> "Committed", body |-> body])
        \/ /\ UNCHANGED storeVars
           /\ Answer([kind |-> "Error", body |-> ApplyOutcome(request.body)])
    BY <1>5, Zenon DEF ExecuteApply, Apply
  <2> QED BY <1>1, <1>2, <1>3, <1>5, <2>1 DEF Untouched, Done
<1>6. CASE request.op = "RetireProducer" /\ ExecuteRetire(request.body)
  <2>1. \/ RetireProducer(request.body) /\ Answer([kind |-> "Retired", body |-> revision + 1])
        \/ /\ UNCHANGED storeVars
           /\ Answer([kind |-> "Error", body |-> RetireOutcome(request.body)])
    BY <1>6, Zenon DEF ExecuteRetire
  <2> QED BY <1>1, <1>2, <1>3, <1>6, <2>1 DEF Untouched, Done
<1>7. CASE request.op = "Reconcile" /\ ExecuteReconcile(request.body)
  <2>1. \/ Reconcile(request.body) /\ Answer([kind |-> "Registered", body |-> issued + 1])
        \/ /\ UNCHANGED storeVars
           /\ Answer([kind |-> "Error", body |-> ReconcileOutcome(request.body)])
    BY <1>7, Zenon DEF ExecuteReconcile
  <2> QED BY <1>1, <1>2, <1>3, <1>7, <2>1 DEF Untouched, Done
<1> QED BY <1>4, <1>5, <1>6, <1>7 DEF Execute

-----------------------------------------------------------------------------
(* What transactions do to what is still owed                              *)

\* Only the worker's own step executes a request.
LEMMA StoreElsewhere ==
  ASSUME [CoordNext]_vars, ~Execute
  PROVE  \/ UNCHANGED storeVars
         \/ /\ UNCHANGED <<queue, job, pending, lostEver>>
            /\ \/ OtherWrite \/ Reopen
               \/ Maintain(IF CleanupFacts THEN facts ELSE {}, tombstones, {})
<1>1. CASE OtherRequest \/ StartWorker
  BY <1>1 DEF OtherRequest, StartWorker, managerVars, historyVars
<1>2. CASE \E p \in Producers : Admit(p) \/ Pop(p) \/ Block(p)
  BY <1>2 DEF Admit, Pop, Block
<1>3. CASE \E p \in Producers, r \in Runs, g \in 1..issued, envelope \in Envelopes :
             Stage(p, r, g, envelope)
  BY <1>3 DEF Stage
<1>4. CASE \E e \in spool, policy \in Policies, notify \in NotifyChoices :
             StartCommit(e, policy, notify)
  BY <1>4 DEF StartCommit
<1>5. CASE \E p \in Producers, r \in Runs, first \in FirstSequences,
              baseline \in Baselines \cup {NoValue} :
              \E resolved, continued \in {NoValue, projections[r].current} :
                \E previous \in Believed(p) :
                  StartReconcile(p, r, first, previous, baseline, resolved, continued)
  <2>1. \A p, r, first, previous, baseline, resolved, continued :
          StartReconcile(p, r, first, previous, baseline, resolved, continued) => UNCHANGED storeVars
    BY DEF StartReconcile
  <2> QED BY <1>5, <2>1
<1>6. CASE ResumeCommit \/ Submit \/ SubmitRefused \/ PollUnknown \/ Receive \/ TakeCommitted
  BY <1>6 DEF ResumeCommit, Submit, SubmitRefused, PollUnknown, Receive, TakeCommitted
<1>7. CASE Retain \/ Drop \/ Confirm \/ RequestShutdown \/ EndWorker \/ Crash
  BY <1>7 DEF Retain, Drop, Confirm, RequestShutdown, EndWorker, Crash
<1>8. CASE UNCHANGED vars
  BY <1>8 DEF vars
<1> QED BY <1>1, <1>2, <1>3, <1>4, <1>5, <1>6, <1>7, <1>8 DEF CoordNext

LEMMA ExecutedWas ==
  ASSUME NEW r,
         \/ r.op = "Apply" /\ Apply(r.body)
         \/ r.op = "Reconcile" /\ Reconcile(r.body)
         \/ r.op = "RetireProducer" /\ RetireProducer(r.body)
  PROVE  /\ Countable(r) /\ r.body.expected = revision
         /\ discarded' = discarded + r.body.discarded
         /\ revision' = revision + 1
<1>1. CASE r.op = "Apply" /\ Apply(r.body)
  <2> DEFINE w == r.body
  <2>1. ApplyOutcome(w) = "Ok" /\ ApplyEffect(w)
    BY <1>1 DEF Apply
  <2>2. RevisionOutcome(w.expected) = "Ok" /\ ScopeOutcome(w.fact) = "Ok"
    BY <2>1, ApplyOk
  <2>3. ~Written(w)
    <3>1. StoredFor(w.fact) = {}
      BY <2>1 DEF ApplyOutcome
    <3> HIDE DEF w
    <3> QED BY <3>1 DEF Written, StoredFor
  <2>4. w.expected = revision /\ Live(w.fact)
    BY <2>2 DEF RevisionOutcome, ScopeOutcome, Live
  <2> QED BY <1>1, <2>1, <2>3, <2>4 DEF Countable, ApplyEffect, Advance
<1>2. CASE r.op = "Reconcile" /\ Reconcile(r.body)
  <2>1. RevisionOutcome(r.body.expected) = "Ok"
    BY <1>2 DEF Reconcile, ReconcileOutcome, FirstFailure
  <2> QED BY <1>2, <2>1 DEF Countable, RevisionOutcome, Reconcile, ReconcileEffect, Advance
<1>3. CASE r.op = "RetireProducer" /\ RetireProducer(r.body)
  <2> DEFINE q == r.body
  <2>1. RetireOutcome(q) = "Ok" /\ RetireEffect(q)
    BY <1>3 DEF RetireProducer
  <2> HIDE DEF q
  <2>2. /\ q.expected = revision /\ producers[q.producer] # NoValue
        /\ producers[q.producer].active /\ producers[q.producer].generation = q.generation
    BY <2>1 DEF RetireOutcome, RevisionOutcome, FirstFailure
  <2>3. discarded' = discarded + q.discarded /\ revision' = revision + 1
    BY <2>1 DEF RetireEffect, Advance
  <2>4. q.expected = revision /\ Live(q)
    BY <2>2 DEF Live
  <2> QED BY <1>3, <2>3, <2>4 DEF Countable, q
<1> QED BY <1>1, <1>2, <1>3

\* A generation that was closed stays closed: nothing but a reconciliation opens
\* one, and that one is new.
LEMMA ClosedStays ==
  ASSUME CallInv, RequestInv, OrderInv, [CoordNext]_vars,
         NEW x, x.producer \in Producers, x.generation \in 1..issued, Live(x)'
  PROVE  Live(x)
<1> DEFINE p == x.producer
<1>1. /\ producers = [s \in Producers |-> producers[s]] /\ issued \in Nat
      /\ \A s \in Producers : producers[s] # NoValue =>
            producers[s] = [f \in RowFields |-> producers[s][f]]
  BY DEF OrderInv, IsRow
<1>2. CASE producers' = producers
  BY <1>2 DEF Live
<1>3. ASSUME NEW retired \in SUBSET ActiveProducers, Retire(retired)
      PROVE  Live(x)
  <2>1. CASE p \in retired
    <3>1. producers'[p] = [producers[p] EXCEPT !.active = FALSE, !.reconciled = FALSE]
          /\ producers[p] # NoValue
      BY <1>3, <2>1 DEF Retire, Deactivate, ActiveProducers
    <3>2. producers'[p].active = FALSE
      BY <1>1, <3>1 DEF RowFields
    <3> QED BY <3>2 DEF Live
  <2>2. CASE p \notin retired
    <3>1. producers'[p] = producers[p]
      BY <1>3, <2>2 DEF Retire, Deactivate
    <3> QED BY <3>1 DEF Live
  <2> QED BY <2>1, <2>2
<1>4. ASSUME NEW r \in Queued, r.op = "Apply", Apply(r.body)
      PROVE  Live(x)
  <2> DEFINE e == r.body.fact
  <2>1. ScopeOutcome(e) = "Ok" /\ ApplyEffect(r.body)
    BY <1>4, ApplyOk DEF Apply
  <2>2. producers[e.producer] # NoValue /\ producers[e.producer].active
    BY <2>1 DEF ScopeOutcome
  <2>3. e.producer \in Producers
    BY <1>4 DEF RequestInv, Requests
  <2>4. \E a, b, c : producers' = [producers EXCEPT ![e.producer] =
                       [@ EXCEPT !.next = a, !.active = b, !.reconciled = c]]
    BY <2>1, Zenon DEF ApplyEffect
  <2>5. PICK a, b, c : producers' = [producers EXCEPT ![e.producer] =
                       [@ EXCEPT !.next = a, !.active = b, !.reconciled = c]]
    BY <2>4
  <2> HIDE DEF e
  <2>6. CASE p = e.producer
    <3>1. producers'[p] = [producers[p] EXCEPT !.next = a, !.active = b, !.reconciled = c]
      BY <1>1, <2>5, <2>6
    <3>2. producers'[p].generation = producers[p].generation
      BY <1>1, <2>2, <2>6, <3>1 DEF RowFields
    <3> QED BY <2>2, <2>6, <3>2 DEF Live
  <2>7. CASE p # e.producer
    <3>1. producers'[p] = producers[p]
      BY <1>1, <2>5, <2>7
    <3> QED BY <3>1 DEF Live
  <2> QED BY <2>6, <2>7
<1>5. ASSUME NEW r \in Queued, Reconcile(r.body)
      PROVE  Live(x)
  <2> DEFINE q == r.body
  <2>1. \E row : producers' = [producers EXCEPT ![q.producer] = row] /\ row.generation = issued + 1
    <3> DEFINE row == [generation |-> issued + 1, run |-> q.run, next |-> q.next,
                       active |-> q.baseline # NoValue, reconciled |-> q.baseline # NoValue]
    <3>1. producers' = [producers EXCEPT ![q.producer] = row]
      BY <1>5 DEF Reconcile, ReconcileEffect
    <3>2. row.generation = issued + 1
      OBVIOUS
    <3> HIDE DEF row
    <3> QED BY <3>1, <3>2
  <2>2. PICK row : producers' = [producers EXCEPT ![q.producer] = row] /\ row.generation = issued + 1
    BY <2>1
  <2> HIDE DEF q
  <2>3. CASE p = q.producer
    <3>1. producers'[p].generation = issued + 1
      BY <1>1, <2>2, <2>3
    <3> QED BY <1>1, <3>1 DEF Live
  <2>4. CASE p # q.producer
    <3>1. producers'[p] = producers[p]
      BY <1>1, <2>2, <2>4
    <3> QED BY <3>1 DEF Live
  <2> QED BY <2>3, <2>4
<1>6. ASSUME NEW r \in Queued, r.op = "RetireProducer", RetireProducer(r.body)
      PROVE  Live(x)
  <2> DEFINE q == r.body
  <2>1. RetireOutcome(q) = "Ok" /\ Retire({q.producer})
    BY <1>6 DEF RetireProducer, RetireEffect
  <2>2. q.producer \in Producers
    BY <1>6 DEF RequestInv, Requests
  <2> HIDE DEF q
  <2>3. producers[q.producer] # NoValue /\ producers[q.producer].active
    BY <2>1 DEF RetireOutcome, FirstFailure
  <2>4. {q.producer} \in SUBSET ActiveProducers
    BY <2>2, <2>3 DEF ActiveProducers
  <2> QED BY <1>3, <2>1, <2>4
<1>7. CASE OtherWrite
  BY <1>2, <1>7 DEF OtherWrite
<1>8. CASE Reopen
  BY <1>3, <1>8 DEF Reopen
<1>9. CASE Maintain(IF CleanupFacts THEN facts ELSE {}, tombstones, {})
  <2>1. Retire(Unprotected(tombstones))
    BY <1>9 DEF Maintain
  <2>2. Unprotected(tombstones) \in SUBSET ActiveProducers
    BY DEF Unprotected
  <2> QED BY <1>3, <2>1, <2>2
<1>10. CASE UNCHANGED <<storeVars, accepted>>
  BY <1>2, <1>10 DEF storeVars
<1> QED BY <1>4, <1>5, <1>6, <1>7, <1>8, <1>9, <1>10, StoreSteps

\* While no fact is old enough to be removed, a write that is stored stays so;
\* one is added by its own execution only.
LEMMA WrittenStays ==
  ASSUME CallInv, [CoordNext]_vars, ~CleanupFacts, NEW w
  PROVE  /\ Written(w) => Written(w)'
         /\ Written(w)' => Written(w) \/ w.expected = revision
<1>1. CASE facts' = facts
  BY <1>1 DEF Written
<1>2. ASSUME NEW r \in Queued, r.op = "Apply", Apply(r.body)
      PROVE  /\ Written(w) => Written(w)'
             /\ Written(w)' => Written(w) \/ w.expected = revision
  <2>1. facts' = facts \cup {[write |-> r.body, revision |-> revision + 1]}
    BY <1>2 DEF Apply, ApplyEffect
  <2>2. r.body.expected = revision
    BY <1>2, ExecutedWas
  <2> QED BY <2>1, <2>2 DEF Written
<1>3. CASE \E r \in Queued : Reconcile(r.body)
  BY <1>1, <1>3 DEF Reconcile, ReconcileEffect
<1>4. CASE \E r \in Queued : RetireProducer(r.body)
  BY <1>1, <1>4 DEF RetireProducer, RetireEffect
<1>5. CASE OtherWrite \/ Reopen \/ Maintain(IF CleanupFacts THEN facts ELSE {}, tombstones, {})
  BY <1>1, <1>5 DEF OtherWrite, Reopen, Maintain
<1>6. CASE UNCHANGED <<storeVars, accepted>>
  BY <1>1, <1>6 DEF storeVars
<1> QED BY <1>2, <1>3, <1>4, <1>5, <1>6, StoreSteps

\* The store in view of a request or a commit: nothing it may do grows with time.
LEMMA SettledStays ==
  ASSUME CallInv, RequestInv, OrderInv, ClosedInv, ~CleanupFacts, [CoordNext]_vars,
         NEW c, c.event \in Subjects, Settled(c)
  PROVE  Settled(c)'
<1>1. c.event.producer \in Producers /\ c.event.generation \in 1..issued
  BY DEF RequestInv, ClosedInv
<1>2. ~Live(c.event) => ~Live(c.event)'
  BY <1>1, ClosedStays
<1>3. Written(c.request.body) => Written(c.request.body)'
  BY WrittenStays
<1> QED BY <1>2, <1>3 DEF Settled

LEMMA OvertakenStays ==
  ASSUME CallInv, ~CleanupFacts, [CoordNext]_vars, revision \in Nat,
         NEW r, PastRetirement(r), RequestCurrent(r), Overtaken(r)
  PROVE  Overtaken(r)'
<1>1. r.op = "Apply" => r.body.expected \in Nat
  BY DEF RequestCurrent, WriteCurrent
<1>2. r.op = "RetireProducer" => r.body.expected \in Nat
  BY DEF PastRetirement
<1>3. revision' \in Nat /\ revision <= revision'
  BY RevisionMoves DEF storeVars
<1>4. Written(r.body)' => Written(r.body) \/ r.body.expected = revision
  BY WrittenStays
<1> QED BY <1>1, <1>2, <1>3, <1>4 DEF Overtaken

\* Once the revision moves, no request made before can be executed.
LEMMA NothingCountable ==
  ASSUME SerialInv, LossInv, NEW r, r \in Requests, revision' = revision + 1
  PROVE  ~Countable(r)'
<1>1. RequestCurrent(r) /\ PastRetirement(r) /\ revision \in Nat
  BY DEF SerialInv, LossInv
<1>2. r.op \in {"Apply", "Reconcile", "RetireProducer"} =>
        r.body.expected \in Nat /\ r.body.expected <= revision
  BY <1>1 DEF RequestCurrent, WriteCurrent, ReconciliationCurrent, PastRetirement
<1>3. r.op \in {"Apply", "Reconcile", "RetireProducer"} => r.body.expected # revision'
  BY <1>1, <1>2
<1> QED BY <1>3 DEF Countable

LEMMA CountableNat ==
  ASSUME SerialInv, NEW r, r \in Requests, Countable(r)
  PROVE  r.body.discarded \in Nat
<1>1. RequestCurrent(r)
  BY DEF SerialInv
<1>2. CASE r.op = "Apply" /\ r.body.expected = revision
  <2>1. PICK policy \in Policies, notify \in NotifyChoices, lost \in Nat :
          r.body = WriteOf(r.body.fact, policy, notify, lost)
    BY <1>1, <1>2 DEF RequestCurrent, WriteCurrent
  <2>2. WriteOf(r.body.fact, policy, notify, lost).discarded = lost
    BY DEF WriteOf
  <2> QED BY <2>1, <2>2
<1>3. CASE r.op = "RetireProducer"
  <2>1. PICK expected, generation : \E p \in Producers, lost \in Nat :
          r.body = [expected |-> expected, producer |-> p, generation |-> generation,
                    discarded |-> lost]
    BY <1>1, <1>3 DEF RequestCurrent, RetirementTyped
  <2> QED BY <2>1
<1>4. CASE r.op = "Reconcile" /\ r.body.expected = revision
  <2> DEFINE q == r.body
  <2>1. PICK p \in Producers, run \in Runs, first \in FirstSequences,
             baseline \in Baselines \cup {NoValue}, lost \in Nat :
          \E previous : \E resolved, continued \in {NoValue, projections[run].current} :
            q = [ReconciliationOf(p, run, first, baseline, lost, resolved, continued)
                   EXCEPT !.previous = previous]
    BY <1>1, <1>4 DEF RequestCurrent, ReconciliationCurrent
  <2>2. PICK previous, resolved, continued :
            q = [ReconciliationOf(p, run, first, baseline, lost, resolved, continued)
                   EXCEPT !.previous = previous]
    BY <2>1
  <2> HIDE DEF q
  <2>3. q.discarded = lost
    BY <2>2 DEF ReconciliationOf
  <2> QED BY <2>3 DEF q
<1> QED BY <1>2, <1>3, <1>4 DEF Countable

LEMMA OwedNat ==
  SerialInv /\ TermsInv => JobOwes(job) \in Nat /\ PendingOwes(pending) \in Nat
<1> SUFFICES ASSUME SerialInv, TermsInv
             PROVE  JobOwes(job) \in Nat /\ PendingOwes(pending) \in Nat
  OBVIOUS
<1>1. job # NoJob => job.request \in Requests
  BY DEF Requests
<1>2. job # NoJob /\ job.kind # "Commit" /\ Countable(job.request)
        => job.request.body.discarded \in Nat
  BY <1>1, CountableNat
<1>3. /\ job # NoJob /\ job.kind = "Commit" => job.discarded \in Nat
      /\ pending # NoValue => pending.discarded \in Nat
  BY DEF TermsInv, Terms
<1> QED BY <1>2, <1>3 DEF JobOwes, PendingOwes, Owed

LEMMA OwedNatNext ==
  (SerialInv /\ TermsInv)' => (JobOwes(job) \in Nat /\ PendingOwes(pending) \in Nat)'
BY OwedNat, PTL

\* A request that may still be executed is owed by whoever holds it.
LEMMA HeldIsOwed ==
  ASSUME CallInv, SerialInv, TermsInv, LossInv, NEW r, r \in Held, Countable(r)
  PROVE  \/ r.body.discarded <= JobOwes(job) /\ job # NoJob /\ r = job.request
         \/ r.body.discarded <= PendingOwes(pending) /\ pending # NoValue /\ r = pending.request
<1>1. ASSUME NEW c, r = c.request, Carries(c), CarriesOut(r, c.event)
      PROVE  r.body.discarded <= Owed(c)
  <2>1. r.op \in {"Apply", "RetireProducer"}
    BY <1>1 DEF CarriesOut, Countable
  <2>2. ~Settled(c)
    <3>1. CASE r.op = "Apply"
      BY <1>1, <3>1 DEF Countable, Settled, Carries
    <3>2. CASE r.op = "RetireProducer"
      <4>1. Live(r.body) /\ r.body.producer = c.event.producer
            /\ r.body.generation = c.event.generation
        BY <1>1, <3>2 DEF Countable, Carries
      <4> QED BY <1>1, <3>2, <4>1 DEF Settled, Live
    <3> QED BY <2>1, <3>1, <3>2
  <2> QED BY <1>1, <2>1, <2>2 DEF Owed, Carries
<1>2. CASE job # NoJob /\ r = job.request /\ job.kind = "Commit"
  <2>1. Carries(job) /\ CarriesOut(r, job.event)
    BY <1>2, JobKinds DEF LossInv, CallInv
  <2> QED BY <1>1, <1>2, <2>1 DEF JobOwes
<1>3. CASE job # NoJob /\ r = job.request /\ job.kind # "Commit"
  <2>1. r \in Requests
    BY <1>3 DEF Requests
  <2>2. JobOwes(job) = r.body.discarded /\ r.body.discarded \in Nat
    BY <1>3, <2>1, CountableNat DEF JobOwes
  <2> QED BY <1>3, <2>2
<1>4. CASE pending # NoValue /\ r = pending.request
  <2>1. Carries(pending) /\ CarriesOut(r, pending.event)
    BY <1>4 DEF LossInv, CallInv
  <2> QED BY <1>1, <1>4, <2>1 DEF PendingOwes
<1> QED BY <1>2, <1>3, <1>4 DEF Held

\* While the store stays as it is, what is owed moves with jobs only.
LEMMA SameView ==
  ASSUME UNCHANGED storeVars
  PROVE  /\ discarded' = discarded
         /\ JobOwes(job)' = JobOwes(job') /\ PendingOwes(pending)' = PendingOwes(pending')
         /\ \A r : Countable(r)' = Countable(r)
<1>1. /\ producers' = producers /\ facts' = facts /\ revision' = revision
      /\ discarded' = discarded
  BY DEF storeVars
<1>2. \A x : Live(x)' = Live(x) /\ Written(x)' = Written(x)
  BY <1>1 DEF Live, Written
<1>3. \A r : Countable(r)' = Countable(r)
  BY <1>1 DEF Countable, Live, Written
<1>4. JobOwes(job)' = JobOwes(job') /\ PendingOwes(pending)' = PendingOwes(pending')
  BY <1>1 DEF JobOwes, PendingOwes, Owed, Settled, Countable, Live, Written
<1> QED BY <1>1, <1>3, <1>4

LEMMA BalanceQuietly ==
  ASSUME SerialInv, TermsInv, LossInv, Balanced, SerialInv', TermsInv', UNCHANGED storeVars,
         NEW n \in Nat, lostEver' = lostEver + n,
         JobOwes(job') + PendingOwes(pending') <= Owes + n,
         \A r \in Queued' \ Held' : Countable(r) =>
           \/ r \in Queued \ Held
           \/ /\ r \in Requests
              /\ JobOwes(job') + PendingOwes(pending') + r.body.discarded <= Owes + n
  PROVE  Balanced'
<1> DEFINE after == JobOwes(job') + PendingOwes(pending')
<1>1. /\ discarded' = discarded
      /\ JobOwes(job)' = JobOwes(job') /\ PendingOwes(pending)' = PendingOwes(pending')
      /\ \A r : Countable(r)' = Countable(r)
  BY SameView
<1>2. JobOwes(job') \in Nat /\ PendingOwes(pending') \in Nat
  BY <1>1, OwedNatNext
<1>3. Owes' = after
  BY <1>1 DEF Owes
<1>4. Owes \in Nat
  BY OwedNat DEF Owes
<1>5. after \in Nat /\ after <= Owes + n
  BY <1>2
<1>6. discarded \in Nat /\ lostEver \in Nat /\ discarded + Owes <= lostEver
  BY DEF LossInv, Balanced
<1> HIDE DEF after
<1>7. discarded' + Owes' <= lostEver'
  BY <1>1, <1>3, <1>4, <1>5, <1>6
<1>8. ASSUME NEW r \in Queued' \ Held', Countable(r)'
      PROVE  discarded' + Owes' + r.body.discarded <= lostEver'
  <2>1. Countable(r)
    BY <1>1, <1>8
  <2>2. CASE r \in Queued \ Held
    <3>1. r.body.discarded \in Nat
      BY <2>1, <2>2, CountableNat DEF Requests
    <3>2. discarded + Owes + r.body.discarded <= lostEver
      BY <2>1, <2>2 DEF Balanced
    <3> QED BY <3>1, <3>2, <1>1, <1>3, <1>4, <1>5, <1>6
  <2>3. CASE r \in Requests /\ after + r.body.discarded <= Owes + n
    <3>1. r.body.discarded \in Nat
      BY <2>1, <2>3, CountableNat
    <3> QED BY <3>1, <2>3, <1>1, <1>3, <1>4, <1>5, <1>6
  <2> QED BY <2>1, <2>2, <2>3, <1>8 DEF after
<1> QED BY <1>7, <1>8 DEF Balanced

\* What is known before a step.
Books ==
  /\ CallInv /\ RequestInv /\ OrderInv /\ TermsInv /\ SerialInv /\ ClosedInv
  /\ LossInv /\ Balanced

\* Steps that leave jobs, queue and store alone.
LEMMA BalanceElsewhere ==
  ASSUME Books, SerialInv', TermsInv', UNCHANGED storeVars, Queued' \subseteq Queued,
         UNCHANGED <<job, pending, lostEver>>
  PROVE  Balanced'
<1>1. Owes \in Nat /\ lostEver \in Nat
  BY OwedNat DEF Books, Owes, LossInv
<1>2. JobOwes(job') + PendingOwes(pending') <= Owes + 0
  BY <1>1 DEF Owes
<1>3. Held' = Held
  BY DEF Held
<1>4. lostEver' = lostEver + 0
  BY <1>1
<1>5. \A r \in Queued' \ Held' : r \in Queued \ Held
  BY <1>3
<1> QED BY <1>2, <1>4, <1>5, BalanceQuietly DEF Books

LEMMA BalanceStarted ==
  ASSUME Books, SerialInv', TermsInv', UNCHANGED storeVars, queue' = queue, pending' = pending,
         job = NoJob, NEW n \in Nat, lostEver' = lostEver + n, JobOwes(job') \in 0..n
  PROVE  Balanced'
<1>1. JobOwes(job) = 0 /\ PendingOwes(pending) \in Nat
  BY OwedNat DEF JobOwes, Books
<1>2. JobOwes(job') + PendingOwes(pending') <= Owes + n
  BY <1>1 DEF Owes
<1>3. \A r \in Queued' \ Held' : r \in Queued \ Held
  BY DEF Held, Queued
<1> QED BY <1>2, <1>3, BalanceQuietly DEF Books

LEMMA StartCommitBalances ==
  ASSUME Books, SerialInv', TermsInv', NEW e, NEW policy, NEW notify, StartCommit(e, policy, notify)
  PROVE  Balanced'
<1>1. job' = CommitJob(e, policy, notify, "Context", ContextRequest(e), 0)
  BY DEF StartCommit
<1>2. job'.kind = "Commit" /\ job'.discarded = 0
  BY <1>1 DEF CommitJob
<1>3. JobOwes(job') = 0
  BY <1>2 DEF JobOwes, Owed
<1>4. lostEver' = lostEver + 0
  BY DEF StartCommit, historyVars, Books, LossInv
<1>5. /\ UNCHANGED storeVars /\ queue' = queue /\ pending' = pending /\ job = NoJob
  BY DEF StartCommit
<1>6. JobOwes(job') \in 0..0
  BY <1>3
<1> QED BY <1>4, <1>5, <1>6, BalanceStarted

LEMMA StartReconcileBalances ==
  ASSUME Books, SerialInv', TermsInv', NEW p \in Producers, NEW r, NEW first, NEW previous, NEW baseline,
         NEW resolved, NEW continued,
         StartReconcile(p, r, first, previous, baseline, resolved, continued)
  PROVE  Balanced'
<1> DEFINE n == Backlog(p, previous)
           q == [ReconciliationOf(p, r, first, baseline, n, resolved, continued)
                   EXCEPT !.previous = previous]
<1>1. /\ UNCHANGED storeVars /\ queue' = queue /\ pending' = pending /\ job = NoJob
      /\ Invalidate(p, previous)
      /\ job' = [kind |-> "Reconcile", request |-> ReconcileRequest(q), ticket |-> "None",
                 reply |-> NoValue, result |-> NoValue]
  BY DEF StartReconcile
<1>2. n \in Nat
  BY BacklogCounts DEF Books, TermsInv
<1>3. lostEver' = lostEver + n
  BY <1>1 DEF Invalidate
<1>4. q.discarded = n
  <2> HIDE DEF n
  <2> QED BY DEF ReconciliationOf
<1> HIDE DEF q
<1>5. /\ job'.kind = "Reconcile" /\ job'.request.body.discarded = n
  BY <1>1, <1>4 DEF ReconcileRequest
<1>6. JobOwes(job') \in 0..n
  <2> HIDE DEF n
  <2> QED BY <1>2, <1>5 DEF JobOwes
<1> HIDE DEF n
<1> QED BY <1>1, <1>2, <1>3, <1>6, BalanceStarted

LEMMA ResumeBalances ==
  ASSUME Books, SerialInv', TermsInv', ResumeCommit
  PROVE  Balanced'
<1>1. /\ UNCHANGED storeVars /\ queue' = queue /\ pending' = NoValue /\ job = NoJob
      /\ pending # NoValue /\ lostEver' = lostEver
      /\ job' = CommitJob(pending.event, pending.policy, pending.notify, pending.purpose,
                      pending.request, pending.discarded)
  BY DEF ResumeCommit, historyVars
<1>2. /\ job'.kind = "Commit" /\ job'.event = pending.event /\ job'.request = pending.request
      /\ job'.discarded = pending.discarded /\ job' # NoJob
  <2>1. NoJob.kind # "Commit"
    BY DEF NoJob
  <2> QED BY <1>1, <2>1 DEF CommitJob
<1>3. JobOwes(job') = PendingOwes(pending) /\ PendingOwes(pending') = 0 /\ JobOwes(job) = 0
  BY <1>1, <1>2 DEF JobOwes, PendingOwes, Owed, Settled
<1>4. PendingOwes(pending) \in Nat /\ lostEver \in Nat
  BY OwedNat DEF Books, LossInv
<1>5. JobOwes(job') + PendingOwes(pending') <= Owes + 0 /\ lostEver' = lostEver + 0
  BY <1>1, <1>3, <1>4 DEF Owes
<1>6. \A r \in Queued' \ Held' : r \in Queued \ Held
  BY <1>1, <1>2 DEF Held, Queued
<1> QED BY <1>1, <1>5, <1>6, BalanceQuietly DEF Books

\* A job that goes on: its commit owes no more than what it owed and just lost.
LEMMA ProgressOwes ==
  ASSUME Books, job # NoJob, job.kind = "Commit", job.reply # NoValue \/ job'.request = job.request,
         Progresses(job, job')
  PROVE  \E n \in Nat : /\ lostEver' = lostEver + n
                        /\ JobOwes(job') <= JobOwes(job) + n
                        /\ job'.request = job.request \/ ~Countable(job.request)
<1>1. job.event.producer \in Producers /\ job.discarded \in Nat /\ lostEver \in Nat
  BY DEF Books, RequestInv, Subjects, TermsInv, Terms, LossInv
<1>2. Backlog(job.event.producer, job.event.generation) \in Nat
  BY <1>1, BacklogCounts DEF Books, TermsInv
<1>3. PICK n \in Nat : lostEver' = lostEver + n /\ job'.discarded = job.discarded + n
  <2>1. CASE job'.discarded = job.discarded /\ lostEver' = lostEver
    <3>1. lostEver' = lostEver + 0 /\ job'.discarded = job.discarded + 0
      BY <2>1, <1>1
    <3> QED BY <3>1
  <2> QED BY <1>2, <2>1 DEF Progresses, Discards
<1>4. job'.kind = "Commit" /\ job' # NoJob /\ job'.event = job.event
  BY DEF Progresses
<1>5. CASE job'.request = job.request
  <2>1. JobOwes(job') <= JobOwes(job) + n
    BY <1>1, <1>3, <1>4, <1>5 DEF JobOwes, Owed, Settled
  <2> QED BY <1>3, <1>5, <2>1
<1>6. CASE job'.request # job.request
  <2>1. Fits(job.reply, job.request)
    BY <1>6 DEF Books, LossInv
  <2>2. CarriesOut(job.request, job.event)
    BY JobKinds DEF Books, CallInv
  <2>3. \/ job.request.op = "Context"
        \/ Overtaken(job.request)
    BY <1>6, <2>1 DEF Fits, Progresses, Reasks
  <2>4. revision \in Nat /\ job.request \in Requests
    BY DEF Books, SerialInv, Requests
  <2>5. ~Countable(job.request)
    BY <2>2, <2>3, <2>4 DEF Overtaken, Countable, CarriesOut
  <2>6. Settled(job) => ~Live(job.event)
    BY <2>3 DEF Settled, Overtaken
  <2>7. Settled(job) => Settled(job')
    BY <1>4, <2>6 DEF Settled
  <2>8. JobOwes(job') <= JobOwes(job) + n
    BY <1>1, <1>3, <1>4, <2>7 DEF JobOwes, Owed
  <2> QED BY <1>3, <2>5, <2>8
<1> QED BY <1>5, <1>6

LEMMA SubmitQueues ==
  ASSUME CallInv, Submit \/ SubmitRefused \/ PollUnknown \/ Receive \/ EndWorker
  PROVE  Queued' \subseteq Queued \cup {job.request}
<1>1. CASE Submit
  <2>1. /\ Len(queue') = Len(queue) + 1 /\ Len(queue) \in Nat
        /\ queue'[Len(queue) + 1] = [request |-> job.request, awaited |-> TRUE]
        /\ \A i \in 1..Len(queue) : queue'[i] = queue[i]
    BY <1>1, QueueFacts DEF CallInv, Submit
  <2>2. ASSUME NEW i \in 1..Len(queue')
        PROVE  queue'[i].request \in Queued \cup {job.request}
    <3>1. CASE i \in 1..Len(queue)
      BY <3>1, <2>1 DEF Queued
    <3>2. CASE i = Len(queue) + 1
      BY <3>2, <2>1
    <3> QED BY <3>1, <3>2, <2>1
  <2> QED BY <2>2 DEF Queued
<1>2. CASE SubmitRefused \/ PollUnknown \/ Receive \/ EndWorker
  <2>1. queue' = queue \/ queue' = <<>>
    BY <1>2 DEF SubmitRefused, PollUnknown, Receive, EndWorker
  <2> QED BY <2>1, QueuedShrinks
<1> QED BY <1>1, <1>2

LEMMA ProgressBalances ==
  ASSUME Books, SerialInv', TermsInv', job # NoJob,
         Submit \/ SubmitRefused \/ PollUnknown \/ Receive \/ EndWorker
  PROVE  Balanced'
<1>1. UNCHANGED storeVars /\ pending' = pending
  BY DEF Submit, SubmitRefused, PollUnknown, Receive, EndWorker
<1>2. Queued' \subseteq Queued \cup {job.request}
  BY SubmitQueues DEF Books
<1>3. /\ job' # NoJob
      /\ \E n \in Nat : /\ lostEver' = lostEver + n
                        /\ JobOwes(job') <= JobOwes(job) + n
                        /\ job'.request = job.request \/ ~Countable(job.request)
  <2>1. CASE job.kind = "Commit"
    <3>1. Progresses(job, job')
      BY <2>1, CommitProgresses DEF Books
    <3>2. job.reply # NoValue \/ job'.request = job.request
      <4>1. CASE Receive
        BY <4>1 DEF Receive
      <4>2. CASE Submit \/ SubmitRefused \/ PollUnknown \/ EndWorker
        <5>1. IsCommitJob(job)
          BY <2>1, JobKinds DEF Books, CallInv
        <5>2. \/ \E a : job' = [job EXCEPT !.ticket = a]
              \/ job' = job
              \/ \E a : job' = [Frozen(job) EXCEPT !.result = a, !.reply = NoValue]
          BY <4>2, <2>1, Zenon DEF Submit, SubmitRefused, PollUnknown, EndWorker, Orphaned, EndUncertain
        <5>3. IsCommitJob(Frozen(job)) /\ Frozen(job).request = job.request
          BY <5>1, FrozenJob
        <5> QED BY <5>1, <5>2, <5>3, NextFields
      <4> QED BY <4>1, <4>2
    <3> QED BY <2>1, <3>1, <3>2, ProgressOwes DEF Progresses
  <2>2. CASE job.kind # "Commit"
    <3>1. /\ job' # NoJob /\ job'.kind = job.kind /\ job'.request = job.request
          /\ \E n \in Nat : lostEver' = lostEver + n
      BY <2>2, ReconcileProgresses DEF Books, LossInv
    <3>2. JobOwes(job') = JobOwes(job) /\ JobOwes(job) \in Nat
      <4>1. JobOwes(job') = JobOwes(job)
        BY <2>2, <3>1 DEF JobOwes
      <4> QED BY <4>1, OwedNat DEF Books
    <3>3. \A n \in Nat : JobOwes(job') <= JobOwes(job) + n
      BY <3>2
    <3> QED BY <3>1, <3>3
  <2> QED BY <2>1, <2>2
<1>4. PICK n \in Nat : /\ lostEver' = lostEver + n
                       /\ JobOwes(job') <= JobOwes(job) + n
                       /\ job'.request = job.request \/ ~Countable(job.request)
  BY <1>3
<1>5. JobOwes(job') + PendingOwes(pending') <= Owes + n
  <2>1. JobOwes(job) \in Nat /\ PendingOwes(pending) \in Nat
    BY OwedNat DEF Books
  <2>2. JobOwes(job)' \in Nat /\ JobOwes(job)' = JobOwes(job')
    BY <1>1, OwedNatNext, SameView
  <2> QED BY <1>1, <1>4, <2>1, <2>2 DEF Owes
<1>6. ASSUME NEW r \in Queued' \ Held', Countable(r)
      PROVE  r \in Queued \ Held
  <2>1. r # job.request
    BY <1>3, <1>4, <1>6 DEF Held
  <2>2. r \in Queued
    BY <1>2, <1>6, <2>1
  <2>3. r \notin Held
    BY <1>1, <1>6, <2>1 DEF Held
  <2> QED BY <2>2, <2>3
<1> QED BY <1>1, <1>4, <1>5, <1>6, BalanceQuietly DEF Books

\* A dropped job leaves its request behind: what it owed, the request may add.
LEMMA ReleaseBalances ==
  ASSUME Books, SerialInv', TermsInv', job # NoJob, TakeCommitted \/ Drop
  PROVE  Balanced'
<1>1. /\ UNCHANGED storeVars /\ pending' = pending /\ job' = NoJob /\ lostEver' = lostEver
      /\ queue' = queue \/ queue' = Unawaited
  BY DEF TakeCommitted, Drop, historyVars
<1>2. Queued' \subseteq Queued
  BY <1>1, QueuedShrinks DEF Books
<1>3. JobOwes(job') = 0 /\ PendingOwes(pending') = PendingOwes(pending)
  BY <1>1 DEF JobOwes
<1>4. JobOwes(job) \in Nat /\ PendingOwes(pending) \in Nat /\ lostEver \in Nat
  BY OwedNat DEF Books, LossInv
<1>5. JobOwes(job') + PendingOwes(pending') <= Owes + 0 /\ lostEver' = lostEver + 0
  BY <1>1, <1>3, <1>4 DEF Owes
<1>6. ASSUME NEW r \in Queued' \ Held', Countable(r)
      PROVE  \/ r \in Queued \ Held
             \/ /\ r \in Requests
                /\ JobOwes(job') + PendingOwes(pending') + r.body.discarded <= Owes + 0
  <2>1. r \in Queued /\ r \in Requests
    BY <1>2, <1>6 DEF Requests
  <2>2. CASE r \in Held
    <3>1. ~(pending # NoValue /\ r = pending.request)
      BY <1>1, <1>6 DEF Held
    <3>2. r.body.discarded <= JobOwes(job) /\ r.body.discarded \in Nat
      BY <1>6, <2>1, <2>2, <3>1, HeldIsOwed, CountableNat DEF Books
    <3> QED BY <2>1, <3>2, <1>3, <1>4 DEF Owes
  <2> QED BY <2>1, <2>2
<1> QED BY <1>1, <1>5, <1>6, BalanceQuietly DEF Books

LEMMA RetainBalances ==
  ASSUME Books, SerialInv', TermsInv', Retain
  PROVE  Balanced'
<1> DEFINE n == Backlog(job.event.producer, job.event.generation)
<1>1. /\ UNCHANGED storeVars /\ job' = NoJob /\ queue' = Unawaited
      /\ job # NoJob /\ job.kind = "Commit" /\ pending = NoValue
      /\ Freeze(job)
      /\ pending' = [event |-> job.event, policy |-> job.policy, notify |-> job.notify,
                     purpose |-> job.purpose, request |-> job.request,
                     discarded |-> Frozen(job).discarded]
  BY DEF Retain
<1>2. Queued' \subseteq Queued
  BY <1>1, QueuedShrinks DEF Books
<1>3. job.event.producer \in Producers /\ job.discarded \in Nat /\ lostEver \in Nat
  BY <1>1 DEF Books, RequestInv, Subjects, TermsInv, Terms, LossInv
<1>4. n \in Nat /\ lostEver' = lostEver + n
  BY <1>1, <1>3, BacklogCounts, FreezeLoses DEF Books, TermsInv
<1>5. Frozen(job).discarded = job.discarded + n
  BY <1>1, JobKinds, FrozenDiscards DEF Books, CallInv
<1> HIDE DEF n
<1>6. pending'.event = job.event /\ pending'.request = job.request
      /\ pending'.discarded = job.discarded + n
  BY <1>1, <1>5
<1>7. JobOwes(job') = 0 /\ PendingOwes(pending) = 0
  BY <1>1 DEF JobOwes, PendingOwes
<1>8. PendingOwes(pending') <= JobOwes(job) + n /\ PendingOwes(pending') \in Nat
  BY <1>1, <1>3, <1>4, <1>6 DEF JobOwes, PendingOwes, Owed, Settled
<1>9. JobOwes(job) \in Nat
  BY OwedNat DEF Books
<1>10. JobOwes(job') + PendingOwes(pending') <= Owes + n
  BY <1>4, <1>7, <1>8, <1>9 DEF Owes
<1>11. ASSUME NEW r \in Queued' \ Held', Countable(r)
       PROVE  \/ r \in Queued \ Held
              \/ /\ r \in Requests
                 /\ JobOwes(job') + PendingOwes(pending') + r.body.discarded <= Owes + n
  <2>1. r \in Queued /\ r \in Requests
    BY <1>2, <1>11 DEF Requests
  <2>2. CASE r \in Held
    <3>1. r = job.request
      BY <1>1, <2>2 DEF Held
    <3>2. PendingOwes(pending') = 0
      BY <1>6, <1>11, <3>1 DEF Held, PendingOwes
    <3>3. r.body.discarded <= JobOwes(job) /\ r.body.discarded \in Nat
      BY <1>1, <1>11, <2>1, <2>2, HeldIsOwed, CountableNat DEF Books
    <3> QED BY <2>1, <3>2, <3>3, <1>4, <1>7, <1>9 DEF Owes
  <2> QED BY <2>1, <2>2
<1> QED BY <1>1, <1>4, <1>10, <1>11, BalanceQuietly DEF Books

LEMMA CrashBalances ==
  ASSUME Books, SerialInv', TermsInv', Crash
  PROVE  Balanced'
<1>1. /\ UNCHANGED storeVars /\ job' = NoJob /\ pending' = NoValue /\ queue' = <<>>
      /\ lostEver' = lostEver
  BY DEF Crash, historyVars
<1>2. Queued' = {}
  BY <1>1 DEF Queued
<1>3. JobOwes(job') = 0 /\ PendingOwes(pending') = 0
  BY <1>1 DEF JobOwes, PendingOwes
<1>4. JobOwes(job) \in Nat /\ PendingOwes(pending) \in Nat /\ lostEver \in Nat
  BY OwedNat DEF Books, LossInv
<1>5. JobOwes(job') + PendingOwes(pending') <= Owes + 0 /\ lostEver' = lostEver + 0
  BY <1>1, <1>3, <1>4 DEF Owes
<1> QED BY <1>1, <1>2, <1>5, BalanceQuietly DEF Books

\* The same job, as far as its losses go.
SameClaim ==
  /\ job = NoJob => job' = NoJob
  /\ job # NoJob =>
       /\ job' # NoJob /\ job'.kind = job.kind /\ job'.request = job.request
       /\ job.kind = "Commit" => job'.event = job.event /\ job'.discarded = job.discarded

LEMMA OwedLater ==
  ASSUME Books, ~CleanupFacts, [CoordNext]_vars, revision' = revision + 1,
         pending' = pending, SameClaim
  PROVE  /\ JobOwes(job)' <= JobOwes(job) /\ PendingOwes(pending)' <= PendingOwes(pending)
         /\ (job # NoJob /\ job.kind # "Commit") => JobOwes(job)' = 0
<1>1. JobOwes(job) \in Nat /\ PendingOwes(pending) \in Nat
  BY OwedNat DEF Books
<1>2. ASSUME NEW c, c.event \in Subjects, c.discarded \in Nat
      PROVE  Owed(c)' <= Owed(c)
  <2>1. Settled(c) => Settled(c)'
    BY <1>2, SettledStays DEF Books
  <2> QED BY <1>2, <2>1 DEF Owed
<1>3. PendingOwes(pending)' <= PendingOwes(pending)
  <2>1. CASE pending = NoValue
    BY <2>1 DEF PendingOwes
  <2>2. CASE pending # NoValue
    <3>1. pending.event \in Subjects /\ pending.discarded \in Nat
      BY <2>2 DEF Subjects, Books, TermsInv, Terms
    <3>2. PICK c : c = pending
      OBVIOUS
    <3>3. Owed(c)' <= Owed(c)
      BY <1>2, <3>1, <3>2
    <3>4. Owed(pending)' = Owed(c)'
      BY <3>2 DEF Owed, Settled, Live, Written
    <3> QED BY <2>2, <3>2, <3>3, <3>4 DEF PendingOwes
  <2> QED BY <2>1, <2>2
<1>4. CASE job = NoJob
  <2>1. JobOwes(job)' = 0 /\ JobOwes(job) = 0
    BY <1>4 DEF JobOwes, SameClaim
  <2> QED BY <1>3, <1>4, <2>1
<1>5. CASE job # NoJob /\ job.kind = "Commit"
  <2>1. job.event \in Subjects /\ job.discarded \in Nat
    BY <1>5 DEF Subjects, Books, TermsInv, Terms
  <2>2. PICK c : c = job
    OBVIOUS
  <2>3. Owed(c)' <= Owed(c)
    BY <1>2, <2>1, <2>2
  <2>4. Owed(job)' = Owed(c)'
    BY <1>5, <2>2 DEF Owed, Settled, Live, Written, SameClaim
  <2>5. JobOwes(job)' = Owed(job)' /\ JobOwes(job) = Owed(job)
    BY <1>5 DEF JobOwes, SameClaim
  <2> QED BY <1>3, <1>5, <2>2, <2>3, <2>4, <2>5
<1>6. CASE job # NoJob /\ job.kind # "Commit"
  <2>1. job.request \in Requests
    BY <1>6 DEF Requests
  <2>2. PICK r : r = job.request
    OBVIOUS
  <2>3. ~Countable(r)'
    BY <2>1, <2>2, NothingCountable DEF Books
  <2>4. ~Countable(job.request)'
    BY <1>6, <2>2, <2>3 DEF Countable, Live, Written, SameClaim
  <2>5. JobOwes(job)' = 0
    BY <1>6, <2>4 DEF JobOwes, SameClaim
  <2> QED BY <1>1, <1>3, <2>5
<1> QED BY <1>4, <1>5, <1>6

LEMMA BalanceMoved ==
  ASSUME Books, revision' = revision + 1, Queued' \subseteq Queued,
         discarded' + Owes' <= lostEver'
  PROVE  Balanced'
<1>1. \A r \in Queued' : ~Countable(r)'
  BY NothingCountable DEF Books, Requests
<1> QED BY <1>1 DEF Balanced

LEMMA MaintenanceBalances ==
  ASSUME Books, SerialInv', TermsInv', ~CleanupFacts, [CoordNext]_vars,
         UNCHANGED <<queue, job, pending, lostEver>>,
         \/ OtherWrite \/ Reopen
         \/ Maintain(IF CleanupFacts THEN facts ELSE {}, tombstones, {})
  PROVE  Balanced'
<1>1. revision' = revision + 1 /\ discarded' = discarded
  BY DEF OtherWrite, Reopen, Maintain, Advance
<1>2. SameClaim
  BY DEF SameClaim
<1>3. JobOwes(job)' <= JobOwes(job) /\ PendingOwes(pending)' <= PendingOwes(pending)
  BY <1>1, <1>2, OwedLater
<1>4. /\ JobOwes(job) \in Nat /\ PendingOwes(pending) \in Nat
      /\ JobOwes(job)' \in Nat /\ PendingOwes(pending)' \in Nat
      /\ discarded \in Nat /\ lostEver \in Nat
  BY OwedNat, OwedNatNext DEF Books, LossInv
<1>5. discarded' + Owes' <= lostEver'
  BY <1>1, <1>3, <1>4 DEF Books, Balanced, Owes
<1>6. Queued' \subseteq Queued
  BY DEF Queued
<1> QED BY <1>1, <1>5, <1>6, BalanceMoved

\* A request executed for a commit settles it.
LEMMA ExecutedSettles ==
  ASSUME OrderInv, RequestInv, NEW r, r \in Requests,
         \/ r.op = "Apply" /\ Apply(r.body)
         \/ r.op = "RetireProducer" /\ RetireProducer(r.body),
         NEW c, c.request = r, Carries(c)
  PROVE  Settled(c)'
<1>1. CASE r.op = "Apply" /\ Apply(r.body)
  <2>1. facts' = facts \cup {[write |-> r.body, revision |-> revision + 1]}
    BY <1>1 DEF Apply, ApplyEffect
  <2>2. Written(r.body)'
    <3> DEFINE f == [write |-> r.body, revision |-> revision + 1]
    <3>1. f \in facts' /\ f.write = r.body
      BY <2>1
    <3> HIDE DEF f
    <3>2. PICK w : w = r.body
      OBVIOUS
    <3>3. Written(w)'
      BY <3>1, <3>2 DEF Written
    <3> QED BY <3>2, <3>3 DEF Written
  <2> QED BY <1>1, <2>2 DEF Settled
<1>2. CASE r.op = "RetireProducer" /\ RetireProducer(r.body)
  <2> DEFINE q == r.body
             p == q.producer
  <2>1. p = c.event.producer /\ p \in Producers
    BY <1>2 DEF Carries, RequestInv
  <2>2. RetireOutcome(q) = "Ok" /\ Retire({p})
    BY <1>2 DEF RetireProducer, RetireEffect
  <2>3. producers[p] # NoValue
    <3>1. producers[q.producer] # NoValue
      <4> HIDE DEF q
      <4> QED BY <2>2 DEF RetireOutcome, FirstFailure
    <3> QED BY <3>1
  <2>4. producers[p] = [f \in RowFields |-> producers[p][f]]
    BY <2>1, <2>3 DEF OrderInv, IsRow
  <2>5. producers'[p] = [producers[p] EXCEPT !.active = FALSE, !.reconciled = FALSE]
    BY <2>1, <2>2 DEF Retire, Deactivate
  <2>6. producers'[p].active = FALSE
    BY <2>4, <2>5 DEF RowFields
  <2> HIDE DEF p
  <2>7. ~Live(c.event)'
    BY <2>1, <2>6 DEF Live
  <2> QED BY <2>7 DEF Settled
<1> QED BY <1>1, <1>2

LEMMA ExecuteBalances ==
  ASSUME Books, SerialInv', TermsInv', ~CleanupFacts, [CoordNext]_vars, Execute
  PROVE  Balanced'
<1> DEFINE r == Head(queue).request
<1>1. queue # <<>> /\ lostEver' = lostEver /\ pending' = pending
  BY ExecuteCases
<1>2. r \in Queued /\ r \in Requests
  <2>1. Head(queue) = queue[1] /\ 1 \in 1..Len(queue)
    BY <1>1, QueueFacts DEF Books, CallInv
  <2> QED BY <2>1 DEF Queued, Requests
<1>3. \E reply : Answer(reply)
  BY ExecuteCases, Zenon
<1>4. Queued' \subseteq Queued /\ SameClaim
  BY <1>1, <1>3, AnswerLeaves DEF Books, SameClaim
<1>5. /\ JobOwes(job) \in Nat /\ PendingOwes(pending) \in Nat
      /\ JobOwes(job)' \in Nat /\ PendingOwes(pending)' \in Nat
      /\ discarded \in Nat /\ lostEver \in Nat
  BY OwedNat, OwedNatNext DEF Books, LossInv
<1>6. CASE UNCHANGED storeVars
  <2>1. JobOwes(job') = JobOwes(job)
    BY <1>4 DEF SameClaim, JobOwes, Owed, Settled
  <2>2. JobOwes(job') + PendingOwes(pending') <= Owes + 0 /\ lostEver' = lostEver + 0
    BY <1>1, <1>5, <2>1 DEF Owes
  <2>3. Held' = Held
    BY <1>1, <1>4 DEF Held, SameClaim
  <2>4. \A s \in Queued' \ Held' : s \in Queued \ Held
    BY <1>4, <2>3
  <2> QED BY <1>6, <2>2, <2>4, BalanceQuietly DEF Books
<1>7. CASE \/ r.op = "Apply" /\ Apply(r.body)
           \/ r.op = "Reconcile" /\ Reconcile(r.body)
           \/ r.op = "RetireProducer" /\ RetireProducer(r.body)
  <2>1. /\ Countable(r) /\ discarded' = discarded + r.body.discarded
        /\ revision' = revision + 1
    <3> HIDE DEF r
    <3> QED BY <1>7, ExecutedWas
  <2> HIDE DEF r
  <2>2. r.body.discarded \in Nat
    BY <1>2, <2>1, CountableNat DEF Books
  <2>3. /\ JobOwes(job)' <= JobOwes(job) /\ PendingOwes(pending)' <= PendingOwes(pending)
        /\ (job # NoJob /\ job.kind # "Commit") => JobOwes(job)' = 0
    BY <1>1, <1>4, <2>1, OwedLater
  <2>4. CASE r \notin Held
    <3>1. discarded + Owes + r.body.discarded <= lostEver
      BY <1>2, <2>1, <2>4 DEF Books, Balanced
    <3>2. discarded' + Owes' <= lostEver'
      BY <3>1, <1>1, <1>5, <2>1, <2>2, <2>3 DEF Owes
    <3> QED BY <3>2, <1>4, <2>1, BalanceMoved
  <2>5. CASE r.body.discarded <= JobOwes(job) /\ job # NoJob /\ r = job.request
    <3>1. JobOwes(job)' = 0
      <4>1. CASE job.kind = "Commit"
        <5>1. Carries(job) /\ CarriesOut(job.request, job.event)
          BY <2>5, <4>1, JobKinds DEF Books, LossInv, CallInv
        <5>2. \/ r.op = "Apply" /\ Apply(r.body)
              \/ r.op = "RetireProducer" /\ RetireProducer(r.body)
          BY <1>7, <2>5, <5>1 DEF CarriesOut
        <5>3. PICK c : c = job
          OBVIOUS
        <5>4. Carries(c) /\ c.request = r
          BY <2>5, <5>1, <5>3
        <5>5. Settled(c)'
          BY <1>2, <5>2, <5>4, ExecutedSettles DEF Books
        <5>6. Settled(job)'
          BY <1>4, <2>5, <4>1, <5>3, <5>5 DEF Settled, Live, Written, SameClaim
        <5> QED BY <1>4, <2>5, <4>1, <5>6 DEF JobOwes, Owed, SameClaim
      <4>2. CASE job.kind # "Commit"
        BY <2>3, <2>5, <4>2
      <4> QED BY <4>1, <4>2
    <3>2. discarded + Owes <= lostEver
      BY DEF Books, Balanced
    <3>3. discarded' + Owes' <= lostEver'
      BY <3>1, <3>2, <1>1, <1>5, <2>1, <2>2, <2>3, <2>5 DEF Owes
    <3> QED BY <3>3, <1>4, <2>1, BalanceMoved
  <2>6. CASE r.body.discarded <= PendingOwes(pending) /\ pending # NoValue /\ r = pending.request
    <3>1. PendingOwes(pending)' = 0
      <4>1. Carries(pending) /\ CarriesOut(pending.request, pending.event)
        BY <2>6 DEF Books, LossInv, CallInv
      <4>2. \/ r.op = "Apply" /\ Apply(r.body)
            \/ r.op = "RetireProducer" /\ RetireProducer(r.body)
        BY <1>7, <2>6, <4>1 DEF CarriesOut
      <4>3. PICK c : c = pending
        OBVIOUS
      <4>4. Carries(c) /\ c.request = r
        BY <2>6, <4>1, <4>3
      <4>5. Settled(c)'
        BY <1>2, <4>2, <4>4, ExecutedSettles DEF Books
      <4>6. Settled(pending)'
        BY <1>1, <4>3, <4>5 DEF Settled, Live, Written
      <4> QED BY <4>6 DEF PendingOwes, Owed
    <3>2. discarded + Owes <= lostEver
      BY DEF Books, Balanced
    <3>3. Owes' + r.body.discarded <= Owes /\ Owes' \in Nat /\ Owes \in Nat
      BY <3>1, <1>5, <2>2, <2>3, <2>6 DEF Owes
    <3>4. discarded' + Owes' <= lostEver'
      BY <3>2, <3>3, <1>1, <1>5, <2>1, <2>2
    <3> QED BY <3>4, <1>4, <2>1, BalanceMoved
  <2>7. r \in Held => \/ r.body.discarded <= JobOwes(job) /\ job # NoJob /\ r = job.request
                      \/ /\ r.body.discarded <= PendingOwes(pending) /\ pending # NoValue
                         /\ r = pending.request
    BY <2>1, HeldIsOwed DEF Books
  <2> QED BY <2>4, <2>5, <2>6, <2>7
<1>8. \/ UNCHANGED storeVars
      \/ r.op = "Apply" /\ Apply(r.body)
      \/ r.op = "Reconcile" /\ Reconcile(r.body)
      \/ r.op = "RetireProducer" /\ RetireProducer(r.body)
  BY ExecuteCases, Zenon
<1> QED BY <1>6, <1>7, <1>8

-----------------------------------------------------------------------------
(* What jobs and retained commits know of their requests                   *)

LEMMA StaleMeansOvertaken ==
  ASSUME SerialInv, LossInv, NEW r, r \in Requests,
         \/ r.op = "Apply" /\ ApplyOutcome(r.body) = "StaleRevision"
         \/ r.op = "RetireProducer" /\ RetireOutcome(r.body) = "StaleRevision"
  PROVE  Overtaken(r)
<1>1. RequestCurrent(r) /\ PastRetirement(r) /\ revision \in Nat
  BY DEF SerialInv, LossInv
<1>2. CASE r.op = "Apply" /\ ApplyOutcome(r.body) = "StaleRevision"
  <2> DEFINE w == r.body
  <2>1. w.expected \in Nat /\ w.expected <= revision
    BY <1>1, <1>2 DEF RequestCurrent, WriteCurrent
  <2> HIDE DEF w
  <2>2. /\ ScopeOutcome(w.fact) # "StaleRevision" /\ DiscardedOutcome(w.discarded) # "StaleRevision"
        /\ AttentionOutcome(w) # "StaleRevision" /\ TombstoneOutcome(w) # "StaleRevision"
    BY DEF ScopeOutcome, DiscardedOutcome, AttentionOutcome, TombstoneOutcome
  <2>3. ApplyOutcome(w) = "StaleRevision"
    BY <1>2 DEF w
  <2>4. RevisionOutcome(w.expected) # "Ok" /\ ~\E f \in StoredFor(w.fact) : f.write = w
    BY <2>2, <2>3 DEF ApplyOutcome, FirstFailure
  <2>5. RevisionOutcome(w.expected) = "StaleRevision"
    BY <2>2, <2>3, <2>4 DEF ApplyOutcome, FirstFailure
  <2>6. w.expected < revision
    BY <1>1, <2>1, <2>5 DEF RevisionOutcome
  <2>7. ~Written(w)
    BY <2>4 DEF Written, StoredFor
  <2> QED BY <1>2, <2>6, <2>7 DEF Overtaken, w
<1>3. CASE r.op = "RetireProducer" /\ RetireOutcome(r.body) = "StaleRevision"
  <2> DEFINE q == r.body
  <2>1. q.expected \in Nat /\ q.expected <= revision
    BY <1>1, <1>3 DEF PastRetirement
  <2> HIDE DEF q
  <2>2. RetireOutcome(q) = "StaleRevision"
    BY <1>3 DEF q
  <2>3. DiscardedOutcome(q.discarded) # "StaleRevision"
    BY DEF DiscardedOutcome
  <2>4. RevisionOutcome(q.expected) = "StaleRevision"
    BY <2>2, <2>3 DEF RetireOutcome, FirstFailure
  <2>5. q.expected < revision
    BY <1>1, <2>1, <2>4 DEF RevisionOutcome
  <2> QED BY <1>3, <2>5 DEF Overtaken, q
<1> QED BY <1>2, <1>3

\* What a step makes of the job, as far as its losses go.
LEMMA ClaimCases ==
  ASSUME Books, [CoordNext]_vars
  PROVE  \/ job' = job \/ job' = NoJob \/ job'.kind = "Reconcile"
         \/ job # NoJob /\ job.kind = "Commit" /\ Progresses(job, job')
         \/ Execute /\ SameClaim
         \/ \E e \in spool, policy \in Policies, notify \in NotifyChoices :
              job' = CommitJob(e, policy, notify, "Context", ContextRequest(e), 0)
         \/ ResumeCommit
<1>1. CASE Submit \/ SubmitRefused \/ PollUnknown \/ Receive \/ EndWorker
  <2>1. CASE job = NoJob
    BY <1>1, <2>1, StillFree DEF Books, Submit, SubmitRefused, PollUnknown, Receive, Running
  <2>2. CASE job # NoJob /\ job.kind = "Commit"
    BY <1>1, <2>2, CommitProgresses DEF Books
  <2>3. CASE job # NoJob /\ job.kind # "Commit"
    <3>1. IsReconcileJob(job)
      BY <2>3, JobKinds DEF Books, CallInv
    <3>2. job'.kind = "Reconcile"
      BY <1>1, <2>3, <3>1, JobMoves DEF Books
    <3> QED BY <3>2
  <2> QED BY <2>1, <2>2, <2>3
<1>2. CASE Execute
  <2>1. queue # <<>> /\ \E reply : Answer(reply)
    BY <1>2, ExecuteCases, Zenon
  <2> QED BY <1>2, <2>1, AnswerLeaves DEF Books, SameClaim
<1>3. CASE \E p \in Producers : Admit(p) \/ Pop(p) \/ Block(p)
  BY <1>3 DEF Admit, Pop, Block
<1>4. CASE \E p \in Producers, r \in Runs, g \in 1..issued, envelope \in Envelopes :
             Stage(p, r, g, envelope)
  BY <1>4 DEF Stage, managerVars
<1>5. CASE \E e \in spool, policy \in Policies, notify \in NotifyChoices :
             StartCommit(e, policy, notify)
  BY <1>5 DEF StartCommit
<1>6. CASE \E p \in Producers, r \in Runs, first \in FirstSequences,
              baseline \in Baselines \cup {NoValue} :
              \E resolved, continued \in {NoValue, projections[r].current} :
                \E previous \in Believed(p) :
                  StartReconcile(p, r, first, previous, baseline, resolved, continued)
  BY <1>6 DEF StartReconcile
<1>7. CASE TakeCommitted \/ Drop \/ Crash \/ Retain
  BY <1>7 DEF TakeCommitted, Drop, Crash, Retain
<1>8. CASE Confirm \/ OtherRequest \/ RequestShutdown \/ StartWorker \/ UNCHANGED vars
  BY <1>8 DEF Confirm, OtherRequest, RequestShutdown, StartWorker, managerVars, vars
<1> QED BY <1>1, <1>2, <1>3, <1>4, <1>5, <1>6, <1>7, <1>8 DEF CoordNext

LEMMA CarriesOn ==
  ASSUME NEW j, NEW k, Carries(j), k.request = j.request, k.event = j.event,
         j.discarded \in Nat, NEW n \in Nat, k.discarded = j.discarded + n
  PROVE  Carries(k)
<1>1. 0..j.discarded \subseteq 0..k.discarded
  OBVIOUS
<1> QED BY <1>1 DEF Carries

LEMMA ProgressCarries ==
  ASSUME Books, job # NoJob, job.kind = "Commit", Progresses(job, job')
  PROVE  Carries(job')
<1>1. /\ job.event.producer \in Producers /\ job.discarded \in Nat /\ Carries(job)
  BY DEF Books, RequestInv, Subjects, TermsInv, Terms, LossInv
<1>2. Backlog(job.event.producer, job.event.generation) \in Nat
  BY <1>1, BacklogCounts DEF Books, TermsInv
<1>3. \E n \in Nat : job'.discarded = job.discarded + n
  <2>1. CASE job'.discarded = job.discarded
    <3>1. job'.discarded = job.discarded + 0
      BY <2>1, <1>1
    <3> QED BY <3>1
  <2> QED BY <1>2, <2>1 DEF Progresses, Discards
<1>4. job'.discarded \in Nat /\ job'.event = job.event
  BY <1>1, <1>3 DEF Progresses
<1>5. CASE job'.request = job.request
  BY <1>1, <1>3, <1>4, <1>5, CarriesOn
<1>6. CASE job'.request = ContextRequest(job.event)
  <2>1. job'.request.op = "Context"
    BY <1>6 DEF ContextRequest
  <2> QED BY <2>1 DEF Carries
<1>7. CASE job'.request = RetireRequest(RetirementFrom(job, job.reply.body, job'.discarded))
  <2>1. /\ job'.request.op = "RetireProducer"
        /\ job'.request.body.producer = job.event.producer
        /\ job'.request.body.generation = job.event.generation
        /\ job'.request.body.discarded = job'.discarded
    BY <1>7 DEF RetireRequest, RetirementFrom
  <2> QED BY <1>4, <2>1 DEF Carries
<1>8. CASE job'.request = ApplyRequest(WriteFrom(job, job.reply.body, job'.discarded))
  <2>1. /\ job'.request.op = "Apply"
        /\ job'.request.body.fact = job.event
        /\ job'.request.body.discarded = job'.discarded
    BY <1>8 DEF ApplyRequest, WriteFrom
  <2> QED BY <1>4, <2>1 DEF Carries
<1> QED BY <1>5, <1>6, <1>7, <1>8 DEF Progresses, Reasks

LEMMA JobCarries ==
  ASSUME Books, [CoordNext]_vars, job' # NoJob, job'.kind = "Commit"
  PROVE  Carries(job')
<1>1. CASE job' = job
  BY <1>1 DEF Books, LossInv
<1>2. CASE job # NoJob /\ job.kind = "Commit" /\ Progresses(job, job')
  BY <1>2, ProgressCarries
<1>3. CASE Execute /\ SameClaim
  <2>1. /\ job # NoJob /\ job.kind = "Commit"
        /\ job'.request = job.request /\ job'.event = job.event
        /\ job'.discarded = job.discarded
    BY <1>3 DEF SameClaim
  <2> QED BY <2>1 DEF Books, LossInv, Carries
<1>4. CASE \E e \in spool, policy \in Policies, notify \in NotifyChoices :
             job' = CommitJob(e, policy, notify, "Context", ContextRequest(e), 0)
  <2>1. job'.request.op = "Context"
    BY <1>4 DEF CommitJob, ContextRequest
  <2> QED BY <2>1 DEF Carries
<1>5. CASE ResumeCommit
  <2>1. /\ pending # NoValue
        /\ job'.request = pending.request /\ job'.event = pending.event
        /\ job'.discarded = pending.discarded
    BY <1>5 DEF ResumeCommit, CommitJob
  <2> QED BY <2>1 DEF Books, LossInv, Carries
<1> QED BY <1>1, <1>2, <1>3, <1>4, <1>5, ClaimCases

LEMMA RetainCarries ==
  ASSUME Books, Retain
  PROVE  Carries(pending')
<1>1. /\ job # NoJob /\ job.kind = "Commit"
      /\ pending'.event = job.event /\ pending'.request = job.request
      /\ pending'.discarded = Frozen(job).discarded
  BY DEF Retain
<1>2. /\ job.event.producer \in Producers /\ job.discarded \in Nat /\ Carries(job)
  BY <1>1 DEF Books, RequestInv, Subjects, TermsInv, Terms, LossInv
<1>3. Frozen(job).discarded = job.discarded + Backlog(job.event.producer, job.event.generation)
  BY <1>1, JobKinds, FrozenDiscards DEF Books, CallInv
<1>4. Backlog(job.event.producer, job.event.generation) \in Nat
  BY <1>2, BacklogCounts DEF Books, TermsInv
<1> QED BY <1>1, <1>2, <1>3, <1>4, CarriesOn

LEMMA JobFits ==
  ASSUME Books, ~CleanupFacts, [CoordNext]_vars,
         job' # NoJob, job'.kind = "Commit", job'.reply # NoValue
  PROVE  Fits(job.reply, job.request)'
<1>1. ASSUME job # NoJob, job.kind = "Commit", job'.reply = job.reply, job'.request = job.request
      PROVE  Fits(job.reply, job.request)'
  <2>1. Fits(job.reply, job.request) /\ job.request \in Requests
    BY <1>1 DEF Books, LossInv, Requests
  <2>2. PICK r : r = job.request
    OBVIOUS
  <2>3. PastRetirement(r) /\ RequestCurrent(r) /\ revision \in Nat
    BY <2>1, <2>2 DEF Books, LossInv, SerialInv
  <2>4. Overtaken(r) => Overtaken(r)'
    BY <2>3, OvertakenStays DEF Books
  <2>5. Overtaken(job.request)' <=> Overtaken(r)'
    BY <1>1, <2>2 DEF Overtaken, Written
  <2> QED BY <1>1, <2>1, <2>2, <2>4, <2>5 DEF Fits
<1>2. CASE job' = job
  BY <1>1, <1>2
<1>3. CASE job # NoJob /\ job.kind = "Commit" /\ Progresses(job, job')
  <2>1. job'.request = job.request /\ job'.reply = job.reply
    BY <1>3 DEF Progresses, Reasks
  <2> QED BY <1>1, <1>3, <2>1
<1>4. CASE Execute /\ SameClaim
  <2> DEFINE request == Head(queue).request
  <2>1. /\ job # NoJob /\ job.kind = "Commit" /\ job'.request = job.request
    BY <1>4 DEF SameClaim
  <2>2. queue # <<>>
    BY <1>4 DEF Execute
  <2>3. ASSUME NEW reply, Answer(reply), job'.reply # job.reply
        PROVE  job'.reply = reply /\ job.request = request
    BY <2>1, <2>2, <2>3, AnswerLeaves DEF Books
  <2>4. CASE job'.reply = job.reply
    BY <1>1, <2>1, <2>4
  <2>5. CASE job'.reply # job.reply
    <3>1. ASSUME NEW reply, Answer(reply), reply.kind \notin {"Context", "Error"}
          PROVE  Fits(job.reply, job.request)'
      BY <3>1, <2>3, <2>5 DEF Fits
    <3>2. ASSUME NEW reply, Answer(reply), reply.kind = "Context", request.op = "Context"
          PROVE  Fits(job.reply, job.request)'
      BY <3>2, <2>1, <2>3, <2>5 DEF Fits
    <3>3. ASSUME UNCHANGED storeVars, NEW reply, Answer(reply), reply.kind = "Error",
                 \/ request.op = "Reconcile"
                 \/ request.op = "Apply" /\ reply.body = ApplyOutcome(request.body)
                 \/ request.op = "RetireProducer" /\ reply.body = RetireOutcome(request.body)
          PROVE  Fits(job.reply, job.request)'
      <4>1. job'.reply = reply /\ job.request = request /\ job'.request = request
        BY <2>1, <2>3, <2>5, <3>3
      <4>2. job.request \in Requests /\ CarriesOut(job.request, job.event)
        BY <2>1, JobKinds DEF Requests, Books, CallInv
      <4>3. reply.body = "StaleRevision" => Overtaken(job.request)
        BY <3>3, <4>1, <4>2, StaleMeansOvertaken DEF Books, CarriesOut
      <4>4. Overtaken(job.request)' <=> Overtaken(job.request)
        BY <2>1, <3>3 DEF Overtaken, Written, storeVars
      <4> QED BY <3>3, <4>1, <4>3, <4>4 DEF Fits
    <3> HIDE DEF request
    <3>4. \/ \E reply : Answer(reply) /\ reply.kind \notin {"Context", "Error"}
          \/ \E reply : Answer(reply) /\ reply.kind = "Context" /\ request.op = "Context"
          \/ /\ UNCHANGED storeVars
             /\ \E reply :
                  /\ Answer(reply) /\ reply.kind = "Error"
                  /\ \/ request.op = "Reconcile"
                     \/ request.op = "Apply" /\ reply.body = ApplyOutcome(request.body)
                     \/ request.op = "RetireProducer" /\ reply.body = RetireOutcome(request.body)
      BY <1>4, ExecuteCases, Zenon DEF request
    <3> QED BY <3>1, <3>2, <3>3, <3>4
  <2> QED BY <2>4, <2>5
<1>5. CASE \E e \in spool, policy \in Policies, notify \in NotifyChoices :
             job' = CommitJob(e, policy, notify, "Context", ContextRequest(e), 0)
  BY <1>5 DEF CommitJob
<1>6. CASE ResumeCommit
  BY <1>6 DEF ResumeCommit, CommitJob
<1> QED BY <1>2, <1>3, <1>4, <1>5, <1>6, ClaimCases

LEMMA CountedIsNat ==
  ASSUME Books, [CoordNext]_vars
  PROVE  discarded' \in Nat
<1>1. discarded \in Nat
  BY DEF Books, LossInv
<1>2. ASSUME NEW r \in Queued,
             \/ r.op = "Apply" /\ Apply(r.body)
             \/ r.op = "Reconcile" /\ Reconcile(r.body)
             \/ r.op = "RetireProducer" /\ RetireProducer(r.body)
      PROVE  discarded' \in Nat
  <2>1. Countable(r) /\ discarded' = discarded + r.body.discarded /\ r \in Requests
    BY <1>2, ExecutedWas DEF Requests
  <2>2. r.body.discarded \in Nat
    BY <2>1, CountableNat DEF Books
  <2> QED BY <1>1, <2>1, <2>2
<1>3. CASE \/ OtherWrite \/ Reopen
           \/ Maintain(IF CleanupFacts THEN facts ELSE {}, tombstones, {})
  BY <1>1, <1>3 DEF OtherWrite, Reopen, Maintain
<1>4. CASE UNCHANGED <<storeVars, accepted>>
  BY <1>1, <1>4 DEF storeVars
<1> QED BY <1>2, <1>3, <1>4, StoreSteps DEF Books

LEMMA LostIsNat ==
  ASSUME Books, [CoordNext]_vars
  PROVE  lostEver' \in Nat
<1>1. lostEver \in Nat /\ Counts(registry)
  BY DEF Books, LossInv, TermsInv
<1>2. CASE lostEver' = lostEver
  BY <1>1, <1>2
<1>3. ASSUME job # NoJob, job.kind = "Commit"
      PROVE  job.event.producer \in Producers
  BY <1>3 DEF Books, RequestInv, Subjects
<1>4. CASE Submit \/ SubmitRefused \/ PollUnknown \/ Receive \/ EndWorker
  <2>1. CASE job = NoJob
    BY <1>2, <1>4, <2>1 DEF Submit, SubmitRefused, PollUnknown, Receive, EndWorker, Running,
       historyVars
  <2>2. CASE job # NoJob /\ job.kind = "Commit"
    <3>1. Discards(job, job')
      BY <1>4, <2>2, CommitProgresses DEF Books, Progresses
    <3>2. Backlog(job.event.producer, job.event.generation) \in Nat
      BY <1>1, <1>3, <2>2, BacklogCounts
    <3> QED BY <1>1, <3>1, <3>2 DEF Discards
  <2>3. CASE job # NoJob /\ job.kind # "Commit"
    <3>1. \E n \in Nat : lostEver' = lostEver + n
      BY <1>1, <1>4, <2>3, ReconcileProgresses DEF Books
    <3> QED BY <1>1, <3>1
  <2> QED BY <2>1, <2>2, <2>3
<1>5. CASE Retain
  <2>1. lostEver' = lostEver + Backlog(job.event.producer, job.event.generation)
        /\ job # NoJob /\ job.kind = "Commit"
    BY <1>5, FreezeLoses DEF Retain
  <2>2. Backlog(job.event.producer, job.event.generation) \in Nat
    BY <1>1, <1>3, <2>1, BacklogCounts
  <2> QED BY <1>1, <2>1, <2>2
<1>6. ASSUME NEW p \in Producers, NEW r, NEW first, NEW previous, NEW baseline, NEW resolved, NEW continued,
             StartReconcile(p, r, first, previous, baseline, resolved, continued)
      PROVE  lostEver' \in Nat
  <2>1. lostEver' = lostEver + Backlog(p, previous)
    BY <1>6 DEF StartReconcile, Invalidate
  <2>2. Backlog(p, previous) \in Nat
    BY <1>1, BacklogCounts
  <2> QED BY <1>1, <2>1, <2>2
<1>7. CASE \E p \in Producers : Admit(p) \/ Pop(p) \/ Block(p)
  BY <1>2, <1>7 DEF Admit, Pop, Block, historyVars
<1>8. CASE \E p \in Producers, r \in Runs, g \in 1..issued, envelope \in Envelopes :
             Stage(p, r, g, envelope)
  BY <1>2, <1>8 DEF Stage, historyVars
<1>9. CASE \E e \in spool, policy \in Policies, notify \in NotifyChoices :
             StartCommit(e, policy, notify)
  BY <1>2, <1>9 DEF StartCommit, historyVars
<1>10. CASE ResumeCommit \/ TakeCommitted \/ Drop \/ Confirm \/ Execute
  BY <1>2, <1>10 DEF ResumeCommit, TakeCommitted, Drop, Confirm, Execute, historyVars
<1>11. CASE OtherRequest \/ RequestShutdown \/ StartWorker \/ Crash \/ UNCHANGED vars
  BY <1>2, <1>11 DEF OtherRequest, RequestShutdown, StartWorker, Crash, historyVars, vars
<1>12. CASE \E p \in Producers, r \in Runs, first \in FirstSequences,
               baseline \in Baselines \cup {NoValue} :
              \E resolved, continued \in {NoValue, projections[r].current} :
                \E previous \in Believed(p) :
                  StartReconcile(p, r, first, previous, baseline, resolved, continued)
  BY <1>6, <1>12
<1> QED BY <1>4, <1>5, <1>7, <1>8, <1>9, <1>10, <1>11, <1>12 DEF CoordNext

LEMMA RetirementsArePast ==
  ASSUME Books, [CoordNext]_vars, NEW r, r \in Requests'
  PROVE  PastRetirement(r)'
<1>1. revision \in Nat /\ revision' \in Nat /\ revision <= revision'
  BY RevisionMoves DEF Books, SerialInv, storeVars
<1>2. PastRetirement(r) => PastRetirement(r)'
  BY <1>1 DEF PastRetirement
<1>3. CASE r \in Requests
  BY <1>2, <1>3 DEF Books, LossInv
<1>4. CASE Begun(r)
  <2>1. r.op = "Reconcile"
    BY <1>4 DEF Begun, ReconcileRequest
  <2> QED BY <2>1 DEF PastRetirement
<1>5. CASE Decided(r)
  <2> DEFINE c == [event |-> job.event, ctx |-> job.reply.body]
  <2>1. c \in Contexts /\ c.ctx = job.reply.body
    BY <1>5 DEF Decided, Contexts
  <2>2. c.ctx.revision \in Nat /\ c.ctx.revision <= revision
    BY <2>1 DEF Books, SerialInv, ContextCurrent
  <2> HIDE DEF c
  <2>3. r.op = "RetireProducer" => r.body.expected = job.reply.body.revision
    BY <1>5 DEF Decided, RetireRequest, ApplyRequest, RetirementFrom
  <2> QED BY <1>2, <2>1, <2>2, <2>3 DEF PastRetirement
<1>6. CASE \E e \in Subjects : r = ContextRequest(e)
  BY <1>6 DEF ContextRequest, PastRetirement
<1> QED BY <1>3, <1>4, <1>5, <1>6, RequestOrigins DEF Books

LEMMA LossStep ==
  ASSUME Books, ~CleanupFacts, [CoordNext]_vars
  PROVE  LossInv'
<1>1. discarded' \in Nat /\ lostEver' \in Nat
  BY CountedIsNat, LostIsNat
<1>2. \A r \in Requests' : PastRetirement(r)'
  BY RetirementsArePast
<1>3. job' # NoJob /\ job'.kind = "Commit" => Carries(job')
  BY JobCarries
<1>4. pending' # NoValue => Carries(pending')
  BY JobCases, RetainCarries DEF Books, LossInv
<1>5. (job' # NoJob /\ job'.kind = "Commit" /\ job'.reply # NoValue)
        => Fits(job.reply, job.request)'
  BY JobFits
<1> QED BY <1>1, <1>2, <1>3, <1>4, <1>5 DEF LossInv, Carries

LEMMA BalanceStep ==
  ASSUME Books, SerialInv', TermsInv', ~CleanupFacts, [CoordNext]_vars
  PROVE  Balanced'
<1>1. CASE job # NoJob /\ (Submit \/ SubmitRefused \/ PollUnknown \/ Receive \/ EndWorker)
  BY <1>1, ProgressBalances
<1>2. ASSUME UNCHANGED storeVars, UNCHANGED <<job, pending, lostEver>>,
             queue' = queue \/ queue' = <<>>
      PROVE  Balanced'
  BY <1>2, QueuedShrinks, BalanceElsewhere DEF Books
<1>3. CASE job = NoJob /\ (Submit \/ SubmitRefused \/ PollUnknown \/ Receive \/ EndWorker)
  <2>1. EndWorker
    BY <1>3 DEF Submit, SubmitRefused, PollUnknown, Receive, Running
  <2>2. job' = job
    BY <1>3, <2>1, StillFree DEF Books
  <2> QED BY <1>2, <2>1, <2>2 DEF EndWorker, historyVars
<1>4. CASE \E p \in Producers : Admit(p) \/ Pop(p) \/ Block(p)
  BY <1>2, <1>4 DEF Admit, Pop, Block, historyVars
<1>5. CASE \E p \in Producers, r \in Runs, g \in 1..issued, envelope \in Envelopes :
             Stage(p, r, g, envelope)
  BY <1>2, <1>5 DEF Stage, managerVars, historyVars
<1>6. CASE \E e \in spool, policy \in Policies, notify \in NotifyChoices :
             StartCommit(e, policy, notify)
  BY <1>6, StartCommitBalances
<1>7. CASE \E p \in Producers, r \in Runs, first \in FirstSequences,
              baseline \in Baselines \cup {NoValue} :
              \E resolved, continued \in {NoValue, projections[r].current} :
                \E previous \in Believed(p) :
                  StartReconcile(p, r, first, previous, baseline, resolved, continued)
  BY <1>7, StartReconcileBalances
<1>8. CASE ResumeCommit
  BY <1>8, ResumeBalances
<1>9. CASE TakeCommitted \/ Drop
  BY <1>9, ReleaseBalances DEF TakeCommitted, Drop
<1>10. CASE Retain
  BY <1>10, RetainBalances
<1>11. CASE Crash
  BY <1>11, CrashBalances
<1>12. CASE Execute
  BY <1>12, ExecuteBalances
<1>13. CASE Confirm \/ RequestShutdown \/ UNCHANGED vars
  BY <1>2, <1>13 DEF Confirm, RequestShutdown, managerVars, historyVars, vars
<1>14. CASE OtherRequest \/ StartWorker
  <2>1. UNCHANGED <<queue, job, pending, lostEver>>
    BY <1>14 DEF OtherRequest, StartWorker, managerVars, historyVars
  <2>2. \/ UNCHANGED storeVars
        \/ OtherWrite \/ Reopen
        \/ Maintain(IF CleanupFacts THEN facts ELSE {}, tombstones, {})
    BY <1>14 DEF OtherRequest, StartWorker
  <2> QED BY <1>2, <2>1, <2>2, MaintenanceBalances
<1> QED BY <1>1, <1>3, <1>4, <1>5, <1>6, <1>7, <1>8, <1>9, <1>10, <1>11, <1>12, <1>13, <1>14
        DEF CoordNext

\* What the store counts as lost never exceeds what registries discarded, though
\* a count travels in requests that are retried, retained, resumed and left
\* behind (CommitJob::freeze, into_pending; storage/reducer_transaction.rs),
\* as long as no cleanup removes a fact whose request may still be submitted.
THEOREM LossesAreNotOvercounted ==
  ASSUME ~CleanupFacts
  PROVE  CoordSpec => []DiscardNeverOvercounted
<1>1. CoordInit => Books
  <2> SUFFICES ASSUME CoordInit PROVE Books
    OBVIOUS
  <2>1. Queued = {}
    BY DEF CoordInit, Queued
  <2>2. ClosedInv
    BY <2>1 DEF CoordInit, ClosedInv, Requests, Subjects
  <2>3. LossInv
    BY <2>1 DEF CoordInit, Init, LossInv, Requests
  <2>4. Balanced
    BY <2>1 DEF CoordInit, Init, Balanced, Owes, JobOwes, PendingOwes
  <2> QED BY <2>2, <2>3, <2>4, CallInit, RequestStart, OrderStart, SerialStart DEF Books
<1>2. Books /\ [CoordNext]_vars => Books'
  <2> SUFFICES ASSUME Books, [CoordNext]_vars PROVE Books'
    OBVIOUS
  <2>1. CallInv' /\ RequestInv' /\ OrderInv' /\ TermsInv'
    BY CallStep, RequestStep, OrderStep, TermsStep DEF Books
  <2>2. SerialInv'
    BY SerialStep DEF Books, OrderInv
  <2>3. ClosedInv'
    BY ClosedStep DEF Books, TermsInv
  <2>4. LossInv' /\ Balanced'
    BY <2>1, <2>2, LossStep, BalanceStep
  <2> QED BY <2>1, <2>2, <2>3, <2>4 DEF Books
<1>3. Books => DiscardNeverOvercounted
  <2> SUFFICES ASSUME Books PROVE discarded <= lostEver
    BY DEF DiscardNeverOvercounted
  <2>1. Owes \in Nat
    BY OwedNat DEF Books, Owes
  <2>2. discarded \in Nat /\ lostEver \in Nat /\ discarded + Owes <= lostEver
    BY DEF Books, LossInv, Balanced
  <2> QED BY <2>1, <2>2
<1> QED BY <1>1, <1>2, <1>3, PTL DEF CoordSpec

=============================================================================
