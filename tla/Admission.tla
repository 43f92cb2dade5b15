------------------------------ MODULE Admission ------------------------------
(***************************************************************************)
(* The volatile admission registry (`ingestion/registry.rs`, `queue.rs`):  *)
(* trusted registrations, the sessions of event connections bound to them, *)
(* the receipts that recognise replayed frames, and the bounded queues     *)
(* that are popped round-robin.  The registry is borrowed exclusively, so  *)
(* each call is one atomic action; a call that is refused without a trace  *)
(* is no action.                                                           *)
(*                                                                         *)
(* Abstractions.  uid and harness travel with the run.  The scope pointer  *)
(* a session compares is the session's `bound` flag: a scope, once         *)
(* replaced, equals no later one.  The length of a frame depends on the id *)
(* of its event.                                                           *)
(***************************************************************************)
EXTENDS Naturals, Sequences, FiniteSets, FiniteSetsExt

CONSTANTS
  Producers, Runs, Kinds, EventIds, NoValue,
  Grants,               \* sets of signals the manager may grant a producer
  FrameLength,          \* event id |-> length of its frame
  MaxSeq,               \* u64::MAX for sequences
  MaxGeneration,        \* bound on the generations installed
  MaxSessions,          \* bound on the sessions held
  MaxCount,             \* u64::MAX for the two counters, which saturate
  MaxProducers, MaxQueued, MaxProducerQueued,      \* limits of ingestion/mod.rs
  MaxProducerReceipts, MaxReceipts, MaxReceiptBytes

ASSUME AdmissionAssumption ==
  /\ MaxSeq \in Nat \ {0} /\ MaxGeneration \in Nat /\ MaxSessions \in Nat
  /\ MaxCount \in Nat /\ MaxProducers \in Nat
  /\ MaxQueued \in Nat /\ MaxProducerQueued \in Nat
  /\ MaxProducerReceipts \in Nat /\ MaxReceipts \in Nat /\ MaxReceiptBytes \in Nat
  /\ FrameLength \in [EventIds -> Nat]
  /\ IsFiniteSet(Producers)           \* producer ids are of bounded length
  /\ Grants \subseteq SUBSET Kinds
  /\ NoValue \notin Nat

VARIABLES
  producers,      \* producer |-> its registration and admission state, or NoValue
  sessions,       \* sessions that connections hold
  queues,         \* producer |-> its backlog
  ready,          \* the ring of producers to pop from
  count,          \* Queue::count
  receipts,       \* receipts held over all producers
  receiptBytes,   \* and the bytes of their frames
  discarded, rejected,
  issued,         \* generations installed so far
  passed          \* history: pops of others while a producer's backlog waits

admissionVars == <<producers, sessions, queues, ready, count, receipts, receiptBytes,
                   discarded, rejected, issued, passed>>

Seqs == 1..MaxSeq

Events ==
  [producer : Producers, generation : 1..MaxGeneration, run : Runs, seq : Seqs,
   id : EventIds, kind : Kinds]

\* A registration with its admission state.
Records ==
  [generation : 1..MaxGeneration, run : Runs, allowed : SUBSET Kinds,
   next : Seqs \cup {NoValue}, blocked : BOOLEAN, receipts : SUBSET Events]

ASSUME NoValueAssumption == NoValue \notin Records

Init ==
  /\ producers = [p \in Producers |-> NoValue]
  /\ sessions = {} /\ ready = <<>> /\ count = 0
  /\ queues = [p \in Producers |-> <<>>]
  /\ receipts = 0 /\ receiptBytes = 0 /\ discarded = 0 /\ rejected = 0 /\ issued = 0
  /\ passed = [p \in Producers |-> 0]

Installed(p) == producers[p] # NoValue

Saturating(n) == IF n > MaxCount THEN MaxCount ELSE n

BytesOf(events) == SumFunction([e \in events |-> FrameLength[e.id]])

-----------------------------------------------------------------------------
(* The queue (`ingestion/queue.rs`) *)

HasRoom(p) == count < MaxQueued /\ Len(queues[p]) < MaxProducerQueued

Push(p, e) ==
  /\ ready' = IF queues[p] = <<>> THEN Append(ready, p) ELSE ready
  /\ queues' = [queues EXCEPT ![p] = Append(@, e)]
  /\ count' = count + 1

\* Mutant: the producer that was served is the next to be served.
RequeueFirst(p, ring) == <<p>> \o ring

Requeue(p, ring) == Append(ring, p)

\* A ring entry without a backlog is given up, and nothing is returned.
Pop ==
  /\ ready # <<>>
  /\ LET p == Head(ready)
     IN  IF queues[p] = <<>>
         THEN ready' = Tail(ready) /\ UNCHANGED <<queues, count, passed>>
         ELSE /\ queues' = [queues EXCEPT ![p] = Tail(@)]
              /\ count' = count - 1
              /\ ready' = IF Len(queues[p]) = 1 THEN Tail(ready) ELSE Requeue(p, Tail(ready))
              /\ passed' = [q \in Producers |->
                             IF q = p \/ queues[q] = <<>> THEN 0 ELSE passed[q] + 1]
  /\ UNCHANGED <<producers, sessions, receipts, receiptBytes, discarded, rejected, issued>>

\* Mutant: the backlog goes, its place in the ring stays.
RingAfterDiscardKept(p) == ready

\* What `retain` keeps of the first n entries.
RingAfterDiscard(p) ==
  LET kept[n \in 0..Len(ready)] ==
        IF n = 0 THEN <<>>
        ELSE IF ready[n] = p THEN kept[n - 1] ELSE Append(kept[n - 1], ready[n])
  IN  kept[Len(ready)]

Discard(p) ==
  /\ queues' = [queues EXCEPT ![p] = <<>>]
  /\ ready' = RingAfterDiscard(p)
  /\ count' = count - Len(queues[p])
  /\ discarded' = Saturating(discarded + Len(queues[p]))
  /\ passed' = [passed EXCEPT ![p] = 0]

-----------------------------------------------------------------------------
(* Registrations *)

Registration(g, r, allowed, next) ==
  [generation |-> g, run |-> r, allowed |-> allowed, next |-> next,
   blocked |-> FALSE, receipts |-> {}]

Unbound(p) == {IF s.producer = p THEN [s EXCEPT !.bound = FALSE] ELSE s : s \in sessions}

\* A producer unknown to the registry, within its capacity.
Admissible(p) == ~Installed(p) /\ Cardinality({q \in Producers : Installed(q)}) < MaxProducers

Register(p, r, allowed, next) ==
  /\ issued < MaxGeneration
  /\ Admissible(p)
  /\ producers' = [producers EXCEPT ![p] = Registration(issued + 1, r, allowed, next)]
  /\ issued' = issued + 1
  /\ UNCHANGED <<sessions, queues, ready, count, receipts, receiptBytes, discarded,
                 rejected, passed>>

\* Mutant: the frames of the old receipts are still counted.
HeldReceiptsLeaking(p) ==
  [receipts |-> IF Installed(p) THEN Cardinality(producers[p].receipts) ELSE 0, bytes |-> 0]

HeldReceipts(p) ==
  IF ~Installed(p) THEN [receipts |-> 0, bytes |-> 0]
  ELSE [receipts |-> Cardinality(producers[p].receipts),
        bytes    |-> BytesOf(producers[p].receipts)]

\* Mutant: the backlog of the old generation is kept for the new one.
ReplaceKeepingBacklog(p, registration) ==
  /\ producers' = [producers EXCEPT ![p] = registration]
  /\ receipts' = receipts - HeldReceipts(p).receipts
  /\ receiptBytes' = receiptBytes - HeldReceipts(p).bytes
  /\ sessions' = Unbound(p)
  /\ issued' = issued + 1
  /\ UNCHANGED <<queues, ready, count, discarded, passed, rejected>>

\* A fresh generation: old receipts, backlog and sessions are gone.
Replace(p, registration) ==
  /\ producers' = [producers EXCEPT ![p] = registration]
  /\ receipts' = receipts - HeldReceipts(p).receipts
  /\ receiptBytes' = receiptBytes - HeldReceipts(p).bytes
  /\ Discard(p)
  /\ sessions' = Unbound(p)
  /\ issued' = issued + 1
  /\ UNCHANGED rejected

\* install_committed: the generation the database returned; a changed run is
\* refused.
InstallCommitted(p, r, allowed, next) ==
  /\ issued < MaxGeneration
  /\ \/ Admissible(p)
     \/ Installed(p) /\ producers[p].run = r
  /\ Replace(p, Registration(issued + 1, r, allowed, next))

\* Registry::reconcile draws the generation itself.
Reconcile(p, next) ==
  /\ issued < MaxGeneration
  /\ Installed(p)
  /\ Replace(p, Registration(issued + 1, producers[p].run, producers[p].allowed, next))

\* Admission closes, receipts stay.
Invalidate(p) ==
  /\ Installed(p)
  /\ producers' = [producers EXCEPT ![p].blocked = TRUE]
  /\ sessions' = Unbound(p)
  /\ Discard(p)
  /\ UNCHANGED <<receipts, receiptBytes, rejected, issued>>

-----------------------------------------------------------------------------
(* Sessions and admission *)

Connect(p, requested) ==
  /\ Installed(p) /\ ~producers[p].blocked
  /\ Cardinality(sessions) < MaxSessions
  /\ sessions' = sessions \cup {[producer |-> p, generation |-> producers[p].generation,
                                 signals |-> requested \cap producers[p].allowed,
                                 bound |-> TRUE]}
  /\ UNCHANGED <<producers, queues, ready, count, receipts, receiptBytes, discarded,
                 rejected, issued, passed>>

Disconnect(s) ==
  /\ sessions' = sessions \ {s}
  /\ UNCHANGED <<producers, queues, ready, count, receipts, receiptBytes, discarded,
                 rejected, issued, passed>>

\* Producer::sequence, on an event of the session's own scope.
SequenceOutcome(record, e) ==
  CASE record.blocked -> "ReconciliationRequired"
    [] ~record.blocked /\ e \in record.receipts -> "AlreadyAdmitted"
    [] /\ ~record.blocked /\ e \notin record.receipts
       /\ \E f \in record.receipts : f.seq = e.seq \/ f.id = e.id -> "Conflict"
    [] OTHER ->
         CASE record.next = NoValue -> "ReconciliationRequired"
           [] record.next # NoValue /\ e.seq < record.next -> "ReplayRejected"
           [] record.next # NoValue /\ e.seq > record.next -> "SequenceGap"
           [] OTHER -> "Queued"

Saturated(record, e) ==
  \/ Cardinality(record.receipts) >= MaxProducerReceipts
  \/ receipts >= MaxReceipts
  \/ FrameLength[e.id] > MaxReceiptBytes - receiptBytes

AdmitOutcome(s, e) ==
  LET record   == producers[s.producer]
      sequence == SequenceOutcome(record, e)
  IN  CASE ~s.bound -> "StaleGeneration"
        [] s.bound /\ e.kind \notin s.signals -> "PermissionDenied"
        [] OTHER ->
             CASE sequence # "Queued" -> sequence
               [] sequence = "Queued" /\ ~HasRoom(s.producer) -> "QueueFull"
               [] /\ sequence = "Queued" /\ HasRoom(s.producer)
                  /\ Saturated(record, e) -> "Saturated"
               [] OTHER -> "Queued"

\* Refusals after which nothing of the generation is admitted any more.
Blocking == {"Conflict", "SequenceGap", "Saturated"}

EventsOf(s) ==
  [producer : {s.producer}, generation : {s.generation}, run : {producers[s.producer].run},
   seq : Seqs, id : EventIds, kind : Kinds]

Advanced(record, e) ==
  [record EXCEPT !.next = IF e.seq = MaxSeq THEN NoValue ELSE e.seq + 1,
                 !.receipts = record.receipts \cup {e}]

Accept(s, e) ==
  /\ AdmitOutcome(s, e) = "Queued"
  /\ producers' = [producers EXCEPT ![s.producer] = Advanced(@, e)]
  /\ receipts' = receipts + 1
  /\ receiptBytes' = receiptBytes + FrameLength[e.id]
  /\ Push(s.producer, e)
  /\ UNCHANGED <<sessions, discarded, rejected, issued, passed>>

Refuse(s, e) ==
  /\ AdmitOutcome(s, e) \notin {"Queued", "AlreadyAdmitted"}
  /\ producers' = IF AdmitOutcome(s, e) \in Blocking
                  THEN [producers EXCEPT ![s.producer].blocked = TRUE] ELSE producers
  /\ rejected' = Saturating(rejected + 1)
  /\ UNCHANGED <<sessions, queues, ready, count, receipts, receiptBytes, discarded,
                 issued, passed>>

\* A frame that does not parse, or names another scope than the session's.
RefuseFrame(s) ==
  /\ rejected' = Saturating(rejected + 1)
  /\ UNCHANGED <<producers, sessions, queues, ready, count, receipts, receiptBytes,
                 discarded, issued, passed>>

-----------------------------------------------------------------------------

Next ==
  \/ \E p \in Producers, r \in Runs, allowed \in Grants, next \in Seqs :
       Register(p, r, allowed, next) \/ InstallCommitted(p, r, allowed, next)
  \/ \E p \in Producers, next \in Seqs : Reconcile(p, next)
  \/ \E p \in Producers : Invalidate(p) \/ Connect(p, Kinds)
  \/ \E s \in sessions : Disconnect(s) \/ RefuseFrame(s)
  \/ \E s \in sessions : \E e \in EventsOf(s) : Accept(s, e) \/ Refuse(s, e)
  \/ Pop

Spec == Init /\ [][Next]_admissionVars

-----------------------------------------------------------------------------
(* Properties *)

\* The ring holds each producer with a backlog exactly once and no other, and
\* the count is the length of all backlogs: a stale entry would make pop return
\* nothing while events wait, a missing one would strand its producer's events.
RingIsBacklog ==
  /\ \A i, j \in 1..Len(ready) : ready[i] = ready[j] => i = j
  /\ {ready[i] : i \in 1..Len(ready)} = {p \in Producers : queues[p] # <<>>}
  /\ count = SumFunction([p \in Producers |-> Len(queues[p])])

\* Round robin: a producer with a backlog is served after at most one event of
\* each other producer, however fast they refill.
ServedInTurn == \A p \in Producers : passed[p] < Cardinality(Producers)

\* The global receipt counters are the sums over the registered producers
\* through every replacement, so their unsigned subtractions never underflow,
\* and they respect their limits.
CountersExact ==
  /\ receipts = SumFunction([p \in Producers |-> HeldReceipts(p).receipts])
  /\ receiptBytes = SumFunction(
       [p \in Producers |-> IF Installed(p) THEN BytesOf(producers[p].receipts) ELSE 0])
  /\ receipts <= MaxReceipts /\ receiptBytes <= MaxReceiptBytes

\* The backlog of a producer is the latest run of its receipts, in sequence
\* order, under its installed generation: nothing that was popped is queued
\* again, nothing of an old generation survives a replacement, and an event
\* refused for lack of room has not moved the checkpoint.
BacklogIsLatestReceipts ==
  \A p \in Producers :
    IF ~Installed(p) THEN queues[p] = <<>>
    ELSE LET record  == producers[p]
             past    == IF record.next = NoValue THEN MaxSeq + 1 ELSE record.next
             backlog == Len(queues[p])
         IN  /\ \A i \in 1..backlog :
                  /\ queues[p][i] \in record.receipts
                  /\ queues[p][i].seq = past - backlog + i - 1
             /\ {e.seq : e \in record.receipts} =
                  (past - Cardinality(record.receipts))..(past - 1)
             /\ \A e \in record.receipts : e.generation = record.generation

=============================================================================
