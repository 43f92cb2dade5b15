---------------------------- MODULE AdmissionProofs ----------------------------
(***************************************************************************)
(* What holds of Admission for any number of producers, sessions, events   *)
(* and generations.                                                        *)
(***************************************************************************)
EXTENDS Admission, FiniteSetTheorems, SequenceTheorems, WellFoundedInduction, TLAPS

Sessions ==
  [producer : Producers, generation : 1..MaxGeneration, signals : SUBSET Kinds,
   bound : BOOLEAN]

Types ==
  /\ producers \in [Producers -> Records \cup {NoValue}]
  /\ queues \in [Producers -> Seq(Events)]
  /\ sessions \subseteq Sessions
  /\ issued \in 0..MaxGeneration

\* A session that is still bound speaks for the generation that is installed.
SessionsCurrent ==
  \A s \in sessions : s.bound =>
    Installed(s.producer) /\ s.generation = producers[s.producer].generation

\* The checkpoint of an exhausted producer is past the last number there is.
Past(record) == IF record.next = NoValue THEN MaxSeq + 1 ELSE record.next

\* The numbers of the receipts are the last ones before the checkpoint, and
\* those of the backlog the last of these.
Receipted(record) ==
  /\ IsFiniteSet(record.receipts)
  /\ {e.seq : e \in record.receipts} =
       (Past(record) - Cardinality(record.receipts))..(Past(record) - 1)
  /\ \A e \in record.receipts : e.generation = record.generation

Backlogged(record, queue) ==
  \A i \in 1..Len(queue) :
    /\ queue[i] \in record.receipts
    /\ queue[i].seq = Past(record) - Len(queue) + i - 1

Aligned(p) ==
  IF ~Installed(p) THEN queues[p] = <<>>
  ELSE Receipted(producers[p]) /\ Backlogged(producers[p], queues[p])

AdmissionInv ==
  /\ Types
  /\ SessionsCurrent
  /\ \A p \in Producers : Aligned(p)

LEMMA RecordFacts ==
  ASSUME NEW record \in Records
  PROVE  /\ record # NoValue
         /\ Past(record) \in Nat
         /\ record.next # NoValue => record.next \in Seqs /\ Past(record) = record.next
  BY AdmissionAssumption, NoValueAssumption DEF Records, Past, Seqs

-----------------------------------------------------------------------------
(* The registry and its queues, one producer at a time *)

\* What is installed has no receipts yet.
LEMMA FreshRegistration ==
  ASSUME NEW r \in Runs, NEW allowed \in SUBSET Kinds, NEW next \in Seqs,
         issued \in 0..MaxGeneration, issued < MaxGeneration
  PROVE  /\ Registration(issued + 1, r, allowed, next) \in Records
         /\ Receipted(Registration(issued + 1, r, allowed, next))
         /\ \A record : Backlogged(record, <<>>)
<1> DEFINE fresh == Registration(issued + 1, r, allowed, next)
<1>1. fresh \in Records
  BY AdmissionAssumption DEF Registration, Records
<1>2. /\ fresh.receipts = {} /\ fresh.next = next /\ next \in Nat /\ next # NoValue
      /\ IsFiniteSet({}) /\ Cardinality({}) = 0
  BY FS_EmptySet, AdmissionAssumption DEF Registration, Seqs
<1>3. Past(fresh) = next
  BY <1>2 DEF Past
<1>4. (next - 0)..(next - 1) = {}
  BY <1>2
<1>5. Receipted(fresh)
  BY <1>2, <1>3, <1>4 DEF Receipted
<1>6. \A record : Backlogged(record, <<>>)
  BY DEF Backlogged
<1> QED BY <1>1, <1>5, <1>6

\* Sessions of the producer keep all but their binding.
LEMMA UnboundFacts ==
  ASSUME AdmissionInv, NEW p \in Producers
  PROVE  \A s \in Unbound(p) : s \in Sessions /\ (s.bound => s \in sessions /\ s.producer # p)
<1> TAKE s \in Unbound(p)
<1>1. PICK u \in sessions : s = IF u.producer = p THEN [u EXCEPT !.bound = FALSE] ELSE u
  BY DEF Unbound
<1>2. u \in Sessions
  BY DEF AdmissionInv, Types
<1>3. CASE u.producer = p
  BY <1>1, <1>2, <1>3 DEF Sessions
<1> QED BY <1>1, <1>2, <1>3

\* Nothing of the others is touched when a producer is registered anew.
LEMMA ReplaceStep ==
  ASSUME AdmissionInv, NEW p \in Producers, NEW r \in Runs, NEW allowed \in SUBSET Kinds,
         NEW next \in Seqs, issued < MaxGeneration,
         producers' = [producers EXCEPT ![p] = Registration(issued + 1, r, allowed, next)],
         queues' = [queues EXCEPT ![p] = <<>>],
         \/ sessions' = Unbound(p)
         \/ sessions' = sessions /\ ~Installed(p),
         issued' = issued + 1
  PROVE  AdmissionInv'
<1> DEFINE fresh == Registration(issued + 1, r, allowed, next)
<1>1. fresh \in Records /\ Receipted(fresh) /\ \A record : Backlogged(record, <<>>)
  BY FreshRegistration DEF AdmissionInv, Types
<1> HIDE DEF fresh
<1>2. /\ producers' = [producers EXCEPT ![p] = fresh]
      /\ \A q \in Producers : Installed(q) => producers[q] \in Records
  BY DEF fresh, AdmissionInv, Types, Installed
<1>3. sessions' \subseteq Sessions
  BY UnboundFacts DEF AdmissionInv, Types
<1>4. Types'
  BY <1>1, <1>2, <1>3, AdmissionAssumption DEF AdmissionInv, Types
<1>5. \A s \in sessions' : s.bound => s \in sessions /\ s.producer # p
  BY UnboundFacts DEF AdmissionInv, SessionsCurrent
<1>6. SessionsCurrent'
  BY <1>2, <1>3, <1>5 DEF AdmissionInv, Types, SessionsCurrent, Installed, Sessions
<1>7. ASSUME NEW q \in Producers PROVE Aligned(q)'
  BY <1>1, <1>2 DEF AdmissionInv, Types, Aligned, Installed
<1> QED BY <1>4, <1>6, <1>7 DEF AdmissionInv

LEMMA PushedFacts ==
  ASSUME NEW queue \in Seq(Events), NEW e \in Events
  PROVE  /\ Append(queue, e) \in Seq(Events)
         /\ Len(Append(queue, e)) = Len(queue) + 1
         /\ \A i \in 1..Len(queue) : Append(queue, e)[i] = queue[i]
         /\ Append(queue, e)[Len(queue) + 1] = e
         /\ Len(queue) \in Nat
  OBVIOUS

\* The event that is admitted has the number of the checkpoint, so it is new to
\* the receipts and comes after all of them.
LEMMA AcceptStep ==
  ASSUME AdmissionInv, NEW s \in sessions, NEW e \in EventsOf(s), Accept(s, e)
  PROVE  AdmissionInv'
<1> DEFINE p == s.producer
           record == producers[p]
           after == Advanced(record, e)
           queue == queues[p]
           longer == Append(queue, e)
<1>1. /\ s.bound /\ p \in Producers /\ Installed(p) /\ s.generation = record.generation
      /\ record \in Records /\ queue \in Seq(Events)
  <2>1. s.bound
    BY DEF Accept, AdmitOutcome
  <2>2. p \in Producers /\ Installed(p) /\ s.generation = record.generation
    BY <2>1 DEF AdmissionInv, Types, SessionsCurrent, Sessions
  <2> QED BY <2>1, <2>2 DEF AdmissionInv, Types, Installed
<1> HIDE DEF record, queue
<1>2. SequenceOutcome(record, e) = "Queued"
  BY DEF Accept, AdmitOutcome, record
<1>3. record.next # NoValue /\ ~(e.seq < record.next) /\ ~(e.seq > record.next)
  BY <1>2 DEF SequenceOutcome
<1>4. /\ e \in Events /\ e.generation = record.generation
      /\ e.seq \in Seqs /\ record.next \in Seqs
  BY <1>1, <1>3, RecordFacts DEF EventsOf, Events, Records, record
<1>5. e.seq = record.next /\ e.seq \in Nat /\ Past(record) = e.seq
  BY <1>1, <1>3, <1>4, AdmissionAssumption, RecordFacts DEF Seqs
<1>6. /\ after \in Records /\ after.receipts = record.receipts \cup {e}
      /\ after.generation = record.generation /\ Past(after) = e.seq + 1
      /\ after # NoValue
  <2>1. /\ after \in Records
        /\ after.next = IF e.seq = MaxSeq THEN NoValue ELSE e.seq + 1
        /\ after.receipts = record.receipts \cup {e}
        /\ after.generation = record.generation
    <3> DEFINE following == IF e.seq = MaxSeq THEN NoValue ELSE e.seq + 1
    <3>1. following \in Seqs \cup {NoValue}
      BY <1>4, AdmissionAssumption DEF Seqs
    <3>2. record.receipts \cup {e} \in SUBSET Events
      BY <1>1, <1>4 DEF Records
    <3>3. after = [record EXCEPT !.next = following, !.receipts = record.receipts \cup {e}]
      BY DEF Advanced
    <3> HIDE DEF following, after
    <3>4. /\ after \in Records /\ after.next = following
          /\ after.receipts = record.receipts \cup {e}
          /\ after.generation = record.generation
      BY <1>1, <3>1, <3>2, <3>3 DEF Records
    <3> QED BY <3>4 DEF following
  <2>2. Past(after) = e.seq + 1
    BY <2>1, <1>5, AdmissionAssumption DEF Past
  <2> QED BY <2>1, <2>2, RecordFacts
<1>7. Receipted(record) /\ Backlogged(record, queue)
  BY <1>1 DEF AdmissionInv, Aligned, record, queue
<1>8. Receipted(after)
  <2>1. e \notin record.receipts
    BY <1>2 DEF SequenceOutcome
  <2>2. /\ IsFiniteSet(after.receipts)
        /\ Cardinality(after.receipts) = Cardinality(record.receipts) + 1
        /\ Cardinality(record.receipts) \in Nat
    <3>1. IsFiniteSet(record.receipts)
      BY <1>7 DEF Receipted
    <3>2. Cardinality(record.receipts) \in Nat
      BY <3>1, FS_CardinalityType
    <3>3. /\ IsFiniteSet(record.receipts \cup {e})
          /\ Cardinality(record.receipts \cup {e}) = Cardinality(record.receipts) + 1
      BY <2>1, <3>1, FS_AddElement
    <3> QED BY <1>6, <3>2, <3>3
  <2>3. {f.seq : f \in after.receipts} = {f.seq : f \in record.receipts} \cup {e.seq}
    BY <1>6
  <2>4. {f.seq : f \in record.receipts} = (e.seq - Cardinality(record.receipts))..(e.seq - 1)
    BY <1>5, <1>7 DEF Receipted
  <2>5. ((e.seq - Cardinality(record.receipts))..(e.seq - 1)) \cup {e.seq} =
          (Past(after) - Cardinality(after.receipts))..(Past(after) - 1)
    BY <1>5, <1>6, <2>2
  <2>6. \A f \in after.receipts : f.generation = after.generation
    BY <1>4, <1>6, <1>7 DEF Receipted
  <2> QED BY <2>2, <2>3, <2>4, <2>5, <2>6 DEF Receipted
<1>9. Backlogged(after, longer)
  <2> SUFFICES ASSUME NEW i \in 1..Len(longer)
               PROVE  /\ longer[i] \in after.receipts
                      /\ longer[i].seq = Past(after) - Len(longer) + i - 1
    BY DEF Backlogged
  <2>1. CASE i = Len(queue) + 1
    <3>1. longer[i] = e /\ Len(longer) = i
      BY <1>1, <1>4, <2>1, PushedFacts
    <3>2. i \in Nat /\ Past(after) - Len(longer) + i - 1 = e.seq
      BY <1>5, <1>6, <3>1
    <3> QED BY <1>6, <3>1, <3>2
  <2>2. CASE i \in 1..Len(queue)
    <3>1. longer[i] = queue[i] /\ Len(longer) = Len(queue) + 1 /\ Len(queue) \in Nat
      BY <1>1, <1>4, <2>2, PushedFacts
    <3>2. queue[i] \in record.receipts /\ queue[i].seq = e.seq - Len(queue) + i - 1
      BY <1>5, <1>7, <2>2 DEF Backlogged
    <3>3. Past(after) - Len(longer) + i - 1 = e.seq - Len(queue) + i - 1
      BY <1>5, <1>6, <3>1
    <3> QED BY <1>6, <3>1, <3>2, <3>3
  <2> QED BY <1>1, <1>4, <2>1, <2>2, PushedFacts
<1>10. /\ producers' = [producers EXCEPT ![p] = after]
       /\ queues' = [queues EXCEPT ![p] = longer]
       /\ UNCHANGED <<sessions, issued>>
  <2>1. /\ queues' = [queues EXCEPT ![p] = Append(queues[p], e)]
        /\ UNCHANGED <<sessions, issued>>
    BY DEF Accept, Push
  <2>2. producers' = [producers EXCEPT ![p] = Advanced(producers[p], e)]
    BY DEF Accept
  <2> QED BY <2>1, <2>2 DEF record, queue
<1>11. longer \in Seq(Events)
  BY <1>1, <1>4, PushedFacts
<1> HIDE DEF after, longer
<1>12. Types'
  BY <1>1, <1>6, <1>10, <1>11 DEF AdmissionInv, Types
<1>13. SessionsCurrent'
  BY <1>1, <1>6, <1>10 DEF AdmissionInv, Types, SessionsCurrent, Sessions, Installed, record
<1>14. ASSUME NEW q \in Producers PROVE Aligned(q)'
  BY <1>1, <1>6, <1>8, <1>9, <1>10 DEF AdmissionInv, Types, Aligned, Installed
<1> QED BY <1>12, <1>13, <1>14 DEF AdmissionInv

LEMMA PoppedFacts ==
  ASSUME NEW queue \in Seq(Events), queue # <<>>
  PROVE  /\ Tail(queue) \in Seq(Events)
         /\ Len(queue) \in Nat
         /\ Len(Tail(queue)) = Len(queue) - 1
         /\ \A i \in 1..Len(Tail(queue)) : i + 1 \in 1..Len(queue) /\ Tail(queue)[i] = queue[i + 1]
  BY HeadTailProperties

LEMMA PopStep == AdmissionInv /\ Pop => AdmissionInv'
<1> SUFFICES ASSUME AdmissionInv, Pop PROVE AdmissionInv'
  OBVIOUS
<1> DEFINE p == Head(ready)
           queue == queues[p]
<1>1. UNCHANGED <<producers, sessions, issued>>
  BY DEF Pop
<1>2. CASE queues' = queues
  BY <1>1, <1>2 DEF AdmissionInv, Types, SessionsCurrent, Aligned, Installed
<1>3. CASE p \in Producers /\ queue # <<>> /\ queues' = [queues EXCEPT ![p] = Tail(@)]
  <2>1. /\ queue \in Seq(Events) /\ Installed(p) /\ Backlogged(producers[p], queue)
        /\ producers[p] \in Records
    BY <1>3 DEF AdmissionInv, Types, Aligned, Installed
  <2>2. Backlogged(producers[p], Tail(queue))
    <3> SUFFICES ASSUME NEW i \in 1..Len(Tail(queue))
                 PROVE  /\ Tail(queue)[i] \in producers[p].receipts
                        /\ Tail(queue)[i].seq = Past(producers[p]) - Len(Tail(queue)) + i - 1
      BY DEF Backlogged
    <3>1. /\ i + 1 \in 1..Len(queue) /\ Tail(queue)[i] = queue[i + 1]
          /\ Len(Tail(queue)) = Len(queue) - 1 /\ Len(queue) \in Nat
          /\ Past(producers[p]) \in Nat
      BY <1>3, <2>1, PoppedFacts, RecordFacts
    <3>2. /\ queue[i + 1] \in producers[p].receipts
          /\ queue[i + 1].seq = Past(producers[p]) - Len(queue) + (i + 1) - 1
      BY <2>1, <3>1 DEF Backlogged
    <3> QED BY <3>1, <3>2
  <2>3. queues' = [queues EXCEPT ![p] = Tail(queue)] /\ Tail(queue) \in Seq(Events)
    BY <1>3, <2>1, PoppedFacts
  <2>4. Types'
    BY <1>1, <1>3, <2>3 DEF AdmissionInv, Types
  <2>5. SessionsCurrent'
    BY <1>1 DEF AdmissionInv, SessionsCurrent, Installed
  <2>6. ASSUME NEW q \in Producers PROVE Aligned(q)'
    BY <1>1, <1>3, <2>1, <2>2, <2>3 DEF AdmissionInv, Types, Aligned, Installed
  <2> QED BY <2>4, <2>5, <2>6 DEF AdmissionInv
<1>4. CASE p \notin Producers /\ queues' = [queues EXCEPT ![p] = Tail(@)]
  <2>1. queues' = queues
    BY <1>4 DEF AdmissionInv, Types
  <2> QED BY <1>2, <2>1
<1> QED BY <1>2, <1>3, <1>4 DEF Pop

-----------------------------------------------------------------------------
(* Every step *)

LEMMA AdmissionStep == AdmissionInv /\ [Next]_admissionVars => AdmissionInv'
<1> SUFFICES ASSUME AdmissionInv, [Next]_admissionVars PROVE AdmissionInv'
  OBVIOUS
<1>1. ASSUME NEW p \in Producers, NEW r \in Runs, NEW allowed \in Grants, NEW next \in Seqs,
             Register(p, r, allowed, next)
      PROVE  AdmissionInv'
  <2>1. ~Installed(p) /\ queues[p] = <<>> /\ allowed \in SUBSET Kinds
    BY <1>1, AdmissionAssumption DEF Register, Admissible, AdmissionInv, Aligned
  <2>2. queues' = [queues EXCEPT ![p] = <<>>]
    BY <1>1, <2>1 DEF Register, AdmissionInv, Types
  <2> QED BY <1>1, <2>1, <2>2, ReplaceStep DEF Register
<1>2. ASSUME NEW p \in Producers, NEW r \in Runs, NEW allowed \in Grants, NEW next \in Seqs,
             InstallCommitted(p, r, allowed, next)
      PROVE  AdmissionInv'
  BY <1>2, ReplaceStep, AdmissionAssumption DEF InstallCommitted, Replace, Discard
<1>3. ASSUME NEW p \in Producers, NEW next \in Seqs, Reconcile(p, next)
      PROVE  AdmissionInv'
  <2>1. producers[p].run \in Runs /\ producers[p].allowed \in SUBSET Kinds
    BY <1>3 DEF Reconcile, Installed, AdmissionInv, Types, Records
  <2> QED BY <1>3, <2>1, ReplaceStep DEF Reconcile, Replace, Discard
<1>4. ASSUME NEW p \in Producers, Invalidate(p) PROVE AdmissionInv'
  <2> DEFINE after == [producers[p] EXCEPT !.blocked = TRUE]
  <2>1. /\ Installed(p) /\ producers[p] \in Records
        /\ queues' = [queues EXCEPT ![p] = <<>>] /\ sessions' = Unbound(p)
        /\ producers' = [producers EXCEPT ![p] = after] /\ UNCHANGED issued
    BY <1>4 DEF Invalidate, Discard, AdmissionInv, Types, Installed
  <2>2. /\ after \in Records /\ Past(after) = Past(producers[p])
        /\ after.receipts = producers[p].receipts
        /\ after.generation = producers[p].generation
    BY <2>1 DEF Records, Past
  <2>3. after # NoValue
    BY <2>2, RecordFacts
  <2>4. Receipted(after) /\ Backlogged(after, <<>>)
    BY <2>1, <2>2 DEF AdmissionInv, Aligned, Receipted, Backlogged
  <2> HIDE DEF after
  <2>5. sessions' \subseteq Sessions /\ \A s \in sessions' : s.bound => s \in sessions
    BY <2>1, UnboundFacts
  <2>6. Types'
    BY <2>1, <2>2, <2>5 DEF AdmissionInv, Types
  <2>7. SessionsCurrent'
    BY <2>1, <2>2, <2>3, <2>5 DEF AdmissionInv, Types, SessionsCurrent, Installed, Sessions
  <2>8. ASSUME NEW q \in Producers PROVE Aligned(q)'
    BY <2>1, <2>3, <2>4 DEF AdmissionInv, Types, Aligned, Installed
  <2> QED BY <2>6, <2>7, <2>8 DEF AdmissionInv
<1>5. ASSUME NEW p \in Producers, Connect(p, Kinds) PROVE AdmissionInv'
  <2>1. /\ Installed(p) /\ producers[p] \in Records /\ UNCHANGED <<producers, queues, issued>>
        /\ sessions' = sessions \cup {[producer |-> p, generation |-> producers[p].generation,
                                       signals |-> Kinds \cap producers[p].allowed,
                                       bound |-> TRUE]}
    BY <1>5 DEF Connect, AdmissionInv, Types, Installed
  <2>2. producers[p].generation \in 1..MaxGeneration
    BY <2>1 DEF Records
  <2> DEFINE new == [producer |-> p, generation |-> producers[p].generation,
                     signals |-> Kinds \cap producers[p].allowed, bound |-> TRUE]
  <2>3. /\ new \in Sessions /\ new.producer = p
        /\ new.generation = producers[p].generation
    BY <2>2 DEF Sessions
  <2> HIDE DEF new
  <2>4. sessions' = sessions \cup {new}
    BY <2>1 DEF new
  <2>5. Types'
    BY <2>1, <2>3, <2>4 DEF AdmissionInv, Types
  <2>6. SessionsCurrent'
    BY <2>1, <2>3, <2>4 DEF AdmissionInv, SessionsCurrent, Installed
  <2>7. \A q \in Producers : Aligned(q)'
    BY <2>1 DEF AdmissionInv, Aligned, Installed
  <2> QED BY <2>5, <2>6, <2>7 DEF AdmissionInv
<1>6. ASSUME NEW s \in sessions, Disconnect(s) \/ RefuseFrame(s) PROVE AdmissionInv'
  <2>1. sessions' \subseteq sessions /\ UNCHANGED <<producers, queues, issued>>
    BY <1>6 DEF Disconnect, RefuseFrame
  <2> QED BY <2>1 DEF AdmissionInv, Types, SessionsCurrent, Installed, Aligned
<1>7. ASSUME NEW s \in sessions, NEW e \in EventsOf(s), Refuse(s, e) PROVE AdmissionInv'
  <2> DEFINE p == s.producer
             after == [producers[p] EXCEPT !.blocked = TRUE]
  <2>1. UNCHANGED <<sessions, queues, issued>>
    BY <1>7 DEF Refuse
  <2>2. CASE producers' = producers
    BY <2>1, <2>2 DEF AdmissionInv, Types, SessionsCurrent, Installed, Aligned
  <2>3. CASE /\ producers' = [producers EXCEPT ![p] = after]
             /\ AdmitOutcome(s, e) \in Blocking
    <3>1. s.bound
      BY <2>3 DEF AdmitOutcome, Blocking
    <3>2. p \in Producers /\ Installed(p) /\ producers[p] \in Records
      BY <3>1 DEF AdmissionInv, Types, SessionsCurrent, Sessions, Installed
    <3>3. /\ after \in Records /\ Past(after) = Past(producers[p])
          /\ after.receipts = producers[p].receipts
          /\ after.generation = producers[p].generation
      BY <3>2 DEF Records, Past
    <3>4. after # NoValue
      BY <3>3, RecordFacts
    <3>5. Receipted(after) /\ Backlogged(after, queues[p])
      BY <3>2, <3>3 DEF AdmissionInv, Aligned, Receipted, Backlogged
    <3> HIDE DEF after
    <3>6. Types'
      BY <2>1, <2>3, <3>2, <3>3 DEF AdmissionInv, Types
    <3>7. SessionsCurrent'
      BY <2>1, <2>3, <3>2, <3>3, <3>4 DEF AdmissionInv, Types, SessionsCurrent, Installed, Sessions
    <3>8. ASSUME NEW q \in Producers PROVE Aligned(q)'
      BY <2>1, <2>3, <3>2, <3>4, <3>5 DEF AdmissionInv, Types, Aligned, Installed
    <3> QED BY <3>6, <3>7, <3>8 DEF AdmissionInv
  <2> QED BY <1>7, <2>2, <2>3 DEF Refuse
<1>8. CASE UNCHANGED admissionVars
  BY <1>8 DEF admissionVars, AdmissionInv, Types, SessionsCurrent, Installed, Aligned
<1> QED BY <1>1, <1>2, <1>3, <1>4, <1>5, <1>6, <1>7, <1>8, AcceptStep, PopStep DEF Next

LEMMA AdmissionInit == Init => AdmissionInv
<1> SUFFICES ASSUME Init PROVE AdmissionInv
  OBVIOUS
<1>1. Types
  BY AdmissionAssumption DEF Init, Types
<1>2. SessionsCurrent
  BY DEF Init, SessionsCurrent
<1>3. \A p \in Producers : Aligned(p)
  BY DEF Init, Aligned, Installed
<1> QED BY <1>1, <1>2, <1>3 DEF AdmissionInv

\* What waits for a producer is the end of what it was acknowledged: nothing is
\* queued twice, out of order, under an old generation, or without a receipt.
THEOREM BacklogFollowsReceipts == Spec => []BacklogIsLatestReceipts
<1>1. AdmissionInv => BacklogIsLatestReceipts
  BY DEF AdmissionInv, Aligned, Receipted, Backlogged, Past, BacklogIsLatestReceipts
<1> QED BY <1>1, AdmissionInit, AdmissionStep, PTL DEF Spec

-----------------------------------------------------------------------------
(* Induction over sets, and the sums of the community modules, which unfold  *)
(* to a recursive function on the subsets of their domain.                   *)

\* A set of numbers with zero and with the successor of each of its numbers.
LEMMA NumbersByInduction ==
  ASSUME NEW S, 0 \in S, \A n \in Nat : n \in S => n + 1 \in S
  PROVE  Nat \subseteq S
<1> SUFFICES ASSUME Nat \ S # {} PROVE FALSE
  OBVIOUS
<1> DEFINE Less == OpToRel(<, Nat)
<1>1. \A m, n \in Nat : <<m, n>> \in Less <=> m < n
  BY DEF OpToRel
<1>2. IsWellFoundedOn(Less, Nat)
  BY NatLessThanWellFounded
<1> HIDE DEF Less
<1>3. Nat \ S \subseteq Nat
  OBVIOUS
<1>4. PICK n \in Nat \ S : \A m \in Nat \ S : <<m, n>> \notin Less
  BY <1>2, <1>3, WFMin
<1>5. \A m \in Nat \ S : ~(m < n)
  BY <1>1, <1>4
<1>6. n # 0 /\ n - 1 \in Nat /\ n - 1 < n
  OBVIOUS
<1>7. (n - 1) + 1 \in S
  BY <1>5, <1>6
<1> QED BY <1>6, <1>7

\* Every subset of a finite set is in G when each set is that all but one
\* element of which form a set in G.
LEMMA SubsetInduction ==
  ASSUME NEW S, IsFiniteSet(S), NEW G,
         \A T \in SUBSET S : (\A x \in T : T \ {x} \in G) => T \in G
  PROVE  \A T \in SUBSET S : T \in G
<1> DEFINE Sized == {n \in Nat : \A T \in SUBSET S : Cardinality(T) = n => T \in G}
<1>1. \A T \in SUBSET S : IsFiniteSet(T) /\ Cardinality(T) \in Nat
  BY FS_Subset, FS_CardinalityType
<1>2. 0 \in Sized
  BY <1>1, FS_EmptySet
<1>3. ASSUME NEW n \in Nat, n \in Sized PROVE n + 1 \in Sized
  <2> SUFFICES ASSUME NEW T \in SUBSET S, Cardinality(T) = n + 1 PROVE T \in G
    OBVIOUS
  <2>1. ASSUME NEW x \in T PROVE T \ {x} \in G
    BY <1>1, <1>3, FS_RemoveElement
  <2> QED BY <2>1
<1>4. Nat \subseteq Sized
  <2> HIDE DEF Sized
  <2> QED BY <1>2, <1>3, NumbersByInduction
<1> QED BY <1>1, <1>4

\* The recursion a sum unfolds to.
Summand(F, g, s) ==
  IF s = {} THEN 0
  ELSE F[CHOOSE x \in s : TRUE] + g[s \ {CHOOSE x \in s : TRUE}]

Summing(F, S, g) == g = [s \in SUBSET S |-> Summand(F, g, s)]

LEMMA SumDef ==
  ASSUME NEW F, NEW S
  PROVE  SumFunctionOnSet(F, S) = (CHOOSE g : Summing(F, S, g))[S]
BY DEF SumFunctionOnSet, FoldFunctionOnSet, MapThenFoldSet, Summing, Summand

\* The sums of larger and larger sets exist, so the recursion has a solution.
LEMMA SummingExists ==
  ASSUME NEW S, IsFiniteSet(S), NEW F, \A x \in S : F[x] \in Nat
  PROVE  \E g \in [SUBSET S -> Nat] : Summing(F, S, g)
<1> DEFINE Solves(g, n) == \A s \in SUBSET S : Cardinality(s) <= n => g[s] = Summand(F, g, s)
           Solved == {n \in Nat : \E g \in [SUBSET S -> Nat] : Solves(g, n)}
<1>1. \A s \in SUBSET S : IsFiniteSet(s) /\ Cardinality(s) \in Nat
  BY FS_Subset, FS_CardinalityType
<1>2. ASSUME NEW g \in [SUBSET S -> Nat], NEW s \in SUBSET S
      PROVE  Summand(F, g, s) \in Nat
  BY DEF Summand
<1>3. ASSUME NEW g \in [SUBSET S -> Nat], NEW n \in Nat, NEW h,
             h = [s \in SUBSET S |-> Summand(F, g, s)],
             \A s \in SUBSET S : Cardinality(s) < n => g[s] = Summand(F, g, s)
      PROVE  h \in [SUBSET S -> Nat] /\ Solves(h, n)
  <2>1. h \in [SUBSET S -> Nat]
    BY <1>2, <1>3
  <2>2. ASSUME NEW s \in SUBSET S, Cardinality(s) <= n PROVE h[s] = Summand(F, h, s)
    <3>1. CASE s = {}
      BY <1>3, <3>1 DEF Summand
    <3>2. CASE s # {}
      <4> DEFINE c == CHOOSE x \in s : TRUE
      <4>1. c \in s
        BY <3>2
      <4> HIDE DEF c
      <4>2. s \ {c} \in SUBSET S /\ Cardinality(s \ {c}) < n
        BY <1>1, <2>2, <4>1, FS_RemoveElement
      <4>3. h[s \ {c}] = g[s \ {c}]
        BY <1>3, <4>2
      <4>4. Summand(F, h, s) = Summand(F, g, s)
        BY <3>2, <4>3 DEF Summand, c
      <4> QED BY <1>3, <4>4
    <3> QED BY <3>1, <3>2
  <2> QED BY <2>1, <2>2
<1>4. 0 \in Solved
  <2>1. [s \in SUBSET S |-> 0] \in [SUBSET S -> Nat]
    OBVIOUS
  <2> DEFINE g == [s \in SUBSET S |-> 0]
             h == [s \in SUBSET S |-> Summand(F, g, s)]
  <2>2. \A s \in SUBSET S : ~(Cardinality(s) < 0)
    BY <1>1
  <2> HIDE DEF Solves, g
  <2>3. h \in [SUBSET S -> Nat] /\ Solves(h, 0)
    BY <1>3, <2>1, <2>2 DEF g
  <2> QED BY <2>3
<1>5. ASSUME NEW n \in Nat, n \in Solved PROVE n + 1 \in Solved
  <2>1. PICK g \in [SUBSET S -> Nat] : Solves(g, n)
    BY <1>5
  <2> DEFINE h == [s \in SUBSET S |-> Summand(F, g, s)]
  <2>2. \A s \in SUBSET S : Cardinality(s) < n + 1 => g[s] = Summand(F, g, s)
    BY <1>1, <2>1
  <2> HIDE DEF Solves
  <2>3. n + 1 \in Nat
    OBVIOUS
  <2>4. h \in [SUBSET S -> Nat] /\ Solves(h, n + 1)
    BY <1>3, <2>2, <2>3
  <2> QED BY <2>3, <2>4
<1>6. Cardinality(S) \in Solved
  <2> HIDE DEF Solved
  <2> QED BY <1>1, <1>4, <1>5, NumbersByInduction
<1>7. PICK g \in [SUBSET S -> Nat] : Solves(g, Cardinality(S))
  BY <1>6
<1>8. \A s \in SUBSET S : g[s] = Summand(F, g, s)
  BY <1>7, FS_Subset, FS_CardinalityType
<1>9. g = [s \in SUBSET S |-> Summand(F, g, s)]
  BY <1>8
<1> QED BY <1>9 DEF Summing

\* There is one solution on a finite set, and on its subsets it is theirs.
LEMMA SummingUnique ==
  ASSUME NEW S, IsFiniteSet(S), NEW F, NEW T \in SUBSET S,
         NEW g, Summing(F, S, g), NEW h, Summing(F, T, h)
  PROVE  h[T] = g[T]
<1> DEFINE G == {s \in SUBSET T : h[s] = g[s]}
<1>1. \A s \in SUBSET T : g[s] = Summand(F, g, s) /\ h[s] = Summand(F, h, s)
  BY DEF Summing
<1>2. ASSUME NEW s \in SUBSET T, \A x \in s : s \ {x} \in G
      PROVE  s \in G
  BY <1>1, <1>2 DEF Summand
<1>3. IsFiniteSet(T)
  BY FS_Subset
<1>4. \A s \in SUBSET T : s \in G
  <2> HIDE DEF G
  <2> QED BY <1>2, <1>3, SubsetInduction
<1> QED BY <1>4

LEMMA SumFacts ==
  ASSUME NEW S, IsFiniteSet(S), NEW F, \A x \in S : F[x] \in Nat
  PROVE  /\ SumFunctionOnSet(F, S) \in Nat
         /\ \A x \in S : SumFunctionOnSet(F, S) = F[x] + SumFunctionOnSet(F, S \ {x})
         /\ S = {} => SumFunctionOnSet(F, S) = 0
<1>1. PICK g \in [SUBSET S -> Nat] : Summing(F, S, g)
  BY SummingExists
<1>2. ASSUME NEW T \in SUBSET S PROVE SumFunctionOnSet(F, T) = g[T]
  <2>1. \E h : Summing(F, T, h)
    BY FS_Subset, SummingExists
  <2>2. Summing(F, T, CHOOSE h : Summing(F, T, h))
    BY <2>1
  <2>3. (CHOOSE h : Summing(F, T, h))[T] = g[T]
    BY <1>1, <2>2, SummingUnique
  <2> QED BY <2>3, SumDef
<1>3. \A s \in SUBSET S : g[s] = Summand(F, g, s)
  BY <1>1 DEF Summing
<1> DEFINE G == {s \in SUBSET S : \A x \in s : g[s] = F[x] + g[s \ {x}]}
<1>4. ASSUME NEW s \in SUBSET S, \A x \in s : s \ {x} \in G
      PROVE  s \in G
  <2> SUFFICES ASSUME NEW x \in s PROVE g[s] = F[x] + g[s \ {x}]
    OBVIOUS
  <2> DEFINE c == CHOOSE y \in s : TRUE
  <2>1. c \in s
    OBVIOUS
  <2>2. g[s] = F[c] + g[s \ {c}]
    BY <1>3 DEF Summand
  <2> HIDE DEF c
  <2>3. CASE x = c
    BY <2>2, <2>3
  <2>4. CASE x # c
    <3>1. g[s \ {c}] = F[x] + g[(s \ {c}) \ {x}] /\ g[s \ {x}] = F[c] + g[(s \ {x}) \ {c}]
      BY <1>4, <2>1, <2>4
    <3>2. (s \ {c}) \ {x} = (s \ {x}) \ {c} /\ (s \ {x}) \ {c} \in SUBSET S
      OBVIOUS
    <3>3. F[c] \in Nat /\ F[x] \in Nat /\ g[(s \ {x}) \ {c}] \in Nat
      BY <2>1, <3>2
    <3> DEFINE a == F[c]
               b == F[x]
               r == g[(s \ {x}) \ {c}]
    <3>4. /\ g[s] = a + g[s \ {c}] /\ g[s \ {c}] = b + r /\ g[s \ {x}] = a + r
          /\ a \in Nat /\ b \in Nat /\ r \in Nat
      BY <2>2, <3>1, <3>2, <3>3
    <3> HIDE DEF a, b, r
    <3>5. g[s] = b + g[s \ {x}]
      BY <3>4
    <3> QED BY <3>5 DEF b
  <2> QED BY <2>3, <2>4
<1>5. S \in G
  <2> HIDE DEF G
  <2> QED BY <1>4, SubsetInduction
<1>6. g[S] \in Nat
  OBVIOUS
<1>7. S = {} => g[S] = 0
  BY <1>3 DEF Summand
<1> QED BY <1>2, <1>5, <1>6, <1>7

\* A sum depends on the values it adds only.
LEMMA SumSame ==
  ASSUME NEW S, NEW F, NEW H, \A x \in S : F[x] = H[x]
  PROVE  SumFunctionOnSet(F, S) = SumFunctionOnSet(H, S)
<1>1. \A g : \A s \in SUBSET S : Summand(F, g, s) = Summand(H, g, s)
  BY DEF Summand
<1>2. \A g : Summing(F, S, g) <=> Summing(H, S, g)
  BY <1>1 DEF Summing
<1>3. (CHOOSE g : Summing(F, S, g)) = (CHOOSE g : Summing(H, S, g))
  BY <1>2
<1> QED BY <1>3, SumDef

\* A sum after the value of one argument has changed.
LEMMA SumChanged ==
  ASSUME NEW S, IsFiniteSet(S), NEW F \in [S -> Nat], NEW x \in S, NEW v \in Nat
  PROVE  /\ SumFunction(F) \in Nat /\ F[x] <= SumFunction(F)
         /\ SumFunction([F EXCEPT ![x] = v]) = SumFunction(F) - F[x] + v
<1> DEFINE H == [F EXCEPT ![x] = v]
           R == S \ {x}
<1>1. H \in [S -> Nat] /\ H[x] = v /\ DOMAIN H = S /\ DOMAIN F = S
  OBVIOUS
<1>2. \A y \in R : F[y] = H[y]
  OBVIOUS
<1> HIDE DEF H
<1>3. SumFunctionOnSet(F, R) = SumFunctionOnSet(H, R)
  BY <1>2, SumSame
<1>4. IsFiniteSet(R) /\ \A y \in R : F[y] \in Nat
  BY FS_Subset
<1>5. SumFunctionOnSet(F, R) \in Nat
  <2> HIDE DEF R
  <2> QED BY <1>4, SumFacts
<1>6. /\ SumFunctionOnSet(F, S) = F[x] + SumFunctionOnSet(F, R)
      /\ SumFunctionOnSet(F, S) \in Nat
  BY SumFacts
<1>7. SumFunctionOnSet(H, S) = H[x] + SumFunctionOnSet(H, R)
  BY <1>1, SumFacts
<1>8. SumFunction(H) = SumFunctionOnSet(H, S) /\ SumFunction(F) = SumFunctionOnSet(F, S)
  BY <1>1 DEF SumFunction
<1>9. F[x] \in Nat
  OBVIOUS
<1>10. SumFunction(H) = SumFunction(F) - F[x] + v
  BY <1>1, <1>3, <1>5, <1>6, <1>7, <1>8, <1>9
<1>11. SumFunction(F) \in Nat /\ F[x] <= SumFunction(F)
  BY <1>5, <1>6, <1>8, <1>9
<1> QED BY <1>10, <1>11 DEF H

LEMMA SumOfZeroes ==
  ASSUME NEW S, IsFiniteSet(S), NEW F, \A x \in S : F[x] = 0
  PROVE  SumFunctionOnSet(F, S) = 0
<1> DEFINE G == {s \in SUBSET S : SumFunctionOnSet(F, s) = 0}
<1>1. ASSUME NEW s \in SUBSET S, \A x \in s : s \ {x} \in G
      PROVE  s \in G
  <2>1. IsFiniteSet(s) /\ \A x \in s : F[x] \in Nat
    BY FS_Subset
  <2>2. CASE s = {}
    BY <2>1, <2>2, SumFacts
  <2>3. CASE s # {}
    <3>1. PICK x \in s : TRUE
      BY <2>3
    <3>2. SumFunctionOnSet(F, s) = F[x] + SumFunctionOnSet(F, s \ {x})
      BY <2>1, SumFacts
    <3> QED BY <1>1, <3>1, <3>2
  <2> QED BY <2>2, <2>3
<1> HIDE DEF G
<1>2. \A T \in SUBSET S : T \in G
  BY <1>1, SubsetInduction
<1> QED BY <1>2 DEF G

-----------------------------------------------------------------------------
(* What a discard leaves of the ring *)

Distinct(ring) == \A i, j \in 1..Len(ring) : ring[i] = ring[j] => i = j

Keep(kept, n, p) ==
  IF n = 0 THEN <<>>
  ELSE IF ready[n] = p THEN kept[n - 1] ELSE Append(kept[n - 1], ready[n])

Keeping(kept, p) == kept = [n \in 0..Len(ready) |-> Keep(kept, n, p)]

LEMMA KeepingExists ==
  ASSUME ready \in Seq(Producers), NEW p
  PROVE  \E kept \in [0..Len(ready) -> Seq(Producers)] : Keeping(kept, p)
<1> DEFINE N == Len(ready)
           Solves(kept, m) == \A n \in 0..N : n <= m => kept[n] = Keep(kept, n, p)
           Solved == {m \in Nat : \E kept \in [0..N -> Seq(Producers)] : Solves(kept, m)}
<1>1. N \in Nat
  OBVIOUS
<1>2. ASSUME NEW kept \in [0..N -> Seq(Producers)], NEW n \in 0..N
      PROVE  Keep(kept, n, p) \in Seq(Producers)
  <2>1. CASE n = 0
    BY <2>1 DEF Keep
  <2>2. CASE n # 0
    <3>1. n - 1 \in 0..N /\ n \in 1..N
      BY <1>1, <2>2
    <3>2. kept[n - 1] \in Seq(Producers) /\ ready[n] \in Producers
      BY <3>1
    <3>3. Append(kept[n - 1], ready[n]) \in Seq(Producers)
      BY <3>2
    <3> QED BY <2>2, <3>2, <3>3 DEF Keep
  <2> QED BY <2>1, <2>2
<1>3. ASSUME NEW kept \in [0..N -> Seq(Producers)], NEW m \in Nat,
             \A n \in 0..N : n < m => kept[n] = Keep(kept, n, p),
             NEW longer, longer = [n \in 0..N |-> Keep(kept, n, p)]
      PROVE  longer \in [0..N -> Seq(Producers)] /\ Solves(longer, m)
  <2>1. longer \in [0..N -> Seq(Producers)]
    BY <1>2, <1>3
  <2>2. ASSUME NEW n \in 0..N, n <= m PROVE longer[n] = Keep(longer, n, p)
    <3>1. CASE n = 0
      BY <1>1, <1>3, <3>1 DEF Keep
    <3>2. CASE n # 0
      <4>1. n - 1 \in 0..N /\ n - 1 < m
        BY <1>1, <2>2, <3>2
      <4>2. longer[n - 1] = kept[n - 1]
        BY <1>3, <4>1
      <4>3. Keep(longer, n, p) = Keep(kept, n, p)
        BY <3>2, <4>2 DEF Keep
      <4> QED BY <1>3, <4>3
    <3> QED BY <3>1, <3>2
  <2> QED BY <2>1, <2>2
<1>4. 0 \in Solved
  <2> DEFINE first == [n \in 0..N |-> <<>>]
             second == [n \in 0..N |-> Keep(first, n, p)]
  <2>1. first \in [0..N -> Seq(Producers)]
    OBVIOUS
  <2>2. \A n \in 0..N : ~(n < 0)
    BY <1>1
  <2> HIDE DEF Solves, first
  <2>3. second \in [0..N -> Seq(Producers)] /\ Solves(second, 0)
    BY <1>3, <2>1, <2>2
  <2> QED BY <2>3
<1>5. ASSUME NEW m \in Nat, m \in Solved PROVE m + 1 \in Solved
  <2>1. PICK kept \in [0..N -> Seq(Producers)] : Solves(kept, m)
    BY <1>5
  <2> DEFINE longer == [n \in 0..N |-> Keep(kept, n, p)]
  <2>2. m + 1 \in Nat /\ \A n \in 0..N : n < m + 1 => kept[n] = Keep(kept, n, p)
    BY <1>1, <2>1
  <2> HIDE DEF Solves
  <2>3. longer \in [0..N -> Seq(Producers)] /\ Solves(longer, m + 1)
    BY <1>3, <2>2
  <2> QED BY <2>2, <2>3
<1>6. N \in Solved
  <2> HIDE DEF Solved, N
  <2> QED BY <1>1, <1>4, <1>5, NumbersByInduction
<1>7. PICK kept \in [0..N -> Seq(Producers)] : Solves(kept, N)
  BY <1>6
<1>8. \A n \in 0..N : kept[n] = Keep(kept, n, p)
  BY <1>1, <1>7
<1>9. kept = [n \in 0..N |-> Keep(kept, n, p)]
  BY <1>8
<1> QED BY <1>9 DEF Keeping

\* What is kept of the first n entries: those of the others, each at its place
\* or before it.
KeptOf(ring, n, p) ==
  /\ ring \in Seq(Producers)
  /\ \A j \in 1..Len(ring) :
       ring[j] # p /\ \E i \in 1..n : j <= i /\ ring[j] = ready[i]
  /\ \A i \in 1..n : ready[i] # p => \E j \in 1..Len(ring) : ring[j] = ready[i]
  /\ Distinct(ready) => Distinct(ring)

LEMMA KeptExtends ==
  ASSUME ready \in Seq(Producers), NEW p, NEW n \in Nat, n + 1 \in 1..Len(ready),
         NEW ring, KeptOf(ring, n, p)
  PROVE  KeptOf(IF ready[n + 1] = p THEN ring ELSE Append(ring, ready[n + 1]), n + 1, p)
<1> DEFINE q == ready[n + 1]
           longer == Append(ring, q)
<1>1. q \in Producers /\ ring \in Seq(Producers) /\ Len(ring) \in Nat
  BY DEF KeptOf
<1>2. \A i \in 1..(n + 1) : i \in 1..n \/ i = n + 1
  OBVIOUS
<1>3. \A i \in 1..n : i \in 1..(n + 1) /\ i \in 1..Len(ready) /\ i # n + 1
  OBVIOUS
<1>4. CASE q = p
  <2>1. \A j \in 1..Len(ring) :
          ring[j] # p /\ \E i \in 1..(n + 1) : j <= i /\ ring[j] = ready[i]
    BY <1>3 DEF KeptOf
  <2>2. \A i \in 1..(n + 1) : ready[i] # p => \E j \in 1..Len(ring) : ring[j] = ready[i]
    BY <1>2, <1>4 DEF KeptOf
  <2>3. KeptOf(ring, n + 1, p)
    BY <2>1, <2>2 DEF KeptOf
  <2> QED BY <1>4, <2>3
<1>5. CASE q # p
  <2> HIDE DEF q
  <2>1. /\ longer \in Seq(Producers) /\ Len(longer) = Len(ring) + 1
        /\ \A j \in 1..Len(ring) : longer[j] = ring[j]
        /\ longer[Len(ring) + 1] = q
    BY <1>1
  <2> HIDE DEF longer
  <2>2. \A j \in 1..Len(longer) : j \in 1..Len(ring) \/ j = Len(ring) + 1
    BY <1>1, <2>1
  <2>3. \A j \in 1..Len(ring) : j \in 1..Len(longer)
    BY <1>1, <2>1
  <2>4. Len(ring) <= n
    <3>1. CASE Len(ring) = 0
      BY <3>1
    <3>2. CASE Len(ring) # 0
      <4>1. Len(ring) \in 1..Len(ring)
        BY <1>1, <3>2
      <4>2. PICK i \in 1..n : Len(ring) <= i
        BY <4>1 DEF KeptOf
      <4> QED BY <1>1, <4>2
    <3> QED BY <3>1, <3>2
  <2>5. ASSUME NEW j \in 1..Len(longer)
        PROVE  longer[j] # p /\ \E i \in 1..(n + 1) : j <= i /\ longer[j] = ready[i]
    <3>1. CASE j \in 1..Len(ring)
      <4>1. PICK i \in 1..n : ring[j] # p /\ j <= i /\ ring[j] = ready[i]
        BY <3>1 DEF KeptOf
      <4> QED BY <1>3, <2>1, <3>1, <4>1
    <3>2. CASE j = Len(ring) + 1
      <4>1. n + 1 \in 1..(n + 1) /\ j <= n + 1
        BY <1>1, <2>4, <3>2
      <4> QED BY <1>5, <2>1, <3>2, <4>1 DEF q
    <3> QED BY <2>2, <3>1, <3>2
  <2>6. ASSUME NEW i \in 1..(n + 1), ready[i] # p
        PROVE  \E j \in 1..Len(longer) : longer[j] = ready[i]
    <3>1. CASE i \in 1..n
      <4>1. PICK j \in 1..Len(ring) : ring[j] = ready[i]
        BY <2>6, <3>1 DEF KeptOf
      <4> QED BY <2>1, <2>3, <4>1
    <3>2. CASE i = n + 1
      <4>1. Len(ring) + 1 \in 1..Len(longer)
        BY <1>1, <2>1
      <4> QED BY <2>1, <3>2, <4>1 DEF q
    <3> QED BY <1>2, <3>1, <3>2
  <2>7. ASSUME Distinct(ready), NEW j \in 1..Len(longer), NEW k \in 1..Len(longer),
               longer[j] = longer[k]
        PROVE  j = k
    <3>1. ASSUME NEW l \in 1..Len(ring) PROVE ring[l] # q
      <4>1. PICK i \in 1..n : ring[l] = ready[i]
        BY DEF KeptOf
      <4> QED BY <1>3, <2>7, <4>1 DEF Distinct, q
    <3>2. Distinct(ring)
      BY <2>7 DEF KeptOf
    <3> QED BY <2>1, <2>2, <2>7, <3>1, <3>2 DEF Distinct
  <2>8. KeptOf(longer, n + 1, p)
    BY <2>1, <2>5, <2>6, <2>7 DEF KeptOf, Distinct
  <2> QED BY <1>5, <2>8 DEF longer, q
<1> QED BY <1>4, <1>5

LEMMA RetainedRing ==
  ASSUME ready \in Seq(Producers), NEW p
  PROVE  KeptOf(RingAfterDiscard(p), Len(ready), p)
<1> DEFINE kept == CHOOSE k : Keeping(k, p)
           Good == {n \in Nat : n \in 0..Len(ready) => KeptOf(kept[n], n, p)}
<1>1. Keeping(kept, p)
  BY KeepingExists
<1>2. RingAfterDiscard(p) = kept[Len(ready)]
  BY DEF RingAfterDiscard, Keeping, Keep
<1>3. Len(ready) \in Nat
  OBVIOUS
<1> HIDE DEF kept
<1>4. \A n \in 0..Len(ready) : kept[n] = Keep(kept, n, p)
  BY <1>1 DEF Keeping
<1>5. 0 \in Good
  <2>1. 0 \in 0..Len(ready) /\ 1..0 = {}
    BY <1>3
  <2>2. kept[0] = <<>>
    BY <1>4, <2>1 DEF Keep
  <2>3. KeptOf(<<>>, 0, p)
    BY <2>1 DEF KeptOf, Distinct
  <2> QED BY <2>2, <2>3
<1>6. ASSUME NEW n \in Nat, n \in Good PROVE n + 1 \in Good
  <2> SUFFICES ASSUME n + 1 \in 0..Len(ready) PROVE KeptOf(kept[n + 1], n + 1, p)
    OBVIOUS
  <2>1. n \in 0..Len(ready) /\ n + 1 \in 1..Len(ready) /\ n + 1 # 0 /\ (n + 1) - 1 = n
    BY <1>3
  <2>2. KeptOf(kept[n], n, p)
    BY <1>6, <2>1
  <2>3. kept[n + 1] = Keep(kept, n + 1, p)
    BY <1>4
  <2>4. kept[n + 1] = IF ready[n + 1] = p THEN kept[n] ELSE Append(kept[n], ready[n + 1])
    BY <2>1, <2>3 DEF Keep
  <2> QED BY <2>1, <2>2, <2>4, KeptExtends
<1>7. Len(ready) \in Good
  <2> HIDE DEF Good
  <2> QED BY <1>3, <1>5, <1>6, NumbersByInduction
<1> QED BY <1>2, <1>3, <1>7

-----------------------------------------------------------------------------
(* The ring, the backlogs and the turns waited for *)

Lengths == [p \in Producers |-> Len(queues[p])]

\* The k-th of the ring is served after at most one event of each producer that
\* is before it or has been served since it joined the ring.
RingInv ==
  /\ ready \in Seq(Producers)
  /\ Distinct(ready)
  /\ \A i \in 1..Len(ready) : queues[ready[i]] # <<>>
  /\ \A p \in Producers : queues[p] # <<>> => \E i \in 1..Len(ready) : ready[i] = p
  /\ passed \in [Producers -> Nat]
  /\ \A p \in Producers : queues[p] = <<>> => passed[p] = 0
  /\ \A i \in 1..Len(ready) : passed[ready[i]] + i <= Cardinality(Producers)
  /\ count = SumFunction(Lengths)

QueueTypes == queues \in [Producers -> Seq(Events)]

LEMMA ProducersFinite == IsFiniteSet(Producers) /\ Cardinality(Producers) \in Nat
  BY AdmissionAssumption, FS_CardinalityType

LEMMA DistinctIsShort ==
  ASSUME NEW ring \in Seq(Producers), Distinct(ring)
  PROVE  /\ Len(ring) \in Nat /\ Len(ring) <= Cardinality(Producers)
         /\ \A p \in Producers : (\A i \in 1..Len(ring) : ring[i] # p)
              => Len(ring) + 1 <= Cardinality(Producers)
<1>1. ASSUME NEW T \in SUBSET Producers, \A i \in 1..Len(ring) : ring[i] \in T
      PROVE  Len(ring) <= Cardinality(T)
  <2>1. ring \in Injection(1..Len(ring), T)
    <3>1. ring \in [1..Len(ring) -> T]
      BY <1>1
    <3> QED BY <3>1 DEF Injection, IsInjective, Distinct
  <2>2. IsFiniteSet(T)
    BY ProducersFinite, FS_Subset
  <2>3. Len(ring) \in Nat
    OBVIOUS
  <2>4. Cardinality(1..Len(ring)) = Len(ring)
    BY <2>3, FS_Interval
  <2> QED BY <2>1, <2>2, <2>4, FS_Injection
<1>2. Len(ring) \in Nat /\ Len(ring) <= Cardinality(Producers)
  BY <1>1
<1>3. ASSUME NEW p \in Producers, \A i \in 1..Len(ring) : ring[i] # p
      PROVE  Len(ring) + 1 <= Cardinality(Producers)
  <2>1. Len(ring) <= Cardinality(Producers \ {p})
    BY <1>1, <1>3
  <2>2. Cardinality(Producers \ {p}) = Cardinality(Producers) - 1
    BY ProducersFinite, FS_RemoveElement
  <2> QED BY <1>2, <2>1, <2>2, ProducersFinite
<1> QED BY <1>2, <1>3

\* The sum of the backlogs after one of them has changed.
LEMMA LengthsChanged ==
  ASSUME QueueTypes, NEW p \in Producers, NEW queue \in Seq(Events),
         queues' = [queues EXCEPT ![p] = queue]
  PROVE  /\ SumFunction(Lengths') = SumFunction(Lengths) - Len(queues[p]) + Len(queue)
         /\ SumFunction(Lengths) \in Nat
         /\ Len(queues[p]) \in Nat /\ Len(queue) \in Nat
         /\ Len(queues[p]) <= SumFunction(Lengths)
<1>1. Lengths \in [Producers -> Nat] /\ Lengths[p] = Len(queues[p])
  BY DEF Lengths, QueueTypes
<1>2. Lengths' = [Lengths EXCEPT ![p] = Len(queue)]
  BY DEF Lengths, QueueTypes
<1>3. Len(queue) \in Nat /\ Len(queues[p]) \in Nat
  BY DEF QueueTypes
<1> HIDE DEF Lengths
<1>4. /\ SumFunction(Lengths) \in Nat /\ Lengths[p] <= SumFunction(Lengths)
      /\ SumFunction([Lengths EXCEPT ![p] = Len(queue)]) =
           SumFunction(Lengths) - Lengths[p] + Len(queue)
  BY <1>1, <1>3, ProducersFinite, SumChanged
<1> QED BY <1>1, <1>2, <1>3, <1>4

LEMMA DiscardKeepsRing ==
  ASSUME QueueTypes, RingInv, NEW p \in Producers, Discard(p)
  PROVE  RingInv'
<1>1. KeptOf(ready', Len(ready), p)
  BY RetainedRing DEF RingInv, Discard
<1>2. /\ queues' = [queues EXCEPT ![p] = <<>>] /\ passed' = [passed EXCEPT ![p] = 0]
      /\ count' = count - Len(queues[p])
  BY DEF Discard
<1>3. ready' \in Seq(Producers) /\ Distinct(ready)' /\ Len(ready') \in Nat
  BY <1>1 DEF KeptOf, RingInv, Distinct
<1>4. ASSUME NEW j \in 1..Len(ready')
      PROVE  /\ queues'[ready'[j]] # <<>>
             /\ passed'[ready'[j]] + j <= Cardinality(Producers)
  <2>1. PICK i \in 1..Len(ready) : ready'[j] # p /\ j <= i /\ ready'[j] = ready[i]
    BY <1>1 DEF KeptOf
  <2>2. ready[i] \in Producers /\ passed[ready[i]] \in Nat
    BY DEF RingInv
  <2>3. queues'[ready'[j]] = queues[ready[i]] /\ passed'[ready'[j]] = passed[ready[i]]
    BY <1>2, <2>1, <2>2 DEF QueueTypes, RingInv
  <2>4. passed[ready[i]] + i <= Cardinality(Producers)
    BY DEF RingInv
  <2>5. passed[ready[i]] + j <= Cardinality(Producers)
    BY <1>3, <2>1, <2>2, <2>4, ProducersFinite
  <2> QED BY <2>3, <2>5 DEF RingInv
<1>5. ASSUME NEW q \in Producers, queues'[q] # <<>>
      PROVE  \E j \in 1..Len(ready') : ready'[j] = q
  <2>1. q # p /\ queues[q] # <<>>
    BY <1>2, <1>5 DEF QueueTypes
  <2>2. PICK i \in 1..Len(ready) : ready[i] = q
    BY <2>1 DEF RingInv
  <2> QED BY <1>1, <2>1, <2>2 DEF KeptOf
<1>6. /\ passed' \in [Producers -> Nat]
      /\ \A q \in Producers : queues'[q] = <<>> => passed'[q] = 0
  BY <1>2 DEF QueueTypes, RingInv
<1>7. count' = SumFunction(Lengths')
  <2>1. <<>> \in Seq(Events) /\ Len(<<>>) = 0
    OBVIOUS
  <2>2. /\ SumFunction(Lengths') = SumFunction(Lengths) - Len(queues[p]) + Len(<<>>)
        /\ SumFunction(Lengths) \in Nat /\ Len(queues[p]) \in Nat
    BY <1>2, <2>1, LengthsChanged
  <2> QED BY <1>2, <2>1, <2>2 DEF RingInv
<1> QED BY <1>3, <1>4, <1>5, <1>6, <1>7 DEF RingInv, Distinct

\* A producer joins the ring behind all others, before it has waited for any.
LEMMA PushKeepsRing ==
  ASSUME QueueTypes, RingInv, NEW p \in Producers, NEW e \in Events, Push(p, e),
         passed' = passed
  PROVE  RingInv'
<1> DEFINE queue == Append(queues[p], e)
<1>1. /\ queue \in Seq(Events) /\ queue # <<>> /\ Len(queue) = Len(queues[p]) + 1
      /\ queues[p] \in Seq(Events)
  BY DEF QueueTypes
<1>2. queues' = [queues EXCEPT ![p] = queue] /\ count' = count + 1
  BY DEF Push, QueueTypes
<1> HIDE DEF queue
<1>3. count' = SumFunction(Lengths')
  <2>1. /\ SumFunction(Lengths') = SumFunction(Lengths) - Len(queues[p]) + Len(queue)
        /\ SumFunction(Lengths) \in Nat /\ Len(queues[p]) \in Nat
    BY <1>1, <1>2, LengthsChanged
  <2> QED BY <1>1, <1>2, <2>1 DEF RingInv
<1>4. \A q \in Producers : queues'[q] = IF q = p THEN queue ELSE queues[q]
  BY <1>2 DEF QueueTypes
<1>5. CASE queues[p] # <<>>
  <2>1. ready' = ready
    BY <1>5 DEF Push
  <2>2. \A q \in Producers : queues'[q] = <<>> <=> queues[q] = <<>>
    BY <1>1, <1>4, <1>5
  <2>3. \A i \in 1..Len(ready) : ready[i] \in Producers
    BY DEF RingInv
  <2>4. /\ \A i \in 1..Len(ready) : queues'[ready[i]] # <<>>
        /\ \A q \in Producers : queues'[q] # <<>> => \E i \in 1..Len(ready) : ready[i] = q
        /\ \A q \in Producers : queues'[q] = <<>> => passed[q] = 0
    BY <2>2, <2>3 DEF RingInv
  <2> QED BY <1>3, <2>1, <2>4 DEF RingInv, Distinct
<1>6. CASE queues[p] = <<>>
  <2>1. ready' = Append(ready, p) /\ ready \in Seq(Producers) /\ Len(ready) \in Nat
    BY <1>6 DEF Push, RingInv
  <2>2. /\ ready' \in Seq(Producers) /\ Len(ready') = Len(ready) + 1
        /\ \A i \in 1..Len(ready) : i \in 1..Len(ready') /\ ready'[i] = ready[i]
        /\ ready'[Len(ready) + 1] = p
        /\ \A i \in 1..Len(ready') : i \in 1..Len(ready) \/ i = Len(ready) + 1
    BY <2>1
  <2>3. \A i \in 1..Len(ready) : ready[i] # p /\ ready[i] \in Producers
    BY <1>6, <2>1 DEF RingInv
  <2>4. passed[p] = 0 /\ Len(ready) + 1 <= Cardinality(Producers)
    BY <1>6, <2>3, DistinctIsShort DEF RingInv
  <2>5. Distinct(ready)'
    BY <2>2, <2>3 DEF RingInv, Distinct
  <2>6. ASSUME NEW i \in 1..Len(ready')
        PROVE  queues'[ready'[i]] # <<>> /\ passed'[ready'[i]] + i <= Cardinality(Producers)
    <3>1. CASE i = Len(ready) + 1
      BY <1>1, <1>4, <2>1, <2>2, <2>4, <3>1
    <3>2. CASE i \in 1..Len(ready)
      BY <1>4, <2>2, <2>3, <3>2 DEF RingInv
    <3> QED BY <2>2, <3>1, <3>2
  <2>7. ASSUME NEW q \in Producers, queues'[q] # <<>>
        PROVE  \E i \in 1..Len(ready') : ready'[i] = q
    <3>1. CASE q = p
      <4>1. Len(ready) + 1 \in 1..Len(ready')
        BY <2>1, <2>2
      <4> QED BY <2>2, <3>1, <4>1
    <3>2. CASE q # p
      <4>1. PICK i \in 1..Len(ready) : ready[i] = q
        BY <1>4, <2>7, <3>2 DEF RingInv
      <4> QED BY <2>2, <4>1
    <3> QED BY <3>1, <3>2
  <2>8. \A q \in Producers : queues'[q] = <<>> => passed'[q] = 0
    BY <1>1, <1>4 DEF RingInv
  <2> QED BY <1>3, <2>2, <2>5, <2>6, <2>7, <2>8 DEF RingInv
<1> QED BY <1>5, <1>6

\* Each of the others is one nearer to the front when it has waited once more,
\* and the one that was served goes to the end.
LEMMA PopKeepsRing ==
  ASSUME QueueTypes, RingInv, Pop
  PROVE  RingInv'
<1> DEFINE p == Head(ready)
           n == Len(ready)
           rest == Tail(ready)
           queue == Tail(queues[p])
<1>1. /\ ready \in Seq(Producers) /\ ready # <<>> /\ n \in Nat \ {0} /\ p = ready[1]
      /\ p \in Producers /\ 1 \in 1..n
  BY DEF Pop, RingInv
<1>2. queues[p] # <<>> /\ queues[p] \in Seq(Events)
  BY <1>1 DEF RingInv, QueueTypes
<1>3. /\ queues' = [queues EXCEPT ![p] = queue]
      /\ count' = count - 1
      /\ ready' = IF Len(queues[p]) = 1 THEN rest ELSE Append(rest, p)
      /\ passed' = [q \in Producers |->
                      IF q = p \/ queues[q] = <<>> THEN 0 ELSE passed[q] + 1]
  BY <1>1, <1>2 DEF Pop, Requeue, QueueTypes
<1>4. /\ queue \in Seq(Events) /\ Len(queues[p]) \in Nat
      /\ Len(queue) = Len(queues[p]) - 1 /\ (queue = <<>> <=> Len(queues[p]) = 1)
  <2>1. /\ queue \in Seq(Events) /\ Len(queues[p]) \in Nat
        /\ Len(queue) = Len(queues[p]) - 1
    BY <1>2, HeadTailProperties
  <2>2. queue = <<>> <=> Len(queue) = 0
    BY <2>1, EmptySeq
  <2> QED BY <2>1, <2>2
<1>5. /\ rest \in Seq(Producers) /\ Len(rest) = n - 1
      /\ \A i \in 1..(n - 1) : rest[i] = ready[i + 1] /\ i + 1 \in 1..n /\ i \in 1..n
  BY <1>1, HeadTailProperties
<1> HIDE DEF p, n, rest, queue
<1>6. count' = SumFunction(Lengths')
  <2>1. count = SumFunction(Lengths)
    BY DEF RingInv
  <2>2. /\ SumFunction(Lengths') = SumFunction(Lengths) - Len(queues[p]) + Len(queue)
        /\ SumFunction(Lengths) \in Nat
    BY <1>1, <1>3, <1>4, LengthsChanged
  <2> QED BY <1>3, <1>4, <2>1, <2>2
<1>7. \A q \in Producers : queues'[q] = IF q = p THEN queue ELSE queues[q]
  BY <1>1, <1>3 DEF QueueTypes
<1>8. ASSUME NEW i \in 1..(n - 1)
      PROVE  /\ rest[i] # p /\ rest[i] \in Producers
             /\ queues[rest[i]] # <<>>
             /\ passed'[rest[i]] + i <= Cardinality(Producers)
  <2>1. rest[i] = ready[i + 1] /\ i + 1 \in 1..n /\ i + 1 # 1 /\ i \in Nat
    BY <1>1, <1>5
  <2>2. rest[i] # p
    BY <1>1, <2>1 DEF RingInv, Distinct, n
  <2>3. queues[ready[i + 1]] # <<>> /\ passed[ready[i + 1]] + (i + 1) <= Cardinality(Producers)
    BY <2>1 DEF RingInv, n
  <2>4. rest[i] \in Producers /\ passed[rest[i]] \in Nat
    BY <1>1, <2>1 DEF RingInv, n
  <2>5. passed'[rest[i]] = passed[rest[i]] + 1
    BY <1>3, <2>1, <2>2, <2>3, <2>4
  <2> QED BY <2>1, <2>2, <2>3, <2>4, <2>5, ProducersFinite
<1>9. \A q \in Producers : queues[q] # <<>> /\ q # p => \E i \in 1..(n - 1) : rest[i] = q
  <2> SUFFICES ASSUME NEW q \in Producers, queues[q] # <<>>, q # p
               PROVE  \E i \in 1..(n - 1) : rest[i] = q
    OBVIOUS
  <2>1. PICK k \in 1..n : ready[k] = q
    BY DEF RingInv, n
  <2>2. k - 1 \in 1..(n - 1) /\ (k - 1) + 1 = k
    BY <1>1, <2>1
  <2>3. rest[k - 1] = q
    BY <1>5, <2>1, <2>2
  <2> QED BY <2>2, <2>3
<1>10. /\ passed' \in [Producers -> Nat] /\ passed'[p] = 0
       /\ \A q \in Producers : queues'[q] = <<>> => passed'[q] = 0
  BY <1>1, <1>3, <1>7 DEF RingInv
<1>11. \A i, j \in 1..(n - 1) : rest[i] = rest[j] => i = j
  <2> SUFFICES ASSUME NEW i \in 1..(n - 1), NEW j \in 1..(n - 1), rest[i] = rest[j]
               PROVE  i = j
    OBVIOUS
  <2>1. ready[i + 1] = ready[j + 1] /\ i + 1 \in 1..n /\ j + 1 \in 1..n
    BY <1>5
  <2>2. i + 1 = j + 1
    BY <2>1 DEF RingInv, Distinct, n
  <2> QED BY <2>2
<1>12. CASE Len(queues[p]) = 1
  <2>1. ready' = rest /\ Len(ready') = n - 1 /\ queue = <<>>
    BY <1>3, <1>4, <1>5, <1>12
  <2>2. \A i \in 1..Len(ready') : queues'[ready'[i]] # <<>>
    BY <1>7, <1>8, <2>1
  <2>3. \A q \in Producers : queues'[q] # <<>> => \E i \in 1..Len(ready') : ready'[i] = q
    BY <1>7, <1>9, <2>1
  <2> QED BY <1>5, <1>6, <1>8, <1>10, <1>11, <2>1, <2>2, <2>3 DEF RingInv, Distinct
<1>13. CASE Len(queues[p]) # 1
  <2>1. ready' = Append(rest, p) /\ queue # <<>>
    BY <1>3, <1>4, <1>13
  <2>2. /\ ready' \in Seq(Producers) /\ Len(ready') = n
        /\ \A i \in 1..(n - 1) : ready'[i] = rest[i]
        /\ ready'[n] = p
        /\ \A i \in 1..n : i \in 1..(n - 1) \/ i = n
        /\ n \in 1..n /\ \A i \in 1..(n - 1) : i \in 1..n
    BY <1>1, <1>5, <2>1
  <2>3. Distinct(ready)'
    BY <1>8, <1>11, <2>2 DEF Distinct
  <2>4. n <= Cardinality(Producers)
    BY DistinctIsShort DEF RingInv, n
  <2>5. ASSUME NEW i \in 1..Len(ready')
        PROVE  queues'[ready'[i]] # <<>> /\ passed'[ready'[i]] + i <= Cardinality(Producers)
    <3>1. CASE i = n
      BY <1>1, <1>7, <1>10, <2>1, <2>2, <2>4, <3>1
    <3>2. CASE i \in 1..(n - 1)
      BY <1>7, <1>8, <2>2, <3>2
    <3> QED BY <2>2, <3>1, <3>2
  <2>6. \A q \in Producers : queues'[q] # <<>> => \E i \in 1..Len(ready') : ready'[i] = q
    BY <1>7, <1>9, <2>2
  <2> QED BY <1>6, <1>10, <2>2, <2>3, <2>5, <2>6 DEF RingInv
<1> QED BY <1>12, <1>13

-----------------------------------------------------------------------------
(* The receipt counters *)

Held == [p \in Producers |-> HeldReceipts(p).receipts]
HeldBytes == [p \in Producers |-> HeldReceipts(p).bytes]

ReceiptInv ==
  /\ receipts = SumFunction(Held)
  /\ receiptBytes = SumFunction(HeldBytes)
  /\ receipts <= MaxReceipts /\ receiptBytes <= MaxReceiptBytes

\* The receipts of any one producer are among those that are counted.
LEMMA HeldFacts ==
  ASSUME AdmissionInv, NEW p \in Producers
  PROVE  /\ Held \in [Producers -> Nat] /\ Held[p] = HeldReceipts(p).receipts
         /\ HeldBytes \in [Producers -> Nat] /\ HeldBytes[p] = HeldReceipts(p).bytes
<1>1. ASSUME NEW q \in Producers
      PROVE  HeldReceipts(q).receipts \in Nat /\ HeldReceipts(q).bytes \in Nat
  <2>1. CASE ~Installed(q)
    BY <2>1 DEF HeldReceipts
  <2>2. CASE Installed(q)
    <3> DEFINE events == producers[q].receipts
               F == [e \in events |-> FrameLength[e.id]]
    <3>1. IsFiniteSet(events) /\ events \subseteq Events
      BY <2>2 DEF AdmissionInv, Types, Aligned, Receipted, Installed, Records
    <3>2. \A e \in events : F[e] \in Nat
      BY <3>1, AdmissionAssumption DEF Events
    <3>3. SumFunctionOnSet(F, events) \in Nat
      <4> HIDE DEF F, events
      <4> QED BY <3>1, <3>2, SumFacts
    <3>4. BytesOf(events) \in Nat
      BY <3>3 DEF BytesOf, SumFunction
    <3>5. Cardinality(events) \in Nat
      BY <3>1, FS_CardinalityType
    <3> QED BY <2>2, <3>4, <3>5 DEF HeldReceipts
  <2> QED BY <2>1, <2>2
<1> QED BY <1>1 DEF Held, HeldBytes

HeldTypes ==
  /\ Held \in [Producers -> Nat] /\ HeldBytes \in [Producers -> Nat]
  /\ \A p \in Producers : Held[p] = HeldReceipts(p).receipts
                         /\ HeldBytes[p] = HeldReceipts(p).bytes

LEMMA HeldFactsNext == AdmissionInv' => HeldTypes'
<1>1. AdmissionInv => HeldTypes
  <2>1. CASE Producers = {}
    BY <2>1 DEF Held, HeldBytes, HeldTypes
  <2>2. CASE Producers # {}
    BY <2>2, HeldFacts DEF HeldTypes
  <2> QED BY <2>1, <2>2
<1> QED BY <1>1, PTL

\* One more receipt is one more frame.
LEMMA BytesOfOneMore ==
  ASSUME NEW events \in SUBSET Events, IsFiniteSet(events), NEW e \in Events, e \notin events
  PROVE  BytesOf(events \cup {e}) = BytesOf(events) + FrameLength[e.id]
<1> DEFINE more == events \cup {e}
           F == [f \in events |-> FrameLength[f.id]]
           G == [f \in more |-> FrameLength[f.id]]
<1>1. IsFiniteSet(more) /\ more \ {e} = events
  BY FS_AddElement
<1>2. (\A f \in more : G[f] \in Nat) /\ (\A f \in events : F[f] \in Nat)
  BY AdmissionAssumption DEF Events
<1>3. /\ \A f \in events : F[f] = G[f]
      /\ e \in more /\ G[e] = FrameLength[e.id] /\ DOMAIN F = events /\ DOMAIN G = more
  OBVIOUS
<1>4. BytesOf(events) = SumFunction(F) /\ BytesOf(more) = SumFunction(G)
  BY DEF BytesOf
<1> HIDE DEF F, G, more
<1>5. SumFunctionOnSet(G, more) = G[e] + SumFunctionOnSet(G, more \ {e})
  BY <1>1, <1>2, <1>3, SumFacts
<1>6. SumFunctionOnSet(F, events) = SumFunctionOnSet(G, events)
  BY <1>3, SumSame
<1>7. SumFunctionOnSet(F, events) \in Nat
  BY <1>2, SumFacts
<1>8. G[e] \in Nat
  BY <1>2, <1>3
<1>9. /\ BytesOf(events) = SumFunctionOnSet(F, events)
      /\ BytesOf(more) = SumFunctionOnSet(G, more)
  BY <1>3, <1>4 DEF SumFunction
<1>10. BytesOf(more) = BytesOf(events) + FrameLength[e.id]
  <2>1. SumFunctionOnSet(G, more \ {e}) = SumFunctionOnSet(G, events)
    BY <1>1
  <2> QED BY <1>3, <1>5, <1>6, <1>7, <1>8, <1>9, <2>1
<1> QED BY <1>10 DEF more

LEMMA NothingHeld == Cardinality({}) = 0 /\ BytesOf({}) = 0
<1> DEFINE F == [e \in {} |-> FrameLength[e.id]]
<1>1. /\ DOMAIN F = {} /\ IsFiniteSet({}) /\ Cardinality({}) = 0
      /\ \A e \in {} : F[e] \in Nat
  BY FS_EmptySet
<1>2. BytesOf({}) = SumFunction(F)
  BY DEF BytesOf
<1> HIDE DEF F
<1>3. SumFunctionOnSet(F, {}) = 0
  BY <1>1, SumFacts
<1> QED BY <1>1, <1>2, <1>3 DEF SumFunction

\* The counters after the receipts of one producer have changed.
LEMMA HeldChanged ==
  ASSUME AdmissionInv, AdmissionInv', NEW p \in Producers,
         \A q \in Producers \ {p} : producers'[q] = producers[q]
  PROVE  /\ SumFunction(Held') =
              SumFunction(Held) - HeldReceipts(p).receipts + HeldReceipts(p)'.receipts
         /\ SumFunction(HeldBytes') =
              SumFunction(HeldBytes) - HeldReceipts(p).bytes + HeldReceipts(p)'.bytes
         /\ SumFunction(Held) \in Nat /\ SumFunction(HeldBytes) \in Nat
         /\ HeldReceipts(p).receipts \in Nat /\ HeldReceipts(p)'.receipts \in Nat
         /\ HeldReceipts(p).bytes \in Nat /\ HeldReceipts(p)'.bytes \in Nat
         /\ HeldReceipts(p).receipts <= SumFunction(Held)
         /\ HeldReceipts(p).bytes <= SumFunction(HeldBytes)
<1>1. /\ Held \in [Producers -> Nat] /\ Held[p] = HeldReceipts(p).receipts
      /\ HeldBytes \in [Producers -> Nat] /\ HeldBytes[p] = HeldReceipts(p).bytes
  BY HeldFacts
<1>2. /\ Held' \in [Producers -> Nat] /\ Held'[p] = HeldReceipts(p)'.receipts
      /\ HeldBytes' \in [Producers -> Nat] /\ HeldBytes'[p] = HeldReceipts(p)'.bytes
  BY HeldFactsNext DEF HeldTypes
<1>3. \A q \in Producers \ {p} : Held'[q] = Held[q] /\ HeldBytes'[q] = HeldBytes[q]
  BY DEF Held, HeldBytes, HeldReceipts, Installed
<1> DEFINE n == HeldReceipts(p)'.receipts
           b == HeldReceipts(p)'.bytes
<1>4. n \in Nat /\ b \in Nat /\ Held'[p] = n /\ HeldBytes'[p] = b
  BY <1>2
<1> HIDE DEF Held, HeldBytes, n, b
<1>5. Held' = [Held EXCEPT ![p] = n] /\ HeldBytes' = [HeldBytes EXCEPT ![p] = b]
  BY <1>1, <1>2, <1>3, <1>4
<1>6. /\ SumFunction([Held EXCEPT ![p] = n]) = SumFunction(Held) - Held[p] + n
      /\ SumFunction(Held) \in Nat /\ Held[p] <= SumFunction(Held)
  BY <1>1, <1>4, ProducersFinite, SumChanged
<1>7. /\ SumFunction([HeldBytes EXCEPT ![p] = b]) = SumFunction(HeldBytes) - HeldBytes[p] + b
      /\ SumFunction(HeldBytes) \in Nat /\ HeldBytes[p] <= SumFunction(HeldBytes)
  BY <1>1, <1>4, ProducersFinite, SumChanged
<1>8. Held[p] \in Nat /\ HeldBytes[p] \in Nat
  BY <1>1
<1> QED BY <1>1, <1>4, <1>5, <1>6, <1>7, <1>8 DEF n, b

\* Nobody's receipts have changed.
LEMMA ReceiptsKept ==
  ASSUME ReceiptInv, UNCHANGED <<receipts, receiptBytes>>,
         \A q \in Producers : HeldReceipts(q)' = HeldReceipts(q)
  PROVE  ReceiptInv'
<1>1. Held' = Held /\ HeldBytes' = HeldBytes
  BY DEF Held, HeldBytes
<1> QED BY <1>1 DEF ReceiptInv

LEMMA ReplaceKeepsReceipts ==
  ASSUME AdmissionInv, AdmissionInv', ReceiptInv, NEW p \in Producers, NEW fresh \in Records,
         fresh.receipts = {}, Replace(p, fresh)
  PROVE  ReceiptInv'
<1>1. /\ producers' = [producers EXCEPT ![p] = fresh]
      /\ receipts' = receipts - HeldReceipts(p).receipts
      /\ receiptBytes' = receiptBytes - HeldReceipts(p).bytes
  BY DEF Replace
<1>2. \A q \in Producers \ {p} : producers'[q] = producers[q]
  BY <1>1 DEF AdmissionInv, Types
<1>3. HeldReceipts(p)'.receipts = 0 /\ HeldReceipts(p)'.bytes = 0
  <2>1. producers'[p] = fresh /\ fresh # NoValue
    BY <1>1, RecordFacts DEF AdmissionInv, Types
  <2> QED BY <2>1, NothingHeld DEF HeldReceipts, Installed, BytesOf
<1> DEFINE n == HeldReceipts(p).receipts
           b == HeldReceipts(p).bytes
<1>4. /\ SumFunction(Held') = SumFunction(Held) - n
      /\ SumFunction(HeldBytes') = SumFunction(HeldBytes) - b
      /\ SumFunction(Held) \in Nat /\ SumFunction(HeldBytes) \in Nat
      /\ n \in Nat /\ b \in Nat
  <2> DEFINE n1 == HeldReceipts(p)'.receipts
             b1 == HeldReceipts(p)'.bytes
  <2>1. /\ SumFunction(Held') = SumFunction(Held) - n + n1
        /\ SumFunction(HeldBytes') = SumFunction(HeldBytes) - b + b1
        /\ SumFunction(Held) \in Nat /\ SumFunction(HeldBytes) \in Nat
        /\ n \in Nat /\ b \in Nat /\ n1 = 0 /\ b1 = 0
    BY <1>2, <1>3, HeldChanged
  <2> HIDE DEF n, b, n1, b1
  <2> QED BY <2>1
<1>5. receipts' = receipts - n /\ receiptBytes' = receiptBytes - b
  BY <1>1
<1>6. /\ receipts = SumFunction(Held) /\ receiptBytes = SumFunction(HeldBytes)
      /\ receipts <= MaxReceipts /\ receiptBytes <= MaxReceiptBytes
  BY DEF ReceiptInv
<1> HIDE DEF n, b
<1>7. receipts' <= MaxReceipts /\ receiptBytes' <= MaxReceiptBytes
  BY <1>4, <1>5, <1>6, AdmissionAssumption
<1> QED BY <1>4, <1>5, <1>6, <1>7 DEF ReceiptInv

LEMMA AcceptKeepsReceipts ==
  ASSUME AdmissionInv, AdmissionInv', ReceiptInv,
         NEW s \in sessions, NEW e \in EventsOf(s), Accept(s, e)
  PROVE  ReceiptInv'
<1> DEFINE p == s.producer
           record == producers[p]
           after == Advanced(record, e)
<1>1. s.bound
  BY DEF Accept, AdmitOutcome
<1>2. p \in Producers /\ Installed(p) /\ s.generation = record.generation
  BY <1>1 DEF AdmissionInv, Types, SessionsCurrent, Sessions
<1>3. record \in Records
  BY <1>2 DEF AdmissionInv, Types, Installed
<1>4. SequenceOutcome(record, e) = "Queued" /\ ~Saturated(record, e)
  BY <1>1 DEF Accept, AdmitOutcome
<1>5. e \notin record.receipts
  BY <1>4 DEF SequenceOutcome
<1>6. e \in Events /\ FrameLength[e.id] \in Nat
  BY <1>2, <1>3, AdmissionAssumption DEF EventsOf, Events, Records
<1>7. IsFiniteSet(record.receipts) /\ record.receipts \subseteq Events
  BY <1>2, <1>3 DEF AdmissionInv, Aligned, Receipted, Records
<1>8. /\ producers' = [producers EXCEPT ![p] = after]
      /\ receipts' = receipts + 1
      /\ receiptBytes' = receiptBytes + FrameLength[e.id]
  BY DEF Accept
<1>9. producers'[p] = after /\ after.receipts = record.receipts \cup {e}
  <2>1. producers'[p] = after
    BY <1>2, <1>8 DEF AdmissionInv, Types
  <2>2. after.receipts = record.receipts \cup {e}
    BY <1>3 DEF Advanced, Records
  <2> QED BY <2>1, <2>2
<1>10. Installed(p)'
  <2>1. queues'[p] = Append(queues[p], e) /\ queues[p] \in Seq(Events)
    BY <1>2 DEF Accept, Push, AdmissionInv, Types
  <2>2. queues'[p] # <<>>
    BY <2>1
  <2>3. Aligned(p)'
    BY <1>2 DEF AdmissionInv
  <2> QED BY <2>2, <2>3 DEF Aligned
<1> DEFINE n == HeldReceipts(p).receipts
           b == HeldReceipts(p).bytes
           n1 == HeldReceipts(p)'.receipts
           b1 == HeldReceipts(p)'.bytes
<1>11. n1 = n + 1 /\ b1 = b + FrameLength[e.id]
  <2>1. Cardinality(record.receipts \cup {e}) = Cardinality(record.receipts) + 1
    BY <1>5, <1>7, FS_AddElement
  <2>2. BytesOf(record.receipts \cup {e}) = BytesOf(record.receipts) + FrameLength[e.id]
    BY <1>5, <1>6, <1>7, BytesOfOneMore
  <2>3. n = Cardinality(record.receipts) /\ b = BytesOf(record.receipts)
    BY <1>2 DEF HeldReceipts
  <2>4. n1 = Cardinality(after.receipts) /\ b1 = BytesOf(after.receipts)
    <3> HIDE DEF after
    <3> QED BY <1>9, <1>10 DEF HeldReceipts, BytesOf
  <2> QED BY <1>9, <2>1, <2>2, <2>3, <2>4
<1>12. \A q \in Producers \ {p} : producers'[q] = producers[q]
  BY <1>8 DEF AdmissionInv, Types
<1>13. /\ SumFunction(Held') = SumFunction(Held) - n + n1
       /\ SumFunction(HeldBytes') = SumFunction(HeldBytes) - b + b1
       /\ SumFunction(Held) \in Nat /\ SumFunction(HeldBytes) \in Nat
       /\ n \in Nat /\ b \in Nat
  <2> HIDE DEF p
  <2> QED BY <1>2, <1>12, HeldChanged
<1>14. /\ receipts = SumFunction(Held) /\ receiptBytes = SumFunction(HeldBytes)
       /\ receiptBytes <= MaxReceiptBytes
       /\ ~(receipts >= MaxReceipts) /\ ~(FrameLength[e.id] > MaxReceiptBytes - receiptBytes)
  BY <1>4 DEF ReceiptInv, Saturated
<1> HIDE DEF n, b, n1, b1
<1>15. SumFunction(Held') = receipts' /\ SumFunction(HeldBytes') = receiptBytes'
  BY <1>6, <1>8, <1>11, <1>13, <1>14
<1>16. receipts' <= MaxReceipts /\ receiptBytes' <= MaxReceiptBytes
  BY <1>6, <1>8, <1>13, <1>14, AdmissionAssumption
<1> QED BY <1>15, <1>16 DEF ReceiptInv

-----------------------------------------------------------------------------
(* Every step keeps the ring and the counters *)

RegistryInv == AdmissionInv /\ RingInv /\ ReceiptInv

LEMMA RegistryStep == RegistryInv /\ [Next]_admissionVars => RegistryInv'
<1> SUFFICES ASSUME RegistryInv, [Next]_admissionVars PROVE RegistryInv'
  OBVIOUS
<1>1. AdmissionInv /\ RingInv /\ ReceiptInv /\ QueueTypes
  BY DEF RegistryInv, AdmissionInv, Types, QueueTypes
<1>2. AdmissionInv'
  BY <1>1, AdmissionStep
<1>3. ASSUME UNCHANGED <<queues, ready, count, passed>> PROVE RingInv'
  <2>1. Lengths' = Lengths
    BY <1>3 DEF Lengths
  <2> QED BY <1>1, <1>3, <2>1 DEF RingInv, Distinct
<1>4. ASSUME producers' = producers, UNCHANGED <<receipts, receiptBytes>> PROVE ReceiptInv'
  <2>1. \A q \in Producers : HeldReceipts(q)' = HeldReceipts(q)
    BY <1>4 DEF HeldReceipts, Installed, BytesOf
  <2> QED BY <1>1, <1>4, <2>1, ReceiptsKept
<1>5. ASSUME NEW p \in Producers, Installed(p),
             producers' = [producers EXCEPT ![p].blocked = TRUE],
             UNCHANGED <<receipts, receiptBytes>>
      PROVE  ReceiptInv'
  <2> DEFINE after == [producers[p] EXCEPT !.blocked = TRUE]
  <2>1. producers[p] \in Records
    BY <1>1, <1>5 DEF AdmissionInv, Types, Installed
  <2>2. after \in Records /\ after.receipts = producers[p].receipts
    BY <2>1 DEF Records
  <2>3. after # NoValue
    BY <2>2, RecordFacts
  <2>4. producers' = [producers EXCEPT ![p] = after]
    BY <1>5
  <2> HIDE DEF after
  <2>5. \A q \in Producers : HeldReceipts(q)' = HeldReceipts(q)
    BY <1>1, <1>5, <2>2, <2>3, <2>4
    DEF AdmissionInv, Types, HeldReceipts, Installed, BytesOf
  <2> QED BY <1>1, <1>5, <2>5, ReceiptsKept
<1>6. ASSUME NEW p \in Producers, NEW r \in Runs, NEW allowed \in SUBSET Kinds,
             NEW next \in Seqs, issued < MaxGeneration,
             Replace(p, Registration(issued + 1, r, allowed, next))
      PROVE  RegistryInv'
  <2> DEFINE fresh == Registration(issued + 1, r, allowed, next)
  <2>1. fresh \in Records
    BY <1>1, <1>6, FreshRegistration DEF AdmissionInv, Types
  <2>2. fresh.receipts = {}
    BY DEF Registration
  <2>3. Replace(p, fresh)
    BY <1>6
  <2> HIDE DEF fresh
  <2>4. ReceiptInv'
    BY <1>1, <1>2, <2>1, <2>2, <2>3, ReplaceKeepsReceipts
  <2>5. RingInv'
    BY <1>1, <2>3, DiscardKeepsRing DEF Replace
  <2> QED BY <1>2, <2>4, <2>5 DEF RegistryInv
<1>7. ASSUME NEW p \in Producers, NEW r \in Runs, NEW allowed \in Grants, NEW next \in Seqs,
             Register(p, r, allowed, next)
      PROVE  RegistryInv'
  <2> DEFINE fresh == Registration(issued + 1, r, allowed, next)
  <2>1. /\ ~Installed(p) /\ allowed \in SUBSET Kinds /\ issued < MaxGeneration
        /\ producers' = [producers EXCEPT ![p] = fresh]
        /\ UNCHANGED <<queues, ready, count, passed, receipts, receiptBytes>>
    BY <1>7, AdmissionAssumption DEF Register, Admissible
  <2>2. fresh \in Records
    BY <1>1, <2>1, FreshRegistration DEF AdmissionInv, Types
  <2>3. fresh.receipts = {} /\ fresh # NoValue
    BY <2>2, RecordFacts DEF Registration
  <2> HIDE DEF fresh
  <2>4. HeldReceipts(p)'.receipts = 0 /\ HeldReceipts(p)'.bytes = 0
    <3>1. producers'[p] = fresh
      BY <1>1, <2>1 DEF AdmissionInv, Types
    <3> QED BY <2>3, <3>1, NothingHeld DEF HeldReceipts, Installed, BytesOf
  <2>5. HeldReceipts(p) = [receipts |-> 0, bytes |-> 0]
    BY <2>1 DEF HeldReceipts
  <2>6. HeldReceipts(p)' = HeldReceipts(p)
    BY <2>4, <2>5 DEF HeldReceipts
  <2>7. \A q \in Producers : HeldReceipts(q)' = HeldReceipts(q)
    BY <1>1, <2>1, <2>6 DEF AdmissionInv, Types, HeldReceipts, Installed, BytesOf
  <2> QED BY <1>1, <1>2, <1>3, <2>1, <2>7, ReceiptsKept DEF RegistryInv
<1>8. ASSUME NEW p \in Producers, NEW r \in Runs, NEW allowed \in Grants, NEW next \in Seqs,
             InstallCommitted(p, r, allowed, next)
      PROVE  RegistryInv'
  BY <1>6, <1>8, AdmissionAssumption DEF InstallCommitted
<1>9. ASSUME NEW p \in Producers, NEW next \in Seqs, Reconcile(p, next)
      PROVE  RegistryInv'
  <2>1. producers[p].run \in Runs /\ producers[p].allowed \in SUBSET Kinds
    BY <1>1, <1>9 DEF Reconcile, Installed, AdmissionInv, Types, Records
  <2> QED BY <1>6, <1>9, <2>1 DEF Reconcile
<1>10. ASSUME NEW p \in Producers, Invalidate(p) PROVE RegistryInv'
  <2>1. RingInv'
    BY <1>1, <1>10, DiscardKeepsRing DEF Invalidate
  <2>2. ReceiptInv'
    BY <1>5, <1>10 DEF Invalidate
  <2> QED BY <1>2, <2>1, <2>2 DEF RegistryInv
<1>11. ASSUME NEW p \in Producers, Connect(p, Kinds) PROVE RegistryInv'
  BY <1>2, <1>3, <1>4, <1>11 DEF Connect, RegistryInv
<1>12. ASSUME NEW s \in sessions, Disconnect(s) \/ RefuseFrame(s) PROVE RegistryInv'
  BY <1>2, <1>3, <1>4, <1>12 DEF Disconnect, RefuseFrame, RegistryInv
<1>13. ASSUME NEW s \in sessions, NEW e \in EventsOf(s), Accept(s, e) PROVE RegistryInv'
  <2>1. ReceiptInv'
    BY <1>1, <1>2, <1>13, AcceptKeepsReceipts
  <2>2. s.bound
    BY <1>13 DEF Accept, AdmitOutcome
  <2>3. s.producer \in Producers /\ Installed(s.producer)
        /\ s.generation = producers[s.producer].generation
    BY <1>1, <2>2 DEF AdmissionInv, Types, SessionsCurrent, Sessions
  <2>4. producers[s.producer] \in Records
    BY <1>1, <2>3 DEF AdmissionInv, Types, Installed
  <2>5. e \in Events
    BY <2>3, <2>4 DEF EventsOf, Events, Records
  <2>6. RingInv'
    BY <1>1, <1>13, <2>3, <2>5, PushKeepsRing DEF Accept
  <2> QED BY <1>2, <2>1, <2>6 DEF RegistryInv
<1>14. ASSUME NEW s \in sessions, NEW e \in EventsOf(s), Refuse(s, e) PROVE RegistryInv'
  <2>1. UNCHANGED <<queues, ready, count, passed, receipts, receiptBytes>>
    BY <1>14 DEF Refuse
  <2>2. CASE producers' = producers
    BY <1>2, <1>3, <1>4, <2>1, <2>2 DEF RegistryInv
  <2>3. CASE /\ producers' = [producers EXCEPT ![s.producer].blocked = TRUE]
             /\ AdmitOutcome(s, e) \in Blocking
    <3>1. s.bound
      BY <2>3 DEF AdmitOutcome, Blocking
    <3>2. s.producer \in Producers /\ Installed(s.producer)
      BY <1>1, <3>1 DEF AdmissionInv, Types, SessionsCurrent, Sessions
    <3> QED BY <1>2, <1>3, <1>5, <2>1, <2>3, <3>2 DEF RegistryInv
  <2> QED BY <1>14, <2>2, <2>3 DEF Refuse
<1>15. ASSUME Pop PROVE RegistryInv'
  <2>1. RingInv'
    BY <1>1, <1>15, PopKeepsRing
  <2>2. ReceiptInv'
    BY <1>4, <1>15 DEF Pop
  <2> QED BY <1>2, <2>1, <2>2 DEF RegistryInv
<1>16. CASE UNCHANGED admissionVars
  BY <1>2, <1>3, <1>4, <1>16 DEF admissionVars, RegistryInv
<1> QED BY <1>7, <1>8, <1>9, <1>10, <1>11, <1>12, <1>13, <1>14, <1>15, <1>16 DEF Next

LEMMA RegistryInit == Init => RegistryInv
<1> SUFFICES ASSUME Init PROVE RegistryInv
  OBVIOUS
<1>1. AdmissionInv
  BY AdmissionInit
<1>2. SumFunctionOnSet(Lengths, Producers) = 0
  <2>1. \A p \in Producers : Lengths[p] = 0
    BY DEF Init, Lengths
  <2> QED BY <2>1, ProducersFinite, SumOfZeroes
<1>3. RingInv
  <2>1. SumFunction(Lengths) = 0
    BY <1>2 DEF SumFunction, Lengths
  <2>2. ready = <<>> /\ ready \in Seq(Producers) /\ 1..Len(ready) = {}
    BY DEF Init
  <2> QED BY <2>1, <2>2 DEF Init, RingInv, Distinct
<1>4. /\ \A p \in Producers : Held[p] = 0
      /\ \A p \in Producers : HeldBytes[p] = 0
      /\ DOMAIN Held = Producers /\ DOMAIN HeldBytes = Producers
  BY DEF Init, Held, HeldBytes, HeldReceipts, Installed
<1>5. SumFunctionOnSet(Held, Producers) = 0 /\ SumFunctionOnSet(HeldBytes, Producers) = 0
  <2> HIDE DEF Held, HeldBytes
  <2> QED BY <1>4, ProducersFinite, SumOfZeroes
<1>6. ReceiptInv
  BY <1>4, <1>5, AdmissionAssumption DEF Init, ReceiptInv, SumFunction
<1> QED BY <1>1, <1>3, <1>6 DEF RegistryInv

\* What every reachable state of the registry satisfies: the backlogs follow the
\* receipts, the ring follows the backlogs, the counters follow both.
THEOREM RegistryInvariant == Spec => []RegistryInv
  BY RegistryInit, RegistryStep, PTL DEF Spec

\* `queue.rs`: the ring names each producer that has a backlog, once, and no
\* other, and the count is the length of all backlogs, whatever is pushed,
\* popped or discarded.
THEOREM RingMatchesBacklog == Spec => []RingIsBacklog
<1>1. RegistryInv => RingIsBacklog
  <2> SUFFICES ASSUME RegistryInv PROVE RingIsBacklog
    OBVIOUS
  <2>1. {ready[i] : i \in 1..Len(ready)} = {p \in Producers : queues[p] # <<>>}
    <3>1. \A i \in 1..Len(ready) : ready[i] \in Producers /\ queues[ready[i]] # <<>>
      BY DEF RegistryInv, RingInv
    <3>2. \A p \in Producers : queues[p] # <<>> => \E i \in 1..Len(ready) : ready[i] = p
      BY DEF RegistryInv, RingInv
    <3> QED BY <3>1, <3>2
  <2> QED BY <2>1 DEF RegistryInv, RingInv, RingIsBacklog, Distinct, Lengths
<1> QED BY <1>1, RegistryInvariant, PTL

\* No producer with events waits for more than one event of each other one.
THEOREM EveryoneServedInTurn == Spec => []ServedInTurn
<1>1. RegistryInv => ServedInTurn
  <2> SUFFICES ASSUME RegistryInv, NEW p \in Producers
               PROVE  passed[p] < Cardinality(Producers)
    BY DEF ServedInTurn
  <2>1. CASE queues[p] # <<>>
    <3>1. PICK i \in 1..Len(ready) : ready[i] = p
      BY <2>1 DEF RegistryInv, RingInv
    <3>2. passed[p] + i <= Cardinality(Producers) /\ passed[p] \in Nat
      BY <3>1 DEF RegistryInv, RingInv
    <3>3. i \in Nat /\ 1 <= i
      OBVIOUS
    <3> QED BY <3>2, <3>3, ProducersFinite
  <2>2. CASE queues[p] = <<>>
    <3>1. passed[p] = 0
      BY <2>2 DEF RegistryInv, RingInv
    <3>2. Cardinality(Producers) # 0
      BY ProducersFinite, FS_EmptySet
    <3> QED BY <3>1, <3>2, ProducersFinite
  <2> QED BY <2>1, <2>2
<1> QED BY <1>1, RegistryInvariant, PTL

\* The counters that bound the receipts are the sums of what the producers
\* hold, so no subtraction of a replacement underflows, and stay in bounds.
THEOREM ReceiptsCounted == Spec => []CountersExact
<1>1. RegistryInv => CountersExact
  <2> SUFFICES ASSUME RegistryInv PROVE CountersExact
    OBVIOUS
  <2>1. HeldBytes = [p \in Producers |->
                      IF Installed(p) THEN BytesOf(producers[p].receipts) ELSE 0]
    BY DEF HeldBytes, HeldReceipts
  <2>2. /\ receipts = SumFunction(Held) /\ receiptBytes = SumFunction(HeldBytes)
        /\ receipts <= MaxReceipts /\ receiptBytes <= MaxReceiptBytes
    BY DEF RegistryInv, ReceiptInv
  <2> QED BY <2>1, <2>2 DEF CountersExact, Held
<1> QED BY <1>1, RegistryInvariant, PTL
=============================================================================
