------------------------- MODULE StageWorkerProofs -------------------------
(***************************************************************************)
(* Proofs about StageWorker: type correctness, and that the committed      *)
(* offset covers only messages that are accounted for.                     *)
(***************************************************************************)
EXTENDS StageWorker, TLAPS

-----------------------------------------------------------------------------
(* Sequences and messages. *)

(* What is appended to a sequence is at its end, behind the rest. *)
LEMMA AppendFacts ==
  ASSUME NEW S, NEW s \in Seq(S), NEW e \in S
  PROVE  /\ Append(s, e) \in Seq(S)
         /\ DOMAIN s = 1 .. Len(s)
         /\ DOMAIN Append(s, e) = 1 .. Len(s) + 1
         /\ Len(s) \in Nat
         /\ \A i \in 1 .. Len(s) : Append(s, e)[i] = s[i]
         /\ Append(s, e)[Len(s) + 1] = e
  OBVIOUS

(* What is behind the head of a sequence stays in it, one place further on. *)
LEMMA TailFacts ==
  ASSUME NEW S, NEW s \in Seq(S), s # <<>>
  PROVE  /\ Tail(s) \in Seq(S)
         /\ Head(s) \in S
         /\ Head(s) = s[1]
         /\ Len(s) \in Nat \ {0}
         /\ DOMAIN s = 1 .. Len(s)
         /\ DOMAIN Tail(s) = 1 .. Len(s) - 1
         /\ \A i \in 1 .. Len(s) - 1 : Tail(s)[i] = s[i + 1]
  OBVIOUS

(* A message is a partition and an offset in its log. *)
LEMMA MessageFacts ==
  ASSUME GroupAssumption, NEW m \in Messages
  PROVE  /\ PartitionOf(m) \in Partitions
         /\ OffsetOf(m) \in Nat
         /\ OffsetOf(m) + 1 \in 0 .. LogLength
         /\ m = <<PartitionOf(m), OffsetOf(m)>>
  BY DEF GroupAssumption, Messages, PartitionOf, OffsetOf

(* The messages before an offset, one more with each. *)
LEMMA UptoFacts ==
  ASSUME NEW p, NEW o \in Nat
  PROVE  /\ Upto(p, o + 1) = Upto(p, o) \union {<<p, o>>}
         /\ Upto(p, 0) = {}
  BY DEF Upto

(* A failed message goes to a topic that exists, or nowhere. *)
LEMMA RouteFacts ==
  ASSUME LadderAssumption, NEW exc, NEW count \in Nat, NEW retryable \in BOOLEAN
  PROVE  /\ Route(exc, count, retryable) \in FailureLegs \union {Nowhere}
         /\ Nowhere \notin FailureLegs
         /\ SourceLeg \notin FailureLegs
  BY DEF LadderAssumption, Route, FailureLegs, Tiers, DlqLeg, Nowhere, SourceLeg

(* Whatever a handler raises, what is published goes to a leg of the ladder. *)
LEMMA DestinationFacts ==
  ASSUME LadderAssumption, GroupAssumption, NEW m \in Messages, NEW exc,
         Destination(m, exc) # Nowhere
  PROVE  Destination(m, exc) \in FailureLegs
  <1>1. RetryCount[m] \in Nat
    BY DEF GroupAssumption
  <1>2. (PartitionOf(m) \in RetryablePartitions) \in BOOLEAN
    OBVIOUS
  <1> QED
    BY <1>1, <1>2, RouteFacts DEF Destination

-----------------------------------------------------------------------------
(* Type correctness, with what the loop guarantees of its queue. *)

Busy == {"handling", "flushing", "committing"}

QueueBusy == \A w \in Workers : pc[w] \in Busy => queue[w] # <<>>

(* The initial state has its types. *)
LEMMA TypeInit == GroupAssumption /\ Init => TypeOK /\ QueueBusy
  BY DEF GroupAssumption, Init, TypeOK, QueueBusy, Busy

(* The process ends with everything it held. *)
LEMMA TypeDies ==
  ASSUME TypeOK, QueueBusy, NEW w \in Workers, Dies(w), faults' \in 0 .. MaxFaults
  PROVE  TypeOK' /\ QueueBusy'
  <1>1. {c.msg : c \in outbox[w]} \subseteq Messages
    BY DEF TypeOK, Copies
  <1> QED
    BY <1>1 DEF TypeOK, QueueBusy, Busy, Dies

(* The message fetched joins the queue. *)
LEMMA TypeFetch ==
  ASSUME GroupAssumption, TypeOK, NEW w \in Workers, NEW p \in Fetchable(w),
         Fetch(w, p)
  PROVE  /\ Next1(w, p) \in Messages
         /\ queue' \in [Workers -> Seq(Messages)]
         /\ position' \in [Workers -> [Partitions -> 0 .. LogLength]]
         /\ \A v \in Workers : queue[v] # <<>> \/ v = w => queue'[v] # <<>>
  <1>1. /\ p \in Partitions
        /\ position[w][p] \in 0 .. LogLength - 1
        /\ position[w][p] + 1 \in 0 .. LogLength
    BY DEF Fetchable, TypeOK, GroupAssumption
  <1>2. Next1(w, p) \in Messages
    BY <1>1 DEF Next1, Messages
  <1>3. queue[w] \in Seq(Messages)
    BY DEF TypeOK
  <1>4. /\ Append(queue[w], Next1(w, p)) \in Seq(Messages)
        /\ Append(queue[w], Next1(w, p)) # <<>>
    BY <1>2, <1>3
  <1>5. queue' = [queue EXCEPT ![w] = Append(queue[w], Next1(w, p))]
    BY DEF Fetch
  <1>6. /\ queue' \in [Workers -> Seq(Messages)]
        /\ \A v \in Workers : queue[v] # <<>> \/ v = w => queue'[v] # <<>>
    BY <1>4, <1>5 DEF TypeOK
  <1>7. position' \in [Workers -> [Partitions -> 0 .. LogLength]]
    BY <1>1 DEF Fetch, TypeOK
  <1> QED
    BY <1>2, <1>6, <1>7

(* Every step keeps the types, and a busy worker its message. *)
LEMMA TypeStep ==
  ASSUME LadderAssumption, GroupAssumption, TypeOK, QueueBusy, [Next]_vars
  PROVE  TypeOK' /\ QueueBusy'
  <1> USE DEF brokerVars, copyVars, workerVars
  <1>1. CASE UNCHANGED vars
    BY <1>1 DEF vars, TypeOK, QueueBusy
  <1>2. ASSUME NEW w \in Workers, Step(w)
        PROVE  TypeOK' /\ QueueBusy'
    <2> DEFINE m == Head(queue[w])
    <2>a. queue[w] \in Seq(Messages)
      BY DEF TypeOK
    <2>b. pc[w] \in Busy => m \in Messages /\ Tail(queue[w]) \in Seq(Messages)
      BY <2>a, TailFacts DEF QueueBusy
    <2>c. ASSUME Fault  PROVE faults' \in 0 .. MaxFaults
      BY <2>c DEF Fault, TypeOK, GroupAssumption
    <2> HIDE DEF m
    <2>1. ASSUME NEW p \in Partitions, OnAssign(w, p)
          PROVE  TypeOK' /\ QueueBusy'
      BY <2>1 DEF OnAssign, TypeOK, QueueBusy
    <2>2. CASE OnAssignNothing(w)
      BY <2>2 DEF OnAssignNothing, TypeOK, QueueBusy
    <2>3. ASSUME NEW p \in Partitions, OnRevoke(w, p)
          PROVE  TypeOK' /\ QueueBusy'
      BY <2>3, <2>c DEF OnRevoke, TypeOK, QueueBusy
    <2>4. CASE Evict(w)
      BY <2>4, <2>c DEF Evict, TypeOK, QueueBusy
    <2>5. CASE OnLost(w)
      BY <2>5 DEF OnLost, TypeOK, QueueBusy
    <2>6. CASE ProcessPolled(w)
      <3>1. PICK p \in Fetchable(w) : Fetch(w, p)
        BY <2>6 DEF ProcessPolled
      <3>2. /\ queue' \in [Workers -> Seq(Messages)]
            /\ position' \in [Workers -> [Partitions -> 0 .. LogLength]]
            /\ \A v \in Workers : queue[v] # <<>> \/ v = w => queue'[v] # <<>>
        BY <3>1, TypeFetch
      <3> QED
        BY <2>6, <3>2 DEF ProcessPolled, StartHandler, TypeOK, QueueBusy, Busy
    <2>7. CASE ProcessPending(w)
      BY <2>7 DEF ProcessPending, StartHandler, TypeOK, QueueBusy
    <2>8. CASE Heartbeat(w)
      <3>1. PICK p \in Fetchable(w) : Fetch(w, p)
        BY <2>8 DEF Heartbeat
      <3>2. /\ queue' \in [Workers -> Seq(Messages)]
            /\ position' \in [Workers -> [Partitions -> 0 .. LogLength]]
            /\ \A v \in Workers : queue[v] # <<>> \/ v = w => queue'[v] # <<>>
        BY <3>1, TypeFetch
      <3> QED
        BY <2>8, <3>2 DEF Heartbeat, TypeOK, QueueBusy
    <2>9. CASE HandlerSucceeds(w)
      BY <2>9, <2>b DEF HandlerSucceeds, Resume, TypeOK, QueueBusy, Busy, m
    <2>10. CASE HandlerFails(w)
      <3>1. PICK exc \in Raises(m) :
              /\ Destination(m, exc) # Nowhere
              /\ outbox' = [outbox EXCEPT
                   ![w] = @ \union {[msg |-> m, leg |-> Destination(m, exc)]}]
              /\ routed' = [routed EXCEPT ![w] = Destination(m, exc)]
        BY <2>10 DEF HandlerFails, m
      <3>2. m \in Messages
        BY <2>10, <2>b DEF HandlerFails, Busy
      <3>3. Destination(m, exc) \in FailureLegs
        BY <3>1, <3>2, DestinationFacts
      <3>4. [msg |-> m, leg |-> Destination(m, exc)] \in Copies
        BY <3>2, <3>3 DEF Copies
      <3>5. outbox' \in [Workers -> SUBSET Copies]
        BY <3>1, <3>4 DEF TypeOK
      <3>6. routed' \in [Workers -> FailureLegs \union {SourceLeg}]
        BY <3>1, <3>3 DEF TypeOK
      <3> QED
        BY <2>10, <3>5, <3>6 DEF HandlerFails, Resume, TypeOK, QueueBusy, Busy
    <2>11. CASE FlushReturns(w)
      BY <2>11, <2>b DEF FlushReturns, TypeOK, QueueBusy, Busy, m
    <2>12. CASE Commit(w)
      <3>1. m \in Messages /\ Tail(queue[w]) \in Seq(Messages)
        BY <2>12, <2>b DEF Commit, Busy
      <3>2. committed' = [committed EXCEPT ![PartitionOf(m)] = OffsetOf(m) + 1]
        BY <2>12 DEF Commit, m
      <3>3. committed' \in [Partitions -> 0 .. LogLength]
        BY <3>1, <3>2, MessageFacts DEF TypeOK
      <3> QED
        BY <2>12, <3>1, <3>3 DEF Commit, NextMessage, TypeOK, QueueBusy, Busy
    <2>13. CASE CommitFails(w)
      BY <2>13, <2>b, <2>c DEF CommitFails, NextMessage, TypeOK, QueueBusy, Busy
    <2>14. CASE Deliver(w)
      BY <2>14 DEF Deliver, TypeOK, QueueBusy
    <2>15. CASE DeliveryFails(w)
      BY <2>15 DEF DeliveryFails, TypeOK, QueueBusy, Copies
    <2>16. CASE Crash(w)
      BY <2>16, <2>c, TypeDies DEF Crash
    <2>17. CASE CrashUnroutable(w)
      BY <2>17, TypeDies DEF CrashUnroutable, TypeOK
    <2>18. CASE CrashStalled(w)
      BY <2>18, TypeDies DEF CrashStalled, TypeOK
    <2>19. CASE Shutdown(w)
      BY <2>19, <2>c, TypeDies DEF Shutdown
    <2>20. CASE Restart(w)
      BY <2>20 DEF Restart, TypeOK, QueueBusy, Busy
    <2> QED
      BY <1>2, <2>1, <2>2, <2>3, <2>4, <2>5, <2>6, <2>7, <2>8, <2>9, <2>10,
         <2>11, <2>12, <2>13, <2>14, <2>15, <2>16, <2>17, <2>18, <2>19, <2>20
         DEF Step
  <1> QED
    BY <1>1, <1>2 DEF Next

(* The variables stay in their types, in every run of the group. *)
THEOREM TypeCorrect ==
  ASSUME LadderAssumption, GroupAssumption
  PROVE  Spec => []TypeOK
  <1>1. Init => TypeOK /\ QueueBusy
    BY TypeInit
  <1>2. (TypeOK /\ QueueBusy) /\ [Next]_vars => (TypeOK /\ QueueBusy)'
    BY TypeStep
  <1> QED
    BY <1>1, <1>2, PTL DEF Spec

-----------------------------------------------------------------------------
(* The inductive invariant: a worker takes over a partition at its committed *)
(* offset, below which all is accounted for, and from there on holds what it *)
(* fetched in one queue and lets go of the head only once that is accounted  *)
(* for.  So all below any message it holds is accounted for or ahead of that *)
(* message in the queue, and the head may be committed over.                 *)
(* While deliveries do not fail, a message that went to the DLQ is accounted *)
(* for only once it is announced, if it is to be announced at all.           *)

Answered ==
  handled \union announced
    \union {c.msg : c \in {d \in parked : ~Announces(d.msg, d.leg)}}

Cleared == IF DeliveryMayFail THEN Accounted ELSE Answered

QueueCleared ==
  \A w \in Workers : \A i \in DOMAIN queue[w] :
    Upto(PartitionOf(queue[w][i]), OffsetOf(queue[w][i]))
      \subseteq Cleared \union Ahead(w, i)

PositionCleared ==
  \A w \in Workers : \A p \in view[w] :
    Upto(p, position[w][p]) \subseteq Cleared \union InHand(w)

(* A copy w has sent is under way or parked, unless its delivery failed. *)
Sent(w, c) ==
  \/ c \in parked \union outbox[w]
  \/ DeliveryMayFail /\ c.msg \in dropped

HeadReady(w) ==
  /\ pc[w] = "committing" => Head(queue[w]) \in Cleared
  /\ pc[w] = "flushing" => Sent(w, [msg |-> Head(queue[w]), leg |-> routed[w]])

HeadsReady == \A w \in Workers : HeadReady(w)

CommitCleared == \A p \in Partitions : Upto(p, committed[p]) \subseteq Cleared

(* What is announced is on the DLQ. *)
AnnouncedParked ==
  ~DeliveryMayFail => \A m \in announced : [msg |-> m, leg |-> DlqLeg] \in parked

Covered ==
  QueueCleared /\ PositionCleared /\ HeadsReady /\ CommitCleared /\ AnnouncedParked

IInv == TypeOK /\ QueueBusy /\ Covered

-----------------------------------------------------------------------------
(* What is cleared stays so. *)

(* What is answered was handled or parked. *)
LEMMA ClearedIsAccounted ==
  ASSUME AnnouncedParked
  PROVE  Cleared \subseteq Accounted
  <1>1. CASE DeliveryMayFail
    BY <1>1 DEF Cleared
  <1>2. CASE ~DeliveryMayFail
    <2>1. ASSUME NEW m \in announced
          PROVE  m \in Parked
      <3>1. PICK c \in parked : c = [msg |-> m, leg |-> DlqLeg]
        BY <1>2 DEF AnnouncedParked
      <3> QED
        BY <3>1 DEF Parked
    <2> QED
      BY <1>2, <2>1 DEF Cleared, Answered, Accounted, Settled, Parked
  <1> QED
    BY <1>1, <1>2

(* Handled, announced and parked messages stay so. *)
LEMMA AnsweredStays ==
  ASSUME handled \subseteq handled', announced \subseteq announced',
         parked \subseteq parked'
  PROVE  Answered \subseteq Answered'
  <1>1. \A d \in parked : Announces(d.msg, d.leg)' <=> Announces(d.msg, d.leg)
    BY DEF Announces
  <1> QED
    BY <1>1 DEF Answered

(* Where nothing but an announcement is added, nothing is taken back. *)
LEMMA ClearedStays ==
  ASSUME handled' = handled, parked' = parked, dropped' = dropped,
         outbox' = outbox, announced \subseteq announced'
  PROVE  Cleared \subseteq Cleared'
  <1>1. Accounted' = Accounted
    BY DEF Accounted, Settled, Parked, Queued
  <1> QED
    BY <1>1, AnsweredStays DEF Cleared

(* Copies go from the outbox to their topic, or are dropped. *)
CopiesMove(w) == \A c : Sent(w, c) => Sent(w, c)'

(* The copies a dying process has not flushed are dropped, and accounted for *)
(* as that; what was settled stays so.                                       *)
LEMMA ClearedDies ==
  ASSUME TypeOK, NEW w \in Workers, Dies(w)
  PROVE  Cleared \subseteq Cleared'
  <1> DEFINE Left == {c.msg : c \in outbox[w]}
  <1>1. Settled' = Settled
    BY DEF Dies, Settled, Parked
  <1>2. outbox' = [outbox EXCEPT ![w] = {}] /\ outbox \in [Workers -> SUBSET Copies]
    BY DEF Dies, TypeOK
  <1>3. dropped' = dropped \union Left
    BY DEF Dies
  <1>4. Queued \subseteq Queued' \union Left
    <2> SUFFICES ASSUME NEW v \in Workers, NEW c \in outbox[v], v # w
                 PROVE  c.msg \in Queued'
      BY DEF Queued
    <2>1. c \in outbox'[v]
      BY <1>2
    <2> QED
      BY <2>1 DEF Queued
  <1>5. Accounted \subseteq Accounted'
    BY <1>1, <1>3, <1>4 DEF Accounted
  <1>6. Answered \subseteq Answered'
    BY AnsweredStays DEF Dies
  <1> QED
    BY <1>5, <1>6 DEF Cleared

(* A delivered copy is parked, and no longer in the outbox. *)
LEMMA ClearedDeliver ==
  ASSUME TypeOK, NEW w \in Workers, Deliver(w)
  PROVE  Cleared \subseteq Cleared' /\ \A v \in Workers : CopiesMove(v)
  <1>1. PICK c \in outbox[w] :
          /\ parked' = parked \union {c}
          /\ outbox' = [outbox EXCEPT ![w] = @ \ {c}]
          /\ handled' = handled /\ dropped' = dropped /\ announced' = announced
    BY DEF Deliver, copyVars
  <1>2. Settled' = Settled \union {c.msg}
    BY <1>1 DEF Settled, Parked
  <1>3. \A v \in Workers : \A d \in outbox[v] : d # c => d \in outbox'[v]
    BY <1>1 DEF TypeOK
  <1>4. Queued \subseteq Queued' \union {c.msg}
    BY <1>3 DEF Queued
  <1>5. Accounted \subseteq Accounted'
    BY <1>1, <1>2, <1>4 DEF Accounted
  <1>6. Answered \subseteq Answered'
    BY <1>1, AnsweredStays
  <1> QED
    BY <1>1, <1>3, <1>5, <1>6 DEF Cleared, CopiesMove, Sent

(* A copy that is not delivered is dropped, and accounted for as that. *)
LEMMA ClearedDeliveryFails ==
  ASSUME TypeOK, NEW w \in Workers, DeliveryFails(w)
  PROVE  Cleared \subseteq Cleared' /\ \A v \in Workers : CopiesMove(v)
  <1>1. PICK c \in outbox[w] :
          /\ dropped' = dropped \union {c.msg}
          /\ outbox' = [outbox EXCEPT ![w] = @ \ {c}]
          /\ handled' = handled /\ parked' = parked
    BY DEF DeliveryFails
  <1>2. Settled' = Settled /\ DeliveryMayFail
    BY <1>1 DEF Settled, Parked, DeliveryFails
  <1>3. \A v \in Workers : \A d \in outbox[v] : d # c => d \in outbox'[v]
    BY <1>1 DEF TypeOK
  <1>4. Queued \subseteq Queued' \union {c.msg}
    BY <1>3 DEF Queued
  <1>5. Accounted \subseteq Accounted'
    BY <1>1, <1>2, <1>4 DEF Accounted
  <1> QED
    BY <1>1, <1>2, <1>3, <1>5 DEF Cleared, CopiesMove, Sent

-----------------------------------------------------------------------------
(* How the coverage of the queues and of the fetch positions moves. *)

Coverage == QueueCleared /\ PositionCleared

(* Nothing is fetched, nothing is let go of, partitions are only lost. *)
LEMMA CoverageStays ==
  ASSUME Coverage, Cleared \subseteq Cleared',
         queue' = queue, position' = position,
         \A v \in Workers : view'[v] \subseteq view[v]
  PROVE  Coverage'
  BY DEF Coverage, QueueCleared, PositionCleared, Ahead, InHand

(* A worker comes up with empty hands. *)
LEMMA CoverageDies ==
  ASSUME TypeOK, Coverage, Cleared \subseteq Cleared', NEW w \in Workers, Dies(w)
  PROVE  Coverage'
  <1>1. /\ queue'[w] = <<>> /\ view'[w] = {}
        /\ position' = position
        /\ \A v \in Workers : v # w => queue'[v] = queue[v] /\ view'[v] = view[v]
    BY DEF Dies, TypeOK
  <1>2. DOMAIN queue'[w] = {}
    BY <1>1
  <1>3. QueueCleared'
    BY <1>1, <1>2 DEF Coverage, QueueCleared, Ahead
  <1>4. PositionCleared'
    BY <1>1 DEF Coverage, PositionCleared, InHand
  <1> QED
    BY <1>3, <1>4 DEF Coverage

(* A partition is taken over at its committed offset. *)
LEMMA CoverageAssign ==
  ASSUME TypeOK, Coverage, CommitCleared, Cleared \subseteq Cleared',
         NEW w \in Workers, NEW p \in Partitions,
         queue' = queue,
         view' = [view EXCEPT ![w] = @ \union {p}],
         position' = [position EXCEPT ![w][p] = committed[p]]
  PROVE  Coverage'
  <1>1. QueueCleared'
    BY DEF Coverage, QueueCleared, Ahead
  <1>2. ASSUME NEW v \in Workers, NEW q \in view'[v]
        PROVE  Upto(q, position'[v][q]) \subseteq Cleared' \union InHand(v)'
    <2>1. CASE v = w /\ q = p
      BY <2>1 DEF CommitCleared, TypeOK
    <2>2. CASE ~(v = w /\ q = p)
      <3>1. q \in view[v] /\ q \in Partitions
        BY <2>2 DEF TypeOK
      <3>2. position'[v][q] = position[v][q]
        BY <2>2, <3>1 DEF TypeOK
      <3> QED
        BY <3>1, <3>2 DEF Coverage, PositionCleared, InHand
    <2> QED
      BY <2>1, <2>2
  <1> QED
    BY <1>1, <1>2 DEF Coverage, PositionCleared

(* What is fetched is the next message of its partition. *)
LEMMA CoverageFetch ==
  ASSUME GroupAssumption, TypeOK, Coverage, Cleared \subseteq Cleared',
         NEW w \in Workers, NEW p \in Fetchable(w), Fetch(w, p),
         view' = view
  PROVE  Coverage'
  <1> DEFINE n == Len(queue[w])
             m == Next1(w, p)
  <1>1. m \in Messages /\ queue[w] \in Seq(Messages)
    BY TypeFetch DEF TypeOK
  <1>2. /\ n \in Nat
        /\ DOMAIN queue[w] = 1 .. n
        /\ queue'[w] = Append(queue[w], m)
        /\ DOMAIN queue'[w] = 1 .. n + 1
        /\ \A i \in 1 .. n : queue'[w][i] = queue[w][i]
        /\ queue'[w][n + 1] = m
        /\ \A v \in Workers : v # w => queue'[v] = queue[v]
    BY <1>1, AppendFacts DEF Fetch, TypeOK
  <1>3. /\ p \in view[w] /\ p \in Partitions
        /\ position[w][p] \in Nat
        /\ position'[w][p] = position[w][p] + 1
        /\ \A v \in Workers, q \in Partitions :
             v # w \/ q # p => position'[v][q] = position[v][q]
    BY DEF Fetch, Fetchable, TypeOK
  <1>4. m = <<p, position[w][p]>> /\ PartitionOf(m) = p /\ OffsetOf(m) = position[w][p]
    BY DEF Next1, PartitionOf, OffsetOf
  <1> HIDE DEF n, m
  <1>5. \A i \in 1 .. n + 1 : Ahead(w, i)' = Ahead(w, i)
    BY <1>2 DEF Ahead
  <1>6. Ahead(w, n + 1) = InHand(w) /\ InHand(w)' = InHand(w) \union {m}
    BY <1>2 DEF Ahead, InHand
  <1>7. Upto(p, position[w][p]) \subseteq Cleared \union InHand(w)
    BY <1>3 DEF Coverage, PositionCleared
  <1>8. QueueCleared'
    <2>1. ASSUME NEW i \in 1 .. n + 1
          PROVE  Upto(PartitionOf(queue'[w][i]), OffsetOf(queue'[w][i]))
                   \subseteq Cleared' \union Ahead(w, i)'
      <3>1. CASE i \in 1 .. n
        BY <3>1, <1>2, <1>5 DEF Coverage, QueueCleared
      <3>2. CASE i = n + 1
        BY <3>2, <1>2, <1>4, <1>5, <1>6, <1>7
      <3> QED
        BY <1>2, <3>1, <3>2
    <2>2. ASSUME NEW v \in Workers, v # w, NEW i \in DOMAIN queue'[v]
          PROVE  Upto(PartitionOf(queue'[v][i]), OffsetOf(queue'[v][i]))
                   \subseteq Cleared' \union Ahead(v, i)'
      BY <1>2, <2>2 DEF Coverage, QueueCleared, Ahead
    <2> QED
      BY <1>2, <2>1, <2>2 DEF QueueCleared
  <1>9. ASSUME NEW v \in Workers, NEW q \in view'[v]
        PROVE  Upto(q, position'[v][q]) \subseteq Cleared' \union InHand(v)'
    <2>0. q \in view[v] /\ q \in Partitions
      BY DEF TypeOK
    <2>1. CASE v = w /\ q = p
      <3>1. Upto(p, position'[w][p]) = Upto(p, position[w][p]) \union {m}
        BY <1>3, <1>4, UptoFacts
      <3> QED
        BY <2>1, <3>1, <1>6, <1>7
    <2>2. CASE v = w /\ q # p
      <3>1. position'[w][q] = position[w][q]
        BY <2>0, <2>2, <1>3
      <3> QED
        BY <2>0, <2>2, <3>1, <1>6 DEF Coverage, PositionCleared
    <2>3. CASE v # w
      <3>1. position'[v][q] = position[v][q] /\ InHand(v)' = InHand(v)
        BY <2>0, <2>3, <1>2, <1>3 DEF InHand
      <3> QED
        BY <2>0, <3>1 DEF Coverage, PositionCleared
    <2> QED
      BY <2>1, <2>2, <2>3
  <1> QED
    BY <1>8, <1>9 DEF Coverage, PositionCleared

(* The head is let go of once it is accounted for. *)
LEMMA CoverageNext ==
  ASSUME TypeOK, Coverage, Cleared \subseteq Cleared',
         NEW w \in Workers, queue[w] # <<>>, Head(queue[w]) \in Cleared,
         NextMessage(w), view' = view, position' = position
  PROVE  Coverage'
  <1> DEFINE n == Len(queue[w])
             h == Head(queue[w])
  <1>1. queue[w] \in Seq(Messages)
    BY DEF TypeOK
  <1>2. /\ n \in Nat \ {0}
        /\ h = queue[w][1]
        /\ DOMAIN queue[w] = 1 .. n
        /\ queue'[w] = Tail(queue[w])
        /\ DOMAIN queue'[w] = 1 .. n - 1
        /\ \A i \in 1 .. n - 1 : queue'[w][i] = queue[w][i + 1]
        /\ \A v \in Workers : v # w => queue'[v] = queue[v]
    BY <1>1, TailFacts DEF NextMessage, TypeOK
  <1>3. h \in Cleared'
    OBVIOUS
  <1> HIDE DEF n, h
  <1>4. ASSUME NEW i \in 1 .. n - 1
        PROVE  Ahead(w, i + 1) \subseteq {h} \union Ahead(w, i)'
    <2> SUFFICES ASSUME NEW x \in Ahead(w, i + 1), x # h
                 PROVE  x \in Ahead(w, i)'
      OBVIOUS
    <2>0. PICK j \in 1 .. (i + 1) - 1 : x = queue[w][j]
      BY DEF Ahead
    <2>1. j - 1 \in 1 .. i - 1 /\ j - 1 \in 1 .. n - 1 /\ (j - 1) + 1 = j
      BY <1>2, <2>0
    <2>2. queue'[w][j - 1] = x
      BY <1>2, <2>0, <2>1
    <2> QED
      BY <2>1, <2>2 DEF Ahead
  <1>5. InHand(w) \subseteq {h} \union InHand(w)'
    <2> SUFFICES ASSUME NEW x \in InHand(w), x # h
                 PROVE  x \in InHand(w)'
      OBVIOUS
    <2>0. PICK j \in 1 .. n : x = queue[w][j]
      BY <1>2 DEF InHand
    <2>1. j - 1 \in 1 .. n - 1 /\ (j - 1) + 1 = j
      BY <1>2, <2>0
    <2>2. queue'[w][j - 1] = x
      BY <1>2, <2>0, <2>1
    <2> QED
      BY <1>2, <2>1, <2>2 DEF InHand
  <1>6. QueueCleared'
    <2>1. ASSUME NEW i \in 1 .. n - 1
          PROVE  Upto(PartitionOf(queue'[w][i]), OffsetOf(queue'[w][i]))
                   \subseteq Cleared' \union Ahead(w, i)'
      <3>1. i + 1 \in DOMAIN queue[w]
        BY <1>2
      <3>2. Upto(PartitionOf(queue[w][i + 1]), OffsetOf(queue[w][i + 1]))
              \subseteq Cleared \union Ahead(w, i + 1)
        BY <3>1 DEF Coverage, QueueCleared
      <3> QED
        BY <1>2, <1>3, <1>4, <3>2
    <2>2. ASSUME NEW v \in Workers, v # w, NEW i \in DOMAIN queue'[v]
          PROVE  Upto(PartitionOf(queue'[v][i]), OffsetOf(queue'[v][i]))
                   \subseteq Cleared' \union Ahead(v, i)'
      BY <1>2, <2>2 DEF Coverage, QueueCleared, Ahead
    <2> QED
      BY <1>2, <2>1, <2>2 DEF QueueCleared
  <1>7. ASSUME NEW v \in Workers, NEW q \in view[v]
        PROVE  Upto(q, position[v][q]) \subseteq Cleared' \union InHand(v)'
    <2>1. InHand(v) \subseteq {h} \union InHand(v)'
      <3>1. CASE v = w
        BY <3>1, <1>5
      <3>2. CASE v # w
        BY <3>2, <1>2 DEF InHand
      <3> QED
        BY <3>1, <3>2
    <2>2. Upto(q, position[v][q]) \subseteq Cleared \union InHand(v)
      BY DEF Coverage, PositionCleared
    <2> QED
      BY <1>3, <2>1, <2>2
  <1> QED
    BY <1>6, <1>7 DEF Coverage, PositionCleared

-----------------------------------------------------------------------------
(* The invariant is inductive. *)

(* The heads of the other queues stay ready where pc and the queue stay. *)
LEMMA HeadsStayReady ==
  ASSUME HeadsReady, Cleared \subseteq Cleared', NEW w \in Workers,
         \A v \in Workers : v # w => /\ pc'[v] = pc[v] /\ queue'[v] = queue[v]
                                     /\ routed'[v] = routed[v]
                                     /\ CopiesMove(v),
         HeadReady(w)'
  PROVE  HeadsReady'
  <1> SUFFICES ASSUME NEW v \in Workers, v # w
               PROVE  HeadReady(v)'
    BY DEF HeadsReady
  <1>1. HeadReady(v)
    BY DEF HeadsReady
  <1>2. CASE pc[v] = "flushing"
    <2>1. Sent(v, [msg |-> Head(queue[v]), leg |-> routed[v]])
      BY <1>1, <1>2 DEF HeadReady
    <2>2. PICK c : c = [msg |-> Head(queue[v]), leg |-> routed[v]]
      OBVIOUS
    <2>3. Sent(v, c)'
      BY <2>1, <2>2 DEF CopiesMove
    <2> QED
      BY <1>2, <2>2, <2>3 DEF HeadReady
  <1>3. CASE pc[v] # "flushing"
    BY <1>1, <1>3 DEF HeadReady
  <1> QED
    BY <1>2, <1>3

(* What a committed offset covers stays accounted for. *)
LEMMA CommitStaysCleared ==
  ASSUME CommitCleared, Cleared \subseteq Cleared', committed' = committed
  PROVE  CommitCleared'
  BY DEF CommitCleared

(* What is announced stays on the DLQ. *)
LEMMA AnnouncedStaysParked ==
  ASSUME AnnouncedParked, announced' = announced, parked \subseteq parked'
  PROVE  AnnouncedParked'
  BY DEF AnnouncedParked

(* Rebalances, handler starts, flush and restart: all copies and handled     *)
(* messages stay, and so do the queues.                                      *)
LEMMA CoveredQuiet ==
  ASSUME IInv, handled' = handled, parked' = parked, dropped' = dropped,
         outbox' = outbox, queue' = queue, position' = position,
         committed' = committed, announced \subseteq announced', AnnouncedParked',
         \A v \in Workers : view'[v] \subseteq view[v],
         NEW w \in Workers,
         \A v \in Workers : v # w => pc'[v] = pc[v] /\ routed'[v] = routed[v],
         HeadReady(w)'
  PROVE  Covered'
  <1>1. Cleared \subseteq Cleared'
    BY ClearedStays
  <1>2. Coverage'
    BY <1>1, CoverageStays DEF IInv, Covered, Coverage
  <1>3. \A v \in Workers : CopiesMove(v)
    BY DEF CopiesMove, Sent
  <1>4. HeadsReady'
    BY <1>1, <1>3, HeadsStayReady DEF IInv, Covered
  <1>5. CommitCleared'
    BY <1>1, CommitStaysCleared DEF IInv, Covered
  <1> QED
    BY <1>2, <1>4, <1>5 DEF Covered, Coverage

(* A process that dies leaves every offset covered. *)
LEMMA CoveredDies ==
  ASSUME IInv, NEW w \in Workers, Dies(w)
  PROVE  Covered'
  <1>1. Cleared \subseteq Cleared'
    BY ClearedDies DEF IInv
  <1>2. Coverage'
    BY <1>1, CoverageDies DEF IInv, Covered, Coverage
  <1>3. /\ pc'[w] = "down"
        /\ \A v \in Workers : v # w => /\ pc'[v] = pc[v] /\ queue'[v] = queue[v]
                                       /\ routed'[v] = routed[v]
                                       /\ outbox'[v] = outbox[v]
        /\ parked' = parked /\ announced' = announced /\ dropped \subseteq dropped'
    BY DEF Dies, IInv, TypeOK
  <1>4. HeadReady(w)'
    BY <1>3 DEF HeadReady
  <1>5. \A v \in Workers : v # w => CopiesMove(v)
    BY <1>3 DEF CopiesMove, Sent
  <1>6. HeadsReady'
    BY <1>1, <1>3, <1>4, <1>5, HeadsStayReady DEF IInv, Covered
  <1>7. CommitCleared'
    BY <1>1, CommitStaysCleared DEF IInv, Covered, Dies
  <1>8. AnnouncedParked'
    BY <1>3, AnnouncedStaysParked DEF IInv, Covered
  <1> QED
    BY <1>2, <1>6, <1>7, <1>8 DEF Covered, Coverage

(* A fetched message becomes the head of the queue. *)
LEMMA CoveredFetch ==
  ASSUME GroupAssumption, IInv, NEW w \in Workers, NEW p \in Fetchable(w),
         Fetch(w, p), handled' = handled, UNCHANGED copyVars,
         outbox' = outbox, view' = view, committed' = committed,
         routed' = routed, \A v \in Workers : v # w => pc'[v] = pc[v],
         pc'[w] = "handling"
  PROVE  Covered'
  <1>1. Cleared \subseteq Cleared'
    BY ClearedStays DEF copyVars
  <1>2. Coverage'
    BY <1>1, CoverageFetch DEF IInv, Covered, Coverage
  <1>3. \A v \in Workers : v # w => queue'[v] = queue[v]
    BY DEF Fetch, IInv, TypeOK
  <1>4. \A v \in Workers : CopiesMove(v)
    BY DEF CopiesMove, Sent, copyVars
  <1>5. HeadReady(w)'
    BY DEF HeadReady
  <1>6. HeadsReady'
    BY <1>1, <1>3, <1>4, <1>5, HeadsStayReady DEF IInv, Covered
  <1>7. CommitCleared' /\ AnnouncedParked'
    BY <1>1, CommitStaysCleared, AnnouncedStaysParked DEF IInv, Covered, copyVars
  <1> QED
    BY <1>2, <1>6, <1>7 DEF Covered, Coverage

(* The message being committed, and all before it, is accounted for. *)
LEMMA HeadCovered ==
  ASSUME GroupAssumption, IInv, NEW w \in Workers, pc[w] = "committing"
  PROVE  /\ queue[w] # <<>>
         /\ Head(queue[w]) \in Messages
         /\ Head(queue[w]) \in Cleared
         /\ Upto(PartitionOf(Head(queue[w])), OffsetOf(Head(queue[w])) + 1)
              \subseteq Cleared
  <1> DEFINE h == Head(queue[w])
  <1>1. queue[w] # <<>> /\ h \in Cleared
    BY DEF IInv, QueueBusy, Busy, Covered, HeadsReady, HeadReady
  <1>2. queue[w] \in Seq(Messages)
    BY DEF IInv, TypeOK
  <1>3. h \in Messages /\ h = queue[w][1] /\ 1 \in DOMAIN queue[w]
    BY <1>1, <1>2, TailFacts
  <1>4. Upto(PartitionOf(h), OffsetOf(h)) \subseteq Cleared \union Ahead(w, 1)
    BY <1>3 DEF IInv, Covered, QueueCleared
  <1>5. Ahead(w, 1) = {}
    BY DEF Ahead
  <1>6. /\ OffsetOf(h) \in Nat
        /\ h = <<PartitionOf(h), OffsetOf(h)>>
    BY <1>3, MessageFacts
  <1> HIDE DEF h
  <1>7. Upto(PartitionOf(h), OffsetOf(h) + 1)
          = Upto(PartitionOf(h), OffsetOf(h)) \union {h}
    BY <1>6, UptoFacts
  <1>8. Upto(PartitionOf(h), OffsetOf(h) + 1) \subseteq Cleared
    BY <1>1, <1>4, <1>5, <1>7
  <1> QED
    BY <1>1, <1>3, <1>8 DEF h

(* With or without the commit: the head is accounted for. *)
LEMMA CoveredNext ==
  ASSUME GroupAssumption, IInv, NEW w \in Workers, pc[w] = "committing",
         NextMessage(w), handled' = handled, UNCHANGED copyVars,
         outbox' = outbox, view' = view, routed' = routed,
         position' = position,
         \/ committed' = committed
         \/ committed' = [committed EXCEPT ![PartitionOf(Head(queue[w]))] =
                            OffsetOf(Head(queue[w])) + 1]
  PROVE  Covered'
  <1> DEFINE h == Head(queue[w])
  <1>1. Cleared \subseteq Cleared'
    BY ClearedStays DEF copyVars
  <1>2. queue[w] # <<>> /\ h \in Cleared
    BY HeadCovered
  <1>3. Coverage'
    BY <1>1, <1>2, CoverageNext DEF IInv, Covered, Coverage
  <1>4. \A v \in Workers : v # w => pc'[v] = pc[v] /\ queue'[v] = queue[v]
    BY DEF NextMessage, IInv, TypeOK
  <1>5. pc'[w] = "poll"
    BY DEF NextMessage, IInv, TypeOK
  <1>6. \A v \in Workers : CopiesMove(v)
    BY DEF CopiesMove, Sent, copyVars
  <1>7. HeadReady(w)'
    BY <1>5 DEF HeadReady
  <1>8. HeadsReady'
    BY <1>1, <1>4, <1>6, <1>7, HeadsStayReady DEF IInv, Covered
  <1>9. Upto(PartitionOf(h), OffsetOf(h) + 1) \subseteq Cleared
    BY HeadCovered
  <1> HIDE DEF h
  <1>10. CommitCleared'
    <2>1. CASE committed' = committed
      BY <2>1, <1>1, CommitStaysCleared DEF IInv, Covered
    <2>2. CASE committed' = [committed EXCEPT ![PartitionOf(h)] = OffsetOf(h) + 1]
      BY <2>2, <1>1, <1>9 DEF CommitCleared, IInv, Covered, TypeOK
    <2> QED
      BY <2>1, <2>2 DEF h
  <1>11. AnnouncedParked'
    BY AnnouncedStaysParked DEF IInv, Covered, copyVars
  <1> QED
    BY <1>3, <1>8, <1>10, <1>11 DEF Covered, Coverage

(* At first nothing is committed, fetched or announced. *)
LEMMA CoveredInit == GroupAssumption /\ Init => IInv
  <1> SUFFICES ASSUME GroupAssumption, Init
               PROVE  IInv
    OBVIOUS
  <1>1. TypeOK /\ QueueBusy
    BY TypeInit
  <1>2. QueueCleared /\ PositionCleared
    BY DEF Init, QueueCleared, PositionCleared
  <1>3. HeadsReady /\ AnnouncedParked
    BY DEF Init, HeadsReady, HeadReady, AnnouncedParked
  <1>4. CommitCleared
    BY UptoFacts DEF Init, CommitCleared
  <1> QED
    BY <1>1, <1>2, <1>3, <1>4 DEF IInv, Covered

(* A handler that succeeds leaves its message to the commit. *)
LEMMA SuccessKeeps ==
  ASSUME IInv, NEW w \in Workers, HandlerSucceeds(w)
  PROVE  Covered'
  <1> USE DEF brokerVars, copyVars
  <1> DEFINE h == Head(queue[w])
  <1>t. TypeOK
    BY DEF IInv
  <1>1. Settled' = Settled \union {h}
    BY DEF HandlerSucceeds, Settled, Parked
  <1>2. Accounted \subseteq Accounted' /\ h \in Accounted'
    BY <1>1 DEF HandlerSucceeds, Accounted, Queued
  <1>3. Answered \subseteq Answered' /\ h \in Answered'
    BY AnsweredStays DEF HandlerSucceeds, Answered
  <1>4. Cleared \subseteq Cleared' /\ h \in Cleared'
    BY <1>2, <1>3 DEF Cleared
  <1>5. Coverage'
    BY <1>4, CoverageStays DEF HandlerSucceeds, IInv, Covered, Coverage
  <1>6. /\ pc' = [pc EXCEPT ![w] = "committing"]
        /\ queue' = queue /\ routed' = routed
        /\ \A v \in Workers : CopiesMove(v)
    BY DEF HandlerSucceeds, CopiesMove, Sent
  <1>7. HeadReady(w)'
    BY <1>4, <1>6, <1>t DEF HeadReady, TypeOK
  <1>8. \A v \in Workers : v # w => pc'[v] = pc[v]
    BY <1>6, <1>t DEF TypeOK
  <1>9. HeadsReady'
    BY <1>4, <1>6, <1>7, <1>8, HeadsStayReady DEF IInv, Covered
  <1>10. CommitCleared' /\ AnnouncedParked'
    BY <1>4, CommitStaysCleared, AnnouncedStaysParked DEF HandlerSucceeds, IInv, Covered
  <1> QED
    BY <1>5, <1>9, <1>10 DEF Covered, Coverage

(* A handler that fails sends a copy of its message. *)
LEMMA FailureKeeps ==
  ASSUME IInv, NEW w \in Workers, HandlerFails(w)
  PROVE  Covered'
  <1> USE DEF brokerVars, copyVars
  <1> DEFINE h == Head(queue[w])
  <1>t. TypeOK
    BY DEF IInv
  <1>1. PICK leg : /\ outbox' = [outbox EXCEPT
                                  ![w] = @ \union {[msg |-> h, leg |-> leg]}]
                   /\ routed' = [routed EXCEPT ![w] = leg]
    BY DEF HandlerFails
  <1>2. /\ \A v \in Workers : outbox[v] \subseteq outbox'[v]
        /\ [msg |-> h, leg |-> leg] \in outbox'[w] /\ routed'[w] = leg
        /\ \A v \in Workers : v # w => routed'[v] = routed[v]
    BY <1>1, <1>t DEF TypeOK
  <1>3. Queued \subseteq Queued'
    BY <1>2 DEF Queued
  <1>4. Accounted \subseteq Accounted' /\ Answered \subseteq Answered'
    BY <1>3, AnsweredStays DEF HandlerFails, Accounted, Settled, Parked
  <1>5. Cleared \subseteq Cleared'
    BY <1>4 DEF Cleared
  <1>6. Coverage'
    BY <1>5, CoverageStays DEF HandlerFails, IInv, Covered, Coverage
  <1>7. /\ pc' = [pc EXCEPT ![w] = "flushing"]
        /\ queue' = queue
        /\ \A v \in Workers : CopiesMove(v)
    BY <1>2 DEF HandlerFails, CopiesMove, Sent
  <1>8. HeadReady(w)'
    BY <1>2, <1>7, <1>t DEF HeadReady, Sent, TypeOK
  <1>9. \A v \in Workers : v # w => pc'[v] = pc[v]
    BY <1>7, <1>t DEF TypeOK
  <1>10. HeadsReady'
    BY <1>2, <1>5, <1>7, <1>8, <1>9, HeadsStayReady DEF IInv, Covered
  <1>11. CommitCleared' /\ AnnouncedParked'
    BY <1>5, CommitStaysCleared, AnnouncedStaysParked DEF HandlerFails, IInv, Covered
  <1> QED
    BY <1>6, <1>10, <1>11 DEF Covered, Coverage

(* When flush() returns the copy is parked or its delivery may still fail,   *)
(* and what is to be announced is announced.                                 *)
LEMMA FlushKeeps ==
  ASSUME IInv, NEW w \in Workers, FlushReturns(w)
  PROVE  Covered'
  <1> USE DEF brokerVars, copyVars
  <1> DEFINE h == Head(queue[w])
             c == [msg |-> h, leg |-> routed[w]]
  <1>t. TypeOK
    BY DEF IInv
  <1>1. /\ pc' = [pc EXCEPT ![w] = "committing"]
        /\ queue' = queue /\ parked' = parked
        /\ routed' = [routed EXCEPT ![w] = SourceLeg]
        /\ pc[w] = "flushing"
        /\ outbox[w] = {} \/ DeliveryMayFail
        /\ announced \subseteq announced' /\ announced' \subseteq announced \union {h}
        /\ h \notin announced /\ h \in announced' => Announces(h, routed[w])
        /\ Announces(h, routed[w]) /\ ~DeliveryMayFail => h \in announced'
    BY DEF FlushReturns
  <1>2. Sent(w, c) /\ c.msg = h /\ c.leg = routed[w]
    BY <1>1 DEF IInv, Covered, HeadsReady, HeadReady
  <1> HIDE DEF c
  <1>3. Cleared \subseteq Cleared'
    BY <1>1, ClearedStays DEF FlushReturns
  <1>4. h \in Cleared'
    <2>1. CASE DeliveryMayFail
      <3>1. h \in Accounted
        BY <1>2, <2>1 DEF Sent, Accounted, Settled, Parked, Queued
      <3> QED
        BY <1>3, <2>1, <3>1 DEF Cleared
    <2>2. CASE ~DeliveryMayFail
      <3>1. c \in parked
        BY <1>1, <1>2, <2>2 DEF Sent
      <3>2. CASE Announces(h, routed[w])
        BY <1>1, <2>2, <3>2 DEF Cleared, Answered
      <3>3. CASE ~Announces(h, routed[w])
        <4>1. h \in Answered
          BY <1>2, <3>1, <3>3 DEF Answered
        <4> QED
          BY <1>3, <2>2, <4>1 DEF Cleared
      <3> QED
        BY <3>2, <3>3
    <2> QED
      BY <2>1, <2>2
  <1>5. AnnouncedParked'
    <2> SUFFICES ASSUME ~DeliveryMayFail, h \notin announced, h \in announced'
                 PROVE  [msg |-> h, leg |-> DlqLeg] \in parked
      BY <1>1 DEF IInv, Covered, AnnouncedParked
    <2>1. c \in parked
      BY <1>1, <1>2 DEF Sent
    <2>2. routed[w] = DlqLeg
      BY <1>1 DEF Announces
    <2> QED
      BY <2>1, <2>2 DEF c
  <1>6. HeadReady(w)'
    BY <1>1, <1>4, <1>t DEF HeadReady, TypeOK
  <1>7. \A v \in Workers : v # w => pc'[v] = pc[v] /\ routed'[v] = routed[v]
    BY <1>1, <1>t DEF TypeOK
  <1> QED
    BY <1>1, <1>5, <1>6, <1>7, CoveredQuiet DEF FlushReturns

(* Every step of a worker keeps what the offsets cover. *)
LEMMA CoveredStep ==
  ASSUME LadderAssumption, GroupAssumption, IInv, NEW w \in Workers, Step(w)
  PROVE  Covered'
  <1> USE DEF brokerVars, copyVars, workerVars
  <1>t. TypeOK
    BY DEF IInv
  <1>1. ASSUME NEW p \in Partitions, OnAssign(w, p)
        PROVE  Covered'
    <2>1. Cleared \subseteq Cleared'
      BY <1>1, ClearedStays DEF OnAssign
    <2>2. Coverage'
      BY <1>1, <2>1, CoverageAssign DEF OnAssign, IInv, Covered, Coverage
    <2>3. HeadsReady'
      BY <1>1, <2>1 DEF OnAssign, IInv, Covered, HeadsReady, HeadReady, Sent
    <2>4. CommitCleared' /\ AnnouncedParked'
      BY <1>1, <2>1, CommitStaysCleared, AnnouncedStaysParked DEF OnAssign, IInv, Covered
    <2> QED
      BY <2>2, <2>3, <2>4 DEF Covered, Coverage
  <1>q. ASSUME pc' = pc, routed' = routed, queue' = queue, outbox' = outbox,
               parked' = parked, dropped' = dropped, handled' = handled,
               announced' = announced
        PROVE  HeadReady(w)' /\ AnnouncedParked' /\ announced \subseteq announced'
    <2>1. Cleared \subseteq Cleared'
      BY <1>q, ClearedStays
    <2> QED
      BY <1>q, <2>1 DEF HeadReady, HeadsReady, IInv, Covered, Sent, AnnouncedParked
  <1>2. CASE OnAssignNothing(w)
    BY <1>2, <1>q, CoveredQuiet DEF OnAssignNothing
  <1>3. ASSUME NEW p \in Partitions, OnRevoke(w, p)
        PROVE  Covered'
    <2>1. \A v \in Workers : view'[v] \subseteq view[v]
      BY <1>3, <1>t DEF OnRevoke, TypeOK
    <2> QED
      BY <1>3, <2>1, <1>q, CoveredQuiet DEF OnRevoke
  <1>4. CASE Evict(w)
    BY <1>4, <1>q, CoveredQuiet DEF Evict
  <1>5. CASE OnLost(w)
    <2>1. \A v \in Workers : view'[v] \subseteq view[v]
      BY <1>5, <1>t DEF OnLost, TypeOK
    <2> QED
      BY <1>5, <2>1, <1>q, CoveredQuiet DEF OnLost
  <1>6. CASE ProcessPolled(w)
    <2>1. PICK p \in Fetchable(w) : Fetch(w, p)
      BY <1>6 DEF ProcessPolled
    <2>2. /\ \A v \in Workers : v # w => pc'[v] = pc[v]
          /\ pc'[w] = "handling"
      BY <1>6, <1>t DEF ProcessPolled, StartHandler, TypeOK
    <2> QED
      BY <1>6, <2>1, <2>2, CoveredFetch DEF ProcessPolled, StartHandler
  <1>7. CASE ProcessPending(w)
    <2>1. /\ \A v \in Workers : v # w => pc'[v] = pc[v]
          /\ pc'[w] = "handling"
      BY <1>7, <1>t DEF ProcessPending, StartHandler, TypeOK
    <2>2. HeadReady(w)'
      BY <2>1 DEF HeadReady
    <2>3. AnnouncedParked'
      BY <1>7, AnnouncedStaysParked DEF IInv, Covered, ProcessPending, StartHandler
    <2> QED
      BY <1>7, <2>1, <2>2, <2>3, CoveredQuiet DEF ProcessPending, StartHandler
  <1>8. CASE Heartbeat(w)
    <2>1. PICK p \in Fetchable(w) : Fetch(w, p)
      BY <1>8 DEF Heartbeat
    <2> QED
      BY <1>8, <2>1, CoveredFetch DEF Heartbeat
  <1>9. CASE HandlerSucceeds(w)
    BY <1>9, SuccessKeeps
  <1>10. CASE HandlerFails(w)
    BY <1>10, FailureKeeps
  <1>11. CASE FlushReturns(w)
    BY <1>11, FlushKeeps
  <1>12. CASE Commit(w)
    BY <1>12, CoveredNext DEF Commit
  <1>13. CASE CommitFails(w)
    BY <1>13, CoveredNext DEF CommitFails
  <1>14. ASSUME Cleared \subseteq Cleared', \A v \in Workers : CopiesMove(v),
                pc' = pc, queue' = queue, position' = position, view' = view,
                routed' = routed, committed' = committed, announced' = announced,
                parked \subseteq parked'
         PROVE  Covered'
    <2>1. Coverage'
      BY <1>14, CoverageStays DEF IInv, Covered, Coverage
    <2>2. HeadReady(w)'
      <3>1. HeadReady(w)
        BY DEF IInv, Covered, HeadsReady
      <3>2. CopiesMove(w)
        BY <1>14
      <3>3. PICK c : c = [msg |-> Head(queue[w]), leg |-> routed[w]]
        OBVIOUS
      <3>4. Sent(w, c) => Sent(w, c)'
        BY <3>2 DEF CopiesMove
      <3> QED
        BY <1>14, <3>1, <3>3, <3>4 DEF HeadReady
    <2>3. HeadsReady'
      BY <1>14, <2>2, HeadsStayReady DEF IInv, Covered
    <2>4. CommitCleared' /\ AnnouncedParked'
      BY <1>14, CommitStaysCleared, AnnouncedStaysParked DEF IInv, Covered
    <2> QED
      BY <2>1, <2>3, <2>4 DEF Covered, Coverage
  <1>15. CASE Deliver(w)
    BY <1>15, <1>14, <1>t, ClearedDeliver DEF Deliver
  <1>16. CASE DeliveryFails(w)
    BY <1>16, <1>14, <1>t, ClearedDeliveryFails DEF DeliveryFails
  <1>17. CASE Crash(w) \/ CrashUnroutable(w) \/ CrashStalled(w) \/ Shutdown(w)
    BY <1>17, CoveredDies DEF Crash, CrashUnroutable, CrashStalled, Shutdown
  <1>18. CASE Restart(w)
    <2>1. /\ pc'[w] = "poll"
          /\ \A v \in Workers : v # w => pc'[v] = pc[v]
      BY <1>18, <1>t DEF Restart, TypeOK
    <2>2. HeadReady(w)'
      BY <2>1 DEF HeadReady
    <2>3. AnnouncedParked'
      BY <1>18, AnnouncedStaysParked DEF IInv, Covered, Restart
    <2> QED
      BY <1>18, <2>1, <2>2, <2>3, CoveredQuiet DEF Restart
  <1> QED
    BY <1>1, <1>2, <1>3, <1>4, <1>5, <1>6, <1>7, <1>8, <1>9, <1>10, <1>11,
       <1>12, <1>13, <1>15, <1>16, <1>17, <1>18 DEF Step

(* Every step keeps the invariant. *)
LEMMA Inductive ==
  ASSUME LadderAssumption, GroupAssumption
  PROVE  IInv /\ [Next]_vars => IInv'
  <1> SUFFICES ASSUME IInv, [Next]_vars
               PROVE  IInv'
    OBVIOUS
  <1>1. TypeOK' /\ QueueBusy'
    BY TypeStep DEF IInv
  <1>2. CASE UNCHANGED vars
    <2> USE <1>2 DEF vars, brokerVars, copyVars, workerVars
    <2>1. Cleared \subseteq Cleared'
      BY ClearedStays
    <2>2. QueueCleared' /\ PositionCleared'
      BY <2>1, CoverageStays DEF IInv, Covered, Coverage
    <2>3. HeadsReady'
      BY <2>1 DEF IInv, Covered, HeadsReady, HeadReady, Sent
    <2>4. CommitCleared' /\ AnnouncedParked'
      BY <2>1, CommitStaysCleared, AnnouncedStaysParked DEF IInv, Covered
    <2> QED
      BY <1>1, <2>2, <2>3, <2>4 DEF IInv, Covered
  <1>3. CASE Next
    <2>1. PICK w \in Workers : Step(w)
      BY <1>3 DEF Next
    <2>2. Covered'
      BY <2>1, CoveredStep
    <2> QED
      BY <1>1, <2>2 DEF IInv
  <1> QED
    BY <1>2, <1>3

(* IInv is an invariant of the worker. *)
LEMMA InvariantHolds ==
  ASSUME LadderAssumption, GroupAssumption
  PROVE  Spec => []IInv
  <1>1. Init => IInv
    BY CoveredInit
  <1>2. IInv /\ [Next]_vars => IInv'
    BY Inductive
  <1> QED
    BY <1>1, <1>2, PTL DEF Spec

-----------------------------------------------------------------------------
(* When deliveries fail, a message below the committed offset that nobody    *)
(* handled has had its copy left behind by flush(): no crash, eviction,      *)
(* stashed message or rebalance loses one.                                   *)
THEOREM OnlyDeliveryLosesTheorem ==
  ASSUME LadderAssumption, GroupAssumption
  PROVE  Spec => []OnlyDeliveryLoses
  <1>1. ASSUME IInv
        PROVE  OnlyDeliveryLoses
    <2>1. Committed \subseteq Accounted
      BY <1>1, ClearedIsAccounted DEF IInv, Covered, CommitCleared, Committed
    <2> QED
      BY <2>1 DEF Accounted, OnlyDeliveryLoses
  <1> QED
    BY <1>1, InvariantHolds, PTL

(* With deliveries that do not fail, nothing is lost: the committed offset   *)
(* covers only what was handled or parked.                                   *)
THEOREM NoLossTheorem ==
  ASSUME LadderAssumption, GroupAssumption, ~DeliveryMayFail
  PROVE  Spec => []NoLoss
  <1>1. ASSUME IInv
        PROVE  NoLoss
    <2>1. Committed \subseteq Accounted
      BY <1>1, ClearedIsAccounted DEF IInv, Covered, CommitCleared, Committed
    <2> QED
      BY <2>1 DEF Accounted, NoLoss
  <1> QED
    BY <1>1, InvariantHolds, PTL

(* No worker skips a message of a partition it reads.                        *)
THEOREM NothingSkippedTheorem ==
  ASSUME LadderAssumption, GroupAssumption
  PROVE  Spec => []NothingSkipped
  <1>1. ASSUME IInv
        PROVE  NothingSkipped
    <2>1. Cleared \subseteq Accounted
      BY <1>1, ClearedIsAccounted DEF IInv, Covered
    <2>2. QueueCovered
      BY <1>1, <2>1 DEF IInv, Covered, QueueCleared, QueueCovered
    <2>3. PositionCovered
      BY <1>1, <2>1 DEF IInv, Covered, PositionCleared, PositionCovered
    <2> QED
      BY <2>2, <2>3 DEF NothingSkipped
  <1> QED
    BY <1>1, InvariantHolds, PTL

(* With deliveries that do not fail, what is announced as failed is on the   *)
(* DLQ, and a group moves past a message it could only dead-letter when that *)
(* is announced: a crash between the two leaves the offset where it was.     *)
THEOREM DeadLettersAnnouncedTheorem ==
  ASSUME LadderAssumption, GroupAssumption, ~DeliveryMayFail
  PROVE  Spec => []DeadLettersAnnounced
  <1>1. ASSUME IInv
        PROVE  DeadLettersAnnounced
    <2>1. \A m \in announced : [msg |-> m, leg |-> DlqLeg] \in parked
      BY <1>1 DEF IInv, Covered, AnnouncedParked
    <2>2. Committed \subseteq Answered
      BY <1>1 DEF IInv, Covered, CommitCleared, Committed, Cleared
    <2>3. ASSUME NEW m \in Committed \ handled,
                 \A c \in parked : c.msg = m => Announces(m, c.leg)
          PROVE  m \in announced
      BY <2>2, <2>3 DEF Answered
    <2> QED
      BY <2>1, <2>3 DEF DeadLettersAnnounced
  <1> QED
    BY <1>1, InvariantHolds, PTL

-----------------------------------------------------------------------------
(* The refinement. *)

(* At most one message is settled at a time, and not by a commit. *)
LEMMA SettledGrowsByOne ==
  ASSUME TypeOK, QueueBusy, NEW w \in Workers, Step(w)
  PROVE  \/ Settled' = Settled
         \/ \E m \in Messages : Settled' = Settled \union {m} /\ committed' = committed
  <1> USE DEF brokerVars, copyVars, workerVars
  <1>1. CASE HandlerSucceeds(w)
    <2>1. queue[w] \in Seq(Messages) /\ queue[w] # <<>>
      BY <1>1 DEF TypeOK, QueueBusy, Busy, HandlerSucceeds
    <2>2. Head(queue[w]) \in Messages
      BY <2>1, TailFacts
    <2> QED
      BY <1>1, <2>2 DEF HandlerSucceeds, Settled, Parked
  <1>2. CASE Deliver(w)
    <2>1. PICK c \in outbox[w] : /\ parked' = parked \union {c}
                                 /\ UNCHANGED <<committed, handled>>
      BY <1>2 DEF Deliver
    <2>2. c.msg \in Messages
      BY DEF TypeOK, Copies
    <2> QED
      BY <2>1, <2>2 DEF Settled, Parked
  <1>3. CASE ~HandlerSucceeds(w) /\ ~Deliver(w)
    <2>1. parked' = parked /\ handled' = handled
      BY <1>3 DEF Step, OnAssign, OnAssignNothing, OnRevoke, Evict, OnLost,
         ProcessPolled, ProcessPending, StartHandler, Heartbeat, HandlerFails,
         FlushReturns, Commit, CommitFails, DeliveryFails, Crash,
         CrashUnroutable, CrashStalled, Shutdown, Dies, Restart
    <2> QED
      BY <2>1 DEF Settled, Parked
  <1> QED
    BY <1>1, <1>2, <1>3

(* Nothing but a commit moves a committed offset. *)
LEMMA CommittedMovesByCommit ==
  ASSUME NEW w \in Workers, Step(w), committed' # committed
  PROVE  Commit(w)
  BY DEF Step, OnAssign, OnAssignNothing, OnRevoke, Evict, OnLost,
     ProcessPolled, ProcessPending, StartHandler, Heartbeat, HandlerSucceeds,
     HandlerFails, FlushReturns, CommitFails, Deliver, DeliveryFails, Crash,
     CrashUnroutable, CrashStalled, Shutdown, Dies, Restart, brokerVars

(* The group implements the abstract at-least-once consumer when deliveries  *)
(* do not fail: each step settles a message, commits over settled ones, or   *)
(* is none of the abstract consumer's business.                              *)
THEOREM AtLeastOnceTheorem ==
  ASSUME LadderAssumption, GroupAssumption, ~DeliveryMayFail
  PROVE  Spec => ImplementsAtLeastOnce
  <1>1. Init => ALO!AloInit
    BY DEF Init, ALO!AloInit, Settled, Parked
  <1>2. ASSUME IInv, [Next]_vars
        PROVE  [ALO!AloNext]_(ALO!aloVars)
    <2>1. CASE UNCHANGED vars
      BY <2>1 DEF vars, brokerVars, copyVars, ALO!aloVars, Settled, Parked
    <2>2. ASSUME NEW w \in Workers, Step(w), Settled' = Settled, committed' # committed
          PROVE  ALO!AloNext
      <3> DEFINE h == Head(queue[w])
      <3>1. /\ pc[w] = "committing"
            /\ committed' = [committed EXCEPT ![PartitionOf(h)] = OffsetOf(h) + 1]
        BY <2>2, CommittedMovesByCommit DEF Commit
      <3>2. /\ h \in Messages
            /\ Upto(PartitionOf(h), OffsetOf(h) + 1) \subseteq Settled
        BY <1>2, <3>1, HeadCovered, ClearedIsAccounted DEF Accounted, IInv, Covered
      <3> HIDE DEF h
      <3>3. /\ PartitionOf(h) \in Partitions
            /\ OffsetOf(h) + 1 \in 0 .. LogLength
        BY <3>2, MessageFacts
      <3>4. \A i \in 0 .. LogLength - 1 :
              i < OffsetOf(h) + 1 => <<PartitionOf(h), i>> \in Settled
        BY <3>2, <3>3 DEF Upto, GroupAssumption
      <3>5. ALO!CommitUpTo(PartitionOf(h), OffsetOf(h) + 1)
        BY <2>2, <3>1, <3>4 DEF ALO!CommitUpTo
      <3> QED
        BY <3>3, <3>5 DEF ALO!AloNext
    <2>3. ASSUME NEW m \in Messages, Settled' = Settled \union {m},
                 committed' = committed
          PROVE  ALO!AloNext
      BY <2>3 DEF ALO!AloNext, ALO!Settle, ALO!AloMessages, Messages
    <2>4. CASE Next
      <3>1. PICK w \in Workers : Step(w)
        BY <2>4 DEF Next
      <3> QED
        BY <1>2, <3>1, <2>2, <2>3, SettledGrowsByOne DEF IInv, ALO!aloVars
    <2> QED
      BY <1>2, <2>1, <2>4
  <1> QED
    BY <1>1, <1>2, InvariantHolds, PTL
       DEF Spec, ImplementsAtLeastOnce, ALO!AloSafety
=============================================================================
