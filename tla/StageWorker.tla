---------------------------- MODULE StageWorker ----------------------------
(***************************************************************************)
(* The loop every stage of the pipeline runs (libs/pipeline/consumer.py),  *)
(* as the members of one consumer group run it against the broker.         *)
(*                                                                         *)
(* A worker polls, pauses what it is assigned, runs the handler on its     *)
(* thread while poll() goes on as a heartbeat, then resumes, routes a      *)
(* failure to a retry tier or to the DLQ, and commits.  All but the        *)
(* handler runs on the polling thread, so a worker's steps are sequential  *)
(* and a step is cut only where another party can act: inside poll(),      *)
(* while the handler runs, while flush() waits, around commit().           *)
(* Rebalance callbacks run inside poll() only.                             *)
(*                                                                         *)
(* The log is immutable and all of it is there from the start; poll()      *)
(* returns a message of it or nothing.  Wall-clock time is left out: the   *)
(* stall watchdog may fire whenever its clock runs.  The `revoked` flag is *)
(* left out too: no handler reads it.                                      *)
(***************************************************************************)
EXTENDS RetryPolicy, FiniteSets

CONSTANTS
  Workers,               \* processes of the group
  Partitions,            \* the partitions of the topics it subscribes to
  LogLength,             \* messages in each partition
  Payload,               \* what parse() makes of each message
  RetryCount,            \* each message's retry_count header
  RetryablePartitions,   \* those of topics with a retry ladder
  SubscribesToFailed,    \* does the group read pipeline.failed itself?
  DeliveryMayFail,       \* may flush() return with a message not delivered?
  MaxFaults,             \* bound on crashes, evictions, revocations, ...
  NoWorker               \* the owner of an unassigned partition

Messages == Partitions \X (0 .. LogLength - 1)

ASSUME GroupAssumption ==
  /\ LogLength \in Nat
  /\ MaxFaults \in Nat
  /\ NoWorker \notin Workers
  /\ Payload \in [Messages -> {"valid", "unknown", "invalid"}]
  /\ RetryCount \in [Messages -> Nat]
  /\ RetryablePartitions \subseteq Partitions
  /\ SubscribesToFailed \in BOOLEAN
  /\ DeliveryMayFail \in BOOLEAN

VARIABLES
  \* the broker
  committed,    \* the group's committed offset, per partition
  owner,        \* the member each partition is assigned to
  member,       \* the workers the coordinator counts as members
  parked,       \* copies on retry-tier and DLQ topics
  dropped,      \* messages whose copy a producer gave up on
  announced,    \* messages a pipeline.failed was published for
  \* each worker
  pc,           \* where its polling thread is
  view,         \* assignment(): what it believes it is assigned
  position,     \* the next offset poll() returns, per partition
  paused,       \* the partitions it has paused
  queue,        \* the message being processed, if any, then _pending
  routed,       \* the leg the failed message went to
  clock,        \* _unassigned_since is not None
  outbox,       \* copies queued in the producer, not yet delivered
  \* history
  handled,      \* messages a handler succeeded on
  faults        \* how much of MaxFaults is used up

brokerVars == <<committed, owner, member>>
copyVars   == <<parked, dropped, announced>>
workerVars == <<pc, view, position, paused, queue, routed, clock, outbox>>
vars       == <<brokerVars, copyVars, workerVars, handled, faults>>

PartitionOf(m) == m[1]
OffsetOf(m)    == m[2]

Copies == [msg : Messages, leg : FailureLegs]

TypeOK ==
  /\ committed \in [Partitions -> 0 .. LogLength]
  /\ owner \in [Partitions -> Workers \union {NoWorker}]
  /\ member \in [Workers -> BOOLEAN]
  /\ parked \subseteq Copies
  /\ dropped \subseteq Messages
  /\ announced \subseteq Messages
  /\ pc \in [Workers -> {"down", "poll", "handling", "flushing", "committing"}]
  /\ view \in [Workers -> SUBSET Partitions]
  /\ position \in [Workers -> [Partitions -> 0 .. LogLength]]
  /\ paused \in [Workers -> SUBSET Partitions]
  /\ queue \in [Workers -> Seq(Messages)]
  /\ routed \in [Workers -> FailureLegs \union {SourceLeg}]
  /\ clock \in [Workers -> BOOLEAN]
  /\ outbox \in [Workers -> SUBSET Copies]
  /\ handled \subseteq Messages
  /\ faults \in 0 .. MaxFaults

Init ==
  /\ committed = [p \in Partitions |-> 0]
  /\ owner = [p \in Partitions |-> NoWorker]
  /\ member = [w \in Workers |-> TRUE]
  /\ parked = {}
  /\ dropped = {}
  /\ announced = {}
  /\ pc = [w \in Workers |-> "poll"]
  /\ view = [w \in Workers |-> {}]
  /\ position = [w \in Workers |-> [p \in Partitions |-> 0]]
  /\ paused = [w \in Workers |-> {}]
  /\ queue = [w \in Workers |-> <<>>]
  /\ routed = [w \in Workers |-> SourceLeg]
  /\ clock = [w \in Workers |-> FALSE]
  /\ outbox = [w \in Workers |-> {}]
  /\ handled = {}
  /\ faults = 0

Fault == faults < MaxFaults /\ faults' = faults + 1

-----------------------------------------------------------------------------
(* Rebalances.  A callback runs inside poll(): in _next_message, which polls *)
(* only when nothing is pending, or in the heartbeat of a running handler.   *)

InPoll(w) ==
  \/ pc[w] = "poll" /\ queue[w] = <<>>
  \/ pc[w] = "handling"

(* Mutant of OnAssign: a partition is picked up where this consumer's fetch  *)
(* position was.                                                             *)
AssignAtOldPosition(w, p) ==
  /\ InPoll(w) /\ member[w]
  /\ owner[p] = NoWorker
  /\ owner' = [owner EXCEPT ![p] = w]
  /\ view' = [view EXCEPT ![w] = @ \union {p}]
  /\ paused' = [paused EXCEPT ![w] = @ \ {p}]
  /\ clock' = [clock EXCEPT ![w] = FALSE]
  /\ UNCHANGED <<committed, member, copyVars, pc, position, queue, routed,
                 outbox, handled, faults>>

(* A new assignment starts at the committed offset, and not paused: the      *)
(* handler that may be running paused the assignment it started with.        *)
OnAssign(w, p) ==
  /\ InPoll(w) /\ member[w]
  /\ owner[p] = NoWorker
  /\ owner' = [owner EXCEPT ![p] = w]
  /\ view' = [view EXCEPT ![w] = @ \union {p}]
  /\ position' = [position EXCEPT ![w][p] = committed[p]]
  /\ paused' = [paused EXCEPT ![w] = @ \ {p}]
  /\ clock' = [clock EXCEPT ![w] = FALSE]
  /\ UNCHANGED <<committed, member, copyVars, pc, queue, routed, outbox,
                 handled, faults>>

(* A rebalance that gives this member nothing new still calls on_assign. *)
OnAssignNothing(w) ==
  /\ InPoll(w) /\ member[w] /\ clock[w]
  /\ clock' = [clock EXCEPT ![w] = FALSE]
  /\ UNCHANGED <<brokerVars, copyVars, pc, view, position, paused, queue,
                 routed, outbox, handled, faults>>

(* The cooperative protocol takes one partition back and leaves the rest.    *)
(* _pending keeps what was already fetched from it.                          *)
OnRevoke(w, p) ==
  /\ InPoll(w) /\ member[w] /\ Fault
  /\ p \in view[w]
  /\ owner' = [owner EXCEPT ![p] = NoWorker]
  /\ view' = [view EXCEPT ![w] = @ \ {p}]
  /\ paused' = [paused EXCEPT ![w] = @ \ {p}]
  /\ clock' = [clock EXCEPT ![w] = TRUE]
  /\ UNCHANGED <<committed, member, copyVars, pc, position, queue, routed,
                 outbox, handled>>

(* The coordinator gives up on a member; the worker does not know yet. *)
Evict(w) ==
  /\ member[w] /\ Fault
  /\ member' = [member EXCEPT ![w] = FALSE]
  /\ owner' = [p \in Partitions |-> IF owner[p] = w THEN NoWorker ELSE owner[p]]
  /\ UNCHANGED <<committed, copyVars, workerVars, handled>>

(* The evicted worker finds out, inside its next poll(), and joins again. *)
OnLost(w) ==
  /\ InPoll(w) /\ ~member[w]
  /\ member' = [member EXCEPT ![w] = TRUE]
  /\ view' = [view EXCEPT ![w] = {}]
  /\ paused' = [paused EXCEPT ![w] = {}]
  /\ clock' = [clock EXCEPT ![w] = TRUE]
  /\ UNCHANGED <<committed, owner, copyVars, pc, position, queue, routed,
                 outbox, handled, faults>>

-----------------------------------------------------------------------------
(* The loop.  The polled or pending message is processed at once: whatever   *)
(* is assigned at that moment is paused for as long as the handler runs.     *)

Fetchable(w) ==
  {p \in view[w] \ paused[w] : position[w][p] < LogLength}

Next1(w, p) == <<p, position[w][p]>>

Fetch(w, p) ==
  /\ queue' = [queue EXCEPT ![w] = Append(@, Next1(w, p))]
  /\ position' = [position EXCEPT ![w][p] = @ + 1]

StartHandler(w) ==
  /\ pc' = [pc EXCEPT ![w] = "handling"]
  /\ paused' = [paused EXCEPT ![w] = view[w]]
  /\ UNCHANGED <<brokerVars, copyVars, view, routed, clock, outbox, handled,
                 faults>>

ProcessPolled(w) ==
  /\ pc[w] = "poll" /\ queue[w] = <<>>
  /\ \E p \in Fetchable(w) : Fetch(w, p)
  /\ StartHandler(w)

ProcessPending(w) ==
  /\ pc[w] = "poll" /\ queue[w] # <<>>
  /\ StartHandler(w)
  /\ UNCHANGED <<queue, position>>

(* Mutant of Heartbeat: what the heartbeat delivers is dropped. *)
HeartbeatDrops(w) ==
  /\ pc[w] = "handling"
  /\ \E p \in Fetchable(w) : position' = [position EXCEPT ![w][p] = @ + 1]
  /\ UNCHANGED <<brokerVars, copyVars, pc, view, paused, queue, routed, clock,
                 outbox, handled, faults>>

(* The heartbeat delivers from a partition assigned since the handler began. *)
Heartbeat(w) ==
  /\ pc[w] = "handling"
  /\ \E p \in Fetchable(w) : Fetch(w, p)
  /\ UNCHANGED <<brokerVars, copyVars, pc, view, paused, routed, clock, outbox,
                 handled, faults>>

(* Mutant of Resume: the partitions stay paused. *)
NeverResumes(w) == UNCHANGED paused

Resume(w) == paused' = [paused EXCEPT ![w] = {}]

HandlerSucceeds(w) ==
  /\ pc[w] = "handling"
  /\ Payload[Head(queue[w])] = "valid"
  /\ handled' = handled \union {Head(queue[w])}
  /\ Resume(w)
  /\ pc' = [pc EXCEPT ![w] = "committing"]
  /\ UNCHANGED <<brokerVars, copyVars, view, position, queue, routed, clock,
                 outbox, faults>>

(* parse() raises before the handler is called. *)
Raises(m) ==
  CASE Payload[m] = "unknown" -> {"UnknownEventType"}
    [] Payload[m] = "invalid" -> {"ValidationError"}
    [] OTHER                  -> {"TerminalError", "TransientError", "Other"}

Destination(m, exc) ==
  Route(exc, RetryCount[m], PartitionOf(m) \in RetryablePartitions)

(* The copy is queued in the producer; flush() starts waiting. *)
HandlerFails(w) ==
  /\ pc[w] = "handling"
  /\ LET m == Head(queue[w]) IN
     \E exc \in Raises(m) :
       /\ Destination(m, exc) # Nowhere
       /\ outbox' = [outbox EXCEPT
                       ![w] = @ \union {[msg |-> m, leg |-> Destination(m, exc)]}]
       /\ routed' = [routed EXCEPT ![w] = Destination(m, exc)]
  /\ Resume(w)
  /\ pc' = [pc EXCEPT ![w] = "flushing"]
  /\ UNCHANGED <<brokerVars, copyVars, view, position, queue, clock, handled,
                 faults>>

(* A pipeline.failed for a dead-lettered message: not from a group that      *)
(* reads that topic itself, and not for a payload that does not parse.       *)
Announces(m, leg) ==
  leg = DlqLeg /\ ~SubscribesToFailed /\ Payload[m] = "valid"

(* Mutants of FlushReturns: the flush is forgotten; nothing is announced.    *)
FlushForgotten(w) ==
  /\ pc[w] = "flushing"
  /\ IF Announces(Head(queue[w]), routed[w])
       THEN announced' = announced \union {Head(queue[w])}
       ELSE UNCHANGED announced
  /\ routed' = [routed EXCEPT ![w] = SourceLeg]
  /\ pc' = [pc EXCEPT ![w] = "committing"]
  /\ UNCHANGED <<brokerVars, parked, dropped, view, position, paused, queue,
                 clock, outbox, handled, faults>>

NothingAnnounced(w) ==
  /\ pc[w] = "flushing" /\ outbox[w] = {}
  /\ routed' = [routed EXCEPT ![w] = SourceLeg]
  /\ pc' = [pc EXCEPT ![w] = "committing"]
  /\ UNCHANGED <<brokerVars, copyVars, view, position, paused, queue, clock,
                 outbox, handled, faults>>

(* flush() gives no sign of what it left behind, or the caller looks at none. *)
FlushReturns(w) ==
  /\ pc[w] = "flushing"
  /\ outbox[w] = {} \/ DeliveryMayFail
  /\ IF Announces(Head(queue[w]), routed[w])
       THEN \/ announced' = announced \union {Head(queue[w])}
            \/ DeliveryMayFail /\ UNCHANGED announced
       ELSE UNCHANGED announced
  /\ routed' = [routed EXCEPT ![w] = SourceLeg]
  /\ pc' = [pc EXCEPT ![w] = "committing"]
  /\ UNCHANGED <<brokerVars, parked, dropped, view, position, paused, queue,
                 clock, outbox, handled, faults>>

NextMessage(w) ==
  /\ queue' = [queue EXCEPT ![w] = Tail(@)]
  /\ pc' = [pc EXCEPT ![w] = "poll"]

(* Mutant of Commit: one message too far. *)
CommitTooFar(w) ==
  /\ pc[w] = "committing" /\ member[w]
  /\ LET m == Head(queue[w]) IN
     committed' = [committed EXCEPT ![PartitionOf(m)] = OffsetOf(m) + 2]
  /\ NextMessage(w)
  /\ UNCHANGED <<owner, member, copyVars, view, position, paused, routed, clock,
                 outbox, handled, faults>>

(* The broker checks that the committer is a member, not that it owns the    *)
(* partition: a stashed message of a revoked partition commits as well.      *)
Commit(w) ==
  /\ pc[w] = "committing" /\ member[w]
  /\ LET m == Head(queue[w]) IN
     committed' = [committed EXCEPT ![PartitionOf(m)] = OffsetOf(m) + 1]
  /\ NextMessage(w)
  /\ UNCHANGED <<owner, member, copyVars, view, position, paused, routed, clock,
                 outbox, handled, faults>>

(* The failure is logged and the loop goes on with the next message. *)
CommitFails(w) ==
  /\ pc[w] = "committing"
  /\ IF member[w] THEN Fault ELSE UNCHANGED faults
  /\ NextMessage(w)
  /\ UNCHANGED <<brokerVars, copyVars, view, position, paused, routed, clock,
                 outbox, handled>>

-----------------------------------------------------------------------------
(* The producer's background delivery. *)

Deliver(w) ==
  \E c \in outbox[w] :
    /\ parked' = parked \union {c}
    /\ outbox' = [outbox EXCEPT ![w] = @ \ {c}]
    /\ UNCHANGED <<brokerVars, dropped, announced, pc, view, position, paused,
                   queue, routed, clock, handled, faults>>

(* The delivery report says error; nobody asked for it. *)
DeliveryFails(w) ==
  /\ DeliveryMayFail
  /\ \E c \in outbox[w] :
       /\ dropped' = dropped \union {c.msg}
       /\ outbox' = [outbox EXCEPT ![w] = @ \ {c}]
  /\ UNCHANGED <<brokerVars, parked, announced, pc, view, position, paused,
                 queue, routed, clock, handled, faults>>

-----------------------------------------------------------------------------
(* The end of a process, and its restart (restart: unless-stopped).  All it  *)
(* held in memory is gone, and the coordinator hands its partitions on.      *)

Dies(w) ==
  /\ pc' = [pc EXCEPT ![w] = "down"]
  /\ member' = [member EXCEPT ![w] = FALSE]
  /\ owner' = [p \in Partitions |-> IF owner[p] = w THEN NoWorker ELSE owner[p]]
  /\ view' = [view EXCEPT ![w] = {}]
  /\ paused' = [paused EXCEPT ![w] = {}]
  /\ queue' = [queue EXCEPT ![w] = <<>>]
  /\ routed' = [routed EXCEPT ![w] = SourceLeg]
  /\ clock' = [clock EXCEPT ![w] = FALSE]
  /\ outbox' = [outbox EXCEPT ![w] = {}]
  /\ dropped' = dropped \union {c.msg : c \in outbox[w]}
  /\ UNCHANGED <<committed, parked, announced, position, handled>>

Crash(w) == pc[w] # "down" /\ Fault /\ Dies(w)

(* Mutant of CrashUnroutable, the first version of ADR-0005's follow-on: the *)
(* message is left uncommitted and the loop goes on.                         *)
SkipUnroutable(w) ==
  /\ pc[w] = "handling"
  /\ \E exc \in Raises(Head(queue[w])) :
       Destination(Head(queue[w]), exc) = Nowhere
  /\ Resume(w)
  /\ NextMessage(w)
  /\ UNCHANGED <<brokerVars, copyVars, view, position, routed, clock, outbox,
                 handled, faults>>

(* A transient failure with no ladder to go to: _route_failure raises. *)
CrashUnroutable(w) ==
  /\ pc[w] = "handling"
  /\ \E exc \in Raises(Head(queue[w])) :
       Destination(Head(queue[w]), exc) = Nowhere
  /\ Dies(w)
  /\ UNCHANGED faults

(* _check_not_stalled, at the top of the loop. *)
CrashStalled(w) ==
  /\ pc[w] = "poll" /\ clock[w]
  /\ Dies(w)
  /\ UNCHANGED faults

(* SIGTERM: the loop ends at its top, then flush() and close(). *)
Shutdown(w) ==
  /\ pc[w] = "poll" /\ Fault
  /\ outbox[w] = {} \/ DeliveryMayFail
  /\ Dies(w)

Restart(w) ==
  /\ pc[w] = "down"
  /\ pc' = [pc EXCEPT ![w] = "poll"]
  /\ member' = [member EXCEPT ![w] = TRUE]
  /\ UNCHANGED <<committed, owner, copyVars, view, position, paused, queue,
                 routed, clock, outbox, handled, faults>>

-----------------------------------------------------------------------------
Step(w) ==
  \/ \E p \in Partitions : OnAssign(w, p)
  \/ OnAssignNothing(w)
  \/ \E p \in Partitions : OnRevoke(w, p)
  \/ Evict(w)
  \/ OnLost(w)
  \/ ProcessPolled(w)
  \/ ProcessPending(w)
  \/ Heartbeat(w)
  \/ HandlerSucceeds(w)
  \/ HandlerFails(w)
  \/ FlushReturns(w)
  \/ Commit(w)
  \/ CommitFails(w)
  \/ Deliver(w)
  \/ DeliveryFails(w)
  \/ Crash(w)
  \/ CrashUnroutable(w)
  \/ CrashStalled(w)
  \/ Shutdown(w)
  \/ Restart(w)

Next == \E w \in Workers : Step(w)

Spec == Init /\ [][Next]_vars

(* Fairness: brokers and coordinators keep serving, Docker restarts what     *)
(* stopped, the loop never sits still, and a handler returns.  Nothing is    *)
(* promised of a fault or of a rebalance.                                    *)
HandlerReturns(w) ==
  HandlerSucceeds(w) \/ HandlerFails(w) \/ CrashUnroutable(w)

WorkerFairness(w) ==
  /\ \A p \in Partitions : SF_vars(OnAssign(w, p))
  /\ WF_vars(OnLost(w))
  /\ WF_vars(ProcessPolled(w) \/ ProcessPending(w))
  /\ WF_vars(HandlerReturns(w))
  /\ WF_vars(Deliver(w))
  /\ WF_vars(FlushReturns(w))
  /\ WF_vars(Commit(w) \/ CommitFails(w))
  /\ WF_vars(Restart(w))

(* A transient error does not last: a handler that runs again and again in   *)
(* the end succeeds.                                                         *)
TransientErrorsPass == \A w \in Workers : SF_vars(HandlerSucceeds(w))

FairSpec ==
  Spec /\ (\A w \in Workers : WorkerFairness(w)) /\ TransientErrorsPass

-----------------------------------------------------------------------------
Parked  == {c.msg : c \in parked}
Queued  == {c.msg : c \in UNION {outbox[w] : w \in Workers}}
Settled == handled \union Parked

(* The messages of p below offset o. *)
Upto(p, o) == {<<p, i>> : i \in 0 .. o - 1}

Committed == UNION {Upto(p, committed[p]) : p \in Partitions}

(* The committed offset never covers a message that was neither handled nor  *)
(* parked on a retry tier or the DLQ: whatever crashes, evictions, stashed   *)
(* messages of revoked partitions and commits of members that own nothing    *)
(* any more do to it (_process, _route_failure, _commit).                    *)
NoLoss == Committed \subseteq Settled

(* When deliveries can fail, the one way to lose a message is the retry or   *)
(* DLQ copy that flush() left behind (producer.py: flush, publish_raw).      *)
OnlyDeliveryLoses == Committed \subseteq Settled \union dropped \union Queued

(* What is announced as failed is on the DLQ, and a group that moves past a  *)
(* parsable message it could only dead-letter has announced it               *)
(* (_emit_pipeline_failed), unless it reads pipeline.failed itself.          *)
DeadLettersAnnounced ==
  /\ \A m \in announced : [msg |-> m, leg |-> DlqLeg] \in parked
  /\ \A m \in Committed \ handled :
       (\A c \in parked : c.msg = m => Announces(m, c.leg)) => m \in announced

(* The messages w holds ahead of the i-th of its queue, and all it holds. *)
Ahead(w, i) == {queue[w][j] : j \in 1 .. i - 1}
InHand(w)   == {queue[w][j] : j \in DOMAIN queue[w]}

(* What may be committed over. *)
Accounted ==
  Settled \union (IF DeliveryMayFail THEN dropped \union Queued ELSE {})

QueueCovered ==
  \A w \in Workers : \A i \in DOMAIN queue[w] :
    Upto(PartitionOf(queue[w][i]), OffsetOf(queue[w][i]))
      \subseteq Accounted \union Ahead(w, i)

PositionCovered ==
  \A w \in Workers : \A p \in view[w] :
    Upto(p, position[w][p]) \subseteq Accounted \union InHand(w)

(* No message is skipped: what comes before a message in a worker's hands,   *)
(* or before its fetch position, is accounted for or is ahead of it in the   *)
(* same hands ("stashed rather than dropped", consumer.py:301).              *)
NothingSkipped == QueueCovered /\ PositionCovered

ALO == INSTANCE AtLeastOnce WITH settled <- Settled

(* The group implements the abstract at-least-once consumer: offsets only    *)
(* move over messages that were settled before the commit.                   *)
ImplementsAtLeastOnce == ALO!AloSafety

(* Every message is handled or parked in the end, or is a copy the producer  *)
(* could not deliver.                                                        *)
EveryMessageSettles ==
  \A m \in Messages : <>(m \in Settled \union dropped)
=============================================================================
