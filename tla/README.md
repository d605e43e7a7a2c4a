# Verification of the video pipeline

TLA+ specifications of the upload-to-playback pipeline in this repository, the
TLC runs that check them on small instances, and proofs, checked by TLAPS, of
their safety for instances of any size: the consumer loop under every stage
loses no message, what a stage announces is there, the join of the packager
strands nobody, the log of events grows at its end, streams have no gaps, an
upload is published once and kept. Paths below are relative to the repository;
`L/` stands for `src/backend/libs/pipeline/` and `S/` for
`src/backend/services/`.

Run inside this directory: `tlasany M.tla` parses a module,
`tlc -workers 2 -config R.cfg M` makes the run R of module M, and
`tlapm P.tla` checks the proofs of a module P whose name ends in `Proofs`.
`PROJECT.json` lists the components, runs, mutants, hazards and theorems, and
maps every definition to the lines it models.

## 1. The system

A browser asks the API for a presigned URL, PUTs a file into the object store
and calls `/complete`. From there the video is a choreography of Kafka
messages, all keyed by `video_id`:

    api ── video.uploaded ──> probe ──┬─ video.probed ──────┬──> thumbnail
                                      │                     └──> package
                                      └─ rendition.requested ──> transcode ── rendition.completed ──> package
    package ── video.completed ──> notify
    every stage ── video.status ──> projector ──> Postgres <── api (REST, SSE) <── page
    dead letters ── pipeline.failed ──> projector, notify
    failures ── <topic>.retry.<tier> ──> retry pump ── <topic>

### Components

| component | state it keeps | operations | hard behaviour | what makes it correct |
|---|---|---|---|---|
| consumer loop (`L/consumer.py`, `runner.py`) | assignment, fetch position, paused partitions, `_pending`, stall clock; committed offset at the broker | poll, pause, heartbeat, handle, route a failure, flush, commit, rebalance callbacks, stop | a handler on a thread beside the polling thread; cooperative rebalances in the middle of it; eviction noticed late; crash anywhere; commits of partitions it has lost | an offset covers only messages that were handled or parked; nothing is skipped; every message settles; dead letters are announced |
| retry policy, topic names (`L/retry.py`, `topics.py`) | none | classify, route | the end of the ladder, topics without one | each failure has one destination |
| producer (`L/producer.py`) | queue of undelivered messages | produce, flush, send and wait | background delivery, failed delivery, a flush that gives up | a copy is safe before the offset it stands for is committed |
| retry pump (`S/worker_retry_pump`) | the copy it sleeps over | wait until due, forward as is | one sleep for all tiers of all topics; crash before commit repeats a forward; due times count from the event's creation; a forward goes to every group of the source topic | no copy waits for longer than its own delay asks; the ladder outlasts what a retry has to wait for |
| probe (`S/worker_probe`) | none; objects in the store | one handler | repeated and retried messages | idempotent, published again on redelivery |
| thumbnail (`S/worker_thumbnail`) | poster, sprite, cues and three scratch objects | look up, make, promote, announce | no claim: attempts share scratch keys; copies that the packager failed | announced means there; announced in the end |
| transcode (`S/worker_transcode`, `RenditionRepository`) | `renditions.claimed_at`; MP4, segments, playlist and two scratch objects | look up, claim, encode, promote, cut, promote, announce | two attempts at once; a claim that is never released; resume between MP4 and playlist | announced means there; one encoder at a time; a retry succeeds before the ladder ends |
| packager (`S/worker_package`, `PackagerRepository`) | expected set, playlists, `packaging_claimed_at`; master playlist and its scratch | record, check the join, claim, promote, release, announce | two facts completing the join at once; a denied claim counted as a success; kill while claimed | the join strands nobody; the master is of the whole ladder |
| projector, read model (`S/projector`, `ProjectorRepository`, `models.py`) | `videos`, `renditions`, `events` | one transaction per event | two partitions of one video; redelivery; an evicted writer; ids drawn from a sequence | ids appear in order, each event once; rows end as the events say |
| API (`S/api/main.py`, `VideoRepository`) | `videos` row, the quota, `sse_active` | create, complete, list, cancel, expire; admit an event stream | overlapping requests; commit, then publish; window closing; an object that changes under a request; clients that leave a stream anywhere | one publication per video, its row and its object stay; dead uploads leave; stream slots come back |
| SSE gateway (`S/api/sse.py`, `L/broadcast.py`) | watermark, wake-up flag | snapshot, pass, wait, end | reads in separate statements; wake-ups ahead of the database; lost frames | no gap in what a client is told; every event arrives; the end is told |
| detail page (`src/frontend/.../useVideoEvents.ts`, `VideoDetailPage.tsx`) | query cache, EventSource, probe | frame handlers, reconnect, auth probe, GET | GET against stream; the end of a stream is an error | a finished page shows an end, and comes to rest |
| object store (`L/storage.py`) | objects | head, upload, promote, delete, presign | `promote` is a copy and a delete of a shared scratch key | (with its callers) |
| media algorithms (`L/ladder.py`, `media.py`, `thumbnail.py`, `transcode.py`, `hls.py`) | none | ladder, sprite, cues, bitrates, master playlist | thresholds, rounding, ordering | ladder fits the picture; cues tile the clip; order by bandwidth |
| DLQ replay (`src/infra/replay.py`) | none | republish a dead letter | replay through finished stages | idempotent stages |
| notify (`S/worker_notify`) | none | POST an outcome | a receiver that fails, refuses, or answers too late; one of its two topics has no ladder | every outcome is told or on the DLQ; an outage shorter than the ladder costs nothing |
| health, obs, settings, auth, migrations, scripts | – | – | – | not modelled, see section 7 |

### How the parts interact

Kafka is the only way from stage to stage, at least once and in any order
across topics. Postgres is written by the API (`videos` rows and their upload
states), by the projector (everything the reader sees), by transcode and the
packager (their claims and join facts, separate columns). The object store is
shared by attempts of one stage through scratch keys. The API reads Postgres
for SSE and is woken by Kafka directly, with no ordering between the two.

## 2. Modules

| module | code | its state and actions |
|---|---|---|
| `RetryPolicy` | `L/retry.py`, `L/topics.py` | operators: `Classify`, `Route`, legs of a topic |
| `StageWorker` | `L/consumer.py`, `producer.py` | members of one group and the broker; one action per callback, poll outcome, handler outcome, flush, commit, delivery report and way to die |
| `AtLeastOnce` | ADR-0005's promise | abstract: settle a message; move an offset over settled ones |
| `RetryPump` | `S/worker_retry_pump`, the ladder's topics | the clock; copies on source topics, tiers and DLQs; the one copy the pump sleeps over. The three stages below extend it with their handlers |
| `Transcode` | `S/worker_transcode`, `RenditionRepository.claim` | one rendition; a step per store and database call |
| `Thumbnail` | `S/worker_thumbnail` | one video; a step per look-up, upload, copy and delete of each piece; the packager group as the other reader of its topic |
| `Notify` | `S/worker_notify` | the POST and its outcomes; the receiver is its environment |
| `Retries` | the three stages above | on one ladder, one pump and one clock |
| `Packager`, `FanIn` | `S/worker_package`, `PackagerRepository`, `storage.promote` | one video; a step per call; `FanIn` is ADR-0013's join in the abstract |
| `StatusEvents`, `ReadModel` | `L/events.py`, tables of `models.py` | what events carry; abstract: rows that say what an event said and a log that grows at its end |
| `Projector` | `S/projector`, `ProjectorRepository` | a step per SQL statement, with row lock and sequence; implements `ReadModel` |
| `SseStream` | `S/api/sse.py`, `L/broadcast.py` | one stream over `ReadModel`; a step per query and per frame |
| `VideoPage` | `useVideoEvents.ts`, `VideoDetailPage.tsx` | extends `SseStream` with a client: the page, or one that resumes with `Last-Event-ID` |
| `UploadApi` | `S/api/main.py`, `VideoRepository`, `session_scope` | overlapping requests; a step per await; uncommitted writes lock rows |
| `EventStreams` | `video_events`, `counted_stream` | streams from the admission to their `finally`, wherever the client leaves |
| `Pipeline` | the choreography, `S/*`, `L/topics.json` | one video through all stages; a handler is a step, except the packager's, which is three (record and decide, claim, promote) and can be killed or fail between them; its publications arrive one by one; the read model at the end |
| `MediaPlan` | media algorithms | pure operators driven by a three-step machine: probe, cues, master playlist |
| `MC*` | | instances: payloads, logs, ladders, files, symmetry |
| `*Proofs` | | the theorems about the module they are named after (`MediaPlanProofs`, `PackagerProofs`, `PipelineProofs`, `ProjectorProofs`, `RetriesProofs`, `StageWorkerProofs`, `VideoPageProofs`; `ApiProofs` is about `UploadApi` and `EventStreams`), see section 4 |

`RetryPolicy` is extended by `StageWorker` and `RetryPump`. `Retries` puts the
three stages on one ladder and one pump, and starts with the messages of one of
them: the stages share nothing but the pump, whose sleeps over any number of
copies are explored with the three outcomes that notify has to tell. `MCApi`
likewise follows upload requests or event streams. `ReadModel` is the
hinge between the writing side (`Projector` implements it) and the reading side
(`SseStream` and `VideoPage` are built on it). `Pipeline` treats as one step
what `Transcode`, `Thumbnail` and `StageWorker` look into, and as three what
`Packager` does.

Names follow the code where they can. Operators whose comment begins with
"Mutant of" are not part of any specification: each is the named definition
with a plausible bug, kept to show that a property can tell the difference.

### What a step is

A step ends where another party can act: at every await of the API, every
database statement and store call of a stage, every poll, flush and commit of
the loop. Rebalance callbacks run only inside `poll()`, so `StageWorker`'s
`InPoll` guards them. A message of a worker that died or was evicted is
delivered again with the retry count it had.

### Abstractions

- `StageWorker`: the log is complete from the start and `poll()` may return
  nothing; time is left out, so the stall watchdog may fire whenever its clock
  runs. A handler's outcome is any of the exceptions of `RetryPolicy`.
- `RetryPump`: time is a counter in units of the smallest tier's order. Topics
  are sets: equal copies are merged and copies are taken in any order.
- `Transcode`: An attempt lasts at
  most `MaxWork`, no longer than `StaleAfter`, which is what the comment at
  `repository.py:187-198` assumes of an encode.
- `Thumbnail`: no time passes while a member works or a message waits, until an
  eviction lets a second member have the message too; then the two are
  interleaved with the clock and the pump. Nothing in the stage depends on when
  it runs. What the packager does with its own copies is `Packager`'s matter.
- `Notify`: a POST takes no time (the timeout is as long as the shortest tier).
  The receiver may act on a POST that it is too late to answer.
- `Packager`: a claim's age is *live* or *stale*; it becomes stale at any time,
  `MaxStale` times. There are three ways to leave a claim behind, counted
  together by `MaxKills`: a kill, a release that fails (`ReleaseFails`), and a
  claim that is committed while its answer is lost (`ClaimAnswerLost`), for the
  call is outside the `try` block (`main.py:110-111`). `Redeliver` is a commit
  that failed or a replay, of an acknowledged message or of a dead letter.
- `Projector`: what a transaction writes becomes visible at its commit; the row
  lock is held from the update to the commit or crash.
- `SseStream`: a wake-up may come at any time or never. That is what an
  unsynchronised consumer can do.
- `UploadApi`: `uploaded` stands for `probed` and `transcoding`, which the API
  treats alike; `over` for `completed` and `failed`. The expiry of several rows
  is one step, as it is one statement. The browser may PUT whenever its URL is
  good; not for rows nobody publishes any more, and not again after a PUT that
  came too late to be measured, which no property is about.
- `Pipeline`: at most `MaxLag` status events wait for the projector. A handler
  is atomic but for the packager's: what it records and decides, the claim and
  the promotion are steps of their own, for the claim outlives a handler that is
  killed. (A handler of another stage that dies half-way is one that has not
  begun: what it left in the store is looked up or overwritten, which
  `Transcode` and `Thumbnail` look into.) A claim may be stale whenever somebody
  meets it. Of the status the row keeps whether it is `completed`.
- `MediaPlan`: durations are whole milliseconds and cue times are exact
  fractions of them (`ticks`), rounded with ties up.
- Every module is about one video (two in `UploadApi`) and one owner.

## 3. Runs

| run | module | what it asks | bounds and why they are enough |
|---|---|---|---|
| `worker_safety` | `MCStageWorker` | `NoLoss`, `NothingSkipped`, `DeadLettersAnnounced`, and that the group implements `AtLeastOnce` | two workers, two partitions (one with a retry ladder, one without), two messages in each: valid, malformed, unknown, and one that has used up its ladder; one fault of any kind (crash, eviction, revocation, failed commit: they share the budget) besides the faults the loop brings on itself (unroutable failure, stall). A stashed message, its partition's new owner and a commit by somebody who owns nothing need two of each |
| `worker_delivery` | `MCStageWorker` | with a producer that may lose copies: `OnlyDeliveryLoses`; with fairness, `EveryMessageSettles` | one partition, two workers, one fault of any kind, as above |
| `packager_join` | `Packager` | `CopyFindsItsUpload`, that the stage implements `FanIn`, `AnnouncedInTheEnd` | two packagers, a ladder of two renditions (three facts), one retry tier, and one each of failing call, redelivery (or replay, or eviction), claim left behind, claim going stale, plus a legacy event without a playlist |
| `packager_kill` | `Packager` | *violated*: `KillRecovered` | the same, one kill, no other fault |
| `projector_log` | `MCProjector` | `OffsetsAreProjected`, `RowReflectsLogs`, `IdsAppearInOrder`, that the group implements `ReadModel` | two projectors, five messages on two topics (rendition, thumbnails, completion; a failure, and one of an unknown video), two crashes and two evictions: an evicted worker and its successor may both be interrupted |
| `video_page` | `MCVideoPage` | `DeltasHaveNoGap`, `EndIsCovered`, `FinishedPageShowsTheEnd`, `EveryDeltaArrives`, `PageComesToRest` | a page or a resuming client, three events of which two are ends, one fault (lost connection, failed probe, second delivery, expired token) |
| `sse_snapshot` | `MCVideoPage` | *violated*: `NothingLost` | the same without faults |
| `retry_stages` | `MCRetries` | of transcode: `AnnouncedIsThere`, `OneEncoderAtATime`, `LadderOutlastsTheClaim`, `AnnouncedInTheEnd`; of thumbnail: `ThumbnailsAreThere`, `ThumbnailsInTheEnd`; of notify: `OutageOutlasted`, `EveryOutcomeTold`; of the pump: `LadderEmptiesInTime` | two workers in each group, three outcomes to tell (two completions of one video at different times, and a failure, whose topic has no ladder), two faults. The ladder of 10 s, 1 min and 10 min is scaled to 1, 2, 4 and the five-minute claim to 2, which outlasts the second tier and not the third, as in the code. The clock ends at 5, after the last tier of the last event |
| `api_requests` | `MCApi` | `PublishedRowStays`, `OnePublisher`, `PublishedUnlessAborted`, `PublishedObjectIsThere`, `DeadUploadsLeave`; of event streams: `SlotsAreHeld` | two overlapping requests on two videos, a quota of one, one request that dies, objects of an admissible size or beyond the ceiling; three streams at a limit of two, which can be overshot by one |
| `pipeline_whole` | `Pipeline` | `MasterIsWhole`, `RowIsFilledIn`, `OutcomeIsVisible` | two renditions, so that two messages can complete the join; one fault (crash, kill of the packager with or without its claim, failed handler with or without its claim released, retry, dead letter, death of the API before or after its first publication), and any number of replays of what is on the DLQ, each when the pipeline has come to rest. Who is denied a claim, finds it stale or is overtaken needs no fault |
| `pipeline_regress` | `Pipeline` | *violated*: `CompletedStays` | one rendition, no fault |
| `media_plan` | `MCMediaPlan` | `LadderSuitsTheViewer`, `CuesTileTheClip`, `MasterIsByBandwidth` | files on both sides of every threshold: rungs, minimum, rotation; one, two, ten, eleven and a hundred tiles; full minutes and over an hour; ladders with interpolated bitrates |

Every module with state declares its types in a `TypeOK` (`MediaPlan` computes,
and has none). All of them are proved; that of `StageWorker` is also checked by
`worker_safety`, the other runs have better uses for their time.

`CHECK_DEADLOCK FALSE` everywhere: each of these systems comes to rest when
its messages are dealt with or its budget of faults is used up. That they do
not rest too early is what the liveness properties and `RowIsFilledIn` say. Symmetry is used in `worker_safety` alone, which checks
no liveness property.

### Fairness

- *Groups*: somebody takes what waits and a handler's calls return (weak
  fairness). Kafka keeps a group's partitions assigned, `restart:
  unless-stopped` brings processes back, clients have timeouts.
- *`StageWorker`*: strong fairness for an assignment, because the coordinator
  tries again after each rebalance, and, in `TransientErrorsPass`, for a
  handler's success: a transient error that never passes is no transient error,
  and without a ladder there is nothing else that could end it.
- *The pump and the clock* run (weak). The pump is prompt, as its loop is: time
  does not pass while it is free and a copy waits, nor beyond the moment it
  wakes at.
- *Notify's receiver* is repaired some day (weak): an outage that never ends is
  no outage, and on `pipeline.failed` nothing else could end it.
- *`SseStream`*: the back-stop timer makes a pass happen without a wake-up
  (weak). Wake-ups have no fairness: nothing may depend on them.
- *`VideoPage`*: frames arrive, timers fire, a request is answered (weak).
- *`Pipeline`*: something of what there is to do is done (weak fairness of
  `Work`: the API, a handler, a delivery or the projector on `video.status`), and
  the projector reads `pipeline.failed`. One condition for all of `Work` is
  enough, as there is only so much to do after one upload; which group is first
  is left open.
- *`UploadApi`*: requests run on (weak); the page polls the list every few
  seconds (`UploadPage.tsx:46-49`), which gives strong fairness to `StartList`,
  a request that can be kept waiting by row locks but not for ever. Nothing
  is assumed of create, complete or cancel.
- No fairness for faults, evictions, rebalances or replays.

## 4. What is proved

Every theorem holds for all values of the constants that satisfy the named
assumptions of the modules, which TLC evaluates in the runs: any number of
workers, partitions, messages, renditions, requests, streams, and any bounds on
faults and on time. Types come first (`TypeCorrect` in each module), then:

| module | theorem | statement | beyond the modules' assumptions |
|---|---|---|---|
| `StageWorkerProofs` | `OnlyDeliveryLosesTheorem` | `Spec => []OnlyDeliveryLoses` | |
| | `NoLossTheorem` | `Spec => []NoLoss` | `~DeliveryMayFail` |
| | `NothingSkippedTheorem` | `Spec => []NothingSkipped` | |
| | `DeadLettersAnnouncedTheorem` | `Spec => []DeadLettersAnnounced` | `~DeliveryMayFail` |
| | `AtLeastOnceTheorem` | `Spec` implements `AtLeastOnce` | `~DeliveryMayFail` |
| `RetriesProofs` | `AnnouncedIsThereTheorem` | `Spec => []AnnouncedIsThere` | |
| | `OneEncoderAtATimeTheorem` | `Spec => []OneEncoderAtATime` | `MaxWork <= StaleAfter` |
| | `LadderOutlastsTheClaimTheorem` | `Spec => []LadderOutlastsTheClaim` | `Sized` |
| | `ThumbnailsAreThereTheorem` | `Spec => []ThumbnailsAreThere` | |
| | `OutageOutlastedTheorem` | `Spec => []OutageOutlasted` | |
| | `LadderEmptiesInTimeTheorem` | `Spec => LadderEmptiesInTime` | |
| | `NothingIsLostTheorem` | `Spec => []RenditionKept \/ []ThumbnailsKept \/ []OutcomesKept` | |
| `PackagerProofs` | `CopyFindsItsUploadTheorem` | `Spec => []CopyFindsItsUpload` | |
| | `ImplementsFanInTheorem` | `Spec` implements `FanIn` | |
| | `StrandedByAClaimTheorem` | `Spec => []StrandedByAClaim` | |
| `PipelineProofs` | `MasterIsWholeTheorem` | `Spec => []MasterIsWhole` | |
| | `RowIsFilledInTheorem` | `Spec => []RowIsFilledIn` | |
| `ProjectorProofs` | `OffsetsAreProjectedTheorem` | `Spec => []OffsetsAreProjected` | |
| | `RowReflectsLogsTheorem` | `Spec => []RowReflectsLogs` | |
| | `IdsAppearInOrderTheorem` | `Spec => IdsAppearInOrder` | |
| | `ImplementsReadModelTheorem` | `Spec` implements `ReadModel` | |
| `VideoPageProofs` | `DeltasHaveNoGapTheorem` | `Spec => []DeltasHaveNoGap` | |
| | `EndIsCoveredTheorem` | `Spec => []EndIsCovered` | |
| | `FinishedPageShowsTheEndTheorem` | `Spec => []FinishedPageShowsTheEnd` | |
| `ApiProofs` | `OneVideoOnePublisher` | `Spec => []OnePublisher` | |
| | `PublishedKeepsItsRow` | `Spec => []PublishedRowStays` | |
| | `UploadsAreNotLost` | `Spec => []PublishedUnlessAborted` | |
| | `PublishedIsStored` | `Spec => []PublishedObjectIsThere` | |
| | `SlotsAreHeldTheorem` | `StreamsSpec => []SlotsAreHeld` | |
| `MediaPlanProofs` | `LadderSuitsTheViewerTheorem` | `Spec => []LadderSuitsTheViewer` | |
| | `CuesTileTheClipTheorem` | `Spec => []CuesTileTheClip` | |
| | `MasterIsByBandwidthTheorem` | `Spec => []MasterIsByBandwidth` | |

The three hypotheses are what the code takes for granted: `~DeliveryMayFail`,
that every copy a worker has flushed arrives (section 5 has what happens
otherwise, and `OnlyDeliveryLosesTheorem` that it is all that happens);
`MaxWork <= StaleAfter`, that an encode does not outlast its claim
(`repository.py:187-198`); and `Sized`, which says of the numbers what
`repository.py:178-179` says in words ("5m clears the ladder's last hop"):

    MaxWork <= StaleAfter
    MaxBacklog + StaleAfter < Occurred[Requested] + TierDelays[Len(TierDelays)]

The claim of an attempt that began while the message was fresh, at most
`MaxBacklog` late, has gone stale when the last tier's delay is over. The
deployed numbers satisfy it while the topic is less than five minutes behind
(300 s of claim against 600 s of last tier), those of `retry_stages` exactly
(1 + 2 < 0 + 4). `Spec` is each module's own next-state relation
without fairness, which safety does not need; `api_requests` composes
`UploadApi` with `EventStreams`, which share no variable.

In each module an inductive invariant `IInv` is established by the initial
states, kept by every step, and strong enough for the theorems; TLC checked it
on the runs' instances before it was proved. What each adds to the properties,
and why they need it:

### The consumer loop

`NoLoss` is not inductive: whether the next commit is right depends on what
lies before the message in hand.

    IInv == TypeOK /\ QueueBusy /\ Covered

- `QueueBusy`: a worker whose thread is handling, flushing or committing has a
  message at the head of its queue.
- `Covered` is the conjunction of
  - `QueueCleared`: all that precedes a message in a worker's hands is cleared
    or is ahead of it in the same hands. Messages stashed by the heartbeat for
    partitions that are taken away again need this: their eventual commit may
    be of a partition somebody else owns by then;
  - `PositionCleared`: the same of the fetch position of an assigned partition,
    which makes the next fetch keep `QueueCleared`;
  - `HeadsReady`: the message a worker is about to commit is cleared; the copy
    of the one it is flushing is in the producer, or parked;
  - `CommitCleared`: what is committed is cleared, which makes the position of
    a new assignment keep `PositionCleared`;
  - `AnnouncedParked`: what was announced is on the DLQ.

*Cleared* is as strong as deliveries allow. If they may fail: handled, parked,
dropped or still queued in some producer. If not: handled, parked on a tier, or
on the DLQ *and announced*, where it is to be announced. Both read as
"accounted for" (`ClearedIsAccounted`), which is what the loss theorems are
about; the second gives `DeadLettersAnnounced` as well. There is one lemma per
group of actions and each conjunct.

### The retry ladder and its three stages

    IInv == LadderInv /\ TranscodeInv /\ ThumbnailInv /\ NotifyInv

Each stage's part is kept by its own steps; the stages meet on the ladder only,
and `Aside` says what transcode, thumbnail and the packager may do there:
nothing to the outcomes that notify tells of, nothing to the pump and the
clock. So `LadderInv` and `NotifyInv` survive them (`AsideKeeps`).

- `LadderInv`: the pump sleeps over a copy that is still on its tier, until it
  is due or not at all (`PumpFollows`, with the pump's promptness gives
  `LadderEmptiesInTime`), and a copy that came back from a tier has waited its
  delay since `occurred_at` (`DelaysPass`);
- `TranscodeInv`: a worker past a look-up or a promotion has the output it saw
  (`OutputsThere`: outputs are promoted in order and never removed; a scratch
  playlist stands for its segments); an encoder has the latest claim, made not
  longer than `MaxWork` ago, so the claim is not stale and nobody else gets it
  (`ClaimHeld`, under `MaxWork <= StaleAfter`);
- `ThumbnailInv`: the pieces before the one a member is at are promoted,
  whoever promoted them (`PiecesDone`);
- `NotifyInv`: what the ladder gave up was last failed after the last tier's
  delay, by a receiver that was failing then (`OutageFollows`).

`LadderOutlastsTheClaim` says nothing of what happens after a second fault, so
it has a second invariant, inductive relative to `IInv`:

    ClaimInv == SinceIsClaim /\ ScratchThere /\ OwnersDiffer /\ RetriesWait /\ OneFault

- `SinceIsClaim`: one attempt at most works under a claim, the latest, made no
  longer than `MaxWork` ago; `ScratchThere`: what a promotion copies is there,
  or was promoted meanwhile; `OwnersDiffer`: one worker at most handles a
  message that is still its own; `RetriesWait`: a copy from a tier is not
  handled before the tier's delay is over;
- `OneFault` says where the one message may be. Before a fault
  (`NothingHappened`) it has one copy, or one attempt whose claim was made
  within `MaxBacklog`. After one with nobody evicted (`NobodyEvicted`) there is
  still one, and any claim in its way was made that early. After an eviction
  (`SomebodyEvicted`) there are two attempts, and the case depends on whether
  the evicted one has the claim: if so (`EvictedLate`) it was made early and
  the message's other attempt waits on the ladder; if not (`EvictedEarly`) the
  other has it, or finds the playlist there. In each case the copy of the last
  tier meets a claim that is stale or a rendition that is done
  (`LastRetrySucceeds`).

One lemma per kind of step shows it kept (`PumpKeepsLadder`,
`TakeKeepsLadder`, `FaultKeepsLadder`, ...).

`NothingIsLostTheorem` is the safety half of `AnnouncedInTheEnd`,
`ThumbnailsInTheEnd` and `EveryOutcomeTold`, for any number of faults: of the
stage that has messages at the start (`Init` chooses one), each message is at
any time done, on the DLQ, on its source topic or the ladder, or in the hands
of a worker that is not evicted. Each of the three formulas is kept by every
step (`NextKeepsAll`): a failing attempt is parked somewhere
(`ParkedIsKept`), on a topic with a ladder always (`LadderedLeg`), on the one
without because the copy is not committed; the pump takes a copy off its tier
only with the copies for all groups published (`PumpKeepsOnItsWay`); and
`CommitsFollow`, the invariant this needs beside `IInv`, has whoever commits
have announced. TLC found all of it true of `retry_stages`' instance first.

`RetriesAssumption` has the three stages read three topics.

### The packager

`IInv` adds to `CopyFindsItsUpload`: a packager past the check has the join
complete, for good (`CheckedIsReady`, by which its claim and its announcement
refine `FanIn`'s); a packager past the promotion, or told of it, has a master
(`PromotedIsThere`, without which its announcement were no step of `FanIn`); and
while no claim has gone stale it has one holder (`ClaimHeldAlone`), so that
nobody else deletes the scratch object between its upload and its copy.

`AnnouncedInTheEnd` is a liveness property, but what can keep it from coming
true is a matter of safety, and proved: when everything is at rest (`Quiet`),
nobody gave a message up and the video is not announced,

    StrandedByAClaim == Quiet /\ dead = {} /\ ~completed => claim # "free" /\ kills > 0

that is, the first finding of section 5 is the only way to strand a video, be
the claim left behind by a kill, by a release that fails, or by a claim whose
answer is lost.
Evictions, retries, redeliveries and claims that go stale, in any number, do
not. That takes a second invariant, `RestInv`, inductive relative to `IInv`,
which says for each link who takes it further: a fact is on record, given up or
on its way there (`FactsArrive`), a complete join has a copy to come, a worker
that is not evicted, or a claim in the way (`JoinIsFollowed`: a denied worker
returns because there is a claim), and a claim has a worker at a step of its
`try` block unless somebody was killed or lost it otherwise (`ClaimIsFollowed`). `FactsArrive` looks
to `TakenWasPublished` so that the last fact to be recorded is the recorder's
own. TLC found both `RestInv` and `StrandedByAClaim` true, and
`~(Quiet /\ dead = {} /\ ~completed)` false, of `packager_join`'s instance.

Assumption: `PackagerAssumption` (there are renditions; types).

### The choreography

`IInv` has two halves. What there is, is true: a `rendition.completed`
anywhere, on a topic, in flight, on a DLQ, means the rendition is in the store,
a `completed` the master, and the master the whole ladder (`MessagesAreTrue`,
`StoreIsTrue`; gives `MasterIsWhole`). And while no DLQ has anything, nothing is
lost (`NothingIsLost`): of each chain from the upload to the row, one link is
there, as a task to do, a publication in flight, an entry of the projector's
log, or the column it fills in. At rest only the column is left, which is
`RowIsFilledIn`. The last chain goes through the packager's hands: a complete
join without a master is waiting to be packaged, or in somebody's hands, or its
claim was left behind (`JoinReachesRow`). Whoever is denied is committed, and
that takes no link away because a claim without a master is held by somebody
who is about to promote, or was left behind (`ClaimIsHeld`). Assumption:
`PipelineAssumption` (a ladder; no rendition is called `thumbnails` or `master`,
which are keys of the store beside theirs; the log has room for one status).

### The projector

`IInv` holds the write side together: a partition has one owner at work, which
is on the message behind the committed offset (`OwnersAgree`; a member that was
evicted in the middle of a transaction is no owner and goes on); whoever has
updated a row has its lock until its commit (`LockHeld`), so the id it has drawn
is above all others (`AppendsNew`); what a worker is at comes behind what its
topic has projected (`EarlierLogged`); ids number the events without two of a
rank (`RanksAreDense`, for the mapping to `ReadModel`, whose ids are ranks); and
the row has what the projected events say (`RowFollows`, `NewestLast`). The
refinement maps the commit of a transaction to `ReadModel`'s step, and every
other step to none. Assumptions: `ProjectorAssumption` and
`StatusEventsAssumption` (types; `pipeline.failed` says `failed`).

### Streams and the page

`IInv` of `VideoPageProofs` reaches from the log to the page: a row is final
only after an event that made it so, and what a pass has read of the row is
covered by the deltas it reads next (`EndIsLogged`); the rows a pass has in hand
are those behind the watermark (`RowsFollow`); each frame on the wire follows
the one before, or the client's last id (`WireFollows`); a page that closed its
stream was told the end (`PageIsTold`). It needs the log's ids without gaps, as
`ProjectorProofs` gives them, through `ReadModel`.

The theorem about `EventStreams` (in `ApiProofs`, with `SlotsInv`) counts: the
slots taken are the streams that have still to give theirs back (`HoldersFacts`
and lemmas of `FiniteSetTheorems`, for any finite set of streams).

### The upload API

The properties relate what different requests know, so the invariant has each
request's own part and what relates them:

    IInv == TypeOK /\ (\A r : Own(r)) /\ LocksExclude /\ PublisherAlone
              /\ PublishedRowStays /\ MeasuredStays /\ PublishedUnlessAborted

- `Own(r)`: what r has written, by its step, and that under its locks the
  committed row is still the one its UPDATE or DELETE found. The conditional
  UPDATE is enough because this lasts until the commit;
- `LocksExclude`: a row is locked by one transaction at a time;
- `PublisherAlone`: a video is published at most once, and its publisher is
  alone;
- `MeasuredStays`: an object that nobody has replaced since it was measured is
  good for whoever accepted it and bad for whoever is about to discard it.

The argument is one of rely and guarantee: a step of r changes rows only where
r holds their locks, so `Own(q)` of any other request stays
(`OthersKeepTheirs`), and one lemma per kind of step (quiet, rollback, commit,
conditional write, ...) shows r's own part. Assumption: `UploadAssumption`
(types; sizes among the three the model tells apart). What PostgreSQL gives (a
row is written by one open transaction, a waiting statement sees what was
committed) is in the model's actions.

### Media algorithms

`IInv` only says that what is written so far is what the operators compute
(`PlanFollows`, `CuesFollow`, `MasterFollows`); the work is in the lemmas about
these, for every file `FileRecord` admits, not the run's few sizes and lengths:

- *The cues.* Rounding keeps the order, and whole milliseconds more stay whole
  milliseconds more (`RoundedShift`, `RoundedMonotonic`); hence a timestamp
  reads as the rounded time, although its hours and minutes are taken off first
  and its seconds may be printed as 60.000 (`TimestampFacts`). A cue ends where
  the next begins, and the last with the clip (`EndFacts`): the minimum of a
  millisecond never pushes a cue over its neighbour because there are at most a
  hundred tiles and more than one only in a clip of more than five seconds
  (`TileCountFacts`).
- *The sheet.* Tiles and cells correspond one to one, and the last row is not
  empty (`GridFacts`, `CellsDiffer`, `CellsFill`).
- *The playlist.* A finite set of numbers can be put in order, by the ranks of
  its members (`SortedExists`), so `Sorted` is what it says (`SortedFacts`); and
  the bitrate does not fall between two rungs (`BitrateMonotonic`).

Assumption: `MediaAssumption` (types; ladders on record are finite).

### Only model-checked

Every safety invariant and action property of the runs that hold has its
theorem. TLC alone checks

- that something happens in the end, all liveness: `EveryMessageSettles`, `AnnouncedInTheEnd` of both modules,
  `ThumbnailsInTheEnd`, `EveryOutcomeTold`, `EveryDeltaArrives`,
  `PageComesToRest`, `OutcomeIsVisible`, `DeadUploadsLeave`: fairness and
  ENABLED are outside the proof system's reach. That nothing gets lost on the
  way there is proved of the worker (`NoLossTheorem`), of the three stages of
  the ladder (`NothingIsLostTheorem`), of the packager
  (`StrandedByAClaimTheorem`) and of the choreography (`RowIsFilledInTheorem`);
- what the three runs of section 5 refute.

## 5. Findings

Three statements of the code or its documents about itself do not hold; each
has a run that shows the shortest way there.

- **A killed packager strands its video** (`packager_kill`). The redelivery
  after a hard kill meets the live claim, returns as if all were well and is
  committed. When the claim is stale, nobody is left to take it
  (`worker_package/main.py:113`; `repository.py:259-260` counts on it). The same
  state is what `RowIsFilledIn` and `OutcomeIsVisible` except by
  `ClaimLeftBehind`: the pipeline is at rest, no DLQ has anything, and the video
  has neither a master nor a reason.
- **An event can be lost in the snapshot** (`sse_snapshot`). Row, renditions and
  greatest id are read by three statements of a READ COMMITTED transaction: an
  event that commits between the second and the third is behind the snapshot's
  id and not in it (`sse.py:98`, against `sse.py:88-89`). With the three reads
  made one step the invariant holds.
- **A completed video goes back to transcoding without any fault**
  (`pipeline_regress`). Transcode publishes `rendition.completed` before its own
  status event, and the thumbnails are not waited for at all; the packager's
  COMPLETED may precede either (`repository.py:369`, against ADR-0007:123-129).

### Other divergences met while modelling

They have no run of their own. Where a property is stated around one of them
its comment says so.

- `flush()`'s result is ignored, so a copy that was not delivered within ten
  seconds is lost when the offset is committed (`producer.py:80`).
  `OnlyDeliveryLoses` states that this is the only way.
- The stall clock starts on the revocation of *some* partitions; the comment at
  `consumer.py:156` means the loss of all (line 189). It costs a restart.
- A handler runs on after its partition was revoked, beside the new owner's;
  `repository.py:191-194` takes deliveries for sequential.
- A malformed envelope on a topic without retries is transient, unroutable, and
  met again by each restarted worker (ADR-0005:60 has it dead-lettered). No
  property covers it.
- A projector that was evicted in the middle of a transaction commits it and
  overwrites newer rows. `ReadModel` allows that, and `RowReflectsLogs` is stated
  without evictions.
- Delays on the ladder count from `occurred_at`: after a backlog the ladder is
  shorter than its name, possibly shorter than the claim
  (`repository.py:178-179`). `MaxBacklog` bounds it.
- The pump's docstring has a burst serialize "behind each other's
  sleep" (`worker_retry_pump/main.py:33-35`). It is better than that: as sleeps
  end at absolute times, a copy waits at most until the latest due time of what
  was taken before it (`LadderEmptiesInTime`). That is still the longest tier
  for a copy of the shortest.
- The pump is a stage itself: a copy it cannot forward goes a tier further, or
  to the DLQ, without its stage having seen it again (`consumer.py:339-384`;
  `why = "unpumped"` in `RetryPump`). A malformed copy fails in the pump's own
  `parse` and climbs the ladder without any delay.
- A retried `video.probed` reaches both groups with the count of either. After
  as many failures of the packager as there are tiers, one failure of the
  thumbnail stage on an echo is dead-lettered and announced as the video's
  failure, whether or not the thumbnails are there.
- ADR-0005:83 has notify dedupe on `event_id` by the `events` table. Notify
  (`worker_notify/main.py`) keeps nothing and POSTs each delivery. A re-announced
  `video.completed` has a new `event_id` as well (against ADR-0013:17), so a
  receiver cannot dedupe by it either. `EveryOutcomeTold` says at least once.
- `build_vtt` is given the sprite's object key and writes it into each cue
  (`worker_thumbnail/main.py:107`), where `thumbnail.py:161-163` has a relative
  name in mind.
- ADR-0013's reconciler for joins that time out does not exist.
- A `/complete` that comes after the expiry answers 200 with status `failed`.
- `/complete` on an oversize object deletes it before it knows whether the row
  is still its to complete (`main.py:271-282`). If the object is replaced by a
  good one after the HEAD, another request can measure and publish that one
  before the delete. `PublishedObjectIsThere` is stated of objects that are not
  replaced after they were measured.
- A late completion is accepted after the window while nobody has expired the
  row (`repository.py:96-98`).
- An upload is lost when the request dies between the commit of the claim and
  the publication (`main.py:255` says "exactly once"). `PublishedUnlessAborted`
  is stated for requests that run on; `OutcomeIsVisible` for uploads that were
  published (`api = "lost"` in `Pipeline`).
- Two creates that count before either inserts exceed the quota
  (`main.py:222-230`).
- The stored size is compared with the ceiling, not with the declared size
  (ADR-0006:29-30), and may change between the HEAD and the claim.
- A failed video goes back to transcoding with the next status event of a
  stage that is still at work (`repository.py:422-424`).
- A GET that the stream overtakes puts an older status over the stream's, for
  good if the stream is closed. `FinishedPageShowsTheEnd` excludes it by
  `overtaken`.
- A cue within half a millisecond of a full minute is printed with `60.000`
  seconds, which is no WebVTT timestamp; a clip of 115.384 s has one
  (`thumbnail.py:155`). `CuesTileTheClip` reads timestamps leniently.
- A source below 360 lines is planned at its own short side. An odd one is an
  odd height, which H.264 with yuv420p refuses; and the height of a portrait
  picture is made what its width was (`ladder.py:53-57`, `transcode.py:60-61`).

## 6. Hazards and the properties that cover them

`PROJECT.json` lists the hazards with their lines. In short: rebalances and
crashes around a running handler (`NoLoss`, `NothingSkipped`,
`ImplementsAtLeastOnce`); copies and flushes (`OnlyDeliveryLoses`); races of
the join and of its claim (`ImplementsFanIn`, `CopyFindsItsUpload`,
`AnnouncedInTheEnd`); partial outputs and slow claims (`AnnouncedIsThere`,
`OneEncoderAtATime`, `LadderOutlastsTheClaim`); ids of a log drawn outside its
transactions and read by clients that resume (`IdsAppearInOrder`,
`DeltasHaveNoGap`, `EndIsCovered`); overlapping requests for one row
(`PublishedRowStays`, `OnePublisher`) and object (`PublishedObjectIsThere`);
scratch keys without an owner (`ThumbnailsAreThere`, `ThumbnailsInTheEnd`); one
sleeping thread for every tier (`LadderEmptiesInTime`, `OutageOutlasted`);
receivers that fail (`EveryOutcomeTold`); slots of streams that end anywhere
(`SlotsAreHeld`); events in any order
(`MasterIsWhole`, `RowIsFilledIn`); pages that must stop (`PageComesToRest`).

Where the code does go wrong, no property that holds can cover it. Three such
cases have a run that shows them (section 5). The others are listed without a
property, and the properties nearby are stated around them: the malformed
message on a topic without retries (`retry.py:52`), the evicted projector's
older state (`repository.py:369`), a `/complete` that dies between claim and
publication (`main.py:292`), an object replaced after it was measured
(`main.py:273`), the overtaken GET of the page (`VideoDetailPage.tsx:40`), the
quota counted twice (`main.py:222`), a second `event_id` for one completion
(`worker_package/main.py:149`) and the stall clock (`consumer.py:189`).

## 7. What is not modelled

- The `revoked` flag (no handler reads it), `wait_for_assignment` (only tests
  call it), the watchdog's wall-clock threshold.
- Partition counts and retentions of `TopicRegistry.plan`.
- The insides of the probe worker, which publishes what one download tells it.
- The bodies of the API's answers, `get_video` and `video_media`: they change
  nothing. One of them is stale: the loser of two racing `/complete` calls
  re-reads the row through the session's identity map and answers with the
  status it read first (`main.py:287`).
- Unmounting of the page and the query client's refetch on focus; the upload
  page, which is `UploadApi`'s environment only.
- ffmpeg's command lines, the poster's time and the timeout budget.
- Health, metrics and traces, settings, authentication and the dev issuer, the
  webhook sink, migrations (their constraints are part of the actions),
  provisioning and smoke-test scripts: they hold no state of the pipeline.

## 8. Plan

Done: all modules above, the runs of section 3, the theorems of section 4.

1. *More of the system.* The upload page as `UploadApi`'s client: a cancel of
   the video that is being uploaded, answers that are lost. The answers of the
   API's requests, the stale re-read among them.
2. *More theorems.* Where `Pipeline`'s handlers, as one step or three, follow from
   `Transcode`, `Thumbnail` and `Packager`.
