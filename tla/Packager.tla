------------------------------ MODULE Packager ------------------------------
(***************************************************************************)
(* The packaging stage for one video: services/worker_package/main.py with *)
(* PackagerRepository (libs/pipeline/repository.py) and the object store.  *)
(*                                                                         *)
(* Two topics feed it.  A delivery persists its own fact, then checks      *)
(* whether all facts are there, and whoever finds them complete packages   *)
(* under a claim.  Every call to Postgres, to the object store or to Kafka *)
(* is one step, so the workers of the group interleave between any two.    *)
(*                                                                         *)
(* Deliveries are at-least-once, as StageWorker gives them: a copy of a    *)
(* message is taken by the worker its partition is assigned to, a failed   *)
(* one goes through the retry ladder to the DLQ, an evicted worker goes on *)
(* with a message somebody else is given again, a dead worker's message is *)
(* delivered again.  All messages of a topic have one key, the video, and  *)
(* so one partition.                                                       *)
(***************************************************************************)
EXTENDS Naturals, FiniteSets

CONSTANTS
  Workers,         \* members of the packager group
  Renditions,      \* video.probed's expected_renditions
  Probed,          \* the video.probed message
  MayBeLegacy,     \* renditions that a producer of before Phase 9 may announce
  Tiers,           \* length of the retry ladder
  MaxErrors,       \* bound on exceptions of Postgres, S3 and the producer
  MaxRedeliveries, \* bound on evictions and on redeliveries after an ack
  MaxKills,        \* bound on hard kills, and on the other ways to leave a claim
                   \* behind: a release that fails, a claim whose answer is lost
  MaxStale         \* how often a claim outlives STALE_AFTER

(* A rendition.completed is named by its rendition. *)
Messages == Renditions \union {Probed}

ASSUME PackagerAssumption ==
  /\ Renditions # {} /\ Probed \notin Renditions
  /\ MayBeLegacy \subseteq Renditions
  /\ {Tiers, MaxErrors, MaxRedeliveries, MaxKills, MaxStale} \subseteq Nat

(* A copy waiting to be delivered: the message and its retry_count. *)
Copies == Messages \X (0 .. Tiers)

Nothing == <<>>

VARIABLES
  \* Postgres
  expected,     \* packager_expected_renditions is set
  playlists,    \* the renditions with a packager_playlist_key
  claim,        \* packaging_claimed_at: null, recent, or older than STALE_AFTER
  \* the object store
  scratch,      \* tmp/.../master.m3u8.part exists
  master,       \* hls/master.m3u8 exists
  \* Kafka
  legacy,       \* renditions announced without a playlist_key; never changes
  unpublished,  \* messages their producers have not published yet
  waiting,      \* copies to deliver, on the source topics or on a retry tier
  acked,        \* messages whose offset was committed after a success
  dead,         \* messages on the DLQ
  completed,    \* has a video.completed been published?
  \* each worker
  pc, job,      \* its step, the copy it works on
  evicted,      \* its partition went to another worker meanwhile
  \* the budgets
  errors, redeliveries, kills, stales

dbVars     == <<expected, playlists, claim>>
storeVars  == <<scratch, master>>
kafkaVars  == <<legacy, unpublished, waiting, acked, dead>>
workerVars == <<pc, job, evicted>>
budgetVars == <<errors, redeliveries, kills, stales>>
vars == <<dbVars, storeVars, kafkaVars, completed, workerVars, budgetVars>>

Steps == {"idle", "record", "check", "exists", "claim", "upload", "copy",
          "delete", "announce", "announced", "reannounce", "reannounced",
          "release"}

(* The steps of a worker that holds the claim. *)
Packaging == {"upload", "copy", "delete", "announce", "announced", "release"}

TypeOK ==
  /\ expected \in BOOLEAN /\ playlists \subseteq Renditions
  /\ claim \in {"free", "live", "stale"}
  /\ scratch \in BOOLEAN /\ master \in BOOLEAN
  /\ legacy \subseteq MayBeLegacy
  /\ unpublished \subseteq Messages /\ waiting \subseteq Copies
  /\ acked \subseteq Messages /\ dead \subseteq Messages
  /\ completed \in BOOLEAN
  /\ pc \in [Workers -> Steps]
  /\ job \in [Workers -> Copies \union {Nothing}]
  /\ \A w \in Workers : job[w] = Nothing <=> pc[w] = "idle"
  /\ evicted \in [Workers -> BOOLEAN]
  /\ errors \in 0 .. MaxErrors /\ redeliveries \in 0 .. MaxRedeliveries
  /\ kills \in 0 .. MaxKills /\ stales \in 0 .. MaxStale

Init ==
  /\ expected = FALSE /\ playlists = {} /\ claim = "free"
  /\ scratch = FALSE /\ master = FALSE
  /\ legacy \in SUBSET MayBeLegacy
  /\ unpublished = Messages /\ waiting = {} /\ acked = {} /\ dead = {}
  /\ completed = FALSE
  /\ pc = [w \in Workers |-> "idle"]
  /\ job = [w \in Workers |-> Nothing]
  /\ evicted = [w \in Workers |-> FALSE]
  /\ errors = 0 /\ redeliveries = 0 /\ kills = 0 /\ stales = 0

-----------------------------------------------------------------------------
(* Deliveries. *)

TopicOf(m) == IF m = Probed THEN "video.probed" ELSE "rendition.completed"

(* probe and transcode publish, in any order. *)
Publish(m) ==
  /\ m \in unpublished
  /\ unpublished' = unpublished \ {m}
  /\ waiting' = waiting \union {<<m, 0>>}
  /\ UNCHANGED <<dbVars, storeVars, legacy, acked, dead, completed, workerVars, budgetVars>>

(* One member owns a topic's partition and handles one message at a time. *)
Take(w, c) ==
  /\ pc[w] = "idle"
  /\ c \in waiting
  /\ \A v \in Workers :
       pc[v] # "idle" /\ ~evicted[v] => TopicOf(job[v][1]) # TopicOf(c[1])
  /\ waiting' = waiting \ {c}
  /\ pc' = [pc EXCEPT ![w] = "record"]
  /\ job' = [job EXCEPT ![w] = c]
  /\ UNCHANGED <<dbVars, storeVars, legacy, unpublished, acked, dead, completed,
                 evicted, budgetVars>>

Idle(w) ==
  /\ pc' = [pc EXCEPT ![w] = "idle"]
  /\ job' = [job EXCEPT ![w] = Nothing]
  /\ evicted' = [evicted EXCEPT ![w] = FALSE]

(* The handler returns and its message's offset is committed; an evicted     *)
(* worker's commit is refused, its message is somebody else's by now.        *)
Succeed(w) ==
  /\ acked' = IF evicted[w] THEN acked ELSE acked \union {job[w][1]}
  /\ Idle(w)
  /\ UNCHANGED <<legacy, unpublished, waiting, dead>>

(* The handler raises; where the copy goes is StageWorker's _route_failure.  *)
FailTransient(w) ==
  LET m == job[w][1]
      n == job[w][2]
  IN /\ IF n < Tiers
          THEN waiting' = waiting \union {<<m, n + 1>>} /\ UNCHANGED dead
          ELSE dead' = dead \union {m} /\ UNCHANGED waiting
     /\ Idle(w)
     /\ UNCHANGED <<legacy, unpublished, acked>>

FailTerminal(w) ==
  /\ dead' = dead \union {job[w][1]}
  /\ Idle(w)
  /\ UNCHANGED <<legacy, unpublished, waiting, acked>>

(* Where an exception takes the worker: a step inside _try_package's try     *)
(* block first releases the claim.                                           *)
Goto(w, step) ==
  /\ pc' = [pc EXCEPT ![w] = step]
  /\ UNCHANGED <<kafkaVars, job, evicted>>

Error == errors < MaxErrors /\ errors' = errors + 1

-----------------------------------------------------------------------------
(* The handler. *)

Record(w) ==
  LET m == job[w][1] IN
  /\ pc[w] = "record" /\ m \notin legacy
  /\ IF m = Probed
       THEN expected' = TRUE /\ UNCHANGED playlists
       ELSE playlists' = playlists \union {m} /\ UNCHANGED expected
  /\ Goto(w, "check")
  /\ UNCHANGED <<claim, storeVars, completed, budgetVars>>

(* There is no playlist_key to record.  (A rendition without a row would take *)
(* this path, too, but transcode's claim has always created it.)             *)
RecordTerminal(w) ==
  /\ pc[w] = "record" /\ job[w][1] \in legacy
  /\ FailTerminal(w)
  /\ UNCHANGED <<dbVars, storeVars, completed, budgetVars>>

(* Mutant of Ready: packages what is there. *)
PartlyReady == expected /\ playlists # {}

(* ready_playlists: not None once the expected set is known and complete. *)
Ready == expected /\ playlists = Renditions

Check(w) ==
  /\ pc[w] = "check"
  /\ IF Ready THEN Goto(w, "exists") ELSE Succeed(w)
  /\ UNCHANGED <<dbVars, storeVars, completed, budgetVars>>

Exists(w) ==
  /\ pc[w] = "exists"
  /\ Goto(w, IF master THEN "reannounce" ELSE "claim")
  /\ UNCHANGED <<dbVars, storeVars, completed, budgetVars>>

(* Mutant of Claim: whoever asks gets it. *)
ClaimRegardless(w) ==
  /\ pc[w] = "claim"
  /\ claim' = "live"
  /\ Goto(w, "upload")
  /\ UNCHANGED <<expected, playlists, storeVars, completed, budgetVars>>

(* A denied claim leaves the packaging to its holder: a success. *)
Claim(w) ==
  /\ pc[w] = "claim"
  /\ IF claim \in {"free", "stale"}
       THEN claim' = "live" /\ Goto(w, "upload")
       ELSE UNCHANGED claim /\ Succeed(w)
  /\ UNCHANGED <<expected, playlists, storeVars, completed, budgetVars>>

Upload(w) ==
  /\ pc[w] = "upload"
  /\ scratch' = TRUE
  /\ Goto(w, "copy")
  /\ UNCHANGED <<dbVars, master, completed, budgetVars>>

(* promote: the copy fails when another attempt has used the scratch up. *)
Copy(w) ==
  /\ pc[w] = "copy"
  /\ IF scratch
       THEN master' = TRUE /\ Goto(w, "delete")
       ELSE UNCHANGED master /\ Goto(w, "release")
  /\ UNCHANGED <<dbVars, scratch, completed, budgetVars>>

Delete(w) ==
  /\ pc[w] = "delete"
  /\ scratch' = FALSE
  /\ Goto(w, "announce")
  /\ UNCHANGED <<dbVars, master, completed, budgetVars>>

(* video.completed is queued first, then video.status and the flush.         *)
AnnounceCompleted(w) ==
  /\ completed' = TRUE
  /\ \/ pc[w] = "announce" /\ Goto(w, "announced")
     \/ pc[w] = "reannounce" /\ Goto(w, "reannounced")
  /\ UNCHANGED <<dbVars, storeVars, budgetVars>>

Finish(w) ==
  /\ pc[w] \in {"announced", "reannounced"}
  /\ Succeed(w)
  /\ UNCHANGED <<dbVars, storeVars, completed, budgetVars>>

(* Mutant of Release: the claim is kept. *)
ReleaseForgotten(w) ==
  /\ pc[w] = "release"
  /\ FailTransient(w)
  /\ UNCHANGED <<dbVars, storeVars, completed, budgetVars>>

(* release_claim clears the column, whoever set it; then the error goes on. *)
Release(w) ==
  /\ pc[w] = "release"
  /\ claim' = "free"
  /\ FailTransient(w)
  /\ UNCHANGED <<expected, playlists, storeVars, completed, budgetVars>>

-----------------------------------------------------------------------------
(* A call to Postgres, S3 or the producer raises, without effect.  (One that *)
(* had its effect and lost its answer leaves what the next call's failing    *)
(* leaves; only after the claim, which is outside the try block, not.)       *)
(* Inside the try block the claim is released next.                          *)
CallFails(w) ==
  /\ Error
  /\ \/ /\ pc[w] \in {"record", "check", "exists", "claim", "reannounce",
                    "reannounced"}
        /\ FailTransient(w)
     \/ pc[w] \in Packaging \ {"release"} /\ Goto(w, "release")
  /\ UNCHANGED <<dbVars, storeVars, completed, redeliveries, kills, stales>>

(* The claim is committed and its answer lost: the attempt fails without     *)
(* knowing that it has the claim, and nobody releases it.                    *)
ClaimAnswerLost(w) ==
  /\ pc[w] = "claim" /\ claim \in {"free", "stale"}
  /\ Error
  /\ kills < MaxKills /\ kills' = kills + 1
  /\ claim' = "live"
  /\ FailTransient(w)
  /\ UNCHANGED <<expected, playlists, storeVars, completed, redeliveries, stales>>

(* The release in the except block raises as well, and the claim stays.      *)
ReleaseFails(w) ==
  /\ pc[w] = "release"
  /\ kills < MaxKills /\ kills' = kills + 1
  /\ FailTransient(w)
  /\ UNCHANGED <<dbVars, storeVars, completed, errors, redeliveries, stales>>

(* The partition goes to another worker, and its message is delivered there. *)
Evict(w) ==
  /\ pc[w] # "idle" /\ ~evicted[w]
  /\ redeliveries < MaxRedeliveries /\ redeliveries' = redeliveries + 1
  /\ evicted' = [evicted EXCEPT ![w] = TRUE]
  /\ waiting' = waiting \union {job[w]}
  /\ UNCHANGED <<dbVars, storeVars, legacy, unpublished, acked, dead, completed, pc, job,
                 errors, kills, stales>>

(* A commit that failed or was rewound, or the replay of a dead letter, which *)
(* stays on the DLQ.                                                         *)
Redeliver(m) ==
  /\ m \in acked \union dead
  /\ redeliveries < MaxRedeliveries /\ redeliveries' = redeliveries + 1
  /\ waiting' = waiting \union {<<m, 0>>}
  /\ UNCHANGED <<dbVars, storeVars, legacy, unpublished, acked, dead, completed,
                 workerVars, errors, kills, stales>>

(* No except block runs; the message is delivered again. *)
Kill(w) ==
  /\ pc[w] # "idle"
  /\ kills < MaxKills /\ kills' = kills + 1
  /\ waiting' = IF evicted[w] THEN waiting ELSE waiting \union {job[w]}
  /\ Idle(w)
  /\ UNCHANGED <<dbVars, storeVars, legacy, unpublished, acked, dead, completed,
                 errors, redeliveries, stales>>

ClaimGoesStale ==
  /\ claim = "live"
  /\ stales < MaxStale /\ stales' = stales + 1
  /\ claim' = "stale"
  /\ UNCHANGED <<expected, playlists, storeVars, kafkaVars, completed,
                 workerVars, errors, redeliveries, kills>>

-----------------------------------------------------------------------------
Handle(w) ==
  \/ Record(w) \/ RecordTerminal(w) \/ Check(w) \/ Exists(w) \/ Claim(w)
  \/ Upload(w) \/ Copy(w) \/ Delete(w) \/ AnnounceCompleted(w) \/ Finish(w)
  \/ Release(w)

Next ==
  \/ \E m \in Messages : Publish(m) \/ Redeliver(m)
  \/ \E w \in Workers :
       \/ \E c \in waiting : Take(w, c)
       \/ Handle(w) \/ CallFails(w) \/ ClaimAnswerLost(w) \/ ReleaseFails(w)
       \/ Evict(w) \/ Kill(w)
  \/ ClaimGoesStale

Spec == Init /\ [][Next]_vars

(* Producers publish, the group takes what waits, a handler's calls return.  *)
FairSpec ==
  /\ Spec
  /\ \A m \in Messages : WF_vars(Publish(m))
  /\ WF_vars(\E w \in Workers, c \in Copies : Take(w, c))
  /\ \A w \in Workers : WF_vars(Handle(w))

-----------------------------------------------------------------------------
(* As long as no claim outlives its holder's work, whoever promotes the      *)
(* scratch object still finds the one it uploaded: the claim keeps a second  *)
(* packager, whatever the rebalances and retries, from using it up or from   *)
(* deleting it (claim, release_claim, promote).                              *)
CopyFindsItsUpload == \A w \in Workers : pc[w] = "copy" /\ stales = 0 => scratch

(* Everything was published and delivered, nobody is at work. *)
Quiet ==
  /\ unpublished = {} /\ waiting = {}
  /\ \A w \in Workers : pc[w] = "idle"

(* The claim of a killed packager: "this is defense-in-depth for a hard kill *)
(* that never reaches that except block" (repository.py:259-260).  Once      *)
(* the claim is stale and everything has been dealt with, the video should   *)
(* have been packaged all the same.                                          *)
KillRecovered == Quiet /\ dead = {} /\ claim = "stale" => completed

(* The facts the join has on record. *)
Recorded == playlists \union (IF expected THEN {Probed} ELSE {})

Fan == INSTANCE FanIn WITH
  Facts <- Messages, arrived <- Recorded, packaged <- master,
  announced <- completed, givenUp <- dead

(* The stage implements the join: master.m3u8 only once the expected set and *)
(* every rendition are on record, video.completed only once master.m3u8 is   *)
(* there, and nothing of it is ever taken back.                              *)
ImplementsFanIn == Fan!FanSafety

(* The join loses nobody: the video is announced in the end, also when the   *)
(* two last facts came in at once, when the one that completed the join left *)
(* the packaging to a holder of the claim that then failed, or when the      *)
(* announcement of a packaged video failed (handle, _try_package).  A message *)
(* on the DLQ and a claim that is left behind, by a hard kill, by a release  *)
(* that fails or by a lost answer to the claim, are the exceptions.          *)
AnnouncedInTheEnd == <>(completed \/ dead # {} \/ kills > 0)
=============================================================================
