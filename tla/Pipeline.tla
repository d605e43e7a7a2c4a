------------------------------ MODULE Pipeline ------------------------------
(***************************************************************************)
(* One video's way through all stages, and what the read model makes of    *)
(* it: the choreography of services/api, worker_probe, worker_transcode,   *)
(* worker_thumbnail, worker_package and projector.                         *)
(*                                                                         *)
(* A stage's handler is one step here (StageWorker, Transcode and Packager *)
(* look inside), but the packager's, whose claim outlives a handler that   *)
(* is killed; what it publishes then reaches the topics in any order, and  *)
(* with the last of it the message is committed.  Every event is keyed     *)
(* by video_id, so a group handles one message of a topic at a time, and   *)
(* video.status is one partition, a queue for the projector.  The order    *)
(* within the other topics is left open, as retries do.                    *)
(***************************************************************************)
EXTENDS Naturals, Sequences

CONSTANTS
  Ladder,     \* the renditions select_ladder plans for this source
  NoRendition,
  MaxLag,     \* bound on the status events the projector is behind
  MaxFaults   \* bound on crashes, retries and dead letters

ASSUME PipelineAssumption ==
  /\ Ladder # {} /\ NoRendition \notin Ladder
  /\ Ladder \intersect {"thumbnails", "master"} = {}
  /\ MaxLag \in Nat \ {0} /\ MaxFaults \in Nat

VARIABLES
  api,        \* /complete: about to "publish" the event, then the "status",
              \* "done", or "lost": dead before it had published anything
  todo,       \* <<stage, message>>: on the stage's topic, not handled yet
  flying,     \* <<task, message>>: published by a handled task that is not
              \* committed, not on a topic yet
  packing,    \* <<task, step>>: in the packager's hands, about to "claim" the
              \* packaging or, with the claim, to "promote" the master
  claimed,    \* packaging_claimed_at is set, recent or stale
  abandoned,  \* a claim was left behind by one who will not release it
  dead,       \* messages on the DLQs
  statusLog,  \* video.status: what the projector has not applied yet
  failures,   \* pipeline.failed: the same, by rendition
  stored,     \* final objects in the store
  expected,   \* did the packager record the ladder?
  ready,      \* renditions whose playlist the packager recorded
  row,        \* the videos row; of its status, whether it is completed
  renditions, \* status of the renditions rows, "none" without a row
  faults

queueVars == <<todo, flying, dead>>
claimVars == <<claimed, abandoned>>
joinVars  == <<expected, ready>>
rowVars   == <<row, renditions>>
vars == <<api, queueVars, packing, claimVars, statusLog, failures, stored, joinVars,
          rowVars, faults>>

Stages == {"probe", "thumbnail", "transcode", "package"}
States == {"uploaded", "probed", "transcoding", "completed"}

Msg(kind, about)     == [kind |-> kind, about |-> about, state |-> "none"]
Status(state, about) == [kind |-> "video.status", about |-> about, state |-> state]

(* The consumer groups of a topic (each service's subscribe()). *)
Subscribers(m) ==
  CASE m.kind = "video.uploaded"      -> {"probe"}
    [] m.kind = "video.probed"        -> {"thumbnail", "package"}
    [] m.kind = "rendition.requested" -> {"transcode"}
    [] m.kind = "rendition.completed" -> {"package"}
    [] OTHER -> {}

Fan(m) == Subscribers(m) \X {m}

Events ==
  {Msg(k, NoRendition) : k \in {"video.uploaded", "video.probed"}}
    \union {Msg(k, r) : k \in {"rendition.requested", "rendition.completed"}, r \in Ladder}

Statuses == {Status(s, r) : s \in States, r \in Ladder \union {NoRendition}}

Tasks == Stages \X Events

TypeOK ==
  /\ api \in {"publish", "status", "done", "lost"}
  /\ todo \subseteq Tasks
  /\ flying \subseteq Tasks \X (Events \union Statuses)
  /\ dead \subseteq Events
  /\ packing \subseteq Tasks \X {"claim", "promote"}
  /\ claimed \in BOOLEAN /\ abandoned \in BOOLEAN
  /\ statusLog \in Seq(Statuses)
  /\ failures \subseteq Ladder \union {NoRendition}
  /\ stored \subseteq Ladder \union {"thumbnails", "master"}
  /\ expected \in BOOLEAN /\ ready \subseteq Ladder
  /\ row \in [completed : BOOLEAN, master : BOOLEAN,
              thumbnails : BOOLEAN, expected : BOOLEAN, reason : BOOLEAN]
  /\ renditions \in [Ladder -> {"none", "completed", "failed"}]
  /\ faults \in 0 .. MaxFaults

(* /complete has committed its claim. *)
Init ==
  /\ api = "publish"
  /\ todo = {} /\ flying = {} /\ dead = {}
  /\ packing = {} /\ claimed = FALSE /\ abandoned = FALSE
  /\ statusLog = <<>> /\ failures = {}
  /\ stored = {} /\ expected = FALSE /\ ready = {}
  /\ row = [completed |-> FALSE, master |-> FALSE, thumbnails |-> FALSE,
            expected |-> FALSE, reason |-> FALSE]
  /\ renditions = [r \in Ladder |-> "none"]
  /\ faults = 0

-----------------------------------------------------------------------------
(* What a message does when it reaches its topic. *)
Arrive(m) ==
  /\ todo' = todo \union Fan(m)
  /\ IF m.kind = "video.status"
       THEN Len(statusLog) < MaxLag /\ statusLog' = Append(statusLog, m)
       ELSE UNCHANGED statusLog

ApiPublishes ==
  /\ \/ api = "publish" /\ Arrive(Msg("video.uploaded", NoRendition)) /\ api' = "status"
     \/ api = "status"  /\ Arrive(Status("uploaded", NoRendition))    /\ api' = "done"
  /\ UNCHANGED <<flying, dead, packing, claimVars, failures, stored, joinVars, rowVars,
                 faults>>

-----------------------------------------------------------------------------
(* Mutant of Complete: one rendition is enough to package. *)
Started(known, have) == known /\ have # {}

(* ready_playlists: the ladder is known and every rendition of it is there.  *)
Complete(known, have) == known /\ have = Ladder

InHand == {f[1] : f \in flying} \union {p[1] : p \in packing}

Handling(stage, m) ==
  /\ <<stage, m>> \in todo
  /\ \A t \in InHand : t[1] = stage => t[2].kind # m.kind

Publishes(stage, m, out) ==
  /\ todo' = todo \ {<<stage, m>>}
  /\ flying' = flying \union ({<<stage, m>>} \X out)
  /\ UNCHANGED <<api, dead, claimVars, statusLog, failures, rowVars, faults>>

Probe(m) ==
  /\ Handling("probe", m)
  /\ Publishes("probe", m,
       {Msg("video.probed", NoRendition), Status("probed", NoRendition)}
         \union {Msg("rendition.requested", r) : r \in Ladder})
  /\ UNCHANGED <<packing, stored, joinVars>>

Transcode(m) ==
  /\ Handling("transcode", m)
  /\ Publishes("transcode", m,
       {Msg("rendition.completed", m.about), Status("transcoding", m.about)})
  /\ stored' = stored \union {m.about}
  /\ UNCHANGED <<packing, joinVars>>

Thumbnail(m) ==
  /\ Handling("thumbnail", m)
  /\ Publishes("thumbnail", m, {Status("transcoding", NoRendition)})
  /\ stored' = stored \union {"thumbnails"}
  /\ UNCHANGED <<packing, joinVars>>

(* The playlist a message brings, if it brings one. *)
Recorded(m) == {m.about} \ {NoRendition}

(* video.probed records the ladder, rendition.completed a playlist, and the  *)
(* same transaction reads whether the join is complete.  Whoever finds it    *)
(* complete announces a master that is there (to notify too, by              *)
(* video.completed, which nothing here depends on), or goes on to the claim. *)
Package(m) ==
  /\ Handling("package", m)
  /\ expected' = (expected \/ m.kind = "video.probed")
  /\ ready' = ready \union Recorded(m)
  /\ \/ /\ ~Complete(expected', ready')
        /\ Publishes("package", m, {}) /\ UNCHANGED packing
     \/ /\ Complete(expected', ready') /\ "master" \in stored
        /\ Publishes("package", m, {Status("completed", NoRendition)}) /\ UNCHANGED packing
     \/ /\ Complete(expected', ready') /\ "master" \notin stored
        /\ Publishes("package", m, {})
        /\ packing' = packing \union {<<<<"package", m>>, "claim">>}
  /\ UNCHANGED stored

(* The packager goes on with m: from one step to the next, or, with what it  *)
(* publishes, out of its hands.                                              *)
Proceeds(m, at, then, out) ==
  LET t == <<"package", m>> IN
  /\ <<t, at>> \in packing
  /\ packing' = (packing \ {<<t, at>>}) \union ({t} \X then)
  /\ flying' = flying \union ({t} \X out)
  /\ UNCHANGED <<api, todo, dead, abandoned, statusLog, failures, joinVars, rowVars, faults>>

(* Whoever meets a claim returns as if done and is committed, unless the     *)
(* claim is older than STALE_AFTER, which it may be with its holder dead or  *)
(* still at work; a master promoted since may still have been seen.          *)
Claim(m) ==
  /\ \/ /\ "master" \in stored /\ UNCHANGED claimed
        /\ Proceeds(m, "claim", {}, {Status("completed", NoRendition)})
     \/ claimed /\ Proceeds(m, "claim", {}, {}) /\ UNCHANGED claimed
     \/ Proceeds(m, "claim", {"promote"}, {}) /\ claimed' = TRUE
  /\ UNCHANGED stored

(* The claim is not released after a success.                                *)
Promote(m) ==
  /\ Proceeds(m, "promote", {}, {Status("completed", NoRendition)})
  /\ stored' = stored \union {"master"}
  /\ UNCHANGED claimed

(* A second attempt, after a claim that went stale, promoted and deleted the *)
(* scratch object the two share: the copy fails, the claim is released and   *)
(* the message comes again.                                                  *)
Overtaken(m) ==
  LET p == <<<<"package", m>>, "promote">> IN
  /\ p \in packing /\ "master" \in stored
  /\ packing' = packing \ {p} /\ todo' = todo \union Fan(m)
  /\ claimed' = FALSE
  /\ UNCHANGED <<api, flying, dead, abandoned, statusLog, failures, stored, joinVars,
                 rowVars, faults>>

(* A publication reaches its topic; after the last one flush() returns and   *)
(* the offset is committed.                                                  *)
Delivered(f) ==
  /\ Arrive(f[2])
  /\ flying' = flying \ {f}
  /\ UNCHANGED <<api, dead, packing, claimVars, failures, stored, joinVars, rowVars, faults>>

-----------------------------------------------------------------------------
(* Mutant of Carried: a field the event does not carry is written all the    *)
(* same, as NULL.                                                            *)
CarriedOnly(old, carried) == carried

(* A field the event does not carry keeps its value (_apply_status's None).  *)
Carried(old, carried) == old \/ carried

ApplyStatus ==
  /\ statusLog # <<>>
  /\ LET m == Head(statusLog)
         video == m.about = NoRendition IN
     /\ row' = [row EXCEPT
          !.completed = m.state = "completed",
          !.expected = Carried(@, m.state = "probed"),
          !.master = Carried(@, m.state = "completed"),
          !.thumbnails = Carried(@, video /\ m.state = "transcoding")]
     /\ renditions' = [r \in Ladder |-> IF m.about = r THEN "completed" ELSE renditions[r]]
  /\ statusLog' = Tail(statusLog)
  /\ UNCHANGED <<api, queueVars, packing, claimVars, failures, stored, joinVars, faults>>

ApplyFailure ==
  /\ \E about \in failures :
       /\ failures' = failures \ {about}
       /\ renditions' = [r \in Ladder |-> IF about = r THEN "failed" ELSE renditions[r]]
  /\ row' = [row EXCEPT !.completed = FALSE, !.reason = TRUE]
  /\ UNCHANGED <<api, queueVars, packing, claimVars, statusLog, stored, joinVars, faults>>

-----------------------------------------------------------------------------
Fault == faults < MaxFaults /\ faults' = faults + 1

(* The API process dies, or a publish of its fails, after the committed      *)
(* claim: before anything is published, or between the event and the status. *)
ApiDies ==
  /\ Fault
  /\ \/ api = "publish" /\ api' = "lost"
     \/ api = "status"  /\ api' = "done"
  /\ UNCHANGED <<queueVars, packing, claimVars, statusLog, failures, stored, joinVars, rowVars>>

(* A worker dies after what its handler did and before its commit.  Of what  *)
(* it had published and was not delivered at most f still is; the message    *)
(* comes again.  (If it dies before it did anything, the message is simply   *)
(* handled later, after the ladder's retries where it died with the claim of *)
(* a rendition: Transcode and RetryPump.)                                    *)
Crash(f) ==
  /\ Fault
  /\ flying' = {g \in flying : g[1] # f[1]}
  /\ \/ /\ todo' = todo \union {f[1]}
        /\ UNCHANGED statusLog
     \/ /\ todo' = todo \union {f[1]} \union Fan(f[2])
        /\ IF f[2].kind = "video.status"
             THEN Len(statusLog) < MaxLag /\ statusLog' = Append(statusLog, f[2])
             ELSE UNCHANGED statusLog
  /\ UNCHANGED <<api, dead, packing, claimVars, failures, stored, joinVars, rowVars>>

(* The packager is killed with a message in hand.  The message comes again;  *)
(* a claim it holds, nobody releases.                                        *)
Kill(p) ==
  /\ Fault
  /\ packing' = packing \ {p} /\ todo' = todo \union {p[1]}
  /\ abandoned' = (abandoned \/ p[2] = "promote")
  /\ UNCHANGED <<api, flying, dead, claimed, statusLog, failures, stored, joinVars, rowVars>>

(* Mutant of GivesUp: a failed attempt keeps its claim. *)
GivesUpWithTheClaim(p) == p \in packing /\ UNCHANGED claimVars

(* What a failing attempt leaves of the claim.  From the claim to the        *)
(* promotion it is released, if the release succeeds; a call of the claim    *)
(* itself may be committed and its answer lost (main.py:111 is outside the   *)
(* try).                                                                     *)
GivesUp(p) ==
  \/ p[2] # "promote" /\ UNCHANGED claimVars
  \/ p[2] = "claim" /\ claimed' = TRUE /\ abandoned' = TRUE
  \/ p[2] = "promote" /\ claimed' = FALSE /\ UNCHANGED abandoned
  \/ p[2] = "promote" /\ UNCHANGED claimed /\ abandoned' = TRUE

(* A handler fails, before it did anything that stays or in the packager's   *)
(* hands; back is what comes to the topics of it.                            *)
Fails(t, back) ==
  /\ Fault
  /\ \/ /\ t \in todo
        /\ todo' = (todo \ {t}) \union back
        /\ UNCHANGED <<packing, claimVars>>
     \/ \E p \in packing :
          /\ p[1] = t /\ GivesUp(p)
          /\ packing' = packing \ {p} /\ todo' = todo \union back
  /\ UNCHANGED <<api, flying, statusLog, stored, joinVars, rowVars>>

(* A failed message goes round the retry ladder and comes back to its topic, *)
(* which is every subscriber's, not only the one's that failed.              *)
Retry(t) ==
  /\ Fails(t, Fan(t[2]))
  /\ UNCHANGED <<dead, failures>>

(* Mutant of DeadLetter: nobody is told. *)
DeadLetterQuietly(t) ==
  /\ Fails(t, {})
  /\ dead' = dead \union {t[2]}
  /\ UNCHANGED failures

(* The ladder is exhausted or the error terminal: the message goes to the    *)
(* DLQ, and pipeline.failed says so.                                         *)
DeadLetter(t) ==
  /\ Fails(t, {})
  /\ dead' = dead \union {t[2]}
  /\ failures' = failures \union {t[2].about}

(* infra/replay.py: an operator looks at what has come to rest; the DLQ keeps *)
(* what is replayed, and it may be replayed any number of times.             *)
Replay(m) ==
  /\ todo = {} /\ flying = {} /\ packing = {}
  /\ todo' = todo \union Fan(m)
  /\ UNCHANGED <<api, flying, dead, packing, claimVars, statusLog, failures, stored, joinVars,
                 rowVars, faults>>

-----------------------------------------------------------------------------
Handle(m) ==
  \/ Probe(m) \/ Transcode(m) \/ Thumbnail(m)
  \/ Package(m) \/ Claim(m) \/ Promote(m)

Deliver == \E f \in flying : Delivered(f)

Work == ApiPublishes \/ (\E m \in Events : Handle(m)) \/ Deliver \/ ApplyStatus

Next ==
  \/ Work \/ ApplyFailure \/ ApiDies
  \/ \E m \in Events : Overtaken(m)
  \/ \E f \in flying : Crash(f)
  \/ \E p \in packing : Kill(p)
  \/ \E t \in todo \union InHand : Retry(t) \/ DeadLetter(t)
  \/ \E m \in dead : Replay(m)

Spec == Init /\ [][Next]_vars

(* Every group has a live member, the broker takes what is published, the    *)
(* projector runs; which of them is first is not said.                       *)
FairSpec == Spec /\ WF_vars(Work) /\ WF_vars(ApplyFailure)

-----------------------------------------------------------------------------
(* A master playlist exists, or is reported, only for the whole ladder, each *)
(* rendition of it in the store, in whatever order and how often the events  *)
(* of the join arrived (ADR-0013).                                           *)
MasterIsWhole ==
  "master" \in stored \/ row.master =>
    expected /\ ready = Ladder /\ Ladder \subseteq stored

Quiet ==
  /\ api = "done" /\ statusLog = <<>> /\ failures = {}
  /\ todo = {} /\ flying = {} /\ packing = {}

(* A packager was killed with the claim, could not release it, or does not   *)
(* know it has it, and nobody has packaged the video since.                  *)
ClaimLeftBehind ==
  /\ abandoned /\ claimed /\ "master" \notin stored
  /\ \A p \in packing : p[2] # "promote"

(* When everything has come to rest without a dead letter, the read model    *)
(* has all of it, whatever order the partial updates came in: the            *)
(* thumbnails, the plan, every rendition and the master                      *)
(* (repository.py:368-419).  Only a claim left behind can keep the master    *)
(* from it; a claim that was denied, released, overtaken or gone stale never *)
(* does (worker_package/main.py:95-138).                                     *)
RowIsFilledIn ==
  Quiet /\ dead = {} =>
    /\ row.thumbnails /\ row.expected /\ ~row.reason
    /\ \A r \in Ladder : renditions[r] = "completed"
    /\ row.master \/ ClaimLeftBehind

(* Every video whose upload was published comes to an end its owner can see, *)
(* a master playlist or a reason, even if a stage gives up on it (ADR-0005,  *)
(* ADR-0007:103-112), or comes to rest with a claim left behind, the only    *)
(* way a published video has to end unseen.                                  *)
OutcomeIsVisible ==
  <>(row.master \/ row.reason \/ api = "lost" \/ (Quiet /\ ClaimLeftBehind))

-----------------------------------------------------------------------------
(* What the code says of itself and does not keep.                           *)

(* "normal flow cannot regress state", and completed -> transcoding "does    *)
(* not occur otherwise" than by a replay (ADR-0007:123-129): without a fault *)
(* a completed video stays completed, at least once the events that were     *)
(* under way have arrived.                                                   *)
CompletedStays ==
  [][row.completed /\ flying = {} /\ api = "done" => row'.completed]_vars
=============================================================================
