----------------------------- MODULE UploadApi -----------------------------
(***************************************************************************)
(* The upload path of one owner: create, complete, list and cancel in      *)
(* services/api/main.py over VideoRepository (libs/pipeline/repository.py) *)
(* and session_scope (libs/pipeline/db.py), with the presigned PUT and the *)
(* object store as the browser sees them.                                  *)
(*                                                                         *)
(* A request is one READ COMMITTED transaction and what follows it.  Its   *)
(* uncommitted writes are wrote[r]; they lock their rows.  A statement     *)
(* that meets a locked row waits and then sees what was committed.  Every  *)
(* await of the handler (a statement, the commit, a call to the store or   *)
(* to Kafka) is a step of its own.                                         *)
(***************************************************************************)
EXTENDS Naturals, FiniteSets

CONSTANTS
  Videos,       \* the uuids create may draw
  NoVideo,      \* none of them
  Requests,     \* handlers that run at the same time
  Sizes,        \* what the browser may PUT: "declared", "other", "oversize"
  MaxInFlight,  \* quota_settings().max_videos_in_flight
  MaxAborts     \* bound on requests that die half-way

ASSUME UploadAssumption ==
  /\ Sizes \subseteq {"declared", "other", "oversize"}
  /\ MaxInFlight \in Nat \ {0} /\ MaxAborts \in Nat
  /\ IsFiniteSet(Requests) /\ NoVideo \notin Videos

VARIABLES
  row,        \* videos: each row's committed status
  window,     \* "open", or "closed": created_at + expiry is past
  url,        \* does the browser have a presigned URL that is still good?
  object,     \* what is stored at the presigned key
  overwritten, \* was there a PUT after a request had measured the object?
  published,  \* how often video.uploaded was published
  pc, target, \* each request's step and the video it is about
  wrote,      \* each transaction's uncommitted rows
  aborts

dbVars      == <<row, wrote>>
browserVars == <<window, url, object, overwritten>>
vars == <<dbVars, browserVars, published, pc, target, aborts>>

(* "absent" and "deleted" rows are not there; "uploaded" stands for probed   *)
(* and transcoding too, which the API treats alike, "over" for completed and *)
(* failed, which the projector makes of an uploaded row in the end.          *)
Statuses == {"absent", "awaiting_upload", "uploaded", "over", "expired", "deleted"}

InFlightStates == {"awaiting_upload", "uploaded"}

Steps == {"idle", "count", "insert", "commitCreate", "presign", "head",
          "discard", "claim", "commitComplete", "publish", "commitList",
          "delete", "commitCancel", "removeObject"}

(* A transaction that has written nothing. *)
Clean == [v \in Videos |-> "same"]

TypeOK ==
  /\ row \in [Videos -> Statuses]
  /\ window \in [Videos -> {"open", "closed"}]
  /\ url \in [Videos -> BOOLEAN]
  /\ object \in [Videos -> Sizes \union {"none"}]
  /\ overwritten \in [Videos -> BOOLEAN]
  /\ published \in [Videos -> Nat]
  /\ pc \in [Requests -> Steps]
  /\ target \in [Requests -> Videos \union {NoVideo}]
  /\ wrote \in [Requests -> [Videos -> Statuses \union {"same"}]]
  /\ aborts \in 0 .. MaxAborts

Init ==
  /\ row = [v \in Videos |-> "absent"]
  /\ window = [v \in Videos |-> "open"]
  /\ url = [v \in Videos |-> FALSE]
  /\ object = [v \in Videos |-> "none"]
  /\ overwritten = [v \in Videos |-> FALSE]
  /\ published = [v \in Videos |-> 0]
  /\ pc = [r \in Requests |-> "idle"]
  /\ target = [r \in Requests |-> NoVideo]
  /\ wrote = [r \in Requests |-> Clean]
  /\ aborts = 0

-----------------------------------------------------------------------------
(* What r's statements see, who holds v's row, and whether r may write it.   *)
View(r)        == [v \in Videos |-> IF wrote[r][v] = "same" THEN row[v] ELSE wrote[r][v]]
Locks(r, v)    == wrote[r][v] # "same"
Unlocked(r, v) == \A q \in Requests \ {r} : ~Locks(q, v)

Goto(r, step) == pc' = [pc EXCEPT ![r] = step]
About(r, v)   == target' = [target EXCEPT ![r] = v]

Write(r, rows, status) ==
  wrote' = [wrote EXCEPT ![r] = [v \in Videos |-> IF v \in rows THEN status
                                                 ELSE wrote[r][v]]]

Commit(r) ==
  /\ row' = View(r)
  /\ wrote' = [wrote EXCEPT ![r] = Clean]

Done(r) ==
  /\ Goto(r, "idle")
  /\ target' = [target EXCEPT ![r] = NoVideo]

Rollback(r) ==
  /\ wrote' = [wrote EXCEPT ![r] = Clean]
  /\ Done(r)

-----------------------------------------------------------------------------
(* expire_stale_awaiting_uploads: one UPDATE over the owner's rows. *)
Expire(r) ==
  LET stale == {v \in Videos : row[v] = "awaiting_upload" /\ window[v] # "open"} IN
  /\ \A v \in stale : Unlocked(r, v)
  /\ Write(r, stale, "expired")

(* A create is only started while there is a uuid left for it to draw. *)
StartCreate(r) ==
  /\ pc[r] = "idle"
  /\ Cardinality({q \in Requests : pc[q] \in {"count", "insert", "commitCreate"}})
       < Cardinality({v \in Videos : row[v] = "absent"})
  /\ Expire(r)
  /\ Goto(r, "count")
  /\ UNCHANGED <<row, browserVars, published, target, aborts>>

CountInFlight(r) ==
  Cardinality({v \in Videos : View(r)[v] \in InFlightStates})

(* With the quota used up the 429 rolls everything back, the expiry too. *)
CheckQuota(r) ==
  /\ pc[r] = "count"
  /\ IF CountInFlight(r) >= MaxInFlight
       THEN Rollback(r)
       ELSE Goto(r, "insert") /\ UNCHANGED <<wrote, target>>
  /\ UNCHANGED <<row, browserVars, published, aborts>>

Insert(r) ==
  /\ pc[r] = "insert"
  /\ \E v \in Videos :
       /\ row[v] = "absent"
       /\ \A q \in Requests : ~Locks(q, v)
       /\ Write(r, {v}, "awaiting_upload")
       /\ About(r, v)
  /\ Goto(r, "commitCreate")
  /\ UNCHANGED <<row, browserVars, published, aborts>>

CommitCreate(r) ==
  /\ pc[r] = "commitCreate"
  /\ Commit(r)
  /\ Goto(r, "presign")
  /\ UNCHANGED <<browserVars, published, target, aborts>>

Presign(r) ==
  /\ pc[r] = "presign"
  /\ url' = [url EXCEPT ![target[r]] = TRUE]
  /\ Done(r)
  /\ UNCHANGED <<dbVars, window, object, overwritten, published, aborts>>

-----------------------------------------------------------------------------
(* Requests for a row that is not there answer 404 and change nothing; they  *)
(* have no step.                                                             *)
StartComplete(r, v) ==
  /\ pc[r] = "idle" /\ row[v] \notin {"absent", "deleted"}
  /\ About(r, v)
  /\ Goto(r, "head")
  /\ UNCHANGED <<dbVars, browserVars, published, aborts>>

(* Mutant of Head: the ceiling is left to the URL, which does not keep it.   *)
HeadOnly(r) ==
  /\ pc[r] = "head"
  /\ IF object[target[r]] = "none" THEN Rollback(r)
     ELSE Goto(r, "claim") /\ UNCHANGED <<wrote, target>>
  /\ UNCHANGED <<row, browserVars, published, aborts>>

Head(r) ==
  /\ pc[r] = "head"
  /\ CASE object[target[r]] = "none"     -> Rollback(r)
       [] object[target[r]] = "oversize" -> Goto(r, "discard") /\ UNCHANGED <<wrote, target>>
       [] OTHER                          -> Goto(r, "claim") /\ UNCHANGED <<wrote, target>>
  /\ UNCHANGED <<row, browserVars, published, aborts>>

Discard(r) ==
  /\ pc[r] = "discard"
  /\ object' = [object EXCEPT ![target[r]] = "none"]
  /\ Rollback(r)
  /\ UNCHANGED <<row, window, url, overwritten, published, aborts>>

(* Mutant of ClaimUploadComplete: whoever found the row there completes it.  *)
ClaimUnconditionally(r) ==
  LET v == target[r] IN
  /\ pc[r] = "claim" /\ Unlocked(r, v)
  /\ Write(r, {v}, "uploaded") /\ Goto(r, "commitComplete") /\ UNCHANGED target
  /\ UNCHANGED <<row, browserVars, published, aborts>>

(* claim_upload_complete, and the re-read: without the claim there is only   *)
(* an answer left to give.                                                   *)
ClaimUploadComplete(r) ==
  LET v == target[r] IN
  /\ pc[r] = "claim" /\ Unlocked(r, v)
  /\ IF row[v] = "awaiting_upload"
       THEN Write(r, {v}, "uploaded") /\ Goto(r, "commitComplete") /\ UNCHANGED target
       ELSE Rollback(r)
  /\ UNCHANGED <<row, browserVars, published, aborts>>

(* Mutant of CommitComplete: the answer of the claim is dropped. *)
ForgetClaim(r) ==
  /\ pc[r] = "commitComplete"
  /\ Commit(r)
  /\ Done(r)
  /\ UNCHANGED <<browserVars, published, aborts>>

CommitComplete(r) ==
  /\ pc[r] = "commitComplete"
  /\ Commit(r)
  /\ Goto(r, "publish")
  /\ UNCHANGED <<browserVars, published, target, aborts>>

(* video.uploaded, then video.status; nothing here depends on the second.    *)
Publish(r) ==
  /\ pc[r] = "publish"
  /\ published' = [published EXCEPT ![target[r]] = @ + 1]
  /\ Done(r)
  /\ UNCHANGED <<dbVars, browserVars, aborts>>

-----------------------------------------------------------------------------
(* Mutant of StartList: only create expires. *)
ListOnly(r) ==
  /\ pc[r] = "idle"
  /\ Goto(r, "commitList")
  /\ UNCHANGED <<dbVars, browserVars, published, target, aborts>>

StartList(r) ==
  /\ pc[r] = "idle"
  /\ Expire(r)
  /\ Goto(r, "commitList")
  /\ UNCHANGED <<row, browserVars, published, target, aborts>>

CommitList(r) ==
  /\ pc[r] = "commitList"
  /\ Commit(r)
  /\ Done(r)
  /\ UNCHANGED <<browserVars, published, aborts>>

(* A row that is past awaiting_upload answers 409 and changes nothing. *)
StartCancel(r, v) ==
  /\ pc[r] = "idle" /\ row[v] = "awaiting_upload"
  /\ About(r, v)
  /\ Goto(r, "delete")
  /\ UNCHANGED <<dbVars, browserVars, published, aborts>>

(* Mutant of DeleteAwaiting: trusts the status it read before. *)
DeleteRegardless(r) ==
  /\ pc[r] = "delete" /\ Unlocked(r, target[r])
  /\ Write(r, {target[r]}, "deleted") /\ Goto(r, "commitCancel") /\ UNCHANGED target
  /\ UNCHANGED <<row, browserVars, published, aborts>>

DeleteAwaiting(r) ==
  LET v == target[r] IN
  /\ pc[r] = "delete" /\ Unlocked(r, v)
  /\ IF row[v] = "awaiting_upload"
       THEN Write(r, {v}, "deleted") /\ Goto(r, "commitCancel") /\ UNCHANGED target
       ELSE Rollback(r)
  /\ UNCHANGED <<row, browserVars, published, aborts>>

CommitCancel(r) ==
  /\ pc[r] = "commitCancel"
  /\ Commit(r)
  /\ Goto(r, "removeObject")
  /\ UNCHANGED <<browserVars, published, target, aborts>>

RemoveObject(r) ==
  /\ pc[r] = "removeObject"
  /\ object' = [object EXCEPT ![target[r]] = "none"]
  /\ Done(r)
  /\ UNCHANGED <<dbVars, window, url, overwritten, published, aborts>>

-----------------------------------------------------------------------------
(* The process dies, the client disconnects, or a call raises: an open       *)
(* transaction is rolled back, a committed one stays.                        *)
Abort(r) ==
  /\ pc[r] # "idle" /\ aborts < MaxAborts
  /\ aborts' = aborts + 1
  /\ Rollback(r)
  /\ UNCHANGED <<row, browserVars, published>>

(* Somebody has looked at v's object and acts on what was seen. *)
Measured(v) ==
  \/ published[v] > 0
  \/ \E r \in Requests :
       target[r] = v /\ pc[r] \in {"discard", "claim", "commitComplete", "publish"}

(* The browser: the URL admits any number of PUTs of any size, and outlives  *)
(* the row's own window.  Bounded here: nobody publishes the object of a row *)
(* that is deleted or expired, and one that was replaced after it had been   *)
(* measured is not replaced again.                                           *)
Put(v, size) ==
  /\ url[v] /\ row[v] \notin {"deleted", "expired"}
  /\ object[v] # size /\ ~overwritten[v]
  /\ object' = [object EXCEPT ![v] = size]
  /\ overwritten' = [overwritten EXCEPT ![v] = @ \/ Measured(v)]
  /\ UNCHANGED <<dbVars, window, url, published, pc, target, aborts>>

(* The URL was signed after the row was made, and expires after it.          *)
TimePasses(v) ==
  /\ row[v] \notin {"absent", "deleted", "expired"}
  /\ \/ window[v] = "open" /\ window' = [window EXCEPT ![v] = "closed"] /\ UNCHANGED url
     \/ window[v] = "closed" /\ url[v] /\ url' = [url EXCEPT ![v] = FALSE] /\ UNCHANGED window
  /\ UNCHANGED <<dbVars, object, overwritten, published, pc, target, aborts>>

(* The projector, on what the pipeline makes of video.uploaded. *)
Project(v) ==
  /\ published[v] > 0 /\ \A q \in Requests : ~Locks(q, v)
  /\ row[v] = "uploaded" /\ row' = [row EXCEPT ![v] = "over"]
  /\ UNCHANGED <<wrote, browserVars, published, pc, target, aborts>>

Step(r) ==
  \/ CheckQuota(r) \/ Insert(r) \/ CommitCreate(r) \/ Presign(r)
  \/ Head(r) \/ Discard(r) \/ ClaimUploadComplete(r) \/ CommitComplete(r)
  \/ Publish(r)
  \/ CommitList(r)
  \/ DeleteAwaiting(r) \/ CommitCancel(r) \/ RemoveObject(r)

Next ==
  \/ \E r \in Requests :
       \/ StartCreate(r) \/ StartList(r)
       \/ \E v \in Videos : StartComplete(r, v) \/ StartCancel(r, v)
       \/ Step(r)
       \/ Abort(r)
  \/ \E v \in Videos :
       \/ \E size \in Sizes : Put(v, size)
       \/ TimePasses(v)
       \/ Project(v)

Spec == Init /\ [][Next]_vars

(* Started requests go on. *)
RequestFairness == \A r \in Requests : WF_vars(Step(r))

-----------------------------------------------------------------------------
(* "two concurrent /complete calls must produce exactly one video.uploaded   *)
(* event", and a cancel or an expiry racing them "must not leave both an     *)
(* event published and the row gone" (main.py:284-285, 351-352): a video     *)
(* that was published, or is about to be, has its row, past awaiting_upload. *)
PublishedRowStays ==
  \A v \in Videos :
    (published[v] > 0 \/ \E r \in Requests : pc[r] = "publish" /\ target[r] = v)
      => row[v] \in {"uploaded", "over"}

(* At most one request ever holds the right to publish a video (:292).       *)
OnePublisher ==
  \A v \in Videos :
    published[v]
      + Cardinality({r \in Requests : pc[r] \in {"commitComplete", "publish"}
                                      /\ target[r] = v}) <= 1

(* No upload is left behind while every request runs to its end: an uploaded *)
(* row was published, or the request that is about to is still there.        *)
UploadedIsPublished ==
  \A v \in Videos :
    row[v] = "uploaded" =>
      published[v] > 0 \/ \E r \in Requests : pc[r] = "publish" /\ target[r] = v

PublishedUnlessAborted == aborts = 0 => UploadedIsPublished

(* What was published is in the store, and within the ceiling, whoever else  *)
(* completes, cancels, expires or discards at the same time (main.py:263-292 *)
(* and 361-369).  Stated of videos whose object was not replaced after a     *)
(* request had measured it: nothing guards against that.                     *)
PublishedObjectIsThere ==
  \A v \in Videos :
    published[v] > 0 /\ ~overwritten[v] => object[v] \in Sizes \ {"oversize"}

(* A dead upload "must not occupy quota forever" (test_upload.py:262-263).   *)
DeadUploadsLeave ==
  \A v \in Videos :
    row[v] = "awaiting_upload" /\ window[v] # "open" ~> row[v] # "awaiting_upload"
=============================================================================
