----------------------------- MODULE ApiProofs -----------------------------
(***************************************************************************)
(* Proofs about the API's two parts.  UploadApi: whatever requests         *)
(* overlap, and however many, a video has one publisher, and keeps its row *)
(* and its object.  EventStreams: no slot for a stream is lost.            *)
(*                                                                         *)
(* The argument about uploads is one of rely and guarantee.  A request     *)
(* changes rows only where it holds their locks (ByLock), so what another  *)
(* request relies on, its own part of the invariant (Own), stays.  What is *)
(* left to show of a step is the part of the request that takes it.        *)
(***************************************************************************)
EXTENDS UploadApi, EventStreams, FiniteSetTheorems, TLAPS

-----------------------------------------------------------------------------
(* The inductive invariant. *)

(* What a request knows of its target. *)
TargetKnown(r) ==
  /\ pc[r] \in {"commitCreate", "presign", "head", "discard", "claim", "commitComplete",
                "publish", "delete", "commitCancel", "removeObject"} => target[r] \in Videos
  /\ pc[r] = "removeObject" => row[target[r]] = "deleted"

(* What a transaction has written, by the step of its request: it locks rows *)
(* only between its statements and its commit.                               *)
WrittenAs(r, v) ==
  \/ /\ pc[r] \in {"count", "insert", "commitCreate", "commitList"}
     /\ wrote[r][v] = "expired" /\ row[v] = "awaiting_upload"
  \/ /\ pc[r] = "commitCreate"
     /\ wrote[r][v] = "awaiting_upload" /\ row[v] = "absent"
  \/ /\ pc[r] = "commitComplete" /\ target[r] = v
     /\ wrote[r][v] = "uploaded" /\ row[v] = "awaiting_upload"
  \/ /\ pc[r] = "commitCancel" /\ target[r] = v
     /\ wrote[r][v] = "deleted" /\ row[v] = "awaiting_upload"

Own(r) ==
  /\ TargetKnown(r)
  /\ \A v \in Videos : Locks(r, v) => WrittenAs(r, v)
  /\ pc[r] \in {"commitComplete", "commitCancel"} => Locks(r, target[r])

(* A row is locked by one transaction at a time. *)
LocksExclude ==
  \A q, r \in Requests, v \in Videos : Locks(q, v) /\ Locks(r, v) => q = r

Publishes(r, v) == pc[r] = "publish" /\ target[r] = v

PublisherAlone ==
  \A v \in Videos :
    /\ published[v] \in {0, 1}
    /\ \A r \in Requests : Publishes(r, v) =>
         /\ published[v] = 0
         /\ \A q \in Requests : Publishes(q, v) => q = r

(* Whoever has measured an object that nobody has replaced since finds it as *)
(* it was, unless the video is cancelled; who found too large a one will not *)
(* delete a good one.                                                        *)
Accepts(r, v) == target[r] = v /\ pc[r] \in {"claim", "commitComplete", "publish"}

Good == Sizes \ {"oversize"}

MeasuredStays ==
  \A v \in Videos :
    ~overwritten[v] =>
      /\ row[v] # "deleted" /\ (published[v] > 0 \/ \E r \in Requests : Accepts(r, v))
           => object[v] \in Good
      /\ \A r \in Requests : pc[r] = "discard" /\ target[r] = v => object[v] \notin Good

IInv ==
  /\ TypeOK
  /\ \A r \in Requests : Own(r)
  /\ LocksExclude
  /\ PublisherAlone
  /\ PublishedRowStays
  /\ MeasuredStays
  /\ PublishedUnlessAborted

-----------------------------------------------------------------------------
(* What the building blocks of the steps do, point by point. *)

WroteType == [Requests -> [Videos -> Statuses \union {"same"}]]

(* Nobody but r moves. *)
OnlyMoves(r) ==
  \A q \in Requests \ {r} :
    pc'[q] = pc[q] /\ target'[q] = target[q] /\ wrote'[q] = wrote[q]

(* r changes the rows it has locked, to what it wrote. *)
ByLock(r) ==
  \A v \in Videos : row'[v] = row[v] \/ (Locks(r, v) /\ row'[v] = wrote[r][v])

(* r locks only what is free. *)
LocksFree(r) ==
  \A v \in Videos : Locks(r, v)' => Locks(r, v) \/ Unlocked(r, v)

(* r's step is the one it goes to; nobody else's changes.                   *)
LEMMA GotoFacts ==
  ASSUME TypeOK, NEW r \in Requests, NEW step \in Steps, Goto(r, step)
  PROVE  /\ pc' \in [Requests -> Steps]
         /\ pc'[r] = step
         /\ \A q \in Requests \ {r} : pc'[q] = pc[q]
  BY DEF TypeOK, Goto

(* r's target is v; nobody else's changes.                                  *)
LEMMA AboutFacts ==
  ASSUME TypeOK, NEW r \in Requests, NEW v \in Videos, About(r, v)
  PROVE  /\ target' \in [Requests -> Videos \union {NoVideo}]
         /\ target'[r] = v
         /\ \A q \in Requests \ {r} : target'[q] = target[q]
  BY DEF TypeOK, About

(* A request that is answered is idle, the others as they were.             *)
LEMMA DoneFacts ==
  ASSUME TypeOK, NEW r \in Requests, Done(r)
  PROVE  /\ pc' \in [Requests -> Steps]
         /\ pc'[r] = "idle"
         /\ \A q \in Requests \ {r} : pc'[q] = pc[q]
         /\ target' \in [Requests -> Videos \union {NoVideo}]
         /\ \A q \in Requests \ {r} : target'[q] = target[q]
  BY DEF TypeOK, Done, Goto, Steps

(* A statement writes its rows for r's transaction, and nothing else.       *)
LEMMA WriteFacts ==
  ASSUME TypeOK, NEW r \in Requests, NEW rows \in SUBSET Videos, NEW status \in Statuses,
         Write(r, rows, status)
  PROVE  /\ wrote' \in WroteType
         /\ \A v \in Videos : wrote'[r][v] = IF v \in rows THEN status ELSE wrote[r][v]
         /\ \A q \in Requests \ {r} : wrote'[q] = wrote[q]
  BY DEF TypeOK, Write, WroteType

(* A rollback clears what r wrote, nobody else's, and ends the request.     *)
LEMMA RollbackFacts ==
  ASSUME TypeOK, NEW r \in Requests, Rollback(r)
  PROVE  /\ wrote' \in WroteType
         /\ \A v \in Videos : wrote'[r][v] = "same"
         /\ \A q \in Requests \ {r} : wrote'[q] = wrote[q]
         /\ Done(r)
  BY DEF TypeOK, Rollback, Clean, WroteType

(* A commit makes rows of what r wrote, where r wrote, and clears it.       *)
LEMMA CommitFacts ==
  ASSUME TypeOK, NEW r \in Requests, Commit(r)
  PROVE  /\ row' \in [Videos -> Statuses]
         /\ \A v \in Videos :
              row'[v] = IF Locks(r, v) THEN wrote[r][v] ELSE row[v]
         /\ wrote' \in WroteType
         /\ \A v \in Videos : wrote'[r][v] = "same"
         /\ \A q \in Requests \ {r} : wrote'[q] = wrote[q]
  BY DEF TypeOK, Commit, View, Locks, Clean, WroteType

(* The expiry writes, if anything, awaiting rows that nobody has locked.    *)
LEMMA ExpireFacts ==
  ASSUME TypeOK, NEW r \in Requests, Expire(r)
  PROVE  /\ wrote' \in WroteType
         /\ \A q \in Requests \ {r} : wrote'[q] = wrote[q]
         /\ \A v \in Videos :
              \/ wrote'[r][v] = wrote[r][v]
              \/ /\ wrote'[r][v] = "expired"
                 /\ row[v] = "awaiting_upload" /\ Unlocked(r, v)
  <1> DEFINE stale == {v \in Videos : row[v] = "awaiting_upload" /\ window[v] # "open"}
  <1>1. stale \in SUBSET Videos /\ "expired" \in Statuses
    BY DEF Statuses
  <1>2. Write(r, stale, "expired")
    BY DEF Expire
  <1>3. \A v \in Videos : v \in stale => row[v] = "awaiting_upload" /\ Unlocked(r, v)
    BY DEF Expire
  <1> HIDE DEF stale
  <1>4. QED
    BY <1>1, <1>2, <1>3, WriteFacts

-----------------------------------------------------------------------------
(* What a step of r leaves the others, and when it keeps the whole. *)

(* A step of r within its locks leaves any other request its part.          *)
LEMMA OthersKeepTheirs ==
  ASSUME IInv, NEW r \in Requests, OnlyMoves(r), ByLock(r), NEW q \in Requests \ {r}
  PROVE  Own(q)'
  <1>1. Own(q) /\ Own(r) /\ LocksExclude
    BY DEF IInv
  <1>2. pc'[q] = pc[q] /\ target'[q] = target[q] /\ wrote'[q] = wrote[q]
    BY DEF OnlyMoves
  <1>3. \A v \in Videos : Locks(q, v)' <=> Locks(q, v)
    BY <1>2 DEF Locks
  <1>4. \A v \in Videos : Locks(q, v) => row'[v] = row[v]
    BY <1>1 DEF LocksExclude, ByLock
  <1>5. \A v \in Videos : Locks(q, v)' => WrittenAs(q, v)'
    BY <1>1, <1>2, <1>3, <1>4 DEF Own, WrittenAs
  <1>6. \A v \in Videos : row[v] = "deleted" => row'[v] = "deleted"
    BY <1>1 DEF Own, WrittenAs, ByLock
  <1>7. TargetKnown(q)'
    BY <1>1, <1>2, <1>6 DEF Own, TargetKnown
  <1>8. pc[q] \in {"commitComplete", "commitCancel"} => target[q] \in Videos
    BY <1>1 DEF Own, TargetKnown
  <1>9. pc'[q] \in {"commitComplete", "commitCancel"} => Locks(q, target[q])'
    BY <1>1, <1>2, <1>3, <1>8 DEF Own
  <1>10. QED
    BY <1>2, <1>5, <1>7, <1>9 DEF Own

(* A step of r that locks only free rows leaves no row locked twice.        *)
LEMMA LocksStillExclude ==
  ASSUME IInv, NEW r \in Requests, OnlyMoves(r), LocksFree(r)
  PROVE  LocksExclude'
  BY DEF IInv, OnlyMoves, LocksFree, LocksExclude, Locks, Unlocked

(* A row that was published, or is about to be, is locked by nobody. *)
LEMMA PublishedUnlocked ==
  ASSUME IInv, NEW v \in Videos, row[v] \in {"uploaded", "over"}, NEW r \in Requests
  PROVE  ~Locks(r, v)
  BY DEF IInv, Own, WrittenAs

(* A step that publishes nothing keeps the invariant if the request that     *)
(* takes it keeps its part, and becomes a publisher only by the commit of    *)
(* its claim.                                                                *)
LEMMA RequestStepKeeps ==
  ASSUME IInv, TypeOK', NEW r \in Requests,
         OnlyMoves(r), ByLock(r), LocksFree(r),
         Own(r)', MeasuredStays',
         published' = published,
         aborts' = 0 => aborts = 0 /\ pc[r] # "publish",
         \A v \in Videos : Publishes(r, v)' <=>
                           Locks(r, v) /\ wrote[r][v] = "uploaded" /\ row'[v] = "uploaded"
  PROVE  IInv'
  <1>1. \A q \in Requests : Own(q)'
    BY OthersKeepTheirs
  <1>2. LocksExclude'
    BY LocksStillExclude
  <1>3. \A v \in Videos : row[v] \in {"uploaded", "over"} => row'[v] = row[v]
    BY PublishedUnlocked DEF ByLock
  <1>4. \A q \in Requests \ {r}, v \in Videos : Publishes(q, v)' <=> Publishes(q, v)
    BY DEF OnlyMoves, Publishes
  <1>5. \A v \in Videos : Publishes(r, v)' =>
          row[v] = "awaiting_upload" /\ row'[v] = "uploaded"
    BY DEF IInv, Own, WrittenAs
  <1>6. PublishedRowStays <=> \A v \in Videos :
          published[v] > 0 \/ (\E q \in Requests : Publishes(q, v))
            => row[v] \in {"uploaded", "over"}
    BY DEF PublishedRowStays, Publishes
  <1>7. PublishedRowStays' <=> \A v \in Videos :
          published'[v] > 0 \/ (\E q \in Requests : Publishes(q, v)')
            => row'[v] \in {"uploaded", "over"}
    BY DEF PublishedRowStays, Publishes
  <1>8. PublishedRowStays'
    BY <1>3, <1>4, <1>5, <1>6, <1>7 DEF IInv
  <1>9. PublisherAlone'
    BY <1>3, <1>4, <1>5, <1>6 DEF IInv, PublisherAlone
  <1>10. PublishedUnlessAborted'
    <2> SUFFICES ASSUME aborts' = 0, NEW v \in Videos, row'[v] = "uploaded"
                 PROVE  published'[v] > 0 \/ \E q \in Requests : Publishes(q, v)'
      BY DEF PublishedUnlessAborted, UploadedIsPublished, Publishes
    <2>1. CASE row[v] = "uploaded"
      <3>1. published[v] > 0 \/ \E q \in Requests : Publishes(q, v)
        BY <2>1 DEF IInv, PublishedUnlessAborted, UploadedIsPublished, Publishes
      <3>2. QED
        BY <3>1, <1>4 DEF Publishes
    <2>2. CASE row[v] # "uploaded"
      BY <2>2 DEF ByLock
    <2>3. QED
      BY <2>1, <2>2
  <1>11. QED
    BY <1>1, <1>2, <1>8, <1>9, <1>10 DEF IInv

(* An object is accepted when it is measured, and refused for what it is.    *)
LEMMA MeasuredKept ==
  ASSUME IInv, NEW r \in Requests, OnlyMoves(r), ByLock(r),
         UNCHANGED <<object, overwritten, published>>,
         \A v \in Videos : Accepts(r, v)' => Accepts(r, v) \/ object[v] \in Good,
         \A v \in Videos : pc'[r] = "discard" /\ target'[r] = v => object[v] \notin Good
  PROVE  MeasuredStays'
  <1>1. \A v \in Videos : row[v] = "deleted" => row'[v] = "deleted"
    BY DEF IInv, Own, WrittenAs, ByLock
  <1>2. \A q \in Requests \ {r}, v \in Videos : Accepts(q, v)' <=> Accepts(q, v)
    BY DEF OnlyMoves, Accepts
  <1>3. \A q \in Requests \ {r} : pc'[q] = pc[q] /\ target'[q] = target[q]
    BY DEF OnlyMoves
  <1>4. Good' = Good
    BY DEF Good
  <1>5. MeasuredStays
    BY DEF IInv
  <1>6. QED
    BY <1>1, <1>2, <1>3, <1>4, <1>5 DEF MeasuredStays

-----------------------------------------------------------------------------
(* The kinds of step: a quiet one commits nothing. *)

(* A step of r that changes no row and publishes nothing keeps the whole.   *)
LEMMA QuietStepKeeps ==
  ASSUME IInv, TypeOK', NEW r \in Requests,
         OnlyMoves(r), LocksFree(r), Own(r)', MeasuredStays',
         UNCHANGED <<row, published>>,
         aborts' = 0 => aborts = 0 /\ pc[r] # "publish",
         pc'[r] # "publish"
  PROVE  IInv'
  <1>1. ByLock(r)
    BY DEF ByLock
  <1>2. \A v \in Videos : Locks(r, v) => wrote[r][v] # "uploaded" \/ row'[v] # "uploaded"
    BY DEF IInv, Own, WrittenAs
  <1>3. \A v \in Videos : ~Publishes(r, v)'
    BY DEF Publishes
  <1>4. QED
    BY <1>1, <1>2, <1>3, RequestStepKeeps

(* So does a request that ends with a rollback: an error, an abort.         *)
LEMMA RollbackKeeps ==
  ASSUME IInv, NEW r \in Requests, Rollback(r),
         UNCHANGED <<row, browserVars, published>>,
         aborts' \in 0 .. MaxAborts,
         aborts' = 0 => aborts = 0 /\ pc[r] # "publish"
  PROVE  IInv'
  <1>1. TypeOK
    BY DEF IInv
  <1>2. /\ wrote' \in WroteType
        /\ \A v \in Videos : wrote'[r][v] = "same"
        /\ \A q \in Requests \ {r} : wrote'[q] = wrote[q]
        /\ Done(r)
    BY <1>1, RollbackFacts
  <1>3. /\ pc' \in [Requests -> Steps]
        /\ pc'[r] = "idle"
        /\ \A q \in Requests \ {r} : pc'[q] = pc[q]
        /\ target' \in [Requests -> Videos \union {NoVideo}]
        /\ \A q \in Requests \ {r} : target'[q] = target[q]
    BY <1>1, <1>2, DoneFacts
  <1>4. TypeOK'
    BY <1>1, <1>2, <1>3 DEF TypeOK, WroteType, browserVars
  <1>5. OnlyMoves(r) /\ LocksFree(r) /\ ByLock(r)
    BY <1>2, <1>3 DEF OnlyMoves, LocksFree, Locks, ByLock
  <1>6. Own(r)'
    BY <1>2, <1>3 DEF Own, TargetKnown, Locks
  <1>7. MeasuredStays'
    BY <1>3, <1>5, MeasuredKept DEF browserVars, Accepts
  <1>8. QED
    BY <1>3, <1>4, <1>5, <1>6, <1>7, QuietStepKeeps

(* A step that only goes on to the next one, its locks and target as before. *)
LEMMA AdvanceKeeps ==
  ASSUME IInv, NEW r \in Requests, NEW step \in Steps, Goto(r, step),
         UNCHANGED <<dbVars, browserVars, published, target, aborts>>,
         pc[r] # "publish",
         \/ pc[r] = "count" /\ step = "insert"
         \/ pc[r] = "head" /\ step = "discard" /\ object[target[r]] \notin Good
         \/ pc[r] = "head" /\ step = "claim" /\ object[target[r]] \in Good
  PROVE  IInv'
  <1>1. TypeOK /\ Own(r)
    BY DEF IInv
  <1>2. /\ pc' \in [Requests -> Steps]
        /\ pc'[r] = step
        /\ \A q \in Requests \ {r} : pc'[q] = pc[q]
    BY <1>1, GotoFacts
  <1>3. TypeOK'
    BY <1>1, <1>2 DEF TypeOK, dbVars, browserVars
  <1>4. OnlyMoves(r) /\ LocksFree(r) /\ ByLock(r)
    BY <1>2 DEF OnlyMoves, LocksFree, Locks, ByLock, dbVars
  <1>5. Own(r)'
    BY <1>1, <1>2 DEF Own, TargetKnown, Locks, WrittenAs, dbVars
  <1>6. MeasuredStays'
    <2>1. \A v \in Videos : Accepts(r, v)' => Accepts(r, v) \/ object[v] \in Good
      BY <1>2 DEF Accepts
    <2>2. \A v \in Videos : pc'[r] = "discard" /\ target'[r] = v => object[v] \notin Good
      BY <1>2
    <2>3. QED
      BY <1>4, <2>1, <2>2, MeasuredKept DEF browserVars
  <1>7. QED
    BY <1>2, <1>3, <1>4, <1>5, <1>6, QuietStepKeeps DEF dbVars

(* The UPDATE that expires, of a transaction that has written nothing. *)
LEMMA ExpiringKeeps ==
  ASSUME IInv, NEW r \in Requests, NEW step \in {"count", "commitList"},
         pc[r] = "idle", Expire(r), Goto(r, step),
         UNCHANGED <<row, browserVars, published, target, aborts>>
  PROVE  IInv'
  <1>1. TypeOK /\ Own(r)
    BY DEF IInv
  <1>2. /\ pc' \in [Requests -> Steps]
        /\ pc'[r] = step
        /\ \A q \in Requests \ {r} : pc'[q] = pc[q]
    BY <1>1, GotoFacts DEF Steps
  <1>3. /\ wrote' \in WroteType
        /\ \A q \in Requests \ {r} : wrote'[q] = wrote[q]
        /\ \A v \in Videos :
             \/ wrote'[r][v] = wrote[r][v]
             \/ /\ wrote'[r][v] = "expired"
                /\ row[v] = "awaiting_upload" /\ Unlocked(r, v)
    BY <1>1, ExpireFacts
  <1>4. TypeOK'
    BY <1>1, <1>2, <1>3 DEF TypeOK, WroteType, browserVars
  <1>5. OnlyMoves(r) /\ LocksFree(r) /\ ByLock(r)
    BY <1>2, <1>3 DEF OnlyMoves, LocksFree, Locks, ByLock
  <1>6. Own(r)'
    BY <1>1, <1>2, <1>3 DEF Own, TargetKnown, Locks, WrittenAs
  <1>7. MeasuredStays'
    BY <1>2, <1>5, MeasuredKept DEF browserVars, Accepts
  <1>8. QED
    BY <1>2, <1>4, <1>5, <1>6, <1>7, QuietStepKeeps

(* A request about a row that is there starts. *)
LEMMA StartingKeeps ==
  ASSUME IInv, NEW r \in Requests, NEW v \in Videos, NEW step \in {"head", "delete"},
         pc[r] = "idle", About(r, v), Goto(r, step),
         UNCHANGED <<dbVars, browserVars, published, aborts>>
  PROVE  IInv'
  <1>1. TypeOK /\ Own(r)
    BY DEF IInv
  <1>2. /\ pc' \in [Requests -> Steps]
        /\ pc'[r] = step
        /\ \A q \in Requests \ {r} : pc'[q] = pc[q]
    BY <1>1, GotoFacts DEF Steps
  <1>3. /\ target' \in [Requests -> Videos \union {NoVideo}]
        /\ target'[r] = v
        /\ \A q \in Requests \ {r} : target'[q] = target[q]
    BY <1>1, AboutFacts
  <1>4. TypeOK'
    BY <1>1, <1>2, <1>3 DEF TypeOK, dbVars, browserVars
  <1>5. OnlyMoves(r) /\ LocksFree(r) /\ ByLock(r)
    BY <1>2, <1>3 DEF OnlyMoves, LocksFree, Locks, ByLock, dbVars
  <1>6. Own(r)'
    BY <1>1, <1>2, <1>3 DEF Own, TargetKnown, Locks, WrittenAs, dbVars
  <1>7. MeasuredStays'
    BY <1>2, <1>5, MeasuredKept DEF browserVars, Accepts
  <1>8. QED
    BY <1>2, <1>4, <1>5, <1>6, <1>7, QuietStepKeeps DEF dbVars

(* The conditional UPDATE or DELETE of a row nobody else has locked. *)
LEMMA ConditionalWriteKeeps ==
  ASSUME IInv, NEW r \in Requests, NEW v \in Videos, target[r] = v,
         Unlocked(r, v), row[v] = "awaiting_upload", UNCHANGED target,
         UNCHANGED <<row, browserVars, published, aborts>>,
         \/ /\ pc[r] = "claim"
            /\ Write(r, {v}, "uploaded") /\ Goto(r, "commitComplete")
         \/ /\ pc[r] = "delete"
            /\ Write(r, {v}, "deleted") /\ Goto(r, "commitCancel")
  PROVE  IInv'
  <1>1. TypeOK /\ Own(r)
    BY DEF IInv
  <1>2. PICK status \in Statuses, step \in {"commitComplete", "commitCancel"} :
          /\ Write(r, {v}, status) /\ Goto(r, step)
          /\ \/ pc[r] = "claim" /\ step = "commitComplete" /\ status = "uploaded"
             \/ pc[r] = "delete" /\ step = "commitCancel" /\ status = "deleted"
    BY DEF Statuses
  <1>3. /\ pc' \in [Requests -> Steps]
        /\ pc'[r] = step
        /\ \A q \in Requests \ {r} : pc'[q] = pc[q]
    BY <1>1, <1>2, GotoFacts DEF Steps
  <1>4. /\ wrote' \in WroteType
        /\ \A w \in Videos : wrote'[r][w] = IF w = v THEN status ELSE wrote[r][w]
        /\ \A q \in Requests \ {r} : wrote'[q] = wrote[q]
    BY <1>1, <1>2, WriteFacts
  <1>5. \A w \in Videos : wrote[r][w] = "same"
    BY <1>1, <1>2 DEF Own, Locks, WrittenAs
  <1>6. TypeOK'
    BY <1>1, <1>3, <1>4 DEF TypeOK, WroteType, browserVars
  <1>7. OnlyMoves(r) /\ LocksFree(r) /\ ByLock(r)
    BY <1>3, <1>4, <1>5 DEF OnlyMoves, LocksFree, Locks, ByLock
  <1>8. Own(r)'
    <2>1. Locks(r, v)'
      BY <1>2, <1>4 DEF Locks
    <2>2. \A w \in Videos : Locks(r, w)' => WrittenAs(r, w)'
      BY <1>2, <1>3, <1>4, <1>5 DEF Locks, WrittenAs
    <2>3. QED
      BY <1>2, <1>3, <2>1, <2>2 DEF Own, TargetKnown
  <1>9. MeasuredStays'
    BY <1>2, <1>3, <1>7, MeasuredKept DEF browserVars, Accepts
  <1>10. QED
    BY <1>2, <1>3, <1>6, <1>7, <1>8, <1>9, QuietStepKeeps

(* create draws a uuid that no row and no other transaction has.            *)
LEMMA InsertKeeps ==
  ASSUME IInv, NEW r \in Requests, Insert(r)
  PROVE  IInv'
  <1>1. TypeOK /\ Own(r)
    BY DEF IInv
  <1>2. PICK v \in Videos :
          /\ row[v] = "absent" /\ \A q \in Requests : ~Locks(q, v)
          /\ Write(r, {v}, "awaiting_upload") /\ About(r, v)
    BY DEF Insert
  <1>3. /\ pc' \in [Requests -> Steps]
        /\ pc'[r] = "commitCreate"
        /\ \A q \in Requests \ {r} : pc'[q] = pc[q]
    BY <1>1, GotoFacts DEF Insert, Steps
  <1>4. /\ target' \in [Requests -> Videos \union {NoVideo}]
        /\ target'[r] = v
        /\ \A q \in Requests \ {r} : target'[q] = target[q]
    BY <1>1, <1>2, AboutFacts
  <1>5. /\ wrote' \in WroteType
        /\ \A w \in Videos : wrote'[r][w] = IF w = v THEN "awaiting_upload" ELSE wrote[r][w]
        /\ \A q \in Requests \ {r} : wrote'[q] = wrote[q]
    BY <1>1, <1>2, WriteFacts DEF Statuses
  <1>6. TypeOK'
    BY <1>1, <1>3, <1>4, <1>5 DEF TypeOK, WroteType, Insert, browserVars
  <1>7. OnlyMoves(r) /\ LocksFree(r) /\ ByLock(r)
    BY <1>2, <1>3, <1>4, <1>5 DEF OnlyMoves, LocksFree, Locks, Unlocked, ByLock, Insert
  <1>8. Own(r)'
    BY <1>1, <1>2, <1>3, <1>4, <1>5 DEF Own, TargetKnown, Locks, WrittenAs, Insert
  <1>9. MeasuredStays'
    BY <1>3, <1>7, MeasuredKept DEF Insert, browserVars, Accepts
  <1>10. QED
    BY <1>3, <1>6, <1>7, <1>8, <1>9, QuietStepKeeps DEF Insert

(* Commits of the four kinds of request, with where each goes next.         *)
LEMMA CommitKeeps ==
  ASSUME IInv, NEW r \in Requests, Commit(r),
         UNCHANGED <<browserVars, published, aborts>>,
         \/ pc[r] = "commitCreate" /\ Goto(r, "presign") /\ UNCHANGED target
         \/ pc[r] = "commitComplete" /\ Goto(r, "publish") /\ UNCHANGED target
         \/ pc[r] = "commitCancel" /\ Goto(r, "removeObject") /\ UNCHANGED target
         \/ pc[r] = "commitList" /\ Done(r)
  PROVE  IInv'
  <1>1. TypeOK /\ Own(r)
    BY DEF IInv
  <1>2. /\ row' \in [Videos -> Statuses]
        /\ \A v \in Videos : row'[v] = IF Locks(r, v) THEN wrote[r][v] ELSE row[v]
        /\ wrote' \in WroteType
        /\ \A v \in Videos : wrote'[r][v] = "same"
        /\ \A q \in Requests \ {r} : wrote'[q] = wrote[q]
    BY <1>1, CommitFacts
  <1>3. /\ pc' \in [Requests -> Steps]
        /\ \A q \in Requests \ {r} : pc'[q] = pc[q] /\ target'[q] = target[q]
        /\ target' \in [Requests -> Videos \union {NoVideo}]
    BY <1>1, GotoFacts, DoneFacts DEF TypeOK, Steps
  <1>4. \/ pc[r] = "commitCreate" /\ pc'[r] = "presign" /\ target'[r] = target[r]
        \/ pc[r] = "commitComplete" /\ pc'[r] = "publish" /\ target'[r] = target[r]
        \/ pc[r] = "commitCancel" /\ pc'[r] = "removeObject" /\ target'[r] = target[r]
        \/ pc[r] = "commitList" /\ pc'[r] = "idle"
    BY <1>1, GotoFacts, DoneFacts DEF Steps
  <1>5. TypeOK'
    BY <1>1, <1>2, <1>3 DEF TypeOK, WroteType, browserVars
  <1>6. OnlyMoves(r) /\ ByLock(r) /\ LocksFree(r)
    BY <1>2, <1>3 DEF OnlyMoves, ByLock, LocksFree, Locks
  <1>7. pc[r] = "commitCancel" =>
          target[r] \in Videos /\ Locks(r, target[r]) /\ wrote[r][target[r]] = "deleted"
    BY <1>1 DEF Own, TargetKnown, WrittenAs
  <1>8. Own(r)'
    BY <1>1, <1>2, <1>4, <1>7 DEF Own, TargetKnown, Locks
  <1>9. MeasuredStays'
    BY <1>4, <1>6, MeasuredKept DEF browserVars, Accepts
  <1>10. \A v \in Videos : Publishes(r, v)' <=>
           Locks(r, v) /\ wrote[r][v] = "uploaded" /\ row'[v] = "uploaded"
    BY <1>1, <1>2, <1>4 DEF Publishes, Own, WrittenAs
  <1>11. QED
    BY <1>4, <1>5, <1>6, <1>8, <1>9, <1>10, RequestStepKeeps

(* Signing the URL ends create.                                             *)
LEMMA PresignKeeps ==
  ASSUME IInv, NEW r \in Requests, Presign(r)
  PROVE  IInv'
  <1>1. TypeOK /\ Own(r)
    BY DEF IInv
  <1>2. /\ pc' \in [Requests -> Steps]
        /\ pc'[r] = "idle"
        /\ target' \in [Requests -> Videos \union {NoVideo}]
        /\ \A q \in Requests \ {r} : pc'[q] = pc[q] /\ target'[q] = target[q]
    BY <1>1, DoneFacts DEF Presign
  <1>3. TypeOK'
    BY <1>1, <1>2 DEF TypeOK, Presign, dbVars
  <1>4. OnlyMoves(r) /\ LocksFree(r) /\ ByLock(r)
    BY <1>2 DEF OnlyMoves, LocksFree, Locks, ByLock, Presign, dbVars
  <1>5. Own(r)'
    BY <1>1, <1>2 DEF Own, TargetKnown, Locks, WrittenAs, Presign, dbVars
  <1>6. MeasuredStays'
    BY <1>2, <1>4, MeasuredKept DEF Presign, Accepts
  <1>7. QED
    BY <1>2, <1>3, <1>4, <1>5, <1>6, QuietStepKeeps DEF Presign, dbVars

(* What is deleted was refused, or is of a video that is no more. *)
LEMMA ObjectGone ==
  ASSUME IInv, NEW r \in Requests, NEW v \in Videos,
         object' = [object EXCEPT ![v] = "none"],
         UNCHANGED <<row, overwritten, published>>, OnlyMoves(r), pc'[r] = "idle",
         row[v] = "deleted" \/ (pc[r] = "discard" /\ target[r] = v)
  PROVE  MeasuredStays'
  <1>1. "none" \notin Good
    BY UploadAssumption DEF Good
  <1>2. \A w \in Videos : object'[w] = IF w = v THEN "none" ELSE object[w]
    BY DEF IInv, TypeOK
  <1>3. \A q \in Requests, w \in Videos : Accepts(q, w)' => Accepts(q, w)
    BY DEF OnlyMoves, Accepts
  <1>4. \A q \in Requests : pc'[q] = "discard" => pc[q] = "discard" /\ target'[q] = target[q]
    BY DEF OnlyMoves
  <1>5. Good' = Good
    BY DEF Good
  <1>6. MeasuredStays
    BY DEF IInv
  <1>7. QED
    BY <1>1, <1>2, <1>3, <1>4, <1>5, <1>6 DEF MeasuredStays

(* complete deletes what was too large, and only that.                      *)
LEMMA DiscardKeeps ==
  ASSUME IInv, NEW r \in Requests, Discard(r)
  PROVE  IInv'
  <1>1. TypeOK /\ Own(r)
    BY DEF IInv
  <1>2. /\ wrote' \in WroteType
        /\ \A v \in Videos : wrote'[r][v] = "same"
        /\ \A q \in Requests \ {r} : wrote'[q] = wrote[q]
        /\ Done(r)
    BY <1>1, RollbackFacts DEF Discard
  <1>3. /\ pc' \in [Requests -> Steps]
        /\ pc'[r] = "idle"
        /\ target' \in [Requests -> Videos \union {NoVideo}]
        /\ \A q \in Requests \ {r} : pc'[q] = pc[q] /\ target'[q] = target[q]
    BY <1>1, <1>2, DoneFacts
  <1>4. target[r] \in Videos
    BY <1>1 DEF Own, TargetKnown, Discard
  <1>5. TypeOK'
    BY <1>1, <1>2, <1>3, <1>4 DEF TypeOK, WroteType, Discard
  <1>6. OnlyMoves(r) /\ LocksFree(r)
    BY <1>2, <1>3 DEF OnlyMoves, LocksFree, Locks
  <1>7. Own(r)'
    BY <1>2, <1>3 DEF Own, TargetKnown, Locks
  <1>8. MeasuredStays'
    BY <1>3, <1>4, <1>6, ObjectGone DEF Discard
  <1>9. QED
    BY <1>3, <1>5, <1>6, <1>7, <1>8, QuietStepKeeps DEF Discard

(* cancel deletes the object of a row that is gone.                         *)
LEMMA RemoveObjectKeeps ==
  ASSUME IInv, NEW r \in Requests, RemoveObject(r)
  PROVE  IInv'
  <1>1. TypeOK /\ Own(r)
    BY DEF IInv
  <1>2. /\ pc' \in [Requests -> Steps]
        /\ pc'[r] = "idle"
        /\ target' \in [Requests -> Videos \union {NoVideo}]
        /\ \A q \in Requests \ {r} : pc'[q] = pc[q] /\ target'[q] = target[q]
    BY <1>1, DoneFacts DEF RemoveObject
  <1>3. target[r] \in Videos /\ row[target[r]] = "deleted"
    BY <1>1 DEF Own, TargetKnown, RemoveObject
  <1>4. TypeOK'
    BY <1>1, <1>2, <1>3 DEF TypeOK, RemoveObject, dbVars
  <1>5. OnlyMoves(r) /\ LocksFree(r)
    BY <1>2 DEF OnlyMoves, LocksFree, Locks, RemoveObject, dbVars
  <1>6. Own(r)'
    BY <1>1, <1>2 DEF Own, TargetKnown, Locks, WrittenAs, RemoveObject, dbVars
  <1>7. MeasuredStays'
    BY <1>2, <1>3, <1>5, ObjectGone DEF RemoveObject, dbVars
  <1>8. QED
    BY <1>2, <1>4, <1>5, <1>6, <1>7, QuietStepKeeps DEF RemoveObject, dbVars

-----------------------------------------------------------------------------
(* The steps that are not a transaction's. *)

(* video.uploaded is published, by the only request that may.               *)
LEMMA PublishKeeps ==
  ASSUME IInv, NEW r \in Requests, Publish(r)
  PROVE  IInv'
  <1> DEFINE t == target[r]
  <1>1. TypeOK /\ Own(r) /\ MeasuredStays
    BY DEF IInv
  <1>2. t \in Videos
    BY <1>1 DEF Own, TargetKnown, Publish
  <1>3. /\ pc' \in [Requests -> Steps]
        /\ pc'[r] = "idle"
        /\ target' \in [Requests -> Videos \union {NoVideo}]
        /\ \A q \in Requests \ {r} : pc'[q] = pc[q] /\ target'[q] = target[q]
    BY <1>1, DoneFacts DEF Publish
  <1>4. Publishes(r, t) /\ Accepts(r, t)
    BY DEF Publish, Publishes, Accepts
  <1>5. /\ published[t] = 0 /\ row[t] \in {"uploaded", "over"}
        /\ \A q \in Requests : Publishes(q, t) => q = r
    BY <1>2, <1>4 DEF IInv, PublisherAlone, PublishedRowStays, Publishes
  <1>6. \A v \in Videos : published'[v] = IF v = t THEN 1 ELSE published[v]
    BY <1>1, <1>2, <1>5 DEF TypeOK, Publish
  <1>7. OnlyMoves(r) /\ ByLock(r) /\ LocksFree(r)
    BY <1>3 DEF OnlyMoves, ByLock, LocksFree, Locks, Publish, dbVars
  <1>8. \A q \in Requests, v \in Videos : Publishes(q, v)' <=> Publishes(q, v) /\ q # r
    BY <1>3 DEF Publishes
  <1>9. TypeOK'
    <2>1. published' \in [Videos -> Nat]
      BY <1>1, <1>2 DEF TypeOK, Publish
    <2>2. QED
      BY <1>1, <1>3, <2>1 DEF TypeOK, Publish, dbVars, browserVars
  <1>10. \A q \in Requests : Own(q)'
    <2>1. Own(r)'
      BY <1>1, <1>3 DEF Own, TargetKnown, Locks, WrittenAs, Publish, dbVars
    <2>2. QED
      BY <1>7, <2>1, OthersKeepTheirs
  <1>11. LocksExclude'
    BY <1>7, LocksStillExclude
  <1>12. PublisherAlone'
    <2> SUFFICES ASSUME NEW v \in Videos
                 PROVE  /\ published'[v] \in {0, 1}
                        /\ \A q \in Requests : Publishes(q, v)' =>
                             /\ published'[v] = 0
                             /\ \A p \in Requests : Publishes(p, v)' => p = q
      BY DEF PublisherAlone
    <2>1. QED
      BY <1>5, <1>6, <1>8 DEF IInv, PublisherAlone
  <1>13. PublishedRowStays'
    <2>1. \A v \in Videos :
            published[v] > 0 \/ (\E q \in Requests : Publishes(q, v))
              => row[v] \in {"uploaded", "over"}
      BY DEF IInv, PublishedRowStays, Publishes
    <2>2. \A v \in Videos :
            published'[v] > 0 \/ (\E q \in Requests : Publishes(q, v)')
              => row[v] \in {"uploaded", "over"}
      BY <1>5, <1>6, <1>8, <2>1
    <2>3. QED
      BY <2>2 DEF PublishedRowStays, Publishes, Publish, dbVars
  <1>14. MeasuredStays'
    <2>1. \A q \in Requests, v \in Videos : Accepts(q, v)' => Accepts(q, v)
      BY <1>3 DEF Accepts
    <2>2. \A v \in Videos : published'[v] > 0 => published[v] > 0 \/ Accepts(r, v)
      BY <1>4, <1>6
    <2>3. \A q \in Requests : pc'[q] = "discard" => pc[q] = "discard" /\ target'[q] = target[q]
      BY <1>3
    <2>4. row' = row /\ object' = object /\ overwritten' = overwritten /\ Good' = Good
      BY DEF Publish, dbVars, browserVars, Good
    <2>5. QED
      BY <1>1, <2>1, <2>2, <2>3, <2>4 DEF MeasuredStays
  <1>15. PublishedUnlessAborted'
    <2> SUFFICES ASSUME aborts' = 0, NEW v \in Videos, row'[v] = "uploaded"
                 PROVE  published'[v] > 0 \/ \E q \in Requests : Publishes(q, v)'
      BY DEF PublishedUnlessAborted, UploadedIsPublished, Publishes
    <2>1. published[v] > 0 \/ \E q \in Requests : Publishes(q, v)
      BY DEF IInv, PublishedUnlessAborted, UploadedIsPublished, Publishes, Publish, dbVars
    <2>2. Publishes(r, v) => v = t
      BY DEF Publishes
    <2>3. QED
      BY <1>6, <1>8, <2>1, <2>2
  <1>16. QED
    BY <1>9, <1>10, <1>11, <1>12, <1>13, <1>14, <1>15 DEF IInv

(* Whoever moves no request and no row keeps all but what is said of objects. *)
LEMMA RequestsStay ==
  ASSUME IInv, TypeOK', MeasuredStays',
         UNCHANGED <<dbVars, pc, target, published, aborts>>
  PROVE  IInv'
  <1>1. \A q \in Requests : Own(q)'
    BY DEF IInv, Own, TargetKnown, Locks, WrittenAs, dbVars
  <1>2. LocksExclude'
    BY DEF IInv, LocksExclude, Locks, dbVars
  <1>3. PublisherAlone'
    BY DEF IInv, PublisherAlone, Publishes
  <1>4. PublishedRowStays'
    BY DEF IInv, PublishedRowStays, dbVars
  <1>5. PublishedUnlessAborted'
    BY DEF IInv, PublishedUnlessAborted, UploadedIsPublished, dbVars
  <1>6. QED
    BY <1>1, <1>2, <1>3, <1>4, <1>5 DEF IInv

(* The browser stores an object; if it was measured, it counts as replaced. *)
LEMMA PutKeeps ==
  ASSUME IInv, NEW v \in Videos, NEW size \in Sizes, Put(v, size)
  PROVE  IInv'
  <1>1. TypeOK /\ MeasuredStays
    BY DEF IInv
  <1>2. TypeOK'
    BY <1>1 DEF TypeOK, Put, dbVars
  <1>3. /\ \A w \in Videos \ {v} : object'[w] = object[w] /\ overwritten'[w] = overwritten[w]
        /\ overwritten'[v] = (overwritten[v] \/ Measured(v))
    BY <1>1 DEF TypeOK, Put
  <1>4. /\ \A q \in Requests, w \in Videos : Accepts(q, w)' <=> Accepts(q, w)
        /\ row' = row /\ published' = published /\ pc' = pc /\ target' = target
        /\ Good' = Good
    BY DEF Accepts, Put, dbVars, Good
  <1>5. ~Measured(v) =>
          /\ ~(published[v] > 0) /\ \A q \in Requests : ~Accepts(q, v)
          /\ \A q \in Requests : ~(pc[q] = "discard" /\ target[q] = v)
    BY DEF Measured, Accepts
  <1>6. MeasuredStays'
    <2> SUFFICES ASSUME NEW w \in Videos, ~overwritten'[w]
                 PROVE  /\ row[w] # "deleted"
                             /\ (published[w] > 0 \/ \E q \in Requests : Accepts(q, w))
                             => object'[w] \in Good
                        /\ \A q \in Requests :
                             pc[q] = "discard" /\ target[q] = w => object'[w] \notin Good
      BY <1>4 DEF MeasuredStays
    <2>1. CASE w = v
      BY <1>3, <1>5, <2>1
    <2>2. CASE w # v
      BY <1>1, <1>3, <2>2 DEF MeasuredStays
    <2>3. QED
      BY <2>1, <2>2
  <1>7. QED
    BY <1>2, <1>6, RequestsStay DEF Put

(* The upload window closes, or the URL expires.                            *)
LEMMA TimePassesKeeps ==
  ASSUME IInv, NEW v \in Videos, TimePasses(v)
  PROVE  IInv'
  <1>1. TypeOK'
    BY DEF IInv, TypeOK, TimePasses, dbVars
  <1>2. MeasuredStays'
    BY DEF IInv, MeasuredStays, Accepts, Good, TimePasses, dbVars
  <1>3. QED
    BY <1>1, <1>2, RequestsStay DEF TimePasses

(* The projector ends a published video, whose row nobody has locked.       *)
LEMMA ProjectKeeps ==
  ASSUME IInv, NEW v \in Videos, Project(v)
  PROVE  IInv'
  <1>1. TypeOK /\ MeasuredStays
    BY DEF IInv
  <1>2. \A w \in Videos : row'[w] = IF w = v THEN "over" ELSE row[w]
    BY <1>1 DEF TypeOK, Project
  <1>3. TypeOK'
    BY <1>1 DEF TypeOK, Statuses, Project, browserVars
  <1>4. \A q \in Requests : Own(q)'
    <2> SUFFICES ASSUME NEW q \in Requests
                 PROVE  Own(q)'
      OBVIOUS
    <2>1. Own(q) /\ ~Locks(q, v) /\ row[v] = "uploaded"
      BY DEF IInv, Project
    <2>2. pc' = pc /\ target' = target /\ wrote' = wrote
      BY DEF Project
    <2>3. TargetKnown(q)'
      BY <1>2, <2>1, <2>2 DEF Own, TargetKnown
    <2>4. \A w \in Videos : Locks(q, w)' => WrittenAs(q, w)'
      BY <1>2, <2>1, <2>2 DEF Own, Locks, WrittenAs
    <2>5. QED
      BY <2>1, <2>2, <2>3, <2>4 DEF Own, Locks
  <1>5. LocksExclude'
    BY DEF IInv, LocksExclude, Locks, Project
  <1>6. PublisherAlone'
    BY DEF IInv, PublisherAlone, Publishes, Project
  <1>7. PublishedRowStays'
    BY <1>2 DEF IInv, PublishedRowStays, Project
  <1>8. MeasuredStays'
    BY <1>1, <1>2 DEF MeasuredStays, Accepts, Good, Project, browserVars
  <1>9. PublishedUnlessAborted'
    BY <1>2 DEF IInv, PublishedUnlessAborted, UploadedIsPublished, Project
  <1>10. QED
    BY <1>3, <1>4, <1>5, <1>6, <1>7, <1>8, <1>9 DEF IInv

(* A step of the rest of the system changes nothing here.                   *)
LEMMA StutterKeeps ==
  ASSUME IInv, UNCHANGED vars
  PROVE  IInv'
  <1>1. TypeOK'
    BY DEF IInv, TypeOK, vars, dbVars, browserVars
  <1>2. MeasuredStays'
    BY DEF IInv, MeasuredStays, Accepts, Good, vars, dbVars, browserVars
  <1>3. QED
    BY <1>1, <1>2, RequestsStay DEF vars

-----------------------------------------------------------------------------
(* Each step, whole. *)

(* No row, no request, no object.                                           *)
LEMMA InitEstablishes == Init => IInv
  <1> SUFFICES ASSUME Init
               PROVE  IInv
    OBVIOUS
  <1>1. TypeOK
    BY UploadAssumption DEF Init, TypeOK, Statuses, Steps, Clean
  <1>2. \A r \in Requests, v \in Videos : ~Locks(r, v)
    BY DEF Init, Locks, Clean
  <1>3. \A r \in Requests : pc[r] = "idle"
    BY DEF Init
  <1>4. (\A r \in Requests : Own(r)) /\ LocksExclude
    BY <1>2, <1>3 DEF Own, TargetKnown, LocksExclude
  <1>5. PublisherAlone /\ PublishedRowStays /\ MeasuredStays
    BY <1>3 DEF PublisherAlone, Publishes, PublishedRowStays, MeasuredStays, Accepts, Init
  <1>6. PublishedUnlessAborted
    BY DEF PublishedUnlessAborted, UploadedIsPublished, Init
  <1>7. QED
    BY <1>1, <1>4, <1>5, <1>6 DEF IInv

(* The steps of create_video.                                               *)
LEMMA CreateKeeps ==
  ASSUME IInv, NEW r \in Requests,
         StartCreate(r) \/ CheckQuota(r) \/ Insert(r) \/ CommitCreate(r) \/ Presign(r)
  PROVE  IInv'
  <1>1. CASE StartCreate(r)
    BY <1>1, ExpiringKeeps DEF StartCreate
  <1>2. CASE CheckQuota(r)
    <2>1. CASE CountInFlight(r) >= MaxInFlight
      <3>1. aborts \in 0 .. MaxAborts
        BY DEF IInv, TypeOK
      <3>2. QED
        BY <1>2, <2>1, <3>1, RollbackKeeps DEF CheckQuota
    <2>2. CASE ~(CountInFlight(r) >= MaxInFlight)
      BY <1>2, <2>2, AdvanceKeeps DEF CheckQuota, Steps, dbVars
    <2>3. QED
      BY <2>1, <2>2
  <1>3. CASE Insert(r)
    BY <1>3, InsertKeeps
  <1>4. CASE CommitCreate(r)
    BY <1>4, CommitKeeps DEF CommitCreate
  <1>5. CASE Presign(r)
    BY <1>5, PresignKeeps
  <1>6. QED
    BY <1>1, <1>2, <1>3, <1>4, <1>5

(* The steps of complete_upload.                                            *)
LEMMA CompleteKeeps ==
  ASSUME IInv, NEW r \in Requests,
         \/ \E v \in Videos : StartComplete(r, v)
         \/ Head(r) \/ Discard(r) \/ ClaimUploadComplete(r) \/ CommitComplete(r)
         \/ Publish(r)
  PROVE  IInv'
  <1>1. TypeOK /\ Own(r)
    BY DEF IInv
  <1>2. aborts \in 0 .. MaxAborts
    BY <1>1 DEF TypeOK
  <1>3. CASE \E v \in Videos : StartComplete(r, v)
    BY <1>3, StartingKeeps DEF StartComplete
  <1>4. CASE Head(r)
    <2>1. object[target[r]] \in Sizes \union {"none"}
      BY <1>1, <1>4 DEF Own, TargetKnown, TypeOK, Head
    <2>2. CASE object[target[r]] = "none"
      BY <1>2, <1>4, <2>2, RollbackKeeps DEF Head
    <2>3. CASE object[target[r]] = "oversize"
      BY <1>4, <2>3, AdvanceKeeps DEF Head, Steps, Good, dbVars
    <2>4. CASE object[target[r]] \notin {"none", "oversize"}
      BY <1>4, <2>1, <2>4, AdvanceKeeps DEF Head, Steps, Good, dbVars
    <2>5. QED
      BY <2>2, <2>3, <2>4
  <1>5. CASE Discard(r)
    BY <1>5, DiscardKeeps
  <1>6. CASE ClaimUploadComplete(r)
    <2>1. target[r] \in Videos
      BY <1>1, <1>6 DEF Own, TargetKnown, ClaimUploadComplete
    <2>2. CASE row[target[r]] = "awaiting_upload"
      BY <1>6, <2>1, <2>2, ConditionalWriteKeeps DEF ClaimUploadComplete
    <2>3. CASE row[target[r]] # "awaiting_upload"
      BY <1>2, <1>6, <2>3, RollbackKeeps DEF ClaimUploadComplete
    <2>4. QED
      BY <2>2, <2>3
  <1>7. CASE CommitComplete(r)
    BY <1>7, CommitKeeps DEF CommitComplete
  <1>8. CASE Publish(r)
    BY <1>8, PublishKeeps
  <1>9. QED
    BY <1>3, <1>4, <1>5, <1>6, <1>7, <1>8

(* The steps of list_videos.                                                *)
LEMMA ListKeeps ==
  ASSUME IInv, NEW r \in Requests, StartList(r) \/ CommitList(r)
  PROVE  IInv'
  <1>1. CASE StartList(r)
    BY <1>1, ExpiringKeeps DEF StartList
  <1>2. CASE CommitList(r)
    BY <1>2, CommitKeeps DEF CommitList
  <1>3. QED
    BY <1>1, <1>2

(* The steps of cancel_video.                                               *)
LEMMA CancelKeeps ==
  ASSUME IInv, NEW r \in Requests,
         \/ \E v \in Videos : StartCancel(r, v)
         \/ DeleteAwaiting(r) \/ CommitCancel(r) \/ RemoveObject(r)
  PROVE  IInv'
  <1>1. CASE \E v \in Videos : StartCancel(r, v)
    BY <1>1, StartingKeeps DEF StartCancel
  <1>2. CASE DeleteAwaiting(r)
    <2>1. target[r] \in Videos /\ aborts \in 0 .. MaxAborts
      BY <1>2 DEF IInv, TypeOK, Own, TargetKnown, DeleteAwaiting
    <2>2. CASE row[target[r]] = "awaiting_upload"
      BY <1>2, <2>1, <2>2, ConditionalWriteKeeps DEF DeleteAwaiting
    <2>3. CASE row[target[r]] # "awaiting_upload"
      BY <1>2, <2>1, <2>3, RollbackKeeps DEF DeleteAwaiting
    <2>4. QED
      BY <2>2, <2>3
  <1>3. CASE CommitCancel(r)
    BY <1>3, CommitKeeps DEF CommitCancel
  <1>4. CASE RemoveObject(r)
    BY <1>4, RemoveObjectKeeps
  <1>5. QED
    BY <1>1, <1>2, <1>3, <1>4

(* A request that dies is rolled back.                                      *)
LEMMA AbortKeeps ==
  ASSUME IInv, NEW r \in Requests, Abort(r)
  PROVE  IInv'
  <1>1. aborts \in 0 .. MaxAborts /\ aborts < MaxAborts /\ aborts' = aborts + 1
    BY DEF IInv, TypeOK, Abort
  <1>2. aborts' \in 0 .. MaxAborts /\ aborts' # 0
    BY <1>1, UploadAssumption
  <1>3. QED
    BY <1>2, RollbackKeeps DEF Abort

(* Every step of the API keeps the invariant.                               *)
LEMMA NextKeeps == IInv /\ [Next]_vars => IInv'
  <1> SUFFICES ASSUME IInv, [Next]_vars
               PROVE  IInv'
    OBVIOUS
  <1>1. CASE \E r \in Requests :
               \/ StartCreate(r) \/ StartList(r)
               \/ \E v \in Videos : StartComplete(r, v) \/ StartCancel(r, v)
               \/ Step(r)
               \/ Abort(r)
    <2>1. PICK r \in Requests :
            \/ StartCreate(r) \/ StartList(r)
            \/ \E v \in Videos : StartComplete(r, v) \/ StartCancel(r, v)
            \/ Step(r)
            \/ Abort(r)
      BY <1>1
    <2>2. QED
      BY <2>1, CreateKeeps, CompleteKeeps, ListKeeps, CancelKeeps, AbortKeeps DEF Step
  <1>2. CASE \E v \in Videos :
               (\E size \in Sizes : Put(v, size)) \/ TimePasses(v) \/ Project(v)
    BY <1>2, PutKeeps, TimePassesKeeps, ProjectKeeps
  <1>3. CASE UNCHANGED vars
    BY <1>3, StutterKeeps
  <1>4. QED
    BY <1>1, <1>2, <1>3 DEF Next

(* The invariant holds of every behaviour of the API (main.py:193-369).     *)
THEOREM Invariant == Spec => []IInv
  BY InitEstablishes, NextKeeps, PTL DEF Spec

-----------------------------------------------------------------------------
(* What the invariant says of the API. *)

(* Rows, transactions, requests and objects keep their types (main.py,       *)
(* libs/pipeline/repository.py).                                             *)
THEOREM TypeCorrect == Spec => []TypeOK
  <1>1. IInv => TypeOK
    BY DEF IInv
  <1>2. QED
    BY <1>1, Invariant, PTL

(* However complete, cancel and the expiry race (main.py:284-292, 351-363),  *)
(* a video that was published or is about to be has its row.                 *)
THEOREM PublishedKeepsItsRow == Spec => []PublishedRowStays
  <1>1. IInv => PublishedRowStays
    BY DEF IInv
  <1>2. QED
    BY <1>1, Invariant, PTL

(* Without aborted requests every uploaded row is published, or about to be. *)
THEOREM UploadsAreNotLost == Spec => []PublishedUnlessAborted
  <1>1. IInv => PublishedUnlessAborted
    BY DEF IInv
  <1>2. QED
    BY <1>1, Invariant, PTL

(* A published object that was not replaced after it had been measured is in *)
(* the store and within the ceiling, whatever is discarded and cancelled.    *)
THEOREM PublishedIsStored == Spec => []PublishedObjectIsThere
  <1>1. IInv => PublishedObjectIsThere
    <2> SUFFICES ASSUME IInv, NEW v \in Videos, published[v] > 0, ~overwritten[v]
                 PROVE  object[v] \in Sizes \ {"oversize"}
      BY DEF PublishedObjectIsThere
    <2>1. row[v] # "deleted"
      BY DEF IInv, PublishedRowStays
    <2>2. QED
      BY <2>1 DEF IInv, MeasuredStays, Good
  <1>2. QED
    BY <1>1, Invariant, PTL

(* At most one request holds the right to publish a video: the one whose     *)
(* UPDATE found it awaiting_upload, and holds its row until the commit, or   *)
(* the one that has committed it and has not published yet (main.py:292).    *)
LEMMA OneHolder ==
  ASSUME IInv, NEW v \in Videos, NEW q \in Requests, NEW r \in Requests,
         pc[q] \in {"commitComplete", "publish"} /\ target[q] = v,
         pc[r] \in {"commitComplete", "publish"} /\ target[r] = v
  PROVE  q = r /\ published[v] = 0
  <1>1. \A p \in Requests : pc[p] = "commitComplete" /\ target[p] = v
          => Locks(p, v) /\ row[v] = "awaiting_upload"
    BY DEF IInv, Own, WrittenAs
  <1>2. published[v] \in {0, 1}
    BY DEF IInv, PublisherAlone
  <1>3. published[v] # 0 => row[v] \in {"uploaded", "over"}
    BY <1>2 DEF IInv, PublishedRowStays
  <1>4. \A p \in Requests : Publishes(p, v) => row[v] \in {"uploaded", "over"}
    BY DEF IInv, PublishedRowStays, Publishes
  <1>5. CASE pc[q] = "commitComplete" \/ pc[r] = "commitComplete"
    <2>1. row[v] = "awaiting_upload"
      BY <1>1, <1>5
    <2>2. published[v] = 0
      BY <1>3, <2>1
    <2>3. Locks(q, v) /\ Locks(r, v)
      BY <1>1, <1>4, <2>1 DEF Publishes
    <2>4. QED
      BY <2>2, <2>3 DEF IInv, LocksExclude
  <1>6. CASE pc[q] = "publish" /\ pc[r] = "publish"
    BY <1>6 DEF IInv, PublisherAlone, Publishes
  <1>7. QED
    BY <1>5, <1>6

(* So no two requests publish a video, nor one what was published: the      *)
(* answer to the conditional UPDATE (repository.py:137-155) decides.        *)
THEOREM OneVideoOnePublisher == Spec => []OnePublisher
  <1>1. IInv => OnePublisher
    <2> SUFFICES ASSUME IInv, NEW v \in Videos
                 PROVE  published[v]
                          + Cardinality({r \in Requests :
                                pc[r] \in {"commitComplete", "publish"} /\ target[r] = v}) <= 1
      BY DEF OnePublisher
    <2> DEFINE holders == {r \in Requests :
                             pc[r] \in {"commitComplete", "publish"} /\ target[r] = v}
    <2>1. published[v] \in {0, 1}
      BY DEF IInv, PublisherAlone
    <2>2. CASE holders = {}
      <3>1. Cardinality(holders) = 0
        BY <2>2, FS_EmptySet
      <3>2. QED
        BY <2>1, <3>1
    <2>3. CASE holders # {}
      <3>1. PICK r \in holders : TRUE
        BY <2>3
      <3>2. holders = {r} /\ published[v] = 0
        BY <3>1, OneHolder
      <3>3. Cardinality(holders) = 1
        BY <3>2, FS_Singleton
      <3>4. QED
        BY <3>2, <3>3
    <2>4. QED
      BY <2>2, <2>3
  <1>2. QED
    BY <1>1, Invariant, PTL

-----------------------------------------------------------------------------
(* The event streams: for any number of requests, any limit and however      *)
(* clients come and go, the slots counted are the slots held.                *)

Holders == {s \in Streams : stream[s] \in {"inside", "atYield", "abandoned"}}

(* The inductive invariant of the streams. *)
SlotsInv == StreamsTypeOK /\ SlotsAreHeld

(* The streams that hold a slot are finitely many, at most all. *)
LEMMA HoldersFacts ==
  /\ IsFiniteSet(Holders)
  /\ Cardinality(Holders) \in 0 .. Cardinality(Streams)
  <1>1. Holders \subseteq Streams /\ IsFiniteSet(Streams)
    BY StreamsAssumption DEF Holders
  <1>2. /\ IsFiniteSet(Holders) /\ Cardinality(Holders) <= Cardinality(Streams)
        /\ Cardinality(Holders) \in Nat /\ Cardinality(Streams) \in Nat
    BY <1>1, FS_Subset, FS_CardinalityType
  <1> QED
    BY <1>2

(* A step by which a stream keeps what it holds, or does not hold. *)
LEMMA SameHolders ==
  ASSUME SlotsInv, StreamsTypeOK', Holders' = Holders, UNCHANGED sse_active
  PROVE  SlotsInv'
  BY DEF SlotsInv, SlotsAreHeld, Holders

(* The step begins to hold one. *)
LEMMA BeginKeeps ==
  ASSUME SlotsInv, NEW s \in Streams, Begin(s)
  PROVE  SlotsInv'
  <1>1. /\ stream' \in [Streams -> {"none", "lookUp", "fresh", "inside", "atYield",
                                    "abandoned"}]
        /\ Holders' = Holders \union {s} /\ s \notin Holders
    BY DEF SlotsInv, StreamsTypeOK, Begin, Becomes, Holders
  <1>2. Cardinality(Holders \union {s}) = Cardinality(Holders) + 1
    BY <1>1, HoldersFacts, FS_AddElement
  <1>3. sse_active' = Cardinality(Holders')
    BY <1>1, <1>2 DEF SlotsInv, SlotsAreHeld, Holders, Begin
  <1>4. Cardinality(Holders') \in 0 .. Cardinality(Streams)
    <2>1. Holders' \subseteq Streams /\ IsFiniteSet(Streams)
      BY StreamsAssumption DEF Holders
    <2> QED
      BY <2>1, FS_Subset, FS_CardinalityType
  <1> QED
    BY <1>1, <1>3, <1>4 DEF SlotsInv, SlotsAreHeld, StreamsTypeOK, Holders

(* Its finally gives it back, once. *)
LEMMA FinallyKeeps ==
  ASSUME SlotsInv, NEW s \in Streams, stream[s] \in {"inside", "abandoned"}, Finally(s)
  PROVE  SlotsInv'
  <1>1. /\ stream' \in [Streams -> {"none", "lookUp", "fresh", "inside", "atYield",
                                    "abandoned"}]
        /\ Holders' = Holders \ {s} /\ s \in Holders
    BY DEF SlotsInv, StreamsTypeOK, Finally, Becomes, Holders
  <1>2. Cardinality(Holders \ {s}) = Cardinality(Holders) - 1
    BY <1>1, HoldersFacts, FS_RemoveElement
  <1>3. sse_active' = Cardinality(Holders')
    BY <1>1, <1>2 DEF SlotsInv, SlotsAreHeld, Holders, Finally
  <1>4. Cardinality(Holders') \in 0 .. Cardinality(Streams)
    <2>1. Holders' \subseteq Streams /\ IsFiniteSet(Streams)
      BY StreamsAssumption DEF Holders
    <2> QED
      BY <2>1, FS_Subset, FS_CardinalityType
  <1> QED
    BY <1>1, <1>3, <1>4 DEF SlotsInv, SlotsAreHeld, StreamsTypeOK, Holders

(* No stream is there at first. *)
LEMMA StreamsInitEstablish == StreamsInit => SlotsInv
  <1> SUFFICES ASSUME StreamsInit PROVE SlotsInv
    OBVIOUS
  <1>1. Holders = {}
    BY DEF StreamsInit, Holders
  <1>2. Cardinality(Holders) = 0
    BY <1>1, FS_EmptySet
  <1>3. 0 \in 0 .. Cardinality(Streams)
    BY <1>2, HoldersFacts
  <1> QED
    BY <1>2, <1>3 DEF StreamsInit, SlotsInv, StreamsTypeOK, SlotsAreHeld, Holders

(* Every step keeps the invariant. *)
LEMMA StreamsNextKeep == SlotsInv /\ [StreamsNext]_streamVars => SlotsInv'
  <1> SUFFICES ASSUME SlotsInv, [StreamsNext]_streamVars PROVE SlotsInv'
    OBVIOUS
  <1>1. ASSUME NEW s \in Streams,
               Admit(s) \/ LookUpVideo(s) \/ YieldFrame(s) \/ FrameSent(s) \/ ClientLeaves(s)
        PROVE  SlotsInv'
    <2>1. StreamsTypeOK' /\ UNCHANGED sse_active
      BY <1>1 DEF SlotsInv, StreamsTypeOK, Admit, LookUpVideo, YieldFrame, FrameSent,
             ClientLeaves, Becomes
    <2>2. Holders' = Holders
      BY <1>1 DEF SlotsInv, StreamsTypeOK, Holders, Admit, LookUpVideo, YieldFrame, FrameSent,
             ClientLeaves, Becomes
    <2> QED
      BY <2>1, <2>2, SameHolders
  <1>2. ASSUME NEW s \in Streams, StreamOver(s) \/ Finalised(s)
        PROVE  SlotsInv'
    BY <1>2, FinallyKeeps DEF StreamOver, Finalised
  <1>3. CASE UNCHANGED streamVars
    BY <1>3 DEF streamVars, SlotsInv, StreamsTypeOK, SlotsAreHeld
  <1> QED
    BY <1>1, <1>2, <1>3, BeginKeeps DEF StreamsNext

(* A stream is at one of its steps, and what is counted is a number. *)
THEOREM StreamsTypeCorrect == StreamsSpec => []StreamsTypeOK
  <1>1. SlotsInv => StreamsTypeOK
    BY DEF SlotsInv
  <1> QED
    BY <1>1, StreamsInitEstablish, StreamsNextKeep, PTL DEF StreamsSpec

(* No slot is lost and none given back twice: what sse_active counts is the  *)
(* streams that are still to give a slot back.                               *)
THEOREM SlotsAreHeldTheorem == StreamsSpec => []SlotsAreHeld
  <1>1. SlotsInv => SlotsAreHeld
    BY DEF SlotsInv
  <1> QED
    BY <1>1, StreamsInitEstablish, StreamsNextKeep, PTL DEF StreamsSpec
=============================================================================
