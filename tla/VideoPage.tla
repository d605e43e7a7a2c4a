----------------------------- MODULE VideoPage -----------------------------
(***************************************************************************)
(* The client of a video's event stream: the detail page with its manual   *)
(* reconnects (hooks/useVideoEvents.ts, VideoDetailPage.tsx), or a client  *)
(* that resumes with Last-Event-ID by itself, as the endpoint also allows. *)
(*                                                                         *)
(* The page fetches the video once and opens the stream at the same time;  *)
(* both write one cached record.  Its query client lets a response that    *)
(* was under way overwrite what the stream has put there meanwhile.  Left  *)
(* out: unmounting, and later fetches when the window gets its focus back. *)
(***************************************************************************)
EXTENDS SseStream

CONSTANT MaxFaults   \* connections and probes that fail, second deliveries, a
                     \* token that expires

ASSUME PageAssumption == MaxFaults \in Nat

VARIABLES
  client,       \* "page", or "resuming"
  conn,         \* "idle", "streaming", "probing", "closed", "unauthorized"
  shown,        \* the cached status, or "nothing"
  tiles,        \* the cached renditions
  get,          \* the page's GET: "sent", a status on its way, or "done"
  overtaken,    \* did the response come in after newer news?
  tokenValid,
  base,         \* id of the last snapshot
  told,         \* ids of the deltas received since it
  lastEventId,  \* id of the last frame received
  faults

clientVars == <<client, conn, shown, tiles, get, overtaken, tokenValid, base,
                told, lastEventId, faults>>
cacheVars  == <<shown, tiles, get, overtaken>>
cursorVars == <<base, told, lastEventId>>
vars == <<readModelVars, serverVars, clientVars>>

NoId == 0 - 1

TypeOK ==
  /\ ServerTypeOK
  /\ client \in {"page", "resuming"}
  /\ conn \in {"idle", "streaming", "probing", "closed", "unauthorized"}
  /\ shown \in States \union {"nothing"} /\ tiles \in [Renditions -> Outcomes]
  /\ get \in States \union {"sent", "done"} /\ overtaken \in BOOLEAN
  /\ tokenValid \in BOOLEAN
  /\ {base, lastEventId} \subseteq {NoId, 0} \union Ids /\ told \subseteq Ids
  /\ faults \in 0 .. MaxFaults

Init ==
  /\ ReadModelInit /\ ServerInit
  /\ client \in {"page", "resuming"}
  /\ conn = "idle" /\ shown = "nothing" /\ tiles = [r \in Renditions |-> "none"]
  /\ get = IF client = "page" THEN "sent" ELSE "done"
  /\ overtaken = FALSE /\ tokenValid = TRUE
  /\ base = NoId /\ told = {} /\ lastEventId = NoId
  /\ faults = 0

Fault == faults < MaxFaults /\ faults' = faults + 1

-----------------------------------------------------------------------------
(* new EventSource: always without an id.  With an expired token the answer  *)
(* is a 401, which looks like any other error.                               *)
Connect ==
  /\ client = "page" /\ conn = "idle"
  /\ IF tokenValid THEN Subscribe /\ conn' = "streaming"
                   ELSE UNCHANGED <<readModelVars, serverVars>> /\ conn' = "probing"
  /\ UNCHANGED <<client, cacheVars, tokenValid, cursorVars, faults>>

(* The first request has no id; later ones carry the last one received, the  *)
(* 0 of a snapshot without events included.                                  *)
ConnectAgain ==
  /\ client = "resuming" /\ conn = "idle"
  /\ IF lastEventId = NoId THEN Subscribe ELSE Resume(lastEventId)
  /\ conn' = "streaming"
  /\ UNCHANGED <<client, cacheVars, tokenValid, cursorVars, faults>>

(* 503, or no network. *)
ConnectFails ==
  /\ client = "page" /\ conn = "idle" /\ Fault
  /\ conn' = "probing"
  /\ UNCHANGED <<readModelVars, serverVars, client, cacheVars, tokenValid, cursorVars>>

(* onerror closes the EventSource, which so never retries by itself. *)
AfterError == IF client = "page" THEN "probing" ELSE "idle"

ConnectionBreaks ==
  /\ conn = "streaming" /\ Fault
  /\ HangUp
  /\ conn' = AfterError
  /\ UNCHANGED <<client, cacheVars, tokenValid, cursorVars>>

(* All frames are in and the server has closed: an error to EventSource; the *)
(* other client is content.                                                  *)
StreamEnds ==
  /\ conn = "streaming" /\ at = "ended" /\ wire = <<>>
  /\ HangUp
  /\ conn' = IF client = "page" THEN "probing" ELSE "closed"
  /\ UNCHANGED <<client, cacheVars, tokenValid, cursorVars, faults>>

(* reconnectAfterCheckingAuth: a probe answered 401 is final; after any      *)
(* other answer, and after none, the timer is set and the hook connects.     *)
ProbeReturns ==
  /\ conn = "probing"
  /\ conn' = IF tokenValid THEN "idle" ELSE "unauthorized"
  /\ UNCHANGED <<readModelVars, serverVars, client, cacheVars, tokenValid,
                 cursorVars, faults>>

ProbeFails ==
  /\ conn = "probing" /\ Fault
  /\ conn' = "idle"
  /\ UNCHANGED <<readModelVars, serverVars, client, cacheVars, tokenValid, cursorVars>>

TokenExpires ==
  /\ client = "page" /\ tokenValid /\ Fault
  /\ tokenValid' = FALSE
  /\ UNCHANGED <<readModelVars, serverVars, client, conn, cacheVars, cursorVars>>

-----------------------------------------------------------------------------
(* The server's end is closed with the client's, so no more frames come. *)
CloseForGood == HangUp /\ conn' = "closed"

StayOpen ==
  /\ wire' = Tail(wire)
  /\ UNCHANGED <<readModelVars, at, wakeup, rowRead, outcomeRead,
                 watermark, rows, conn>>

FrameComes(kind) == conn = "streaming" /\ wire # <<>> /\ Head(wire).kind = kind

(* A frame that writes the status makes a response under way old news. *)
Shows(s) ==
  /\ shown' = s
  /\ overtaken' = FALSE

StartOver ==
  /\ base' = Head(wire).id /\ lastEventId' = Head(wire).id /\ told' = {}

(* Mutant of OnSnapshot: a video that is over already is not recognised. *)
OnSnapshotKeepOpen ==
  /\ FrameComes("snapshot") /\ client = "page"
  /\ Shows(Head(wire).status) /\ tiles' = Head(wire).outcome
  /\ StayOpen
  /\ StartOver
  /\ UNCHANGED <<client, get, tokenValid, faults>>

OnSnapshot ==
  /\ FrameComes("snapshot") /\ client = "page"
  /\ Shows(Head(wire).status) /\ tiles' = Head(wire).outcome
  /\ IF Head(wire).status \in Final THEN CloseForGood ELSE StayOpen
  /\ StartOver
  /\ UNCHANGED <<client, get, tokenValid, faults>>

(* sse_event_name: which handler gets the frame. *)
EventName(m) ==
  LET e == Event(m) IN
  CASE m[1] = "pipeline.failed" /\ e.rendition # NoRendition -> "rendition.failed"
    [] m[1] = "pipeline.failed" /\ e.rendition = NoRendition -> "failed"
    [] m[1] = "video.status" /\ e.rendition # NoRendition    -> "rendition.completed"
    [] m[1] = "video.status" /\ e.rendition = NoRendition
         /\ e.state = "probed"                               -> "probed"
    [] OTHER                                                 -> "status"

Arrived == Event(log[Head(wire).id])
Name    == EventName(log[Head(wire).id])

Received ==
  /\ lastEventId' = Head(wire).id /\ told' = told \union {Head(wire).id}
  /\ UNCHANGED base

(* "status" and "probed": the state is shown; completed is the end. *)
OnStatus ==
  /\ FrameComes("delta") /\ client = "page" /\ Name \in {"status", "probed"}
  /\ Shows(Arrived.state)
  /\ IF Name = "status" /\ Arrived.state = "completed" THEN CloseForGood ELSE StayOpen
  /\ Received
  /\ UNCHANGED <<client, tiles, get, tokenValid, faults>>

(* Only the rendition's tile changes. *)
OnRenditionCompleted ==
  /\ FrameComes("delta") /\ client = "page" /\ Name = "rendition.completed"
  /\ tiles' = [tiles EXCEPT ![Arrived.rendition] = "completed"]
  /\ StayOpen
  /\ Received
  /\ UNCHANGED <<client, shown, get, overtaken, tokenValid, faults>>

(* Mutant of OnFailed: a rendition's failure changes its tile only. *)
OnFailedTileOnly ==
  /\ FrameComes("delta") /\ client = "page"
  /\ Name \in {"failed", "rendition.failed"}
  /\ IF Name = "failed" THEN Shows("failed") /\ UNCHANGED tiles
     ELSE /\ tiles' = [tiles EXCEPT ![Arrived.rendition] = "failed"]
          /\ UNCHANGED <<shown, overtaken>>
  /\ CloseForGood
  /\ Received
  /\ UNCHANGED <<client, get, tokenValid, faults>>

OnFailed ==
  /\ FrameComes("delta") /\ client = "page"
  /\ Name \in {"failed", "rendition.failed"}
  /\ Shows("failed")
  /\ tiles' = IF Name = "failed" THEN tiles
              ELSE [tiles EXCEPT ![Arrived.rendition] = "failed"]
  /\ CloseForGood
  /\ Received
  /\ UNCHANGED <<client, get, tokenValid, faults>>

(* The other client only keeps count. *)
OnFrame ==
  /\ client = "resuming" /\ conn = "streaming" /\ wire # <<>>
  /\ IF Head(wire).kind = "snapshot" THEN StartOver ELSE Received
  /\ StayOpen
  /\ UNCHANGED <<client, cacheVars, tokenValid, faults>>

(* The page's GET: the API reads the row, the response lands in the cache.   *)
ApiReadsVideo ==
  /\ get = "sent"
  /\ get' = status
  /\ UNCHANGED <<readModelVars, serverVars, client, conn, shown, tiles, overtaken,
                 tokenValid, cursorVars, faults>>

GetArrives ==
  /\ get \in States
  /\ shown' = get
  /\ overtaken' = (shown # "nothing")
  /\ get' = "done"
  /\ UNCHANGED <<readModelVars, serverVars, client, conn, tiles, tokenValid,
                 cursorVars, faults>>

-----------------------------------------------------------------------------
(* The projector's transactions; a second one for an event is a fault.       *)
Projected(m) == Apply(m) /\ UNCHANGED <<serverVars, clientVars>>

ProjectedAgain(m) ==
  /\ Reapply(m) /\ Fault
  /\ UNCHANGED <<serverVars, client, conn, cacheVars, tokenValid, cursorVars>>

HandleFrame ==
  OnSnapshot \/ OnStatus \/ OnRenditionCompleted \/ OnFailed \/ OnFrame

Browser ==
  \/ Connect \/ ConnectAgain \/ StreamEnds \/ ProbeReturns \/ HandleFrame

Next ==
  \/ \E m \in Messages : Projected(m) \/ ProjectedAgain(m)
  \/ Hear /\ UNCHANGED clientVars
  \/ Serve /\ UNCHANGED clientVars
  \/ Browser
  \/ ConnectFails \/ ConnectionBreaks \/ ProbeFails \/ TokenExpires
  \/ ApiReadsVideo \/ GetArrives

Spec == Init /\ [][Next]_vars

(* The projector keeps consuming, the API keeps serving, a wait ends at its  *)
(* timeout, and the browser's event loop turns.  No wake-up is promised.     *)
FairSpec ==
  /\ Spec
  /\ \A m \in Messages : WF_vars(Projected(m))
  /\ WF_vars(Serve /\ UNCHANGED clientVars)
  /\ WF_vars(Browser)
  /\ WF_vars(ApiReadsVideo) /\ WF_vars(GetArrives)

-----------------------------------------------------------------------------
(* From its snapshot on, over any number of reconnects, a client gets every  *)
(* event up to the last id it has seen: none is skipped, also when frames    *)
(* were lost with a connection (list_events_after, watermark).               *)
DeltasHaveNoGap == \A i \in Ids : base < i /\ i <= lastEventId => i \in told

(* Whatever is committed while a client looks on reaches it, or the client   *)
(* is done: it is up to date again and again, and so, as the log is finite,  *)
(* has all of it.  A wake-up that came before the projector's commit, or     *)
(* between a read and clear(), delays a delta but loses none (the backstop). *)
EveryDeltaArrives ==
  []<>(conn \in {"closed", "unauthorized"} \/ lastEventId = Len(log))

(* A page that says "finished" shows an end: whatever closed the stream for  *)
(* good, and whenever (closedForGood).  Only a response to the page's own    *)
(* GET that was overtaken by the stream can put an older status back.        *)
FinishedPageShowsTheEnd ==
  client = "page" /\ conn = "closed" /\ ~overtaken => shown \in Final

(* When a video is over and stays so, its page stops reconnecting: it is     *)
(* told the end by a frame or, where a snapshot raced the last event, by the *)
(* next snapshot (the tight loop of useVideoEvents.ts:70-79 is not there).   *)
PageComesToRest ==
  client = "page" /\ <>[](status \in Final) => <>(conn \in {"closed", "unauthorized"})

-----------------------------------------------------------------------------
(* What the code says of itself and does not keep: "nothing between 'start   *)
(* listening' and 'finish reading' can be lost" (sse.py:88-89).  A page has  *)
(* a tile for every rendition that an event up to its last id was about.     *)
NothingLost ==
  client = "page" =>
    \A i \in 1 .. lastEventId :
      LET r == Event(log[i]).rendition IN r # NoRendition => tiles[r] # "none"
=============================================================================
