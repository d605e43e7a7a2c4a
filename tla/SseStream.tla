----------------------------- MODULE SseStream -----------------------------
(***************************************************************************)
(* The server's side of one event stream of one video (services/api/       *)
(* sse.py, libs/pipeline/broadcast.py, SSERepository), beside the read     *)
(* model it reads.  Every query and every yield is a step; the wake-ups    *)
(* come straight from Kafka, unsynchronised with the projector.  Who asks  *)
(* for the stream is VideoPage's business.                                 *)
(***************************************************************************)
EXTENDS ReadModel

VARIABLES
  at,           \* where the generator is
  wakeup,       \* the asyncio.Event
  rowRead,      \* what the queries of a snapshot or of a pass have read so
  outcomeRead,  \* far: locals, back at their first value when it is over
  watermark,
  rows,         \* new_rows not yet yielded
  wire          \* frames that were yielded and have not reached the client

NoOutcome == [r \in Renditions |-> "none"]

serverVars == <<at, wakeup, rowRead, outcomeRead, watermark, rows, wire>>

Ids == DOMAIN log

Frames ==
  [kind : {"snapshot"}, id : Nat, status : States, outcome : [Renditions -> Outcomes]]
    \union [kind : {"delta"}, id : Nat]

ServerTypeOK ==
  /\ at \in {"closed", "row", "renditions", "max", "loop", "deltas", "yield",
             "wait", "ended"}
  /\ wakeup \in BOOLEAN
  /\ rowRead \in States /\ outcomeRead \in [Renditions -> Outcomes]
  /\ watermark \in {0} \union Ids
  /\ rows \in Seq(Ids)
  /\ \A i \in DOMAIN wire : wire[i] \in Frames /\ wire[i].id <= watermark

ServerInit ==
  /\ at = "closed" /\ wakeup = FALSE
  /\ rowRead = "uploaded" /\ outcomeRead = NoOutcome
  /\ watermark = 0 /\ rows = <<>> /\ wire = <<>>

-----------------------------------------------------------------------------
(* The broadcaster gets a message with the video's key.  Nothing ties its    *)
(* consumer to the projector's: it may be ahead, behind, or started too late *)
(* to see the message at all.                                                *)
Hear ==
  /\ at \notin {"closed", "ended"} /\ ~wakeup
  /\ wakeup' = TRUE
  /\ UNCHANGED <<readModelVars, at, rowRead, outcomeRead, watermark, rows, wire>>

(* subscribe() comes first.  Without a Last-Event-ID a snapshot is read.     *)
Open(start, from) ==
  /\ at' = start
  /\ watermark' = from
  /\ UNCHANGED <<readModelVars, wakeup, rowRead, outcomeRead, rows, wire>>

Subscribe  == Open("row", 0)
Resume(id) == Open("loop", id)

(* The client is gone: the generator is closed, what is on its way is lost. *)
HangUp ==
  /\ at' = "closed" /\ watermark' = 0 /\ wakeup' = FALSE
  /\ rowRead' = "uploaded" /\ outcomeRead' = NoOutcome
  /\ wire' = <<>> /\ rows' = <<>>
  /\ UNCHANGED <<readModelVars>>

(* The snapshot: the video's row, the renditions, the greatest event id,     *)
(* each read by a statement of its own.                                      *)
ReadRow ==
  /\ at = "row"
  /\ rowRead' = status
  /\ at' = "renditions"
  /\ UNCHANGED <<readModelVars, wakeup, outcomeRead, watermark, rows, wire>>

ReadRenditions ==
  /\ at = "renditions"
  /\ outcomeRead' = outcome
  /\ at' = "max"
  /\ UNCHANGED <<readModelVars, wakeup, rowRead, watermark, rows, wire>>

ReadMaxAndYield ==
  /\ at = "max"
  /\ watermark' = Len(log)
  /\ wire' = Append(wire, [kind |-> "snapshot", id |-> Len(log),
                           status |-> rowRead, outcome |-> outcomeRead])
  /\ rowRead' = "uploaded" /\ outcomeRead' = NoOutcome
  /\ at' = "loop"
  /\ UNCHANGED <<readModelVars, wakeup, rows>>

(* A pass of the loop: the video's row, then the events past the watermark.  *)
ReadStatus ==
  /\ at = "loop"
  /\ rowRead' = status
  /\ at' = "deltas"
  /\ UNCHANGED <<readModelVars, wakeup, outcomeRead, watermark, rows, wire>>

ReadDeltas ==
  /\ at = "deltas"
  /\ rows' = [i \in 1 .. Len(log) - watermark |-> watermark + i]
  /\ at' = "yield"
  /\ UNCHANGED <<readModelVars, wakeup, rowRead, outcomeRead, watermark, wire>>

(* Mutant of YieldDelta: the watermark is the newest id, as soon as it is    *)
(* read, and the rest of the rows is dropped.                                *)
YieldNewest ==
  /\ at = "yield" /\ rows # <<>>
  /\ wire' = Append(wire, [kind |-> "delta", id |-> rows[Len(rows)]])
  /\ watermark' = rows[Len(rows)]
  /\ rows' = <<>>
  /\ UNCHANGED <<readModelVars, at, wakeup, rowRead, outcomeRead>>

YieldDelta ==
  /\ at = "yield" /\ rows # <<>>
  /\ wire' = Append(wire, [kind |-> "delta", id |-> Head(rows)])
  /\ watermark' = Head(rows)
  /\ rows' = Tail(rows)
  /\ UNCHANGED <<readModelVars, at, wakeup, rowRead, outcomeRead>>

(* Mutant of EndOfPass: the row is read again, after the events. *)
EndByFreshStatus ==
  /\ at = "yield" /\ rows = <<>>
  /\ at' = IF status \in Final THEN "ended" ELSE "wait"
  /\ wakeup' = FALSE
  /\ rowRead' = "uploaded"
  /\ UNCHANGED <<readModelVars, outcomeRead, watermark, rows, wire>>

EndOfPass ==
  /\ at = "yield" /\ rows = <<>>
  /\ at' = IF rowRead \in Final THEN "ended" ELSE "wait"
  /\ wakeup' = FALSE
  /\ rowRead' = "uploaded"
  /\ UNCHANGED <<readModelVars, outcomeRead, watermark, rows, wire>>

(* Mutant of NextPass: there is no backstop. *)
NextPassWhenWoken ==
  /\ at = "wait" /\ wakeup
  /\ at' = "loop"
  /\ UNCHANGED <<readModelVars, wakeup, rowRead, outcomeRead, watermark,
                 rows, wire>>

(* Woken, or wakeup_poll_backstop_seconds are over. *)
NextPass ==
  /\ at = "wait"
  /\ at' = "loop"
  /\ UNCHANGED <<readModelVars, wakeup, rowRead, outcomeRead, watermark,
                 rows, wire>>

Serve ==
  \/ ReadRow \/ ReadRenditions \/ ReadMaxAndYield
  \/ ReadStatus \/ ReadDeltas \/ YieldDelta \/ EndOfPass \/ NextPass

-----------------------------------------------------------------------------
(* A stream ends only after the event that ended it: the id of one that made *)
(* the status final is covered (the row is read before the events).          *)
EndIsCovered ==
  at = "ended" => \E i \in 1 .. watermark : Event(log[i]).state \in Final
=============================================================================
