---------------------------- MODULE StatusEvents ----------------------------
(***************************************************************************)
(* The events about one video that its read model is fed with, as they lie *)
(* on the two topics the projector consumes (events.py: VideoStatusChanged *)
(* and PipelineFailed).  The log of a topic is there from the start.       *)
(***************************************************************************)
EXTENDS Naturals, Sequences, FiniteSets

CONSTANTS
  Renditions,
  NoRendition,   \* event.rendition is None
  Fields,        \* the optional columns an event may carry, such as poster_key
  Log            \* per topic, the events of this video

Topics == {"video.status", "pipeline.failed"}
States == {"uploaded", "probed", "transcoding", "completed", "failed"}
Final  == {"completed", "failed"}

(* known: is there a videos row the event's video_id refers to? *)
EventRecord == [state : States, rendition : Renditions \union {NoRendition},
                fields : SUBSET Fields, known : BOOLEAN]

ASSUME StatusEventsAssumption ==
  /\ NoRendition \notin Renditions
  /\ Log \in [Topics -> Seq(EventRecord)]
  /\ \A i \in DOMAIN Log["pipeline.failed"] :
       Log["pipeline.failed"][i].state = "failed"

Messages == UNION {{t} \X DOMAIN Log[t] : t \in Topics}
Event(m) == Log[m[1]][m[2]]
Known    == {m \in Messages : Event(m).known}

Outcomes == {"none", "completed", "failed"}

(* A video.status with a rendition always carries its object key. *)
Outcome(e) == IF e.state = "failed" THEN "failed" ELSE "completed"
=============================================================================
