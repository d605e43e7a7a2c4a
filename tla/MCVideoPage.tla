---------------------------- MODULE MCVideoPage ----------------------------
(* An instance of VideoPage for TLC. *)
EXTENDS VideoPage

CONSTANT r1

Status(state, rendition) ==
  [state |-> state, rendition |-> rendition, fields |-> {}, known |-> TRUE]

(* A rendition, the packaged video, and a rendition that fails meanwhile. *)
MCLog ==
  [t \in Topics |->
     IF t = "video.status"
       THEN <<Status("transcoding", r1), Status("completed", NoRendition)>>
       ELSE <<Status("failed", r1)>>]
=============================================================================
