---------------------------- MODULE MCProjector ----------------------------
(* Instances of Projector for TLC.                                           *)
EXTENDS Projector

CONSTANTS r1, poster, master

Status(state, rendition, fields) ==
  [state |-> state, rendition |-> rendition, fields |-> fields, known |-> TRUE]

Stray == [state |-> "failed", rendition |-> NoRendition, fields |-> {},
          known |-> FALSE]

(* A rendition, the thumbnails, the packaged video; a failure among them, and *)
(* one of a video the database does not know.                                *)
MCLog ==
  [t \in Topics |->
     IF t = "video.status"
       THEN <<Status("transcoding", r1, {}),
              Status("transcoding", NoRendition, {poster}),
              Status("completed", NoRendition, {master})>>
       ELSE <<Status("failed", r1, {}), Stray>>]
=============================================================================
