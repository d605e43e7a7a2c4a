---------------------------- MODULE MCMediaPlan ----------------------------
(* An instance of MediaPlan for TLC. *)
EXTENDS MediaPlan

Good == [video |-> TRUE, codec |-> "h264", format |-> 4000, stream |-> NoDuration,
         width |-> 640, height |-> 360, rotation |-> 0]

(* Both sides of every rung and of the minimum, landscape and portrait, with *)
(* and without a rotation flag.                                              *)
Sizes ==
  {<<1920, 1080>>, <<1080, 1920>>, <<1919, 1079>>, <<1280, 720>>, <<720, 719>>,
   <<854, 480>>, <<640, 360>>, <<359, 640>>, <<240, 426>>, <<100, 100>>, <<300, 99>>}

BySize ==
  {[Good EXCEPT !.width = s[1], !.height = s[2], !.rotation = r] :
     s \in Sizes, r \in {0, 90, 180, 270}}

(* A millisecond; both sides of one, two, ten, eleven tiles and of the cap;  *)
(* durations with a cue at a full minute, or almost, and of over an hour.    *)
ByDuration ==
  {[Good EXCEPT !.format = d] :
     d \in {1, 2, 999, 5000, 5001, 50000, 50001, 55000, 55001, 115384, 120000,
            499999, 500001, 3600000, 7200001}}

Damaged ==
  {[Good EXCEPT !.video = FALSE], [Good EXCEPT !.codec = "mpeg2video"],
   [Good EXCEPT !.format = 0], [Good EXCEPT !.format = Malformed],
   [Good EXCEPT !.format = NoDuration],
   [Good EXCEPT !.format = NoDuration, !.stream = 7000]}

MCFiles == BySize \union ByDuration \union Damaged

MCOtherLadders == {{360, 818, 1080}, {144, 240, 300}, {1440, 479, 481}}
=============================================================================
