----------------------------- MODULE MediaPlan -----------------------------
(***************************************************************************)
(* What the workers plan for a file from ffprobe's answer: the ladder of   *)
(* renditions (media.py, ladder.py), the sprite sheet with its WebVTT cues *)
(* (thumbnail.py) and the master playlist (hls.py, transcode.py).          *)
(*                                                                         *)
(* Durations are milliseconds.  The float duration / (count + 1) is exact  *)
(* here: times of cues are in ticks, of which a millisecond has count + 1. *)
(* A value half-way between two roundings goes up, whatever its float does.*)
(***************************************************************************)
EXTENDS Integers, Sequences, FiniteSetsExt

CONSTANTS
  Files,         \* what ffprobe says: see FileRecord
  NoDuration,    \* a duration that ffprobe leaves out
  Malformed,     \* one that is not a number
  OtherLadders   \* ladders on record from elsewhere than select_ladder

Durations == Nat \union {NoDuration, Malformed}

FileRecord ==
  [video : BOOLEAN, codec : STRING, format : Durations, stream : Durations,
   width : Nat, height : Nat, rotation : Nat]

ASSUME MediaAssumption ==
  /\ Files \subseteq FileRecord
  /\ NoDuration \notin Nat /\ Malformed \notin Nat /\ NoDuration # Malformed
  /\ \A l \in OtherLadders : IsFiniteSet(l) /\ l \subseteq Nat \ {0}

VARIABLES
  step,       \* "probe", "rejected", "cues", "master", "done"
  file,
  duration,
  ladder,
  cues,
  expected,   \* the ladder the packager has on record
  master      \* the entries of master.m3u8

vars == <<step, file, duration, ladder, cues, expected, master>>

-----------------------------------------------------------------------------
ALLOWED_VIDEO_CODECS == {"h264", "hevc", "vp8", "vp9", "av1"}

RawDuration(f) == IF f.format # NoDuration THEN f.format ELSE f.stream

(* display_dimensions: as a viewer sees the picture. *)
Turned(f)    == f.rotation % 180 = 90
Displayed(f) == IF Turned(f) THEN <<f.height, f.width>> ELSE <<f.width, f.height>>

ShortSide(f) == IF Displayed(f)[1] < Displayed(f)[2] THEN Displayed(f)[1]
                                                     ELSE Displayed(f)[2]

STANDARD_RUNGS == {360, 480, 720, 1080}
MIN_SUPPORTED_SHORT_SIDE == 100

(* The TerminalErrors of parse_ffprobe and select_ladder. *)
Rejected(f) ==
  \/ ~f.video
  \/ RawDuration(f) \in {NoDuration, Malformed, 0}
  \/ f.codec \notin ALLOWED_VIDEO_CODECS
  \/ ShortSide(f) < MIN_SUPPORTED_SHORT_SIDE

(* Mutant of Side: the ladder goes by the height. *)
StoredHeight(f) == f.height

(* The side the rungs are compared with. *)
Side(f) == ShortSide(f)

(* select_ladder: no upscaling, and a small source at its own size. *)
Ladder(f) ==
  LET rungs == {r \in STANDARD_RUNGS : r <= Side(f)} IN
  IF rungs = {} THEN {Side(f)} ELSE rungs

-----------------------------------------------------------------------------
Rounded(n, d)  == (2 * n + d) \div (2 * d)
RoundedUp(n, d) == (n + d - 1) \div d

INTERVAL == 5000
MAX_TILES == 100
MAX_COLUMNS == 10

TileCount(d) ==
  LET n == RoundedUp(d, INTERVAL) IN IF n < MAX_TILES THEN n ELSE MAX_TILES

Columns(count) == IF count < MAX_COLUMNS THEN count ELSE MAX_COLUMNS

Rows(count) == RoundedUp(count, Columns(count))

(* plan_sprite: tiles are duration / Slots(count) apart. *)
Slots(count) == count + 1

(* Where the i-th cue begins, in ticks; i counts from 0. *)
Start(i, d) == i * d

(* Mutant of End: the last cue is as long as the others. *)
NominalEnd(i, d) == (i + 1) * d

(* The last cue reaches the end; a cue is a millisecond long at least. *)
End(i, d) ==
  LET slots == Slots(TileCount(d))
      end   == IF i = TileCount(d) - 1 THEN d * slots ELSE (i + 1) * d IN
  IF end > Start(i, d) + slots THEN end ELSE Start(i, d) + slots

(* _format_vtt_timestamp: the seconds are rounded after the minutes are      *)
(* taken off, so they may be printed as 60.000.                              *)
Timestamp(ticks, slots) ==
  LET minute == 60000 * slots
      hour   == 60 * minute IN
  [h |-> ticks \div hour, m |-> (ticks % hour) \div minute,
   ms |-> Rounded(ticks % minute, slots)]

Column(i, count) == i % Columns(count)
Row(i, count)    == i \div Columns(count)

Cue(i, d) ==
  LET slots == Slots(TileCount(d)) IN
  [start |-> Timestamp(Start(i, d), slots), end |-> Timestamp(End(i, d), slots),
   column |-> Column(i, TileCount(d)), row |-> Row(i, TileCount(d))]

-----------------------------------------------------------------------------
(* bitrate_for, in kbps. *)
BITRATES == [r \in {240, 360, 480, 720, 1080} |->
               CASE r = 240 -> 400 [] r = 360 -> 800 [] r = 480 -> 1400
                 [] r = 720 -> 2800 [] r = 1080 -> 5000]

Between(r) ==
  LET lower == Max({s \in DOMAIN BITRATES : s < r})
      upper == Min({s \in DOMAIN BITRATES : s > r}) IN
  BITRATES[lower]
    + Rounded((r - lower) * (BITRATES[upper] - BITRATES[lower]), upper - lower)

Bitrate(r) ==
  CASE r \in DOMAIN BITRATES -> BITRATES[r]
    [] r < 240               -> BITRATES[240]
    [] r > 1080              -> BITRATES[1080]
    [] OTHER                 -> Between(r)

(* Mutant of Before: sorted by the labels, as strings. *)
LabelBefore(a, b) == (a >= 1000 /\ b < 1000) \/ ((a >= 1000 <=> b >= 1000) /\ a < b)

Before(a, b) == a < b

(* sorted: the one order of the renditions that agrees with the key's. *)
Sorted(renditions) ==
  CHOOSE s \in [1 .. Cardinality(renditions) -> renditions] :
    \A i, j \in DOMAIN s : i < j => Before(s[i], s[j])

(* build_master_playlist *)
MasterPlaylist(renditions) ==
  LET ordered == Sorted(renditions) IN
  [i \in DOMAIN ordered |-> [rung |-> ordered[i], bandwidth |-> Bitrate(ordered[i])]]

-----------------------------------------------------------------------------
Init ==
  /\ step = "probe"
  /\ file \in Files
  /\ duration = 0 /\ ladder = {} /\ cues = <<>> /\ expected = {} /\ master = <<>>

(* worker_probe: video.probed carries the duration and the whole ladder. *)
Probe ==
  /\ step = "probe"
  /\ IF Rejected(file)
       THEN step' = "rejected" /\ UNCHANGED <<duration, ladder, expected>>
       ELSE /\ step' = "cues"
            /\ duration' = RawDuration(file)
            /\ ladder' = Ladder(file)
            /\ expected' \in {ladder'} \union OtherLadders
  /\ UNCHANGED <<file, cues, master>>

(* build_vtt, a tile at a time. *)
AppendCue ==
  /\ step = "cues"
  /\ cues' = Append(cues, Cue(Len(cues), duration))
  /\ step' = IF Len(cues') = TileCount(duration) THEN "master" ELSE "cues"
  /\ UNCHANGED <<file, duration, ladder, expected, master>>

Package ==
  /\ step = "master"
  /\ master' = MasterPlaylist(expected)
  /\ step' = "done"
  /\ UNCHANGED <<file, duration, ladder, cues, expected>>

Next == Probe \/ AppendCue \/ Package

Spec == Init /\ [][Next]_vars

-----------------------------------------------------------------------------
(* The ladder suits the picture as it is seen, however it is stored: never   *)
(* empty (packaging would be complete at once), never larger than the        *)
(* picture in either direction, and with every rung that fits (ADR-0012).    *)
LadderSuitsTheViewer ==
  step \in {"cues", "master", "done"} =>
    /\ ladder # {}
    /\ \A r \in ladder : r <= Displayed(file)[1] /\ r <= Displayed(file)[2]
    /\ \A r \in STANDARD_RUNGS :
         r <= Displayed(file)[1] /\ r <= Displayed(file)[2] => r \in ladder

(* What a lenient reader makes of a timestamp. *)
Ms(t) == t.h * 3600000 + t.m * 60000 + t.ms

(* As they are printed, the cues cover the clip from its beginning to its    *)
(* end without a gap or an overlap, and none is empty (build_vtt's "dead     *)
(* zone"); each shows a tile of its own, and the sheet has no row or column  *)
(* without one (sprite_grid).  The periods of all tiles end before the clip  *)
(* does, or ffmpeg would emit one less ("safely inside it", plan_sprite).    *)
CuesTileTheClip ==
  LET count == TileCount(duration)
      cells == {<<cues[i].column, cues[i].row>> : i \in DOMAIN cues} IN
  /\ cues # <<>> => Ms(cues[1].start) = 0
  /\ \A i \in DOMAIN cues : Ms(cues[i].start) < Ms(cues[i].end)
  /\ \A i \in 1 .. Len(cues) - 1 : cues[i].end = cues[i + 1].start
  /\ Cardinality(cells) = Len(cues)
  /\ step \in {"master", "done"} =>
       /\ Ms(cues[Len(cues)].end) = duration
       /\ Start(count, duration) < duration * Slots(count)
       /\ {c[1] : c \in cells} = 0 .. Columns(count) - 1
       /\ {c[2] : c \in cells} = 0 .. Rows(count) - 1

(* A player reads the variants in the order of their bandwidth, each once,   *)
(* also where a ladder has rungs that the bitrate is interpolated for.       *)
MasterIsByBandwidth ==
  step = "done" =>
    /\ {master[i].rung : i \in DOMAIN master} = expected
    /\ Len(master) = Cardinality(expected)
    /\ \A i, j \in DOMAIN master : i < j => master[i].bandwidth <= master[j].bandwidth
=============================================================================
