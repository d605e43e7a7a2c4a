----------------------------- MODULE Thumbnail -----------------------------
(***************************************************************************)
(* One video.probed on its way through the thumbnail stage and the retry   *)
(* ladder: services/worker_thumbnail/main.py.                              *)
(*                                                                         *)
(* Poster, sprite sheet and cues are made and promoted one after the other *)
(* under no claim: members of the group that work on the same message      *)
(* share the scratch keys, and one can delete what the other is about to   *)
(* copy.  The packager group reads video.probed as well, so what it fails  *)
(* comes back to this stage too, with the count it has reached.            *)
(***************************************************************************)
EXTENDS RetryPump

CONSTANTS
  Probed,         \* the video.probed
  Thumbnailers    \* members of the thumbnail group

ASSUME ThumbnailAssumption ==
  Probed \in Laddered /\ {"thumbnail", "packager"} \subseteq Readers[Probed]

VARIABLES
  step, piece,    \* each member's step, and the piece it is about
  held,           \* the retry_count of its message
  moved,          \* its partition went to another member meanwhile
  final, scratch, \* the pieces that are stored at their keys
  shown           \* was "thumbnails ready" published?

memberVars    == <<step, piece, held, moved>>
thumbnailVars == <<memberVars, final, scratch, shown>>
thumbnailStage == <<ladderVars, thumbnailVars>>

(* In the order they are made. *)
Poster == 1
Sprite == 2
Vtt    == 3
Pieces == {Poster, Sprite, Vtt}

ThumbnailTypeOK ==
  /\ step \in [Thumbnailers -> {"idle", "look", "make", "copy", "delete",
                                "announce", "flush"}]
  /\ piece \in [Thumbnailers -> Pieces]
  /\ held \in [Thumbnailers -> Counts]
  /\ moved \in [Thumbnailers -> BOOLEAN]
  /\ final \subseteq Pieces /\ scratch \subseteq Pieces /\ shown \in BOOLEAN

ThumbnailInit ==
  /\ step = [w \in Thumbnailers |-> "idle"]
  /\ piece = [w \in Thumbnailers |-> Poster]
  /\ held = [w \in Thumbnailers |-> 0]
  /\ moved = [w \in Thumbnailers |-> FALSE]
  /\ final = {} /\ scratch = {} /\ shown = FALSE

-----------------------------------------------------------------------------
AtWork(w) == step[w] # "idle"

ToMessage(n) == [group |-> "thumbnail", event |-> Probed, count |-> n]

GoTo(w, s, p) ==
  /\ step' = [step EXCEPT ![w] = s]
  /\ piece' = [piece EXCEPT ![w] = p]
  /\ UNCHANGED <<held, moved>>

Over(w) ==
  /\ step' = [step EXCEPT ![w] = "idle"]
  /\ piece' = [piece EXCEPT ![w] = Poster]
  /\ held' = [held EXCEPT ![w] = 0]
  /\ moved' = [moved EXCEPT ![w] = FALSE]

TakeProbed(w, n) ==
  /\ ~AtWork(w) /\ ToMessage(n) \in waiting
  /\ \A v \in Thumbnailers : AtWork(v) => moved[v]
  /\ waiting' = waiting \ {ToMessage(n)}
  /\ step' = [step EXCEPT ![w] = "look"]
  /\ held' = [held EXCEPT ![w] = n]
  /\ UNCHANGED <<clockVars, laddered, dead, faults, piece, moved, final, scratch,
                 shown>>

(* Mutant of FailProbed: whoever lost the scratch object leaves it at that. *)
LoseQuietly(w) == Over(w) /\ UNCHANGED kafkaVars

FailProbed(w) ==
  /\ ParkTransient(ToMessage(held[w]))
  /\ Over(w)
  /\ UNCHANGED waiting

(* Mutant of Look: the first piece stands for all. *)
LookAtPoster(w) ==
  /\ step[w] = "look"
  /\ IF Poster \in final THEN GoTo(w, "announce", Poster)
     ELSE GoTo(w, "make", Poster)
  /\ UNCHANGED <<ladderVars, final, scratch, shown>>

(* exists, piece by piece; with any of them missing all are made again. *)
Look(w) ==
  /\ step[w] = "look"
  /\ IF piece[w] \notin final THEN GoTo(w, "make", Poster)
     ELSE IF piece[w] = Vtt THEN GoTo(w, "announce", Poster)
     ELSE GoTo(w, "look", piece[w] + 1)
  /\ UNCHANGED <<ladderVars, final, scratch, shown>>

(* ffmpeg, or build_vtt, and the upload to the scratch key. *)
Make(w) ==
  /\ step[w] = "make"
  /\ scratch' = scratch \union {piece[w]}
  /\ GoTo(w, "copy", piece[w])
  /\ UNCHANGED <<ladderVars, final, shown>>

CopyPiece(w) ==
  /\ step[w] = "copy"
  /\ IF piece[w] \in scratch
       THEN /\ final' = final \union {piece[w]}
            /\ GoTo(w, "delete", piece[w])
            /\ UNCHANGED kafkaVars
       ELSE FailProbed(w) /\ UNCHANGED final
  /\ UNCHANGED <<clockVars, faults, scratch, shown>>

DeletePiece(w) ==
  /\ step[w] = "delete"
  /\ scratch' = scratch \ {piece[w]}
  /\ IF piece[w] = Vtt THEN GoTo(w, "announce", Poster)
     ELSE GoTo(w, "make", piece[w] + 1)
  /\ UNCHANGED <<ladderVars, final, shown>>

AnnounceThumbnails(w) ==
  /\ step[w] = "announce"
  /\ shown' = TRUE
  /\ GoTo(w, "flush", Poster)
  /\ UNCHANGED <<ladderVars, final, scratch>>

FinishProbed(w) ==
  /\ step[w] = "flush"
  /\ Over(w)
  /\ UNCHANGED <<ladderVars, final, scratch, shown>>

HandleProbed(w) ==
  \/ Look(w) \/ Make(w) \/ CopyPiece(w) \/ DeletePiece(w)
  \/ AnnounceThumbnails(w) \/ FinishProbed(w)

-----------------------------------------------------------------------------
(* A call raises anything but TerminalError, in any step. *)
ThumbnailFails(w) ==
  /\ AtWork(w) /\ Fault
  /\ FailProbed(w)
  /\ UNCHANGED <<clockVars, final, scratch, shown>>

(* Whatever is wrong with ffmpeg's run, a timeout too, is a TerminalError.   *)
ThumbnailRefused(w) ==
  /\ step[w] = "make" /\ piece[w] # Vtt /\ Fault
  /\ ParkTerminal(ToMessage(held[w]))
  /\ Over(w)
  /\ UNCHANGED <<clockVars, waiting, final, scratch, shown>>

ThumbnailerCrashes(w) ==
  /\ AtWork(w) /\ Fault
  /\ waiting' = IF moved[w] THEN waiting ELSE waiting \union {ToMessage(held[w])}
  /\ Over(w)
  /\ UNCHANGED <<clockVars, laddered, dead, final, scratch, shown>>

ThumbnailerEvicted(w) ==
  /\ AtWork(w) /\ ~moved[w] /\ Fault
  /\ moved' = [moved EXCEPT ![w] = TRUE]
  /\ waiting' = waiting \union {ToMessage(held[w])}
  /\ UNCHANGED <<clockVars, laddered, dead, step, piece, held, final, scratch,
                 shown>>

(* The packager's own work on a copy is Packager's business; here it is done *)
(* or failed onto the ladder.                                                *)
PackagerTakes ==
  /\ \E d \in waiting :
       /\ d.event = Probed /\ d.group = "packager"
       /\ waiting' = waiting \ {d}
       /\ \/ UNCHANGED <<laddered, dead, faults>>
          \/ ParkTransient(d) /\ Fault
  /\ UNCHANGED <<clockVars, thumbnailVars>>

(* How long a message waits, or a member works on it, makes no difference to *)
(* anybody before another member gets the message too: no time passes till   *)
(* then.                                                                     *)
ThumbnailIsInTime ==
  /\ \A w \in Thumbnailers : AtWork(w) => moved[w]
  /\ \A d \in waiting : d.event = Probed =>
       d.group = "thumbnail" /\ \A w \in Thumbnailers : AtWork(w)

ThumbnailNext ==
  \/ \E w \in Thumbnailers :
       \/ \E n \in Counts : TakeProbed(w, n)
       \/ HandleProbed(w)
       \/ ThumbnailFails(w) \/ ThumbnailRefused(w)
       \/ ThumbnailerCrashes(w) \/ ThumbnailerEvicted(w)
  \/ PackagerTakes

(* Members of both groups take what is there, and handlers' calls return. *)
ThumbnailFairness ==
  /\ WF_thumbnailStage(\E w \in Thumbnailers, n \in Counts : TakeProbed(w, n))
  /\ \A w \in Thumbnailers : WF_thumbnailStage(HandleProbed(w))
  /\ WF_thumbnailStage(PackagerTakes)

-----------------------------------------------------------------------------
(* "thumbnails ready" names three keys (main.py:125-141), and all of them    *)
(* are there to be fetched, although no attempt owns the scratch keys and a  *)
(* later one takes over what an earlier one left.                            *)
ThumbnailsAreThere == shown => final = Pieces

(* Whoever crashes, is evicted, or has its scratch object deleted by another *)
(* attempt's promote, the thumbnails are announced in the end, unless ffmpeg *)
(* cannot make them.                                                         *)
ThumbnailsInTheEnd ==
  (\E n \in Counts : ToMessage(n) \in waiting)
    ~> shown \/ [event |-> Probed, why |-> "refused"] \in dead
=============================================================================
