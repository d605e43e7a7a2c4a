---------------------------- MODULE EventStreams ----------------------------
(***************************************************************************)
(* The admission of event streams: video_events in services/api/main.py,   *)
(* which answers 503 while sse_active is at its limit, and counted_stream, *)
(* the generator that counts itself.                                       *)
(*                                                                         *)
(* A generator counts from the first time it is asked for a frame until    *)
(* its finally.  A client that leaves is noticed by the response, which    *)
(* cancels whatever it awaits: a generator that was never asked for        *)
(* anything is dropped, one that waits inside gets the cancellation, and   *)
(* one that waits at its yield, while the response sends, gets nothing     *)
(* until the event loop finalises it.                                      *)
(***************************************************************************)
EXTENDS Naturals, FiniteSets

CONSTANTS
  Streams,      \* the requests that may be under way at once
  MaxStreams    \* max_concurrent_streams

ASSUME StreamsAssumption == MaxStreams \in Nat \ {0} /\ IsFiniteSet(Streams)

VARIABLES
  stream,       \* each request's step
  sse_active

streamVars == <<stream, sse_active>>

StreamsTypeOK ==
  /\ stream \in [Streams -> {"none", "lookUp", "fresh", "inside", "atYield",
                             "abandoned"}]
  /\ sse_active \in 0 .. Cardinality(Streams)

StreamsInit ==
  /\ stream = [s \in Streams |-> "none"]
  /\ sse_active = 0

-----------------------------------------------------------------------------
Becomes(s, step) == stream' = [stream EXCEPT ![s] = step]

(* The limit is checked here and nowhere else. *)
Admit(s) ==
  /\ stream[s] = "none"
  /\ sse_active < MaxStreams
  /\ Becomes(s, "lookUp")
  /\ UNCHANGED sse_active

(* A video that is not there, or not the caller's, is a 404. *)
LookUpVideo(s) ==
  /\ stream[s] = "lookUp"
  /\ Becomes(s, "fresh") \/ Becomes(s, "none")
  /\ UNCHANGED sse_active

Begin(s) ==
  /\ stream[s] = "fresh"
  /\ Becomes(s, "inside")
  /\ sse_active' = sse_active + 1

YieldFrame(s) ==
  /\ stream[s] = "inside"
  /\ Becomes(s, "atYield")
  /\ UNCHANGED sse_active

FrameSent(s) ==
  /\ stream[s] = "atYield"
  /\ Becomes(s, "inside")
  /\ UNCHANGED sse_active

(* Mutant of Finally: the count goes down after the loop, in no finally.     *)
AfterTheLoop(s) ==
  /\ Becomes(s, "none")
  /\ \/ stream[s] = "inside" /\ sse_active' = sse_active - 1
     \/ UNCHANGED sse_active

Finally(s) ==
  /\ Becomes(s, "none")
  /\ sse_active' = sse_active - 1

(* sse_stream returns or raises, or is cancelled in one of its awaits. *)
StreamOver(s) == stream[s] = "inside" /\ Finally(s)

(* The client leaves while no code of the generator runs. *)
ClientLeaves(s) ==
  /\ \/ stream[s] = "fresh" /\ Becomes(s, "none")
     \/ stream[s] = "atYield" /\ Becomes(s, "abandoned")
  /\ UNCHANGED sse_active

(* The event loop closes a generator that nobody holds any more. *)
Finalised(s) == stream[s] = "abandoned" /\ Finally(s)

StreamsNext ==
  \E s \in Streams :
    \/ Admit(s) \/ LookUpVideo(s) \/ Begin(s) \/ YieldFrame(s) \/ FrameSent(s)
    \/ StreamOver(s) \/ ClientLeaves(s) \/ Finalised(s)

StreamsSpec == StreamsInit /\ [][StreamsNext]_streamVars

-----------------------------------------------------------------------------
(* No slot is lost, "even if the client never reads a byte" (main.py:481-482)*)
(* and wherever the generator is when it leaves: every slot that is counted  *)
(* is held by a stream that is still to give it back, so the 503s of a busy  *)
(* time cannot outlast its streams, however far beyond the limit they were.  *)
SlotsAreHeld ==
  sse_active = Cardinality({s \in Streams :
                              stream[s] \in {"inside", "atYield", "abandoned"}})
=============================================================================
