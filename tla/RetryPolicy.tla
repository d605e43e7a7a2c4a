---------------------------- MODULE RetryPolicy ----------------------------
(***************************************************************************)
(* Failure classification and retry routing (libs/pipeline/retry.py), with *)
(* the topic naming it relies on (libs/pipeline/topics.py).                *)
(*                                                                         *)
(* A topic name is its origin and a leg: "video.probed" is leg 0 of the    *)
(* origin video.probed, "video.probed.retry.<tier i>" is leg i, and        *)
(* "video.probed.dlq" is the leg after the last tier.  Only these names    *)
(* are ever provisioned (TopicRegistry.plan).                              *)
(***************************************************************************)
EXTENDS Naturals, Sequences

CONSTANT TierDelays     \* the retry ladder: the tiers' delays, in order

(* RetryPolicy.__init__ refuses an empty ladder and one whose delays shrink. *)
ASSUME LadderAssumption ==
  /\ TierDelays \in Seq(Nat)
  /\ TierDelays # <<>>
  /\ \A i, j \in DOMAIN TierDelays : i <= j => TierDelays[i] <= TierDelays[j]

Tiers == DOMAIN TierDelays

SourceLeg == 0
DlqLeg    == Len(TierDelays) + 1

(* None: there is no topic to produce the message to. *)
Nowhere   == Len(TierDelays) + 2

(* Where a failed message can be produced to. *)
FailureLegs == Tiers \union {DlqLeg}

-----------------------------------------------------------------------------
(* What a handler, or parse() before it, can raise.  pydantic's and json's   *)
(* errors on a malformed envelope are "ValidationError"; every exception     *)
(* nobody gave a class to is "Other".                                        *)
Exceptions == {"UnknownEventType", "ValidationError",
               "TerminalError", "TransientError", "Other"}

Classify(exc) ==
  CASE exc = "UnknownEventType" -> "poison"
    [] exc = "TerminalError"    -> "terminal"
    [] OTHER                    -> "transient"

(* count is the retry_count header; retryable the registry's retries flag. *)
Route(exc, count, retryable) ==
  IF Classify(exc) \in {"terminal", "poison"} THEN DlqLeg
  ELSE IF ~retryable THEN Nowhere
  ELSE IF count >= Len(TierDelays) THEN DlqLeg
  ELSE count + 1
=============================================================================
