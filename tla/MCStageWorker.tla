--------------------------- MODULE MCStageWorker ---------------------------
(* Instances of StageWorker for TLC.                                         *)
EXTENDS StageWorker, TLC

CONSTANTS p1, p2

MCTiers == <<10, 60>>

(* The first message of p1 has used its ladder up, the others are fresh. *)
MCRetryCount == [m \in Messages |-> IF m = <<p1, 0>> THEN 2 ELSE 0]

(* Each kind of payload, behind a valid message. *)
MCMixed == [m \in Messages |-> CASE m = <<p1, 1>> -> "invalid"
                                  [] m = <<p2, 1>> -> "unknown"
                                  [] OTHER         -> "valid"]

WorkersAlike == Permutations(Workers)
=============================================================================
