----------------------------- MODULE MCRetries -----------------------------
(* An instance of Retries for TLC: the 10s, 1m and 10m ladder and the 5m     *)
(* claim are scaled down.                                                    *)
EXTENDS Retries, TLC

CONSTANTS Completed, Repeated, Failed

MCTiers    == <<1, 2, 4>>
MCEvents   == {Requested, Probed, Completed, Repeated, Failed}
MCLaddered == MCEvents \ {Failed}
MCOutcomes == {Completed, Repeated, Failed}

(* The packager's second announcement of the video comes later. *)
MCOccurred == [e \in MCEvents |-> IF e = Repeated THEN 1 ELSE 0]

MCReaders ==
  [e \in MCEvents |-> CASE e = Requested -> {"transcode"}
                        [] e = Probed    -> {"thumbnail", "packager"}
                        [] OTHER         -> {"notify"}]
=============================================================================
