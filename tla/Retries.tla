------------------------------ MODULE Retries ------------------------------
(***************************************************************************)
(* The stages that live on the retry ladder, on one clock and with one     *)
(* pump between them: transcode, thumbnail (beside the packager group) and *)
(* notify.  They share nothing else; which of their messages are there is  *)
(* chosen at the start.                                                    *)
(***************************************************************************)
EXTENDS Transcode, Thumbnail, Notify

(* The three stages read three topics. *)
ASSUME RetriesAssumption ==
  Requested # Probed /\ {Requested, Probed} \intersect Outcomes = {}

TypeOK == LadderTypeOK /\ TranscodeTypeOK /\ ThumbnailTypeOK /\ NotifyTypeOK

Init ==
  /\ \E present \in {{Requested}, {Probed}, Outcomes} : LadderInit(present)
  /\ TranscodeInit /\ ThumbnailInit /\ NotifyInit

vars == <<ladderVars, transcodeVars, thumbnailVars, notifyVars>>

(* Time passes when no stage would have done something by then. *)
Tick == LadderTick /\ TranscodeIsInTime /\ ThumbnailIsInTime /\ NotifyIsInTime

Next ==
  \/ TranscodeNext /\ UNCHANGED <<thumbnailVars, notifyVars>>
  \/ ThumbnailNext /\ UNCHANGED <<transcodeVars, notifyVars>>
  \/ NotifyNext /\ UNCHANGED <<transcodeVars, thumbnailVars>>
  \/ (Pump \/ Tick) /\ UNCHANGED <<transcodeVars, thumbnailVars, notifyVars>>

Spec == Init /\ [][Next]_vars

FairSpec ==
  /\ Spec
  /\ TranscodeFairness /\ ThumbnailFairness /\ NotifyFairness
  /\ PumpFairness /\ WF_ladderVars(Tick)
=============================================================================
