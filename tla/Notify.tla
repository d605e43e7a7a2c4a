------------------------------ MODULE Notify -------------------------------
(***************************************************************************)
(* The webhook notifier (services/worker_notify/main.py): one POST for     *)
(* each video.completed, whose topic has the retry ladder, and for each    *)
(* pipeline.failed, whose topic has none.  On the latter a failing         *)
(* receiver makes the worker end its process and begin again with the same *)
(* message.                                                                *)
(*                                                                         *)
(* The receiver is somebody else's: it answers, it fails for a while, or   *)
(* it refuses what it is sent.  While it fails it may still act on what it *)
(* was sent and only answer too late.                                      *)
(***************************************************************************)
EXTENDS RetryPump

CONSTANT Outcomes   \* the video.completed and pipeline.failed to tell of

ASSUME NotifyAssumption ==
  \A e \in Outcomes : e \in Events /\ "notify" \in Readers[e]

VARIABLES
  posting,        \* the message in hand, or NoCopy
  receiver,       \* "well", "failing"
  wellSince,      \* when it last became well, Never if it is not
  told            \* the outcomes the receiver has acted on

notifyVars == <<posting, receiver, wellSince, told>>
notifyStage == <<ladderVars, notifyVars>>

NotifyTypeOK ==
  /\ posting # NoCopy => posting \in waiting
  /\ receiver \in {"well", "failing"}
  /\ wellSince \in 0 .. now \union {Never}
  /\ told \subseteq Outcomes

NotifyInit ==
  /\ posting = NoCopy
  /\ receiver = "well" /\ wellSince = 0
  /\ told = {}

-----------------------------------------------------------------------------
(* A message is there from its event's occurred_at on; it stays on its topic *)
(* until its offset is committed.                                            *)
TakeOutcome ==
  /\ posting = NoCopy
  /\ \E d \in waiting :
       /\ d.event \in Outcomes /\ Occurred[d.event] <= now
       /\ posting' = d
  /\ UNCHANGED <<ladderVars, receiver, wellSince, told>>

PostSucceeds ==
  /\ posting # NoCopy /\ receiver = "well"
  /\ told' = told \union {posting.event}
  /\ waiting' = waiting \ {posting}
  /\ posting' = NoCopy
  /\ UNCHANGED <<clockVars, laddered, dead, faults, receiver, wellSince>>

(* 4xx: TerminalError. *)
PostRefused ==
  /\ posting # NoCopy /\ receiver = "well" /\ Fault
  /\ ParkTerminal(posting)
  /\ waiting' = waiting \ {posting}
  /\ posting' = NoCopy
  /\ UNCHANGED <<clockVars, receiver, wellSince, told>>

(* Mutant of FailPost: what can go nowhere is committed all the same. *)
FailPostQuietly ==
  /\ waiting' = waiting \ {posting}
  /\ IF Leg(posting, "TransientError") = Nowhere
       THEN UNCHANGED <<laddered, dead>>
       ELSE ParkTransient(posting)

(* 5xx, no connection, or an answer that is too late: TransientError.  What  *)
(* can go nowhere is raised, and run_worker's process ends uncommitted.      *)
FailPost ==
  IF Leg(posting, "TransientError") = Nowhere
    THEN UNCHANGED kafkaVars
    ELSE ParkTransient(posting) /\ waiting' = waiting \ {posting}

PostFails ==
  /\ posting # NoCopy /\ receiver = "failing"
  /\ told' \in {told, told \union {posting.event}}
  /\ FailPost
  /\ posting' = NoCopy
  /\ UNCHANGED <<clockVars, faults, receiver, wellSince>>

NotifierCrashes ==
  /\ posting # NoCopy /\ Fault
  /\ told' \in {told, told \union {posting.event}}
  /\ posting' = NoCopy
  /\ UNCHANGED <<clockVars, kafkaVars, receiver, wellSince>>

(* It may fail at any time; while there is nothing to tell it makes no       *)
(* difference.                                                               *)
ReceiverFails ==
  /\ receiver = "well" /\ Fault
  /\ \E c \in waiting \union laddered : c.event \in Outcomes
  /\ receiver' = "failing" /\ wellSince' = Never
  /\ UNCHANGED <<clockVars, kafkaVars, posting, told>>

ReceiverRecovers ==
  /\ receiver = "failing"
  /\ receiver' = "well" /\ wellSince' = now
  /\ UNCHANGED <<ladderVars, posting, told>>

(* A POST takes no longer than the shortest tier (settings.py:204); here no   *)
(* time.                                                                     *)
NotifyIsInTime == posting = NoCopy

NotifyNext ==
  \/ TakeOutcome \/ PostSucceeds \/ PostRefused \/ PostFails
  \/ NotifierCrashes \/ ReceiverFails \/ ReceiverRecovers

(* The worker goes on, and the receiver is repaired some day. *)
NotifyFairness ==
  /\ WF_notifyStage(TakeOutcome \/ PostSucceeds \/ PostFails)
  /\ WF_notifyStage(ReceiverRecovers)

-----------------------------------------------------------------------------
GivenUp(e) == \E why \in {"exhausted", "refused", "unpumped"} :
                [event |-> e, why |-> why] \in dead

(* Every outcome reaches the receiver in the end, or is on the DLQ for it to *)
(* be replayed: on the topic with a ladder as on the one without, where only *)
(* the crash keeps the message (consumer.py:330-353).                        *)
EveryOutcomeTold ==
  (\E d \in waiting : d.event \in Outcomes)
    ~> \A e \in Outcomes : e \in told \/ GivenUp(e)

(* The ladder is for "a receiver's own outage" (main.py:57-59): one that is  *)
(* over before the last tier's delay after the event loses it nothing,       *)
(* whatever other events and tiers the pump was sleeping over meanwhile.     *)
OutageOutlasted ==
  \A e \in Outcomes :
    [event |-> e, why |-> "exhausted"] \in dead /\ e \notin told
      => receiver = "failing" \/ wellSince >= Occurred[e] + TierDelays[Len(TierDelays)]
=============================================================================
