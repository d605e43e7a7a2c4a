----------------------------- MODULE RetryPump -----------------------------
(***************************************************************************)
(* The retry ladder's topics, the pump that empties them                   *)
(* (services/worker_retry_pump/main.py), and the clock its delays are      *)
(* measured by.  The stages of the pipeline extend this module with their  *)
(* handlers: they take copies from their source topic and fail them onto   *)
(* the ladder.                                                             *)
(*                                                                         *)
(* The pump is one thread for all tiers of all topics.  It takes a copy,   *)
(* sleeps until the event's occurred_at plus the tier's delay, publishes   *)
(* the copy to the source topic as it is, and only then commits.  A copy   *)
(* on a source topic goes to every group that reads it, whoever failed.    *)
(*                                                                         *)
(* Topics are sets: equal copies on one topic travel as one, and copies    *)
(* may be taken in any order.                                              *)
(***************************************************************************)
EXTENDS RetryPolicy, FiniteSets

CONSTANTS
  Events,       \* the events that may have to be retried
  Occurred,     \* their occurred_at
  Laddered,     \* those on topics with "retries": true
  Readers,      \* the groups that consume each event's source topic
  NoCopy,       \* the pump has nothing in hand
  MaxFaults,    \* bound on crashes, evictions and failing calls
  MaxTime       \* bound on the clock

ASSUME PumpAssumption ==
  /\ Laddered \subseteq Events
  /\ Occurred \in [Events -> Nat]
  /\ {MaxFaults, MaxTime} \subseteq Nat

VARIABLES
  now,
  waiting,      \* copies on source topics, each for one group
  laddered,     \* copies on retry tiers; a copy's retry_count is its tier
  dead,         \* what is on DLQs, and why
  pump,         \* the copy the pump sleeps over and when it wakes, or NoCopy
  faults

(* All groups of the pipeline that read something with a ladder or a DLQ.  *)
Groups == UNION {Readers[e] : e \in Events}

clockVars  == <<now, pump>>
kafkaVars  == <<waiting, laddered, dead>>
ladderVars == <<clockVars, kafkaVars, faults>>

Counts == 0 .. Len(TierDelays)
Never  == MaxTime + 1

LadderTypeOK ==
  /\ now \in 0 .. MaxTime
  /\ \A d \in waiting :
       /\ d.event \in Events /\ d.group \in Readers[d.event] /\ d.count \in Counts
       /\ d.count > 0 => d.event \in Laddered
  /\ laddered \subseteq [event : Laddered, count : Tiers]
  /\ dead \subseteq [event : Events, why : {"exhausted", "refused", "unpumped"}]
  /\ pump # NoCopy => pump.copy \in laddered
  /\ faults \in 0 .. MaxFaults

(* present: the events the pipeline has published so far. *)
LadderInit(present) ==
  /\ now = 0
  /\ waiting = {d \in [group : Groups, event : present, count : {0}] :
                    d.group \in Readers[d.event]}
  /\ laddered = {} /\ dead = {} /\ pump = NoCopy
  /\ faults = 0

-----------------------------------------------------------------------------
Fault == faults < MaxFaults /\ faults' = faults + 1

Delivered(copy) ==
  {[group |-> g, event |-> copy.event, count |-> copy.count] : g \in Readers[copy.event]}

(* What _route_failure publishes for a copy that a stage failed. *)
Park(copy, leg, why) ==
  /\ laddered' = IF leg \in Tiers
                   THEN laddered \union {[event |-> copy.event, count |-> leg]}
                   ELSE laddered
  /\ dead' = IF leg = DlqLeg THEN dead \union {[event |-> copy.event, why |-> why]}
             ELSE dead

Leg(copy, exc) == Route(exc, copy.count, copy.event \in Laddered)

(* Mutant of ParkTransient: the first failure is the last. *)
GiveUp(copy) == Park(copy, DlqLeg, "exhausted")

ParkTransient(copy) == Park(copy, Leg(copy, "TransientError"), "exhausted")
ParkTerminal(copy)  == Park(copy, Leg(copy, "TerminalError"), "refused")

-----------------------------------------------------------------------------
Due(copy) == Occurred[copy.event] + TierDelays[copy.count]

(* Mutant of Wake: the delay counts from when the copy is taken. *)
WakeLater(copy) == now + TierDelays[copy.count]

(* Mutant of Wake: the pump does not sleep. *)
WakeAtOnce(copy) == now

Wake(copy) == IF Due(copy) > now THEN Due(copy) ELSE now

PumpTakes ==
  /\ pump = NoCopy
  /\ \E c \in laddered : pump' = [copy |-> c, wake |-> Wake(c)]
  /\ UNCHANGED <<now, kafkaVars, faults>>

Awake == pump # NoCopy /\ pump.wake <= now

PumpForwards ==
  /\ Awake
  /\ waiting' = waiting \union Delivered(pump.copy)
  /\ laddered' = laddered \ {pump.copy}
  /\ pump' = NoCopy
  /\ UNCHANGED <<now, dead, faults>>

(* It dies over a copy, possibly between publishing and committing it.       *)
PumpDies ==
  /\ pump # NoCopy /\ Fault
  /\ \/ UNCHANGED waiting
     \/ Awake /\ waiting' = waiting \union Delivered(pump.copy)
  /\ pump' = NoCopy
  /\ UNCHANGED <<now, laddered, dead>>

(* publish_raw raises: the pump is a StageWorker too, and a copy it fails    *)
(* goes one tier up, or to the DLQ, without its stage having seen it.        *)
PumpFails ==
  /\ Awake /\ Fault
  /\ LET leg == Leg(pump.copy, "Other")
         rest == laddered \ {pump.copy} IN
     /\ laddered' = IF leg \in Tiers
                      THEN rest \union {[event |-> pump.copy.event, count |-> leg]}
                      ELSE rest
     /\ dead' = IF leg = DlqLeg
                  THEN dead \union {[event |-> pump.copy.event, why |-> "unpumped"]}
                  ELSE dead
  /\ pump' = NoCopy
  /\ UNCHANGED <<now, waiting>>

Pump == PumpTakes \/ PumpForwards \/ PumpDies \/ PumpFails

(* The pump takes a copy as soon as it is free and does not oversleep.       *)
PumpIsPrompt == IF pump = NoCopy THEN laddered = {} ELSE now < pump.wake

LadderTick ==
  /\ now < MaxTime /\ PumpIsPrompt
  /\ now' = now + 1
  /\ UNCHANGED <<kafkaVars, pump, faults>>

PumpFairness == WF_ladderVars(PumpTakes \/ PumpForwards)

-----------------------------------------------------------------------------
(* One thread sleeps for every tier, yet its sleeps do not add up, because   *)
(* each ends at an absolute time (main.py:76-80): no time passes while all   *)
(* that is on the ladder is due, so a copy that is held up by another's      *)
(* sleep is forwarded with it, however many there are.                       *)
LadderEmptiesInTime ==
  [][now' > now => laddered = {} \/ \E c \in laddered : now < Due(c)]_now
=============================================================================
