----------------------------- MODULE RetriesProofs -----------------------------
(***************************************************************************)
(* Proofs about Retries: for any ladder, any number of workers, crashes,   *)
(* evictions and failing calls, what transcode and thumbnail announce is   *)
(* there, two claims do not overlap, the pump's sleeps do not add up, a    *)
(* receiver's outage that ends before the last tier loses nothing, one     *)
(* fault does not use up a rendition's retries, and no number of faults    *)
(* loses a message.                                                        *)
(***************************************************************************)
EXTENDS Retries, FiniteSetTheorems, TLAPS

-----------------------------------------------------------------------------
(* The inductive invariant. *)

(* The pump sleeps over a copy that is still on its tier, until the copy is  *)
(* due or, when it was due already, not at all.                              *)
PumpFollows ==
  pump # NoCopy =>
    /\ pump.copy \in laddered
    /\ pump.wake \in Nat /\ Due(pump.copy) <= pump.wake
    /\ pump.wake <= now \/ pump.wake = Due(pump.copy)

(* An outcome that comes back from a tier has waited the tier's delay. *)
DelaysPass ==
  \A d \in waiting : d.event \in Outcomes /\ d.count > 0 =>
    Occurred[d.event] + TierDelays[d.count] <= now

LadderInv == LadderTypeOK /\ PumpFollows /\ DelaysPass

(* The steps at which a transcode worker has seen or made each output. *)
HasMp4      == {"lookPlaylist", "delete", "announce", "flush"} \union Cutting
HasSegments == {"uploadPlaylist", "copyPlaylist", "deletePlaylist", "announce", "flush"}
HasPlaylist == {"deletePlaylist", "announce", "flush"}

OutputsThere ==
  /\ \A w \in Workers : /\ pc[w] \in HasMp4 => mp4
                        /\ pc[w] \in HasSegments => segments
                        /\ pc[w] \in HasPlaylist => playlist
  /\ playlistScratch \/ playlist => segments
  /\ announced => mp4 /\ playlist

(* Whoever encodes does it under the latest claim, which is not stale as     *)
(* long as its attempt is in time.                                           *)
ClaimHeld ==
  MaxWork <= StaleAfter =>
    \A w \in Workers : pc[w] \in Encoding =>
      /\ since[w] = claimedAt /\ claimedAt # Never
      /\ now <= claimedAt + MaxWork
      /\ \A v \in Workers : pc[v] \in Encoding => v = w

TranscodeInv == TranscodeTypeOK /\ OutputsThere /\ ClaimHeld

(* The pieces a member has seen or promoted on its way. *)
PiecesDone ==
  /\ \A w \in Thumbnailers :
       /\ \A q \in Pieces : q < piece[w] => q \in final
       /\ step[w] = "delete" => piece[w] \in final
       /\ step[w] \in {"announce", "flush"} => final = Pieces
  /\ shown => final = Pieces

ThumbnailInv == ThumbnailTypeOK /\ PiecesDone

(* An outcome's last retry fails after the last tier's delay only, while the *)
(* receiver is failing.                                                      *)
OutageFollows ==
  /\ posting # NoCopy => posting.event \in Outcomes
  /\ receiver = "failing" <=> wellSince = Never
  /\ \A e \in Outcomes : [event |-> e, why |-> "exhausted"] \in dead =>
       /\ Occurred[e] + TierDelays[Len(TierDelays)] <= now
       /\ receiver = "well" => Occurred[e] + TierDelays[Len(TierDelays)] <= wellSince

NotifyInv == NotifyTypeOK /\ OutageFollows

IInv == LadderInv /\ TranscodeInv /\ ThumbnailInv /\ NotifyInv

-----------------------------------------------------------------------------
(* The ladder. *)

OnLadder == [event : Laddered, count : Tiers]
Buried   == [event : Events, why : {"exhausted", "refused", "unpumped"}]

(* What may be on a source topic. *)
WellFormed(d) ==
  /\ d.event \in Events /\ d.group \in Readers[d.event] /\ d.count \in Counts
  /\ d.count > 0 => d.event \in Laddered

(* The ladder has tiers, with delays. *)
LEMMA LadderFacts ==
  /\ Len(TierDelays) \in Nat \ {0} /\ Tiers = 1 .. Len(TierDelays)
  /\ \A i \in Tiers : TierDelays[i] \in Nat
  /\ Counts = 0 .. Len(TierDelays) /\ DlqLeg = Len(TierDelays) + 1
  /\ Nowhere = Len(TierDelays) + 2
  BY LadderAssumption DEF Tiers, Counts, DlqLeg, Nowhere

(* A copy is due at some time. *)
LEMMA DueFacts ==
  ASSUME NEW c \in OnLadder
  PROVE  Due(c) \in Nat /\ c.event \in Events /\ c.count \in Tiers
  <1>1. c.event \in Events /\ c.count \in Tiers
    BY PumpAssumption DEF OnLadder
  <1>2. Occurred[c.event] \in Nat /\ TierDelays[c.count] \in Nat
    BY <1>1, PumpAssumption, LadderFacts
  <1> QED
    BY <1>1, <1>2 DEF Due

(* Where a copy that is failed goes: one tier up while there is one, and to  *)
(* the DLQ from the last tier or for good.                                   *)
LEMMA LegFacts ==
  ASSUME NEW d, d.count \in Counts,
         NEW exc \in {"TransientError", "TerminalError", "Other"}
  PROVE  /\ Leg(d, exc) \in Tiers => d.event \in Laddered
         /\ exc # "TerminalError" /\ Leg(d, exc) = DlqLeg => d.count = Len(TierDelays)
         /\ Leg(d, exc) \in Tiers => Leg(d, exc) # DlqLeg
  BY LadderFacts DEF Leg, Route, Classify

(* What Park leaves behind. *)
LEMMA ParkFacts ==
  ASSUME LadderTypeOK, NEW d, d.count \in Counts, d.event \in Events,
         NEW exc \in {"TransientError", "TerminalError", "Other"},
         NEW why \in {"exhausted", "refused", "unpumped"},
         Park(d, Leg(d, exc), why)
  PROVE  /\ laddered \subseteq laddered' /\ laddered' \subseteq OnLadder
         /\ dead' \subseteq Buried
         /\ dead' \subseteq dead \union {[event |-> d.event, why |-> why]}
         /\ dead' # dead => Leg(d, exc) = DlqLeg
  <1>1. laddered \subseteq OnLadder /\ dead \subseteq Buried
    BY DEF LadderTypeOK, OnLadder, Buried
  <1>2. Leg(d, exc) \in Tiers => [event |-> d.event, count |-> Leg(d, exc)] \in OnLadder
    BY LegFacts DEF OnLadder
  <1>3. [event |-> d.event, why |-> why] \in Buried
    BY DEF Buried
  <1> QED
    BY <1>1, <1>2, <1>3 DEF Park

(* What transcode, thumbnail and the packager may do to topics and ladder:   *)
(* nothing to the outcomes that notify has to tell, nothing to the pump.     *)
Aside ==
  /\ now' = now /\ pump' = pump
  /\ laddered \subseteq laddered' /\ laddered' \subseteq OnLadder
  /\ dead' \subseteq Buried
  /\ faults' \in 0 .. MaxFaults
  /\ \A d \in waiting' : d \in waiting \/ (WellFormed(d) /\ d.event \notin Outcomes)
  /\ \A d \in waiting : d \in waiting' \/ d.event \notin Outcomes
  /\ \A e \in Outcomes : [event |-> e, why |-> "exhausted"] \in dead' =>
       [event |-> e, why |-> "exhausted"] \in dead

(* That keeps what ladder and notify rely on. *)
LEMMA AsideKeeps ==
  ASSUME LadderInv, NotifyInv, Aside, UNCHANGED notifyVars
  PROVE  LadderInv' /\ NotifyInv'
  <1>1. LadderTypeOK'
    BY DEF LadderInv, LadderTypeOK, Aside, WellFormed, OnLadder, Buried
  <1>2. PumpFollows'
    BY DEF LadderInv, PumpFollows, Aside, Due
  <1>3. DelaysPass'
    BY DEF LadderInv, DelaysPass, Aside
  <1>4. NotifyTypeOK'
    BY DEF NotifyInv, NotifyTypeOK, OutageFollows, Aside, notifyVars
  <1>5. OutageFollows'
    BY DEF NotifyInv, OutageFollows, Aside, notifyVars
  <1> QED
    BY <1>1, <1>2, <1>3, <1>4, <1>5 DEF LadderInv, NotifyInv

(* A fault is counted. *)
LEMMA FaultFacts ==
  ASSUME LadderTypeOK, Fault
  PROVE  faults' \in 0 .. MaxFaults
  BY PumpAssumption DEF LadderTypeOK, Fault

(* A message of theirs that is failed leaves notify's ladder alone ... *)
LEMMA ParkAside ==
  ASSUME LadderTypeOK, NEW d, d.count \in Counts, d.event \in Events \ Outcomes,
         NEW exc \in {"TransientError", "TerminalError", "Other"},
         NEW why \in {"exhausted", "refused", "unpumped"},
         Park(d, Leg(d, exc), why), now' = now, pump' = pump,
         faults' \in 0 .. MaxFaults,
         waiting' \subseteq waiting, \A c \in waiting \ waiting' : c.event \notin Outcomes
  PROVE  Aside
  <1>1. /\ laddered \subseteq laddered' /\ laddered' \subseteq OnLadder
        /\ dead' \subseteq Buried
        /\ dead' \subseteq dead \union {[event |-> d.event, why |-> why]}
    BY ParkFacts
  <1>2. \A e \in Outcomes : [event |-> e, why |-> "exhausted"] # [event |-> d.event, why |-> why]
    OBVIOUS
  <1>3. \A e \in Outcomes : [event |-> e, why |-> "exhausted"] \in dead' =>
          [event |-> e, why |-> "exhausted"] \in dead
    BY <1>1, <1>2
  <1> QED
    BY <1>1, <1>3 DEF Aside

(* ... and one that is taken, given back or done with. *)
LEMMA WaitingAside ==
  ASSUME LadderTypeOK, UNCHANGED <<now, pump, laddered, dead>>,
         faults' \in 0 .. MaxFaults,
         NEW d, WellFormed(d), d.event \notin Outcomes,
         waiting' \in {waiting, waiting \ {d}, waiting \union {d}}
  PROVE  Aside
  <1>1. laddered \subseteq OnLadder /\ dead \subseteq Buried
    BY DEF LadderTypeOK, OnLadder, Buried
  <1>2. /\ \A c \in waiting' : c \in waiting \/ c = d
        /\ \A c \in waiting : c \in waiting' \/ c = d
    OBVIOUS
  <1> QED
    BY <1>1, <1>2 DEF Aside

-----------------------------------------------------------------------------
(* transcode. *)

(* Its messages are about the rendition.requested. *)
LEMMA MessageFacts ==
  ASSUME NEW n \in Counts
  PROVE  /\ WellFormed(Message(n)) /\ Message(n).count = n
         /\ Message(n).event \in Events \ Outcomes
  BY PumpAssumption, TranscodeAssumption, RetriesAssumption DEF WellFormed, Message

(* A failed attempt parks its message and leaves the worker idle. *)
LEMMA FailTransientAside ==
  ASSUME LadderInv, TranscodeTypeOK, NEW w \in Workers, FailTransient(w),
         now' = now, pump' = pump, faults' \in 0 .. MaxFaults
  PROVE  Aside
  <1>1. count[w] \in Counts
    BY DEF TranscodeTypeOK
  <1> QED
    BY <1>1, MessageFacts, ParkAside DEF FailTransient, ParkTransient, LadderInv

(* What a step of transcode does to topics and ladder. *)
LEMMA TranscodeAside ==
  ASSUME LadderInv, TranscodeTypeOK, TranscodeNext
  PROVE  Aside
  <1> USE DEF clockVars, kafkaVars, ladderVars
  <1>0. LadderTypeOK /\ faults \in 0 .. MaxFaults
    BY DEF LadderInv, LadderTypeOK
  <1>1. PICK w \in Workers :
          \/ \E n \in Counts : Take(w, n)
          \/ Handle(w)
          \/ CallFails(w) \/ EncodeRefused(w) \/ Crash(w) \/ Evict(w)
    BY DEF TranscodeNext
  <1>2. count[w] \in Counts
    BY DEF TranscodeTypeOK
  <1>3. CASE UNCHANGED ladderVars
    BY <1>0, <1>2, <1>3, MessageFacts, WaitingAside
  <1>4. ASSUME NEW n \in Counts, Take(w, n)
        PROVE  Aside
    BY <1>0, <1>4, MessageFacts, WaitingAside DEF Take
  <1>5. CASE Handle(w)
    <2>1. CASE FailTransient(w) /\ now' = now /\ pump' = pump /\ faults' = faults
      BY <1>0, <2>1, FailTransientAside
    <2>2. UNCHANGED ladderVars \/ (FailTransient(w) /\ now' = now /\ pump' = pump
                                     /\ faults' = faults)
      BY <1>5 DEF Handle, LookMp4, LookPlaylist, Claim, Encode, Upload, Copy, Delete, Segments,
         UploadPlaylist, CopyPlaylist, DeletePlaylist, Announce, Finish, FailTransient
    <2> QED
      BY <1>3, <2>1, <2>2
  <1>6. CASE CallFails(w)
    BY <1>0, <1>6, FailTransientAside, FaultFacts DEF CallFails
  <1>7. CASE EncodeRefused(w)
    BY <1>0, <1>2, <1>7, MessageFacts, ParkAside, FaultFacts DEF EncodeRefused, ParkTerminal
  <1>8. CASE Crash(w) \/ Evict(w)
    BY <1>0, <1>2, <1>8, MessageFacts, WaitingAside, FaultFacts DEF Crash, Evict
  <1> QED
    BY <1>1, <1>4, <1>5, <1>6, <1>7, <1>8

(* The types of a worker that is done with its message, ... *)
LEMMA IdleFacts ==
  ASSUME TranscodeTypeOK, NEW w \in Workers, Idle(w), now' = now
  PROVE  /\ pc'[w] = "idle"
         /\ \A v \in Workers : v # w => pc'[v] = pc[v] /\ since'[v] = since[v]
         /\ claimedAt' = claimedAt /\ UNCHANGED storeVars /\ announced' = announced
              => TranscodeTypeOK'
  BY LadderFacts DEF TranscodeTypeOK, Idle, storeVars

Steps == {"idle", "lookMp4", "lookPlaylist", "claim", "announce", "flush"}
           \union Encoding \union Cutting

(* ... and of one that goes on. *)
LEMMA GotoFacts ==
  ASSUME TranscodeTypeOK, NEW w \in Workers, NEW s \in Steps, Goto(w, s), now' = now
  PROVE  /\ pc'[w] = s
         /\ \A v \in Workers : v # w => pc'[v] = pc[v]
         /\ since' = since
         /\ claimedAt' = claimedAt
            /\ {mp4', mp4Scratch', segments', playlist', playlistScratch', announced'}
                 \subseteq BOOLEAN
              => TranscodeTypeOK'
  BY DEF TranscodeTypeOK, Goto, Steps

(* One worker moves, on the outputs its step stands for; nothing is unmade.  *)
LEMMA OutputsKeep ==
  ASSUME OutputsThere, NEW w \in Workers,
         \A v \in Workers : v # w => pc'[v] = pc[v],
         mp4 => mp4', segments => segments', playlist => playlist',
         pc'[w] \in HasMp4 => mp4',
         pc'[w] \in HasSegments => segments',
         pc'[w] \in HasPlaylist => playlist',
         playlistScratch' \/ playlist' => segments',
         announced' => announced \/ (mp4' /\ playlist')
  PROVE  OutputsThere'
  BY DEF OutputsThere

(* Without a new claim, one worker moves and does not begin to encode. *)
LEMMA ClaimKeeps ==
  ASSUME ClaimHeld, now' = now, claimedAt' = claimedAt, NEW w \in Workers,
         \A v \in Workers : v # w => pc'[v] = pc[v] /\ since'[v] = since[v],
         pc'[w] \in Encoding => pc[w] \in Encoding /\ since'[w] = since[w]
  PROVE  ClaimHeld'
  BY DEF ClaimHeld

(* An attempt that ends leaves the outputs as they are. *)
LEMMA IdleKeeps ==
  ASSUME TranscodeInv, NEW w \in Workers, Idle(w), now' = now,
         claimedAt' = claimedAt, UNCHANGED storeVars, announced' = announced
  PROVE  TranscodeInv'
  <1>1. /\ pc'[w] = "idle"
        /\ \A v \in Workers : v # w => pc'[v] = pc[v] /\ since'[v] = since[v]
        /\ TranscodeTypeOK'
    BY IdleFacts DEF TranscodeInv
  <1>2. OutputsThere'
    BY <1>1, OutputsKeep
       DEF TranscodeInv, OutputsThere, storeVars, HasMp4, HasSegments, HasPlaylist, Cutting
  <1>3. ClaimHeld'
    BY <1>1, ClaimKeeps DEF TranscodeInv, Encoding
  <1> QED
    BY <1>1, <1>2, <1>3 DEF TranscodeInv

(* An attempt that goes on, to a step whose outputs are there. *)
LEMMA GotoKeeps ==
  ASSUME TranscodeInv, NEW w \in Workers, NEW s \in Steps, Goto(w, s), now' = now,
         claimedAt' = claimedAt,
         {mp4', mp4Scratch', segments', playlist', playlistScratch', announced'} \subseteq BOOLEAN,
         mp4 => mp4', segments => segments', playlist => playlist',
         s \in HasMp4 => mp4',
         s \in HasSegments => segments',
         s \in HasPlaylist => playlist',
         playlistScratch' \/ playlist' => segments',
         announced' => announced \/ (mp4' /\ playlist'),
         s \in Encoding => pc[w] \in Encoding
  PROVE  TranscodeInv'
  <1>1. /\ pc'[w] = s
        /\ \A v \in Workers : v # w => pc'[v] = pc[v]
        /\ since' = since
        /\ TranscodeTypeOK'
    BY GotoFacts DEF TranscodeInv
  <1>2. OutputsThere'
    BY <1>1, OutputsKeep DEF TranscodeInv
  <1>3. ClaimHeld'
    BY <1>1, ClaimKeeps DEF TranscodeInv
  <1> QED
    BY <1>1, <1>2, <1>3 DEF TranscodeInv

(* A claim is taken when the one before is stale: nobody encodes under it.   *)
LEMMA ClaimTaken ==
  ASSUME LadderTypeOK, TranscodeInv, NEW w \in Workers, pc[w] = "claim", Stale(claimedAt),
         claimedAt' = now, now' = now, since' = [since EXCEPT ![w] = now],
         pc' = [pc EXCEPT ![w] = "encode"],
         UNCHANGED <<count, evicted, storeVars, announced>>
  PROVE  TranscodeInv'
  <1>1. now \in Nat /\ now # Never /\ MaxWork \in Nat /\ StaleAfter \in Nat
    BY PumpAssumption, TranscodeAssumption DEF LadderTypeOK, Never
  <1>2. /\ pc \in [Workers -> Steps] /\ since \in [Workers -> 0 .. now \union {Never}]
        /\ claimedAt \in 0 .. now \union {Never}
    BY DEF TranscodeInv, TranscodeTypeOK, Steps
  <1>3. TranscodeTypeOK'
    BY <1>1, <1>2 DEF TranscodeInv, TranscodeTypeOK, storeVars, Encoding
  <1>4. OutputsThere'
    BY <1>2, OutputsKeep
       DEF TranscodeInv, OutputsThere, storeVars, HasMp4, HasSegments, HasPlaylist, Cutting
  <1>5. ASSUME MaxWork <= StaleAfter
        PROVE  \A v \in Workers : pc[v] \notin Encoding
    <2> SUFFICES ASSUME NEW v \in Workers, pc[v] \in Encoding
                 PROVE  FALSE
      OBVIOUS
    <2>1. claimedAt # Never /\ now <= claimedAt + MaxWork
      BY <1>5 DEF TranscodeInv, ClaimHeld
    <2>2. claimedAt + StaleAfter < now
      BY <2>1 DEF Stale
    <2>3. claimedAt \in Nat
      BY <1>1, <1>2, <2>1
    <2> QED
      BY <1>1, <1>5, <2>1, <2>2, <2>3
  <1>6. ClaimHeld'
    BY <1>1, <1>2, <1>5 DEF ClaimHeld
  <1> QED
    BY <1>3, <1>4, <1>6 DEF TranscodeInv

(* Every step of transcode. *)
LEMMA TranscodeKeeps ==
  ASSUME LadderInv, TranscodeInv, TranscodeNext
  PROVE  TranscodeInv'
  <1> USE DEF clockVars, kafkaVars, ladderVars, storeVars
  <1>1. TranscodeTypeOK /\ LadderTypeOK
    BY DEF TranscodeInv, LadderInv
  <1>2. PICK w \in Workers :
          \/ \E n \in Counts : Take(w, n)
          \/ Handle(w)
          \/ CallFails(w) \/ EncodeRefused(w) \/ Crash(w) \/ Evict(w)
    BY DEF TranscodeNext
  <1>3. /\ pc[w] \in HasMp4 => mp4
        /\ pc[w] \in HasSegments => segments
        /\ pc[w] \in HasPlaylist => playlist
        /\ playlistScratch \/ playlist => segments
        /\ announced => mp4 /\ playlist
        /\ {mp4, mp4Scratch, segments, playlist, playlistScratch, announced} \subseteq BOOLEAN
    BY <1>1 DEF TranscodeInv, OutputsThere, TranscodeTypeOK
  <1>4. CASE FailTransient(w) /\ UNCHANGED <<now, claimedAt, storeVars, announced>>
    BY <1>4, IdleKeeps DEF FailTransient
  <1>5. ASSUME NEW n \in Counts, Take(w, n)
        PROVE  TranscodeInv'
    <2>1. TranscodeTypeOK'
      BY <1>1, <1>5 DEF Take, TranscodeTypeOK
    <2>2. pc'[w] = "lookMp4" /\ \A v \in Workers : v # w => pc'[v] = pc[v]
      BY <1>1, <1>5 DEF Take, TranscodeTypeOK
    <2>3. OutputsThere'
      BY <1>3, <1>5, <2>2, OutputsKeep
         DEF Take, TranscodeInv, HasMp4, HasSegments, HasPlaylist, Cutting
    <2>4. ClaimHeld'
      BY <1>5, <2>2, ClaimKeeps DEF Take, TranscodeInv, Encoding
    <2> QED
      BY <2>1, <2>3, <2>4 DEF TranscodeInv
  <1>6. CASE Handle(w)
    <2> USE <1>3 DEF HasMp4, HasSegments, HasPlaylist, Cutting, Encoding, Steps
    <2>1. CASE LookMp4(w)
      BY <2>1, GotoKeeps DEF LookMp4
    <2>2. CASE LookPlaylist(w)
      BY <2>2, GotoKeeps DEF LookPlaylist
    <2>3. CASE Claim(w)
      <3>1. CASE Stale(claimedAt)
        BY <1>1, <2>3, <3>1, ClaimTaken DEF Claim
      <3>2. CASE ~Stale(claimedAt)
        BY <1>4, <2>3, <3>2 DEF Claim
      <3> QED
        BY <3>1, <3>2
    <2>4. CASE Encode(w)
      BY <2>4, GotoKeeps DEF Encode
    <2>5. CASE Upload(w)
      BY <2>5, GotoKeeps DEF Upload
    <2>6. CASE Copy(w)
      <3>1. CASE mp4Scratch
        BY <2>6, <3>1, GotoKeeps DEF Copy
      <3>2. CASE ~mp4Scratch
        BY <1>4, <2>6, <3>2 DEF Copy
      <3> QED
        BY <3>1, <3>2
    <2>7. CASE Delete(w)
      BY <2>7, GotoKeeps DEF Delete
    <2>8. CASE Segments(w)
      BY <2>8, GotoKeeps DEF Segments
    <2>9. CASE UploadPlaylist(w)
      BY <2>9, GotoKeeps DEF UploadPlaylist
    <2>10. CASE CopyPlaylist(w)
      <3>1. CASE playlistScratch
        BY <2>10, <3>1, GotoKeeps DEF CopyPlaylist
      <3>2. CASE ~playlistScratch
        BY <1>4, <2>10, <3>2 DEF CopyPlaylist
      <3> QED
        BY <3>1, <3>2
    <2>11. CASE DeletePlaylist(w)
      BY <2>11, GotoKeeps DEF DeletePlaylist
    <2>12. CASE Announce(w)
      BY <2>12, GotoKeeps DEF Announce
    <2>13. CASE Finish(w)
      BY <2>13, IdleKeeps DEF Finish
    <2> QED
      BY <1>6, <2>1, <2>2, <2>3, <2>4, <2>5, <2>6, <2>7, <2>8, <2>9, <2>10, <2>11, <2>12, <2>13
         DEF Handle
  <1>7. CASE CallFails(w)
    BY <1>4, <1>7 DEF CallFails
  <1>8. CASE EncodeRefused(w) \/ Crash(w)
    BY <1>8, IdleKeeps DEF EncodeRefused, Crash
  <1>9. CASE Evict(w)
    <2>1. TranscodeTypeOK'
      BY <1>1, <1>9 DEF Evict, TranscodeTypeOK
    <2> QED
      BY <1>9, <2>1 DEF Evict, TranscodeInv, OutputsThere, ClaimHeld
  <1> QED
    BY <1>2, <1>5, <1>6, <1>7, <1>8, <1>9

(* An attempt is in time whenever time passes: under a claim it is over      *)
(* before the claim is stale.                                                *)
LEMMA TickKeepsClaims ==
  ASSUME LadderTypeOK, TranscodeInv, LadderTick, TranscodeIsInTime,
         UNCHANGED transcodeVars
  PROVE  TranscodeInv'
  <1> USE DEF transcodeVars, workerVars, storeVars
  <1>1. now \in Nat /\ now' = now + 1 /\ MaxWork \in Nat /\ now # Never
    BY PumpAssumption, TranscodeAssumption DEF LadderTypeOK, LadderTick, Never
  <1>2. TranscodeTypeOK'
    BY <1>1 DEF TranscodeInv, TranscodeTypeOK
  <1>3. OutputsThere'
    BY DEF TranscodeInv, OutputsThere
  <1>4. ClaimHeld'
    <2> SUFFICES ASSUME MaxWork <= StaleAfter, NEW w \in Workers, pc[w] \in Encoding
                 PROVE  now' <= claimedAt + MaxWork
      BY DEF ClaimHeld, TranscodeInv
    <2>1. since[w] = claimedAt /\ claimedAt # Never
      BY DEF TranscodeInv, ClaimHeld
    <2>2. now < claimedAt + MaxWork
      BY <2>1 DEF TranscodeIsInTime
    <2>3. claimedAt \in Nat
      BY <1>1, <2>1 DEF TranscodeInv, TranscodeTypeOK
    <2> QED
      BY <1>1, <2>2, <2>3
  <1> QED
    BY <1>2, <1>3, <1>4 DEF TranscodeInv

-----------------------------------------------------------------------------
(* thumbnail, and the packager group beside it. *)

(* Its messages are about the video.probed. *)
LEMMA ToMessageFacts ==
  ASSUME NEW n \in Counts
  PROVE  /\ WellFormed(ToMessage(n)) /\ ToMessage(n).count = n
         /\ ToMessage(n).event \in Events \ Outcomes
  BY PumpAssumption, ThumbnailAssumption, RetriesAssumption DEF WellFormed, ToMessage

(* A failed attempt parks its message and leaves the member idle. *)
LEMMA FailProbedAside ==
  ASSUME LadderInv, ThumbnailTypeOK, NEW w \in Thumbnailers, FailProbed(w),
         now' = now, pump' = pump, faults' \in 0 .. MaxFaults
  PROVE  Aside
  <1>1. held[w] \in Counts
    BY DEF ThumbnailTypeOK
  <1> QED
    BY <1>1, ToMessageFacts, ParkAside DEF FailProbed, ParkTransient, LadderInv

(* The packager group takes its message, and may fail it onto the ladder. *)
LEMMA PackagerAside ==
  ASSUME LadderInv, PackagerTakes
  PROVE  Aside
  <1> USE DEF clockVars
  <1>1. LadderTypeOK /\ faults \in 0 .. MaxFaults
    BY DEF LadderInv, LadderTypeOK
  <1>2. PICK d \in waiting :
          /\ d.event = Probed /\ d.group = "packager"
          /\ waiting' = waiting \ {d}
          /\ \/ UNCHANGED <<laddered, dead, faults>>
             \/ ParkTransient(d) /\ Fault
    BY DEF PackagerTakes
  <1>3. WellFormed(d) /\ d.event \in Events \ Outcomes /\ d.count \in Counts
    BY <1>1, <1>2, RetriesAssumption DEF LadderTypeOK, WellFormed
  <1>4. now' = now /\ pump' = pump
    BY DEF PackagerTakes
  <1>5. CASE UNCHANGED <<laddered, dead, faults>>
    BY <1>1, <1>2, <1>3, <1>4, <1>5, WaitingAside
  <1>6. CASE ParkTransient(d) /\ Fault
    BY <1>1, <1>2, <1>3, <1>4, <1>6, ParkAside, FaultFacts DEF ParkTransient
  <1> QED
    BY <1>2, <1>5, <1>6

(* What a step of thumbnail does to topics and ladder. *)
LEMMA ThumbnailAside ==
  ASSUME LadderInv, ThumbnailTypeOK, ThumbnailNext
  PROVE  Aside
  <1> USE DEF clockVars, kafkaVars, ladderVars
  <1>0. LadderTypeOK /\ faults \in 0 .. MaxFaults
    BY DEF LadderInv, LadderTypeOK
  <1>1. ASSUME NEW w \in Thumbnailers,
               \/ \E n \in Counts : TakeProbed(w, n)
               \/ HandleProbed(w)
               \/ ThumbnailFails(w) \/ ThumbnailRefused(w)
               \/ ThumbnailerCrashes(w) \/ ThumbnailerEvicted(w)
        PROVE  Aside
    <2>1. held[w] \in Counts
      BY DEF ThumbnailTypeOK
    <2>2. CASE UNCHANGED ladderVars
      BY <1>0, <2>1, <2>2, ToMessageFacts, WaitingAside
    <2>3. ASSUME NEW n \in Counts, TakeProbed(w, n)
          PROVE  Aside
      BY <1>0, <2>3, ToMessageFacts, WaitingAside DEF TakeProbed
    <2>4. CASE HandleProbed(w)
      <3>1. UNCHANGED ladderVars \/ (FailProbed(w) /\ now' = now /\ pump' = pump
                                       /\ faults' = faults)
        BY <2>4 DEF HandleProbed, Look, Make, CopyPiece, DeletePiece, AnnounceThumbnails,
           FinishProbed, FailProbed
      <3> QED
        BY <1>0, <2>2, <3>1, FailProbedAside
    <2>5. CASE ThumbnailFails(w)
      BY <1>0, <2>5, FailProbedAside, FaultFacts DEF ThumbnailFails
    <2>6. CASE ThumbnailRefused(w)
      BY <1>0, <2>1, <2>6, ToMessageFacts, ParkAside, FaultFacts
         DEF ThumbnailRefused, ParkTerminal
    <2>7. CASE ThumbnailerCrashes(w) \/ ThumbnailerEvicted(w)
      BY <1>0, <2>1, <2>7, ToMessageFacts, WaitingAside, FaultFacts
         DEF ThumbnailerCrashes, ThumbnailerEvicted
    <2> QED
      BY <1>1, <2>3, <2>4, <2>5, <2>6, <2>7
  <1> QED
    BY <1>1, PackagerAside DEF ThumbnailNext

(* A member that goes from piece to piece, with what its step stands for. *)
LEMMA GoToKeeps ==
  ASSUME ThumbnailInv, NEW w \in Thumbnailers,
         NEW s \in {"look", "make", "copy", "delete", "announce", "flush"},
         NEW p \in Pieces, GoTo(w, s, p),
         final \subseteq final', final' \subseteq Pieces, scratch' \subseteq Pieces,
         shown' \in BOOLEAN, shown' => shown \/ final = Pieces,
         \A q \in Pieces : q < p => q \in final',
         s = "delete" => p \in final',
         s \in {"announce", "flush"} => final' = Pieces
  PROVE  ThumbnailInv'
  <1>1. /\ step' = [step EXCEPT ![w] = s] /\ piece' = [piece EXCEPT ![w] = p]
        /\ held' = held /\ moved' = moved
    BY DEF GoTo
  <1>2. ThumbnailTypeOK'
    BY <1>1 DEF ThumbnailInv, ThumbnailTypeOK
  <1>3. PiecesDone'
    BY <1>1 DEF ThumbnailInv, ThumbnailTypeOK, PiecesDone
  <1> QED
    BY <1>2, <1>3 DEF ThumbnailInv

(* An attempt that ends leaves the pieces as they are. *)
LEMMA OverKeeps ==
  ASSUME ThumbnailInv, NEW w \in Thumbnailers, Over(w), UNCHANGED <<final, scratch, shown>>
  PROVE  ThumbnailInv'
  <1>1. ThumbnailTypeOK'
    BY LadderFacts DEF ThumbnailInv, ThumbnailTypeOK, Over, Pieces
  <1>2. \A v \in Thumbnailers : piece'[v] = IF v = w THEN Poster ELSE piece[v]
    BY DEF ThumbnailInv, ThumbnailTypeOK, Over
  <1>3. \A v \in Thumbnailers : step'[v] = IF v = w THEN "idle" ELSE step[v]
    BY DEF ThumbnailInv, ThumbnailTypeOK, Over
  <1>4. \A q \in Pieces : ~(q < Poster)
    BY DEF Pieces, Poster, Sprite, Vtt
  <1>5. PiecesDone'
    BY <1>2, <1>3, <1>4 DEF ThumbnailInv, PiecesDone
  <1> QED
    BY <1>1, <1>5 DEF ThumbnailInv

(* Every step of thumbnail. *)
LEMMA ThumbnailKeeps ==
  ASSUME ThumbnailInv, ThumbnailNext
  PROVE  ThumbnailInv'
  <1>1. ASSUME NEW w \in Thumbnailers, NEW n \in Counts, TakeProbed(w, n)
        PROVE  ThumbnailInv'
    <2>1. ThumbnailTypeOK'
      BY <1>1 DEF TakeProbed, ThumbnailInv, ThumbnailTypeOK
    <2>2. piece[w] \in Pieces
      BY DEF ThumbnailInv, ThumbnailTypeOK
    <2> QED
      BY <1>1, <2>1, <2>2 DEF TakeProbed, AtWork, ThumbnailInv, ThumbnailTypeOK, PiecesDone
  <1>2. ASSUME NEW w \in Thumbnailers, HandleProbed(w)
        PROVE  ThumbnailInv'
    <2>1. /\ piece[w] \in Pieces /\ final \subseteq Pieces /\ scratch \subseteq Pieces
          /\ shown \in BOOLEAN
          /\ \A q \in Pieces : q < piece[w] => q \in final
          /\ step[w] = "delete" => piece[w] \in final
          /\ step[w] \in {"announce", "flush"} => final = Pieces
          /\ shown => final = Pieces
      BY DEF ThumbnailInv, ThumbnailTypeOK, PiecesDone
    <2> USE <2>1 DEF Pieces, Poster, Sprite, Vtt
    <2>2. CASE Look(w)
      <3>1. step[w] = "look" /\ UNCHANGED <<ladderVars, final, scratch, shown>>
        BY <2>2 DEF Look
      <3>2. CASE piece[w] \notin final
        <4>1. GoTo(w, "make", Poster)
          BY <2>2, <3>2 DEF Look
        <4> QED
          BY <3>1, <4>1, GoToKeeps
      <3>3. CASE piece[w] \in final /\ piece[w] = Vtt
        <4>1. GoTo(w, "announce", Poster)
          BY <2>2, <3>3 DEF Look
        <4>2. \A q \in Pieces : q \in final
          BY <3>3
        <4>3. final = Pieces
          BY <2>1, <4>2
        <4> QED
          BY <3>1, <4>1, <4>3, GoToKeeps
      <3>4. CASE piece[w] \in final /\ piece[w] # Vtt
        <4>1. GoTo(w, "look", piece[w] + 1)
          BY <2>2, <3>4 DEF Look
        <4>2. /\ piece[w] + 1 \in Pieces
              /\ \A q \in Pieces : q < piece[w] + 1 => q \in final
          BY <3>4
        <4> QED
          BY <3>1, <4>1, <4>2, GoToKeeps
      <3> QED
        BY <3>2, <3>3, <3>4
    <2>3. CASE Make(w)
      BY <2>3, GoToKeeps DEF Make
    <2>4. CASE CopyPiece(w)
      <3>1. CASE piece[w] \in scratch
        BY <2>4, <3>1, GoToKeeps DEF CopyPiece
      <3>2. CASE piece[w] \notin scratch
        BY <2>4, <3>2, OverKeeps DEF CopyPiece, FailProbed
      <3> QED
        BY <3>1, <3>2
    <2>5. CASE DeletePiece(w)
      <3>1. /\ step[w] = "delete" /\ scratch' = scratch \ {piece[w]}
            /\ UNCHANGED <<ladderVars, final, shown>>
        BY <2>5 DEF DeletePiece
      <3>2. CASE piece[w] = Vtt
        <4>1. GoTo(w, "announce", Poster)
          BY <2>5, <3>2 DEF DeletePiece
        <4>2. \A q \in Pieces : q \in final
          BY <3>1, <3>2
        <4>3. final = Pieces
          BY <2>1, <4>2
        <4> QED
          BY <3>1, <4>1, <4>3, GoToKeeps
      <3>3. CASE piece[w] # Vtt
        <4>1. GoTo(w, "make", piece[w] + 1)
          BY <2>5, <3>3 DEF DeletePiece
        <4>2. /\ piece[w] + 1 \in Pieces
              /\ \A q \in Pieces : q < piece[w] + 1 => q \in final
          BY <3>1, <3>3
        <4> QED
          BY <3>1, <4>1, <4>2, GoToKeeps
      <3> QED
        BY <3>2, <3>3
    <2>6. CASE AnnounceThumbnails(w)
      BY <2>6, GoToKeeps DEF AnnounceThumbnails
    <2>7. CASE FinishProbed(w)
      BY <2>7, OverKeeps DEF FinishProbed
    <2> QED
      BY <1>2, <2>2, <2>3, <2>4, <2>5, <2>6, <2>7 DEF HandleProbed
  <1>3. ASSUME NEW w \in Thumbnailers,
               ThumbnailFails(w) \/ ThumbnailRefused(w) \/ ThumbnailerCrashes(w)
        PROVE  ThumbnailInv'
    BY <1>3, OverKeeps DEF ThumbnailFails, FailProbed, ThumbnailRefused, ThumbnailerCrashes
  <1>4. ASSUME NEW w \in Thumbnailers, ThumbnailerEvicted(w)
        PROVE  ThumbnailInv'
    BY <1>4 DEF ThumbnailerEvicted, ThumbnailInv, ThumbnailTypeOK, PiecesDone
  <1>5. CASE PackagerTakes
    BY <1>5 DEF PackagerTakes, thumbnailVars, memberVars, ThumbnailInv, ThumbnailTypeOK,
       PiecesDone
  <1> QED
    BY <1>1, <1>2, <1>3, <1>4, <1>5 DEF ThumbnailNext

-----------------------------------------------------------------------------
(* notify, and the receiver. *)

(* The message in hand is on its topic, and about an outcome. *)
LEMMA PostingFacts ==
  ASSUME LadderInv, NotifyInv, posting # NoCopy
  PROVE  /\ WellFormed(posting) /\ posting \in waiting
         /\ posting.event \in Outcomes /\ posting.count \in Counts
         /\ posting.event \in Events
  BY NotifyAssumption
     DEF LadderInv, LadderTypeOK, NotifyInv, NotifyTypeOK, OutageFollows, WellFormed

(* The ladder's part, in a step that takes messages off their topics and may *)
(* fail them.                                                                *)
LEMMA FewerWaitingKeeps ==
  ASSUME LadderInv, UNCHANGED clockVars, waiting' \subseteq waiting,
         laddered \subseteq laddered', laddered' \subseteq OnLadder,
         dead' \subseteq Buried, faults' \in 0 .. MaxFaults
  PROVE  LadderInv'
  <1>1. LadderTypeOK'
    BY DEF LadderInv, LadderTypeOK, clockVars, OnLadder, Buried
  <1>2. PumpFollows'
    BY DEF LadderInv, PumpFollows, clockVars, Due
  <1>3. DelaysPass'
    BY DEF LadderInv, DelaysPass, clockVars
  <1> QED
    BY <1>1, <1>2, <1>3 DEF LadderInv

(* A POST that fails ends a ladder that has run its course, if any. *)
LEMMA PostFailsKeeps ==
  ASSUME LadderInv, NotifyInv, PostFails
  PROVE  LadderInv' /\ NotifyInv'
  <1> USE DEF clockVars, kafkaVars
  <1>1. /\ posting # NoCopy /\ receiver = "failing"
        /\ told' \in {told, told \union {posting.event}}
        /\ FailPost /\ posting' = NoCopy
        /\ UNCHANGED <<now, pump, faults, receiver, wellSince>>
    BY DEF PostFails
  <1>2. /\ posting.event \in Outcomes /\ posting.count \in Counts
        /\ posting.event \in Events /\ posting \in waiting
    BY <1>1, PostingFacts
  <1>3. LadderTypeOK /\ faults \in 0 .. MaxFaults
    BY DEF LadderInv, LadderTypeOK
  <1>4. /\ laddered \subseteq laddered' /\ laddered' \subseteq OnLadder
        /\ dead' \subseteq Buried /\ waiting' \subseteq waiting
        /\ dead' \subseteq dead \union {[event |-> posting.event, why |-> "exhausted"]}
        /\ dead' # dead => Leg(posting, "TransientError") = DlqLeg
    <2>1. CASE Leg(posting, "TransientError") = Nowhere
      BY <1>1, <1>3, <2>1 DEF FailPost, LadderTypeOK, OnLadder, Buried
    <2>2. CASE Leg(posting, "TransientError") # Nowhere
      BY <1>1, <1>2, <1>3, <2>2, ParkFacts DEF FailPost, ParkTransient
    <2> QED
      BY <2>1, <2>2
  <1>5. LadderInv'
    BY <1>1, <1>3, <1>4, FewerWaitingKeeps
  <1>6. NotifyTypeOK'
    BY <1>1, <1>2 DEF NotifyInv, NotifyTypeOK
  <1>7. dead' # dead => Occurred[posting.event] + TierDelays[Len(TierDelays)] <= now
    <2> HAVE dead' # dead
    <2>1. posting.count = Len(TierDelays)
      BY <1>2, <1>4, LegFacts
    <2> QED
      BY <1>2, <2>1, LadderFacts DEF LadderInv, DelaysPass
  <1>8. OutageFollows'
    <2>1. ASSUME NEW e \in Outcomes, [event |-> e, why |-> "exhausted"] \in dead'
          PROVE  Occurred[e] + TierDelays[Len(TierDelays)] <= now
      <3>1. CASE [event |-> e, why |-> "exhausted"] \in dead
        BY <3>1 DEF NotifyInv, OutageFollows
      <3>2. CASE [event |-> e, why |-> "exhausted"] \notin dead
        <4>1. dead' # dead
          BY <2>1, <3>2
        <4>2. [event |-> e, why |-> "exhausted"] = [event |-> posting.event, why |-> "exhausted"]
          BY <1>4, <2>1, <3>2
        <4>3. e = posting.event
          BY <4>2
        <4> QED
          BY <1>7, <4>1, <4>3
      <3> QED
        BY <3>1, <3>2
    <2> QED
      BY <1>1, <2>1 DEF NotifyInv, OutageFollows
  <1> QED
    BY <1>5, <1>6, <1>8 DEF NotifyInv

(* Every step of notify and its receiver. *)
LEMMA NotifyKeeps ==
  ASSUME LadderInv, NotifyInv, NotifyNext
  PROVE  LadderInv' /\ NotifyInv'
  <1> USE DEF clockVars, kafkaVars, ladderVars
  <1>0. /\ LadderTypeOK /\ faults \in 0 .. MaxFaults /\ now \in 0 .. MaxTime
        /\ laddered \subseteq OnLadder /\ dead \subseteq Buried
    BY DEF LadderInv, LadderTypeOK, OnLadder, Buried
  <1>1. CASE TakeOutcome
    <2>1. LadderInv'
      BY <1>0, <1>1, FewerWaitingKeeps DEF TakeOutcome
    <2>2. NotifyTypeOK' /\ OutageFollows'
      BY <1>1 DEF TakeOutcome, NotifyInv, NotifyTypeOK, OutageFollows
    <2> QED
      BY <2>1, <2>2 DEF NotifyInv
  <1>2. CASE PostSucceeds
    <2>1. LadderInv'
      BY <1>0, <1>2, FewerWaitingKeeps DEF PostSucceeds
    <2>2. posting.event \in Outcomes
      BY <1>2, PostingFacts DEF PostSucceeds
    <2>3. NotifyTypeOK' /\ OutageFollows'
      BY <1>2, <2>2 DEF PostSucceeds, NotifyInv, NotifyTypeOK, OutageFollows
    <2> QED
      BY <2>1, <2>3 DEF NotifyInv
  <1>3. CASE PostRefused
    <2>1. /\ posting.event \in Events /\ posting.count \in Counts
      BY <1>3, PostingFacts DEF PostRefused
    <2>2. /\ laddered \subseteq laddered' /\ laddered' \subseteq OnLadder
          /\ dead' \subseteq Buried
          /\ dead' \subseteq dead \union {[event |-> posting.event, why |-> "refused"]}
      BY <1>0, <1>3, <2>1, ParkFacts DEF PostRefused, ParkTerminal
    <2>3. LadderInv'
      BY <1>0, <1>3, <2>2, FewerWaitingKeeps, FaultFacts DEF PostRefused
    <2>4. NotifyTypeOK'
      BY <1>3 DEF PostRefused, NotifyInv, NotifyTypeOK
    <2>5. \A e \in Outcomes : [event |-> e, why |-> "exhausted"] \in dead' =>
            [event |-> e, why |-> "exhausted"] \in dead
      BY <2>2
    <2>6. OutageFollows'
      BY <1>3, <2>5 DEF PostRefused, NotifyInv, OutageFollows
    <2> QED
      BY <2>3, <2>4, <2>6 DEF NotifyInv
  <1>4. CASE PostFails
    BY <1>4, PostFailsKeeps
  <1>5. CASE NotifierCrashes
    <2>1. LadderInv'
      BY <1>0, <1>5, FewerWaitingKeeps, FaultFacts DEF NotifierCrashes
    <2>2. posting.event \in Outcomes
      BY <1>5, PostingFacts DEF NotifierCrashes
    <2>3. NotifyTypeOK' /\ OutageFollows'
      BY <1>5, <2>2 DEF NotifierCrashes, NotifyInv, NotifyTypeOK, OutageFollows
    <2> QED
      BY <2>1, <2>3 DEF NotifyInv
  <1>6. CASE ReceiverFails
    <2>1. LadderInv'
      BY <1>0, <1>6, FewerWaitingKeeps, FaultFacts DEF ReceiverFails
    <2>2. NotifyTypeOK' /\ OutageFollows'
      BY <1>6 DEF ReceiverFails, NotifyInv, NotifyTypeOK, OutageFollows
    <2> QED
      BY <2>1, <2>2 DEF NotifyInv
  <1>7. CASE ReceiverRecovers
    <2>1. LadderInv'
      BY <1>0, <1>7, FewerWaitingKeeps DEF ReceiverRecovers
    <2>2. now # Never
      BY <1>0, PumpAssumption DEF Never
    <2>3. NotifyTypeOK'
      BY <1>0, <1>7 DEF ReceiverRecovers, NotifyInv, NotifyTypeOK
    <2>4. OutageFollows'
      BY <1>7, <2>2 DEF ReceiverRecovers, NotifyInv, OutageFollows, Never
    <2> QED
      BY <2>1, <2>3, <2>4 DEF NotifyInv
  <1> QED
    BY <1>1, <1>2, <1>3, <1>4, <1>5, <1>6, <1>7 DEF NotifyNext

-----------------------------------------------------------------------------
(* The pump. *)

(* What it delivers: messages of the copy's event whose delay is over. *)
LEMMA DeliveredFacts ==
  ASSUME LadderInv, Awake
  PROVE  /\ pump.copy \in OnLadder /\ Due(pump.copy) <= now
         /\ \A d \in Delivered(pump.copy) :
              /\ WellFormed(d) /\ d.event = pump.copy.event /\ d.count = pump.copy.count
  <1>1. /\ pump # NoCopy /\ pump.wake <= now /\ pump.copy \in laddered
        /\ pump.wake \in Nat /\ Due(pump.copy) <= pump.wake
        /\ laddered \subseteq OnLadder /\ now \in Nat
    BY DEF Awake, LadderInv, LadderTypeOK, PumpFollows, OnLadder
  <1>2. pump.copy \in OnLadder
    BY <1>1
  <1>3. /\ pump.copy.event \in Laddered /\ pump.copy.event \in Events
        /\ pump.copy.count \in Counts /\ Due(pump.copy) \in Nat
    BY <1>2, DueFacts, LadderFacts DEF OnLadder
  <1>4. \A d \in Delivered(pump.copy) :
          WellFormed(d) /\ d.event = pump.copy.event /\ d.count = pump.copy.count
    BY <1>3 DEF Delivered, WellFormed
  <1>5. Due(pump.copy) <= now
    BY <1>1, <1>3
  <1> QED
    BY <1>2, <1>4, <1>5

(* Every step of the pump. *)
LEMMA PumpKeeps ==
  ASSUME LadderInv, NotifyInv, Pump, UNCHANGED notifyVars
  PROVE  LadderInv' /\ NotifyInv'
  <1> USE DEF clockVars, kafkaVars, ladderVars, notifyVars
  <1>0. /\ LadderTypeOK /\ faults \in 0 .. MaxFaults /\ now \in 0 .. MaxTime /\ now \in Nat
        /\ laddered \subseteq OnLadder /\ dead \subseteq Buried
        /\ \A d \in waiting : WellFormed(d)
    BY PumpAssumption DEF LadderInv, LadderTypeOK, OnLadder, Buried, WellFormed
  <1>1. CASE PumpTakes
    <2>1. PICK c \in laddered : pump' = [copy |-> c, wake |-> Wake(c)]
      BY <1>1 DEF PumpTakes
    <2>2. Due(c) \in Nat
      BY <1>0, <2>1, DueFacts
    <2>3. UNCHANGED <<now, waiting, laddered, dead, faults>>
      BY <1>1 DEF PumpTakes
    <2>4. LadderTypeOK'
      BY <1>0, <2>1, <2>3 DEF LadderTypeOK
    <2>5. /\ pump'.copy = c /\ pump'.wake = Wake(c)
          /\ Wake(c) \in Nat /\ Due(c) <= Wake(c) /\ (Wake(c) <= now \/ Wake(c) = Due(c))
      BY <1>0, <2>1, <2>2 DEF Wake
    <2>6. Due(c)' = Due(c)
      BY DEF Due
    <2>7. Due(pump'.copy) = Due(c)
      BY <2>5 DEF Due
    <2>8. PumpFollows'
      BY <2>1, <2>3, <2>5, <2>7 DEF PumpFollows, Due
    <2>9. DelaysPass'
      BY <2>3 DEF LadderInv, DelaysPass
    <2>10. NotifyTypeOK' /\ OutageFollows'
      BY <2>3 DEF NotifyInv, NotifyTypeOK, OutageFollows
    <2> QED
      BY <2>4, <2>8, <2>9, <2>10 DEF LadderInv, NotifyInv
  <1>2. ASSUME Awake, waiting' = waiting \union Delivered(pump.copy), pump' = NoCopy,
               now' = now, faults' \in 0 .. MaxFaults, dead' = dead,
               laddered' \subseteq laddered
        PROVE  LadderInv' /\ NotifyInv'
    <2>1. \A d \in waiting' : WellFormed(d)
      BY <1>0, <1>2, DeliveredFacts
    <2>2. LadderTypeOK'
      BY <1>0, <1>2, <2>1 DEF LadderTypeOK, WellFormed, OnLadder, Buried
    <2>3. PumpFollows'
      BY <1>2 DEF PumpFollows
    <2>4. ASSUME NEW d \in Delivered(pump.copy)
          PROVE  Occurred[d.event] + TierDelays[d.count] <= now
      BY <1>2, <2>4, DeliveredFacts DEF Due
    <2>5. DelaysPass'
      BY <1>2, <2>4 DEF LadderInv, DelaysPass
    <2>6. NotifyTypeOK' /\ OutageFollows'
      BY <1>2 DEF NotifyInv, NotifyTypeOK, OutageFollows
    <2> QED
      BY <2>2, <2>3, <2>5, <2>6 DEF LadderInv, NotifyInv
  <1>3. ASSUME waiting' = waiting, pump' = NoCopy, now' = now, faults' \in 0 .. MaxFaults,
               laddered' \subseteq OnLadder, dead' \subseteq Buried,
               \A e \in Outcomes : [event |-> e, why |-> "exhausted"] \in dead' =>
                 [event |-> e, why |-> "exhausted"] \in dead
        PROVE  LadderInv' /\ NotifyInv'
    <2>1. LadderTypeOK'
      BY <1>0, <1>3 DEF LadderTypeOK, WellFormed, OnLadder, Buried
    <2>2. PumpFollows'
      BY <1>3 DEF PumpFollows
    <2>3. DelaysPass'
      BY <1>3 DEF LadderInv, DelaysPass
    <2>4. NotifyTypeOK' /\ OutageFollows'
      BY <1>3 DEF NotifyInv, NotifyTypeOK, OutageFollows
    <2> QED
      BY <2>1, <2>2, <2>3, <2>4 DEF LadderInv, NotifyInv
  <1>4. CASE PumpForwards
    BY <1>0, <1>2, <1>4 DEF PumpForwards
  <1>5. CASE PumpDies
    <2>1. faults' \in 0 .. MaxFaults
      BY <1>0, <1>5, FaultFacts DEF PumpDies
    <2> QED
      BY <1>0, <1>2, <1>3, <1>5, <2>1 DEF PumpDies
  <1>6. CASE PumpFails
    <2>1. faults' \in 0 .. MaxFaults /\ Awake
      BY <1>0, <1>6, FaultFacts DEF PumpFails
    <2>2. pump.copy \in OnLadder
      BY <2>1, DeliveredFacts
    <2>3. pump.copy.event \in Events /\ pump.copy.event \in Laddered
      BY <2>2, PumpAssumption DEF OnLadder
    <2>4. Leg(pump.copy, "Other") \in Tiers =>
            [event |-> pump.copy.event, count |-> Leg(pump.copy, "Other")] \in OnLadder
      BY <2>3 DEF OnLadder
    <2>5. laddered' \subseteq OnLadder
      BY <1>0, <1>6, <2>4 DEF PumpFails
    <2>6. dead' \subseteq dead \union {[event |-> pump.copy.event, why |-> "unpumped"]}
      BY <1>6 DEF PumpFails
    <2>7. [event |-> pump.copy.event, why |-> "unpumped"] \in Buried
      BY <2>3 DEF Buried
    <2>8. /\ dead' \subseteq Buried
          /\ \A e \in Outcomes : [event |-> e, why |-> "exhausted"] \in dead' =>
               [event |-> e, why |-> "exhausted"] \in dead
      BY <1>0, <2>6, <2>7
    <2> QED
      BY <1>3, <1>6, <2>1, <2>5, <2>8 DEF PumpFails
  <1> QED
    BY <1>1, <1>4, <1>5, <1>6 DEF Pump

-----------------------------------------------------------------------------
(* Time. *)

(* It passes over ladder and notify alike. *)
LEMMA TickKeeps ==
  ASSUME LadderInv, NotifyInv, LadderTick, UNCHANGED notifyVars
  PROVE  LadderInv' /\ NotifyInv'
  <1> USE DEF kafkaVars, notifyVars
  <1>1. /\ now \in Nat /\ now' = now + 1 /\ now' \in 0 .. MaxTime /\ MaxTime \in Nat
        /\ UNCHANGED <<waiting, laddered, dead, pump, faults>>
    BY PumpAssumption DEF LadderInv, LadderTypeOK, LadderTick
  <1>2. LadderTypeOK'
    BY <1>1 DEF LadderInv, LadderTypeOK
  <1>3. PumpFollows'
    BY <1>1 DEF LadderInv, PumpFollows, Due
  <1>4. \A d \in waiting : d.event \in Outcomes /\ d.count > 0 =>
          Occurred[d.event] + TierDelays[d.count] \in Nat
    <2> SUFFICES ASSUME NEW d \in waiting, d.event \in Outcomes, d.count > 0
                 PROVE  Occurred[d.event] + TierDelays[d.count] \in Nat
      OBVIOUS
    <2>1. d.event \in Events /\ d.count \in Tiers
      BY LadderFacts DEF LadderInv, LadderTypeOK
    <2> QED
      BY <2>1, LadderFacts, PumpAssumption
  <1>5. DelaysPass'
    BY <1>1, <1>4 DEF LadderInv, DelaysPass
  <1>6. \A e \in Outcomes : Occurred[e] + TierDelays[Len(TierDelays)] \in Nat
    BY LadderFacts, PumpAssumption, NotifyAssumption
  <1>7. NotifyTypeOK'
    BY <1>1 DEF NotifyInv, NotifyTypeOK, Never
  <1>8. OutageFollows'
    BY <1>1, <1>6 DEF NotifyInv, OutageFollows, Never
  <1> QED
    BY <1>2, <1>3, <1>5, <1>7, <1>8 DEF LadderInv, NotifyInv

-----------------------------------------------------------------------------
(* The three stages together. *)

(* The first state. *)
LEMMA InitHolds ==
  ASSUME Init
  PROVE  IInv
  <1>1. PICK present \in {{Requested}, {Probed}, Outcomes} : LadderInit(present)
    BY DEF Init
  <1>2. present \subseteq Events
    BY <1>1, TranscodeAssumption, ThumbnailAssumption, NotifyAssumption, PumpAssumption
  <1>3. \A d \in waiting : WellFormed(d) /\ d.count = 0
    BY <1>1, <1>2, LadderFacts DEF LadderInit, WellFormed
  <1>4. LadderInv
    BY <1>1, <1>3, PumpAssumption
       DEF LadderInit, LadderInv, LadderTypeOK, PumpFollows, DelaysPass, WellFormed
  <1>5. now = 0 /\ dead = {} /\ 0 # Never
    BY <1>1, PumpAssumption DEF LadderInit, Never
  <1>6. TranscodeInv
    <2>1. TranscodeTypeOK
      <3>1. 0 \in Counts
        BY LadderFacts
      <3>2. 0 \in 0 .. now \union {Never} /\ Never \in 0 .. now \union {Never}
        BY <1>5
      <3> QED
        BY <3>1, <3>2 DEF Init, TranscodeInit, TranscodeTypeOK
    <2>2. \A w \in Workers : pc[w] = "idle"
      BY DEF Init, TranscodeInit
    <2>3. OutputsThere
      BY <2>2 DEF Init, TranscodeInit, OutputsThere, HasMp4, HasSegments, HasPlaylist, Cutting
    <2>4. ClaimHeld
      BY <2>2 DEF ClaimHeld, Encoding
    <2> QED
      BY <2>1, <2>3, <2>4 DEF TranscodeInv
  <1>7. ThumbnailInv
    <2>1. ThumbnailTypeOK
      <3>1. 0 \in Counts /\ Poster \in Pieces
        BY LadderFacts DEF Pieces
      <3> QED
        BY <3>1 DEF Init, ThumbnailInit, ThumbnailTypeOK
    <2>2. \A q \in Pieces : ~(q < Poster)
      BY DEF Pieces, Poster, Sprite, Vtt
    <2>3. PiecesDone
      BY <2>2 DEF Init, ThumbnailInit, PiecesDone
    <2> QED
      BY <2>1, <2>3 DEF ThumbnailInv
  <1>8. NotifyInv
    BY <1>5 DEF Init, NotifyInit, NotifyInv, NotifyTypeOK, OutageFollows
  <1> QED
    BY <1>4, <1>6, <1>7, <1>8 DEF IInv

(* A stage that does not move, at a time that does not, is as it was. *)
LEMMA StagesRest ==
  ASSUME now' = now
  PROVE  /\ TranscodeInv /\ UNCHANGED transcodeVars => TranscodeInv'
         /\ ThumbnailInv /\ UNCHANGED thumbnailVars => ThumbnailInv'
  <1>1. TranscodeInv /\ UNCHANGED transcodeVars => TranscodeInv'
    BY DEF transcodeVars, storeVars, workerVars, TranscodeInv, TranscodeTypeOK, OutputsThere,
       ClaimHeld
  <1>2. ThumbnailInv /\ UNCHANGED thumbnailVars => ThumbnailInv'
    BY DEF thumbnailVars, memberVars, ThumbnailInv, ThumbnailTypeOK, PiecesDone
  <1> QED
    BY <1>1, <1>2

(* Every step. *)
LEMMA NextKeeps ==
  ASSUME IInv, [Next]_vars
  PROVE  IInv'
  <1> USE DEF IInv
  <1>1. CASE TranscodeNext /\ UNCHANGED <<thumbnailVars, notifyVars>>
    <2>1. Aside
      BY <1>1, TranscodeAside DEF TranscodeInv
    <2>2. now' = now
      BY <2>1 DEF Aside
    <2> QED
      BY <1>1, <2>1, <2>2, AsideKeeps, TranscodeKeeps, StagesRest
  <1>2. CASE ThumbnailNext /\ UNCHANGED <<transcodeVars, notifyVars>>
    <2>1. Aside
      BY <1>2, ThumbnailAside DEF ThumbnailInv
    <2>2. now' = now
      BY <2>1 DEF Aside
    <2> QED
      BY <1>2, <2>1, <2>2, AsideKeeps, ThumbnailKeeps, StagesRest
  <1>3. CASE NotifyNext /\ UNCHANGED <<transcodeVars, thumbnailVars>>
    <2>1. now' = now
      BY <1>3 DEF NotifyNext, TakeOutcome, PostSucceeds, PostRefused, PostFails,
         NotifierCrashes, ReceiverFails, ReceiverRecovers, ladderVars, clockVars
    <2> QED
      BY <1>3, <2>1, NotifyKeeps, StagesRest
  <1>4. CASE Pump /\ UNCHANGED <<transcodeVars, thumbnailVars, notifyVars>>
    <2>1. now' = now
      BY <1>4 DEF Pump, PumpTakes, PumpForwards, PumpDies, PumpFails
    <2> QED
      BY <1>4, <2>1, PumpKeeps, StagesRest
  <1>5. CASE Tick /\ UNCHANGED <<transcodeVars, thumbnailVars, notifyVars>>
    <2>1. LadderTick /\ TranscodeIsInTime
      BY <1>5 DEF Tick
    <2>2. TranscodeInv'
      BY <1>5, <2>1, TickKeepsClaims DEF LadderInv
    <2>3. ThumbnailInv'
      BY <1>5 DEF thumbnailVars, memberVars, ThumbnailInv, ThumbnailTypeOK, PiecesDone
    <2> QED
      BY <1>5, <2>1, <2>2, <2>3, TickKeeps
  <1>6. CASE UNCHANGED vars
    <2>1. UNCHANGED <<now, transcodeVars, thumbnailVars>>
      BY <1>6 DEF vars, ladderVars, clockVars
    <2>2. LadderInv'
      BY <1>6 DEF vars, ladderVars, clockVars, kafkaVars, LadderInv, LadderTypeOK, PumpFollows,
         DelaysPass, Due
    <2>3. NotifyInv'
      BY <1>6 DEF vars, ladderVars, clockVars, kafkaVars, notifyVars, NotifyInv, NotifyTypeOK,
         OutageFollows
    <2> QED
      BY <2>1, <2>2, <2>3, StagesRest
  <1> QED
    BY <1>1, <1>2, <1>3, <1>4, <1>5, <1>6 DEF Next

(* The invariant holds of every run: of any number of workers, members and   *)
(* outcomes, whatever ladder, claim and bounds they are given.               *)
THEOREM Invariant == Spec => []IInv
  BY InitHolds, NextKeeps, PTL DEF Spec

(* TypeOK: whatever is on topics, tiers and DLQs, and in hand, is what the   *)
(* code can put there.                                                       *)
THEOREM TypeCorrect == Spec => []TypeOK
  <1>1. IInv => TypeOK
    BY DEF IInv, LadderInv, TranscodeInv, ThumbnailInv, NotifyInv, TypeOK
  <1> QED
    BY <1>1, Invariant, PTL

(* AnnouncedIsThere: a rendition is announced only with MP4, segments and    *)
(* playlist in place (worker_transcode/main.py:92-102, 163-185), even when   *)
(* attempts last longer than a claim and encode side by side.                *)
THEOREM AnnouncedIsThereTheorem == Spec => []AnnouncedIsThere
  <1>1. IInv => AnnouncedIsThere
    BY DEF IInv, TranscodeInv, OutputsThere, AnnouncedIsThere
  <1> QED
    BY <1>1, Invariant, PTL

(* OneEncoderAtATime: no two attempts are between the claim and the promoted *)
(* MP4, provided that an attempt's work is no longer than STALE_AFTER.       *)
THEOREM OneEncoderAtATimeTheorem ==
  ASSUME MaxWork <= StaleAfter
  PROVE  Spec => []OneEncoderAtATime
  <1>1. IInv => OneEncoderAtATime
    <2> SUFFICES ASSUME IInv
                 PROVE  OneEncoderAtATime
      OBVIOUS
    <2> DEFINE Encoders == {w \in Workers : pc[w] \in Encoding}
    <2>1. \A v, w \in Encoders : v = w
      BY DEF IInv, TranscodeInv, ClaimHeld
    <2>2. CASE Encoders = {}
      BY <2>2, FS_EmptySet DEF OneEncoderAtATime
    <2>3. CASE Encoders # {}
      <3>1. PICK w \in Encoders : Encoders = {w}
        BY <2>1, <2>3
      <3>2. Cardinality(Encoders) = 1
        BY <3>1, FS_Singleton
      <3> QED
        BY <3>2 DEF OneEncoderAtATime
    <2> QED
      BY <2>2, <2>3
  <1> QED
    BY <1>1, Invariant, PTL

(* ThumbnailsAreThere: "thumbnails ready" names keys that can be fetched     *)
(* (worker_thumbnail/main.py:125-141), though attempts share scratch keys.   *)
THEOREM ThumbnailsAreThereTheorem == Spec => []ThumbnailsAreThere
  <1>1. IInv => ThumbnailsAreThere
    BY DEF IInv, ThumbnailInv, PiecesDone, ThumbnailsAreThere
  <1> QED
    BY <1>1, Invariant, PTL

(* OutageOutlasted: a receiver's outage that is over before the last tier's  *)
(* delay after the event (worker_notify/main.py:57-59) loses it nothing.     *)
THEOREM OutageOutlastedTheorem == Spec => []OutageOutlasted
  <1>1. IInv => OutageOutlasted
    <2> SUFFICES ASSUME IInv, NEW e \in Outcomes,
                        [event |-> e, why |-> "exhausted"] \in dead, receiver # "failing"
                 PROVE  wellSince >= Occurred[e] + TierDelays[Len(TierDelays)]
      BY DEF OutageOutlasted
    <2>1. receiver = "well" /\ wellSince \in Nat
      BY PumpAssumption DEF IInv, LadderInv, LadderTypeOK, NotifyInv, NotifyTypeOK, Never
    <2>2. Occurred[e] + TierDelays[Len(TierDelays)] \in Nat
      BY LadderFacts, PumpAssumption, NotifyAssumption
    <2>3. Occurred[e] + TierDelays[Len(TierDelays)] <= wellSince
      BY <2>1 DEF IInv, NotifyInv, OutageFollows
    <2> QED
      BY <2>1, <2>2, <2>3
  <1> QED
    BY <1>1, Invariant, PTL

(* LadderEmptiesInTime: no time passes while all that is on the ladder is    *)
(* due (worker_retry_pump/main.py:76-80), however many copies and tiers the  *)
(* one pump has to sleep over.                                               *)
THEOREM LadderEmptiesInTimeTheorem == Spec => LadderEmptiesInTime
  <1> DEFINE InTime == now' > now => laddered = {} \/ \E c \in laddered : now < Due(c)
  <1>1. ASSUME IInv, [Next]_vars
        PROVE  [InTime]_now
    <2>1. CASE Tick
      <3>1. PumpIsPrompt
        BY <2>1 DEF Tick, LadderTick
      <3>2. CASE pump = NoCopy
        BY <3>1, <3>2 DEF PumpIsPrompt
      <3>3. CASE pump # NoCopy
        <4>1. /\ pump.copy \in laddered /\ pump.wake \in Nat /\ now \in Nat
              /\ pump.wake <= now \/ pump.wake = Due(pump.copy)
          BY <1>1, <3>3, PumpAssumption DEF IInv, LadderInv, PumpFollows, LadderTypeOK
        <4>2. now < Due(pump.copy)
          BY <3>1, <3>3, <4>1 DEF PumpIsPrompt
        <4> QED
          BY <4>1, <4>2
      <3> QED
        BY <3>2, <3>3
    <2>2. CASE ~Tick
      <3>1. CASE TranscodeNext
        <4>1. Aside
          BY <1>1, <3>1, TranscodeAside DEF IInv, TranscodeInv
        <4> QED
          BY <4>1 DEF Aside
      <3>2. CASE ThumbnailNext
        <4>1. Aside
          BY <1>1, <3>2, ThumbnailAside DEF IInv, ThumbnailInv
        <4> QED
          BY <4>1 DEF Aside
      <3>3. CASE NotifyNext
        BY <3>3 DEF NotifyNext, TakeOutcome, PostSucceeds, PostRefused, PostFails,
           NotifierCrashes, ReceiverFails, ReceiverRecovers, ladderVars, clockVars
      <3>4. CASE Pump
        BY <3>4 DEF Pump, PumpTakes, PumpForwards, PumpDies, PumpFails
      <3>5. CASE UNCHANGED vars
        BY <3>5 DEF vars, ladderVars, clockVars
      <3> QED
        BY <1>1, <2>2, <3>1, <3>2, <3>3, <3>4, <3>5 DEF Next
    <2> QED
      BY <2>1, <2>2
  <1> QED
    BY <1>1, Invariant, PTL DEF Spec, LadderEmptiesInTime

-----------------------------------------------------------------------------
(* One fault does not exhaust the ladder.  That takes a second invariant, on *)
(* top of IInv: where the rendition's one message is, and who has the claim. *)

Rung(n) == [event |-> Requested, count |-> n]

(* Whose attempt has a claim, has the latest.                                *)
SinceIsClaim ==
  \A v \in Workers : since[v] # Never =>
    /\ since[v] = claimedAt /\ now <= claimedAt + MaxWork
    /\ pc[v] \in Encoding \union Cutting \union {"announce", "flush"}
    /\ \A w \in Workers : since[w] # Never => w = v

(* What a promotion has to copy is there, or was promoted meanwhile.         *)
ScratchThere ==
  /\ \A w \in Workers :
       /\ pc[w] = "copy" => mp4Scratch
       /\ pc[w] = "copyPlaylist" => playlistScratch \/ playlist
  /\ mp4 => claimedAt # Never
  /\ playlist => mp4

(* One worker at most works on a message that is still its own.              *)
OwnersDiffer ==
  /\ \A v, w \in Workers :
       Busy(v) /\ ~evicted[v] /\ Busy(w) /\ ~evicted[w] => v = w
  /\ \A w \in Workers : evicted[w] => Busy(w)

(* A retry has waited for its tier's delay.                                  *)
RetriesWait ==
  /\ \A n \in Tiers : Message(n) \in waiting => Due(Rung(n)) <= now
  /\ \A w \in Workers : count[w] \in Tiers => Due(Rung(count[w])) <= now

InKafka(n) == Message(n) \in waiting \/ Rung(n) \in laddered
NoCopies   == \A n \in Counts : ~InKafka(n)
OneCopy ==
  \A m, n \in Counts : InKafka(m) /\ InKafka(n) =>
    m = n /\ ~(Message(n) \in waiting /\ Rung(n) \in laddered)

(* The claim was made by an attempt that did not have to wait on the ladder, *)
(* if at all.                                                                *)
Early == claimedAt = Never \/ claimedAt <= MaxBacklog

(* Without a fault the rendition has one attempt, at once.                   *)
NothingHappened ==
  /\ \A w \in Workers : ~evicted[w]
  /\ \A n \in Counts : InKafka(n) =>
       /\ n = 0 /\ Rung(n) \notin laddered
       /\ claimedAt = Never /\ now <= MaxBacklog
       /\ \A w \in Workers : ~Busy(w)
  /\ \A w \in Workers : Busy(w) =>
       /\ count[w] = 0
       /\ pc[w] \in {"lookMp4", "claim"} => claimedAt = Never /\ now <= MaxBacklog
       /\ pc[w] \notin {"lookMp4", "claim"} => since[w] # Never /\ claimedAt <= MaxBacklog
       /\ pc[w] = "copyPlaylist" => playlistScratch

(* Nobody is evicted: one copy or attempt is left, or one holds the claim,   *)
(* or the playlist is there and what is left will find it.                   *)
NobodyEvicted ==
  (\A w \in Workers : ~evicted[w]) =>
    /\ (\A w \in Workers : ~Busy(w)) => playlist \/ (OneCopy /\ Early) \/ NoCopies
    /\ \A w \in Workers : Busy(w) /\ since[w] = Never =>
         /\ NoCopies \/ (playlist /\ pc[w] # "claim")
         /\ pc[w] = "lookMp4" => mp4 \/ Early
         /\ pc[w] = "claim" => Early

(* d was evicted before it had the claim: the message's next attempt begins, *)
(* or has the claim, or has come to find the playlist there.                 *)
EvictedEarly(d) ==
  LET Others == {w \in Workers \ {d} : Busy(w)} IN
  /\ Others = {} /\ NoCopies => playlist
  /\ \A n \in Counts : InKafka(n) =>
       \/ /\ n = 0 /\ Rung(n) \notin laddered /\ Others = {}
          /\ claimedAt = Never /\ now <= MaxBacklog
       \/ playlist /\ pc[d] # "claim"
  /\ \A w \in Others :
       \/ /\ count[w] = 0 /\ pc[w] \in {"lookMp4", "claim"} /\ NoCopies
          /\ claimedAt = Never /\ now <= MaxBacklog
       \/ count[w] = 0 /\ since[w] # Never /\ NoCopies
       \/ /\ pc[w] \in {"lookMp4", "lookPlaylist", "announce", "flush"}
          /\ playlist /\ pc[d] # "claim"

(* d was evicted with the claim, and encodes on beside one other attempt.    *)
EvictedLate(d) ==
  LET Others == {w \in Workers \ {d} : Busy(w)} IN
  /\ Others # {} \/ ~NoCopies => claimedAt <= MaxBacklog
  /\ Others # {} => NoCopies
  /\ OneCopy

SomebodyEvicted ==
  \A d \in Workers : evicted[d] =>
    /\ count[d] = 0
    /\ \A w \in Workers : evicted[w] => w = d
    /\ IF since[d] = Never THEN EvictedEarly(d) ELSE EvictedLate(d)

(* Whose playlist was promoted by another attempt is not waited for at the   *)
(* claim.                                                                    *)
LostToNoClaimant ==
  \A v, w \in Workers :
    pc[v] = "copyPlaylist" /\ ~playlistScratch => pc[w] # "claim"

LastRetrySucceeds ==
  \A w \in Workers : count[w] = Len(TierDelays) =>
    /\ pc[w] = "claim" => Early
    /\ pc[w] = "copyPlaylist" => playlistScratch

OneFault ==
  /\ faults = 0 => NothingHappened
  /\ faults <= 1 =>
       /\ NobodyEvicted /\ SomebodyEvicted /\ LostToNoClaimant /\ LastRetrySucceeds
       /\ LadderOutlastsTheClaim

ClaimInv == SinceIsClaim /\ ScratchThere /\ OwnersDiffer /\ RetriesWait /\ OneFault

(* What holds of any number of faults. *)
Level1 == SinceIsClaim /\ ScratchThere /\ OwnersDiffer /\ RetriesWait

(* What the claim and the ladder are sized for: an attempt's work is over    *)
(* before its claim is stale, and the claim of a first attempt is stale when *)
(* the last tier forwards.                                                   *)
Sized ==
  /\ MaxWork <= StaleAfter
  /\ MaxBacklog + StaleAfter < Occurred[Requested] + TierDelays[Len(TierDelays)]

(* Sized, in terms of the copy on the last tier. *)
LEMMA SizedFacts ==
  ASSUME Sized
  PROVE  /\ {MaxWork, StaleAfter, MaxBacklog} \subseteq Nat /\ MaxWork <= StaleAfter
         /\ Len(TierDelays) \in Tiers /\ Due(Rung(Len(TierDelays))) \in Nat
         /\ MaxBacklog + StaleAfter < Due(Rung(Len(TierDelays)))
         /\ 0 \in Counts /\ Len(TierDelays) \in Counts /\ Len(TierDelays) # 0
         /\ Tiers = Counts \ {0}
  <1>1. Len(TierDelays) \in Tiers
    BY LadderFacts
  <1>2. Rung(Len(TierDelays)) \in OnLadder
    BY <1>1, TranscodeAssumption DEF OnLadder, Rung
  <1>3. Due(Rung(Len(TierDelays))) = Occurred[Requested] + TierDelays[Len(TierDelays)]
    BY DEF Due, Rung
  <1>4. /\ 0 \in Counts /\ Len(TierDelays) \in Counts /\ Len(TierDelays) # 0
        /\ Tiers = Counts \ {0}
    BY LadderFacts
  <1> QED
    BY <1>1, <1>2, <1>3, <1>4, DueFacts, TranscodeAssumption DEF Sized

(* The types that the steps of the proof rely on. *)
LEMMA ClaimTypes ==
  ASSUME IInv
  PROVE  /\ now \in Nat /\ now # Never /\ Never \in Nat /\ claimedAt \in Nat
         /\ pc \in [Workers -> Steps] /\ count \in [Workers -> Counts]
         /\ since \in [Workers -> Nat] /\ evicted \in [Workers -> BOOLEAN]
         /\ {mp4, mp4Scratch, segments, playlist, playlistScratch, announced} \subseteq BOOLEAN
         /\ faults \in Nat /\ \A n \in Counts : Rung(n) \in laddered => n \in Tiers
  <1>1. now \in 0 .. MaxTime /\ MaxTime \in Nat /\ faults \in Nat
    BY PumpAssumption DEF IInv, LadderInv, LadderTypeOK
  <1>2. \A n \in Counts : Rung(n) \in laddered => n \in Tiers
    BY DEF IInv, LadderInv, LadderTypeOK, Rung
  <1> QED
    BY <1>1, <1>2 DEF IInv, TranscodeInv, TranscodeTypeOK, Steps, Never

-----------------------------------------------------------------------------
(* The other stages, and the pump over their copies. *)

(* Where the rendition's copies are, and whether its retries have run out.   *)
SameCopies ==
  \A n \in Counts : /\ Message(n) \in waiting' <=> Message(n) \in waiting
                    /\ Rung(n) \in laddered' <=> Rung(n) \in laddered
SameEnd ==
  [event |-> Requested, why |-> "exhausted"] \in dead' =>
    [event |-> Requested, why |-> "exhausted"] \in dead

(* What leaves the rendition alone keeps the invariant. *)
LEMMA RestKeeps ==
  ASSUME ClaimInv, SameCopies, SameEnd, UNCHANGED <<now, transcodeVars>>,
         faults \in Nat, faults' \in Nat, faults <= faults'
  PROVE  ClaimInv'
  <1> USE DEF transcodeVars, storeVars, workerVars, Busy
  <1>1. SinceIsClaim' /\ ScratchThere' /\ OwnersDiffer'
    BY DEF ClaimInv, SinceIsClaim, ScratchThere, OwnersDiffer
  <1>2. RetriesWait'
    <2>1. \A n \in Tiers : n \in Counts
      BY LadderFacts
    <2> QED
      BY <2>1 DEF ClaimInv, RetriesWait, SameCopies, Due, Rung
  <1>3. /\ \A n \in Counts : InKafka(n)' <=> InKafka(n)
        /\ NoCopies' <=> NoCopies
        /\ OneCopy' <=> OneCopy
        /\ Early' <=> Early
    BY DEF SameCopies, InKafka, NoCopies, OneCopy, Early
  <1>4. faults' = 0 => faults = 0
    OBVIOUS
  <1>5. faults' <= 1 => faults <= 1
    OBVIOUS
  <1>6. faults' = 0 => NothingHappened'
    BY <1>3, <1>4 DEF ClaimInv, OneFault, NothingHappened, SameCopies
  <1>7. faults' <= 1 => NobodyEvicted'
    BY <1>3, <1>5 DEF ClaimInv, OneFault, NobodyEvicted
  <1>8. faults' <= 1 => SomebodyEvicted'
    BY <1>3, <1>5 DEF ClaimInv, OneFault, SomebodyEvicted, EvictedEarly, EvictedLate, SameCopies
  <1>9. faults' <= 1 => LostToNoClaimant' /\ LastRetrySucceeds'
    BY <1>3, <1>5 DEF ClaimInv, OneFault, LostToNoClaimant, LastRetrySucceeds
  <1>10. faults' <= 1 => LadderOutlastsTheClaim'
    BY <1>5 DEF ClaimInv, OneFault, LadderOutlastsTheClaim, SameEnd
  <1> QED
    BY <1>1, <1>2, <1>6, <1>7, <1>8, <1>9, <1>10 DEF ClaimInv, OneFault

(* Time passes only when the rendition's first message and its look-ups do   *)
(* not wait, and while no attempt is over its time.                          *)
LEMMA TickKeepsLadder ==
  ASSUME IInv, ClaimInv, Tick, UNCHANGED transcodeVars
  PROVE  ClaimInv'
  <1> USE DEF transcodeVars, storeVars, workerVars, Busy
  <1>1. now \in Nat /\ now' = now + 1 /\ MaxBacklog \in Nat /\ MaxWork \in Nat
    BY ClaimTypes, TranscodeAssumption DEF Tick, LadderTick
  <1>2. UNCHANGED <<waiting, laddered, dead, faults>>
    BY DEF Tick, LadderTick, kafkaVars
  <1>3. /\ Message(0) \in waiting => now' <= MaxBacklog
        /\ \A w \in Workers :
             /\ pc[w] \in {"lookMp4", "lookPlaylist", "claim"} => evicted[w]
             /\ since[w] # Never => now' <= since[w] + MaxWork
    BY <1>1, ClaimTypes DEF Tick, TranscodeIsInTime
  <1>4. SinceIsClaim' /\ ScratchThere' /\ OwnersDiffer'
    BY <1>3 DEF ClaimInv, SinceIsClaim, ScratchThere, OwnersDiffer
  <1>5. RetriesWait'
    <2>1. \A n \in Tiers : Rung(n) \in OnLadder
      BY TranscodeAssumption DEF OnLadder, Rung
    <2>2. \A n \in Tiers : Due(Rung(n)) \in Nat /\ Due(Rung(n))' = Due(Rung(n))
      BY <2>1, DueFacts DEF Due, Rung
    <2> QED
      BY <1>1, <1>2, <2>2 DEF ClaimInv, RetriesWait
  <1>6. /\ \A n \in Counts : InKafka(n)' <=> InKafka(n)
        /\ NoCopies' <=> NoCopies
        /\ OneCopy' <=> OneCopy
        /\ Early' <=> Early
    BY <1>2 DEF InKafka, NoCopies, OneCopy, Early
  <1>7. faults' = 0 => NothingHappened'
    BY <1>2, <1>3, <1>6 DEF ClaimInv, OneFault, NothingHappened, InKafka
  <1>8. faults' <= 1 => NobodyEvicted'
    BY <1>2, <1>6 DEF ClaimInv, OneFault, NobodyEvicted
  <1>9. faults' <= 1 => SomebodyEvicted'
    <2> SUFFICES ASSUME faults <= 1, NEW d \in Workers, evicted[d]
                 PROVE  /\ count[d] = 0
                        /\ \A w \in Workers : evicted[w] => w = d
                        /\ IF since[d] = Never THEN EvictedEarly(d)' ELSE EvictedLate(d)'
      BY <1>2 DEF SomebodyEvicted
    <2>1. /\ count[d] = 0
          /\ \A w \in Workers : evicted[w] => w = d
          /\ IF since[d] = Never THEN EvictedEarly(d) ELSE EvictedLate(d)
      BY DEF ClaimInv, OneFault, SomebodyEvicted
    <2>2. EvictedLate(d) => EvictedLate(d)'
      BY <1>6 DEF EvictedLate
    <2>3. EvictedEarly(d) => EvictedEarly(d)'
      BY <1>2, <1>3, <1>6, <2>1 DEF EvictedEarly, InKafka
    <2> QED
      BY <2>1, <2>2, <2>3
  <1>10. faults' <= 1 => LostToNoClaimant' /\ LastRetrySucceeds' /\ LadderOutlastsTheClaim'
    BY <1>2, <1>6
       DEF ClaimInv, OneFault, LostToNoClaimant, LastRetrySucceeds, LadderOutlastsTheClaim
  <1> QED
    BY <1>4, <1>5, <1>7, <1>8, <1>9, <1>10 DEF ClaimInv, OneFault

(* A step that leaves the rendition's workers alone, and does not undo a     *)
(* fault, keeps what holds of any number of faults.                          *)
LEMMA RestsLevel1 ==
  ASSUME Level1, UNCHANGED <<now, transcodeVars>>,
         \A n \in Tiers : Message(n) \in waiting' =>
           Message(n) \in waiting \/ Due(Rung(n)) <= now
  PROVE  Level1'
  <1> USE DEF transcodeVars, storeVars, workerVars, Busy
  <1>1. SinceIsClaim' /\ ScratchThere' /\ OwnersDiffer'
    BY DEF Level1, SinceIsClaim, ScratchThere, OwnersDiffer
  <1>2. RetriesWait'
    BY DEF Level1, RetriesWait, Due, Rung
  <1> QED
    BY <1>1, <1>2 DEF Level1

(* The pump, over any copy. *)
LEMMA PumpKeepsLadder ==
  ASSUME IInv, ClaimInv, Pump, UNCHANGED transcodeVars
  PROVE  ClaimInv'
  <1> USE DEF kafkaVars
  <1>0. now' = now /\ faults \in Nat /\ faults' \in Nat /\ faults <= faults'
    BY ClaimTypes DEF Pump, PumpTakes, PumpForwards, PumpDies, PumpFails, Fault
  <1>1. CASE PumpTakes
    <2>1. SameCopies /\ SameEnd
      BY <1>1 DEF PumpTakes, SameCopies, SameEnd
    <2> QED
      BY <1>0, <2>1, RestKeeps
  <1>2. CASE ~PumpTakes
    <2> DEFINE c == pump.copy
    <2>1. /\ PumpForwards \/ PumpDies \/ PumpFails
          /\ pump # NoCopy /\ c \in laddered
          /\ pump.wake <= now => Due(c) <= now
          /\ c \in OnLadder
      BY <1>2, ClaimTypes, DueFacts
         DEF Pump, PumpForwards, PumpDies, PumpFails, Awake, IInv, LadderInv, PumpFollows,
             LadderTypeOK, OnLadder
    <2>2. c = [event |-> c.event, count |-> c.count] /\ c.count \in Tiers
      BY <2>1 DEF OnLadder
    <2>3. \A n \in Counts : /\ c = Rung(n) <=> c.event = Requested /\ c.count = n
                            /\ Message(n) \in Delivered(c) <=> c.event = Requested /\ c.count = n
      <3> TAKE n \in Counts
      <3>1. c = Rung(n) <=> c.event = Requested /\ c.count = n
        BY <2>2 DEF Rung
      <3>2. Message(n) \in Delivered(c) => c.event = Requested /\ c.count = n
        BY DEF Message, Delivered
      <3>3. c.event = Requested /\ c.count = n => Message(n) \in Delivered(c)
        BY TranscodeAssumption DEF Message, Delivered
      <3> QED
        BY <3>1, <3>2, <3>3
    <2>4. CASE c.event # Requested
      <3>1. \A n \in Counts : c # Rung(n) /\ Message(n) \notin Delivered(c)
        BY <2>3, <2>4
      <3>2. SameCopies
        BY <2>1, <2>4, <3>1 DEF PumpForwards, PumpDies, PumpFails, SameCopies, Rung
      <3>3. SameEnd
        BY <2>1 DEF PumpForwards, PumpDies, PumpFails, SameEnd
      <3> QED
        BY <1>0, <3>2, <3>3, RestKeeps
    <2>5. CASE c.event = Requested
      <3> DEFINE k == c.count
      <3>1. /\ k \in Tiers /\ k \in Counts /\ k # 0 /\ c = Rung(k)
            /\ \A n \in Counts : Rung(n) = c <=> n = k
            /\ \A n \in Counts : Message(n) \in Delivered(c) <=> n = k
        BY <2>2, <2>3, <2>5, LadderFacts
      <3>2. \A n \in Tiers : Message(n) \in waiting' =>
              Message(n) \in waiting \/ Due(Rung(n)) <= now
        BY <2>1, <3>1, LadderFacts DEF PumpForwards, PumpDies, PumpFails, Awake
      <3>3. Level1'
        BY <1>0, <3>2, RestsLevel1 DEF ClaimInv, Level1
      <3>4. faults # 0
        BY <2>1, <3>1 DEF ClaimInv, OneFault, NothingHappened, InKafka
      <3>5. CASE PumpForwards
        <4> USE DEF transcodeVars, storeVars, workerVars, Busy
        <4>1. /\ \A n \in Counts :
                   /\ InKafka(n)' <=> InKafka(n)
                   /\ Rung(n) \in laddered' => Rung(n) \in laddered
                   /\ Message(n) \in waiting' /\ Rung(n) \in laddered' =>
                        Message(n) \in waiting /\ Rung(n) \in laddered
              /\ faults' = faults /\ dead' = dead
          BY <2>1, <3>1, <3>5 DEF PumpForwards, InKafka
        <4>2. /\ NoCopies' <=> NoCopies
              /\ OneCopy => OneCopy'
              /\ Early' <=> Early
          BY <1>0, <4>1 DEF NoCopies, OneCopy, Early
        <4>3. faults <= 1 => NobodyEvicted'
          BY <4>1, <4>2 DEF ClaimInv, OneFault, NobodyEvicted
        <4>4. faults <= 1 => SomebodyEvicted'
          BY <1>0, <4>1, <4>2 DEF ClaimInv, OneFault, SomebodyEvicted, EvictedEarly, EvictedLate
        <4>5. faults <= 1 => LostToNoClaimant' /\ LastRetrySucceeds' /\ LadderOutlastsTheClaim'
          BY <4>1, <4>2
             DEF ClaimInv, OneFault, LostToNoClaimant, LastRetrySucceeds, LadderOutlastsTheClaim
        <4> QED
          BY <3>3, <3>4, <4>1, <4>3, <4>4, <4>5 DEF ClaimInv, Level1, OneFault
      <3>6. CASE PumpDies \/ PumpFails
        <4>1. faults' # 0 /\ ~(faults' <= 1)
          BY <1>0, <3>4, <3>6 DEF PumpDies, PumpFails, Fault
        <4> QED
          BY <3>3, <4>1 DEF ClaimInv, Level1, OneFault
      <3> QED
        BY <2>1, <3>5, <3>6
    <2> QED
      BY <2>4, <2>5
  <1> QED
    BY <1>1, <1>2

(* What is parked for another event ... *)
LEMMA ParkElsewhere ==
  ASSUME NEW d, d.event # Requested, NEW leg, NEW why, Park(d, leg, why)
  PROVE  /\ \A n \in Counts : Rung(n) \in laddered' <=> Rung(n) \in laddered
         /\ SameEnd
  BY DEF Park, Rung, SameEnd

(* ... or taken and given back, says nothing of the rendition's. *)
LEMMA WaitingElsewhere ==
  ASSUME NEW d, d.event # Requested, waiting' \in {waiting, waiting \ {d}, waiting \union {d}}
  PROVE  \A n \in Counts : Message(n) \in waiting' <=> Message(n) \in waiting
  BY DEF Message

(* thumbnail, and the packager group beside it. *)
LEMMA ThumbnailKeepsLadder ==
  ASSUME IInv, ClaimInv, ThumbnailNext, UNCHANGED transcodeVars
  PROVE  ClaimInv'
  <1> USE DEF clockVars, kafkaVars, ladderVars
  <1>1. faults \in Nat /\ Requested # Probed
    BY ClaimTypes, RetriesAssumption
  <1>2. ASSUME NEW d, d.event = Probed, now' = now,
               waiting' \in {waiting, waiting \ {d}, waiting \union {d}},
               \/ UNCHANGED <<laddered, dead>>
               \/ ParkTransient(d) \/ ParkTerminal(d),
               faults' = faults \/ Fault
        PROVE  ClaimInv'
    <2>1. \A n \in Counts : Message(n) \in waiting' <=> Message(n) \in waiting
      BY <1>1, <1>2, WaitingElsewhere
    <2>2. (\A n \in Counts : Rung(n) \in laddered' <=> Rung(n) \in laddered) /\ SameEnd
      BY <1>1, <1>2, ParkElsewhere DEF ParkTransient, ParkTerminal, SameEnd
    <2>3. SameCopies /\ faults' \in Nat /\ faults <= faults'
      BY <1>1, <1>2, <2>1, <2>2 DEF SameCopies, Fault
    <2> QED
      BY <1>1, <1>2, <2>2, <2>3, RestKeeps
  <1>3. CASE PackagerTakes
    BY <1>2, <1>3 DEF PackagerTakes
  <1>4. ASSUME NEW w \in Thumbnailers,
               \/ \E n \in Counts : TakeProbed(w, n)
               \/ HandleProbed(w)
               \/ ThumbnailFails(w) \/ ThumbnailRefused(w)
               \/ ThumbnailerCrashes(w) \/ ThumbnailerEvicted(w)
        PROVE  ClaimInv'
    <2>0. \A n : ToMessage(n).event = Probed
      BY DEF ToMessage
    <2>1. ASSUME NEW n \in Counts, TakeProbed(w, n)
          PROVE  ClaimInv'
      BY <1>2, <2>0, <2>1 DEF TakeProbed
    <2>2. CASE HandleProbed(w)
      <3>1. UNCHANGED ladderVars \/ (FailProbed(w) /\ now' = now /\ faults' = faults)
        BY <2>2 DEF HandleProbed, Look, Make, CopyPiece, DeletePiece, AnnounceThumbnails,
           FinishProbed, FailProbed
      <3> QED
        BY <1>2, <2>0, <3>1 DEF FailProbed
    <2>3. CASE ThumbnailFails(w) \/ ThumbnailRefused(w)
      BY <1>2, <2>0, <2>3 DEF ThumbnailFails, FailProbed, ThumbnailRefused
    <2>4. CASE ThumbnailerCrashes(w) \/ ThumbnailerEvicted(w)
      BY <1>2, <2>0, <2>4 DEF ThumbnailerCrashes, ThumbnailerEvicted
    <2> QED
      BY <1>4, <2>1, <2>2, <2>3, <2>4
  <1> QED
    BY <1>3, <1>4 DEF ThumbnailNext

(* notify and its receiver. *)
LEMMA NotifyKeepsLadder ==
  ASSUME IInv, ClaimInv, NotifyNext, UNCHANGED transcodeVars
  PROVE  ClaimInv'
  <1> USE DEF clockVars, kafkaVars, ladderVars
  <1>1. faults \in Nat /\ now' = now /\ (faults' = faults \/ Fault)
    BY ClaimTypes DEF NotifyNext, TakeOutcome, PostSucceeds, PostRefused, PostFails,
       NotifierCrashes, ReceiverFails, ReceiverRecovers
  <1>2. faults' \in Nat /\ faults <= faults'
    BY <1>1 DEF Fault
  <1>3. CASE UNCHANGED kafkaVars
    BY <1>1, <1>2, <1>3, RestKeeps DEF SameCopies, SameEnd
  <1>4. CASE /\ posting # NoCopy /\ waiting' = waiting \ {posting}
             /\ \/ UNCHANGED <<laddered, dead>>
                \/ ParkTransient(posting) \/ ParkTerminal(posting)
    <2>1. posting.event # Requested
      BY <1>4, PostingFacts, RetriesAssumption DEF IInv
    <2>2. \A n \in Counts : Message(n) \in waiting' <=> Message(n) \in waiting
      BY <1>4, <2>1, WaitingElsewhere
    <2>3. (\A n \in Counts : Rung(n) \in laddered' <=> Rung(n) \in laddered) /\ SameEnd
      BY <1>4, <2>1, ParkElsewhere DEF ParkTransient, ParkTerminal, SameEnd
    <2>4. SameCopies
      BY <2>2, <2>3 DEF SameCopies
    <2> QED
      BY <1>1, <1>2, <2>3, <2>4, RestKeeps
  <1> QED
    BY <1>3, <1>4 DEF NotifyNext, TakeOutcome, PostSucceeds, PostRefused, PostFails, FailPost,
       NotifierCrashes, ReceiverFails, ReceiverRecovers

-----------------------------------------------------------------------------
(* transcode. *)

(* The steps after a claim, when there was one. *)
Working == Encoding \union Cutting \union {"announce", "flush"}

(* An attempt that goes on, under the claim it has if any. *)
LEMMA GotoKeepsLadder ==
  ASSUME Sized, IInv, ClaimInv, NEW w \in Workers, NEW s \in Steps, Goto(w, s),
         UNCHANGED <<now, waiting, laddered, dead, faults, claimedAt>>,
         Busy(w), pc[w] \notin {"claim", "flush"}, s \notin {"idle", "lookMp4"},
         pc[w] \in Working => s \in Working,
         pc[w] = "lookMp4" => s = IF mp4 THEN "lookPlaylist" ELSE "claim",
         pc[w] # "lookMp4" => s \notin {"lookPlaylist", "claim"},
         pc[w] = "lookPlaylist" /\ playlist => s = "announce",
         pc[w] = "announce" => s = "flush",
         pc[w] \in Cutting => playlist \/ s \in Cutting,
         mp4 => mp4', playlist => playlist',
         mp4' => claimedAt # Never, playlist' => mp4',
         s = "copy" => mp4Scratch',
         mp4Scratch => mp4Scratch' \/ pc[w] = "delete",
         s = "copyPlaylist" => playlistScratch',
         playlistScratch => playlistScratch' \/ (pc[w] = "deletePlaylist" /\ playlist)
  PROVE  ClaimInv'
  <1> USE DEF Busy
  <1>1. /\ count' = count /\ since' = since /\ evicted' = evicted
        /\ \A v \in Workers : pc'[v] = IF v = w THEN s ELSE pc[v]
    BY ClaimTypes DEF Goto
  <1>2. /\ SinceIsClaim /\ ScratchThere /\ OwnersDiffer /\ RetriesWait
        /\ faults = 0 => NothingHappened
        /\ faults <= 1 =>
             NobodyEvicted /\ SomebodyEvicted /\ LostToNoClaimant /\ LastRetrySucceeds
    BY DEF ClaimInv, OneFault
  <1>3. \A v \in Workers : pc[v] \in Encoding => since[v] # Never
    BY DEF Sized, IInv, TranscodeInv, ClaimHeld
  <1>4. SinceIsClaim'
    BY <1>1, <1>2 DEF SinceIsClaim, Working
  <1>5. ScratchThere'
    <2>1. ASSUME NEW v \in Workers, pc'[v] = "copy"
          PROVE  mp4Scratch'
      <3>1. CASE v = w
        BY <1>1, <2>1, <3>1
      <3>2. CASE v # w
        <4>1. pc[v] = "copy"
          BY <1>1, <2>1, <3>2
        <4>2. pc[w] # "delete"
          BY <1>2, <1>3, <3>2, <4>1 DEF SinceIsClaim, Encoding
        <4> QED
          BY <1>2, <4>1, <4>2 DEF ScratchThere
      <3> QED
        BY <3>1, <3>2
    <2>2. ASSUME NEW v \in Workers, pc'[v] = "copyPlaylist"
          PROVE  playlistScratch' \/ playlist'
      BY <1>1, <1>2, <2>2 DEF ScratchThere
    <2> QED
      BY <2>1, <2>2 DEF ScratchThere
  <1>6. OwnersDiffer'
    BY <1>1, <1>2 DEF OwnersDiffer
  <1>7. RetriesWait'
    BY <1>1, <1>2 DEF RetriesWait, Due, Rung
  <1>8. /\ \A n \in Counts : InKafka(n)' <=> InKafka(n)
        /\ NoCopies' <=> NoCopies
        /\ OneCopy' <=> OneCopy
        /\ Early' <=> Early
    BY DEF InKafka, NoCopies, OneCopy, Early
  <1>9. ASSUME faults = 0
        PROVE  NothingHappened'
    <2>1. \A v \in Workers : Busy(v) => v = w
      BY <1>2, <1>9 DEF NothingHappened, OwnersDiffer
    <2>2. \A n \in Counts : ~InKafka(n)
      BY <1>2, <1>9 DEF NothingHappened
    <2>3. count[w] = 0 /\ ~evicted[w]
      BY <1>2, <1>9 DEF NothingHappened
    <2>4. s \in {"lookMp4", "claim"} => claimedAt = Never /\ now <= MaxBacklog
      BY <1>2, <1>9 DEF NothingHappened
    <2>5. s \notin {"lookMp4", "claim"} => since[w] # Never /\ claimedAt <= MaxBacklog
      BY <1>2, <1>9 DEF NothingHappened, ScratchThere
    <2>6. \A v \in Workers : ~evicted[v]
      BY <1>2, <1>9 DEF NothingHappened
    <2> QED
      BY <1>1, <1>8, <2>1, <2>2, <2>3, <2>4, <2>5, <2>6 DEF NothingHappened
  <1>10. ASSUME faults <= 1
         PROVE  NobodyEvicted'
    BY <1>1, <1>2, <1>8, <1>10 DEF NobodyEvicted, ScratchThere, Working, Encoding, Cutting
  <1>11. ASSUME faults <= 1
         PROVE  SomebodyEvicted'
    <2> SUFFICES ASSUME NEW d \in Workers, evicted[d]
                 PROVE  /\ count[d] = 0
                        /\ \A v \in Workers : evicted[v] => v = d
                        /\ IF since[d] = Never THEN EvictedEarly(d)' ELSE EvictedLate(d)'
      BY <1>1 DEF SomebodyEvicted
    <2>1. /\ count[d] = 0
          /\ \A v \in Workers : evicted[v] => v = d
          /\ IF since[d] = Never THEN EvictedEarly(d) ELSE EvictedLate(d)
      BY <1>2, <1>11 DEF SomebodyEvicted
    <2>2. {v \in Workers \ {d} : Busy(v)}' = {v \in Workers \ {d} : Busy(v)}
      BY <1>1
    <2>3. EvictedLate(d) => EvictedLate(d)'
      BY <1>8, <2>2 DEF EvictedLate
    <2>4. ASSUME since[d] = Never, EvictedEarly(d)
          PROVE  EvictedEarly(d)'
      <3>1. playlist /\ pc[d] # "claim" => playlist' /\ pc'[d] # "claim"
        BY <1>1, <1>2 DEF ScratchThere
      <3>2. ASSUME NEW v \in Workers \ {d}, Busy(v)
            PROVE  \/ /\ count[v] = 0 /\ pc'[v] \in {"lookMp4", "claim"} /\ NoCopies
                      /\ claimedAt = Never /\ now <= MaxBacklog
                   \/ count[v] = 0 /\ since[v] # Never /\ NoCopies
                   \/ /\ pc'[v] \in {"lookMp4", "lookPlaylist", "announce", "flush"}
                      /\ playlist' /\ pc'[d] # "claim"
        BY <1>1, <1>2, <2>4, <3>1, <3>2 DEF EvictedEarly, ScratchThere
      <3> QED
        BY <1>1, <1>8, <2>2, <2>4, <3>1, <3>2 DEF EvictedEarly
    <2> QED
      BY <2>1, <2>3, <2>4
  <1>12. ASSUME faults <= 1
         PROVE  LostToNoClaimant'
    <2> SUFFICES ASSUME NEW u \in Workers, NEW v \in Workers,
                        pc'[u] = "copyPlaylist", ~playlistScratch', pc'[v] = "claim"
                 PROVE  FALSE
      BY DEF LostToNoClaimant
    <2>1. u # w /\ pc[u] = "copyPlaylist"
      BY <1>1
    <2>2. CASE v = w
      BY <1>1, <1>2, <2>1, <2>2 DEF ScratchThere
    <2>3. CASE v # w
      <3>1. pc[v] = "claim" /\ pc[w] = "deletePlaylist"
        BY <1>1, <1>2, <1>12, <2>1, <2>3 DEF LostToNoClaimant
      <3> QED
        BY <1>2, <1>12, <2>1, <2>3, <3>1 DEF OwnersDiffer, SomebodyEvicted
    <2> QED
      BY <2>2, <2>3
  <1>13. ASSUME faults <= 1
         PROVE  LastRetrySucceeds'
    <2> SUFFICES ASSUME NEW v \in Workers, count[v] = Len(TierDelays)
                 PROVE  /\ pc'[v] = "claim" => Early
                        /\ pc'[v] = "copyPlaylist" => playlistScratch'
      BY <1>1, <1>8 DEF LastRetrySucceeds
    <2>1. ~evicted[v]
      BY <1>2, <1>13, SizedFacts DEF SomebodyEvicted
    <2>2. ASSUME pc'[v] = "claim", pc[v] # "claim"
          PROVE  Early
      <3>1. v = w /\ pc[v] = "lookMp4" /\ ~mp4 /\ ~playlist
        BY <1>1, <1>2, <2>2 DEF ScratchThere
      <3>2. since[v] = Never
        BY <1>2, <3>1 DEF SinceIsClaim, Encoding, Cutting
      <3>3. CASE \A d \in Workers : ~evicted[d]
        BY <1>2, <1>13, <3>1, <3>2, <3>3 DEF NobodyEvicted
      <3>4. ASSUME NEW d \in Workers, evicted[d]
            PROVE  Early
        <4>1. IF since[d] = Never THEN EvictedEarly(d) ELSE EvictedLate(d)
          BY <1>2, <1>13, <3>4 DEF SomebodyEvicted
        <4>2. v \in {u \in Workers \ {d} : Busy(u)}
          BY <2>1, <3>1, <3>4
        <4>3. CASE since[d] = Never
          BY <3>1, <4>1, <4>2, <4>3, SizedFacts DEF EvictedEarly
        <4>4. CASE since[d] # Never
          BY <4>1, <4>2, <4>4 DEF EvictedLate, Early
        <4> QED
          BY <4>3, <4>4
      <3> QED
        BY <3>3, <3>4
    <2>3. ASSUME pc'[v] = "copyPlaylist", v # w, pc[w] = "deletePlaylist"
          PROVE  FALSE
      <3>1. evicted[w] /\ pc[v] = "copyPlaylist"
        BY <1>1, <1>2, <2>1, <2>3 DEF OwnersDiffer
      <3>2. IF since[w] = Never THEN EvictedEarly(w) ELSE EvictedLate(w)
        BY <1>2, <1>13, <3>1 DEF SomebodyEvicted
      <3>3. v \in {u \in Workers \ {w} : Busy(u)}
        BY <2>3, <3>1
      <3>4. CASE since[w] = Never
        BY <3>1, <3>2, <3>3, <3>4, SizedFacts DEF EvictedEarly
      <3>5. CASE since[w] # Never
        <4>1. claimedAt <= MaxBacklog /\ now <= claimedAt + MaxWork
          BY <1>2, <3>2, <3>3, <3>5 DEF EvictedLate, SinceIsClaim
        <4>2. Due(Rung(Len(TierDelays))) <= now
          BY <1>2, SizedFacts DEF RetriesWait
        <4> QED
          BY <4>1, <4>2, SizedFacts, ClaimTypes
      <3> QED
        BY <3>4, <3>5
    <2> QED
      BY <1>1, <1>2, <1>13, <2>2, <2>3 DEF LastRetrySucceeds
  <1>14. faults' <= 1 => LadderOutlastsTheClaim'
    BY DEF ClaimInv, OneFault, LadderOutlastsTheClaim
  <1> QED
    BY <1>4, <1>5, <1>6, <1>7, <1>9, <1>10, <1>11, <1>12, <1>13, <1>14 DEF ClaimInv, OneFault

(* An attempt that is over, one way or another: its message is delivered     *)
(* again at most.                                                            *)
LEMMA IdleKeepsLevel1 ==
  ASSUME Sized, IInv, Level1, NEW w \in Workers, Busy(w), Idle(w),
         UNCHANGED <<now, claimedAt, storeVars>>,
         \A n \in Tiers : Message(n) \in waiting' => Message(n) \in waiting \/ n = count[w]
  PROVE  Level1'
  <1> USE DEF Busy, storeVars
  <1>1. \A v \in Workers :
          /\ pc'[v] = IF v = w THEN "idle" ELSE pc[v]
          /\ count'[v] = IF v = w THEN 0 ELSE count[v]
          /\ since'[v] = IF v = w THEN Never ELSE since[v]
          /\ evicted'[v] = IF v = w THEN FALSE ELSE evicted[v]
    BY ClaimTypes DEF Idle
  <1>2. Never' = Never
    BY DEF Never
  <1>3. SinceIsClaim'
    BY <1>1, <1>2 DEF Level1, SinceIsClaim
  <1>4. ScratchThere'
    BY <1>1, <1>2 DEF Level1, ScratchThere
  <1>5. OwnersDiffer'
    BY <1>1 DEF Level1, OwnersDiffer
  <1>6. RetriesWait'
    BY <1>1, SizedFacts DEF Level1, RetriesWait, Due, Rung
  <1> QED
    BY <1>3, <1>4, <1>5, <1>6 DEF Level1

(* An attempt that is done: the playlist is there, for whoever comes after.  *)
LEMMA FinishKeepsLadder ==
  ASSUME Sized, IInv, ClaimInv, NEW w \in Workers, Finish(w)
  PROVE  ClaimInv'
  <1> USE DEF Busy, storeVars
  <1>0. Busy(w) /\ Idle(w) /\ playlist
    BY DEF Finish, IInv, TranscodeInv, OutputsThere, HasPlaylist
  <1>1. UNCHANGED <<now, waiting, laddered, dead, faults, claimedAt, storeVars>>
    BY DEF Finish, ladderVars, clockVars, kafkaVars
  <1>2. \A v \in Workers :
          /\ pc'[v] = IF v = w THEN "idle" ELSE pc[v]
          /\ count'[v] = IF v = w THEN 0 ELSE count[v]
          /\ since'[v] = IF v = w THEN Never ELSE since[v]
          /\ evicted'[v] = IF v = w THEN FALSE ELSE evicted[v]
    BY <1>0, ClaimTypes DEF Idle
  <1>3. Level1'
    BY <1>0, <1>1, IdleKeepsLevel1 DEF ClaimInv, Level1
  <1>4. /\ \A n \in Counts : InKafka(n)' <=> InKafka(n)
        /\ NoCopies' <=> NoCopies
        /\ OneCopy' <=> OneCopy
        /\ Early' <=> Early
    BY <1>1 DEF InKafka, NoCopies, OneCopy, Early, Never
  <1>5. /\ SinceIsClaim /\ ScratchThere /\ OwnersDiffer /\ RetriesWait
        /\ faults = 0 => NothingHappened
        /\ faults <= 1 =>
             /\ NobodyEvicted /\ SomebodyEvicted /\ LostToNoClaimant /\ LastRetrySucceeds
             /\ LadderOutlastsTheClaim
    BY DEF ClaimInv, OneFault
  <1>6. Never' = Never
    BY DEF Never
  <1>7. faults = 0 => NothingHappened'
    BY <1>0, <1>1, <1>2, <1>4, <1>5, <1>6 DEF NothingHappened, OwnersDiffer
  <1>8. ASSUME faults <= 1
        PROVE  NobodyEvicted'
    <2> SUFFICES ASSUME \A v \in Workers : ~evicted'[v],
                        NEW u \in Workers, pc'[u] # "idle", since'[u] = Never
                 PROVE  /\ NoCopies \/ (playlist /\ pc[u] # "claim")
                        /\ pc[u] = "lookMp4" => mp4 \/ Early
                        /\ pc[u] = "claim" => Early
      BY <1>0, <1>1, <1>2, <1>4, <1>6 DEF NobodyEvicted
    <2>1. u # w /\ Busy(u) /\ since[u] = Never /\ ~evicted[u] /\ mp4 /\ claimedAt # Never
      BY <1>0, <1>2, <1>5, <1>6 DEF ScratchThere
    <2>2. evicted[w]
      BY <1>0, <1>5, <1>2, <2>1 DEF OwnersDiffer
    <2>3. IF since[w] = Never THEN EvictedEarly(w) ELSE EvictedLate(w)
      BY <1>5, <1>8, <2>2 DEF SomebodyEvicted
    <2>4. u \in {v \in Workers \ {w} : Busy(v)}
      BY <2>1
    <2>5. CASE since[w] = Never
      BY <1>0, <2>1, <2>3, <2>4, <2>5 DEF EvictedEarly
    <2>6. CASE since[w] # Never
      BY <2>3, <2>4, <2>6 DEF EvictedLate, Early
    <2> QED
      BY <2>5, <2>6
  <1>9. ASSUME faults <= 1
        PROVE  SomebodyEvicted'
    <2> SUFFICES ASSUME NEW d \in Workers, evicted'[d]
                 PROVE  /\ count'[d] = 0
                        /\ \A v \in Workers : evicted'[v] => v = d
                        /\ IF since'[d] = Never THEN EvictedEarly(d)' ELSE EvictedLate(d)'
      BY <1>6 DEF SomebodyEvicted
    <2>1. d # w /\ evicted[d] /\ count'[d] = count[d] /\ since'[d] = since[d] /\ pc'[d] = pc[d]
      BY <1>2
    <2>2. /\ count[d] = 0
          /\ \A v \in Workers : evicted[v] => v = d
          /\ IF since[d] = Never THEN EvictedEarly(d) ELSE EvictedLate(d)
      BY <1>5, <1>9, <2>1 DEF SomebodyEvicted
    <2>3. \A v \in Workers : evicted'[v] => v = d
      BY <1>2, <2>2
    <2>4. /\ w \in {v \in Workers \ {d} : Busy(v)}
          /\ \A v \in Workers \ {d} : pc'[v] = "idle"
      BY <1>0, <1>2, <1>5, <2>1, <2>2 DEF OwnersDiffer
    <2>5. {v \in Workers \ {d} : Busy(v)}' = {}
      BY <2>4
    <2>6. EvictedEarly(d) => EvictedEarly(d)'
      BY <1>0, <1>1, <1>4, <2>1, <2>4, <2>5 DEF EvictedEarly
    <2>7. EvictedLate(d) => EvictedLate(d)'
      BY <1>1, <1>4, <2>4, <2>5 DEF EvictedLate
    <2> QED
      BY <2>1, <2>2, <2>3, <2>6, <2>7
  <1>10. faults <= 1 => LostToNoClaimant' /\ LastRetrySucceeds'
    BY <1>1, <1>2, <1>4, <1>5, SizedFacts DEF LostToNoClaimant, LastRetrySucceeds
  <1> QED
    BY <1>1, <1>3, <1>5, <1>7, <1>8, <1>9, <1>10
       DEF ClaimInv, Level1, OneFault, LadderOutlastsTheClaim

(* Where the message of a failed attempt goes: to the tier after its count,  *)
(* or to the DLQ from the last.                                              *)
LEMMA RetriedFacts ==
  ASSUME IInv, NEW w \in Workers, FailTransient(w)
  PROVE  /\ waiting' = waiting /\ Idle(w)
         /\ count[w] # Len(TierDelays) =>
              /\ count[w] + 1 \in Tiers
              /\ laddered' = laddered \union {Rung(count[w] + 1)}
              /\ dead' = dead
         /\ count[w] = Len(TierDelays) => laddered' = laddered
  <1>1. count[w] \in Counts /\ Requested \in Laddered
    BY ClaimTypes, TranscodeAssumption
  <1>2. Leg(Message(count[w]), "TransientError") = IF count[w] >= Len(TierDelays) THEN DlqLeg
                                                   ELSE count[w] + 1
    BY <1>1 DEF Leg, Route, Classify, Message
  <1>3. CASE count[w] = Len(TierDelays)
    <2>1. Leg(Message(count[w]), "TransientError") = DlqLeg /\ DlqLeg \notin Tiers
      BY <1>2, <1>3, LadderFacts
    <2> QED
      BY <1>3, <2>1 DEF FailTransient, ParkTransient, Park
  <1>4. CASE count[w] # Len(TierDelays)
    <2>1. /\ Leg(Message(count[w]), "TransientError") = count[w] + 1
          /\ count[w] + 1 \in Tiers /\ count[w] + 1 # DlqLeg
      BY <1>1, <1>2, <1>4, LadderFacts
    <2> QED
      BY <1>4, <2>1 DEF FailTransient, ParkTransient, Park, Message, Rung
  <1> QED
    BY <1>3, <1>4

(* An attempt that is denied the claim, or finds its playlist's scratch used *)
(* up, after a fault.                                                        *)
LEMMA RetriedKeepsLadder ==
  ASSUME Sized, IInv, ClaimInv, NEW w \in Workers, FailTransient(w),
         UNCHANGED <<now, faults, claimedAt, storeVars>>,
         \/ pc[w] = "claim" /\ ~Stale(claimedAt)
         \/ pc[w] = "copyPlaylist" /\ ~playlistScratch
  PROVE  ClaimInv'
  <1> USE DEF Busy, storeVars
  <1>1. /\ Busy(w) /\ Idle(w) /\ waiting' = waiting
        /\ count[w] # Len(TierDelays) =>
             /\ count[w] + 1 \in Tiers
             /\ laddered' = laddered \union {Rung(count[w] + 1)}
             /\ dead' = dead
    BY RetriedFacts
  <1>2. \A v \in Workers :
          /\ pc'[v] = IF v = w THEN "idle" ELSE pc[v]
          /\ count'[v] = IF v = w THEN 0 ELSE count[v]
          /\ since'[v] = IF v = w THEN Never ELSE since[v]
          /\ evicted'[v] = IF v = w THEN FALSE ELSE evicted[v]
    BY <1>1, ClaimTypes DEF Idle
  <1>3. Level1'
    BY <1>1, IdleKeepsLevel1 DEF ClaimInv, Level1
  <1>4. /\ SinceIsClaim /\ ScratchThere /\ OwnersDiffer /\ RetriesWait
        /\ faults = 0 => NothingHappened
        /\ faults <= 1 =>
             /\ NobodyEvicted /\ SomebodyEvicted /\ LostToNoClaimant /\ LastRetrySucceeds
             /\ LadderOutlastsTheClaim
    BY DEF ClaimInv, OneFault
  <1>5. Never' = Never /\ (Early' <=> Early)
    BY DEF Never, Early
  <1>6. /\ pc[w] = "claim" => claimedAt # Never /\ now <= claimedAt + StaleAfter
        /\ pc[w] = "copyPlaylist" => playlist /\ mp4
    BY <1>4, ClaimTypes, SizedFacts DEF Stale, ScratchThere
  <1>7. faults # 0
    BY <1>4, <1>6, <1>1 DEF NothingHappened
  <1>8. CASE ~(faults <= 1)
    BY <1>3, <1>7, <1>8 DEF ClaimInv, Level1, OneFault
  <1>9. CASE faults <= 1
    <2>1. count[w] # Len(TierDelays)
      <3>1. ASSUME count[w] = Len(TierDelays), pc[w] = "claim"
            PROVE  FALSE
        <4>1. claimedAt <= MaxBacklog
          BY <1>4, <1>6, <1>9, <3>1 DEF LastRetrySucceeds, Early
        <4>2. Due(Rung(Len(TierDelays))) <= now
          BY <1>4, <3>1, SizedFacts DEF RetriesWait
        <4> QED
          BY <1>6, <3>1, <4>1, <4>2, SizedFacts, ClaimTypes
      <3> QED
        BY <1>4, <1>9, <3>1 DEF LastRetrySucceeds
    <2> DEFINE k == count[w] + 1
    <2>2. /\ k \in Tiers /\ k \in Counts /\ laddered' = laddered \union {Rung(k)}
          /\ dead' = dead
      BY <1>1, <2>1, SizedFacts
    <2>3. \A n \in Counts : InKafka(n)' <=> (InKafka(n) \/ n = k)
      BY <1>1, <2>2 DEF InKafka, Rung
    <2>4. NoCopies => OneCopy'
      BY <1>1, <2>2, <2>3 DEF NoCopies, OneCopy, InKafka
    <2>5. NobodyEvicted'
      <3> SUFFICES ASSUME \A v \in Workers : ~evicted'[v]
                   PROVE  /\ (\A v \in Workers : pc'[v] = "idle") =>
                               playlist \/ (OneCopy' /\ Early) \/ NoCopies'
                          /\ \A u \in Workers : pc'[u] # "idle" /\ since'[u] = Never =>
                               /\ playlist /\ pc'[u] # "claim"
                               /\ pc'[u] = "lookMp4" => mp4 \/ Early
                               /\ pc'[u] = "claim" => Early
        BY <1>5 DEF NobodyEvicted
      <3>1. CASE pc[w] = "copyPlaylist"
        BY <1>2, <1>4, <1>6, <1>9, <3>1 DEF LostToNoClaimant
      <3>2. CASE pc[w] = "claim"
        <4>1. since[w] = Never
          BY <1>4, <3>2 DEF SinceIsClaim, Encoding, Cutting
        <4>2. CASE ~evicted[w]
          <5>1. \A v \in Workers : ~evicted[v]
            BY <1>2, <4>2
          <5>2. NoCopies /\ Early
            BY <1>1, <1>4, <1>9, <3>2, <4>1, <5>1 DEF NobodyEvicted
          <5>3. \A v \in Workers : pc'[v] = "idle"
            BY <1>1, <1>2, <1>4, <5>1 DEF OwnersDiffer
          <5> QED
            BY <2>4, <5>2, <5>3
        <4>3. CASE evicted[w]
          <5>1. EvictedEarly(w)
            BY <1>4, <1>9, <4>1, <4>3 DEF SomebodyEvicted
          <5>2. \A u \in Workers \ {w} : Busy(u) => since[u] # Never
            BY <1>6, <3>2, <5>1 DEF EvictedEarly
          <5>3. CASE \A v \in Workers : pc'[v] = "idle"
            <6>1. {v \in Workers \ {w} : Busy(v)} = {}
              BY <1>2, <5>3
            <6>2. NoCopies
              BY <1>6, <3>2, <5>1 DEF EvictedEarly, NoCopies
            <6> QED
              BY <5>1, <5>3, <6>1, <6>2, <1>2 DEF EvictedEarly
          <5> QED
            BY <1>2, <5>2, <5>3
        <4> QED
          BY <4>2, <4>3
      <3> QED
        BY <3>1, <3>2
    <2>6. SomebodyEvicted'
      <3> SUFFICES ASSUME NEW d \in Workers, evicted'[d]
                   PROVE  /\ count'[d] = 0
                          /\ \A v \in Workers : evicted'[v] => v = d
                          /\ IF since'[d] = Never THEN EvictedEarly(d)' ELSE EvictedLate(d)'
        BY <1>5 DEF SomebodyEvicted
      <3>1. d # w /\ evicted[d] /\ count'[d] = count[d] /\ since'[d] = since[d] /\ pc'[d] = pc[d]
        BY <1>2
      <3>2. /\ count[d] = 0
            /\ \A v \in Workers : evicted[v] => v = d
            /\ IF since[d] = Never THEN EvictedEarly(d) ELSE EvictedLate(d)
        BY <1>4, <1>9, <3>1 DEF SomebodyEvicted
      <3>3. \A v \in Workers : evicted'[v] => v = d
        BY <1>2, <3>2
      <3>4. /\ w \in {v \in Workers \ {d} : Busy(v)}
            /\ \A v \in Workers \ {d} : pc'[v] = "idle"
        BY <1>1, <1>2, <1>4, <3>1, <3>2 DEF OwnersDiffer
      <3>5. {v \in Workers \ {d} : Busy(v)}' = {}
        BY <3>4
      <3>6. ASSUME EvictedEarly(d), since[d] = Never
            PROVE  EvictedEarly(d)'
        <4>1. pc[w] = "copyPlaylist"
          <5>1. pc[w] = "claim" => since[w] = Never
            BY <1>4 DEF SinceIsClaim, Encoding, Cutting
          <5> QED
            BY <1>6, <3>4, <3>6, <5>1 DEF EvictedEarly
        <4>2. playlist' /\ pc'[d] # "claim"
          BY <1>4, <1>6, <1>9, <3>1, <4>1 DEF LostToNoClaimant
        <4> QED
          BY <3>4, <3>5, <4>2 DEF EvictedEarly
      <3>7. EvictedLate(d) => EvictedLate(d)'
        BY <1>5, <2>4, <3>4, <3>5 DEF EvictedLate
      <3> QED
        BY <3>1, <3>2, <3>3, <3>6, <3>7
    <2>7. LostToNoClaimant' /\ LastRetrySucceeds'
      BY <1>2, <1>4, <1>5, <1>9, SizedFacts DEF LostToNoClaimant, LastRetrySucceeds
    <2>8. LadderOutlastsTheClaim'
      BY <1>4, <1>9, <2>2 DEF LadderOutlastsTheClaim
    <2> QED
      BY <1>3, <1>7, <2>5, <2>6, <2>7, <2>8 DEF ClaimInv, Level1, OneFault
  <1> QED
    BY <1>8, <1>9

(* An attempt that is granted the claim: no other one has a claim then.      *)
LEMMA GrantedKeepsLadder ==
  ASSUME Sized, IInv, ClaimInv, NEW w \in Workers, Claim(w), Stale(claimedAt)
  PROVE  ClaimInv'
  <1> USE DEF Busy, storeVars, kafkaVars, clockVars
  <1>1. /\ pc[w] = "claim" /\ claimedAt' = now
        /\ UNCHANGED <<now, waiting, laddered, dead, faults, storeVars, count, evicted>>
        /\ \A v \in Workers : /\ pc'[v] = IF v = w THEN "encode" ELSE pc[v]
                              /\ since'[v] = IF v = w THEN now ELSE since[v]
    BY ClaimTypes DEF Claim
  <1>2. /\ SinceIsClaim /\ ScratchThere /\ OwnersDiffer /\ RetriesWait
        /\ faults = 0 => NothingHappened
        /\ faults <= 1 =>
             /\ NobodyEvicted /\ SomebodyEvicted /\ LostToNoClaimant /\ LastRetrySucceeds
             /\ LadderOutlastsTheClaim
    BY DEF ClaimInv, OneFault
  <1>3. /\ Never' = Never /\ now # Never /\ now \in Nat /\ MaxWork \in Nat
        /\ now <= now + MaxWork
    BY ClaimTypes, SizedFacts DEF Never
  <1>4. \A v \in Workers : since[v] = Never
    <2> SUFFICES ASSUME NEW v \in Workers, since[v] # Never
                 PROVE  FALSE
      OBVIOUS
    <2>1. claimedAt # Never /\ now <= claimedAt + MaxWork
      BY <1>2 DEF SinceIsClaim
    <2>2. claimedAt + StaleAfter < now
      BY <2>1 DEF Stale
    <2> QED
      BY <2>1, <2>2, SizedFacts, ClaimTypes
  <1>5. SinceIsClaim'
    <2>1. SUFFICES ASSUME NEW v \in Workers, since'[v] # Never
          PROVE  /\ since'[v] = now /\ now' <= now + MaxWork
                 /\ pc'[v] = "encode"
                 /\ \A u \in Workers : since'[u] # Never => u = v
      BY <1>1, <1>3 DEF SinceIsClaim, Encoding
    <2> QED
      BY <1>1, <1>3, <1>4, <2>1
  <1>6. ScratchThere' /\ OwnersDiffer'
    BY <1>1, <1>2, <1>3 DEF ScratchThere, OwnersDiffer
  <1>7. RetriesWait'
    BY <1>1, <1>2 DEF RetriesWait, Due, Rung
  <1>8. /\ \A n \in Counts : InKafka(n)' <=> InKafka(n)
        /\ NoCopies' <=> NoCopies
        /\ OneCopy' <=> OneCopy
    BY <1>1 DEF InKafka, NoCopies, OneCopy
  <1>9. ASSUME faults = 0
        PROVE  NothingHappened'
    <2>1. \A v \in Workers : Busy(v) => v = w
      BY <1>1, <1>2, <1>9 DEF NothingHappened, OwnersDiffer
    <2>2. /\ count[w] = 0 /\ now <= MaxBacklog
          /\ \A n \in Counts : ~InKafka(n)
          /\ \A v \in Workers : ~evicted[v]
      BY <1>1, <1>2, <1>9 DEF NothingHappened
    <2> QED
      BY <1>1, <1>3, <1>8, <2>1, <2>2 DEF NothingHappened
  <1>10. ASSUME faults <= 1
         PROVE  NobodyEvicted'
    <2> SUFFICES ASSUME \A v \in Workers : ~evicted[v],
                        NEW u \in Workers, pc'[u] # "idle", since'[u] = Never
                 PROVE  FALSE
      BY <1>1, <1>3 DEF NobodyEvicted
    <2> QED
      BY <1>1, <1>2, <1>3 DEF OwnersDiffer
  <1>11. ASSUME faults <= 1
         PROVE  SomebodyEvicted'
    <2> SUFFICES ASSUME NEW d \in Workers, evicted[d]
                 PROVE  /\ count[d] = 0
                        /\ \A v \in Workers : evicted[v] => v = d
                        /\ IF since'[d] = Never THEN EvictedEarly(d)' ELSE EvictedLate(d)'
      BY <1>1, <1>3 DEF SomebodyEvicted
    <2>1. /\ count[d] = 0
          /\ \A v \in Workers : evicted[v] => v = d
          /\ EvictedEarly(d)
      BY <1>2, <1>4, <1>11 DEF SomebodyEvicted
    <2>2. {v \in Workers \ {d} : Busy(v)}' = {v \in Workers \ {d} : Busy(v)}
      BY <1>1
    <2>3. CASE d = w
      <3>1. {v \in Workers \ {d} : Busy(v)} # {} => NoCopies /\ now <= MaxBacklog
        BY <1>1, <1>4, <2>1, <2>3 DEF EvictedEarly
      <3>2. \A n \in Counts : InKafka(n) => n = 0 /\ Rung(n) \notin laddered /\ now <= MaxBacklog
        BY <1>1, <2>1, <2>3 DEF EvictedEarly
      <3>3. ~NoCopies => now <= MaxBacklog
        BY <3>2 DEF NoCopies
      <3>4. OneCopy
        BY <3>2 DEF OneCopy
      <3>5. EvictedLate(d)'
        BY <1>1, <1>8, <2>2, <3>1, <3>3, <3>4 DEF EvictedLate
      <3> QED
        BY <1>1, <1>3, <2>1, <2>3, <3>5
    <2>4. CASE d # w
      <3>1. w \in {v \in Workers \ {d} : Busy(v)}
        BY <1>1, <2>4
      <3>2. count[w] = 0 /\ NoCopies
        BY <1>1, <1>4, <2>1, <3>1 DEF EvictedEarly
      <3>3. {v \in Workers \ {d} : Busy(v)} = {w}
        BY <1>2, <2>1, <2>4, <3>1 DEF OwnersDiffer
      <3>4. EvictedEarly(d)'
        BY <1>1, <1>3, <1>8, <2>2, <3>2, <3>3 DEF EvictedEarly, NoCopies
      <3> QED
        BY <1>1, <1>4, <2>1, <2>4, <3>4
    <2> QED
      BY <2>3, <2>4
  <1>12. faults <= 1 => LostToNoClaimant'
    BY <1>1, <1>2 DEF LostToNoClaimant
  <1>13. ASSUME faults <= 1
         PROVE  LastRetrySucceeds'
    <2> SUFFICES ASSUME NEW u \in Workers, count[u] = Len(TierDelays), pc'[u] = "claim"
                 PROVE  FALSE
      BY <1>1, <1>2, <1>13 DEF LastRetrySucceeds
    <2>1. u # w /\ Busy(u) /\ pc[u] = "claim" /\ ~evicted[u]
      BY <1>1, <1>2, <1>13, SizedFacts DEF SomebodyEvicted
    <2>2. evicted[w]
      BY <1>1, <1>2, <2>1 DEF OwnersDiffer
    <2>3. EvictedEarly(w) /\ u \in {v \in Workers \ {w} : Busy(v)}
      BY <1>2, <1>4, <1>13, <2>1, <2>2 DEF SomebodyEvicted
    <2> QED
      BY <1>1, <2>3, SizedFacts DEF EvictedEarly
  <1>14. faults <= 1 => LadderOutlastsTheClaim'
    BY <1>1, <1>2 DEF LadderOutlastsTheClaim
  <1> QED
    BY <1>1, <1>5, <1>6, <1>7, <1>9, <1>10, <1>11, <1>12, <1>13, <1>14 DEF ClaimInv, OneFault

(* A message that is taken: whoever else is busy was evicted. *)
LEMMA TakeKeepsLadder ==
  ASSUME Sized, IInv, ClaimInv, NEW w \in Workers, NEW n \in Counts, Take(w, n)
  PROVE  ClaimInv'
  <1> USE DEF Busy, storeVars, clockVars
  <1>1. /\ ~Busy(w) /\ Message(n) \in waiting /\ waiting' = waiting \ {Message(n)}
        /\ \A v \in Workers : Busy(v) => evicted[v]
        /\ UNCHANGED <<now, laddered, dead, faults, claimedAt, storeVars, since, evicted>>
        /\ \A v \in Workers : /\ pc'[v] = IF v = w THEN "lookMp4" ELSE pc[v]
                              /\ count'[v] = IF v = w THEN n ELSE count[v]
    BY ClaimTypes DEF Take
  <1>2. /\ SinceIsClaim /\ ScratchThere /\ OwnersDiffer /\ RetriesWait
        /\ faults = 0 => NothingHappened
        /\ faults <= 1 =>
             /\ NobodyEvicted /\ SomebodyEvicted /\ LostToNoClaimant /\ LastRetrySucceeds
             /\ LadderOutlastsTheClaim
    BY DEF ClaimInv, OneFault
  <1>3. since[w] = Never /\ ~evicted[w]
    BY <1>1, <1>2 DEF SinceIsClaim, OwnersDiffer, Encoding, Cutting
  <1>4. /\ \A m \in Counts : Message(m) \in waiting' <=> Message(m) \in waiting /\ m # n
        /\ \A m \in Counts : InKafka(m)' => InKafka(m)
        /\ InKafka(n)
        /\ Never' = Never
        /\ Early' <=> Early
    BY <1>1 DEF Message, InKafka, Never, Early
  <1>5. /\ OneCopy => NoCopies'
        /\ OneCopy => OneCopy'
        /\ ~NoCopies
    BY <1>1, <1>4 DEF NoCopies, OneCopy, InKafka
  <1>6. SinceIsClaim' /\ ScratchThere' /\ OwnersDiffer'
    BY <1>1, <1>2, <1>3, <1>4 DEF SinceIsClaim, ScratchThere, OwnersDiffer
  <1>7. RetriesWait'
    BY <1>1, <1>2, <1>4, SizedFacts DEF RetriesWait, Due, Rung
  <1>8. faults = 0 => NothingHappened'
    <2> HAVE faults = 0
    <2>1. /\ \A m \in Counts : InKafka(m) => m = 0 /\ Rung(m) \notin laddered
          /\ n = 0 /\ claimedAt = Never /\ now <= MaxBacklog
          /\ \A v \in Workers : ~Busy(v) /\ ~evicted[v]
      BY <1>2, <1>4 DEF NothingHappened
    <2>2. \A m \in Counts : ~InKafka(m)'
      BY <1>1, <1>4, <2>1 DEF InKafka
    <2> QED
      BY <1>1, <1>4, <2>1, <2>2 DEF NothingHappened
  <1>9. faults <= 1 => NobodyEvicted'
    <2> HAVE faults <= 1
    <2> SUFFICES ASSUME \A v \in Workers : ~evicted[v]
                 PROVE  /\ NoCopies' \/ playlist
                        /\ mp4 \/ Early
      BY <1>1, <1>4 DEF NobodyEvicted
    <2> QED
      BY <1>1, <1>2, <1>5 DEF NobodyEvicted, ScratchThere
  <1>10. faults <= 1 => SomebodyEvicted'
    <2> HAVE faults <= 1
    <2> SUFFICES ASSUME NEW d \in Workers, evicted[d]
                 PROVE  /\ count'[d] = 0
                        /\ \A v \in Workers : evicted[v] => v = d
                        /\ IF since[d] = Never THEN EvictedEarly(d)' ELSE EvictedLate(d)'
      BY <1>1, <1>4 DEF SomebodyEvicted
    <2>1. /\ d # w /\ count'[d] = 0
          /\ \A v \in Workers : evicted[v] => v = d
          /\ IF since[d] = Never THEN EvictedEarly(d) ELSE EvictedLate(d)
      BY <1>1, <1>2, <1>3 DEF SomebodyEvicted
    <2>2. /\ {v \in Workers \ {d} : Busy(v)} = {}
          /\ {v \in Workers \ {d} : Busy(v)}' = {w}
      BY <1>1, <2>1
    <2>3. ASSUME EvictedEarly(d)
          PROVE  EvictedEarly(d)'
      <3>1. CASE playlist /\ pc[d] # "claim"
        BY <1>1, <2>1, <2>2, <3>1 DEF EvictedEarly
      <3>2. CASE ~(playlist /\ pc[d] # "claim")
        <4>1. /\ n = 0 /\ claimedAt = Never /\ now <= MaxBacklog
              /\ \A m \in Counts : InKafka(m) => m = 0 /\ Rung(m) \notin laddered
          BY <1>4, <2>3, <3>2 DEF EvictedEarly
        <4>2. NoCopies'
          BY <1>1, <1>4, <4>1 DEF NoCopies, InKafka
        <4> QED
          BY <1>1, <1>4, <2>2, <4>1, <4>2 DEF EvictedEarly, NoCopies
      <3> QED
        BY <3>1, <3>2
    <2>4. ASSUME EvictedLate(d)
          PROVE  EvictedLate(d)'
      BY <1>1, <1>5, <2>4 DEF EvictedLate
    <2> QED
      BY <2>1, <2>3, <2>4
  <1>11. faults <= 1 => LostToNoClaimant' /\ LastRetrySucceeds'
    BY <1>1, <1>2, <1>4 DEF LostToNoClaimant, LastRetrySucceeds
  <1>12. faults <= 1 => LadderOutlastsTheClaim'
    BY <1>1, <1>2 DEF LadderOutlastsTheClaim
  <1> QED
    BY <1>1, <1>6, <1>7, <1>8, <1>9, <1>10, <1>11, <1>12 DEF ClaimInv, OneFault

(* A call that fails, a source that is refused, a crash or an eviction: the  *)
(* first fault meets a rendition that nothing happened to yet.               *)
LEMMA FaultKeepsLadder ==
  ASSUME Sized, IInv, ClaimInv, NEW w \in Workers,
         CallFails(w) \/ EncodeRefused(w) \/ Crash(w) \/ Evict(w)
  PROVE  ClaimInv'
  <1> USE DEF Busy, storeVars, clockVars
  <1>1. /\ Busy(w) /\ faults' = faults + 1
        /\ UNCHANGED <<now, claimedAt, storeVars>>
    BY DEF CallFails, EncodeRefused, Crash, Evict, Fault
  <1>2. /\ SinceIsClaim /\ ScratchThere /\ OwnersDiffer /\ RetriesWait
        /\ faults = 0 => NothingHappened
        /\ faults <= 1 => LadderOutlastsTheClaim
    BY DEF ClaimInv, OneFault
  <1>3. count[w] \in Counts /\ (count[w] # 0 => count[w] \in Tiers) /\ Never' = Never
    BY ClaimTypes, SizedFacts DEF Never
  <1>4. \A n \in Counts : Message(n) \in {Message(count[w])} <=> n = count[w]
    BY DEF Message
  <1>5. ASSUME CallFails(w) \/ EncodeRefused(w) \/ Crash(w)
        PROVE  Level1' /\ Idle(w)
    <2>1. Idle(w) /\ waiting' \in {waiting, waiting \union {Message(count[w])}}
      BY <1>5 DEF CallFails, FailTransient, EncodeRefused, Crash
    <2>2. \A n \in Tiers : Message(n) \in waiting' => Message(n) \in waiting \/ n = count[w]
      BY <1>4, <2>1, SizedFacts
    <2> QED
      BY <1>1, <1>2, <2>1, <2>2, IdleKeepsLevel1 DEF Level1
  <1>6. ASSUME Evict(w)
        PROVE  Level1'
    <2>1. /\ \A v \in Workers : evicted'[v] = (IF v = w THEN TRUE ELSE evicted[v])
          /\ UNCHANGED <<pc, count, since>>
          /\ \A n \in Counts : Message(n) \in waiting' <=> Message(n) \in waiting \/ n = count[w]
      BY <1>4, <1>6, ClaimTypes DEF Evict
    <2>2. SinceIsClaim' /\ ScratchThere'
      BY <1>1, <1>2, <1>3, <2>1 DEF SinceIsClaim, ScratchThere
    <2>3. OwnersDiffer'
      BY <1>1, <1>2, <2>1 DEF OwnersDiffer
    <2>4. RetriesWait'
      BY <1>1, <1>2, <1>3, <2>1, SizedFacts DEF RetriesWait, Due, Rung
    <2> QED
      BY <2>2, <2>3, <2>4 DEF Level1
  <1>7. Level1'
    BY <1>5, <1>6
  <1>8. CASE faults # 0
    <2>1. ~(faults' <= 1) /\ faults' # 0
      BY <1>1, <1>8, ClaimTypes
    <2> QED
      BY <1>7, <2>1 DEF ClaimInv, Level1, OneFault
  <1>9. CASE faults = 0
    <2>1. /\ \A v \in Workers : ~evicted[v]
          /\ \A v \in Workers : Busy(v) => v = w
          /\ \A n \in Counts : Message(n) \notin waiting /\ Rung(n) \notin laddered
          /\ count[w] = 0
          /\ since[w] = Never => /\ pc[w] \in {"lookMp4", "claim"}
                                 /\ claimedAt = Never /\ now <= MaxBacklog
          /\ since[w] # Never => claimedAt <= MaxBacklog
          /\ pc[w] = "copyPlaylist" => playlistScratch
      <3>1. NothingHappened
        BY <1>2, <1>9
      <3>2. \A v \in Workers : Busy(v) => v = w
        BY <1>1, <1>2, <3>1 DEF NothingHappened, OwnersDiffer
      <3>3. \A n \in Counts : Message(n) \notin waiting /\ Rung(n) \notin laddered
        BY <1>1, <3>1 DEF NothingHappened, InKafka
      <3>4. since[w] # Never => pc[w] \notin {"lookMp4", "claim"}
        BY <1>2 DEF SinceIsClaim, Encoding, Cutting
      <3> QED
        BY <1>1, <3>1, <3>2, <3>3, <3>4 DEF NothingHappened
    <2>2. faults' = 1 /\ Early' /\ 0 \in Counts /\ Len(TierDelays) # 0
      BY <1>1, <1>3, <1>9, <2>1, SizedFacts DEF Early
    <2>3. ASSUME CallFails(w) \/ EncodeRefused(w) \/ Crash(w)
          PROVE  ClaimInv'
      <3>1. \A v \in Workers : pc'[v] = "idle" /\ ~evicted'[v]
        BY <1>5, <2>1, <2>3, ClaimTypes DEF Idle
      <3>2. OneCopy' /\ LadderOutlastsTheClaim'
        <4>1. CASE CallFails(w)
          <5>1. /\ waiting' = waiting /\ dead' = dead
                /\ laddered' = laddered \union {Rung(1)}
            BY <2>1, <2>2, <4>1, RetriedFacts DEF CallFails
          <5> QED
            BY <1>2, <1>9, <2>1, <5>1 DEF OneCopy, InKafka, LadderOutlastsTheClaim, Rung
        <4>2. CASE EncodeRefused(w)
          <5>1. /\ waiting' = waiting /\ laddered' = laddered
                /\ dead' \subseteq dead \union {[event |-> Requested, why |-> "refused"]}
            <6>1. Leg(Message(count[w]), "TerminalError") = DlqLeg /\ DlqLeg \notin Tiers
              BY LadderFacts DEF Leg, Route, Classify
            <6> QED
              BY <4>2, <6>1 DEF EncodeRefused, ParkTerminal, Park, Message
          <5> QED
            BY <1>2, <1>9, <2>1, <5>1 DEF OneCopy, InKafka, LadderOutlastsTheClaim
        <4>3. CASE Crash(w)
          <5>1. /\ waiting' = waiting \union {Message(0)} /\ dead' = dead /\ laddered' = laddered
            BY <2>1, <4>3 DEF Crash
          <5> QED
            BY <1>2, <1>9, <2>1, <5>1 DEF OneCopy, InKafka, LadderOutlastsTheClaim, Message
        <4> QED
          BY <2>3, <4>1, <4>2, <4>3
      <3>3. NobodyEvicted' /\ SomebodyEvicted' /\ LostToNoClaimant' /\ LastRetrySucceeds'
        BY <2>1, <2>2, <3>1, <3>2
           DEF NobodyEvicted, SomebodyEvicted, LostToNoClaimant, LastRetrySucceeds
      <3> QED
        BY <1>7, <2>2, <3>2, <3>3 DEF ClaimInv, Level1, OneFault
    <2>4. ASSUME Evict(w)
          PROVE  ClaimInv'
      <3>1. /\ \A v \in Workers : evicted'[v] = (v = w)
            /\ UNCHANGED <<pc, count, since, laddered, dead>>
            /\ \A n \in Counts : Message(n) \in waiting' <=> n = 0
        BY <1>4, <2>1, <2>4, ClaimTypes DEF Evict
      <3>2. \A n \in Counts : /\ InKafka(n)' <=> n = 0
                              /\ Rung(n) \notin laddered'
        BY <2>1, <3>1 DEF InKafka, Rung
      <3>3. OneCopy' /\ ~NoCopies'
        BY <2>2, <3>2 DEF OneCopy, NoCopies
      <3>4. {v \in Workers \ {w} : Busy(v)}' = {}
        BY <2>1, <3>1
      <3>5. since[w] = Never => EvictedEarly(w)'
        BY <1>1, <1>3, <2>1, <3>2, <3>3, <3>4 DEF EvictedEarly
      <3>6. since[w] # Never => EvictedLate(w)'
        BY <1>1, <2>1, <3>3, <3>4 DEF EvictedLate
      <3>7. SomebodyEvicted'
        BY <1>3, <2>1, <3>1, <3>5, <3>6 DEF SomebodyEvicted
      <3>8. NobodyEvicted'
        BY <3>1 DEF NobodyEvicted
      <3>9. LostToNoClaimant' /\ LastRetrySucceeds'
        BY <1>1, <2>1, <2>2, <3>1 DEF LostToNoClaimant, LastRetrySucceeds
      <3>10. LadderOutlastsTheClaim'
        BY <1>2, <1>9, <3>1 DEF LadderOutlastsTheClaim
      <3> QED
        BY <1>7, <2>2, <3>7, <3>8, <3>9, <3>10 DEF ClaimInv, Level1, OneFault
    <2> QED
      BY <2>3, <2>4
  <1> QED
    BY <1>8, <1>9

(* Every step of transcode. *)
LEMMA TranscodeKeepsLadder ==
  ASSUME Sized, IInv, ClaimInv, TranscodeNext
  PROVE  ClaimInv'
  <1> USE DEF clockVars, kafkaVars, ladderVars, storeVars, Busy
  <1>1. PICK w \in Workers :
          \/ \E n \in Counts : Take(w, n)
          \/ Handle(w)
          \/ CallFails(w) \/ EncodeRefused(w) \/ Crash(w) \/ Evict(w)
    BY DEF TranscodeNext
  <1>2. CASE Handle(w)
    <2>1. /\ pc[w] \in HasMp4 => mp4
          /\ pc[w] \in HasPlaylist => playlist
          /\ mp4 => claimedAt # Never
          /\ playlist => mp4
          /\ pc[w] = "copy" => mp4Scratch
          /\ pc[w] = "copyPlaylist" => playlistScratch \/ playlist
      BY DEF IInv, TranscodeInv, OutputsThere, ClaimInv, ScratchThere
    <2>2. pc[w] \in Encoding => claimedAt # Never
      BY DEF Sized, IInv, TranscodeInv, ClaimHeld
    <2> USE <2>1, <2>2 DEF HasMp4, HasPlaylist, Cutting, Encoding, Working, Steps
    <2>3. CASE LookMp4(w)
      BY <2>3, GotoKeepsLadder DEF LookMp4
    <2>4. CASE LookPlaylist(w)
      BY <2>4, GotoKeepsLadder DEF LookPlaylist
    <2>5. CASE Claim(w)
      <3>1. CASE Stale(claimedAt)
        BY <2>5, <3>1, GrantedKeepsLadder
      <3>2. CASE ~Stale(claimedAt)
        BY <2>5, <3>2, RetriedKeepsLadder DEF Claim
      <3> QED
        BY <3>1, <3>2
    <2>6. CASE Encode(w)
      BY <2>6, GotoKeepsLadder DEF Encode
    <2>7. CASE Upload(w)
      BY <2>7, GotoKeepsLadder DEF Upload
    <2>8. CASE Copy(w)
      BY <2>8, GotoKeepsLadder DEF Copy
    <2>9. CASE Delete(w)
      BY <2>9, GotoKeepsLadder DEF Delete
    <2>10. CASE Segments(w)
      BY <2>10, GotoKeepsLadder DEF Segments
    <2>11. CASE UploadPlaylist(w)
      BY <2>11, GotoKeepsLadder DEF UploadPlaylist
    <2>12. CASE CopyPlaylist(w)
      <3>1. CASE playlistScratch
        BY <2>12, <3>1, GotoKeepsLadder DEF CopyPlaylist
      <3>2. CASE ~playlistScratch
        BY <2>12, <3>2, RetriedKeepsLadder DEF CopyPlaylist
      <3> QED
        BY <3>1, <3>2
    <2>13. CASE DeletePlaylist(w)
      BY <2>13, GotoKeepsLadder DEF DeletePlaylist
    <2>14. CASE Announce(w)
      BY <2>14, GotoKeepsLadder DEF Announce
    <2>15. CASE Finish(w)
      BY <2>15, FinishKeepsLadder
    <2> QED
      BY <1>2, <2>3, <2>4, <2>5, <2>6, <2>7, <2>8, <2>9, <2>10, <2>11, <2>12, <2>13, <2>14, <2>15
         DEF Handle
  <1> QED
    BY <1>1, <1>2, TakeKeepsLadder, FaultKeepsLadder

(* The first state: the rendition's message waits, or it is not there. *)
LEMMA InitHoldsLadder ==
  ASSUME Sized, Init
  PROVE  ClaimInv
  <1> USE DEF Busy
  <1>1. PICK present \in {{Requested}, {Probed}, Outcomes} : LadderInit(present)
    BY DEF Init
  <1>2. /\ now = 0 /\ laddered = {} /\ dead = {} /\ faults = 0 /\ claimedAt = Never
        /\ \A n : Message(n) \in waiting => n = 0
        /\ ~mp4 /\ ~playlist
        /\ \A w \in Workers : /\ pc[w] = "idle" /\ count[w] = 0 /\ since[w] = Never /\ ~evicted[w]
    BY <1>1 DEF LadderInit, Message, Init, TranscodeInit
  <1>3. SinceIsClaim /\ ScratchThere /\ OwnersDiffer /\ RetriesWait
    BY <1>2, SizedFacts DEF SinceIsClaim, ScratchThere, OwnersDiffer, RetriesWait
  <1>4. NothingHappened
    BY <1>2, SizedFacts DEF NothingHappened, InKafka
  <1>5. OneCopy /\ Early
    BY <1>2 DEF OneCopy, InKafka, Early
  <1>6. NobodyEvicted /\ SomebodyEvicted /\ LostToNoClaimant /\ LastRetrySucceeds
    BY <1>2, <1>5, SizedFacts
       DEF NobodyEvicted, SomebodyEvicted, LostToNoClaimant, LastRetrySucceeds
  <1>7. LadderOutlastsTheClaim
    BY <1>2 DEF LadderOutlastsTheClaim
  <1> QED
    BY <1>3, <1>4, <1>6, <1>7 DEF ClaimInv, OneFault

(* Every step. *)
LEMMA NextKeepsLadder ==
  ASSUME Sized, IInv, ClaimInv, [Next]_vars
  PROVE  ClaimInv'
  <1>1. CASE UNCHANGED vars
    <2>1. UNCHANGED <<now, transcodeVars, waiting, laddered, dead, faults>> /\ faults \in Nat
      BY <1>1, ClaimTypes DEF vars, ladderVars, clockVars, kafkaVars
    <2> QED
      BY <2>1, RestKeeps DEF SameCopies, SameEnd
  <1> QED
    BY <1>1, TranscodeKeepsLadder, ThumbnailKeepsLadder, NotifyKeepsLadder, PumpKeepsLadder,
       TickKeepsLadder DEF Next

(* LadderOutlastsTheClaim: "5m clears the ladder's last hop"                 *)
(* (repository.py:178-179).  When the claim of an attempt that began in the  *)
(* backlog is stale by the time the last tier forwards, and an attempt's     *)
(* work is no longer than a claim, one crash, eviction or failing call does  *)
(* not use up a rendition's retries, with any number of workers and tiers.   *)
THEOREM LadderOutlastsTheClaimTheorem ==
  ASSUME Sized
  PROVE  Spec => []LadderOutlastsTheClaim
  <1>1. Init => ClaimInv
    BY InitHoldsLadder
  <1>2. IInv /\ ClaimInv /\ [Next]_vars => ClaimInv'
    BY NextKeepsLadder
  <1>3. ClaimInv => LadderOutlastsTheClaim
    BY DEF ClaimInv, OneFault, LadderOutlastsTheClaim
  <1> QED
    BY <1>1, <1>2, <1>3, Invariant, PTL DEF Spec
-----------------------------------------------------------------------------
(* No message gets lost: the safety half of AnnouncedInTheEnd,               *)
(* ThumbnailsInTheEnd and EveryOutcomeTold, without a bound on the faults.   *)

OnItsWay(e, g) ==
  \/ \E d \in waiting : d.event = e /\ d.group = g
  \/ \E c \in laddered : c.event = e

(* What happened to a message that can be told of it: it is done, it is on   *)
(* the DLQ, a copy of it is on a topic, or somebody who may commit it has    *)
(* it in hand.                                                               *)
RenditionKept ==
  \/ announced \/ GivenUp(Requested) \/ OnItsWay(Requested, "transcode")
  \/ \E w \in Workers : Busy(w) /\ ~evicted[w]

ThumbnailsKept ==
  \/ shown \/ GivenUp(Probed) \/ OnItsWay(Probed, "thumbnail")
  \/ \E w \in Thumbnailers : AtWork(w) /\ ~moved[w]

OutcomeKept(e) == e \in told \/ GivenUp(e) \/ OnItsWay(e, "notify")

OutcomesKept == \A e \in Outcomes : OutcomeKept(e)

(* Whoever is about to commit has announced; only who is at work is evicted. *)
CommitsFollow ==
  /\ \A w \in Workers : /\ pc[w] = "flush" => announced
                        /\ evicted[w] => Busy(w)
  /\ \A w \in Thumbnailers : /\ step[w] = "flush" => shown
                             /\ moved[w] => AtWork(w)

KeptInv == IInv /\ CommitsFollow

(* A failed copy is on the ladder or on the DLQ next, unless its topic has   *)
(* no ladder.                                                                *)
LEMMA ParkedIsKept ==
  ASSUME NEW d, d.count \in Counts, NEW g,
         NEW exc \in {"TransientError", "TerminalError", "Other"},
         NEW why \in {"exhausted", "refused", "unpumped"},
         Park(d, Leg(d, exc), why), Leg(d, exc) # Nowhere
  PROVE  GivenUp(d.event)' \/ OnItsWay(d.event, g)'
  <1>1. CASE Leg(d, exc) \in Tiers
    <2>1. [event |-> d.event, count |-> Leg(d, exc)] \in laddered'
      BY <1>1 DEF Park
    <2> QED
      BY <2>1 DEF OnItsWay
  <1>2. CASE Leg(d, exc) = DlqLeg
    <2>1. [event |-> d.event, why |-> why] \in dead'
      BY <1>2 DEF Park
    <2> QED
      BY <2>1 DEF GivenUp
  <1>3. Leg(d, exc) \in Tiers \/ Leg(d, exc) = DlqLeg
    BY LadderFacts DEF Leg, Route, Classify
  <1> QED
    BY <1>1, <1>2, <1>3

(* A topic with a ladder has a place for every failed copy. *)
LEMMA LadderedLeg ==
  ASSUME NEW d, d.count \in Counts,
         NEW exc \in {"TransientError", "TerminalError", "Other"},
         d.event \in Laddered \/ exc = "TerminalError"
  PROVE  Leg(d, exc) # Nowhere
  BY LadderFacts DEF Leg, Route, Classify

(* What is there stays there as long as nothing of it is taken. *)
LEMMA GrowingKeeps ==
  ASSUME NEW e, NEW g, dead \subseteq dead', laddered \subseteq laddered',
         \A d \in waiting : d.event = e /\ d.group = g => d \in waiting'
  PROVE  /\ GivenUp(e) => GivenUp(e)'
         /\ OnItsWay(e, g) => OnItsWay(e, g)'
  BY DEF GivenUp, OnItsWay

(* The pump's steps: the copy it forwards waits for every group, ... *)
LEMMA PumpKeepsOnItsWay ==
  ASSUME LadderInv, Pump, NEW e, NEW g, g \in Readers[e],
         GivenUp(e) \/ OnItsWay(e, g)
  PROVE  GivenUp(e)' \/ OnItsWay(e, g)'
  <1>1. CASE PumpTakes \/ PumpDies
    <2>1. dead' = dead /\ laddered' = laddered /\ waiting \subseteq waiting'
      BY <1>1 DEF PumpTakes, PumpDies, kafkaVars
    <2> QED
      BY <2>1, GrowingKeeps
  <1>2. CASE PumpForwards \/ PumpFails
    <2>1. /\ Awake /\ dead \subseteq dead' /\ waiting \subseteq waiting'
          /\ laddered \ {pump.copy} \subseteq laddered'
      BY <1>2 DEF PumpForwards, PumpFails
    <2>2. CASE GivenUp(e) \/ \E d \in waiting : d.event = e /\ d.group = g
      BY <2>1, <2>2 DEF GivenUp, OnItsWay
    <2>3. CASE \E c \in laddered \ {pump.copy} : c.event = e
      BY <2>1, <2>3 DEF OnItsWay
    <2>4. CASE pump.copy.event = e /\ PumpForwards
      <3>1. [group |-> g, event |-> e, count |-> pump.copy.count] \in waiting'
        BY <2>4 DEF PumpForwards, Delivered
      <3> QED
        BY <3>1 DEF OnItsWay
    <2>5. CASE pump.copy.event = e /\ PumpFails
      <3>1. pump.copy \in OnLadder
        BY <2>1, DeliveredFacts
      <3>2. pump.copy.count \in Counts /\ pump.copy.event \in Laddered
        BY <3>1, LadderFacts DEF OnLadder
      <3>3. Leg(pump.copy, "Other") \in Tiers \/ Leg(pump.copy, "Other") = DlqLeg
        BY <3>2, LadderFacts DEF Leg, Route, Classify
      <3>4. CASE Leg(pump.copy, "Other") \in Tiers
        <4>1. [event |-> e, count |-> Leg(pump.copy, "Other")] \in laddered'
          BY <2>5, <3>4 DEF PumpFails
        <4> QED
          BY <4>1 DEF OnItsWay
      <3>5. CASE Leg(pump.copy, "Other") = DlqLeg
        <4>1. [event |-> e, why |-> "unpumped"] \in dead'
          BY <2>5, <3>5 DEF PumpFails
        <4> QED
          BY <4>1 DEF GivenUp
      <3> QED
        BY <3>3, <3>4, <3>5
    <2> QED
      BY <1>2, <2>2, <2>3, <2>4, <2>5 DEF OnItsWay
  <1> QED
    BY <1>1, <1>2 DEF Pump

(* ... so it loses none of the three. *)
LEMMA PumpKeepsAll ==
  ASSUME KeptInv, Pump, UNCHANGED <<transcodeVars, thumbnailVars, notifyVars>>
  PROVE  /\ RenditionKept => RenditionKept'
         /\ ThumbnailsKept => ThumbnailsKept'
         /\ OutcomesKept => OutcomesKept'
  <1>1. LadderInv
    BY DEF KeptInv, IInv
  <1>2. /\ "transcode" \in Readers[Requested] /\ "thumbnail" \in Readers[Probed]
        /\ \A e \in Outcomes : "notify" \in Readers[e]
    BY TranscodeAssumption, ThumbnailAssumption, NotifyAssumption
  <1>3. RenditionKept => RenditionKept'
    BY <1>1, <1>2, PumpKeepsOnItsWay
       DEF RenditionKept, transcodeVars, workerVars, Busy
  <1>4. ThumbnailsKept => ThumbnailsKept'
    BY <1>1, <1>2, PumpKeepsOnItsWay
       DEF ThumbnailsKept, thumbnailVars, memberVars, AtWork
  <1>5. OutcomesKept => OutcomesKept'
    BY <1>1, <1>2, PumpKeepsOnItsWay DEF OutcomesKept, OutcomeKept, notifyVars
  <1> QED
    BY <1>3, <1>4, <1>5

(* A step of transcode gives nothing back that it has published. *)
LEMMA TranscodeGrows ==
  ASSUME TranscodeNext
  PROVE  /\ dead \subseteq dead' /\ laddered \subseteq laddered'
         /\ announced => announced'
         /\ \A d \in waiting : d.event # Requested => d \in waiting'
         /\ waiting \subseteq waiting' \/ \E w \in Workers, n \in Counts : Take(w, n)
  <1>1. PICK w \in Workers :
          \/ \E n \in Counts : Take(w, n)
          \/ Handle(w)
          \/ CallFails(w) \/ EncodeRefused(w) \/ Crash(w) \/ Evict(w)
    BY DEF TranscodeNext
  <1>2. ASSUME NEW n \in Counts, Take(w, n)
        PROVE  /\ UNCHANGED <<dead, laddered, announced>>
               /\ \A d \in waiting : d.event # Requested => d \in waiting'
    BY <1>2 DEF Take, Message
  <1>3. CASE Handle(w)
    BY <1>3 DEF Handle, LookMp4, LookPlaylist, Claim, Encode, Upload, Copy, Delete, Segments,
       UploadPlaylist, CopyPlaylist, DeletePlaylist, Announce, Finish, FailTransient,
       ParkTransient, Park, ladderVars, kafkaVars, clockVars
  <1>4. CASE CallFails(w) \/ EncodeRefused(w) \/ Crash(w) \/ Evict(w)
    BY <1>4 DEF CallFails, EncodeRefused, Crash, Evict, FailTransient,
       ParkTransient, ParkTerminal, Park
  <1> QED
    BY <1>1, <1>2, <1>3, <1>4

(* A worker that is done with its message has announced, or the message is   *)
(* on a topic again; one that goes on still has it.                          *)
LEMMA TranscodeKeepsRendition ==
  ASSUME KeptInv, TranscodeNext, RenditionKept
  PROVE  RenditionKept'
  <1>1. TranscodeTypeOK
    BY DEF KeptInv, IInv, TranscodeInv
  <1>2. CASE announced \/ GivenUp(Requested) \/ \E c \in laddered : c.event = Requested
    BY <1>2, TranscodeGrows DEF RenditionKept, GivenUp, OnItsWay
  <1>3. ASSUME NEW w \in Workers, NEW n \in Counts, Take(w, n)
        PROVE  RenditionKept'
    <2>1. ~evicted[w]
      BY <1>3 DEF KeptInv, CommitsFollow, Take
    <2>2. pc'[w] = "lookMp4" /\ ~evicted'[w]
      BY <1>1, <1>3, <2>1 DEF Take, TranscodeTypeOK
    <2> QED
      BY <2>2 DEF RenditionKept, Busy
  <1>4. CASE \E d \in waiting : d.event = Requested /\ d.group = "transcode"
    BY <1>3, <1>4, TranscodeGrows DEF RenditionKept, OnItsWay
  <1>5. ASSUME NEW v \in Workers, Busy(v), ~evicted[v]
        PROVE  RenditionKept'
    <2>1. PICK w \in Workers :
            \/ Handle(w)
            \/ CallFails(w) \/ EncodeRefused(w) \/ Crash(w) \/ Evict(w)
            \/ \E n \in Counts : Take(w, n)
      BY DEF TranscodeNext
    <2>2. CASE \E n \in Counts : Take(w, n)
      BY <1>3, <2>2
    <2>3. /\ count[v] \in Counts /\ Message(count[v]).event = Requested
          /\ Message(count[v]).count = count[v]
          /\ Message(count[v]).group = "transcode" /\ Requested \in Laddered
      BY <1>1, TranscodeAssumption DEF TranscodeTypeOK, Message
    <2>4. CASE w = v /\ FailTransient(w)
      BY <2>3, <2>4, ParkedIsKept, LadderedLeg
         DEF FailTransient, ParkTransient, RenditionKept
    <2>5. CASE w = v /\ EncodeRefused(w)
      BY <2>3, <2>5, ParkedIsKept, LadderedLeg
         DEF EncodeRefused, ParkTerminal, RenditionKept
    <2>6. CASE w = v /\ (Crash(w) \/ Evict(w))
      <3>1. Message(count[v]) \in waiting'
        BY <1>5, <2>6 DEF Crash, Evict
      <3> QED
        BY <2>3, <3>1 DEF RenditionKept, OnItsWay
    <2>7. CASE w = v /\ Finish(w)
      BY <2>7, TranscodeGrows DEF KeptInv, CommitsFollow, Finish, RenditionKept
    <2>8. CASE w # v \/ \E s \in Steps \ {"idle"} : Goto(w, s)
      <3>1. CASE w # v
        <4>1. pc'[v] = pc[v] /\ evicted'[v] = evicted[v]
          <5>1. CASE Idle(w)
            BY <1>1, <3>1, <5>1 DEF Idle, TranscodeTypeOK
          <5>2. CASE \E s \in Steps : Goto(w, s)
            BY <1>1, <3>1, <5>2 DEF Goto, TranscodeTypeOK
          <5>3. CASE Evict(w)
            BY <1>1, <3>1, <5>3 DEF Evict, TranscodeTypeOK
          <5>4. CASE \E n \in Counts : Take(w, n)
            BY <1>1, <3>1, <5>4 DEF Take, TranscodeTypeOK
          <5>5. CASE Claim(w) /\ Stale(claimedAt)
            BY <1>1, <3>1, <5>5 DEF Claim, TranscodeTypeOK
          <5> QED
            BY <2>1, <5>1, <5>2, <5>3, <5>4, <5>5
               DEF Handle, LookMp4, LookPlaylist, Claim, Encode, Upload, Copy, Delete, Segments,
                   UploadPlaylist, CopyPlaylist, DeletePlaylist, Announce, Finish, FailTransient,
                   CallFails, EncodeRefused, Crash, Steps, Encoding, Cutting
        <4> QED
          BY <1>5, <4>1 DEF RenditionKept, Busy
      <3>2. ASSUME w = v, NEW s \in Steps \ {"idle"}, Goto(w, s)
            PROVE  RenditionKept'
        <4>1. pc'[v] = s /\ evicted'[v] = evicted[v]
          BY <1>1, <3>2 DEF Goto, TranscodeTypeOK
        <4> QED
          BY <1>5, <4>1 DEF RenditionKept, Busy
      <3> QED
        BY <2>8, <3>1, <3>2
    <2>9. CASE w = v /\ Claim(w) /\ Stale(claimedAt)
      <3>1. pc'[v] = "encode" /\ evicted'[v] = evicted[v]
        BY <1>1, <2>9 DEF Claim, TranscodeTypeOK
      <3> QED
        BY <1>5, <3>1 DEF RenditionKept, Busy
    <2> QED
      BY <2>1, <2>2, <2>4, <2>5, <2>6, <2>7, <2>8, <2>9
         DEF Handle, LookMp4, LookPlaylist, Claim, Encode, Upload, Copy, Delete, Segments,
             UploadPlaylist, CopyPlaylist, DeletePlaylist, Announce, CallFails,
             Steps, Encoding, Cutting
  <1> QED
    BY <1>2, <1>4, <1>5 DEF RenditionKept, OnItsWay

(* The same of thumbnail and, where it stands beside it, the packager. *)
LEMMA ThumbnailGrows ==
  ASSUME ThumbnailNext
  PROVE  /\ dead \subseteq dead' /\ laddered \subseteq laddered'
         /\ shown => shown'
         /\ \A d \in waiting : d.event # Probed => d \in waiting'
         /\ \/ \A d \in waiting : d.group = "thumbnail" => d \in waiting'
            \/ \E w \in Thumbnailers, n \in Counts : TakeProbed(w, n)
  <1>1. CASE PackagerTakes
    BY <1>1 DEF PackagerTakes, ParkTransient, Park, thumbnailVars
  <1>2. ASSUME NEW w \in Thumbnailers, NEW n \in Counts, TakeProbed(w, n)
        PROVE  /\ UNCHANGED <<dead, laddered, shown>>
               /\ \A d \in waiting : d.event # Probed => d \in waiting'
    BY <1>2 DEF TakeProbed, ToMessage
  <1>3. ASSUME NEW w \in Thumbnailers, HandleProbed(w)
        PROVE  /\ dead \subseteq dead' /\ laddered \subseteq laddered'
               /\ shown => shown'
               /\ waiting' = waiting
    BY <1>3 DEF HandleProbed, Look, Make, CopyPiece, DeletePiece, AnnounceThumbnails,
       FinishProbed, FailProbed, ParkTransient, Park, ladderVars, kafkaVars
  <1>4. ASSUME NEW w \in Thumbnailers,
               \/ ThumbnailFails(w) \/ ThumbnailRefused(w)
               \/ ThumbnailerCrashes(w) \/ ThumbnailerEvicted(w)
        PROVE  /\ dead \subseteq dead' /\ laddered \subseteq laddered'
               /\ shown' = shown /\ waiting \subseteq waiting'
    BY <1>4 DEF ThumbnailFails, ThumbnailRefused, ThumbnailerCrashes, ThumbnailerEvicted,
       FailProbed, ParkTransient, ParkTerminal, Park
  <1> QED
    BY <1>1, <1>2, <1>3, <1>4 DEF ThumbnailNext

(* Likewise of the members of the thumbnail group. *)
LEMMA ThumbnailKeepsThumbnails ==
  ASSUME KeptInv, ThumbnailNext, ThumbnailsKept
  PROVE  ThumbnailsKept'
  <1>1. ThumbnailTypeOK
    BY DEF KeptInv, IInv, ThumbnailInv
  <1>2. CASE shown \/ GivenUp(Probed) \/ \E c \in laddered : c.event = Probed
    BY <1>2, ThumbnailGrows DEF ThumbnailsKept, GivenUp, OnItsWay
  <1>3. ASSUME NEW w \in Thumbnailers, NEW n \in Counts, TakeProbed(w, n)
        PROVE  ThumbnailsKept'
    <2>1. ~moved[w]
      BY <1>3 DEF KeptInv, CommitsFollow, TakeProbed
    <2>2. step'[w] = "look" /\ ~moved'[w]
      BY <1>1, <1>3, <2>1 DEF TakeProbed, ThumbnailTypeOK
    <2> QED
      BY <2>2 DEF ThumbnailsKept, AtWork
  <1>4. CASE \E d \in waiting : d.event = Probed /\ d.group = "thumbnail"
    BY <1>3, <1>4, ThumbnailGrows DEF ThumbnailsKept, OnItsWay
  <1>5. ASSUME NEW v \in Thumbnailers, AtWork(v), ~moved[v]
        PROVE  ThumbnailsKept'
    <2>1. CASE PackagerTakes
      BY <1>5, <2>1 DEF PackagerTakes, thumbnailVars, memberVars, ThumbnailsKept, AtWork
    <2>2. ASSUME NEW w \in Thumbnailers,
                 \/ \E n \in Counts : TakeProbed(w, n)
                 \/ HandleProbed(w)
                 \/ ThumbnailFails(w) \/ ThumbnailRefused(w)
                 \/ ThumbnailerCrashes(w) \/ ThumbnailerEvicted(w)
          PROVE  ThumbnailsKept'
      <3>1. \/ Over(w) \/ ThumbnailerEvicted(w) \/ \E n \in Counts : TakeProbed(w, n)
            \/ \E s \in {"look", "make", "copy", "delete", "announce", "flush"} :
                 \E p : GoTo(w, s, p)
        BY <2>2 DEF HandleProbed, Look, Make, CopyPiece, DeletePiece, AnnounceThumbnails,
           FinishProbed, FailProbed, ThumbnailFails, ThumbnailRefused, ThumbnailerCrashes
      <3>2. CASE \E n \in Counts : TakeProbed(w, n)
        BY <1>3, <3>2
      <3>3. CASE w # v
        <4>1. step'[v] = step[v] /\ moved'[v] = moved[v]
          BY <1>1, <3>1, <3>3 DEF Over, GoTo, ThumbnailerEvicted, TakeProbed, ThumbnailTypeOK
        <4> QED
          BY <1>5, <4>1 DEF ThumbnailsKept, AtWork
      <3>4. ASSUME w = v, NEW s \in {"look", "make", "copy", "delete", "announce", "flush"},
                   NEW p, GoTo(w, s, p)
            PROVE  ThumbnailsKept'
        <4>1. step'[v] = s /\ moved'[v] = moved[v]
          BY <1>1, <3>4 DEF GoTo, ThumbnailTypeOK
        <4> QED
          BY <1>5, <4>1 DEF ThumbnailsKept, AtWork
      <3>5. /\ held[v] \in Counts /\ ToMessage(held[v]).event = Probed
            /\ ToMessage(held[v]).count = held[v]
            /\ ToMessage(held[v]).group = "thumbnail" /\ Probed \in Laddered
        BY <1>1, ThumbnailAssumption DEF ThumbnailTypeOK, ToMessage
      <3>6. CASE w = v /\ FailProbed(w)
        BY <3>5, <3>6, ParkedIsKept, LadderedLeg DEF FailProbed, ParkTransient, ThumbnailsKept
      <3>7. CASE w = v /\ ThumbnailRefused(w)
        BY <3>5, <3>7, ParkedIsKept, LadderedLeg
           DEF ThumbnailRefused, ParkTerminal, ThumbnailsKept
      <3>8. CASE w = v /\ (ThumbnailerCrashes(w) \/ ThumbnailerEvicted(w))
        <4>1. ToMessage(held[v]) \in waiting'
          BY <1>5, <3>8 DEF ThumbnailerCrashes, ThumbnailerEvicted
        <4> QED
          BY <3>5, <4>1 DEF ThumbnailsKept, OnItsWay
      <3>9. CASE w = v /\ FinishProbed(w)
        BY <3>9, ThumbnailGrows DEF KeptInv, CommitsFollow, FinishProbed, ThumbnailsKept
      <3> QED
        BY <2>2, <3>1, <3>2, <3>3, <3>4, <3>6, <3>7, <3>8, <3>9
           DEF HandleProbed, Look, Make, CopyPiece, DeletePiece, AnnounceThumbnails,
               ThumbnailFails
    <2> QED
      BY <2>1, <2>2 DEF ThumbnailNext
  <1> QED
    BY <1>2, <1>4, <1>5 DEF ThumbnailsKept, OnItsWay

(* An outcome stays on its topic until the receiver has acted on it, or the  *)
(* ladder or the DLQ has a copy.                                             *)
LEMMA NotifyKeepsOutcomes ==
  ASSUME KeptInv, NotifyNext, NEW e \in Outcomes, OutcomeKept(e)
  PROVE  OutcomeKept(e)'
  <1>1. /\ posting # NoCopy => posting \in waiting /\ posting.event \in Outcomes
        /\ \A d \in waiting : d.count \in Counts
    BY DEF KeptInv, IInv, LadderInv, LadderTypeOK, NotifyInv, NotifyTypeOK, OutageFollows
  <1>2. CASE UNCHANGED <<waiting, laddered, dead>> /\ told \subseteq told'
    BY <1>2 DEF OutcomeKept, GivenUp, OnItsWay
  <1>3. ASSUME posting # NoCopy, waiting' = waiting \ {posting}, told \subseteq told',
               \/ UNCHANGED <<laddered, dead>> /\ posting.event \in told'
               \/ ParkTransient(posting) /\ Leg(posting, "TransientError") # Nowhere
               \/ ParkTerminal(posting)
        PROVE  OutcomeKept(e)'
    <2>1. dead \subseteq dead' /\ laddered \subseteq laddered'
      BY <1>3 DEF ParkTransient, ParkTerminal, Park
    <2>2. CASE posting.event = e
      <3>1. Leg(posting, "TerminalError") # Nowhere
        BY <1>1, <1>3, LadderedLeg
      <3> QED
        BY <1>1, <1>3, <2>2, <3>1, ParkedIsKept
           DEF ParkTransient, ParkTerminal, OutcomeKept
    <2>3. CASE posting.event # e
      <3>1. \A d \in waiting : d.event = e /\ d.group = "notify" => d \in waiting'
        BY <1>3, <2>3
      <3> QED
        BY <1>3, <2>1, <3>1, GrowingKeeps DEF OutcomeKept
    <2> QED
      BY <2>2, <2>3
  <1> QED
    BY <1>2, <1>3
       DEF NotifyNext, TakeOutcome, PostSucceeds, PostRefused, PostFails, FailPost,
           NotifierCrashes, ReceiverFails, ReceiverRecovers, ladderVars, kafkaVars

(* Whoever commits has announced before, and who is idle was not evicted. *)
LEMMA CommitsStillFollow ==
  ASSUME KeptInv, [Next]_vars
  PROVE  CommitsFollow'
  <1>1. TranscodeTypeOK /\ ThumbnailTypeOK /\ CommitsFollow
    BY DEF KeptInv, IInv, TranscodeInv, ThumbnailInv
  <1>2. CASE TranscodeNext /\ UNCHANGED <<thumbnailVars, notifyVars>>
    <2>1. PICK w \in Workers :
            \/ Handle(w)
            \/ CallFails(w) \/ EncodeRefused(w) \/ Crash(w) \/ Evict(w)
            \/ \E n \in Counts : Take(w, n)
      BY <1>2 DEF TranscodeNext
    <2>2. \/ Idle(w) \/ Evict(w) \/ (\E n \in Counts : Take(w, n)) \/ Announce(w)
          \/ \E s \in Steps \ {"idle", "flush"} : Goto(w, s)
          \/ pc' = [pc EXCEPT ![w] = "encode"] /\ evicted' = evicted
      BY <2>1
         DEF Handle, LookMp4, LookPlaylist, Claim, Encode, Upload, Copy, Delete, Segments,
             UploadPlaylist, CopyPlaylist, DeletePlaylist, Finish, FailTransient,
             CallFails, EncodeRefused, Crash, Steps, Encoding, Cutting
    <2>3. announced => announced'
      BY <1>2, TranscodeGrows
    <2>4. \A v \in Workers : v # w => pc'[v] = pc[v] /\ evicted'[v] = evicted[v]
      BY <1>1, <2>2 DEF Idle, Evict, Take, Announce, Goto, TranscodeTypeOK
    <2>5. /\ pc'[w] = "flush" => announced'
          /\ evicted'[w] => pc'[w] # "idle"
      <3>1. CASE Idle(w)
        BY <1>1, <3>1 DEF Idle, TranscodeTypeOK
      <3>2. CASE Evict(w)
        BY <1>1, <3>2 DEF Evict, Busy, CommitsFollow
      <3>3. CASE \E n \in Counts : Take(w, n)
        BY <1>1, <3>3 DEF Take, TranscodeTypeOK
      <3>4. CASE Announce(w)
        BY <1>1, <3>4 DEF Announce, Goto, TranscodeTypeOK
      <3>5. CASE \E s \in Steps \ {"idle", "flush"} : Goto(w, s)
        BY <1>1, <3>5 DEF Goto, TranscodeTypeOK
      <3>6. CASE pc' = [pc EXCEPT ![w] = "encode"] /\ evicted' = evicted
        BY <1>1, <3>6 DEF TranscodeTypeOK
      <3> QED
        BY <2>2, <3>1, <3>2, <3>3, <3>4, <3>5, <3>6
    <2> QED
      BY <1>1, <1>2, <2>3, <2>4, <2>5
         DEF CommitsFollow, Busy, AtWork, thumbnailVars, memberVars
  <1>3. CASE ThumbnailNext /\ UNCHANGED <<transcodeVars, notifyVars>>
    <2>1. CASE PackagerTakes
      BY <1>1, <1>3, <2>1
         DEF PackagerTakes, CommitsFollow, Busy, AtWork, thumbnailVars, memberVars,
             transcodeVars, workerVars
    <2>2. ASSUME NEW w \in Thumbnailers,
                 \/ \E n \in Counts : TakeProbed(w, n)
                 \/ HandleProbed(w)
                 \/ ThumbnailFails(w) \/ ThumbnailRefused(w)
                 \/ ThumbnailerCrashes(w) \/ ThumbnailerEvicted(w)
          PROVE  CommitsFollow'
      <3>1. \/ Over(w) \/ ThumbnailerEvicted(w) \/ (\E n \in Counts : TakeProbed(w, n))
            \/ AnnounceThumbnails(w)
            \/ \E s \in {"look", "make", "copy", "delete", "announce"} :
                 \E p : GoTo(w, s, p)
        BY <2>2 DEF HandleProbed, Look, Make, CopyPiece, DeletePiece, FinishProbed,
           FailProbed, ThumbnailFails, ThumbnailRefused, ThumbnailerCrashes
      <3>2. shown => shown'
        BY <1>3, ThumbnailGrows
      <3>3. \A v \in Thumbnailers : v # w => step'[v] = step[v] /\ moved'[v] = moved[v]
        BY <1>1, <3>1
           DEF Over, GoTo, ThumbnailerEvicted, TakeProbed, AnnounceThumbnails, ThumbnailTypeOK
      <3>4. /\ step'[w] = "flush" => shown'
            /\ moved'[w] => step'[w] # "idle"
        <4>1. CASE Over(w)
          BY <1>1, <4>1 DEF Over, ThumbnailTypeOK
        <4>2. CASE ThumbnailerEvicted(w)
          BY <1>1, <4>2 DEF ThumbnailerEvicted, AtWork, CommitsFollow
        <4>3. CASE \E n \in Counts : TakeProbed(w, n)
          BY <1>1, <4>3 DEF TakeProbed, ThumbnailTypeOK
        <4>4. CASE AnnounceThumbnails(w)
          BY <1>1, <4>4 DEF AnnounceThumbnails, GoTo, ThumbnailTypeOK
        <4>5. CASE \E s \in {"look", "make", "copy", "delete", "announce"} :
                     \E p : GoTo(w, s, p)
          BY <1>1, <4>5 DEF GoTo, ThumbnailTypeOK
        <4> QED
          BY <3>1, <4>1, <4>2, <4>3, <4>4, <4>5
      <3> QED
        BY <1>1, <1>3, <3>2, <3>3, <3>4
           DEF CommitsFollow, Busy, AtWork, transcodeVars, workerVars
    <2> QED
      BY <1>3, <2>1, <2>2 DEF ThumbnailNext
  <1>4. CASE UNCHANGED <<transcodeVars, thumbnailVars>>
    BY <1>1, <1>4
       DEF CommitsFollow, Busy, AtWork, transcodeVars, workerVars, thumbnailVars, memberVars
  <1> QED
    BY <1>2, <1>3, <1>4 DEF Next, vars

(* Steps of one stage leave the messages of another where they are. *)
LEMMA NextKeepsAll ==
  ASSUME KeptInv, [Next]_vars
  PROVE  /\ RenditionKept => RenditionKept'
         /\ ThumbnailsKept => ThumbnailsKept'
         /\ OutcomesKept => OutcomesKept'
  <1>0. /\ Requested # Probed
        /\ \A e \in Outcomes : e # Requested /\ e # Probed
    BY RetriesAssumption
  <1>1. CASE TranscodeNext /\ UNCHANGED <<thumbnailVars, notifyVars>>
    <2>1. RenditionKept => RenditionKept'
      BY <1>1, TranscodeKeepsRendition
    <2>2. ThumbnailsKept => ThumbnailsKept'
      <3>1. /\ GivenUp(Probed) => GivenUp(Probed)'
            /\ OnItsWay(Probed, "thumbnail") => OnItsWay(Probed, "thumbnail")'
        BY <1>0, <1>1, TranscodeGrows, GrowingKeeps
      <3> QED
        BY <1>1, <3>1 DEF ThumbnailsKept, AtWork, thumbnailVars, memberVars
    <2>3. OutcomesKept => OutcomesKept'
      <3>1. ASSUME NEW e \in Outcomes
            PROVE  /\ GivenUp(e) => GivenUp(e)'
                   /\ OnItsWay(e, "notify") => OnItsWay(e, "notify")'
        BY <1>0, <1>1, TranscodeGrows, GrowingKeeps
      <3> QED
        BY <1>1, <3>1 DEF OutcomesKept, OutcomeKept, notifyVars
    <2> QED
      BY <2>1, <2>2, <2>3
  <1>2. CASE ThumbnailNext /\ UNCHANGED <<transcodeVars, notifyVars>>
    <2>1. ThumbnailsKept => ThumbnailsKept'
      BY <1>2, ThumbnailKeepsThumbnails
    <2>2. RenditionKept => RenditionKept'
      <3>1. /\ GivenUp(Requested) => GivenUp(Requested)'
            /\ OnItsWay(Requested, "transcode") => OnItsWay(Requested, "transcode")'
        BY <1>0, <1>2, ThumbnailGrows, GrowingKeeps
      <3> QED
        BY <1>2, <3>1 DEF RenditionKept, Busy, transcodeVars, workerVars
    <2>3. OutcomesKept => OutcomesKept'
      <3>1. ASSUME NEW e \in Outcomes
            PROVE  /\ GivenUp(e) => GivenUp(e)'
                   /\ OnItsWay(e, "notify") => OnItsWay(e, "notify")'
        BY <1>0, <1>2, ThumbnailGrows, GrowingKeeps
      <3> QED
        BY <1>2, <3>1 DEF OutcomesKept, OutcomeKept, notifyVars
    <2> QED
      BY <2>1, <2>2, <2>3
  <1>3. CASE NotifyNext /\ UNCHANGED <<transcodeVars, thumbnailVars>>
    <2>1. OutcomesKept => OutcomesKept'
      BY <1>3, NotifyKeepsOutcomes DEF OutcomesKept
    <2>2. /\ dead \subseteq dead' /\ laddered \subseteq laddered'
          /\ \A d \in waiting : d \in waiting' \/ d.event \in Outcomes
      <3>1. posting # NoCopy => posting.event \in Outcomes
        BY DEF KeptInv, IInv, NotifyInv, OutageFollows
      <3> QED
        BY <1>3, <3>1
           DEF NotifyNext, TakeOutcome, PostSucceeds, PostRefused, PostFails, FailPost,
               NotifierCrashes, ReceiverFails, ReceiverRecovers, ladderVars, kafkaVars,
               ParkTransient, ParkTerminal, Park
    <2>3. \A e \in {Requested, Probed} : \A g \in {"transcode", "thumbnail"} :
            /\ GivenUp(e) => GivenUp(e)'
            /\ OnItsWay(e, g) => OnItsWay(e, g)'
      BY <1>0, <2>2, GrowingKeeps
    <2> QED
      BY <1>3, <2>1, <2>3
         DEF RenditionKept, ThumbnailsKept, Busy, AtWork, transcodeVars, workerVars,
             thumbnailVars, memberVars
  <1>4. CASE Pump /\ UNCHANGED <<transcodeVars, thumbnailVars, notifyVars>>
    BY <1>4, PumpKeepsAll
  <1>5. CASE UNCHANGED <<kafkaVars, transcodeVars, thumbnailVars, notifyVars>>
    BY <1>5
       DEF RenditionKept, ThumbnailsKept, OutcomesKept, OutcomeKept, GivenUp, OnItsWay,
           Busy, AtWork, kafkaVars, transcodeVars, workerVars, thumbnailVars, memberVars,
           notifyVars
  <1> QED
    BY <1>1, <1>2, <1>3, <1>4, <1>5 DEF Next, Tick, LadderTick, vars, ladderVars

(* The messages that are there at the start wait for every group. *)
LEMMA PresentAreWaiting ==
  ASSUME NEW present, LadderInit(present), NEW e \in present, e \in Events,
         NEW g \in Readers[e]
  PROVE  OnItsWay(e, g)
  <1>1. g \in Groups
    BY DEF Groups
  <1>2. [group |-> g, event |-> e, count |-> 0] \in waiting
    BY <1>1 DEF LadderInit
  <1> QED
    BY <1>2 DEF OnItsWay

(* Whichever stage has messages at the start, none of them ever gets lost:   *)
(* the rendition is announced, the thumbnails are, the receiver is told, or  *)
(* the message is on the DLQ, or it is on a topic, on the ladder, or in the  *)
(* hands of somebody whose commit would still be accepted.  That holds       *)
(* through any number of crashes, evictions, failing calls and outages, of   *)
(* the pump as well (consumer.py:330-353, worker_retry_pump/main.py:75-84).  *)
THEOREM NothingIsLostTheorem ==
  Spec => []RenditionKept \/ []ThumbnailsKept \/ []OutcomesKept
  <1>1. Init => CommitsFollow
    BY DEF Init, TranscodeInit, ThumbnailInit, CommitsFollow
  <1>2. Init => RenditionKept \/ ThumbnailsKept \/ OutcomesKept
    <2> SUFFICES ASSUME Init
                 PROVE  RenditionKept \/ ThumbnailsKept \/ OutcomesKept
      OBVIOUS
    <2>1. PICK present \in {{Requested}, {Probed}, Outcomes} : LadderInit(present)
      BY DEF Init
    <2>2. CASE present = {Requested}
      BY <2>1, <2>2, PresentAreWaiting, TranscodeAssumption, PumpAssumption
         DEF RenditionKept
    <2>3. CASE present = {Probed}
      BY <2>1, <2>3, PresentAreWaiting, ThumbnailAssumption, PumpAssumption
         DEF ThumbnailsKept
    <2>4. CASE present = Outcomes
      BY <2>1, <2>4, PresentAreWaiting, NotifyAssumption DEF OutcomesKept, OutcomeKept
    <2> QED
      BY <2>1, <2>2, <2>3, <2>4
  <1>3. IInv /\ CommitsFollow /\ [Next]_vars => CommitsFollow'
    BY CommitsStillFollow DEF KeptInv
  <1>4. IInv /\ CommitsFollow /\ [Next]_vars =>
          /\ RenditionKept => RenditionKept'
          /\ ThumbnailsKept => ThumbnailsKept'
          /\ OutcomesKept => OutcomesKept'
    BY NextKeepsAll DEF KeptInv
  <1> QED
    BY <1>1, <1>2, <1>3, <1>4, Invariant, PTL DEF Spec
=============================================================================
