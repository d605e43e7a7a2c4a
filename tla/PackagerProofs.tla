--------------------------- MODULE PackagerProofs ---------------------------
(***************************************************************************)
(* Proofs about Packager: for any ladder, any number of workers and any    *)
(* faults the stage implements the join FanIn describes, the claim keeps   *)
(* a packager's scratch object as long as no claim outlives its holder's   *)
(* work, and nothing but a claim that is left behind strands a video.      *)
(***************************************************************************)
EXTENDS Packager, TLAPS

-----------------------------------------------------------------------------
(* The inductive invariant. *)

(* Whoever is past the check found the join complete, and it stays so. *)
CheckedIsReady ==
  \A w \in Workers : pc[w] \notin {"idle", "record", "check"} => Ready

(* Whoever is past the copy, or was told so, has a master playlist. *)
PromotedIsThere ==
  \A w \in Workers :
    pc[w] \in {"delete", "announce", "announced", "reannounce", "reannounced"} => master

Packs(w) == pc[w] \in Packaging

(* While no claim has gone stale, it has one holder at most; nobody else can *)
(* use up what the holder uploaded.                                          *)
ClaimHeldAlone ==
  stales = 0 =>
    /\ claim # "stale"
    /\ \A w \in Workers : Packs(w) => claim = "live"
    /\ \A v, w \in Workers : Packs(v) /\ Packs(w) => v = w

IInv ==
  /\ TypeOK
  /\ CheckedIsReady
  /\ PromotedIsThere
  /\ ClaimHeldAlone
  /\ CopyFindsItsUpload

-----------------------------------------------------------------------------
(* What the building blocks of the steps do. *)

(* A worker at work has a copy of a message. *)
LEMMA JobFacts ==
  ASSUME TypeOK, NEW w \in Workers, pc[w] # "idle"
  PROVE  /\ job[w] \in Copies
         /\ job[w][1] \in Messages
         /\ job[w][2] \in 0 .. Tiers
         /\ job[w] = <<job[w][1], job[w][2]>>
  <1>1. job[w] \in Copies
    BY DEF TypeOK
  <1> QED
    BY <1>1 DEF Copies

(* What a worker's way back to idle changes. *)
LEMMA IdleFacts ==
  ASSUME TypeOK, NEW w \in Workers, Idle(w)
  PROVE  /\ pc' \in [Workers -> Steps]
         /\ job' \in [Workers -> Copies \union {Nothing}]
         /\ \A v \in Workers : job'[v] = Nothing <=> pc'[v] = "idle"
         /\ evicted' \in [Workers -> BOOLEAN]
         /\ pc'[w] = "idle"
         /\ \A v \in Workers \ {w} : pc'[v] = pc[v]
  BY DEF TypeOK, Idle, Steps

(* What going on to the next step changes. *)
LEMMA GotoFacts ==
  ASSUME TypeOK, NEW w \in Workers, pc[w] # "idle",
         NEW step \in Steps \ {"idle"}, Goto(w, step)
  PROVE  /\ pc' \in [Workers -> Steps]
         /\ \A v \in Workers : job'[v] = Nothing <=> pc'[v] = "idle"
         /\ pc'[w] = step
         /\ \A v \in Workers \ {w} : pc'[v] = pc[v]
         /\ UNCHANGED <<kafkaVars, job, evicted>>
  BY DEF TypeOK, Goto

(* A message that is handled or fails: its copy goes to a topic that exists. *)
LEMMA OutcomeFacts ==
  ASSUME TypeOK, NEW w \in Workers, pc[w] # "idle",
         Succeed(w) \/ FailTransient(w) \/ FailTerminal(w)
  PROVE  /\ waiting' \subseteq Copies /\ acked' \subseteq Messages
         /\ dead' \subseteq Messages /\ unpublished' \subseteq Messages
         /\ legacy' = legacy
         /\ Idle(w)
         /\ dead' = dead \/ dead' = dead \union {job[w][1]}
  <1> DEFINE m == job[w][1]
             n == job[w][2]
  <1>1. m \in Messages /\ n \in 0 .. Tiers
    BY JobFacts
  <1>2. CASE Succeed(w)
    BY <1>1, <1>2 DEF TypeOK, Succeed
  <1>3. CASE FailTransient(w)
    <2>1. n < Tiers => <<m, n + 1>> \in Copies
      BY <1>1, PackagerAssumption DEF Copies
    <2> QED
      BY <1>1, <1>3, <2>1 DEF TypeOK, FailTransient
  <1>4. CASE FailTerminal(w)
    BY <1>1, <1>4 DEF TypeOK, FailTerminal
  <1> QED
    BY <1>2, <1>3, <1>4

-----------------------------------------------------------------------------
(* What is left to show of a step that w takes. *)

(* The join only fills up and the master playlist stays, so the others keep  *)
(* what they have found.                                                     *)
LEMMA StepKeeps ==
  ASSUME IInv, TypeOK', NEW w \in Workers,
         \A v \in Workers \ {w} : pc'[v] = pc[v],
         expected => expected', playlists \subseteq playlists', master => master',
         pc'[w] \notin {"idle", "record", "check"} => Ready',
         pc'[w] \in {"delete", "announce", "announced", "reannounce", "reannounced"}
           => master',
         ClaimHeldAlone', CopyFindsItsUpload'
  PROVE  IInv'
  <1>1. Ready => Ready'
    BY DEF TypeOK, Ready
  <1>2. CheckedIsReady'
    BY <1>1 DEF IInv, CheckedIsReady
  <1>3. PromotedIsThere'
    BY DEF IInv, PromotedIsThere
  <1> QED
    BY <1>2, <1>3 DEF IInv

(* A step that leaves claim and scratch object alone, and does not start     *)
(* packaging or a copy, keeps the claim with its holder.                     *)
LEMMA ClaimKept ==
  ASSUME IInv, NEW w \in Workers,
         \A v \in Workers \ {w} : pc'[v] = pc[v],
         UNCHANGED <<claim, scratch, stales>>,
         Packs(w)' => Packs(w), pc'[w] # "copy"
  PROVE  ClaimHeldAlone' /\ CopyFindsItsUpload'
  <1>1. \A v \in Workers : Packs(v)' => Packs(v)
    BY DEF Packs
  <1>2. ClaimHeldAlone'
    BY <1>1 DEF IInv, ClaimHeldAlone
  <1>3. CopyFindsItsUpload'
    BY DEF IInv, CopyFindsItsUpload
  <1> QED
    BY <1>2, <1>3

(* The holder of the claim has nobody beside it. *)
LEMMA HolderIsAlone ==
  ASSUME IInv, NEW w \in Workers, Packs(w), stales = 0
  PROVE  claim = "live" /\ \A v \in Workers \ {w} : ~Packs(v)
  BY DEF IInv, ClaimHeldAlone

-----------------------------------------------------------------------------
(* The steps that end with the worker idle again. *)

(* The handler returns or raises, and nothing but the claim has changed:     *)
(* given back, or taken by an attempt that never learns of it.               *)
LEMMA OutcomeKeeps ==
  ASSUME IInv, NEW w \in Workers, pc[w] # "idle",
         Succeed(w) \/ FailTransient(w) \/ FailTerminal(w),
         UNCHANGED <<expected, playlists, storeVars, completed, stales>>,
         \/ claim' = claim
         \/ claim' = "free" /\ pc[w] = "release"
         \/ claim' = "live" /\ pc[w] = "claim" /\ claim \in {"free", "stale"},
         errors' \in 0 .. MaxErrors, redeliveries' \in 0 .. MaxRedeliveries,
         kills' \in 0 .. MaxKills
  PROVE  IInv'
  <1>1. TypeOK
    BY DEF IInv
  <1>2. /\ waiting' \subseteq Copies /\ acked' \subseteq Messages
        /\ dead' \subseteq Messages /\ unpublished' \subseteq Messages
        /\ legacy' = legacy
        /\ Idle(w)
    BY <1>1, OutcomeFacts
  <1>3. /\ pc' \in [Workers -> Steps]
        /\ job' \in [Workers -> Copies \union {Nothing}]
        /\ \A v \in Workers : job'[v] = Nothing <=> pc'[v] = "idle"
        /\ evicted' \in [Workers -> BOOLEAN]
        /\ pc'[w] = "idle"
        /\ \A v \in Workers \ {w} : pc'[v] = pc[v]
    BY <1>1, <1>2, IdleFacts
  <1>4. TypeOK'
    BY <1>1, <1>2, <1>3 DEF TypeOK, storeVars
  <1>5. ClaimHeldAlone' /\ CopyFindsItsUpload'
    <2>1. CASE claim' = claim
      BY <1>3, <2>1, ClaimKept DEF storeVars, Packs, Packaging
    <2>2. CASE claim' = "free" /\ pc[w] = "release"
      <3>1. \A v \in Workers : stales = 0 => ~Packs(v)'
        BY <1>3, <2>2, HolderIsAlone DEF Packs, Packaging
      <3>2. ClaimHeldAlone'
        BY <2>2, <3>1 DEF ClaimHeldAlone
      <3>3. CopyFindsItsUpload'
        BY <3>1 DEF CopyFindsItsUpload, Packs, Packaging
      <3> QED
        BY <3>2, <3>3
    <2>3. CASE claim' = "live" /\ pc[w] = "claim" /\ claim \in {"free", "stale"}
      <3>1. \A v \in Workers : Packs(v)' => Packs(v)
        BY <1>3 DEF Packs, Packaging
      <3>2. ClaimHeldAlone'
        BY <2>3, <3>1 DEF IInv, ClaimHeldAlone
      <3>3. CopyFindsItsUpload'
        BY <1>3 DEF IInv, CopyFindsItsUpload, storeVars
      <3> QED
        BY <3>2, <3>3
    <2> QED
      BY <2>1, <2>2, <2>3
  <1> QED
    BY <1>3, <1>4, <1>5, StepKeeps DEF storeVars

(* A worker dies with its message, which waits again if it was its own. *)
LEMMA KillKeeps ==
  ASSUME IInv, NEW w \in Workers, Kill(w)
  PROVE  IInv'
  <1>1. TypeOK /\ pc[w] # "idle" /\ Idle(w)
    BY DEF IInv, Kill
  <1>2. job[w] \in Copies
    BY <1>1, JobFacts
  <1>3. /\ pc' \in [Workers -> Steps]
        /\ job' \in [Workers -> Copies \union {Nothing}]
        /\ \A v \in Workers : job'[v] = Nothing <=> pc'[v] = "idle"
        /\ evicted' \in [Workers -> BOOLEAN]
        /\ pc'[w] = "idle"
        /\ \A v \in Workers \ {w} : pc'[v] = pc[v]
    BY <1>1, IdleFacts
  <1>4. waiting' \subseteq Copies /\ kills' \in 0 .. MaxKills
    BY <1>1, <1>2, PackagerAssumption DEF TypeOK, Kill
  <1>5. TypeOK'
    BY <1>1, <1>3, <1>4 DEF TypeOK, Kill, dbVars, storeVars
  <1>6. ClaimHeldAlone' /\ CopyFindsItsUpload'
    BY <1>3, ClaimKept DEF Kill, dbVars, storeVars, Packs, Packaging
  <1> QED
    BY <1>3, <1>5, <1>6, StepKeeps DEF Kill, dbVars, storeVars

-----------------------------------------------------------------------------
(* The steps that go on. *)

(* A step that touches neither claim nor scratch object nor master playlist. *)
LEMMA AdvanceKeeps ==
  ASSUME IInv, NEW w \in Workers, pc[w] # "idle",
         NEW step \in Steps \ {"idle", "record", "copy"}, Goto(w, step),
         UNCHANGED <<claim, storeVars, redeliveries, kills, stales>>,
         errors' \in 0 .. MaxErrors,
         expected' \in BOOLEAN, playlists' \subseteq Renditions, completed' \in BOOLEAN,
         expected => expected', playlists \subseteq playlists',
         step # "check" => Ready,
         step \in {"delete", "announce", "announced", "reannounce", "reannounced"}
           => master,
         step \in Packaging => Packs(w)
  PROVE  IInv'
  <1>1. TypeOK
    BY DEF IInv
  <1>2. /\ pc' \in [Workers -> Steps]
        /\ \A v \in Workers : job'[v] = Nothing <=> pc'[v] = "idle"
        /\ pc'[w] = step
        /\ \A v \in Workers \ {w} : pc'[v] = pc[v]
        /\ UNCHANGED <<kafkaVars, job, evicted>>
    BY <1>1, GotoFacts
  <1>3. TypeOK'
    BY <1>1, <1>2 DEF TypeOK, kafkaVars, storeVars
  <1>4. ClaimHeldAlone' /\ CopyFindsItsUpload'
    BY <1>2, ClaimKept DEF storeVars, Packs
  <1>5. Ready => Ready'
    BY DEF Ready
  <1> QED
    BY <1>2, <1>3, <1>4, <1>5, StepKeeps DEF storeVars

(* The claim is granted when it is free, or stale and so does not count. *)
LEMMA ClaimKeeps ==
  ASSUME IInv, NEW w \in Workers, Claim(w)
  PROVE  IInv'
  <1>1. TypeOK /\ pc[w] = "claim" /\ Ready
    BY DEF IInv, Claim, CheckedIsReady
  <1>2. CASE claim \in {"free", "stale"}
    <2>1. claim' = "live" /\ Goto(w, "upload")
      BY <1>2 DEF Claim
    <2>2. /\ pc' \in [Workers -> Steps]
          /\ \A v \in Workers : job'[v] = Nothing <=> pc'[v] = "idle"
          /\ pc'[w] = "upload"
          /\ \A v \in Workers \ {w} : pc'[v] = pc[v]
          /\ UNCHANGED <<kafkaVars, job, evicted>>
      BY <1>1, <2>1, GotoFacts DEF Steps
    <2>3. TypeOK'
      BY <1>1, <2>1, <2>2 DEF TypeOK, Claim, kafkaVars, storeVars, budgetVars
    <2>4. \A v \in Workers \ {w} : stales = 0 => ~Packs(v)'
      BY <1>2, <2>2 DEF IInv, ClaimHeldAlone, Packs
    <2>5. ClaimHeldAlone'
      BY <2>1, <2>4 DEF ClaimHeldAlone, Claim, budgetVars
    <2>6. CopyFindsItsUpload'
      BY <2>2, <2>4 DEF CopyFindsItsUpload, Packs, Packaging, Claim, budgetVars
    <2> QED
      BY <1>1, <2>2, <2>3, <2>5, <2>6, StepKeeps DEF Claim, storeVars, Ready
  <1>3. CASE claim \notin {"free", "stale"}
    BY <1>1, <1>3, OutcomeKeeps DEF Claim, budgetVars, TypeOK
  <1> QED
    BY <1>2, <1>3

(* The scratch object is written by the holder, ... *)
LEMMA UploadKeeps ==
  ASSUME IInv, NEW w \in Workers, Upload(w)
  PROVE  IInv'
  <1>1. TypeOK /\ pc[w] = "upload" /\ Ready
    BY DEF IInv, Upload, CheckedIsReady
  <1>2. /\ pc' \in [Workers -> Steps]
        /\ \A v \in Workers : job'[v] = Nothing <=> pc'[v] = "idle"
        /\ pc'[w] = "copy"
        /\ \A v \in Workers \ {w} : pc'[v] = pc[v]
        /\ UNCHANGED <<kafkaVars, job, evicted>>
    BY <1>1, GotoFacts DEF Upload, Steps
  <1>3. TypeOK'
    BY <1>1, <1>2 DEF TypeOK, Upload, kafkaVars, dbVars, budgetVars
  <1>4. \A v \in Workers : Packs(v)' => Packs(v)
    BY <1>1, <1>2 DEF Packs, Packaging
  <1>5. ClaimHeldAlone'
    BY <1>4 DEF IInv, ClaimHeldAlone, Upload, dbVars, budgetVars
  <1>6. CopyFindsItsUpload'
    BY DEF CopyFindsItsUpload, Upload
  <1> QED
    BY <1>1, <1>2, <1>3, <1>5, <1>6, StepKeeps DEF Upload, dbVars, Ready

(* ... copied to its place, if it is there, ... *)
LEMMA CopyKeeps ==
  ASSUME IInv, NEW w \in Workers, Copy(w)
  PROVE  IInv'
  <1>1. TypeOK /\ pc[w] = "copy" /\ Ready
    BY DEF IInv, Copy, CheckedIsReady
  <1>2. PICK step \in {"delete", "release"} :
          /\ Goto(w, step)
          /\ step = "delete" => master' = TRUE
          /\ step = "release" => master' = master
    BY DEF Copy
  <1>3. /\ pc' \in [Workers -> Steps]
        /\ \A v \in Workers : job'[v] = Nothing <=> pc'[v] = "idle"
        /\ pc'[w] = step
        /\ \A v \in Workers \ {w} : pc'[v] = pc[v]
        /\ UNCHANGED <<kafkaVars, job, evicted>>
    BY <1>1, <1>2, GotoFacts DEF Steps
  <1>4. TypeOK'
    BY <1>1, <1>2, <1>3 DEF TypeOK, Copy, kafkaVars, dbVars, budgetVars
  <1>5. ClaimHeldAlone' /\ CopyFindsItsUpload'
    BY <1>1, <1>3, ClaimKept DEF Copy, dbVars, budgetVars, Packs, Packaging
  <1>6. master => master'
    BY <1>1, <1>2 DEF TypeOK
  <1> QED
    BY <1>1, <1>2, <1>3, <1>4, <1>5, <1>6, StepKeeps DEF Copy, dbVars, Ready

(* ... and deleted, when nobody else is about to copy it. *)
LEMMA DeleteKeeps ==
  ASSUME IInv, NEW w \in Workers, Delete(w)
  PROVE  IInv'
  <1>1. TypeOK /\ pc[w] = "delete" /\ Ready /\ master
    BY DEF IInv, Delete, CheckedIsReady, PromotedIsThere
  <1>2. /\ pc' \in [Workers -> Steps]
        /\ \A v \in Workers : job'[v] = Nothing <=> pc'[v] = "idle"
        /\ pc'[w] = "announce"
        /\ \A v \in Workers \ {w} : pc'[v] = pc[v]
        /\ UNCHANGED <<kafkaVars, job, evicted>>
    BY <1>1, GotoFacts DEF Delete, Steps
  <1>3. TypeOK'
    BY <1>1, <1>2 DEF TypeOK, Delete, kafkaVars, dbVars, budgetVars
  <1>4. \A v \in Workers : Packs(v)' => Packs(v)
    BY <1>1, <1>2 DEF Packs, Packaging
  <1>5. ClaimHeldAlone'
    BY <1>4 DEF IInv, ClaimHeldAlone, Delete, dbVars, budgetVars
  <1>6. CopyFindsItsUpload'
    BY <1>1, <1>2, HolderIsAlone
       DEF CopyFindsItsUpload, Packs, Packaging, Delete, budgetVars
  <1> QED
    BY <1>1, <1>2, <1>3, <1>5, <1>6, StepKeeps DEF Delete, dbVars, Ready

(* The steps of the handler. *)
LEMMA HandleKeeps ==
  ASSUME IInv, NEW w \in Workers, Handle(w)
  PROVE  IInv'
  <1>1. TypeOK
    BY DEF IInv
  <1>2. errors \in 0 .. MaxErrors /\ redeliveries \in 0 .. MaxRedeliveries
        /\ kills \in 0 .. MaxKills
    BY <1>1 DEF TypeOK
  <1>3. CASE Record(w)
    <2>1. pc[w] = "record" /\ Goto(w, "check")
      BY <1>3 DEF Record
    <2>2. job[w][1] \in Messages
      BY <1>1, <2>1, JobFacts
    <2>3. expected' \in BOOLEAN /\ playlists' \subseteq Renditions
          /\ (expected => expected') /\ playlists \subseteq playlists'
      BY <1>1, <1>3, <2>2 DEF Record, TypeOK, Messages
    <2>4. completed' \in BOOLEAN
      BY <1>1, <1>3 DEF Record, TypeOK
    <2> QED
      BY <1>2, <1>3, <2>1, <2>3, <2>4, AdvanceKeeps
         DEF Record, budgetVars, Packaging, Steps
  <1>4. CASE RecordTerminal(w)
    BY <1>2, <1>4, OutcomeKeeps DEF RecordTerminal, dbVars, budgetVars
  <1>5. CASE Check(w)
    <2>1. CASE Ready
      BY <1>1, <1>2, <1>5, <2>1, AdvanceKeeps
         DEF Check, dbVars, budgetVars, Packaging, Steps, TypeOK
    <2>2. CASE ~Ready
      BY <1>2, <1>5, <2>2, OutcomeKeeps DEF Check, dbVars, budgetVars
    <2> QED
      BY <2>1, <2>2
  <1>6. CASE Exists(w)
    <2>1. pc[w] = "exists" /\ Ready
      BY <1>6 DEF IInv, CheckedIsReady, Exists
    <2>2. PICK step \in {"reannounce", "claim"} :
            Goto(w, step) /\ (step = "reannounce" => master)
      BY <1>6 DEF Exists
    <2> QED
      BY <1>1, <1>2, <1>6, <2>1, <2>2, AdvanceKeeps
         DEF Exists, dbVars, budgetVars, Packaging, Steps, TypeOK
  <1>7. CASE Claim(w)
    BY <1>7, ClaimKeeps
  <1>8. CASE Upload(w)
    BY <1>8, UploadKeeps
  <1>9. CASE Copy(w)
    BY <1>9, CopyKeeps
  <1>10. CASE Delete(w)
    BY <1>10, DeleteKeeps
  <1>11. CASE AnnounceCompleted(w)
    <2>1. Ready /\ master
      BY <1>11 DEF IInv, CheckedIsReady, PromotedIsThere, AnnounceCompleted
    <2>2. CASE pc[w] = "announce" /\ Goto(w, "announced")
      BY <1>1, <1>2, <1>11, <2>1, <2>2, AdvanceKeeps
         DEF AnnounceCompleted, dbVars, budgetVars, Packs, Packaging, Steps, TypeOK
    <2>3. CASE pc[w] = "reannounce" /\ Goto(w, "reannounced")
      BY <1>1, <1>2, <1>11, <2>1, <2>3, AdvanceKeeps
         DEF AnnounceCompleted, dbVars, budgetVars, Packaging, Steps, TypeOK
    <2> QED
      BY <1>11, <2>2, <2>3 DEF AnnounceCompleted
  <1>12. CASE Finish(w)
    BY <1>2, <1>12, OutcomeKeeps DEF Finish, dbVars, budgetVars
  <1>13. CASE Release(w)
    BY <1>2, <1>13, OutcomeKeeps DEF Release, budgetVars
  <1> QED
    BY <1>3, <1>4, <1>5, <1>6, <1>7, <1>8, <1>9, <1>10, <1>11, <1>12, <1>13 DEF Handle

(* A call raises: the claim is still there, and its holder on its way to     *)
(* give it back, unless that raises as well or the holder does not know that *)
(* it has the claim.                                                         *)
LEMMA FailureKeeps ==
  ASSUME IInv, NEW w \in Workers, CallFails(w) \/ ClaimAnswerLost(w) \/ ReleaseFails(w)
  PROVE  IInv'
  <1>1. TypeOK
    BY DEF IInv
  <1>2. /\ errors \in 0 .. MaxErrors /\ redeliveries \in 0 .. MaxRedeliveries
        /\ kills \in 0 .. MaxKills
        /\ MaxErrors \in Nat /\ MaxKills \in Nat
    BY <1>1, PackagerAssumption DEF TypeOK
  <1>3. CASE CallFails(w)
    <2>1. errors' \in 0 .. MaxErrors
      BY <1>2, <1>3 DEF CallFails, Error
    <2>2. CASE pc[w] # "idle" /\ FailTransient(w)
      BY <1>2, <1>3, <2>1, <2>2, OutcomeKeeps DEF CallFails, dbVars
    <2>3. CASE pc[w] \in Packaging \ {"release"} /\ Goto(w, "release")
      <3>1. Ready /\ pc[w] # "idle"
        BY <2>3 DEF IInv, CheckedIsReady, Packaging
      <3> QED
        BY <1>1, <1>3, <2>1, <2>3, <3>1, AdvanceKeeps
           DEF CallFails, dbVars, Packs, Steps, TypeOK
    <2> QED
      BY <1>3, <2>2, <2>3 DEF CallFails
  <1>4. CASE ReleaseFails(w)
    <2>1. kills' \in 0 .. MaxKills
      BY <1>2, <1>4 DEF ReleaseFails
    <2> QED
      BY <1>2, <1>4, <2>1, OutcomeKeeps DEF ReleaseFails, dbVars
  <1>5. CASE ClaimAnswerLost(w)
    <2>1. errors' \in 0 .. MaxErrors /\ kills' \in 0 .. MaxKills
      BY <1>2, <1>5 DEF ClaimAnswerLost, Error
    <2> QED
      BY <1>2, <1>5, <2>1, OutcomeKeeps DEF ClaimAnswerLost
  <1> QED
    BY <1>3, <1>4, <1>5

(* Kafka and the clock take no worker a step further. *)
LEMMA SurroundingsKeep ==
  ASSUME IInv, TypeOK',
         UNCHANGED <<expected, playlists, storeVars, pc>>,
         \/ UNCHANGED <<claim, stales>>
         \/ stales' # 0
  PROVE  IInv'
  <1>1. CheckedIsReady'
    BY DEF IInv, CheckedIsReady, Ready
  <1>2. PromotedIsThere'
    BY DEF IInv, PromotedIsThere, storeVars
  <1>3. ClaimHeldAlone' /\ CopyFindsItsUpload'
    BY DEF IInv, ClaimHeldAlone, CopyFindsItsUpload, Packs, storeVars
  <1> QED
    BY <1>1, <1>2, <1>3 DEF IInv

(* A worker takes a copy of a message, and holds no claim yet. *)
LEMMA TakeKeeps ==
  ASSUME IInv, NEW w \in Workers, NEW c \in waiting, Take(w, c)
  PROVE  IInv'
  <1>1. TypeOK /\ c \in Copies
    BY DEF IInv, TypeOK
  <1>2. c # Nothing
    <2>1. c = <<c[1], c[2]>>
      BY <1>1 DEF Copies
    <2>2. <<c[1], c[2]>> # <<>>
      OBVIOUS
    <2> QED
      BY <2>1, <2>2 DEF Nothing
  <1>3. pc'[w] = "record" /\ \A v \in Workers \ {w} : pc'[v] = pc[v]
    BY <1>1 DEF TypeOK, Take
  <1>4. TypeOK'
    BY <1>1, <1>2 DEF TypeOK, Take, Steps, dbVars, storeVars, budgetVars
  <1>5. ClaimHeldAlone' /\ CopyFindsItsUpload'
    BY <1>3, ClaimKept DEF Take, dbVars, storeVars, budgetVars, Packs, Packaging
  <1> QED
    BY <1>3, <1>4, <1>5, StepKeeps DEF Take, dbVars, storeVars

(* What Kafka and Redis do by themselves moves no worker to another step; a  *)
(* claim that goes stale ends the promise about claims.                      *)
LEMMA DeliveriesKeep ==
  ASSUME IInv,
         \/ \E m \in Messages : Publish(m) \/ Redeliver(m)
         \/ \E w \in Workers : Evict(w)
         \/ ClaimGoesStale
  PROVE  IInv'
  <1>1. TypeOK
    BY DEF IInv
  <1>2. 0 \in 0 .. Tiers /\ MaxRedeliveries \in Nat /\ MaxStale \in Nat
    BY PackagerAssumption
  <1>3. CASE \E m \in Messages : Publish(m) \/ Redeliver(m)
    <2>1. PICK m \in Messages : Publish(m) \/ Redeliver(m)
      BY <1>3
    <2>2. <<m, 0>> \in Copies
      BY <1>2 DEF Copies
    <2>3. TypeOK'
      BY <1>1, <1>2, <2>1, <2>2
         DEF TypeOK, Publish, Redeliver, dbVars, storeVars, workerVars, budgetVars
    <2> QED
      BY <2>1, <2>3, SurroundingsKeep
         DEF Publish, Redeliver, dbVars, storeVars, workerVars, budgetVars
  <1>4. CASE \E w \in Workers : Evict(w)
    <2>1. PICK w \in Workers : Evict(w)
      BY <1>4
    <2>2. job[w] \in Copies
      BY <1>1, <2>1, JobFacts DEF Evict
    <2>3. TypeOK'
      BY <1>1, <1>2, <2>1, <2>2 DEF TypeOK, Evict, dbVars, storeVars
    <2> QED
      BY <2>1, <2>3, SurroundingsKeep DEF Evict, dbVars, storeVars
  <1>5. CASE ClaimGoesStale
    <2>1. TypeOK' /\ stales' # 0
      BY <1>1, <1>2, <1>5
         DEF TypeOK, ClaimGoesStale, storeVars, kafkaVars, workerVars
    <2> QED
      BY <1>5, <2>1, SurroundingsKeep DEF ClaimGoesStale, storeVars, workerVars
  <1> QED
    BY <1>3, <1>4, <1>5

-----------------------------------------------------------------------------
(* The whole. *)

(* Nothing is recorded and nobody at work at first. *)
LEMMA InitEstablishes == Init => IInv
  <1> SUFFICES ASSUME Init
               PROVE  IInv
    OBVIOUS
  <1>1. TypeOK
    <2>1. /\ 0 \in 0 .. MaxErrors /\ 0 \in 0 .. MaxRedeliveries
          /\ 0 \in 0 .. MaxKills /\ 0 \in 0 .. MaxStale
      BY PackagerAssumption
    <2>2. \A w \in Workers : job[w] = Nothing <=> pc[w] = "idle"
      BY DEF Init
    <2> QED
      BY <2>1, <2>2, PackagerAssumption DEF Init, TypeOK, Steps
  <1>2. CheckedIsReady /\ PromotedIsThere /\ ClaimHeldAlone /\ CopyFindsItsUpload
    BY DEF Init, CheckedIsReady, PromotedIsThere, ClaimHeldAlone, Packs, Packaging,
       CopyFindsItsUpload
  <1> QED
    BY <1>1, <1>2 DEF IInv

(* Every step keeps the invariant. *)
LEMMA NextKeeps == IInv /\ [Next]_vars => IInv'
  <1> SUFFICES ASSUME IInv, [Next]_vars
               PROVE  IInv'
    OBVIOUS
  <1>1. CASE \E m \in Messages : Publish(m) \/ Redeliver(m)
    BY <1>1, DeliveriesKeep
  <1>2. ASSUME NEW w \in Workers,
               \/ \E c \in waiting : Take(w, c)
               \/ Handle(w) \/ CallFails(w) \/ ClaimAnswerLost(w) \/ ReleaseFails(w)
               \/ Evict(w) \/ Kill(w)
        PROVE  IInv'
    BY <1>2, TakeKeeps, HandleKeeps, FailureKeeps, DeliveriesKeep, KillKeeps
  <1>3. CASE ClaimGoesStale
    BY <1>3, DeliveriesKeep
  <1>4. CASE UNCHANGED vars
    <2>1. TypeOK'
      BY <1>4 DEF IInv, TypeOK, vars, dbVars, storeVars, kafkaVars, workerVars, budgetVars
    <2> QED
      BY <1>4, <2>1, SurroundingsKeep DEF vars, dbVars, workerVars, budgetVars
  <1> QED
    BY <1>1, <1>2, <1>3, <1>4 DEF Next

(* The invariant holds of every behaviour of the stage. *)
THEOREM Invariant == Spec => []IInv
  BY InitEstablishes, NextKeeps, PTL DEF Spec

(* Tables, store, topics and workers keep their types (worker_package,       *)
(* PackagerRepository).                                                      *)
THEOREM TypeCorrect == Spec => []TypeOK
  <1>1. IInv => TypeOK
    BY DEF IInv
  <1> QED
    BY <1>1, Invariant, PTL

(* As long as no claim goes stale under its holder, whoever copies the       *)
(* scratch object finds what it uploaded, in spite of evictions, retries,    *)
(* kills, releases that fail and claims whose answer is lost (claim,         *)
(* release_claim, promote).                                                  *)
THEOREM CopyFindsItsUploadTheorem == Spec => []CopyFindsItsUpload
  <1>1. IInv => CopyFindsItsUpload
    BY DEF IInv
  <1> QED
    BY <1>1, Invariant, PTL

-----------------------------------------------------------------------------
(* What is left when everything has come to rest.  That takes a second       *)
(* invariant, on top of IInv: who still has to take each message, the        *)
(* complete join, and the claim, any further.                                *)

(* Every fact is on record or on its way there, unless it is given up. *)
FactsArrive ==
  \A m \in Messages \ Recorded :
    \/ m \in unpublished \union dead
    \/ \E n \in 0 .. Tiers : <<m, n>> \in waiting
    \/ \E w \in Workers : pc[w] = "record" /\ job[w][1] = m /\ ~evicted[w]

(* Somebody is left to package a complete join, unless a claim is in the way. *)
JoinIsFollowed ==
  Ready /\ ~completed /\ dead = {} =>
    \/ waiting # {} \/ claim # "free"
    \/ \E w \in Workers : pc[w] # "idle" /\ ~evicted[w]

(* Without a kill a claim has somebody who works under it. *)
ClaimIsFollowed ==
  claim # "free" /\ kills = 0 /\ ~completed => \E w \in Workers : Packs(w)

AnnouncedIsKnown == \A w \in Workers : pc[w] \in {"announced", "reannounced"} => completed

TakenWasPublished ==
  /\ \A m \in Messages, n \in 0 .. Tiers : <<m, n>> \in waiting => m \notin unpublished
  /\ \A w \in Workers : pc[w] # "idle" => job[w][1] \notin unpublished
  /\ \A m \in acked \union dead : m \notin unpublished

EvictedIsAtWork == \A w \in Workers : evicted[w] => pc[w] # "idle"

RestInv ==
  /\ FactsArrive /\ JoinIsFollowed /\ ClaimIsFollowed
  /\ AnnouncedIsKnown /\ TakenWasPublished /\ EvictedIsAtWork

(* A video that is never announced, although nothing failed for good and     *)
(* nobody is at work any more, has a claim left behind, and that was a kill  *)
(* (or a release that failed, or a claim whose answer was lost): rebalances, *)
(* retries, redeliveries and claims that go stale strand no video (handle,   *)
(* _try_package, PackagerRepository).                                        *)
StrandedByAClaim ==
  Quiet /\ dead = {} /\ ~completed => claim # "free" /\ kills > 0

(* The workers after one of them is idle again, ... *)
LEMMA AfterIdle ==
  ASSUME TypeOK, NEW w \in Workers, Idle(w)
  PROVE  /\ pc'[w] = "idle" /\ evicted'[w] = FALSE
         /\ \A v \in Workers \ {w} :
              pc'[v] = pc[v] /\ job'[v] = job[v] /\ evicted'[v] = evicted[v]
  BY DEF TypeOK, Idle

(* ... and where its message is, if the handler raised. *)
LEMMA AfterFailure ==
  ASSUME TypeOK, NEW w \in Workers, pc[w] # "idle", FailTransient(w) \/ FailTerminal(w)
  PROVE  /\ Idle(w) /\ UNCHANGED <<legacy, unpublished, acked>>
         /\ waiting \subseteq waiting' /\ dead \subseteq dead'
         /\ \A m \in dead' : m \in dead \/ m = job[w][1]
         /\ \A m \in Messages, n \in 0 .. Tiers :
              <<m, n>> \in waiting' => <<m, n>> \in waiting \/ m = job[w][1]
         /\ \/ job[w][1] \in dead'
            \/ \E n \in 0 .. Tiers : <<job[w][1], n>> \in waiting'
  <1>1. job[w][2] \in 0 .. Tiers /\ Tiers \in Nat
    BY JobFacts, PackagerAssumption
  <1>2. CASE FailTransient(w) /\ job[w][2] < Tiers
    <2>1. job[w][2] + 1 \in 0 .. Tiers
      BY <1>1, <1>2
    <2> QED
      BY <1>2, <2>1 DEF FailTransient
  <1>3. CASE FailTransient(w) /\ ~(job[w][2] < Tiers)
    BY <1>3 DEF FailTransient
  <1>4. CASE FailTerminal(w)
    BY <1>4 DEF FailTerminal
  <1> QED
    BY <1>2, <1>3, <1>4

(* A handler returns only when the join is not complete, the claim is        *)
(* somebody else's, or the video announced.                                  *)
LEMMA ReturnRests ==
  ASSUME IInv, RestInv, NEW w \in Workers, Succeed(w),
         UNCHANGED <<dbVars, storeVars, completed, budgetVars>>,
         \/ pc[w] = "check" /\ ~Ready
         \/ pc[w] = "claim" /\ claim = "live"
         \/ pc[w] \in {"announced", "reannounced"}
  PROVE  RestInv'
  <1>1. TypeOK /\ pc[w] # "idle" /\ pc[w] # "record" /\ Idle(w)
        /\ UNCHANGED <<legacy, unpublished, waiting, dead, Recorded>>
    BY DEF IInv, Succeed, Recorded, dbVars
  <1>2. /\ pc'[w] = "idle" /\ evicted'[w] = FALSE
        /\ \A v \in Workers \ {w} :
             pc'[v] = pc[v] /\ job'[v] = job[v] /\ evicted'[v] = evicted[v]
    BY <1>1, AfterIdle
  <1>3. FactsArrive'
    <2> SUFFICES ASSUME NEW m \in Messages \ Recorded,
                        ~(m \in unpublished \union dead),
                        ~ \E n \in 0 .. Tiers : <<m, n>> \in waiting
                 PROVE  \E v \in Workers : pc'[v] = "record" /\ job'[v][1] = m /\ ~evicted'[v]
      BY <1>1 DEF FactsArrive
    <2>1. PICK v \in Workers : pc[v] = "record" /\ job[v][1] = m /\ ~evicted[v]
      BY DEF RestInv, FactsArrive
    <2> QED
      BY <1>1, <1>2, <2>1
  <1>4. pc[w] \in {"announced", "reannounced"} => completed
    BY DEF RestInv, AnnouncedIsKnown
  <1>5. JoinIsFollowed'
    BY <1>4 DEF JoinIsFollowed, Ready, dbVars
  <1>6. ClaimIsFollowed'
    <2> SUFFICES ASSUME claim # "free", kills = 0, ~completed
                 PROVE  \E v \in Workers : Packs(v)'
      BY DEF ClaimIsFollowed, dbVars, budgetVars
    <2>1. PICK v \in Workers : Packs(v)
      BY DEF RestInv, ClaimIsFollowed
    <2>2. v # w
      BY <1>4, <2>1 DEF Packs, Packaging
    <2> QED
      BY <1>2, <2>1, <2>2 DEF Packs
  <1>7. AnnouncedIsKnown'
    BY <1>2 DEF RestInv, AnnouncedIsKnown
  <1>8. TakenWasPublished'
    <2>1. \A m \in acked' : m \in acked \/ m = job[w][1]
      BY DEF Succeed
    <2> QED
      BY <1>1, <1>2, <2>1 DEF RestInv, TakenWasPublished
  <1>9. EvictedIsAtWork'
    BY <1>2 DEF RestInv, EvictedIsAtWork
  <1> QED
    BY <1>3, <1>5, <1>6, <1>7, <1>8, <1>9 DEF RestInv

(* A handler that raises has its copy delivered again, or given up; a claim  *)
(* is left behind only where that is counted.                                *)
LEMMA FailureRests ==
  ASSUME IInv, RestInv, NEW w \in Workers, pc[w] # "idle",
         FailTransient(w) \/ FailTerminal(w),
         UNCHANGED <<expected, playlists, storeVars, completed>>,
         \/ claim' = "free"
         \/ kills' > 0
         \/ UNCHANGED <<claim, kills>> /\ ~Packs(w)
  PROVE  RestInv'
  <1>1. TypeOK /\ UNCHANGED Recorded
    BY DEF IInv, Recorded
  <1>2. /\ Idle(w) /\ UNCHANGED <<legacy, unpublished, acked>>
        /\ waiting \subseteq waiting' /\ dead \subseteq dead'
        /\ \A m \in dead' : m \in dead \/ m = job[w][1]
        /\ \A m \in Messages, n \in 0 .. Tiers :
             <<m, n>> \in waiting' => <<m, n>> \in waiting \/ m = job[w][1]
        /\ \/ job[w][1] \in dead'
           \/ \E n \in 0 .. Tiers : <<job[w][1], n>> \in waiting'
    BY <1>1, AfterFailure
  <1>3. /\ pc'[w] = "idle" /\ evicted'[w] = FALSE
        /\ \A v \in Workers \ {w} :
             pc'[v] = pc[v] /\ job'[v] = job[v] /\ evicted'[v] = evicted[v]
    BY <1>1, <1>2, AfterIdle
  <1>4. FactsArrive'
    <2> SUFFICES ASSUME NEW m \in Messages \ Recorded,
                        ~(m \in unpublished \union dead'),
                        ~ \E n \in 0 .. Tiers : <<m, n>> \in waiting'
                 PROVE  \E v \in Workers : pc'[v] = "record" /\ job'[v][1] = m /\ ~evicted'[v]
      BY <1>1, <1>2 DEF FactsArrive
    <2>1. PICK v \in Workers : pc[v] = "record" /\ job[v][1] = m /\ ~evicted[v]
      BY <1>2 DEF RestInv, FactsArrive
    <2>2. v # w
      BY <1>2, <2>1
    <2> QED
      BY <1>3, <2>1, <2>2
  <1>5. JoinIsFollowed'
    BY <1>2 DEF JoinIsFollowed
  <1>6. ClaimIsFollowed'
    <2> SUFFICES ASSUME claim' # "free", kills' = 0, ~completed
                 PROVE  \E v \in Workers : Packs(v)'
      BY DEF ClaimIsFollowed
    <2>1. PICK v \in Workers : Packs(v)
      BY DEF RestInv, ClaimIsFollowed
    <2> QED
      BY <1>3, <2>1 DEF Packs
  <1>7. AnnouncedIsKnown'
    BY <1>3 DEF RestInv, AnnouncedIsKnown
  <1>8. TakenWasPublished'
    BY <1>2, <1>3 DEF RestInv, TakenWasPublished
  <1>9. EvictedIsAtWork'
    BY <1>3 DEF RestInv, EvictedIsAtWork
  <1> QED
    BY <1>4, <1>5, <1>6, <1>7, <1>8, <1>9 DEF RestInv

(* The join is complete when every message is on record. *)
LEMMA ReadyFacts ==
  ASSUME TypeOK
  PROVE  Ready <=> Messages \subseteq Recorded
  BY PackagerAssumption DEF TypeOK, Ready, Recorded, Messages

(* A handler that goes on has recorded its fact, works under the claim it    *)
(* takes, and is past the announcement only when it has announced.           *)
LEMMA StepRests ==
  ASSUME IInv, RestInv, TypeOK', NEW w \in Workers, pc[w] # "idle",
         NEW step \in Steps \ {"idle", "record"}, Goto(w, step), UNCHANGED kills,
         Recorded \subseteq Recorded', Recorded' \subseteq Recorded \union {job[w][1]},
         pc[w] = "record" => job[w][1] \in Recorded',
         pc[w] # "record" => Recorded' = Recorded,
         completed => completed', step \in {"announced", "reannounced"} => completed',
         claim' = claim \/ (claim' = "live" /\ step \in Packaging),
         Packs(w) => step \in Packaging
  PROVE  RestInv'
  <1>1. TypeOK
    BY DEF IInv
  <1>2. /\ pc'[w] = step
        /\ \A v \in Workers \ {w} : pc'[v] = pc[v]
        /\ UNCHANGED <<kafkaVars, job, evicted>>
    BY <1>1, GotoFacts
  <1>3. UNCHANGED <<unpublished, waiting, acked, dead>>
    BY <1>2 DEF kafkaVars
  <1>4. FactsArrive'
    <2> SUFFICES ASSUME NEW m \in Messages \ Recorded',
                        ~(m \in unpublished \union dead),
                        ~ \E n \in 0 .. Tiers : <<m, n>> \in waiting
                 PROVE  \E v \in Workers : pc'[v] = "record" /\ job'[v][1] = m /\ ~evicted'[v]
      BY <1>3 DEF FactsArrive
    <2>1. PICK v \in Workers : pc[v] = "record" /\ job[v][1] = m /\ ~evicted[v]
      BY DEF RestInv, FactsArrive
    <2>2. v # w
      BY <2>1
    <2> QED
      BY <1>2, <2>1, <2>2
  <1>5. JoinIsFollowed'
    <2> SUFFICES ASSUME Ready', ~completed', dead = {}, waiting = {}, claim' = "free"
                 PROVE  \E v \in Workers : pc'[v] # "idle" /\ ~evicted'[v]
      BY <1>3 DEF JoinIsFollowed
    <2>1. claim = "free" /\ ~completed
      OBVIOUS
    <2>2. PICK v \in Workers : pc[v] # "idle" /\ ~evicted[v]
      <3>1. CASE Ready
        BY <2>1, <3>1 DEF RestInv, JoinIsFollowed
      <3>2. CASE ~Ready
        <4>1. PICK m \in Messages : m \notin Recorded
          BY <1>1, <3>2, ReadyFacts
        <4>2. Messages \subseteq Recorded'
          BY PackagerAssumption DEF TypeOK, Ready, Recorded, Messages
        <4>3. m = job[w][1]
          BY <4>1, <4>2
        <4>4. m \notin unpublished
          BY <4>3 DEF RestInv, TakenWasPublished
        <4>5. PICK v \in Workers : pc[v] = "record" /\ job[v][1] = m /\ ~evicted[v]
          BY <4>1, <4>4 DEF RestInv, FactsArrive
        <4> QED
          BY <4>5
      <3> QED
        BY <3>1, <3>2
    <2> QED
      BY <1>2, <2>2
  <1>6. ClaimIsFollowed'
    <2> SUFFICES ASSUME claim' # "free", kills = 0, ~completed'
                 PROVE  \E v \in Workers : Packs(v)'
      BY DEF ClaimIsFollowed
    <2>1. CASE step \in Packaging
      BY <1>2, <2>1 DEF Packs
    <2>2. CASE step \notin Packaging
      <3>1. PICK v \in Workers : Packs(v)
        BY <2>2 DEF RestInv, ClaimIsFollowed
      <3> QED
        BY <1>2, <2>2, <3>1 DEF Packs
    <2> QED
      BY <2>1, <2>2
  <1>7. AnnouncedIsKnown'
    BY <1>2 DEF RestInv, AnnouncedIsKnown
  <1>8. TakenWasPublished'
    BY <1>2, <1>3 DEF RestInv, TakenWasPublished
  <1>9. EvictedIsAtWork'
    BY <1>2 DEF RestInv, EvictedIsAtWork
  <1> QED
    BY <1>4, <1>5, <1>6, <1>7, <1>8, <1>9 DEF RestInv

(* Every step of a handler, ... *)
LEMMA HandleRests ==
  ASSUME IInv, IInv', RestInv, NEW w \in Workers, Handle(w)
  PROVE  RestInv'
  <1>1. TypeOK /\ TypeOK'
    BY DEF IInv
  <1>2. CASE Record(w)
    <2>1. Recorded' = Recorded \union {job[w][1]}
      <3>1. CASE job[w][1] = Probed
        BY <1>2, <3>1 DEF Record, Recorded
      <3>2. CASE job[w][1] # Probed
        BY <1>2, <3>2 DEF Record, Recorded
      <3> QED
        BY <3>1, <3>2
    <2> QED
      BY <1>1, <1>2, <2>1, StepRests DEF Record, Steps, Packs, Packaging, budgetVars
  <1>3. CASE RecordTerminal(w)
    BY <1>3, FailureRests DEF RecordTerminal, dbVars, budgetVars, Packs, Packaging
  <1>4. CASE Check(w)
    <2>1. CASE Ready
      BY <1>1, <1>4, <2>1, StepRests
         DEF Check, Steps, Packs, Packaging, dbVars, budgetVars, Recorded
    <2>2. CASE ~Ready
      BY <1>4, <2>2, ReturnRests DEF Check
    <2> QED
      BY <2>1, <2>2
  <1>5. CASE Exists(w)
    BY <1>1, <1>5, StepRests
       DEF Exists, Steps, Packs, Packaging, dbVars, budgetVars, Recorded
  <1>6. CASE Claim(w)
    <2>1. CASE claim \in {"free", "stale"}
      BY <1>1, <1>6, <2>1, StepRests
         DEF Claim, Steps, Packs, Packaging, budgetVars, Recorded
    <2>2. CASE claim \notin {"free", "stale"}
      <3>1. claim = "live"
        BY <1>1, <2>2 DEF TypeOK
      <3> QED
        BY <1>6, <2>2, <3>1, ReturnRests DEF Claim, dbVars
    <2> QED
      BY <2>1, <2>2
  <1>7. CASE Upload(w) \/ Copy(w) \/ Delete(w)
    <2>1. PICK step \in {"copy", "delete", "release", "announce"} : Goto(w, step)
      BY <1>7 DEF Upload, Copy, Delete
    <2> QED
      BY <1>1, <1>7, <2>1, StepRests
         DEF Upload, Copy, Delete, Steps, Packs, Packaging, dbVars, budgetVars, Recorded
  <1>8. CASE AnnounceCompleted(w)
    <2>1. PICK step \in {"announced", "reannounced"} :
            /\ Goto(w, step)
            /\ pc[w] \in {"announce", "reannounce"}
            /\ step = "announced" <=> pc[w] = "announce"
      BY <1>8 DEF AnnounceCompleted
    <2> QED
      BY <1>1, <1>8, <2>1, StepRests
         DEF AnnounceCompleted, Steps, Packs, Packaging, dbVars, budgetVars, Recorded
  <1>9. CASE Finish(w)
    BY <1>9, ReturnRests DEF Finish
  <1>10. CASE Release(w)
    BY <1>10, FailureRests DEF Release
  <1> QED
    BY <1>2, <1>3, <1>4, <1>5, <1>6, <1>7, <1>8, <1>9, <1>10 DEF Handle

(* ... every call that fails, ... *)
LEMMA CallFailureRests ==
  ASSUME IInv, IInv', RestInv, NEW w \in Workers,
         CallFails(w) \/ ClaimAnswerLost(w) \/ ReleaseFails(w)
  PROVE  RestInv'
  <1>1. TypeOK /\ TypeOK'
    BY DEF IInv
  <1>2. CASE CallFails(w) /\ FailTransient(w) /\ ~Packs(w) /\ pc[w] # "idle"
    BY <1>2, FailureRests DEF CallFails, dbVars
  <1>3. CASE CallFails(w) /\ Goto(w, "release") /\ Packs(w)
    BY <1>1, <1>3, StepRests DEF CallFails, Steps, Packs, Packaging, dbVars, Recorded
  <1>4. CASE ReleaseFails(w)
    <2>1. kills' > 0
      BY <1>1, <1>4 DEF ReleaseFails, TypeOK
    <2> QED
      BY <1>4, <2>1, FailureRests DEF ReleaseFails, dbVars
  <1>5. CASE ClaimAnswerLost(w)
    <2>1. kills' > 0
      BY <1>1, <1>5 DEF ClaimAnswerLost, TypeOK
    <2> QED
      BY <1>5, <2>1, FailureRests DEF ClaimAnswerLost
  <1> QED
    BY <1>2, <1>3, <1>4, <1>5 DEF CallFails, Packs, Packaging

(* ... every delivery, ... *)
LEMMA TakeRests ==
  ASSUME IInv, RestInv, NEW w \in Workers, NEW c \in waiting, Take(w, c)
  PROVE  RestInv'
  <1>1. TypeOK /\ pc[w] = "idle" /\ ~evicted[w] /\ UNCHANGED <<Recorded, evicted>>
    BY DEF IInv, TypeOK, Take, Recorded, dbVars, RestInv, EvictedIsAtWork
  <1>2. /\ pc'[w] = "record" /\ job'[w] = c
        /\ \A v \in Workers \ {w} : pc'[v] = pc[v] /\ job'[v] = job[v]
        /\ waiting' = waiting \ {c}
    BY <1>1 DEF Take, TypeOK
  <1>3. PICK m \in Messages, n \in 0 .. Tiers : c = <<m, n>>
    BY <1>1 DEF TypeOK, Copies
  <1>4. FactsArrive'
    <2> SUFFICES ASSUME NEW k \in Messages \ Recorded, ~(k \in unpublished \union dead),
                        ~ \E i \in 0 .. Tiers : <<k, i>> \in waiting'
                 PROVE  \E v \in Workers : pc'[v] = "record" /\ job'[v][1] = k /\ ~evicted[v]
      BY <1>1 DEF FactsArrive, Take
    <2>1. CASE k = m
      BY <1>1, <1>2, <1>3, <2>1
    <2>2. CASE k # m
      <3>1. ASSUME NEW i \in 0 .. Tiers PROVE <<k, i>> \notin waiting
        <4>1. <<k, i>> # c
          BY <1>3, <2>2
        <4> QED
          BY <1>2, <4>1
      <3>2. PICK v \in Workers : pc[v] = "record" /\ job[v][1] = k /\ ~evicted[v]
        BY <3>1 DEF RestInv, FactsArrive
      <3> QED
        BY <1>1, <1>2, <3>2
    <2> QED
      BY <2>1, <2>2
  <1>5. JoinIsFollowed'
    BY <1>1, <1>2 DEF JoinIsFollowed
  <1>6. ClaimIsFollowed'
    <2> SUFFICES ASSUME claim # "free", kills = 0, ~completed
                 PROVE  \E v \in Workers : Packs(v)'
      BY DEF ClaimIsFollowed, Take, dbVars, budgetVars
    <2>1. PICK v \in Workers : Packs(v)
      BY DEF RestInv, ClaimIsFollowed
    <2> QED
      BY <1>1, <1>2, <2>1 DEF Packs, Packaging
  <1>7. AnnouncedIsKnown'
    BY <1>2 DEF RestInv, AnnouncedIsKnown, Take
  <1>8. TakenWasPublished'
    <2>1. m \notin unpublished
      BY <1>3 DEF RestInv, TakenWasPublished
    <2> QED
      BY <1>2, <1>3, <2>1 DEF RestInv, TakenWasPublished, Take
  <1>9. EvictedIsAtWork'
    BY <1>1, <1>2 DEF RestInv, EvictedIsAtWork
  <1> QED
    BY <1>4, <1>5, <1>6, <1>7, <1>8, <1>9 DEF RestInv

(* ... every message that waits once more, every claim that goes stale, ... *)
LEMMA DeliveriesRest ==
  ASSUME IInv, RestInv,
         (\E m \in Messages : Publish(m) \/ Redeliver(m)) \/ ClaimGoesStale
  PROVE  RestInv'
  <1>1. UNCHANGED <<Recorded, dead, acked, pc, job, evicted, kills, completed, playlists,
                    expected>>
    BY DEF Publish, Redeliver, ClaimGoesStale, Recorded, dbVars, workerVars, budgetVars,
           kafkaVars
  <1>2. CASE ClaimGoesStale
    <2>1. UNCHANGED <<unpublished, waiting>> /\ claim = "live" /\ claim' = "stale"
      BY <1>2 DEF ClaimGoesStale, kafkaVars
    <2> QED
      BY <1>1, <2>1
         DEF RestInv, FactsArrive, JoinIsFollowed, ClaimIsFollowed, AnnouncedIsKnown,
             TakenWasPublished, EvictedIsAtWork, Packs
  <1>3. ASSUME NEW m \in Messages, Publish(m) \/ Redeliver(m)
        PROVE  RestInv'
    <2>1. /\ claim' = claim /\ waiting' = waiting \union {<<m, 0>>}
          /\ unpublished' \subseteq unpublished /\ unpublished \ unpublished' \subseteq {m}
          /\ m \notin unpublished'
      BY <1>3 DEF Publish, Redeliver, dbVars, RestInv, TakenWasPublished
    <2>2. 0 \in 0 .. Tiers
      BY PackagerAssumption
    <2>3. FactsArrive'
      BY <1>1, <2>1, <2>2 DEF RestInv, FactsArrive
    <2>4. JoinIsFollowed' /\ ClaimIsFollowed' /\ AnnouncedIsKnown' /\ EvictedIsAtWork'
      BY <1>1, <2>1
         DEF RestInv, JoinIsFollowed, Ready, ClaimIsFollowed, AnnouncedIsKnown,
             EvictedIsAtWork, Packs
    <2>5. TakenWasPublished'
      BY <1>1, <2>1 DEF RestInv, TakenWasPublished
    <2> QED
      BY <2>3, <2>4, <2>5 DEF RestInv
  <1> QED
    BY <1>2, <1>3

(* ... and every worker that loses its partition or its life. *)
LEMMA LossRests ==
  ASSUME IInv, RestInv, NEW w \in Workers, Evict(w) \/ Kill(w)
  PROVE  RestInv'
  <1>1. TypeOK /\ pc[w] # "idle"
        /\ UNCHANGED <<Recorded, unpublished, dead, acked, claim, completed, playlists,
                       expected>>
    BY DEF IInv, Evict, Kill, dbVars, Recorded
  <1>2. /\ \A v \in Workers \ {w} :
             pc'[v] = pc[v] /\ job'[v] = job[v] /\ evicted'[v] = evicted[v]
        /\ \/ pc'[w] = "idle" /\ ~evicted'[w] /\ kills' > 0
           \/ pc'[w] = pc[w] /\ job'[w] = job[w] /\ evicted'[w] /\ kills' = kills
    <2>1. CASE Evict(w)
      BY <1>1, <2>1 DEF Evict, TypeOK
    <2>2. CASE Kill(w)
      <3>1. kills' > 0
        BY <1>1, <2>2 DEF Kill, TypeOK
      <3> QED
        BY <1>1, <2>2, <3>1, AfterIdle DEF Kill
    <2> QED
      BY <2>1, <2>2
  <1>3. PICK m \in Messages, n \in 0 .. Tiers : job[w] = <<m, n>>
    BY <1>1 DEF TypeOK, Copies
  <1>4. /\ waiting \subseteq waiting' /\ waiting' \subseteq waiting \union {job[w]}
        /\ ~evicted[w] => job[w] \in waiting'
    BY DEF Evict, Kill
  <1>5. FactsArrive'
    <2> SUFFICES ASSUME NEW k \in Messages \ Recorded, ~(k \in unpublished \union dead),
                        ~ \E i \in 0 .. Tiers : <<k, i>> \in waiting'
                 PROVE  \E v \in Workers :
                          pc'[v] = "record" /\ job'[v][1] = k /\ ~evicted'[v]
      BY <1>1 DEF FactsArrive
    <2>1. PICK v \in Workers : pc[v] = "record" /\ job[v][1] = k /\ ~evicted[v]
      BY <1>4 DEF RestInv, FactsArrive
    <2>2. v # w
      BY <1>3, <1>4, <2>1
    <2> QED
      BY <1>2, <2>1, <2>2
  <1>6. JoinIsFollowed'
    BY <1>1, <1>2, <1>4 DEF RestInv, JoinIsFollowed, Ready
  <1>7. ClaimIsFollowed'
    BY <1>1, <1>2 DEF RestInv, ClaimIsFollowed, Packs
  <1>8. AnnouncedIsKnown'
    BY <1>1, <1>2 DEF RestInv, AnnouncedIsKnown
  <1>9. TakenWasPublished'
    BY <1>1, <1>2, <1>3, <1>4 DEF RestInv, TakenWasPublished
  <1>10. EvictedIsAtWork'
    BY <1>1, <1>2 DEF RestInv, EvictedIsAtWork
  <1> QED
    BY <1>5, <1>6, <1>7, <1>8, <1>9, <1>10 DEF RestInv

(* Nothing is published yet, nobody at work, the claim free. *)
LEMMA InitRests == Init => RestInv
  BY PackagerAssumption
     DEF Init, RestInv, FactsArrive, JoinIsFollowed, Ready, ClaimIsFollowed,
         AnnouncedIsKnown, TakenWasPublished, EvictedIsAtWork

(* Every step keeps the second invariant, given the first. *)
LEMMA NextRests == IInv /\ IInv' /\ RestInv /\ [Next]_vars => RestInv'
  <1> SUFFICES ASSUME IInv, IInv', RestInv, [Next]_vars
               PROVE  RestInv'
    OBVIOUS
  <1>1. CASE (\E m \in Messages : Publish(m) \/ Redeliver(m)) \/ ClaimGoesStale
    BY <1>1, DeliveriesRest
  <1>2. ASSUME NEW w \in Workers,
               \/ \E c \in waiting : Take(w, c)
               \/ Handle(w) \/ CallFails(w) \/ ClaimAnswerLost(w) \/ ReleaseFails(w)
               \/ Evict(w) \/ Kill(w)
        PROVE  RestInv'
    BY <1>2, TakeRests, HandleRests, CallFailureRests, LossRests
  <1>3. CASE UNCHANGED vars
    BY <1>3
       DEF vars, dbVars, kafkaVars, workerVars, budgetVars, RestInv, FactsArrive,
           Recorded, JoinIsFollowed, Ready, ClaimIsFollowed, Packs, AnnouncedIsKnown,
           TakenWasPublished, EvictedIsAtWork
  <1> QED
    BY <1>1, <1>2, <1>3 DEF Next

(* Whatever the group, the ladder and the faults: a video that never becomes *)
(* available, although nobody gave a message up and none is under way, was   *)
(* stranded by a claim that a kill (or a failed release, or a lost answer to *)
(* the claim) left behind, and by nothing else (handle, _try_package, claim, *)
(* release_claim).                                                           *)
THEOREM StrandedByAClaimTheorem == Spec => []StrandedByAClaim
  <1>1. IInv /\ RestInv => StrandedByAClaim
    <2> SUFFICES ASSUME IInv, RestInv, Quiet, dead = {}, ~completed
                 PROVE  claim # "free" /\ kills > 0
      BY DEF StrandedByAClaim
    <2>1. TypeOK
      BY DEF IInv
    <2>2. Messages \subseteq Recorded
      BY DEF RestInv, FactsArrive, Quiet
    <2>3. claim # "free"
      BY <2>1, <2>2, ReadyFacts DEF RestInv, JoinIsFollowed, Quiet
    <2>4. kills # 0
      BY <2>3 DEF RestInv, ClaimIsFollowed, Quiet, Packs, Packaging
    <2> QED
      BY <2>1, <2>3, <2>4 DEF TypeOK
  <1>2. Init => RestInv
    BY InitRests
  <1>3. IInv /\ IInv' /\ RestInv /\ [Next]_vars => RestInv'
    BY NextRests
  <1> QED
    BY <1>1, <1>2, <1>3, Invariant, PTL DEF Spec

-----------------------------------------------------------------------------
(* The refinement. *)

(* A handler that ends may give its message up; the fan-in sees no more. *)
LEMMA OutcomeOnTheFan ==
  ASSUME TypeOK, NEW w \in Workers, pc[w] # "idle",
         Succeed(w) \/ FailTransient(w) \/ FailTerminal(w),
         UNCHANGED <<expected, playlists, master, completed>>
  PROVE  [Fan!FanNext]_Fan!fanVars
  <1>1. job[w][1] \in Messages
    BY JobFacts
  <1>2. dead' = dead \/ dead' = dead \union {job[w][1]}
    BY OutcomeFacts
  <1>3. Recorded' = Recorded
    BY DEF Recorded
  <1>4. CASE dead' = dead
    BY <1>3, <1>4 DEF Fan!fanVars
  <1>5. CASE dead' = dead \union {job[w][1]}
    BY <1>1, <1>3, <1>5 DEF Fan!FanNext, Fan!GiveUp
  <1> QED
    BY <1>2, <1>4, <1>5

(* What touches neither the facts nor the playlist is a stutter. *)
LEMMA AsideOfTheFan ==
  ASSUME UNCHANGED <<expected, playlists, master, completed, dead>>
  PROVE  [Fan!FanNext]_Fan!fanVars
  BY DEF Recorded, Fan!fanVars

(* Recording a fact is an arrival, ... *)
LEMMA RecordOnTheFan ==
  ASSUME TypeOK, NEW w \in Workers, Record(w)
  PROVE  [Fan!FanNext]_Fan!fanVars
  <1> DEFINE m == job[w][1]
  <1>1. m \in Messages
    BY JobFacts DEF Record
  <1>2. Recorded' = Recorded \union {m}
    <2>1. CASE m = Probed
      BY <2>1 DEF Record, Recorded
    <2>2. CASE m # Probed
      BY <2>2 DEF Record, Recorded
    <2> QED
      BY <2>1, <2>2
  <1>3. UNCHANGED <<master, completed, dead>>
    BY DEF Record, Goto, kafkaVars, storeVars
  <1> HIDE DEF m
  <1> QED
    BY <1>1, <1>2, <1>3 DEF Fan!FanNext, Fan!Arrive

(* ... promoting the master playlist is the packaging, of a complete join,   *)
(* ...                                                                       *)
LEMMA CopyOnTheFan ==
  ASSUME IInv, NEW w \in Workers, Copy(w)
  PROVE  [Fan!FanNext]_Fan!fanVars
  <1>1. Ready
    BY DEF IInv, CheckedIsReady, Copy
  <1>2. Recorded = Messages
    BY <1>1 DEF Ready, Recorded, Messages
  <1>3. UNCHANGED <<Recorded, completed, dead>>
    BY DEF Copy, Goto, kafkaVars, dbVars, Recorded
  <1>4. CASE scratch
    BY <1>2, <1>3, <1>4 DEF Copy, Fan!FanNext, Fan!Package
  <1>5. CASE ~scratch
    BY <1>3, <1>5 DEF Copy, Fan!fanVars
  <1> QED
    BY <1>4, <1>5

(* ... and video.completed the announcement, of a master playlist.           *)
LEMMA AnnounceOnTheFan ==
  ASSUME IInv, NEW w \in Workers, AnnounceCompleted(w)
  PROVE  [Fan!FanNext]_Fan!fanVars
  <1>1. master
    BY DEF IInv, PromotedIsThere, AnnounceCompleted
  <1>2. UNCHANGED <<Recorded, master, dead>>
    BY DEF AnnounceCompleted, Goto, kafkaVars, dbVars, storeVars, Recorded
  <1> QED
    BY <1>1, <1>2 DEF AnnounceCompleted, Fan!FanNext, Fan!Announce

(* Each of a handler's steps is a step of the fan-in, or a stutter. *)
LEMMA HandleOnTheFan ==
  ASSUME IInv, NEW w \in Workers, Handle(w)
  PROVE  [Fan!FanNext]_Fan!fanVars
  <1>1. TypeOK
    BY DEF IInv
  <1>2. CASE Record(w)
    BY <1>1, <1>2, RecordOnTheFan
  <1>3. CASE Copy(w)
    BY <1>3, CopyOnTheFan
  <1>4. CASE AnnounceCompleted(w)
    BY <1>4, AnnounceOnTheFan
  <1>5. CASE RecordTerminal(w) \/ Finish(w) \/ Release(w)
    BY <1>1, <1>5, OutcomeOnTheFan
       DEF RecordTerminal, Finish, Release, dbVars, storeVars
  <1>6. CASE Check(w)
    BY <1>1, <1>6, OutcomeOnTheFan, AsideOfTheFan
       DEF Check, Goto, kafkaVars, dbVars, storeVars
  <1>7. CASE Claim(w)
    BY <1>1, <1>7, OutcomeOnTheFan, AsideOfTheFan DEF Claim, Goto, kafkaVars, storeVars
  <1>8. CASE Exists(w) \/ Upload(w) \/ Delete(w)
    BY <1>8, AsideOfTheFan DEF Exists, Upload, Delete, Goto, kafkaVars, dbVars, storeVars
  <1> QED
    BY <1>2, <1>3, <1>4, <1>5, <1>6, <1>7, <1>8 DEF Handle

(* The stage implements the join of ADR-0013: a message persists its own     *)
(* fact, master.m3u8 comes only when all are there, video.completed only     *)
(* when master.m3u8 is there, and nothing is taken back, whatever workers    *)
(* interleave, fail, die or are evicted, and whatever claims go stale.       *)
THEOREM ImplementsFanInTheorem == Spec => ImplementsFanIn
  <1>1. Init => Fan!FanInit
    BY DEF Init, Fan!FanInit, Recorded
  <1>2. IInv /\ [Next]_vars => [Fan!FanNext]_Fan!fanVars
    <2> SUFFICES ASSUME IInv, [Next]_vars
                 PROVE  [Fan!FanNext]_Fan!fanVars
      OBVIOUS
    <2>1. TypeOK
      BY DEF IInv
    <2>2. CASE \E m \in Messages : Publish(m) \/ Redeliver(m)
      BY <2>2, AsideOfTheFan DEF Publish, Redeliver, dbVars, storeVars
    <2>3. ASSUME NEW w \in Workers, Handle(w)
          PROVE  [Fan!FanNext]_Fan!fanVars
      BY <2>3, HandleOnTheFan
    <2>4. ASSUME NEW w \in Workers, CallFails(w)
          PROVE  [Fan!FanNext]_Fan!fanVars
      <3>1. CASE pc[w] # "idle" /\ FailTransient(w)
        BY <2>1, <2>4, <3>1, OutcomeOnTheFan DEF CallFails, dbVars, storeVars
      <3>2. CASE Goto(w, "release")
        BY <2>4, <3>2, AsideOfTheFan DEF CallFails, Goto, kafkaVars, dbVars, storeVars
      <3> QED
        BY <2>4, <3>1, <3>2 DEF CallFails
    <2>5. ASSUME NEW w \in Workers, ClaimAnswerLost(w) \/ ReleaseFails(w)
          PROVE  [Fan!FanNext]_Fan!fanVars
      BY <2>1, <2>5, OutcomeOnTheFan DEF ClaimAnswerLost, ReleaseFails, dbVars, storeVars
    <2>6. ASSUME NEW w \in Workers,
                 (\E c \in waiting : Take(w, c)) \/ Evict(w) \/ Kill(w)
          PROVE  [Fan!FanNext]_Fan!fanVars
      BY <2>6, AsideOfTheFan DEF Take, Evict, Kill, dbVars, storeVars
    <2>7. CASE ClaimGoesStale
      BY <2>7, AsideOfTheFan DEF ClaimGoesStale, kafkaVars, storeVars
    <2>8. CASE UNCHANGED vars
      BY <2>8, AsideOfTheFan DEF vars, dbVars, storeVars, kafkaVars
    <2> QED
      BY <2>2, <2>3, <2>4, <2>5, <2>6, <2>7, <2>8 DEF Next
  <1> QED
    BY <1>1, <1>2, Invariant, PTL DEF Spec, ImplementsFanIn, Fan!FanSafety
=============================================================================
