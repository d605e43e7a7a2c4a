---------------------------- MODULE PipelineProofs ----------------------------
(***************************************************************************)
(* Proofs about Pipeline: for any ladder, any bound on the projector's lag *)
(* and on the faults, a master playlist stands for the whole ladder, and   *)
(* nothing of what a video's upload sets off is lost on its way to the row *)
(* unless a message is dead.                                               *)
(***************************************************************************)
EXTENDS Pipeline, TLAPS

-----------------------------------------------------------------------------
(* The inductive invariant: what there is, is true. *)

(* A rendition is announced, and a video completed, only with the objects in *)
(* the store.                                                                *)
TrueMessage(m) ==
  /\ m.kind = "rendition.completed" => m.about \in stored
  /\ m.state = "completed" => "master" \in stored

(* The projector has still to apply m. *)
InLog(m) == \E i \in 1 .. Len(statusLog) : statusLog[i] = m

OnItsTopic(t) == t[1] \in Subscribers(t[2])

MessagesAreTrue ==
  /\ \A t \in todo : OnItsTopic(t) /\ TrueMessage(t[2])
  /\ \A f \in flying :
       OnItsTopic(f[1]) /\ TrueMessage(f[1][2]) /\ TrueMessage(f[2])
  /\ \A p \in packing :
       p[1][1] = "package" /\ OnItsTopic(p[1]) /\ TrueMessage(p[1][2])
  /\ \A m \in dead : TrueMessage(m)
  /\ \A m \in Statuses : InLog(m) => TrueMessage(m)

StoreIsTrue ==
  /\ ready \subseteq stored
  /\ "master" \in stored => expected /\ ready = Ladder
  /\ row.master => "master" \in stored
  /\ packing # {} => expected /\ ready = Ladder

(* A claim without a master is held, or was left behind.                     *)
ClaimIsHeld ==
  claimed /\ "master" \notin stored => abandoned \/ \E p \in packing : p[2] = "promote"

(* The inductive invariant: nothing is lost. *)

Uploaded     == Msg("video.uploaded", NoRendition)
Probed       == Msg("video.probed", NoRendition)
Requested(r) == Msg("rendition.requested", r)
Completed(r) == Msg("rendition.completed", r)

(* The message m has still to make the stage publish out. *)
Owes(stage, m, out) ==
  <<stage, m>> \in todo \/ <<<<stage, m>>, out>> \in flying

Thumbs == Status("transcoding", NoRendition)
Plan   == Status("probed", NoRendition)
Piece(r) == Status("transcoding", r)
Whole  == Status("completed", NoRendition)

(* Of each chain that begins with the upload one link at least is there. *)
ProbeReachesJoin ==
  Owes("probe", Uploaded, Probed) \/ <<"package", Probed>> \in todo \/ expected

ProbeReachesThumbnails ==
  \/ Owes("probe", Uploaded, Probed) \/ Owes("thumbnail", Probed, Thumbs)
  \/ InLog(Thumbs) \/ row.thumbnails

ProbeReachesRow ==
  Owes("probe", Uploaded, Plan) \/ InLog(Plan) \/ row.expected

RenditionReachesJoin(r) ==
  \/ Owes("probe", Uploaded, Requested(r))
  \/ Owes("transcode", Requested(r), Completed(r))
  \/ <<"package", Completed(r)>> \in todo \/ r \in ready

RenditionReachesRow(r) ==
  \/ Owes("probe", Uploaded, Requested(r))
  \/ Owes("transcode", Requested(r), Piece(r))
  \/ InLog(Piece(r)) \/ renditions[r] = "completed"

(* A complete join is waiting to be packaged, or in hand, or its claim was   *)
(* left behind; a master is waiting to be announced, or announced.           *)
ToPackage  == \E m \in Events : <<"package", m>> \in todo
ToAnnounce == \E m \in Events : Owes("package", m, Whole)

JoinReachesRow ==
  /\ expected /\ ready = Ladder /\ "master" \notin stored =>
       ToPackage \/ packing # {} \/ (abandoned /\ claimed)
  /\ "master" \in stored => ToAnnounce \/ InLog(Whole) \/ row.master

Published == api \in {"status", "done"}

NothingIsLost ==
  /\ failures = {} /\ ~row.reason
  /\ Published =>
       /\ ProbeReachesJoin /\ ProbeReachesThumbnails /\ ProbeReachesRow
       /\ \A r \in Ladder : RenditionReachesJoin(r) /\ RenditionReachesRow(r)
  /\ JoinReachesRow

IInv ==
  /\ TypeOK
  /\ MessagesAreTrue
  /\ StoreIsTrue
  /\ ClaimIsHeld
  /\ dead = {} => NothingIsLost

-----------------------------------------------------------------------------
(* Messages and where they go. *)

(* The kinds of message and what is in them. *)
LEMMA MessageFacts ==
  /\ \A m \in Events :
       /\ m.kind # "video.status" /\ m.state = "none"
       /\ m.about \in Ladder \union {NoRendition}
       /\ m.kind = "video.uploaded" => m = Uploaded
       /\ m.kind = "video.probed" => m = Probed
       /\ m.kind \in {"rendition.requested", "rendition.completed"} => m.about \in Ladder
       /\ m.kind = "rendition.requested" => m = Requested(m.about)
       /\ m.kind = "rendition.completed" => m = Completed(m.about)
  /\ \A m \in Statuses : m.kind = "video.status" /\ m.about \in Ladder \union {NoRendition}
  BY DEF Events, Statuses, Msg, Status, Uploaded, Probed, Requested, Completed

(* The messages the chains are made of are messages of the model. *)
LEMMA ChainFacts ==
  /\ Uploaded \in Events /\ Probed \in Events
  /\ \A r \in Ladder : Requested(r) \in Events /\ Completed(r) \in Events
  /\ Thumbs \in Statuses /\ Plan \in Statuses /\ Whole \in Statuses
  /\ \A r \in Ladder : Piece(r) \in Statuses
  BY DEF Events, Statuses, States, Uploaded, Probed, Requested, Completed, Thumbs, Plan,
         Whole, Piece

(* A message goes to its subscribers, and a status to none of them. *)
LEMMA FanFacts ==
  ASSUME NEW m \in Events \union Statuses
  PROVE  /\ Fan(m) \subseteq Tasks
         /\ \A t \in Fan(m) : OnItsTopic(t) /\ t[2] = m
         /\ m \in Statuses => Fan(m) = {}
  <1>1. Subscribers(m) \subseteq Stages
    BY DEF Subscribers, Stages
  <1>2. CASE m \in Statuses
    BY <1>2, MessageFacts DEF Fan, Subscribers
  <1>3. CASE m \in Events
    <2>1. m \notin Statuses
      BY <1>3, MessageFacts
    <2> QED
      BY <1>1, <1>3, <2>1 DEF Fan, Tasks, OnItsTopic
  <1> QED
    BY <1>2, <1>3

(* Who reads a topic. *)
LEMMA SubscriberFacts ==
  ASSUME NEW m \in Events, NEW stage, OnItsTopic(<<stage, m>>)
  PROVE  /\ stage = "probe" => m = Uploaded
         /\ stage = "thumbnail" => m = Probed
         /\ stage = "transcode" => m.about \in Ladder /\ m = Requested(m.about)
         /\ stage = "package" =>
              m = Probed \/ (m.about \in Ladder /\ m = Completed(m.about))
  <1>1. stage \in Subscribers(m)
    BY DEF OnItsTopic
  <1> QED
    BY <1>1, MessageFacts DEF Subscribers

(* Where the events of the chains go. *)
LEMMA TopicFacts ==
  /\ <<"probe", Uploaded>> \in Fan(Uploaded)
  /\ <<"thumbnail", Probed>> \in Fan(Probed)
  /\ <<"package", Probed>> \in Fan(Probed)
  /\ \A r \in Ladder : <<"transcode", Requested(r)>> \in Fan(Requested(r))
  /\ \A r \in Ladder : <<"package", Completed(r)>> \in Fan(Completed(r))
  BY DEF Fan, Subscribers, Uploaded, Probed, Requested, Completed, Msg

(* What is appended to the projector's queue is in it, behind the rest. *)
LEMMA AppendFacts ==
  ASSUME NEW s \in Seq(Statuses), NEW e \in Statuses
  PROVE  /\ Append(s, e) \in Seq(Statuses)
         /\ Len(Append(s, e)) = Len(s) + 1
         /\ \A i \in 1 .. Len(s) : Append(s, e)[i] = s[i]
         /\ Append(s, e)[Len(s) + 1] = e
  OBVIOUS

(* What is behind the head of the projector's queue stays in it. *)
LEMMA TailFacts ==
  ASSUME NEW s \in Seq(Statuses), s # <<>>
  PROVE  /\ Tail(s) \in Seq(Statuses)
         /\ Head(s) \in Statuses /\ Head(s) = s[1]
         /\ Len(s) \in Nat /\ Len(s) >= 1
         /\ Len(Tail(s)) = Len(s) - 1
         /\ \A i \in 1 .. Len(s) - 1 : Tail(s)[i] = s[i + 1]
  OBVIOUS

(* A status that reaches its topic, and one that does not. *)
LEMMA LogFacts ==
  ASSUME TypeOK, NEW m \in Statuses, statusLog' = Append(statusLog, m)
  PROVE  /\ statusLog' \in Seq(Statuses)
         /\ \A x : InLog(x)' <=> InLog(x) \/ x = m
  <1>1. /\ statusLog' \in Seq(Statuses)
        /\ Len(statusLog') = Len(statusLog) + 1
        /\ \A i \in 1 .. Len(statusLog) : statusLog'[i] = statusLog[i]
        /\ statusLog'[Len(statusLog) + 1] = m
    BY AppendFacts DEF TypeOK
  <1>2. Len(statusLog) \in Nat
    BY DEF TypeOK
  <1>3. 1 .. Len(statusLog') = 1 .. Len(statusLog) \union {Len(statusLog) + 1}
    BY <1>1, <1>2
  <1> QED
    BY <1>1, <1>3 DEF InLog

(* A message that reaches its topic. *)
LEMMA ArriveFacts ==
  ASSUME TypeOK, NEW m \in Events \union Statuses, Arrive(m)
  PROVE  /\ todo' = todo \union Fan(m) /\ todo' \subseteq Tasks
         /\ statusLog' \in Seq(Statuses)
         /\ \A x : InLog(x)' <=> InLog(x) \/ (m \in Statuses /\ x = m)
  <1>1. todo' = todo \union Fan(m) /\ todo' \subseteq Tasks
    BY FanFacts DEF TypeOK, Arrive
  <1>2. m \in Statuses <=> m.kind = "video.status"
    BY MessageFacts
  <1>3. CASE m \in Statuses
    BY <1>1, <1>2, <1>3, LogFacts DEF Arrive
  <1>4. CASE m \notin Statuses
    BY <1>1, <1>2, <1>4 DEF Arrive, TypeOK, InLog
  <1> QED
    BY <1>3, <1>4

-----------------------------------------------------------------------------
(* What is left to show of a step. *)

(* What is in the store stays, so a true message stays true; only the new    *)
(* ones are to be looked at.                                                 *)
LEMMA TruthKeeps ==
  ASSUME MessagesAreTrue, stored \subseteq stored',
         \A t \in todo' : t \in todo \/ (OnItsTopic(t) /\ TrueMessage(t[2])'),
         \A f \in flying' :
           \/ f \in flying
           \/ OnItsTopic(f[1]) /\ TrueMessage(f[1][2])' /\ TrueMessage(f[2])',
         \A p \in packing' :
           \/ p \in packing
           \/ p[1][1] = "package" /\ OnItsTopic(p[1]) /\ TrueMessage(p[1][2])',
         \A m \in dead' : m \in dead \/ TrueMessage(m)',
         \A m \in Statuses : InLog(m)' => InLog(m) \/ TrueMessage(m)'
  PROVE  MessagesAreTrue'
  <1>1. \A m : TrueMessage(m) => TrueMessage(m)'
    BY DEF TrueMessage
  <1> QED
    BY <1>1 DEF MessagesAreTrue, OnItsTopic

(* What a stage owes is owed still, or has arrived at whoever waits for it.  *)
Arrived(m) == Fan(m) \subseteq todo /\ (m \in Statuses => InLog(m))

(* What the stages publish for the next link of a chain. *)
Chained(stage, m, out) ==
  \/ /\ stage = "probe" /\ m = Uploaded
     /\ out \in {Probed, Plan} \union {Requested(r) : r \in Ladder}
  \/ stage = "thumbnail" /\ m = Probed /\ out = Thumbs
  \/ /\ stage = "transcode"
     /\ \E r \in Ladder : m = Requested(r) /\ out \in {Completed(r), Piece(r)}

(* Every chain keeps a link if each link is kept or replaced by the next.    *)
LEMMA ChainsKeep ==
  ASSUME NothingIsLost, Published,
         failures' = {}, ~row'.reason,
         \A stage, m, out :
           Chained(stage, m, out) /\ Owes(stage, m, out)
             => Owes(stage, m, out)' \/ Arrived(out)',
         <<"package", Probed>> \in todo \/ expected
           => <<"package", Probed>> \in todo' \/ expected',
         \A r \in Ladder : <<"package", Completed(r)>> \in todo \/ r \in ready
           => <<"package", Completed(r)>> \in todo' \/ r \in ready',
         InLog(Thumbs) \/ row.thumbnails => InLog(Thumbs)' \/ row'.thumbnails,
         InLog(Plan) \/ row.expected => InLog(Plan)' \/ row'.expected,
         \A r \in Ladder : InLog(Piece(r)) \/ renditions[r] = "completed"
           => InLog(Piece(r))' \/ renditions'[r] = "completed",
         JoinReachesRow'
  PROVE  NothingIsLost'
  <1> USE DEF Chained
  <1>1. ProbeReachesJoin'
    <2>1. Arrived(Probed)' => <<"package", Probed>> \in todo'
      BY TopicFacts DEF Arrived, Fan
    <2> QED
      BY <2>1 DEF NothingIsLost, ProbeReachesJoin, Probed, Msg
  <1>2. ProbeReachesThumbnails'
    <2>1. Arrived(Probed)' => Owes("thumbnail", Probed, Thumbs)'
      BY TopicFacts DEF Arrived, Fan, Owes, Probed, Msg
    <2>2. Arrived(Thumbs)' => InLog(Thumbs)'
      BY ChainFacts DEF Arrived
    <2> QED
      BY <2>1, <2>2 DEF NothingIsLost, ProbeReachesThumbnails
  <1>3. ProbeReachesRow'
    BY ChainFacts DEF NothingIsLost, ProbeReachesRow, Arrived
  <1>4. ASSUME NEW r \in Ladder
        PROVE  RenditionReachesJoin(r)' /\ RenditionReachesRow(r)'
    <2>1. Arrived(Requested(r))' => <<"transcode", Requested(r)>> \in todo'
      BY TopicFacts DEF Arrived, Fan
    <2>2. Arrived(Completed(r))' => <<"package", Completed(r)>> \in todo'
      BY TopicFacts DEF Arrived, Fan
    <2>3. Arrived(Piece(r))' => InLog(Piece(r))'
      BY ChainFacts DEF Arrived
    <2>4. RenditionReachesJoin(r)'
      BY <2>1, <2>2 DEF NothingIsLost, RenditionReachesJoin, Owes
    <2>5. RenditionReachesRow(r)'
      BY <2>1, <2>3 DEF NothingIsLost, RenditionReachesRow, Owes
    <2> QED
      BY <2>4, <2>5
  <1> QED
    BY <1>1, <1>2, <1>3, <1>4 DEF NothingIsLost

(* A step by which messages only arrive at their topics, or come again; if   *)
(* the packager gives one up, its message is among them.                     *)
LEMMA ArrivalKeeps ==
  ASSUME IInv, TypeOK', UNCHANGED <<dead, failures, stored, joinVars, rowVars>>,
         todo \subseteq todo', flying' \subseteq flying,
         \A t \in todo' : t \in todo \/ (OnItsTopic(t) /\ TrueMessage(t[2])),
         \A f \in flying : f \in flying' \/ f[1] \in todo' \/ Arrived(f[2])',
         \A x : InLog(x) => InLog(x)',
         \A m \in Statuses : InLog(m)' => InLog(m) \/ TrueMessage(m),
         Published' => Published \/ <<"probe", Uploaded>> \in todo',
         packing' \subseteq packing, ClaimIsHeld',
         UNCHANGED <<packing, claimVars>> \/ ToPackage'
  PROVE  IInv'
  <1>1. MessagesAreTrue'
    <2>1. \A m : TrueMessage(m)' <=> TrueMessage(m)
      BY DEF TrueMessage
    <2> QED
      BY <2>1, TruthKeeps DEF IInv
  <1>2. StoreIsTrue'
    BY DEF IInv, StoreIsTrue, joinVars, rowVars
  <1>3. ASSUME dead = {}
        PROVE  NothingIsLost'
    <2>1. NothingIsLost
      BY <1>3 DEF IInv
    <2>2. \A stage, m, out : Owes(stage, m, out) => Owes(stage, m, out)' \/ Arrived(out)'
      BY DEF Owes
    <2>3. JoinReachesRow'
      <3>1. ToPackage => ToPackage'
        BY DEF ToPackage
      <3>2. ToPackage \/ packing # {} \/ (abandoned /\ claimed)
              => ToPackage' \/ packing' # {} \/ (abandoned' /\ claimed')
        BY <3>1 DEF claimVars
      <3>3. ToAnnounce => ToAnnounce' \/ InLog(Whole)'
        BY <2>2, ChainFacts DEF ToAnnounce, Arrived
      <3> QED
        BY <2>1, <3>2, <3>3 DEF NothingIsLost, JoinReachesRow, joinVars, rowVars
    <2>4. CASE ~Published /\ Published'
      <3>1. \A out : Owes("probe", Uploaded, out)'
        BY <2>4 DEF Owes
      <3> QED
        BY <2>1, <2>3, <3>1 DEF NothingIsLost, ProbeReachesJoin, ProbeReachesThumbnails,
             ProbeReachesRow, RenditionReachesJoin, RenditionReachesRow, rowVars
    <2>5. CASE ~Published'
      BY <2>1, <2>3, <2>5 DEF NothingIsLost, rowVars
    <2>6. CASE Published
      BY <2>1, <2>2, <2>3, <2>6, ChainsKeep DEF NothingIsLost, joinVars, rowVars
    <2> QED
      BY <2>4, <2>5, <2>6
  <1> QED
    BY <1>1, <1>2, <1>3 DEF IInv

(* A claim that nobody touches is held as before. *)
LEMMA ClaimKeeps ==
  ASSUME IInv, UNCHANGED <<packing, claimVars>>, "master" \in stored => "master" \in stored'
  PROVE  ClaimIsHeld'
  BY DEF IInv, ClaimIsHeld, claimVars

(* A message that is handled: the task is done, and what it published is on  *)
(* its way.                                                                  *)
LEMMA HandleFacts ==
  ASSUME IInv, NEW m \in Events, NEW stage, Handling(stage, m),
         NEW out \in SUBSET (Events \union Statuses), Publishes(stage, m, out)
  PROVE  /\ <<stage, m>> \in Tasks /\ OnItsTopic(<<stage, m>>) /\ TrueMessage(m)
         /\ todo' \subseteq Tasks
         /\ flying' \subseteq Tasks \X (Events \union Statuses)
         /\ \A s, x, o : Owes(s, x, o) =>
              Owes(s, x, o)' \/ (s = stage /\ x = m /\ o \notin out)
         /\ \A o \in out : Owes(stage, m, o)'
         /\ \A x : InLog(x)' <=> InLog(x)
  <1>1. <<stage, m>> \in todo /\ <<stage, m>> \in Tasks
    BY DEF IInv, TypeOK, Handling
  <1>2. OnItsTopic(<<stage, m>>) /\ TrueMessage(m)
    BY <1>1 DEF IInv, MessagesAreTrue
  <1>3. /\ todo' \subseteq Tasks
        /\ flying' \subseteq Tasks \X (Events \union Statuses)
    BY <1>1 DEF IInv, TypeOK, Publishes
  <1>4. \A o \in out : Owes(stage, m, o)'
    BY DEF Publishes, Owes
  <1>5. ASSUME NEW s, NEW x, NEW o, Owes(s, x, o)
        PROVE  Owes(s, x, o)' \/ (s = stage /\ x = m /\ o \notin out)
    <2>1. CASE s = stage /\ x = m
      BY <1>5, <2>1, <1>4 DEF Publishes, Owes
    <2>2. CASE ~(s = stage /\ x = m)
      BY <1>5, <2>2 DEF Publishes, Owes
    <2> QED
      BY <2>1, <2>2
  <1>6. \A x : InLog(x)' <=> InLog(x)
    BY DEF Publishes, InLog
  <1> QED
    BY <1>1, <1>2, <1>3, <1>4, <1>5, <1>6

(* A handled message passes on all that waits for it. *)
LEMMA HandleKeeps ==
  ASSUME IInv, TypeOK', NEW m \in Events, NEW stage, Handling(stage, m),
         NEW out \in SUBSET (Events \union Statuses), Publishes(stage, m, out),
         stored \subseteq stored', StoreIsTrue',
         \A o \in out : TrueMessage(o)',
         \A o : Chained(stage, m, o) => o \in out,
         expected => expected', ready \subseteq ready',
         stage = "package" =>
           /\ m = Probed => expected'
           /\ \A r \in Ladder : m = Completed(r) => r \in ready'
           /\ packing' \subseteq packing \union ({<<"package", m>>} \X {"claim"})
           /\ ClaimIsHeld' /\ JoinReachesRow',
         stage # "package" =>
           UNCHANGED <<joinVars, packing>> /\ ("master" \in stored <=> "master" \in stored')
  PROVE  IInv'
  <1>1. /\ <<stage, m>> \in Tasks /\ OnItsTopic(<<stage, m>>) /\ TrueMessage(m)
        /\ \A s, x, o : Owes(s, x, o) =>
             Owes(s, x, o)' \/ (s = stage /\ x = m /\ o \notin out)
        /\ \A o \in out : Owes(stage, m, o)'
        /\ \A x : InLog(x)' <=> InLog(x)
    BY HandleFacts
  <1>2. TrueMessage(m)'
    BY <1>1 DEF TrueMessage
  <1>3. MessagesAreTrue' /\ ClaimIsHeld'
    <2>1. UNCHANGED claimVars
      BY DEF Publishes
    <2>2. \A p \in packing' : p \in packing \/ (stage = "package" /\ p[1] = <<"package", m>>)
      OBVIOUS
    <2>3. \A p \in packing' :
            \/ p \in packing
            \/ p[1][1] = "package" /\ OnItsTopic(p[1]) /\ TrueMessage(p[1][2])'
      BY <1>1, <1>2, <2>2
    <2>4. MessagesAreTrue'
      BY <1>1, <1>2, <2>3, TruthKeeps DEF IInv, Publishes
    <2> QED
      BY <2>1, <2>4, ClaimKeeps
  <1>4. ASSUME dead = {}
        PROVE  NothingIsLost'
    <2>1. NothingIsLost
      BY <1>4 DEF IInv
    <2>2. UNCHANGED <<api, failures, row, renditions>>
      BY DEF Publishes, rowVars
    <2>3. \A s, x, o : Chained(s, x, o) /\ Owes(s, x, o) => Owes(s, x, o)'
      BY <1>1
    <2>4. JoinReachesRow'
      <3>1. CASE stage = "package"
        BY <3>1
      <3>2. CASE stage # "package"
        <4>1. ToPackage => ToPackage'
          BY <3>2 DEF ToPackage, Publishes
        <4>2. ToAnnounce => ToAnnounce'
          BY <1>1, <3>2 DEF ToAnnounce
        <4>3. UNCHANGED <<packing, claimVars>>
          BY <3>2 DEF Publishes
        <4> QED
          BY <1>1, <2>1, <2>2, <3>2, <4>1, <4>2, <4>3
             DEF NothingIsLost, JoinReachesRow, joinVars, claimVars
      <3> QED
        BY <3>1, <3>2
    <2>5. CASE ~Published
      BY <2>1, <2>2, <2>4, <2>5 DEF NothingIsLost, Published
    <2>6. CASE Published
      <3>1. \A x : <<"package", x>> \in todo =>
              <<"package", x>> \in todo' \/ (stage = "package" /\ x = m)
        BY DEF Publishes
      <3>2. /\ <<"package", Probed>> \in todo \/ expected
                 => <<"package", Probed>> \in todo' \/ expected'
            /\ \A r \in Ladder : <<"package", Completed(r)>> \in todo \/ r \in ready
                 => <<"package", Completed(r)>> \in todo' \/ r \in ready'
        BY <3>1
      <3> QED
        BY <1>1, <2>1, <2>2, <2>3, <2>4, <2>6, <3>2, ChainsKeep DEF NothingIsLost
    <2> QED
      BY <2>5, <2>6
  <1> QED
    BY <1>2, <1>3, <1>4 DEF IInv, Publishes

(* The packager goes on with a message it has in hand: no chain is touched   *)
(* but the last, from the join to the row.                                   *)
LEMMA ProceedKeeps ==
  ASSUME IInv, NEW m \in Events, NEW at, NEW then \in SUBSET {"claim", "promote"},
         NEW out \in SUBSET {Whole}, Proceeds(m, at, then, out),
         claimed' \in BOOLEAN, stored' \subseteq stored \union {"master"},
         stored \subseteq stored', out # {} => "master" \in stored',
         ClaimIsHeld', dead = {} => JoinReachesRow'
  PROVE  IInv'
  <1> DEFINE t == <<"package", m>>
  <1>1. /\ <<t, at>> \in packing
        /\ packing' = (packing \ {<<t, at>>}) \union ({t} \X then)
        /\ flying' = flying \union ({t} \X out)
        /\ UNCHANGED <<api, todo, dead, abandoned, statusLog, failures, joinVars, rowVars,
                       faults>>
    BY DEF Proceeds
  <1>2. /\ t \in Tasks /\ OnItsTopic(t) /\ TrueMessage(m)
        /\ packing # {} /\ expected /\ ready = Ladder
    BY <1>1 DEF IInv, TypeOK, MessagesAreTrue, StoreIsTrue
  <1>3. TypeOK'
    <2>1. packing' \subseteq Tasks \X {"claim", "promote"}
      BY <1>1, <1>2 DEF IInv, TypeOK
    <2>2. flying' \subseteq Tasks \X (Events \union Statuses)
      BY <1>1, <1>2, ChainFacts DEF IInv, TypeOK
    <2> QED
      BY <1>1, <2>1, <2>2 DEF IInv, TypeOK, joinVars, rowVars
  <1>4. TrueMessage(m)' /\ \A o \in out : TrueMessage(o)'
    BY <1>2 DEF TrueMessage, Whole, Status
  <1>5. \A x : InLog(x)' <=> InLog(x)
    BY <1>1 DEF InLog
  <1>6. MessagesAreTrue'
    <2>1. \A f \in flying' : f \in flying \/ (f[1] = t /\ f[2] \in out)
      BY <1>1
    <2>2. \A p \in packing' : p \in packing \/ p[1] = t
      BY <1>1
    <2> HIDE DEF t
    <2>3. t[1] = "package" /\ t[2] = m
      BY DEF t
    <2> QED
      BY <1>1, <1>2, <1>4, <1>5, <2>1, <2>2, <2>3, TruthKeeps DEF IInv
  <1>7. StoreIsTrue'
    BY <1>1, <1>2 DEF IInv, StoreIsTrue, joinVars, rowVars
  <1>8. ASSUME dead = {}
        PROVE  NothingIsLost'
    <2>1. NothingIsLost
      BY <1>8 DEF IInv
    <2>2. \A s, x, o : Owes(s, x, o) => Owes(s, x, o)'
      BY <1>1 DEF Owes
    <2>3. CASE ~Published
      BY <1>1, <1>8, <2>1, <2>3 DEF NothingIsLost, Published, rowVars
    <2>4. CASE Published
      BY <1>1, <1>5, <1>8, <2>1, <2>2, <2>4, ChainsKeep DEF NothingIsLost, joinVars, rowVars
    <2> QED
      BY <2>3, <2>4
  <1> QED
    BY <1>1, <1>3, <1>6, <1>7, <1>8 DEF IInv

-----------------------------------------------------------------------------
(* The steps. *)

(* /complete publishes the event, and then the status. *)
LEMMA ApiPublishesKeeps ==
  ASSUME IInv, ApiPublishes
  PROVE  IInv'
  <1>1. PICK m \in Events \union Statuses :
          /\ Arrive(m) /\ TrueMessage(m)
          /\ ~Published => m = Uploaded
          /\ api' \in {"status", "done"}
    <2>1. Status("uploaded", NoRendition) \in Statuses
      BY DEF Statuses, States
    <2> QED
      BY <2>1, ChainFacts DEF ApiPublishes, Uploaded, Msg, Status, TrueMessage, Published
  <1>2. /\ todo' = todo \union Fan(m) /\ todo' \subseteq Tasks
        /\ statusLog' \in Seq(Statuses)
        /\ \A x : InLog(x)' <=> InLog(x) \/ (m \in Statuses /\ x = m)
    BY <1>1, ArriveFacts DEF IInv
  <1>3. TypeOK'
    BY <1>1, <1>2 DEF IInv, TypeOK, ApiPublishes, claimVars, joinVars, rowVars
  <1>4. \A t \in Fan(m) : OnItsTopic(t) /\ t[2] = m
    BY FanFacts
  <1>5. ClaimIsHeld'
    BY ClaimKeeps DEF ApiPublishes
  <1> QED
    BY <1>1, <1>2, <1>3, <1>4, <1>5, TopicFacts, ArrivalKeeps DEF ApiPublishes

(* A publication reaches its topic. *)
LEMMA DeliveredKeeps ==
  ASSUME IInv, NEW f \in flying, Delivered(f)
  PROVE  IInv'
  <1>1. f[2] \in Events \union Statuses /\ TrueMessage(f[2])
    BY DEF IInv, TypeOK, MessagesAreTrue
  <1>2. /\ todo' = todo \union Fan(f[2]) /\ todo' \subseteq Tasks
        /\ statusLog' \in Seq(Statuses)
        /\ \A x : InLog(x)' <=> InLog(x) \/ (f[2] \in Statuses /\ x = f[2])
    BY <1>1, ArriveFacts DEF IInv, Delivered
  <1>3. TypeOK'
    BY <1>2 DEF IInv, TypeOK, Delivered, claimVars, joinVars, rowVars
  <1>4. \A t \in Fan(f[2]) : OnItsTopic(t) /\ t[2] = f[2]
    BY <1>1, FanFacts
  <1>5. Arrived(f[2])'
    BY <1>2 DEF Arrived, Fan
  <1>6. ClaimIsHeld'
    BY ClaimKeeps DEF Delivered
  <1> QED
    BY <1>1, <1>2, <1>3, <1>4, <1>5, <1>6, ArrivalKeeps DEF Delivered, Published

(* A worker dies; one publication may still have reached its topic. *)
LEMMA CrashKeeps ==
  ASSUME IInv, NEW f \in flying, Crash(f)
  PROVE  IInv'
  <1>1. /\ f[1] \in Tasks /\ OnItsTopic(f[1]) /\ TrueMessage(f[1][2])
        /\ f[2] \in Events \union Statuses /\ TrueMessage(f[2])
    BY DEF IInv, TypeOK, MessagesAreTrue
  <1>2. /\ Fan(f[2]) \subseteq Tasks
        /\ \A t \in Fan(f[2]) : OnItsTopic(t) /\ t[2] = f[2]
    BY <1>1, FanFacts
  <1>3. /\ todo \subseteq todo' /\ f[1] \in todo'
        /\ todo' \subseteq todo \union {f[1]} \union Fan(f[2])
    BY DEF Crash
  <1>4. /\ statusLog' \in Seq(Statuses)
        /\ \A x : InLog(x) => InLog(x)'
        /\ \A x : InLog(x)' => InLog(x) \/ x = f[2]
    <2>1. CASE UNCHANGED statusLog
      BY <2>1 DEF IInv, TypeOK, InLog
    <2>2. CASE f[2].kind = "video.status" /\ statusLog' = Append(statusLog, f[2])
      <3>1. f[2] \in Statuses
        BY <1>1, <2>2, MessageFacts
      <3> QED
        BY <2>2, <3>1, LogFacts DEF IInv
    <2> QED
      BY <2>1, <2>2 DEF Crash
  <1>5. flying' \subseteq flying /\ \A g \in flying : g \in flying' \/ g[1] \in todo'
    BY <1>3 DEF Crash
  <1>6. faults' \in 0 .. MaxFaults
    BY PipelineAssumption DEF IInv, TypeOK, Crash, Fault
  <1>7. TypeOK'
    BY <1>1, <1>2, <1>3, <1>4, <1>5, <1>6 DEF IInv, TypeOK, Crash, claimVars, joinVars, rowVars
  <1>8. \A t \in todo' : t \in todo \/ (OnItsTopic(t) /\ TrueMessage(t[2]))
    BY <1>1, <1>2, <1>3
  <1>9. \A m \in Statuses : InLog(m)' => InLog(m) \/ TrueMessage(m)
    BY <1>1, <1>4
  <1>10. ClaimIsHeld'
    BY ClaimKeeps DEF Crash
  <1> QED
    BY <1>3, <1>4, <1>5, <1>7, <1>8, <1>9, <1>10, ArrivalKeeps DEF Crash, Published

(* The API process dies before its first publish, or before its second.      *)
LEMMA ApiDiesKeeps ==
  ASSUME IInv, ApiDies
  PROVE  IInv'
  <1>1. faults' \in 0 .. MaxFaults
    BY PipelineAssumption DEF IInv, TypeOK, ApiDies, Fault
  <1>2. TypeOK'
    BY <1>1 DEF IInv, TypeOK, ApiDies, queueVars, claimVars, joinVars, rowVars
  <1>3. \A x : InLog(x)' <=> InLog(x)
    BY DEF ApiDies, InLog
  <1>4. Published' => Published
    BY DEF ApiDies, Published
  <1>5. ClaimIsHeld'
    BY ClaimKeeps DEF ApiDies
  <1> QED
    BY <1>2, <1>3, <1>4, <1>5, ArrivalKeeps DEF ApiDies, queueVars

(* A message comes again, to every subscriber of its topic or to one: from   *)
(* the retry ladder, from the DLQ, or because its packager gave it up.       *)
LEMMA AgainKeeps ==
  ASSUME IInv, NEW m \in Events, TrueMessage(m), NEW back \in SUBSET Fan(m),
         todo' = todo \union back,
         faults' \in 0 .. MaxFaults, claimed' \in BOOLEAN, abandoned' \in BOOLEAN,
         UNCHANGED <<api, flying, dead, statusLog, failures, stored, joinVars, rowVars>>,
         \/ UNCHANGED <<packing, claimVars>>
         \/ /\ packing' \subseteq packing /\ <<"package", m>> \in back
            /\ ClaimIsHeld'
  PROVE  IInv'
  <1>1. Fan(m) \subseteq Tasks /\ \A t \in Fan(m) : OnItsTopic(t) /\ t[2] = m
    BY FanFacts
  <1>2. TypeOK'
    BY <1>1 DEF IInv, TypeOK, claimVars, joinVars, rowVars
  <1>3. \A x : InLog(x)' <=> InLog(x)
    BY DEF InLog
  <1>4. ClaimIsHeld'
    BY ClaimKeeps
  <1>5. UNCHANGED <<packing, claimVars>> \/ ToPackage'
    BY DEF ToPackage
  <1>6. \A t \in todo' : t \in todo \/ (OnItsTopic(t) /\ TrueMessage(t[2]))
    BY <1>1
  <1> QED
    BY <1>2, <1>3, <1>4, <1>5, <1>6, ArrivalKeeps DEF Published

(* What the packager has in hand, and where it comes back to. *)
LEMMA InHandFacts ==
  ASSUME IInv, NEW p \in packing
  PROVE  /\ p[1][2] \in Events /\ TrueMessage(p[1][2])
         /\ p[1] = <<"package", p[1][2]>> /\ p[1] \in Fan(p[1][2])
  <1>1. p[1] \in Tasks /\ p[1][1] = "package" /\ OnItsTopic(p[1]) /\ TrueMessage(p[1][2])
    BY DEF IInv, TypeOK, MessagesAreTrue
  <1>2. p[1] = <<p[1][1], p[1][2]>> /\ p[1][2] \in Events
    BY <1>1 DEF Tasks
  <1> QED
    BY <1>1, <1>2 DEF Fan, OnItsTopic

(* An attempt that fails gives up its claim, or leaves it behind. *)
LEMMA GivesUpKeeps ==
  ASSUME IInv, NEW p \in packing, GivesUp(p), packing' = packing \ {p}, UNCHANGED stored
  PROVE  ClaimIsHeld' /\ claimed' \in BOOLEAN /\ abandoned' \in BOOLEAN
  <1>1. claimed' \in BOOLEAN /\ abandoned' \in BOOLEAN
    BY DEF IInv, TypeOK, GivesUp, claimVars
  <1>2. CASE p[2] # "promote" /\ UNCHANGED claimVars
    BY <1>1, <1>2 DEF IInv, ClaimIsHeld, claimVars
  <1>3. CASE ~claimed' \/ abandoned'
    BY <1>1, <1>3 DEF ClaimIsHeld
  <1> QED
    BY <1>1, <1>2, <1>3 DEF GivesUp

(* From the retry ladder. *)
LEMMA RetryKeeps ==
  ASSUME IInv, NEW t \in todo \union InHand, Retry(t)
  PROVE  IInv'
  <1>1. faults' \in 0 .. MaxFaults
    BY PipelineAssumption DEF IInv, TypeOK, Retry, Fails, Fault
  <1>2. CASE /\ t \in todo /\ todo' = (todo \ {t}) \union Fan(t[2])
             /\ UNCHANGED <<packing, claimVars>>
    <2>1. t[2] \in Events /\ TrueMessage(t[2]) /\ t \in Tasks /\ OnItsTopic(t)
      BY <1>2 DEF IInv, TypeOK, MessagesAreTrue, Tasks
    <2>2. t \in Fan(t[2])
      BY <2>1 DEF Fan, OnItsTopic, Tasks
    <2>3. todo' = todo \union Fan(t[2])
      BY <1>2, <2>2
    <2>4. claimed' \in BOOLEAN /\ abandoned' \in BOOLEAN
      BY <1>2 DEF IInv, TypeOK, claimVars
    <2> QED
      BY <1>1, <1>2, <2>1, <2>3, <2>4, AgainKeeps DEF Retry, Fails
  <1>3. ASSUME NEW p \in packing, p[1] = t, GivesUp(p), packing' = packing \ {p},
               todo' = todo \union Fan(t[2])
        PROVE  IInv'
    <2>1. t[2] \in Events /\ TrueMessage(t[2]) /\ <<"package", t[2]>> \in Fan(t[2])
      BY <1>3, InHandFacts
    <2>2. ClaimIsHeld' /\ claimed' \in BOOLEAN /\ abandoned' \in BOOLEAN
      BY <1>3, GivesUpKeeps DEF Retry, Fails
    <2> QED
      BY <1>1, <1>3, <2>1, <2>2, AgainKeeps DEF Retry, Fails
  <1> QED
    BY <1>2, <1>3 DEF Retry, Fails

(* A copy that finds the scratch object gone. *)
LEMMA OvertakenKeeps ==
  ASSUME IInv, NEW m \in Events, Overtaken(m)
  PROVE  IInv'
  <1> DEFINE p == <<<<"package", m>>, "promote">>
  <1>1. /\ p \in packing /\ packing' = packing \ {p} /\ todo' = todo \union Fan(m)
        /\ claimed' = FALSE
        /\ UNCHANGED <<api, flying, dead, abandoned, statusLog, failures, stored, joinVars,
                       rowVars, faults>>
    BY DEF Overtaken
  <1>2. TrueMessage(m) /\ <<"package", m>> \in Fan(m)
    BY <1>1, InHandFacts
  <1>3. ClaimIsHeld'
    BY <1>1 DEF ClaimIsHeld
  <1>4. abandoned' \in BOOLEAN /\ faults' \in 0 .. MaxFaults
    BY <1>1 DEF IInv, TypeOK
  <1> HIDE DEF p
  <1> QED
    BY <1>1, <1>2, <1>3, <1>4, AgainKeeps

(* A packager that is killed. *)
LEMMA KillKeeps ==
  ASSUME IInv, NEW p \in packing, Kill(p)
  PROVE  IInv'
  <1>1. /\ p[1][2] \in Events /\ TrueMessage(p[1][2])
        /\ p[1] = <<"package", p[1][2]>> /\ {p[1]} \subseteq Fan(p[1][2])
    BY InHandFacts
  <1>2. ClaimIsHeld'
    BY DEF IInv, ClaimIsHeld, Kill
  <1>3. faults' \in 0 .. MaxFaults /\ claimed' \in BOOLEAN /\ abandoned' \in BOOLEAN
    BY PipelineAssumption DEF IInv, TypeOK, Kill, Fault
  <1> QED
    BY <1>1, <1>2, <1>3, AgainKeeps DEF Kill

(* From the DLQ, which keeps it. *)
LEMMA ReplayKeeps ==
  ASSUME IInv, NEW m \in dead, Replay(m)
  PROVE  IInv'
  <1>1. m \in Events /\ TrueMessage(m)
    BY DEF IInv, TypeOK, MessagesAreTrue
  <1>2. /\ faults' \in 0 .. MaxFaults /\ claimed' \in BOOLEAN /\ abandoned' \in BOOLEAN
        /\ UNCHANGED <<packing, claimVars>>
    BY DEF IInv, TypeOK, Replay, claimVars
  <1> QED
    BY <1>1, <1>2, AgainKeeps DEF Replay

(* A dead letter is a true message too; the rest is no longer promised. *)
LEMMA DeadLetterKeeps ==
  ASSUME IInv, NEW t \in todo \union InHand, DeadLetter(t)
  PROVE  IInv'
  <1> DEFINE Dropped ==
        /\ t[2] \in Events /\ TrueMessage(t[2])
        /\ packing' \subseteq packing /\ todo' \subseteq todo
        /\ ClaimIsHeld' /\ claimed' \in BOOLEAN /\ abandoned' \in BOOLEAN
  <1>1. Dropped
    <2>1. CASE t \in todo /\ todo' = (todo \ {t}) \union {} /\ UNCHANGED <<packing, claimVars>>
      <3>1. ClaimIsHeld'
        BY <2>1, ClaimKeeps DEF DeadLetter, Fails
      <3> QED
        BY <2>1, <3>1 DEF IInv, TypeOK, MessagesAreTrue, Tasks, claimVars
    <2>2. ASSUME NEW p \in packing, p[1] = t, GivesUp(p), packing' = packing \ {p},
                 todo' = todo \union {}
          PROVE  Dropped
      <3>1. ClaimIsHeld' /\ claimed' \in BOOLEAN /\ abandoned' \in BOOLEAN
        BY <2>2, GivesUpKeeps DEF DeadLetter, Fails
      <3> QED
        BY <2>2, <3>1, InHandFacts
    <2> QED
      BY <2>1, <2>2 DEF DeadLetter, Fails
  <1>2. t[2].about \in Ladder \union {NoRendition}
    BY <1>1, MessageFacts
  <1>3. /\ faults' \in 0 .. MaxFaults
        /\ dead' = dead \union {t[2]} /\ failures' = failures \union {t[2].about}
        /\ UNCHANGED <<api, flying, statusLog, stored, joinVars, rowVars>>
    BY PipelineAssumption DEF IInv, TypeOK, DeadLetter, Fails, Fault
  <1>4. TypeOK'
    BY <1>1, <1>2, <1>3 DEF IInv, TypeOK, joinVars, rowVars
  <1>5. \A m : TrueMessage(m)' <=> TrueMessage(m)
    BY <1>3 DEF TrueMessage
  <1>6. \A m : InLog(m)' <=> InLog(m)
    BY <1>3 DEF InLog
  <1>7. MessagesAreTrue'
    BY <1>1, <1>3, <1>5, <1>6, TruthKeeps DEF IInv
  <1>8. StoreIsTrue'
    BY <1>1, <1>3 DEF IInv, StoreIsTrue, joinVars, rowVars
  <1>9. dead' # {}
    BY <1>3
  <1> QED
    BY <1>1, <1>4, <1>7, <1>8, <1>9 DEF IInv

(* The probe announces itself, the plan, and asks for each rendition. *)
LEMMA ProbeKeeps ==
  ASSUME IInv, NEW m \in Events, Probe(m)
  PROVE  IInv'
  <1> DEFINE out == {Probed, Plan} \union {Requested(r) : r \in Ladder}
  <1>1. /\ Handling("probe", m) /\ Publishes("probe", m, out)
        /\ UNCHANGED <<packing, stored, joinVars>>
    BY DEF Probe, Probed, Plan, Requested
  <1>2. out \in SUBSET (Events \union Statuses)
    BY ChainFacts
  <1> HIDE DEF out
  <1>3. todo' \subseteq Tasks /\ flying' \subseteq Tasks \X (Events \union Statuses)
    BY <1>1, <1>2, HandleFacts
  <1>4. TypeOK'
    BY <1>1, <1>3 DEF IInv, TypeOK, Publishes, claimVars, joinVars, rowVars
  <1>5. \A o \in out : TrueMessage(o)'
    BY DEF out, TrueMessage, Probed, Plan, Requested, Msg, Status
  <1>6. StoreIsTrue'
    BY <1>1 DEF IInv, StoreIsTrue, Publishes, joinVars, rowVars
  <1>7. \A o : Chained("probe", m, o) => o \in out
    BY DEF Chained, out
  <1> QED
    BY <1>1, <1>2, <1>4, <1>5, <1>6, <1>7, HandleKeeps DEF joinVars

(* The playlist is in the store before it is announced. *)
LEMMA TranscodeKeeps ==
  ASSUME IInv, NEW m \in Events, Transcode(m)
  PROVE  IInv'
  <1> DEFINE r == m.about
             out == {Completed(r), Piece(r)}
  <1>1. /\ Handling("transcode", m) /\ Publishes("transcode", m, out)
        /\ stored' = stored \union {r} /\ UNCHANGED <<packing, joinVars>>
    BY DEF Transcode, Completed, Piece
  <1>2. <<"transcode", m>> \in todo
    BY <1>1 DEF Handling
  <1>3. OnItsTopic(<<"transcode", m>>)
    BY <1>2 DEF IInv, MessagesAreTrue
  <1>4. r \in Ladder /\ m = Requested(r)
    BY <1>3, SubscriberFacts
  <1>5. out \in SUBSET (Events \union Statuses)
    BY <1>4, ChainFacts
  <1>6. todo' \subseteq Tasks /\ flying' \subseteq Tasks \X (Events \union Statuses)
    BY <1>1, <1>5, HandleFacts
  <1>7. TypeOK'
    BY <1>1, <1>4, <1>6 DEF IInv, TypeOK, Publishes, claimVars, joinVars, rowVars
  <1>8. \A o \in out : TrueMessage(o)'
    BY <1>1 DEF TrueMessage, Completed, Piece, Msg, Status
  <1>9. StoreIsTrue'
    BY <1>1, <1>4, PipelineAssumption DEF IInv, StoreIsTrue, Publishes, joinVars, rowVars
  <1>10. \A o : Chained("transcode", m, o) => o \in out
    BY <1>4 DEF Chained, Requested, Msg
  <1>11. "master" \in stored <=> "master" \in stored'
    BY <1>1, <1>4, PipelineAssumption
  <1>12. stored \subseteq stored' /\ UNCHANGED <<joinVars, packing>>
    BY <1>1
  <1>13. (expected => expected') /\ ready \subseteq ready'
    BY <1>1 DEF joinVars
  <1> HIDE DEF out
  <1> QED
    BY <1>1, <1>5, <1>7, <1>8, <1>9, <1>10, <1>11, <1>12, <1>13, HandleKeeps

(* The thumbnails are stored, and the row is to be told. *)
LEMMA ThumbnailKeeps ==
  ASSUME IInv, NEW m \in Events, Thumbnail(m)
  PROVE  IInv'
  <1> DEFINE out == {Thumbs}
  <1>1. /\ Handling("thumbnail", m) /\ Publishes("thumbnail", m, out)
        /\ stored' = stored \union {"thumbnails"} /\ UNCHANGED <<packing, joinVars>>
    BY DEF Thumbnail, Thumbs
  <1>2. out \in SUBSET (Events \union Statuses)
    BY ChainFacts
  <1>3. todo' \subseteq Tasks /\ flying' \subseteq Tasks \X (Events \union Statuses)
    BY <1>1, <1>2, HandleFacts
  <1>4. TypeOK'
    BY <1>1, <1>3 DEF IInv, TypeOK, Publishes, claimVars, joinVars, rowVars
  <1>5. \A o \in out : TrueMessage(o)'
    BY DEF TrueMessage, Thumbs, Status
  <1>6. StoreIsTrue'
    BY <1>1 DEF IInv, StoreIsTrue, Publishes, joinVars, rowVars
  <1>7. \A o : Chained("thumbnail", m, o) => o \in out
    BY DEF Chained
  <1> HIDE DEF out
  <1> QED
    BY <1>1, <1>2, <1>4, <1>5, <1>6, <1>7, HandleKeeps DEF joinVars

(* The packager records what the message brings; a complete join is then in  *)
(* its hands, or announced again.                                            *)
LEMMA PackageKeeps ==
  ASSUME IInv, NEW m \in Events, Package(m)
  PROVE  IInv'
  <1> DEFINE out == IF Complete(expected', ready') /\ "master" \in stored THEN {Whole} ELSE {}
             t == <<"package", m>>
  <1>1. Handling("package", m) /\ Publishes("package", m, out)
    BY DEF Package, Whole
  <1>2. /\ expected' = (expected \/ m.kind = "video.probed")
        /\ ready' = ready \union Recorded(m)
        /\ packing \subseteq packing' /\ packing' \subseteq packing \union ({t} \X {"claim"})
        /\ Complete(expected', ready') /\ "master" \notin stored => <<t, "claim">> \in packing'
        /\ ~Complete(expected', ready') => packing' = packing
        /\ stored' = stored
    BY DEF Package
  <1>3. /\ <<"package", m>> \in Tasks /\ OnItsTopic(<<"package", m>>) /\ TrueMessage(m)
        /\ todo' \subseteq Tasks /\ flying' \subseteq Tasks \X (Events \union Statuses)
    BY <1>1, ChainFacts, HandleFacts
  <1>4. m = Probed \/ (m.about \in Ladder /\ m = Completed(m.about))
    BY <1>3, SubscriberFacts
  <1>5. /\ ready' \subseteq Ladder /\ ready' \subseteq stored
        /\ m = Probed => expected'
        /\ \A r \in Ladder : m = Completed(r) => r \in ready'
    <2>1. ready \subseteq Ladder /\ ready \subseteq stored
      BY DEF IInv, TypeOK, StoreIsTrue
    <2>2. CASE m = Probed
      <3>1. m.kind = "video.probed" /\ m.about = NoRendition
        BY <2>2 DEF Probed, Msg
      <3>2. Recorded(m) = {}
        BY <3>1 DEF Recorded
      <3>3. \A r \in Ladder : m # Completed(r)
        BY <3>1 DEF Completed, Msg
      <3> QED
        BY <1>2, <2>1, <3>1, <3>2, <3>3
    <2>3. CASE m.about \in Ladder /\ m = Completed(m.about)
      <3>1. m.kind = "rendition.completed" /\ m.about # NoRendition
        BY <2>3, PipelineAssumption DEF Completed, Msg
      <3>2. Recorded(m) = {m.about} /\ m.about \in stored
        BY <1>3, <3>1 DEF Recorded, TrueMessage
      <3>3. m # Probed /\ \A r \in Ladder : m = Completed(r) => r = m.about
        BY <3>1 DEF Probed, Completed, Msg
      <3> QED
        BY <1>2, <2>1, <2>3, <3>2, <3>3
    <2> QED
      BY <1>4, <2>2, <2>3
  <1>6. TypeOK'
    <2>1. packing' \subseteq Tasks \X {"claim", "promote"}
      BY <1>2, <1>3 DEF IInv, TypeOK
    <2> QED
      BY <1>1, <1>2, <1>3, <1>5, <2>1 DEF IInv, TypeOK, Publishes, claimVars, rowVars
  <1>7. \A o \in out : TrueMessage(o)'
    BY <1>2 DEF TrueMessage, Whole, Status
  <1>8. expected /\ ready = Ladder => Complete(expected', ready')
    BY <1>2, <1>5 DEF Complete
  <1>9. StoreIsTrue'
    BY <1>1, <1>2, <1>5, <1>8 DEF IInv, StoreIsTrue, Complete, Publishes, rowVars
  <1>10. ClaimIsHeld'
    BY <1>1, <1>2 DEF IInv, ClaimIsHeld, Publishes, claimVars
  <1>11. JoinReachesRow'
    <2>1. "master" \in stored => Whole \in out
      BY <1>8 DEF IInv, StoreIsTrue
    <2>2. \A o \in out : Owes("package", m, o)'
      BY <1>1 DEF Publishes, Owes
    <2> QED
      BY <1>2, <2>1, <2>2 DEF JoinReachesRow, ToAnnounce, Complete
  <1>12. \A o : Chained("package", m, o) => o \in out
    BY DEF Chained
  <1>13. out \in SUBSET (Events \union Statuses)
    BY ChainFacts
  <1>14. stored \subseteq stored' /\ ready \subseteq ready' /\ (expected => expected')
    BY <1>2
  <1> HIDE DEF out
  <1> QED
    BY <1>1, <1>2, <1>5, <1>6, <1>7, <1>9, <1>10, <1>11, <1>12, <1>13, <1>14, HandleKeeps

(* What goes on in the packager's hands takes nothing back that was owed. *)
LEMMA ProceedFacts ==
  ASSUME NEW m \in Events, NEW at, NEW then, NEW out, Proceeds(m, at, then, out)
  PROVE  /\ ToPackage' <=> ToPackage
         /\ ToAnnounce => ToAnnounce'
         /\ Whole \in out => ToAnnounce'
         /\ InLog(Whole)' <=> InLog(Whole)
         /\ UNCHANGED <<row, abandoned, expected, ready>>
         /\ <<<<"package", m>>, at>> \in packing
         /\ packing' = (packing \ {<<<<"package", m>>, at>>})
                         \union ({<<"package", m>>} \X then)
  BY DEF Proceeds, ToPackage, ToAnnounce, Owes, InLog, joinVars, rowVars

(* The claim is taken, denied, or no longer wanted. *)
LEMMA ClaimStepKeeps ==
  ASSUME IInv, NEW m \in Events, Claim(m)
  PROVE  IInv'
  <1> DEFINE t == <<"package", m>>
  <1>1. UNCHANGED stored
    BY DEF Claim
  <1>2. CASE /\ "master" \in stored /\ UNCHANGED claimed
             /\ Proceeds(m, "claim", {}, {Status("completed", NoRendition)})
    <2>1. Proceeds(m, "claim", {}, {Whole})
      BY <1>2 DEF Whole
    <2>2. ClaimIsHeld' /\ JoinReachesRow' /\ claimed' \in BOOLEAN
      BY <1>1, <1>2, <2>1, ProceedFacts DEF ClaimIsHeld, JoinReachesRow, IInv, TypeOK
    <2> QED
      BY <1>1, <1>2, <2>1, <2>2, ProceedKeeps
  <1>3. CASE claimed /\ Proceeds(m, "claim", {}, {}) /\ UNCHANGED claimed
    <2>1. packing' = packing \ {<<t, "claim">>} /\ UNCHANGED abandoned
      BY <1>3 DEF Proceeds
    <2>2. (\E p \in packing : p[2] = "promote") => \E p \in packing' : p[2] = "promote"
      BY <2>1
    <2>3. ClaimIsHeld' /\ claimed' \in BOOLEAN
      BY <1>1, <1>3, <2>1, <2>2 DEF ClaimIsHeld, IInv, TypeOK
    <2>4. dead = {} => JoinReachesRow'
      <3>1. "master" \notin stored => abandoned \/ packing' # {}
        BY <1>3, <2>2 DEF IInv, ClaimIsHeld
      <3> QED
        BY <1>1, <1>3, <3>1, ProceedFacts DEF JoinReachesRow, IInv, NothingIsLost
    <2> QED
      BY <1>1, <1>3, <2>3, <2>4, ProceedKeeps
  <1>4. CASE Proceeds(m, "claim", {"promote"}, {}) /\ claimed' = TRUE
    <2>1. <<t, "promote">> \in packing'
      BY <1>4 DEF Proceeds
    <2>2. ClaimIsHeld'
      BY <2>1 DEF ClaimIsHeld
    <2>3. dead = {} => JoinReachesRow'
      BY <1>1, <1>4, <2>1, ProceedFacts DEF JoinReachesRow, IInv, NothingIsLost
    <2> QED
      BY <1>1, <1>4, <2>2, <2>3, ProceedKeeps
  <1> QED
    BY <1>2, <1>3, <1>4 DEF Claim

(* The master is put in place, and announced: its renditions are then all in *)
(* the store.                                                                *)
LEMMA PromoteKeeps ==
  ASSUME IInv, NEW m \in Events, Promote(m)
  PROVE  IInv'
  <1>1. /\ Proceeds(m, "promote", {}, {Whole})
        /\ stored' = stored \union {"master"} /\ UNCHANGED claimed
    BY DEF Promote, Whole
  <1>2. ClaimIsHeld' /\ JoinReachesRow' /\ claimed' \in BOOLEAN
    BY <1>1, ProceedFacts DEF ClaimIsHeld, JoinReachesRow, IInv, TypeOK
  <1> QED
    BY <1>1, <1>2, ProceedKeeps

(* The projector applies the oldest status. *)
LEMMA ApplyStatusKeeps ==
  ASSUME IInv, ApplyStatus
  PROVE  IInv'
  <1> DEFINE m == Head(statusLog)
             s == statusLog
  <1>1. TypeOK
    BY DEF IInv
  <1>2. /\ s # <<>> /\ statusLog' = Tail(s)
        /\ UNCHANGED <<api, todo, flying, dead, packing, claimVars, failures, stored,
                       joinVars, faults>>
        /\ row' = [row EXCEPT
             !.completed = m.state = "completed",
             !.expected = Carried(@, m.state = "probed"),
             !.master = Carried(@, m.state = "completed"),
             !.thumbnails = Carried(@, m.about = NoRendition /\ m.state = "transcoding")]
        /\ renditions' =
             [r \in Ladder |-> IF m.about = r THEN "completed" ELSE renditions[r]]
    BY DEF ApplyStatus, queueVars
  <1>3. /\ Tail(s) \in Seq(Statuses) /\ m \in Statuses /\ m = s[1]
        /\ Len(s) \in Nat /\ Len(s) >= 1 /\ Len(Tail(s)) = Len(s) - 1
        /\ \A i \in 1 .. Len(s) - 1 : Tail(s)[i] = s[i + 1]
    BY <1>1, <1>2, TailFacts DEF TypeOK
  <1>4. \A x : InLog(x)' => InLog(x)
    BY <1>2, <1>3 DEF InLog
  <1>5. \A x : InLog(x) => InLog(x)' \/ x = m
    <2> SUFFICES ASSUME NEW x, NEW i \in 1 .. Len(s), s[i] = x
                 PROVE  InLog(x)' \/ x = m
      BY DEF InLog
    <2>1. CASE i = 1
      BY <1>3, <2>1
    <2>2. CASE i # 1
      <3>1. i - 1 \in 1 .. Len(s) - 1 /\ (i - 1) + 1 = i
        BY <1>3, <2>2
      <3>2. i - 1 \in 1 .. Len(statusLog') /\ statusLog'[i - 1] = x
        BY <1>2, <1>3, <3>1
      <3> QED
        BY <3>2 DEF InLog
    <2> QED
      BY <2>1, <2>2
  <1>6. m.state \in States /\ m.about \in Ladder \union {NoRendition}
    BY <1>3 DEF Statuses, Status
  <1>7. /\ row' \in [completed : BOOLEAN, master : BOOLEAN,
              thumbnails : BOOLEAN, expected : BOOLEAN, reason : BOOLEAN]
        /\ row'.reason = row.reason
        /\ row'.master = (row.master \/ m.state = "completed")
        /\ row'.expected = (row.expected \/ m.state = "probed")
        /\ row'.thumbnails =
             (row.thumbnails \/ (m.about = NoRendition /\ m.state = "transcoding"))
    BY <1>1, <1>2, <1>6 DEF TypeOK, Carried
  <1>8. TypeOK'
    BY <1>1, <1>2, <1>3, <1>7 DEF TypeOK, claimVars, joinVars
  <1>9. InLog(m) /\ TrueMessage(m)
    BY <1>3 DEF IInv, MessagesAreTrue, InLog
  <1>10. \A x : TrueMessage(x)' <=> TrueMessage(x)
    BY <1>2 DEF TrueMessage
  <1>11. MessagesAreTrue'
    BY <1>2, <1>4, <1>10, TruthKeeps DEF IInv
  <1>12. StoreIsTrue' /\ ClaimIsHeld'
    BY <1>2, <1>7, <1>9, ClaimKeeps DEF IInv, StoreIsTrue, TrueMessage, joinVars
  <1>13. ASSUME dead = {}
         PROVE  NothingIsLost'
    <2>1. NothingIsLost
      BY <1>13 DEF IInv
    <2>2. \A a, x, o : Owes(a, x, o)' <=> Owes(a, x, o)
      BY <1>2 DEF Owes
    <2>3. /\ InLog(Thumbs) \/ row.thumbnails => InLog(Thumbs)' \/ row'.thumbnails
          /\ InLog(Plan) \/ row.expected => InLog(Plan)' \/ row'.expected
          /\ InLog(Whole) \/ row.master => InLog(Whole)' \/ row'.master
      BY <1>5, <1>7 DEF Thumbs, Plan, Whole, Status
    <2>4. \A r \in Ladder : InLog(Piece(r)) \/ renditions[r] = "completed"
            => InLog(Piece(r))' \/ renditions'[r] = "completed"
      BY <1>2, <1>5 DEF Piece, Status
    <2>5. JoinReachesRow'
      <3>1. (ToPackage' <=> ToPackage) /\ (ToAnnounce' <=> ToAnnounce)
        BY <1>2, <2>2 DEF ToPackage, ToAnnounce
      <3> QED
        BY <1>2, <2>1, <2>3, <3>1 DEF NothingIsLost, JoinReachesRow, claimVars, joinVars
    <2>6. failures' = {} /\ ~row'.reason
      BY <1>2, <1>7, <2>1 DEF NothingIsLost
    <2>7. CASE ~Published
      BY <1>2, <2>5, <2>6, <2>7 DEF NothingIsLost, Published
    <2>8. CASE Published
      BY <1>2, <2>1, <2>2, <2>3, <2>4, <2>5, <2>6, <2>8, ChainsKeep DEF joinVars
    <2> QED
      BY <2>7, <2>8
  <1> QED
    BY <1>2, <1>8, <1>11, <1>12, <1>13 DEF IInv

(* The projector applies a failure, and there is one only after a dead       *)
(* letter.                                                                   *)
LEMMA ApplyFailureKeeps ==
  ASSUME IInv, ApplyFailure
  PROVE  IInv'
  <1>1. UNCHANGED <<api, todo, flying, dead, packing, claimVars, statusLog, stored,
                    joinVars, faults>>
    BY DEF ApplyFailure, queueVars
  <1>2. /\ failures # {} /\ failures' \subseteq failures
        /\ row'.master = row.master
        /\ TypeOK'
    BY <1>1 DEF IInv, TypeOK, ApplyFailure, claimVars, joinVars
  <1>3. \A x : TrueMessage(x)' <=> TrueMessage(x)
    BY <1>1 DEF TrueMessage
  <1>4. \A x : InLog(x)' <=> InLog(x)
    BY <1>1 DEF InLog
  <1>5. MessagesAreTrue'
    BY <1>1, <1>3, <1>4, TruthKeeps DEF IInv
  <1>6. StoreIsTrue' /\ ClaimIsHeld'
    BY <1>1, <1>2, ClaimKeeps DEF IInv, StoreIsTrue, joinVars
  <1>7. dead' # {}
    BY <1>1, <1>2 DEF IInv, NothingIsLost
  <1> QED
    BY <1>2, <1>5, <1>6, <1>7 DEF IInv

-----------------------------------------------------------------------------
(* The invariant, and what follows from it. *)

(* When /complete has just committed its claim, nothing is under way. *)
LEMMA InitEstablishes == Init => IInv
  <1> SUFFICES ASSUME Init PROVE IInv
    OBVIOUS
  <1>1. TypeOK
    <2>1. <<>> \in Seq(Statuses)
      OBVIOUS
    <2>2. 0 \in 0 .. MaxFaults
      BY PipelineAssumption
    <2> QED
      BY <2>1, <2>2 DEF Init, TypeOK, States
  <1>2. \A x : ~InLog(x)
    BY DEF Init, InLog
  <1>3. MessagesAreTrue /\ StoreIsTrue /\ ClaimIsHeld
    BY <1>2 DEF Init, MessagesAreTrue, StoreIsTrue, ClaimIsHeld
  <1>4. NothingIsLost
    BY DEF Init, NothingIsLost, JoinReachesRow, Published
  <1> QED
    BY <1>1, <1>3, <1>4 DEF IInv

(* Every step keeps the invariant. *)
LEMMA NextKeeps == IInv /\ [Next]_vars => IInv'
  <1> SUFFICES ASSUME IInv, [Next]_vars PROVE IInv'
    OBVIOUS
  <1>1. CASE Work
    <2>1. CASE ApiPublishes
      BY <2>1, ApiPublishesKeeps
    <2>2. CASE \E m \in Events : Handle(m)
      BY <2>2, ProbeKeeps, TranscodeKeeps, ThumbnailKeeps, PackageKeeps, ClaimStepKeeps,
         PromoteKeeps DEF Handle
    <2>3. CASE Deliver
      BY <2>3, DeliveredKeeps DEF Deliver
    <2>4. CASE ApplyStatus
      BY <2>4, ApplyStatusKeeps
    <2> QED
      BY <1>1, <2>1, <2>2, <2>3, <2>4 DEF Work
  <1>2. CASE ApplyFailure
    BY <1>2, ApplyFailureKeeps
  <1>3. CASE ApiDies
    BY <1>3, ApiDiesKeeps
  <1>4. CASE \E m \in Events : Overtaken(m)
    BY <1>4, OvertakenKeeps
  <1>5. CASE \E f \in flying : Crash(f)
    BY <1>5, CrashKeeps
  <1>6. CASE \E p \in packing : Kill(p)
    BY <1>6, KillKeeps
  <1>7. CASE \E t \in todo \union InHand : Retry(t) \/ DeadLetter(t)
    BY <1>7, RetryKeeps, DeadLetterKeeps
  <1>8. CASE \E m \in dead : Replay(m)
    BY <1>8, ReplayKeeps
  <1>9. CASE UNCHANGED vars
    <2>1. TypeOK'
      BY <1>9 DEF vars, queueVars, claimVars, joinVars, rowVars, IInv, TypeOK
    <2>2. \A x : InLog(x)' <=> InLog(x)
      BY <1>9 DEF vars, InLog
    <2>3. ClaimIsHeld'
      BY <1>9, ClaimKeeps DEF vars
    <2> QED
      BY <1>9, <2>1, <2>2, <2>3, ArrivalKeeps DEF vars, queueVars, joinVars, rowVars, Published
  <1> QED
    BY <1>1, <1>2, <1>3, <1>4, <1>5, <1>6, <1>7, <1>8, <1>9 DEF Next

(* IInv is an invariant of the choreography. *)
THEOREM Invariant == Spec => []IInv
  BY InitEstablishes, NextKeeps, PTL DEF Spec

(* Every variable keeps its type. *)
THEOREM TypeCorrect == Spec => []TypeOK
  <1>1. IInv => TypeOK
    BY DEF IInv
  <1> QED
    BY <1>1, Invariant, PTL

(* A master playlist is there, or reported, only when the ladder is known    *)
(* and every rendition of it recorded and in the store.                      *)
THEOREM MasterIsWholeTheorem == Spec => []MasterIsWhole
  <1>1. IInv => MasterIsWhole
    BY DEF IInv, StoreIsTrue, MasterIsWhole
  <1> QED
    BY <1>1, Invariant, PTL

(* Once all is quiet and no message dead, the row has the thumbnails, the    *)
(* plan, every rendition and the master: nothing was lost on the way,        *)
(* however many crashes, kills and retries there were, unless a packager     *)
(* left its claim behind, and then only the master is missing.               *)
THEOREM RowIsFilledInTheorem == Spec => []RowIsFilledIn
  <1>1. ASSUME IInv, Quiet, dead = {}
        PROVE  /\ row.thumbnails /\ row.expected /\ ~row.reason
               /\ \A r \in Ladder : renditions[r] = "completed"
               /\ row.master \/ ClaimLeftBehind
    <2>1. \A stage, m, out : ~Owes(stage, m, out)
      BY <1>1 DEF Quiet, Owes
    <2>2. \A m : ~InLog(m)
      BY <1>1 DEF Quiet, InLog
    <2>3. NothingIsLost /\ Published /\ todo = {} /\ packing = {}
      BY <1>1 DEF IInv, Quiet, Published
    <2>4. expected /\ ready = Ladder
      BY <1>1, <2>1, <2>3 DEF IInv, TypeOK, NothingIsLost, ProbeReachesJoin,
           RenditionReachesJoin
    <2>5. "master" \in stored => row.master
      BY <2>1, <2>2, <2>3 DEF NothingIsLost, JoinReachesRow, ToAnnounce
    <2>6. "master" \notin stored => abandoned /\ claimed
      BY <2>3, <2>4 DEF NothingIsLost, JoinReachesRow, ToPackage
    <2>7. row.master \/ ClaimLeftBehind
      BY <2>3, <2>5, <2>6 DEF ClaimLeftBehind
    <2>8. row.thumbnails /\ row.expected /\ ~row.reason
      BY <2>1, <2>2, <2>3 DEF NothingIsLost, ProbeReachesThumbnails, ProbeReachesRow
    <2>9. \A r \in Ladder : renditions[r] = "completed"
      BY <2>1, <2>2, <2>3 DEF NothingIsLost, RenditionReachesRow
    <2> QED
      BY <2>7, <2>8, <2>9
  <1>2. IInv => RowIsFilledIn
    BY <1>1 DEF RowIsFilledIn
  <1> QED
    BY <1>2, Invariant, PTL
=============================================================================
