---------------------------- MODULE VideoPageProofs ----------------------------
(***************************************************************************)
(* Proofs about VideoPage, and so about SseStream and ReadModel under it:  *)
(* for any log of events and any number of faults a client's deltas have   *)
(* no gap, a stream ends only after its end, and a page that is finished   *)
(* shows one.                                                              *)
(***************************************************************************)
EXTENDS VideoPage, Integers, TLAPS

-----------------------------------------------------------------------------
(* The inductive invariant. *)

(* What TypeOK leaves to its users. *)
Typed ==
  /\ TypeOK
  /\ status \in States /\ outcome \in [Renditions -> Outcomes]
  /\ log \in Seq(Known)
  /\ wire \in Seq(Frames)

(* Among the first n events there is an end. *)
EndBy(n) == \E i \in 1 .. n : Event(log[i]).state \in Final

(* The row is final only after an event that made it so; what a pass has     *)
(* read of it is covered by what the pass reads next.                        *)
EndIsLogged ==
  /\ status \in Final => EndBy(Len(log))
  /\ at = "deltas" /\ rowRead \in Final => EndBy(Len(log))
  /\ at = "yield" /\ rowRead \in Final => EndBy(watermark + Len(rows))
  /\ at = "ended" => EndBy(watermark)

(* The rows a pass has still to send are those behind the watermark. *)
RowsFollow ==
  /\ at # "yield" => rows = <<>>
  /\ \A i \in DOMAIN rows : rows[i] = watermark + i

Fresh == {"row", "renditions", "max"}

(* The frame before the i-th on the wire, or before all of them. *)
Before(i) == IF i = 1 THEN lastEventId ELSE wire[i - 1].id

(* On an open stream each delta follows its predecessor, and a snapshot      *)
(* comes first.  The server's watermark is the last id on the wire, or the   *)
(* client's own.                                                             *)
WireFollows ==
  /\ conn # "streaming" => at = "closed"
  /\ at \in Fresh \union {"closed"} => wire = <<>>
  /\ \A i \in DOMAIN wire :
       /\ wire[i].kind = "delta" => wire[i].id \in Ids /\ wire[i].id = Before(i) + 1
       /\ wire[i].kind = "snapshot" => i = 1
  /\ at \notin Fresh \union {"closed"} => watermark = Before(Len(wire) + 1)

PageIsTold ==
  client = "page" /\ conn = "closed" =>
    shown # "nothing" /\ (overtaken \/ shown \in Final)

IInv ==
  /\ Typed
  /\ EndIsLogged
  /\ RowsFollow
  /\ WireFollows
  /\ DeltasHaveNoGap
  /\ PageIsTold

-----------------------------------------------------------------------------
(* Sequences and events. *)

(* What is appended to a sequence is at its end, behind the rest. *)
LEMMA AppendFacts ==
  ASSUME NEW S, NEW s \in Seq(S), NEW e \in S
  PROVE  /\ Append(s, e) \in Seq(S)
         /\ Len(s) \in Nat /\ DOMAIN s = 1 .. Len(s)
         /\ Len(Append(s, e)) = Len(s) + 1 /\ DOMAIN Append(s, e) = 1 .. Len(s) + 1
         /\ \A i \in 1 .. Len(s) : Append(s, e)[i] = s[i]
         /\ Append(s, e)[Len(s) + 1] = e
  OBVIOUS

(* What is behind the head of a sequence stays in it, one place further on. *)
LEMMA TailFacts ==
  ASSUME NEW S, NEW s \in Seq(S), s # <<>>
  PROVE  /\ Tail(s) \in Seq(S)
         /\ Head(s) \in S /\ Head(s) = s[1]
         /\ Len(s) \in Nat /\ Len(s) >= 1 /\ DOMAIN s = 1 .. Len(s)
         /\ Len(Tail(s)) = Len(s) - 1 /\ DOMAIN Tail(s) = 1 .. Len(s) - 1
         /\ \A i \in 1 .. Len(s) - 1 : Tail(s)[i] = s[i + 1]
  OBVIOUS

(* What an event says. *)
LEMMA EventFacts ==
  ASSUME NEW m \in Known
  PROVE  /\ Event(m).state \in States
         /\ Event(m).rendition \in Renditions \union {NoRendition}
         /\ Outcome(Event(m)) \in Outcomes
         /\ m[1] \in Topics
         /\ m[1] = "pipeline.failed" => Event(m).state = "failed"
  <1>1. m[1] \in Topics /\ m[2] \in DOMAIN Log[m[1]]
    BY DEF Known, Messages
  <1>2. Event(m) \in EventRecord
    BY <1>1, StatusEventsAssumption DEF Event
  <1>3. m[1] = "pipeline.failed" => Event(m).state = "failed"
    BY <1>1, StatusEventsAssumption DEF Event
  <1> QED
    BY <1>1, <1>2, <1>3 DEF EventRecord, Outcome, Outcomes

(* The log has a length, and its entries are events of this video. *)
LEMMA LogFacts ==
  ASSUME Typed
  PROVE  /\ Len(log) \in Nat /\ Ids = 1 .. Len(log)
         /\ \A i \in Ids : log[i] \in Known
         /\ watermark \in 0 .. Len(log)
  BY DEF Typed, TypeOK, ServerTypeOK, Ids

(* A transaction of the projector: the log only grows, at its end, and a row *)
(* becomes final only with an event that ends the video.                     *)
LEMMA ProjectorFacts ==
  ASSUME Typed, status \in Final => EndBy(Len(log)),
         NEW m \in Messages, Apply(m) \/ Reapply(m)
  PROVE  /\ status' \in States /\ outcome' \in [Renditions -> Outcomes]
         /\ log' \in Seq(Known)
         /\ Ids \subseteq Ids' /\ Len(log') \in Nat /\ Len(log) <= Len(log')
         /\ \A i \in Ids' \ Ids : i = Len(log) + 1
         /\ \A n \in Nat : EndBy(n) /\ n <= Len(log) => EndBy(n)'
         /\ status' \in Final => EndBy(Len(log))'
  <1>1. Len(log) \in Nat /\ Ids = 1 .. Len(log) /\ log \in Seq(Known)
    BY LogFacts DEF Typed
  <1>2. m \in Known
    BY <1>1 DEF Apply, Reapply, Entries, Ids
  <1>3. status' = Event(m).state
    BY DEF Apply, Reapply, WriteRows
  <1>4. status' \in States /\ outcome' \in [Renditions -> Outcomes]
    BY <1>2, <1>3, EventFacts DEF Typed, Apply, Reapply, WriteRows
  <1>5. CASE Apply(m)
    <2>1. /\ log' \in Seq(Known) /\ Len(log') = Len(log) + 1
          /\ Ids' = 1 .. Len(log) + 1
          /\ \A i \in 1 .. Len(log) : log'[i] = log[i]
          /\ log'[Len(log) + 1] = m
      BY <1>1, <1>2, <1>5, AppendFacts DEF Apply, Ids
    <2>2. \A n \in Nat : EndBy(n) /\ n <= Len(log) => EndBy(n)'
      BY <1>1, <2>1 DEF EndBy, Event
    <2>3. status' \in Final => EndBy(Len(log))'
      BY <1>1, <1>3, <2>1 DEF EndBy, Event
    <2> QED
      BY <1>1, <1>4, <2>1, <2>2, <2>3
  <1>6. CASE Reapply(m)
    <2>1. PICK i \in Ids : log[i] = m
      BY <1>6 DEF Reapply, Entries, Ids
    <2>2. log' = log
      BY <1>6 DEF Reapply
    <2>3. status' \in Final => EndBy(Len(log))'
      BY <1>1, <1>3, <2>1, <2>2 DEF EndBy
    <2>4. \A n \in Nat : EndBy(n) => EndBy(n)'
      BY <2>2 DEF EndBy
    <2> QED
      BY <1>1, <1>4, <2>2, <2>3, <2>4 DEF Ids
  <1> QED
    BY <1>5, <1>6

-----------------------------------------------------------------------------
(* The projector's steps. *)

(* Readers see the log grow, and nothing of what they have read change. *)
LEMMA ProjectorKeeps ==
  ASSUME IInv, NEW m \in Messages, Apply(m) \/ Reapply(m),
         UNCHANGED <<serverVars, client, conn, cacheVars, tokenValid, cursorVars>>,
         faults' \in 0 .. MaxFaults
  PROVE  IInv'
  <1> USE DEF serverVars, cacheVars, cursorVars
  <1>1. Typed /\ EndIsLogged
    BY DEF IInv
  <1>2. /\ status' \in States /\ outcome' \in [Renditions -> Outcomes]
        /\ log' \in Seq(Known)
        /\ Ids \subseteq Ids' /\ Len(log') \in Nat /\ Len(log) <= Len(log')
        /\ \A i \in Ids' \ Ids : i = Len(log) + 1
        /\ \A n \in Nat : EndBy(n) /\ n <= Len(log) => EndBy(n)'
        /\ status' \in Final => EndBy(Len(log))'
    BY <1>1, ProjectorFacts DEF EndIsLogged
  <1>3. /\ Len(log) \in Nat /\ Ids = 1 .. Len(log)
        /\ \A i \in Ids : log[i] \in Known
        /\ watermark \in 0 .. Len(log)
    BY <1>1, LogFacts
  <1>4. Typed'
    <2>1. rows \in Seq(Ids')
      BY <1>1, <1>2 DEF Typed, TypeOK, ServerTypeOK
    <2>2. ServerTypeOK'
      BY <1>1, <1>2, <2>1 DEF Typed, TypeOK, ServerTypeOK
    <2> QED
      BY <1>1, <1>2, <2>2 DEF Typed, TypeOK
  <1>5. EndIsLogged'
    <2>1. \A n, k \in Nat : EndBy(n)' /\ n <= k => EndBy(k)'
      BY DEF EndBy
    <2>2. at = "deltas" /\ rowRead \in Final => EndBy(Len(log))'
      BY <1>1, <1>2, <1>3, <2>1 DEF EndIsLogged
    <2>3. at = "yield" /\ rowRead \in Final => EndBy(watermark + Len(rows))'
      <3>1. Len(rows) \in Nat /\ DOMAIN rows = 1 .. Len(rows)
        BY <1>1 DEF Typed, TypeOK, ServerTypeOK
      <3>2. watermark + Len(rows) <= Len(log)
        <4>1. CASE Len(rows) = 0
          BY <1>3, <4>1
        <4>2. CASE Len(rows) # 0
          <5>1. rows[Len(rows)] \in Ids
            BY <1>1, <3>1, <4>2 DEF Typed, TypeOK, ServerTypeOK
          <5>2. rows[Len(rows)] = watermark + Len(rows)
            BY <3>1, <4>2 DEF IInv, RowsFollow
          <5> QED
            BY <1>3, <5>1, <5>2
        <4> QED
          BY <4>1, <4>2
      <3>3. watermark + Len(rows) \in Nat
        BY <1>3, <3>1
      <3> QED
        BY <1>1, <1>2, <3>2, <3>3 DEF EndIsLogged
    <2>4. at = "ended" => EndBy(watermark)'
      BY <1>1, <1>2, <1>3 DEF EndIsLogged
    <2> QED
      BY <1>2, <2>2, <2>3, <2>4 DEF EndIsLogged
  <1>6. RowsFollow'
    BY DEF IInv, RowsFollow
  <1>7. WireFollows'
    BY <1>2 DEF IInv, WireFollows, Before
  <1>8. DeltasHaveNoGap'
    <2>1. lastEventId <= Len(log)
      BY <1>1, <1>3 DEF Typed, TypeOK, NoId
    <2>2. lastEventId \in Int
      BY <1>1, <1>3 DEF Typed, TypeOK, NoId
    <2> QED
      BY <1>2, <1>3, <2>1, <2>2 DEF IInv, DeltasHaveNoGap
  <1>9. PageIsTold'
    BY DEF IInv, PageIsTold
  <1> QED
    BY <1>4, <1>5, <1>6, <1>7, <1>8, <1>9 DEF IInv

-----------------------------------------------------------------------------
(* The server's steps. *)

(* What the server does reaches the client only by the wire. *)
LEMMA ServerAside ==
  ASSUME IInv, UNCHANGED <<readModelVars, clientVars>>, ServerTypeOK',
         wire' \in Seq(Frames), EndIsLogged', RowsFollow', WireFollows'
  PROVE  IInv'
  <1> USE DEF readModelVars, clientVars, cacheVars, cursorVars
  <1>1. Typed'
    BY DEF IInv, Typed, TypeOK, Ids
  <1>2. DeltasHaveNoGap' /\ PageIsTold'
    BY DEF IInv, DeltasHaveNoGap, PageIsTold, Ids
  <1> QED
    BY <1>1, <1>2 DEF IInv

(* Steps that leave the wire and the rows alone. *)
LEMMA LookAroundKeeps ==
  ASSUME IInv, Hear \/ ReadRow \/ ReadRenditions \/ ReadStatus \/ NextPass,
         UNCHANGED clientVars
  PROVE  IInv'
  <1>1. UNCHANGED <<readModelVars, watermark, rows, wire>>
    BY DEF Hear, ReadRow, ReadRenditions, ReadStatus, NextPass
  <1>2. at' \in {"closed", "row", "renditions", "max", "loop", "deltas", "yield",
                 "wait", "ended"}
    BY DEF IInv, Typed, TypeOK, ServerTypeOK, Hear, ReadRow, ReadRenditions, ReadStatus,
           NextPass
  <1>3. ServerTypeOK' /\ wire' \in Seq(Frames)
    BY <1>1, <1>2 DEF IInv, Typed, TypeOK, ServerTypeOK, readModelVars, Ids,
           Hear, ReadRow, ReadRenditions, ReadStatus, NextPass
  <1>4. EndIsLogged'
    BY <1>1 DEF IInv, EndIsLogged, EndBy, readModelVars,
           Hear, ReadRow, ReadRenditions, ReadStatus, NextPass
  <1>5. RowsFollow'
    BY <1>1 DEF IInv, RowsFollow,
           Hear, ReadRow, ReadRenditions, ReadStatus, NextPass
  <1>6. WireFollows'
    BY <1>1 DEF IInv, WireFollows, Before, Fresh, readModelVars, Ids, clientVars, cursorVars,
           Hear, ReadRow, ReadRenditions, ReadStatus, NextPass
  <1> QED
    BY <1>1, <1>3, <1>4, <1>5, <1>6, ServerAside

(* The snapshot is the first frame, and takes the watermark to its id. *)
LEMMA SnapshotKeeps ==
  ASSUME IInv, ReadMaxAndYield, UNCHANGED clientVars
  PROVE  IInv'
  <1> DEFINE f == [kind |-> "snapshot", id |-> Len(log),
                   status |-> rowRead, outcome |-> outcomeRead]
  <1>1. /\ Len(log) \in Nat /\ Ids = 1 .. Len(log)
        /\ watermark \in 0 .. Len(log)
    BY LogFacts DEF IInv
  <1>2. wire = <<>>
    BY DEF IInv, WireFollows, Fresh, ReadMaxAndYield
  <1>3. f \in Frames
    BY <1>1 DEF IInv, Typed, TypeOK, ServerTypeOK, Frames
  <1>4. f.kind = "snapshot" /\ f.id = Len(log)
    OBVIOUS
  <1> HIDE DEF f
  <1>5. /\ wire' \in Seq(Frames) /\ Len(wire') = 1 /\ DOMAIN wire' = 1 .. 1
        /\ wire'[1] = f
    BY <1>2, <1>3 DEF ReadMaxAndYield, f
  <1>6. UNCHANGED readModelVars /\ watermark' = Len(log) /\ at' = "loop" /\ rows' = rows
    BY DEF ReadMaxAndYield
  <1>7. ServerTypeOK'
    BY <1>1, <1>3, <1>4, <1>5, <1>6
    DEF IInv, Typed, TypeOK, ServerTypeOK, ReadMaxAndYield, readModelVars, Ids, States,
        NoOutcome, Outcomes
  <1>8. EndIsLogged'
    BY <1>6 DEF IInv, EndIsLogged, EndBy, readModelVars
  <1>9. RowsFollow'
    BY <1>6 DEF IInv, RowsFollow, ReadMaxAndYield
  <1>10. conn' = "streaming"
    BY DEF IInv, WireFollows, ReadMaxAndYield, clientVars
  <1>11. WireFollows'
    BY <1>4, <1>5, <1>6, <1>10 DEF WireFollows, Before, Fresh
  <1> QED
    BY <1>5, <1>6, <1>7, <1>8, <1>9, <1>11, ServerAside

(* The pass reads all there is behind the watermark, an end with it. *)
LEMMA ReadDeltasKeeps ==
  ASSUME IInv, ReadDeltas, UNCHANGED clientVars
  PROVE  IInv'
  <1>1. /\ Len(log) \in Nat /\ Ids = 1 .. Len(log)
        /\ watermark \in 0 .. Len(log)
    BY LogFacts DEF IInv
  <1>2. /\ UNCHANGED <<readModelVars, wakeup, rowRead, outcomeRead, watermark, wire>>
        /\ at = "deltas" /\ at' = "yield"
    BY DEF ReadDeltas
  <1>3. /\ rows' \in Seq(Ids) /\ Len(rows') = Len(log) - watermark
        /\ DOMAIN rows' = 1 .. Len(log) - watermark
        /\ \A i \in DOMAIN rows' : rows'[i] = watermark + i
    <2>1. rows' = [i \in 1 .. Len(log) - watermark |-> watermark + i]
      BY DEF ReadDeltas
    <2>2. \A i \in 1 .. Len(log) - watermark : watermark + i \in Ids
      BY <1>1
    <2>3. Len(log) - watermark \in Nat
      BY <1>1
    <2> QED
      BY <2>1, <2>2, <2>3
  <1>4. ServerTypeOK'
    BY <1>2, <1>3 DEF IInv, Typed, TypeOK, ServerTypeOK, readModelVars, Ids
  <1>5. EndIsLogged'
    <2>1. watermark + Len(rows') = Len(log)
      BY <1>1, <1>3
    <2> QED
      BY <1>2, <2>1 DEF IInv, EndIsLogged, EndBy, readModelVars
  <1>6. RowsFollow'
    BY <1>2, <1>3 DEF RowsFollow
  <1>7. WireFollows'
    BY <1>2 DEF IInv, WireFollows, Before, Fresh, readModelVars, Ids, clientVars, cursorVars
  <1>8. wire' \in Seq(Frames)
    BY <1>2 DEF IInv, Typed
  <1> QED
    BY <1>2, <1>4, <1>5, <1>6, <1>7, <1>8, ServerAside

(* The oldest row goes on the wire, and the watermark with it. *)
LEMMA YieldDeltaKeeps ==
  ASSUME IInv, YieldDelta, UNCHANGED clientVars
  PROVE  IInv'
  <1> DEFINE f == [kind |-> "delta", id |-> Head(rows)]
  <1>1. /\ Len(log) \in Nat /\ Ids = 1 .. Len(log)
        /\ watermark \in 0 .. Len(log)
    BY LogFacts DEF IInv
  <1>2. rows \in Seq(Ids) /\ rows # <<>>
    BY DEF IInv, Typed, TypeOK, ServerTypeOK, YieldDelta
  <1>3. /\ Tail(rows) \in Seq(Ids)
        /\ Head(rows) \in Ids /\ Head(rows) = rows[1]
        /\ Len(rows) \in Nat /\ Len(rows) >= 1 /\ DOMAIN rows = 1 .. Len(rows)
        /\ Len(Tail(rows)) = Len(rows) - 1 /\ DOMAIN Tail(rows) = 1 .. Len(rows) - 1
        /\ \A i \in 1 .. Len(rows) - 1 : Tail(rows)[i] = rows[i + 1]
    BY <1>2, TailFacts
  <1>4. Head(rows) = watermark + 1
    BY <1>3 DEF IInv, RowsFollow
  <1>5. /\ UNCHANGED <<readModelVars, at, wakeup, rowRead, outcomeRead>>
        /\ at = "yield" /\ watermark' = watermark + 1 /\ rows' = Tail(rows)
        /\ wire' = Append(wire, f)
    BY <1>4 DEF YieldDelta
  <1>6. f \in Frames /\ f.kind = "delta" /\ f.id = watermark + 1
    BY <1>1, <1>3, <1>4 DEF Frames
  <1> HIDE DEF f
  <1>7. wire \in Seq(Frames)
    BY DEF IInv, Typed
  <1>8. /\ wire' \in Seq(Frames)
        /\ Len(wire) \in Nat /\ DOMAIN wire = 1 .. Len(wire)
        /\ Len(wire') = Len(wire) + 1 /\ DOMAIN wire' = 1 .. Len(wire) + 1
        /\ \A i \in 1 .. Len(wire) : wire'[i] = wire[i]
        /\ wire'[Len(wire) + 1] = f
    BY <1>5, <1>6, <1>7, AppendFacts
  <1>9. watermark' \in {0} \union Ids'
    BY <1>3, <1>4, <1>5 DEF readModelVars, Ids
  <1>10. ServerTypeOK'
    <2>1. \A i \in 1 .. Len(wire) : wire[i] \in Frames /\ wire[i].id <= watermark
      BY <1>8 DEF IInv, Typed, TypeOK, ServerTypeOK
    <2>2. \A i \in 1 .. Len(wire) : wire[i].id \in Nat
      BY <2>1 DEF Frames
    <2>3. \A i \in DOMAIN wire' : wire'[i] \in Frames /\ wire'[i].id <= watermark'
      BY <1>1, <1>5, <1>6, <1>8, <2>1, <2>2
    <2> QED
      BY <1>3, <1>5, <1>9, <2>3 DEF IInv, Typed, TypeOK, ServerTypeOK, readModelVars, Ids
  <1>11. RowsFollow'
    BY <1>1, <1>3, <1>5 DEF IInv, RowsFollow
  <1>12. EndIsLogged'
    <2>1. watermark' + Len(rows') = watermark + Len(rows)
      BY <1>1, <1>3, <1>5
    <2> QED
      BY <1>5, <2>1 DEF IInv, EndIsLogged, EndBy, readModelVars
  <1>13. WireFollows'
    <2>1. watermark = Before(Len(wire) + 1) /\ conn = "streaming"
      BY <1>5 DEF IInv, WireFollows, Fresh
    <2>2. Before(Len(wire) + 1)' = watermark'
      BY <1>5, <1>6, <1>8 DEF Before
    <2>3. \A i \in 1 .. Len(wire) + 1 : Before(i)' = Before(i)
      BY <1>8 DEF Before, clientVars, cursorVars
    <2>4. ASSUME NEW i \in DOMAIN wire'
          PROVE  /\ wire'[i].kind = "delta"
                      => wire'[i].id \in Ids' /\ wire'[i].id = Before(i)' + 1
                 /\ wire'[i].kind = "snapshot" => i = 1
      <3>1. CASE i \in 1 .. Len(wire)
        BY <1>5, <1>8, <2>3, <3>1 DEF IInv, WireFollows, readModelVars, Ids
      <3>2. CASE i = Len(wire) + 1
        BY <1>3, <1>4, <1>5, <1>6, <1>8, <2>1, <2>3, <3>2 DEF readModelVars, Ids
      <3> QED
        BY <1>8, <3>1, <3>2
    <2> QED
      BY <1>5, <2>1, <2>2, <2>4 DEF WireFollows, Fresh, clientVars
  <1> QED
    BY <1>5, <1>8, <1>10, <1>11, <1>12, <1>13, ServerAside

(* All rows are sent, and so is an end the pass had read of. *)
LEMMA EndOfPassKeeps ==
  ASSUME IInv, EndOfPass, UNCHANGED clientVars
  PROVE  IInv'
  <1>1. /\ UNCHANGED <<readModelVars, outcomeRead, watermark, rows, wire>>
        /\ at = "yield" /\ rows = <<>> /\ at' \in {"ended", "wait"}
        /\ at' = "ended" => rowRead \in Final
    BY DEF EndOfPass
  <1>2. ServerTypeOK' /\ wire' \in Seq(Frames)
    BY <1>1 DEF IInv, Typed, TypeOK, ServerTypeOK, readModelVars, Ids, EndOfPass, States
  <1>3. watermark + Len(rows) = watermark
    <2>1. Len(rows) = 0
      BY <1>1
    <2> QED
      BY <2>1, LogFacts DEF IInv
  <1>4. EndIsLogged'
    BY <1>1, <1>3 DEF IInv, EndIsLogged, EndBy, readModelVars
  <1>5. RowsFollow'
    BY <1>1 DEF RowsFollow
  <1>6. WireFollows'
    BY <1>1 DEF IInv, WireFollows, Before, Fresh, readModelVars, Ids, clientVars, cursorVars
  <1> QED
    BY <1>1, <1>2, <1>4, <1>5, <1>6, ServerAside

-----------------------------------------------------------------------------
(* The client's steps, and what they do to the stream. *)

(* What the invariant says of the server's end and of the wire. *)
StreamInv ==
  /\ ServerTypeOK /\ wire \in Seq(Frames)
  /\ EndIsLogged /\ RowsFollow /\ WireFollows

(* What is left to show of a step of the client. *)
LEMMA ClientKeeps ==
  ASSUME IInv, UNCHANGED readModelVars, StreamInv',
         client' \in {"page", "resuming"},
         conn' \in {"idle", "streaming", "probing", "closed", "unauthorized"},
         shown' \in States \union {"nothing"}, tiles' \in [Renditions -> Outcomes],
         get' \in States \union {"sent", "done"}, overtaken' \in BOOLEAN,
         tokenValid' \in BOOLEAN, faults' \in 0 .. MaxFaults,
         \/ UNCHANGED cursorVars
         \/ /\ {base', lastEventId'} \subseteq {NoId, 0} \union Ids
            /\ told' \subseteq Ids /\ DeltasHaveNoGap',
         PageIsTold'
  PROVE  IInv'
  <1>1. {base', lastEventId'} \subseteq {NoId, 0} \union Ids /\ told' \subseteq Ids
    BY DEF IInv, Typed, TypeOK, cursorVars
  <1>2. Ids' = Ids
    BY DEF readModelVars, Ids
  <1>3. TypeOK'
    BY <1>1, <1>2 DEF StreamInv, TypeOK
  <1>4. Typed'
    BY <1>3 DEF IInv, Typed, StreamInv, readModelVars
  <1>5. DeltasHaveNoGap'
    BY <1>2 DEF IInv, DeltasHaveNoGap, cursorVars
  <1> QED
    BY <1>4, <1>5 DEF IInv, StreamInv

(* A closed stream is as good as a new one. *)
LEMMA HangUpFacts ==
  ASSUME IInv, HangUp
  PROVE  StreamInv'
  <1>1. /\ at' = "closed" /\ watermark' = 0 /\ wakeup' = FALSE
        /\ rowRead' = "uploaded" /\ outcomeRead' = NoOutcome
        /\ wire' = <<>> /\ rows' = <<>>
        /\ UNCHANGED readModelVars
    BY DEF HangUp
  <1>2. wire' \in Seq(Frames) /\ DOMAIN wire' = {} /\ rows' \in Seq(Ids) /\ DOMAIN rows' = {}
    BY <1>1
  <1>3. NoOutcome \in [Renditions -> Outcomes]
    BY DEF NoOutcome, Outcomes
  <1>4. ServerTypeOK'
    BY <1>1, <1>2, <1>3 DEF ServerTypeOK, readModelVars, Ids, States
  <1>5. EndIsLogged'
    BY <1>1 DEF IInv, EndIsLogged, EndBy, readModelVars
  <1>6. RowsFollow' /\ WireFollows'
    BY <1>1, <1>2 DEF RowsFollow, WireFollows, Fresh
  <1> QED
    BY <1>2, <1>4, <1>5, <1>6 DEF StreamInv

(* Who is not connected has no stream. *)
LEMMA ClosedFacts ==
  ASSUME IInv, conn # "streaming"
  PROVE  at = "closed" /\ wire = <<>> /\ rows = <<>>
  BY DEF IInv, WireFollows, RowsFollow, Fresh

(* A step that does not touch the stream, with no connection before or after *)
(* it, or the same one.                                                      *)
LEMMA AsideFacts ==
  ASSUME IInv, UNCHANGED <<readModelVars, serverVars, lastEventId>>,
         conn' = conn \/ (conn # "streaming" /\ conn' # "streaming")
  PROVE  StreamInv'
  <1> USE DEF readModelVars, serverVars
  <1>1. ServerTypeOK' /\ wire' \in Seq(Frames)
    BY DEF IInv, Typed, TypeOK, ServerTypeOK, Ids
  <1>2. EndIsLogged' /\ RowsFollow'
    BY DEF IInv, EndIsLogged, EndBy, RowsFollow
  <1>3. WireFollows'
    BY DEF IInv, WireFollows, Before, Ids
  <1> QED
    BY <1>1, <1>2, <1>3 DEF StreamInv

(* A stream is opened: from a snapshot, or behind the last id received. *)
LEMMA OpenFacts ==
  ASSUME IInv, conn # "streaming", conn' = "streaming", UNCHANGED cursorVars,
         Subscribe \/ (lastEventId # NoId /\ Resume(lastEventId))
  PROVE  StreamInv' /\ UNCHANGED readModelVars
  <1>1. at = "closed" /\ wire = <<>> /\ rows = <<>>
    BY ClosedFacts
  <1>2. UNCHANGED <<readModelVars, wakeup, rowRead, outcomeRead, rows, wire>>
    BY DEF Subscribe, Resume, Open
  <1>3. \/ at' = "row" /\ watermark' = 0
        \/ at' = "loop" /\ watermark' = lastEventId /\ lastEventId # NoId
    BY DEF Subscribe, Resume, Open
  <1>4. watermark' \in {0} \union Ids
    BY <1>3 DEF IInv, Typed, TypeOK
  <1>5. DOMAIN wire = {} /\ DOMAIN rows = {} /\ Len(wire) = 0
    BY <1>1
  <1>6. ServerTypeOK' /\ wire' \in Seq(Frames)
    BY <1>2, <1>3, <1>4, <1>5 DEF IInv, Typed, TypeOK, ServerTypeOK, readModelVars, Ids
  <1>7. EndIsLogged'
    BY <1>2, <1>3 DEF IInv, EndIsLogged, EndBy, readModelVars
  <1>8. RowsFollow'
    BY <1>1, <1>2 DEF IInv, RowsFollow
  <1>9. WireFollows'
    BY <1>1, <1>2, <1>3, <1>5 DEF WireFollows, Before, Fresh, cursorVars
  <1> QED
    BY <1>2, <1>6, <1>7, <1>8, <1>9 DEF StreamInv

(* Connecting, or failing to, takes nothing from what is shown. *)
LEMMA ConnectsKeep ==
  ASSUME IInv, Connect \/ ConnectAgain \/ ConnectFails
  PROVE  IInv'
  <1> USE DEF cacheVars
  <1>1. StreamInv' /\ UNCHANGED readModelVars
    <2>1. CASE Connect /\ tokenValid
      BY <2>1, OpenFacts DEF Connect
    <2>2. CASE ConnectAgain
      BY <2>2, OpenFacts DEF ConnectAgain
    <2>3. CASE ConnectFails \/ (Connect /\ ~tokenValid)
      BY <2>3, AsideFacts DEF Connect, ConnectFails, cursorVars
    <2> QED
      BY <2>1, <2>2, <2>3
  <1>2. /\ conn' \in {"streaming", "probing"}
        /\ UNCHANGED <<client, shown, tiles, get, overtaken, tokenValid, cursorVars>>
    BY DEF Connect, ConnectAgain, ConnectFails
  <1>3. faults' \in 0 .. MaxFaults
    BY PageAssumption DEF IInv, Typed, TypeOK, Connect, ConnectAgain, ConnectFails, Fault
  <1>4. PageIsTold'
    BY <1>2 DEF PageIsTold
  <1> QED
    BY <1>1, <1>2, <1>3, <1>4, ClientKeeps DEF IInv, Typed, TypeOK

(* Only the client that resumes is done when the server closes. *)
LEMMA DisconnectsKeep ==
  ASSUME IInv, ConnectionBreaks \/ StreamEnds
  PROVE  IInv'
  <1> USE DEF cacheVars
  <1>1. StreamInv' /\ UNCHANGED readModelVars
    BY HangUpFacts DEF ConnectionBreaks, StreamEnds, HangUp
  <1>2. /\ conn' \in {"idle", "probing", "closed"}
        /\ conn' = "closed" => client # "page"
        /\ UNCHANGED <<client, shown, tiles, get, overtaken, tokenValid, cursorVars>>
    BY DEF ConnectionBreaks, StreamEnds, AfterError
  <1>3. faults' \in 0 .. MaxFaults
    BY PageAssumption DEF IInv, Typed, TypeOK, ConnectionBreaks, StreamEnds, Fault
  <1>4. PageIsTold'
    BY <1>2 DEF PageIsTold
  <1> QED
    BY <1>1, <1>2, <1>3, <1>4, ClientKeeps DEF IInv, Typed, TypeOK

(* Looking after the token does not touch the stream. *)
LEMMA ProbesKeep ==
  ASSUME IInv, ProbeReturns \/ ProbeFails \/ TokenExpires
  PROVE  IInv'
  <1> USE DEF cacheVars, cursorVars
  <1>1. /\ UNCHANGED <<readModelVars, serverVars, client, shown, tiles, get, overtaken>>
        /\ UNCHANGED cursorVars
        /\ conn' = conn \/ (conn = "probing" /\ conn' \in {"idle", "unauthorized"})
        /\ tokenValid' \in BOOLEAN
    BY DEF IInv, Typed, TypeOK, ProbeReturns, ProbeFails, TokenExpires
  <1>2. StreamInv'
    BY <1>1, AsideFacts
  <1>3. faults' \in 0 .. MaxFaults
    BY PageAssumption
    DEF IInv, Typed, TypeOK, ProbeReturns, ProbeFails, TokenExpires, Fault
  <1>4. PageIsTold'
    BY <1>1 DEF IInv, PageIsTold
  <1>5. conn' \in {"idle", "streaming", "probing", "closed", "unauthorized"}
    BY <1>1 DEF IInv, Typed, TypeOK
  <1> QED
    BY <1>1, <1>2, <1>3, <1>4, <1>5, ClientKeeps DEF IInv, Typed, TypeOK

(* The page's own response puts an old status back only where it says so. *)
LEMMA GetKeeps ==
  ASSUME IInv, ApiReadsVideo \/ GetArrives
  PROVE  IInv'
  <1> USE DEF cursorVars
  <1>1. /\ UNCHANGED <<readModelVars, serverVars, client, conn, tiles, tokenValid>>
        /\ UNCHANGED <<cursorVars, faults>>
        /\ get' \in States \union {"sent", "done"}
        /\ shown' \in States \union {"nothing"}
        /\ overtaken' \in BOOLEAN
    BY DEF IInv, Typed, TypeOK, ApiReadsVideo, GetArrives
  <1>2. StreamInv'
    BY <1>1, AsideFacts
  <1>3. PageIsTold'
    <2>1. CASE ApiReadsVideo
      BY <2>1 DEF IInv, PageIsTold, ApiReadsVideo
    <2>2. CASE GetArrives
      BY <2>2 DEF IInv, PageIsTold, GetArrives, States
    <2> QED
      BY <2>1, <2>2
  <1> QED
    BY <1>1, <1>2, <1>3, ClientKeeps DEF IInv, Typed, TypeOK

-----------------------------------------------------------------------------
(* The frames. *)

(* The oldest frame is what it says it is. *)
LEMMA FrameFacts ==
  ASSUME IInv, conn = "streaming", wire # <<>>
  PROVE  /\ Head(wire).kind \in {"snapshot", "delta"}
         /\ Head(wire).id \in {0} \union Ids
         /\ Head(wire).kind = "snapshot" =>
              /\ Head(wire).status \in States
              /\ Head(wire).outcome \in [Renditions -> Outcomes]
         /\ Head(wire).kind = "delta" =>
              /\ Head(wire).id \in Ids /\ Head(wire).id = lastEventId + 1
              /\ log[Head(wire).id] \in Known
  <1>1. wire \in Seq(Frames)
    BY DEF IInv, Typed
  <1>2. /\ Head(wire) \in Frames /\ Head(wire) = wire[1]
        /\ Len(wire) \in Nat /\ Len(wire) >= 1 /\ DOMAIN wire = 1 .. Len(wire)
    BY <1>1, TailFacts
  <1>3. 1 \in DOMAIN wire
    BY <1>2
  <1>4. wire[1].id <= watermark
    BY <1>3 DEF IInv, Typed, TypeOK, ServerTypeOK
  <1>5. /\ Len(log) \in Nat /\ Ids = 1 .. Len(log)
        /\ \A i \in Ids : log[i] \in Known
        /\ watermark \in 0 .. Len(log)
    BY LogFacts DEF IInv
  <1>6. Head(wire).kind \in {"snapshot", "delta"} /\ Head(wire).id \in Nat
    BY <1>2 DEF Frames
  <1>7. Head(wire).id \in {0} \union Ids
    BY <1>2, <1>4, <1>5, <1>6
  <1>8. Head(wire).kind = "snapshot" =>
          /\ Head(wire).status \in States
          /\ Head(wire).outcome \in [Renditions -> Outcomes]
    BY <1>2 DEF Frames
  <1>9. Head(wire).kind = "delta" =>
          Head(wire).id \in Ids /\ Head(wire).id = lastEventId + 1
    BY <1>2, <1>3 DEF IInv, WireFollows, Before
  <1> QED
    BY <1>5, <1>6, <1>7, <1>8, <1>9

(* What is left of the wire follows the frame that was taken off it. *)
LEMMA StayOpenFacts ==
  ASSUME IInv, conn = "streaming", wire # <<>>, StayOpen, lastEventId' = Head(wire).id
  PROVE  StreamInv'
  <1>1. /\ wire' = Tail(wire)
        /\ UNCHANGED <<readModelVars, at, wakeup, rowRead, outcomeRead, watermark, rows,
                       conn>>
    BY DEF StayOpen
  <1>2. wire \in Seq(Frames)
    BY DEF IInv, Typed
  <1>3. /\ wire' \in Seq(Frames)
        /\ Head(wire) = wire[1]
        /\ Len(wire) \in Nat /\ Len(wire) >= 1 /\ DOMAIN wire = 1 .. Len(wire)
        /\ Len(wire') = Len(wire) - 1 /\ DOMAIN wire' = 1 .. Len(wire) - 1
        /\ \A i \in 1 .. Len(wire) - 1 : wire'[i] = wire[i + 1]
    BY <1>1, <1>2, TailFacts
  <1>4. \A i \in 1 .. Len(wire) - 1 : i + 1 \in DOMAIN wire
    BY <1>3
  <1>5. ServerTypeOK'
    BY <1>1, <1>3, <1>4 DEF IInv, Typed, TypeOK, ServerTypeOK, readModelVars, Ids
  <1>6. EndIsLogged' /\ RowsFollow'
    BY <1>1 DEF IInv, EndIsLogged, EndBy, RowsFollow, readModelVars
  <1>7. \A i \in 1 .. Len(wire) : Before(i)' = Before(i + 1)
    <2> SUFFICES ASSUME NEW i \in 1 .. Len(wire)
                 PROVE  Before(i)' = Before(i + 1)
      OBVIOUS
    <2>1. Before(i + 1) = wire[i].id
      BY <1>3 DEF Before
    <2>2. CASE i = 1
      BY <1>3, <2>1, <2>2 DEF Before
    <2>3. CASE i # 1
      <3>1. i - 1 \in 1 .. Len(wire) - 1 /\ (i - 1) + 1 = i
        BY <1>3, <2>3
      <3> QED
        BY <1>3, <2>1, <2>3, <3>1 DEF Before
    <2> QED
      BY <2>2, <2>3
  <1>8. at \notin Fresh \union {"closed"}
    BY DEF IInv, WireFollows
  <1>9. watermark = Before(Len(wire) + 1)
    BY <1>8 DEF IInv, WireFollows
  <1>10. watermark' = Before(Len(wire) + 1)'
    <2>1. (Len(wire) + 1)' = Len(wire) /\ Len(wire) \in 1 .. Len(wire)
      BY <1>3
    <2>2. Before(Len(wire) + 1)' = (IF Len(wire) = 1 THEN lastEventId'
                                                   ELSE wire'[Len(wire) - 1].id)
      BY <2>1 DEF Before
    <2>3. CASE Len(wire) = 1
      BY <1>1, <1>3, <1>9, <2>2, <2>3 DEF Before
    <2>4. CASE Len(wire) # 1
      <3>1. Len(wire) - 1 \in 1 .. Len(wire) - 1 /\ (Len(wire) - 1) + 1 = Len(wire)
        BY <1>3, <2>4
      <3>2. wire'[Len(wire) - 1] = wire[Len(wire)]
        BY <1>3, <3>1
      <3> QED
        BY <1>1, <1>3, <1>9, <2>2, <2>4, <3>2 DEF Before
    <2> QED
      BY <2>3, <2>4
  <1>11. ASSUME NEW i \in DOMAIN wire'
         PROVE  /\ wire'[i].kind = "delta"
                     => wire'[i].id \in Ids' /\ wire'[i].id = Before(i)' + 1
                /\ wire'[i].kind = "snapshot" => i = 1
    <2>1. i + 1 \in DOMAIN wire /\ wire'[i] = wire[i + 1] /\ i + 1 # 1
      BY <1>3
    <2>2. Before(i)' = Before(i + 1)
      BY <1>3, <1>7
    <2> QED
      BY <1>1, <2>1, <2>2 DEF IInv, WireFollows, readModelVars, Ids
  <1>12. WireFollows'
    BY <1>1, <1>8, <1>10, <1>11 DEF WireFollows
  <1> QED
    BY <1>3, <1>5, <1>6, <1>12 DEF StreamInv

(* A snapshot is a new beginning, a delta one more id. *)
LEMMA CursorFacts ==
  ASSUME IInv, conn = "streaming", wire # <<>>, UNCHANGED readModelVars,
         StartOver \/ (Head(wire).kind = "delta" /\ Received)
  PROVE  /\ {base', lastEventId'} \subseteq {NoId, 0} \union Ids
         /\ told' \subseteq Ids
         /\ DeltasHaveNoGap'
         /\ lastEventId' = Head(wire).id
  <1>1. Ids' = Ids /\ Ids \subseteq Int /\ lastEventId \in Int
    BY LogFacts DEF IInv, Typed, TypeOK, readModelVars, Ids, NoId
  <1>2. Head(wire).id \in {0} \union Ids
    BY FrameFacts
  <1>3. CASE StartOver
    <2>1. base' = Head(wire).id /\ lastEventId' = Head(wire).id /\ told' = {}
      BY <1>3 DEF StartOver
    <2>2. Head(wire).id \in Int
      <3>1. Len(log) \in Nat /\ Ids = 1 .. Len(log)
        BY LogFacts DEF IInv
      <3> QED
        BY <1>2, <3>1
    <2>3. DeltasHaveNoGap'
      BY <1>1, <2>1, <2>2 DEF DeltasHaveNoGap
    <2> QED
      BY <1>2, <2>1, <2>3
  <1>4. CASE Head(wire).kind = "delta" /\ Received
    <2>1. Head(wire).id \in Ids /\ Head(wire).id = lastEventId + 1
      BY <1>4, FrameFacts
    <2>2. told' \subseteq Ids /\ {base', lastEventId'} \subseteq {NoId, 0} \union Ids
      BY <1>4, <2>1 DEF IInv, Typed, TypeOK, Received
    <2>3. DeltasHaveNoGap'
      BY <1>1, <1>4, <2>1 DEF IInv, DeltasHaveNoGap, Received
    <2> QED
      BY <1>4, <2>2, <2>3 DEF Received
  <1> QED
    BY <1>3, <1>4

(* A frame that is handled, whoever handles it and whatever it shows. *)
LEMMA FrameKeeps ==
  ASSUME IInv, conn = "streaming", wire # <<>>,
         StayOpen \/ CloseForGood,
         StartOver \/ (Head(wire).kind = "delta" /\ Received),
         shown' \in States \union {"nothing"}, tiles' \in [Renditions -> Outcomes],
         overtaken' \in BOOLEAN, UNCHANGED <<client, get, tokenValid, faults>>,
         CloseForGood /\ client = "page" => shown' \in Final
  PROVE  IInv'
  <1>1. UNCHANGED readModelVars
    BY DEF StayOpen, CloseForGood, HangUp
  <1>2. /\ {base', lastEventId'} \subseteq {NoId, 0} \union Ids
        /\ told' \subseteq Ids
        /\ DeltasHaveNoGap'
        /\ lastEventId' = Head(wire).id
    BY <1>1, CursorFacts
  <1>3. StreamInv'
    BY <1>2, StayOpenFacts, HangUpFacts DEF CloseForGood
  <1>4. conn' \in {"streaming", "closed"} /\ (conn' = "closed" => CloseForGood)
    BY DEF StayOpen, CloseForGood
  <1>5. PageIsTold'
    BY <1>4 DEF PageIsTold, Final
  <1> QED
    BY <1>1, <1>2, <1>3, <1>4, <1>5, ClientKeeps DEF IInv, Typed, TypeOK

(* A snapshot shows what was read for it. *)
LEMMA OnSnapshotKeeps ==
  ASSUME IInv, OnSnapshot
  PROVE  IInv'
  <1>1. conn = "streaming" /\ wire # <<>> /\ Head(wire).kind = "snapshot"
    BY DEF OnSnapshot, FrameComes
  <1>2. Head(wire).status \in States /\ Head(wire).outcome \in [Renditions -> Outcomes]
    BY <1>1, FrameFacts
  <1>3. CASE Head(wire).status \in Final
    BY <1>1, <1>2, <1>3, FrameKeeps DEF OnSnapshot, Shows
  <1>4. CASE Head(wire).status \notin Final
    <2>1. StayOpen
      BY <1>4 DEF OnSnapshot
    <2>2. ~CloseForGood
      BY <1>1, <2>1 DEF StayOpen, CloseForGood
    <2> QED
      BY <1>1, <1>2, <2>1, <2>2, FrameKeeps DEF OnSnapshot, Shows
  <1> QED
    BY <1>3, <1>4

(* What the handlers of the deltas have in common. *)
LEMMA DeltaFacts ==
  ASSUME IInv, FrameComes("delta")
  PROVE  /\ conn = "streaming" /\ wire # <<>> /\ Head(wire).kind = "delta"
         /\ Arrived.state \in States
         /\ Name \in {"rendition.completed", "rendition.failed"}
              => Arrived.rendition \in Renditions
         /\ StayOpen => ~CloseForGood
  <1>1. conn = "streaming" /\ wire # <<>> /\ Head(wire).kind = "delta"
    BY DEF FrameComes
  <1>2. log[Head(wire).id] \in Known
    BY <1>1, FrameFacts
  <1>3. /\ Arrived.state \in States
        /\ Arrived.rendition \in Renditions \union {NoRendition}
    BY <1>2, EventFacts DEF Arrived
  <1>4. Name \in {"rendition.completed", "rendition.failed"}
          => Arrived.rendition # NoRendition
    <2> DEFINE m == log[Head(wire).id]
    <2>1. m[1] = "pipeline.failed" \/ m[1] = "video.status"
      BY <1>2, EventFacts DEF Topics
    <2>2. CASE Arrived.rendition = NoRendition /\ m[1] = "pipeline.failed"
      BY <2>2 DEF Name, EventName, Arrived
    <2>3. CASE Arrived.rendition = NoRendition /\ m[1] = "video.status"
      BY <2>3 DEF Name, EventName, Arrived
    <2> QED
      BY <2>1, <2>2, <2>3
  <1>5. StayOpen => ~CloseForGood
    BY <1>1 DEF StayOpen, CloseForGood
  <1> QED
    BY <1>1, <1>3, <1>4, <1>5

(* The deltas: a page is closed only by an end it shows. *)
LEMMA DeltasKeep ==
  ASSUME IInv, OnStatus \/ OnRenditionCompleted \/ OnFailed
  PROVE  IInv'
  <1>1. FrameComes("delta") /\ Received
    BY DEF OnStatus, OnRenditionCompleted, OnFailed
  <1>2. /\ conn = "streaming" /\ wire # <<>> /\ Head(wire).kind = "delta"
        /\ Arrived.state \in States
        /\ Name \in {"rendition.completed", "rendition.failed"}
              => Arrived.rendition \in Renditions
        /\ StayOpen => ~CloseForGood
    BY <1>1, DeltaFacts
  <1>3. /\ tiles \in [Renditions -> Outcomes] /\ shown \in States \union {"nothing"}
        /\ overtaken \in BOOLEAN
    BY DEF IInv, Typed, TypeOK
  <1>4. CASE OnStatus
    <2>1. shown' = Arrived.state /\ overtaken' = FALSE
      BY <1>4 DEF OnStatus, Shows
    <2>2. StayOpen \/ (CloseForGood /\ Arrived.state = "completed")
      BY <1>4 DEF OnStatus
    <2> QED
      BY <1>1, <1>2, <1>3, <1>4, <2>1, <2>2, FrameKeeps DEF OnStatus, Final
  <1>5. CASE OnRenditionCompleted
    <2>1. StayOpen /\ Arrived.rendition \in Renditions
      BY <1>2, <1>5 DEF OnRenditionCompleted
    <2>2. tiles' \in [Renditions -> Outcomes]
      BY <1>3, <1>5 DEF OnRenditionCompleted, Outcomes
    <2> QED
      BY <1>1, <1>2, <1>3, <1>5, <2>1, <2>2, FrameKeeps DEF OnRenditionCompleted
  <1>6. CASE OnFailed
    <2>1. shown' = "failed" /\ overtaken' = FALSE /\ CloseForGood
      BY <1>6 DEF OnFailed, Shows
    <2>2. tiles' \in [Renditions -> Outcomes]
      BY <1>2, <1>3, <1>6 DEF OnFailed, Outcomes
    <2>3. shown' \in States /\ shown' \in Final
      BY <2>1 DEF States, Final
    <2> QED
      BY <1>1, <1>2, <1>6, <2>1, <2>2, <2>3, FrameKeeps DEF OnFailed
  <1> QED
    BY <1>4, <1>5, <1>6

(* The client that resumes by itself only keeps count. *)
LEMMA OnFrameKeeps ==
  ASSUME IInv, OnFrame
  PROVE  IInv'
  <1>1. conn = "streaming" /\ wire # <<>> /\ client = "resuming" /\ StayOpen
    BY DEF OnFrame
  <1>2. Head(wire).kind \in {"snapshot", "delta"}
    BY <1>1, FrameFacts
  <1>3. StartOver \/ (Head(wire).kind = "delta" /\ Received)
    BY <1>2 DEF OnFrame
  <1>4. UNCHANGED <<client, shown, tiles, get, overtaken, tokenValid, faults>>
    BY DEF OnFrame, cacheVars
  <1> QED
    BY <1>1, <1>3, <1>4, FrameKeeps DEF IInv, Typed, TypeOK

-----------------------------------------------------------------------------
(* The invariant, and what follows from it. *)

(* Nobody is connected at first, and nothing has happened to the video. *)
LEMMA InitEstablishes == Init => IInv
  <1> SUFFICES ASSUME Init PROVE IInv
    OBVIOUS
  <1> USE DEF Init, ReadModelInit, ServerInit
  <1>1. /\ wire \in Seq(Frames) /\ DOMAIN wire = {}
        /\ rows \in Seq(Ids) /\ DOMAIN rows = {}
        /\ log \in Seq(Known)
    OBVIOUS
  <1>2. 0 \in 0 .. MaxFaults
    BY PageAssumption
  <1>3. ServerTypeOK
    BY <1>1 DEF ServerTypeOK, NoOutcome, States, Outcomes
  <1>4. TypeOK
    BY <1>2, <1>3 DEF TypeOK, Outcomes, States
  <1>5. Typed
    BY <1>1, <1>4 DEF Typed, States, Outcomes
  <1>6. EndIsLogged /\ RowsFollow
    BY <1>1 DEF EndIsLogged, RowsFollow, Final
  <1>7. WireFollows
    BY <1>1 DEF WireFollows, Fresh
  <1>8. DeltasHaveNoGap
    <2>1. Ids = {}
      BY DEF Ids
    <2> QED
      BY <2>1 DEF DeltasHaveNoGap
  <1>9. PageIsTold
    BY DEF PageIsTold
  <1> QED
    BY <1>5, <1>6, <1>7, <1>8, <1>9 DEF IInv

(* Every step keeps the invariant. *)
LEMMA NextKeeps == IInv /\ [Next]_vars => IInv'
  <1> SUFFICES ASSUME IInv, [Next]_vars PROVE IInv'
    OBVIOUS
  <1>1. ASSUME NEW m \in Messages, Projected(m) \/ ProjectedAgain(m)
        PROVE  IInv'
    <2>1. Apply(m) \/ Reapply(m)
      BY <1>1 DEF Projected, ProjectedAgain
    <2>2. faults' \in 0 .. MaxFaults
      BY <1>1, PageAssumption
      DEF IInv, Typed, TypeOK, Projected, ProjectedAgain, Fault, clientVars
    <2> QED
      BY <1>1, <2>1, <2>2, ProjectorKeeps
      DEF Projected, ProjectedAgain, clientVars, cacheVars, cursorVars
  <1>2. CASE (Hear \/ Serve) /\ UNCHANGED clientVars
    BY <1>2, LookAroundKeeps, SnapshotKeeps, ReadDeltasKeeps, YieldDeltaKeeps,
       EndOfPassKeeps DEF Serve
  <1>3. CASE Browser \/ ConnectFails \/ ConnectionBreaks \/ ProbeFails \/ TokenExpires
    BY <1>3, ConnectsKeep, DisconnectsKeep, ProbesKeep, OnSnapshotKeeps, DeltasKeep,
       OnFrameKeeps DEF Browser, HandleFrame
  <1>4. CASE ApiReadsVideo \/ GetArrives
    BY <1>4, GetKeeps
  <1>5. CASE UNCHANGED vars
    <2>1. StreamInv'
      BY <1>5, AsideFacts DEF vars, clientVars, cursorVars
    <2>2. PageIsTold'
      BY <1>5 DEF vars, clientVars, cacheVars, IInv, PageIsTold
    <2> QED
      BY <1>5, <2>1, <2>2, ClientKeeps
      DEF vars, clientVars, cacheVars, cursorVars, IInv, Typed, TypeOK
  <1> QED
    BY <1>1, <1>2, <1>3, <1>4, <1>5 DEF Next

(* IInv is an invariant of the page and its stream. *)
THEOREM Invariant == Spec => []IInv
  BY InitEstablishes, NextKeeps, PTL DEF Spec

(* Every variable keeps its type. *)
THEOREM TypeCorrect == Spec => []TypeOK
  <1>1. IInv => TypeOK
    BY DEF IInv, Typed
  <1> QED
    BY <1>1, Invariant, PTL

(* Over any number of reconnects, a client gets every event between its last *)
(* snapshot and the last id it has seen.                                     *)
THEOREM DeltasHaveNoGapTheorem == Spec => []DeltasHaveNoGap
  <1>1. IInv => DeltasHaveNoGap
    BY DEF IInv
  <1> QED
    BY <1>1, Invariant, PTL

(* A stream ends only after an event that ends the video. *)
THEOREM EndIsCoveredTheorem == Spec => []EndIsCovered
  <1>1. IInv => EndIsCovered
    BY DEF IInv, EndIsLogged, EndBy, EndIsCovered
  <1> QED
    BY <1>1, Invariant, PTL

(* A page that has closed its stream for good shows an end, unless its own   *)
(* response was overtaken.                                                   *)
THEOREM FinishedPageShowsTheEndTheorem == Spec => []FinishedPageShowsTheEnd
  <1>1. IInv => FinishedPageShowsTheEnd
    BY DEF IInv, PageIsTold, FinishedPageShowsTheEnd
  <1> QED
    BY <1>1, Invariant, PTL

=============================================================================
