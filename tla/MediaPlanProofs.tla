---------------------------- MODULE MediaPlanProofs ----------------------------
(***************************************************************************)
(* Proofs about MediaPlan: for any file that ffprobe can describe the      *)
(* ladder suits the picture, and the cues tile the clip to the             *)
(* millisecond; for any ladder on record the master playlist goes by       *)
(* bandwidth.                                                              *)
(***************************************************************************)
EXTENDS MediaPlan, FiniteSetTheorems, SequenceTheorems, TLAPS

-----------------------------------------------------------------------------
(* The inductive invariant. *)

Planned == step \in {"cues", "master", "done"}

(* What a file is planned by. *)
PlanFollows ==
  /\ step \in {"probe", "rejected", "cues", "master", "done"}
  /\ file \in Files
  /\ Planned => /\ ~Rejected(file)
                /\ duration = RawDuration(file) /\ ladder = Ladder(file)
                /\ expected = ladder \/ expected \in OtherLadders

(* build_vtt has written the cues it counts. *)
CuesFollow ==
  /\ cues \in Seq({Cue(i, duration) : i \in Nat})
  /\ \A i \in 1 .. Len(cues) : cues[i] = Cue(i - 1, duration)
  /\ ~Planned => cues = <<>>
  /\ step = "cues" => Len(cues) < TileCount(duration)
  /\ step \in {"master", "done"} => Len(cues) = TileCount(duration)

MasterFollows == step = "done" => master = MasterPlaylist(expected)

IInv == PlanFollows /\ CuesFollow /\ MasterFollows

-----------------------------------------------------------------------------
(* Arithmetic. *)

(* Division leaves a remainder ... *)
LEMMA DivMod ==
  ASSUME NEW n \in Nat, NEW d \in Nat \ {0}
  PROVE  /\ n \div d \in Nat /\ n % d \in 0 .. d - 1
         /\ n = d * (n \div d) + (n % d)
  OBVIOUS

(* ... and there is one way to divide only. *)
LEMMA DivIs ==
  ASSUME NEW d \in Nat \ {0}, NEW q \in Nat, NEW r \in 0 .. d - 1
  PROVE  (d * q + r) \div d = q /\ (d * q + r) % d = r
  OBVIOUS

(* A whole number of units more is as much more when it is rounded. *)
LEMMA RoundedShift ==
  ASSUME NEW a \in Nat, NEW k \in Nat, NEW s \in Nat \ {0}
  PROVE  /\ Rounded(a, s) \in Nat
         /\ Rounded(a + s * k, s) = Rounded(a, s) + k
  <1> DEFINE q == (2 * a + s) \div (2 * s)
             r == (2 * a + s) % (2 * s)
  <1>1. 2 * a + s \in Nat /\ 2 * s \in Nat \ {0}
    OBVIOUS
  <1>2. q \in Nat /\ r \in 0 .. (2 * s) - 1 /\ 2 * a + s = (2 * s) * q + r
    BY <1>1, DivMod
  <1> HIDE DEF q, r
  <1>3. 2 * (a + s * k) + s = (2 * s) * (q + k) + r
    BY <1>2
  <1>4. ((2 * s) * (q + k) + r) \div (2 * s) = q + k
    BY <1>1, <1>2, DivIs
  <1>5. q = Rounded(a, s)
    BY DEF q, Rounded
  <1>6. Rounded(a + s * k, s) = q + k
    BY <1>3, <1>4 DEF Rounded
  <1> QED
    BY <1>2, <1>5, <1>6

(* Rounding keeps the order. *)
LEMMA RoundedMonotonic ==
  ASSUME NEW a \in Nat, NEW b \in Nat, a <= b, NEW s \in Nat \ {0}
  PROVE  Rounded(a, s) <= Rounded(b, s)
  <1>1. 2 * a + s \in Nat /\ 2 * b + s \in Nat /\ 2 * s \in Nat \ {0}
    OBVIOUS
  <1> DEFINE p == (2 * a + s) \div (2 * s)
             q == (2 * b + s) \div (2 * s)
  <1>2. /\ p \in Nat /\ (2 * a + s) % (2 * s) \in 0 .. (2 * s) - 1
        /\ 2 * a + s = (2 * s) * p + ((2 * a + s) % (2 * s))
    BY <1>1, DivMod
  <1>3. /\ q \in Nat /\ (2 * b + s) % (2 * s) \in 0 .. (2 * s) - 1
        /\ 2 * b + s = (2 * s) * q + ((2 * b + s) % (2 * s))
    BY <1>1, DivMod
  <1>4. (2 * s) * p < (2 * s) * (q + 1)
    BY <1>2, <1>3
  <1> HIDE DEF p, q
  <1>5. p <= q
    BY <1>1, <1>2, <1>3, <1>4
  <1> QED
    BY <1>5 DEF Rounded, p, q

(* Multiplication distributes. *)
LEMMA Distributes ==
  ASSUME NEW a \in Nat, NEW b \in Nat, NEW c \in Nat
  PROVE  a * b + a * c = a * (b + c)
  OBVIOUS

(* Digits of one base and the next. *)
LEMMA Digits ==
  ASSUME NEW u \in Nat, NEW h \in Nat, NEW m \in Nat, NEW r \in Nat, NEW k \in Nat
  PROVE  (k * u) * h + (u * m + r) = u * (k * h + m) + r
  <1>1. (k * u) * h = u * (k * h)
    OBVIOUS
  <1>2. PICK x \in Nat : x = k * h
    OBVIOUS
  <1>3. u * x + u * m = u * (x + m)
    BY ONLY u \in Nat, x \in Nat, m \in Nat, Distributes
  <1>4. u * x \in Nat /\ u * m \in Nat
    OBVIOUS
  <1> QED
    BY <1>1, <1>2, <1>3, <1>4

(* A time is its hours, minutes and the rest, whatever a minute is. *)
LEMMA HoursAndMinutes ==
  ASSUME NEW t \in Nat, NEW minute \in Nat \ {0}
  PROVE  \E h, m, r \in Nat :
           /\ h = t \div (60 * minute) /\ m = (t % (60 * minute)) \div minute
           /\ r = t % minute
           /\ t = minute * (60 * h + m) + r
  <1>1. 60 * minute \in Nat \ {0}
    OBVIOUS
  <1>2. /\ t \div (60 * minute) \in Nat /\ t % (60 * minute) \in 0 .. (60 * minute) - 1
        /\ t = (60 * minute) * (t \div (60 * minute)) + (t % (60 * minute))
    BY ONLY <1>1, t \in Nat, DivMod, Zenon
  <1>3. PICK h \in Nat, rest \in Nat :
          h = t \div (60 * minute) /\ rest = t % (60 * minute)
    BY <1>1, <1>2
  <1>4. /\ rest \div minute \in Nat /\ rest % minute \in 0 .. minute - 1
        /\ rest = minute * (rest \div minute) + (rest % minute)
    BY ONLY rest \in Nat, minute \in Nat \ {0}, DivMod, Zenon
  <1>5. PICK m \in Nat, r \in 0 .. minute - 1 :
          m = rest \div minute /\ r = rest % minute
    BY <1>4
  <1>6. t = (60 * minute) * h + (minute * m + r)
    BY ONLY <1>2, <1>3, <1>4, <1>5, Zenon
  <1>7. r \in Nat
    BY <1>5
  <1>8. t = minute * (60 * h + m) + r
    <2>1. minute \in Nat /\ 60 \in Nat
      OBVIOUS
    <2>2. (60 * minute) * h + (minute * m + r) = minute * (60 * h + m) + r
      BY ONLY <2>1, h \in Nat, m \in Nat, <1>7, Digits
    <2> QED
      BY ONLY <1>6, <2>2, Zenon
  <1>9. t % minute = r
    <2>1. PICK q \in Nat : q = 60 * h + m
      OBVIOUS
    <2>2. (minute * q + r) % minute = r
      BY ONLY minute \in Nat \ {0}, q \in Nat, r \in 0 .. minute - 1, DivIs, Zenon
    <2> QED
      BY ONLY <1>8, <2>1, <2>2, Zenon
  <1>10. m = (t % (60 * minute)) \div minute
    BY ONLY <1>3, <1>5, Zenon
  <1> QED
    BY ONLY h \in Nat, m \in Nat, <1>3, <1>7, <1>8, <1>9, <1>10, Zenon

(* A timestamp says the time it is made from, in whole milliseconds: what is *)
(* taken off as hours and minutes before the rounding does not matter.       *)
LEMMA TimestampFacts ==
  ASSUME NEW t \in Nat, NEW s \in Nat \ {0}
  PROVE  Ms(Timestamp(t, s)) = Rounded(t, s)
  <1>1. PICK minute \in Nat \ {0} : minute = 60000 * s
    OBVIOUS
  <1>2. PICK h \in Nat, m \in Nat, rest \in Nat :
          /\ h = t \div (60 * minute) /\ m = (t % (60 * minute)) \div minute
          /\ rest = t % minute
          /\ t = minute * (60 * h + m) + rest
    BY ONLY t \in Nat, minute \in Nat \ {0}, HoursAndMinutes, Zenon
  <1>3. Timestamp(t, s) = [h |-> h, m |-> m, ms |-> Rounded(rest, s)]
    BY ONLY <1>1, <1>2 DEF Timestamp
  <1>4. PICK k \in Nat : k = 60 * h + m
    OBVIOUS
  <1>5. PICK n \in Nat : n = 60000 * k
    OBVIOUS
  <1>6. t = rest + s * n
    <2>1. (60000 * s) * k = s * (60000 * k)
      OBVIOUS
    <2>2. t = minute * k + rest
      BY ONLY <1>2, <1>4, Zenon
    <2>3. minute * k = s * n
      BY ONLY <1>1, <1>5, <2>1
    <2>4. PICK x \in Nat : x = s * n
      OBVIOUS
    <2> QED
      BY <2>2, <2>3, <2>4
  <1>7. Rounded(rest + s * n, s) = Rounded(rest, s) + n /\ Rounded(rest, s) \in Nat
    BY ONLY rest \in Nat, n \in Nat, s \in Nat \ {0}, RoundedShift, Zenon
  <1> QED
    BY <1>3, <1>4, <1>5, <1>6, <1>7 DEF Ms

-----------------------------------------------------------------------------
(* A hundred tiles are the most, and only a long clip has more than one. *)
LEMMA TileCountFacts ==
  ASSUME NEW d \in Nat \ {0}
  PROVE  /\ TileCount(d) \in 1 .. 100
         /\ TileCount(d) > 1 => d > 5000
         /\ Slots(TileCount(d)) = TileCount(d) + 1
         /\ Slots(TileCount(d)) \in 2 .. 101
  BY DEF TileCount, RoundedUp, INTERVAL, MAX_TILES, Slots

(* A cue ends where the next begins, and the last where the clip does; each  *)
(* is a millisecond at least.                                                *)
LEMMA EndFacts ==
  ASSUME NEW d \in Nat \ {0}, NEW i \in Nat, i < TileCount(d)
  PROVE  /\ Start(i, d) \in Nat /\ End(i, d) \in Nat
         /\ End(i, d) >= Start(i, d) + Slots(TileCount(d))
         /\ i + 1 < TileCount(d) => End(i, d) = Start(i + 1, d)
         /\ i + 1 = TileCount(d) => End(i, d) = Slots(TileCount(d)) * d
  <1>1. PICK C \in 1 .. 100 : C = TileCount(d) /\ (C > 1 => d > 5000) /\ Slots(C) = C + 1
    BY TileCountFacts
  <1>2. PICK b \in Nat : b = i * d
    OBVIOUS
  <1>3. (i + 1) * d = b + d
    BY <1>2
  <1>4. CASE i + 1 < C
    <2>1. (i + 1) * d > b + (C + 1)
      BY <1>1, <1>3, <1>4
    <2>2. i # C - 1
      BY <1>4
    <2>3. End(i, d) = (i + 1) * d
      BY <1>1, <1>2, <2>1, <2>2 DEF End, Start
    <2>4. Start(i, d) = b /\ Start(i + 1, d) = (i + 1) * d
      BY <1>2 DEF Start
    <2> QED
      BY <1>1, <1>3, <1>4, <2>1, <2>3, <2>4
  <1>5. CASE i + 1 = C
    <2>1. d * (C + 1) = b + 2 * d /\ (C + 1) * d = b + 2 * d
      <3>1. i = C - 1
        BY <1>5
      <3>2. d * ((i + 1) + 1) = i * d + 2 * d /\ ((i + 1) + 1) * d = i * d + 2 * d
        OBVIOUS
      <3> QED
        BY <1>2, <1>5, <3>2
    <2>2. i = C - 1
      BY <1>5
    <2>3. End(i, d) = IF b + 2 * d > b + (C + 1) THEN b + 2 * d ELSE b + (C + 1)
      <3>1. i = TileCount(d) - 1 /\ Slots(TileCount(d)) = C + 1 /\ Start(i, d) = b
        BY <1>1, <1>2, <2>2 DEF Start
      <3>2. d * Slots(TileCount(d)) = b + 2 * d
        BY <2>1, <3>1
      <3> QED
        BY <3>1, <3>2 DEF End
    <2>4. b + 2 * d >= b + (C + 1)
      BY <1>1
    <2> QED
      BY <1>1, <1>2, <1>5, <2>1, <2>3, <2>4 DEF Start
  <1> QED
    BY <1>1, <1>4, <1>5

(* What is printed in a cue. *)
LEMMA CueFacts ==
  ASSUME NEW d \in Nat \ {0}, NEW i \in Nat, i < TileCount(d)
  PROVE  /\ Ms(Cue(i, d).start) = Rounded(Start(i, d), Slots(TileCount(d)))
         /\ Ms(Cue(i, d).end) = Rounded(End(i, d), Slots(TileCount(d)))
         /\ Ms(Cue(i, d).start) < Ms(Cue(i, d).end)
         /\ i = 0 => Ms(Cue(i, d).start) = 0
         /\ i + 1 < TileCount(d) => Cue(i, d).end = Cue(i + 1, d).start
         /\ i + 1 = TileCount(d) => Ms(Cue(i, d).end) = d
         /\ Cue(i, d).column = Column(i, TileCount(d)) /\ Cue(i, d).row = Row(i, TileCount(d))
  <1> DEFINE slots == Slots(TileCount(d))
  <1>1. slots \in Nat \ {0}
    BY TileCountFacts
  <1> HIDE DEF slots
  <1>2. /\ Start(i, d) \in Nat /\ End(i, d) \in Nat
        /\ End(i, d) >= Start(i, d) + slots
        /\ i + 1 < TileCount(d) => End(i, d) = Start(i + 1, d)
        /\ i + 1 = TileCount(d) => End(i, d) = slots * d
    BY EndFacts DEF slots
  <1>3. /\ Cue(i, d).start = Timestamp(Start(i, d), slots)
        /\ Cue(i + 1, d).start = Timestamp(Start(i + 1, d), slots)
        /\ Cue(i, d).end = Timestamp(End(i, d), slots)
        /\ Cue(i, d).column = Column(i, TileCount(d)) /\ Cue(i, d).row = Row(i, TileCount(d))
    BY DEF Cue, slots
  <1>4. /\ Ms(Cue(i, d).start) = Rounded(Start(i, d), slots)
        /\ Ms(Cue(i, d).end) = Rounded(End(i, d), slots)
    BY <1>1, <1>2, <1>3, TimestampFacts
  <1>5. Rounded(Start(i, d), slots) < Rounded(End(i, d), slots)
    <2>1. PICK a \in Nat, b \in Nat : a = Start(i, d) /\ b = End(i, d) /\ a + slots <= b
      BY <1>1, <1>2
    <2>2. 1 \in Nat /\ a + slots * 1 \in Nat /\ a + slots * 1 <= b
      BY <1>1, <2>1
    <2>3. Rounded(a + slots * 1, slots) = Rounded(a, slots) + 1 /\ Rounded(a, slots) \in Nat
      BY ONLY <1>1, <2>2, a \in Nat, RoundedShift, Zenon
    <2>4. Rounded(a + slots * 1, slots) <= Rounded(b, slots)
      BY ONLY <1>1, <2>2, b \in Nat, RoundedMonotonic, Zenon
    <2>5. Rounded(b, slots) \in Nat
      BY ONLY <1>1, b \in Nat, RoundedShift, 0 \in Nat, Zenon
    <2> QED
      BY <2>1, <2>3, <2>4, <2>5
  <1>6. Rounded(0, slots) = 0
    <2>1. PICK u \in Nat \ {0} : u = slots
      BY <1>1
    <2>2. (2 * u) * 0 + u = u /\ 2 * u \in Nat \ {0} /\ u \in 0 .. (2 * u) - 1
      OBVIOUS
    <2>3. ((2 * u) * 0 + u) \div (2 * u) = 0
      BY ONLY <2>2, 0 \in Nat, DivIs, Zenon
    <2>4. 2 * 0 + u = u
      OBVIOUS
    <2> QED
      BY <2>1, <2>2, <2>3, <2>4 DEF Rounded
  <1>7. i = 0 => Start(i, d) = 0
    BY DEF Start
  <1>8. Rounded(slots * d, slots) = d
    <2>1. PICK x \in Nat : x = slots * d
      BY <1>1
    <2>2. Rounded(0 + slots * d, slots) = Rounded(0, slots) + d
      BY ONLY <1>1, 0 \in Nat, d \in Nat, RoundedShift, Zenon
    <2>3. 0 + slots * d = slots * d
      BY <2>1
    <2> QED
      BY <1>6, <2>2, <2>3
  <1> QED
    BY <1>2, <1>3, <1>4, <1>5, <1>6, <1>7, <1>8 DEF slots

-----------------------------------------------------------------------------
(* Every tile has its cell, and every column and row a tile. *)
LEMMA GridFacts ==
  ASSUME NEW C \in 1 .. 100
  PROVE  /\ Columns(C) \in 1 .. 10 /\ Rows(C) \in Nat
         /\ \A i \in 0 .. C - 1 :
              /\ Column(i, C) \in 0 .. Columns(C) - 1 /\ Row(i, C) \in 0 .. Rows(C) - 1
              /\ i = Columns(C) * Row(i, C) + Column(i, C)
         /\ \A c \in 0 .. Columns(C) - 1 : c \in 0 .. C - 1 /\ Column(c, C) = c
         /\ \A r \in 0 .. Rows(C) - 1 : \E i \in 0 .. C - 1 : Row(i, C) = r
  <1>1. CASE C >= 10
    <2>1. Columns(C) = 10
      BY <1>1 DEF Columns, MAX_COLUMNS
    <2>2. Rows(C) = (C + 9) \div 10
      BY <2>1 DEF Rows, RoundedUp
    <2>3. \A i : Column(i, C) = i % 10 /\ Row(i, C) = i \div 10
      BY <2>1 DEF Column, Row
    <2>4. \A r \in 0 .. Rows(C) - 1 : 10 * r \in 0 .. C - 1 /\ Row(10 * r, C) = r
      BY <2>2, <2>3
    <2>5. \A i \in 0 .. C - 1 :
            /\ Column(i, C) \in 0 .. 9 /\ Row(i, C) \in 0 .. Rows(C) - 1
            /\ i = 10 * Row(i, C) + Column(i, C)
      <3> SUFFICES ASSUME NEW i \in 0 .. C - 1
                   PROVE  /\ i % 10 \in 0 .. 9 /\ i \div 10 \in 0 .. ((C + 9) \div 10) - 1
                          /\ i = 10 * (i \div 10) + (i % 10)
        BY <2>2, <2>3
      <3>1. i \in Nat /\ i < C
        OBVIOUS
      <3> QED
        BY <3>1
    <2>6. \A c \in 0 .. 9 : c \in 0 .. C - 1 /\ Column(c, C) = c
      BY <1>1, <2>3
    <2>7. Rows(C) \in Nat
      BY <2>2
    <2> QED
      BY <2>1, <2>4, <2>5, <2>6, <2>7
  <1>2. CASE C < 10
    <2>1. Columns(C) = C
      BY <1>2 DEF Columns, MAX_COLUMNS
    <2>2. Rows(C) = 1
      <3>1. C \in {1, 2, 3, 4, 5, 6, 7, 8, 9}
        BY <1>2
      <3>2. (C + C - 1) \div C = 1
        BY <3>1
      <3> QED
        BY <2>1, <3>2 DEF Rows, RoundedUp
    <2>3. \A i \in 0 .. C - 1 : i % C = i /\ i \div C = 0
      OBVIOUS
    <2>4. \A i \in 0 .. C - 1 : Column(i, C) = i /\ Row(i, C) = 0
      BY <2>1, <2>3 DEF Column, Row
    <2> QED
      BY <1>2, <2>1, <2>2, <2>4
  <1> QED
    BY <1>1, <1>2

-----------------------------------------------------------------------------
(* The first state satisfies the invariant ... *)
LEMMA InitEstablishes == Init => IInv
  <1> SUFFICES ASSUME Init PROVE IInv
    OBVIOUS
  <1>1. ~Planned /\ cues = <<>> /\ Len(cues) = 0 /\ step = "probe" /\ file \in Files
    BY DEF Init, Planned
  <1> QED
    BY <1>1 DEF IInv, PlanFollows, CuesFollow, MasterFollows

(* What is planned has a duration. *)
LEMMA PlannedFacts ==
  ASSUME NEW f \in Files, ~Rejected(f)
  PROVE  RawDuration(f) \in Nat \ {0}
  <1>1. f \in FileRecord
    BY MediaAssumption
  <1>2. f.format \in Durations /\ f.stream \in Durations
    BY <1>1 DEF FileRecord
  <1> QED
    BY <1>2 DEF Rejected, RawDuration, Durations

(* ... and every step keeps it. *)
LEMMA NextKeeps == IInv /\ [Next]_vars => IInv'
  <1> SUFFICES ASSUME IInv, [Next]_vars PROVE IInv'
    OBVIOUS
  <1>1. CASE Probe
    <2>1. cues = <<>> /\ cues' = <<>> /\ Len(cues') = 0 /\ file' = file /\ file \in Files
      BY <1>1 DEF Probe, IInv, CuesFollow, Planned, PlanFollows
    <2>2. CASE Rejected(file)
      <3>1. step' = "rejected"
        BY <1>1, <2>2 DEF Probe
      <3> QED
        BY <2>1, <3>1 DEF IInv, PlanFollows, CuesFollow, MasterFollows, Planned
    <2>3. CASE ~Rejected(file)
      <3>1. /\ step' = "cues" /\ duration' = RawDuration(file) /\ ladder' = Ladder(file)
            /\ expected' \in {ladder'} \union OtherLadders
        BY <1>1, <2>3 DEF Probe
      <3>2. TileCount(duration') \in 1 .. 100
        BY <2>1, <2>3, <3>1, PlannedFacts, TileCountFacts
      <3>3. PlanFollows'
        BY <2>1, <2>3, <3>1 DEF PlanFollows
      <3>4. CuesFollow'
        <4>1. cues' \in Seq({Cue(i, duration') : i \in Nat})
          BY <2>1
        <4>2. \A i \in 1 .. Len(cues') : FALSE
          BY <2>1
        <4>3. Len(cues') < TileCount(duration')
          <5>1. Len(cues') = 0
            BY ONLY <2>1
          <5>2. PICK c \in 1 .. 100 : TileCount(duration') = c
            BY ONLY <3>2
          <5> QED
            BY ONLY <5>1, <5>2
        <4>4. ~(step' \in {"master", "done"}) /\ Planned'
          BY <3>1 DEF Planned
        <4> QED
          BY <4>1, <4>2, <4>3, <4>4 DEF CuesFollow
      <3> QED
        BY <3>1, <3>3, <3>4 DEF IInv, MasterFollows
    <2> QED
      BY <2>2, <2>3
  <1>2. CASE AppendCue
    <2>1. /\ step = "cues" /\ cues' = Append(cues, Cue(Len(cues), duration))
          /\ step' = IF Len(cues') = TileCount(duration) THEN "master" ELSE "cues"
          /\ UNCHANGED <<file, duration, ladder, expected, master>>
      BY <1>2 DEF AppendCue
    <2> DEFINE All == {Cue(i, duration) : i \in Nat}
               new == Cue(Len(cues), duration)
    <2>2. cues \in Seq(All) /\ \A i \in 1 .. Len(cues) : cues[i] = Cue(i - 1, duration)
      BY DEF IInv, CuesFollow
    <2>3. Len(cues) \in Nat /\ new \in All /\ Len(cues) < TileCount(duration)
      BY <2>1, <2>2 DEF IInv, CuesFollow
    <2>4. TileCount(duration) \in 1 .. 100
      <3>1. duration \in Nat \ {0}
        BY <2>1, PlannedFacts DEF IInv, PlanFollows, Planned
      <3> QED
        BY <3>1, TileCountFacts
    <2> HIDE DEF All, new
    <2>5. /\ Append(cues, new) \in Seq(All) /\ Len(Append(cues, new)) = Len(cues) + 1
          /\ \A i \in 1 .. Len(cues) : Append(cues, new)[i] = cues[i]
          /\ Append(cues, new)[Len(cues) + 1] = new
      BY <2>2, <2>3
    <2>6. \A i \in 1 .. Len(cues) + 1 : Append(cues, new)[i] = Cue(i - 1, duration)
      <3> SUFFICES ASSUME NEW i \in 1 .. Len(cues) + 1
                   PROVE  Append(cues, new)[i] = Cue(i - 1, duration)
        OBVIOUS
      <3>1. CASE i \in 1 .. Len(cues)
        BY <2>2, <2>5, <3>1
      <3>2. CASE i = Len(cues) + 1
        <4>1. i - 1 = Len(cues)
          BY <2>3, <3>2
        <4> QED
          BY <2>5, <3>2, <4>1 DEF new
      <3> QED
        BY <2>3, <3>1, <3>2
    <2>7. cues' = Append(cues, new)
      BY <2>1 DEF new
    <2>8. CuesFollow'
      <3>1. cues' \in Seq({Cue(i, duration') : i \in Nat})
        BY <2>1, <2>5, <2>7 DEF All
      <3>2. Len(cues') = Len(cues) + 1
            /\ \A i \in 1 .. Len(cues') : cues'[i] = Cue(i - 1, duration')
        BY <2>1, <2>5, <2>6, <2>7
      <3>3. /\ step' = "cues" => Len(cues') < TileCount(duration')
            /\ step' = "master" => Len(cues') = TileCount(duration')
            /\ step' \in {"cues", "master"}
        <4>1. duration' = duration /\ Len(cues) \in Nat /\ Len(cues) < TileCount(duration)
              /\ step' = IF Len(cues') = TileCount(duration) THEN "master" ELSE "cues"
          BY <2>1, <2>3
        <4>2. /\ step' = "cues" => Len(cues') < TileCount(duration')
              /\ step' = "master" => Len(cues') = TileCount(duration')
              /\ step' \in {"cues", "master"}
          <5>1. PICK n \in Nat, c \in 1 .. 100 : n = Len(cues) /\ c = TileCount(duration)
            BY <2>4, <4>1
          <5>2. n < c /\ Len(cues') = n + 1 /\ TileCount(duration') = c
            BY <3>2, <4>1, <5>1
          <5>3. CASE n + 1 = c
            BY <4>1, <5>1, <5>2, <5>3
          <5>4. CASE n + 1 # c
            BY <4>1, <5>1, <5>2, <5>4
          <5> QED
            BY <5>3, <5>4
        <4> QED
          BY <4>2
      <3> QED
        BY <3>1, <3>2, <3>3 DEF CuesFollow, Planned
    <2>9. PlanFollows' /\ MasterFollows'
      BY <2>1 DEF IInv, PlanFollows, MasterFollows, Planned
    <2> QED
      BY <2>8, <2>9 DEF IInv
  <1>3. CASE Package
    BY <1>3 DEF Package, IInv, PlanFollows, CuesFollow, MasterFollows, Planned
  <1>4. CASE UNCHANGED vars
    BY <1>4 DEF vars, IInv, PlanFollows, CuesFollow, MasterFollows, Planned
  <1> QED
    BY <1>1, <1>2, <1>3, <1>4 DEF Next

(* The invariant holds throughout. *)
LEMMA Follows == Spec => []IInv
  BY InitEstablishes, NextKeeps, PTL DEF Spec

-----------------------------------------------------------------------------
(* The ladder is never empty, never larger than the picture, and has every  *)
(* rung that fits (select_ladder).                                          *)
THEOREM LadderSuitsTheViewerTheorem == Spec => []LadderSuitsTheViewer
  <1>1. IInv => LadderSuitsTheViewer
    <2> SUFFICES ASSUME IInv, Planned
                 PROVE  /\ ladder # {}
                        /\ \A r \in ladder : r <= Displayed(file)[1] /\ r <= Displayed(file)[2]
                        /\ \A r \in STANDARD_RUNGS :
                             r <= Displayed(file)[1] /\ r <= Displayed(file)[2] => r \in ladder
      BY DEF LadderSuitsTheViewer, Planned
    <2>1. file \in FileRecord /\ ladder = Ladder(file)
      BY MediaAssumption DEF IInv, PlanFollows
    <2>2. PICK w \in Nat, h \in Nat : w = Displayed(file)[1] /\ h = Displayed(file)[2]
      BY <2>1 DEF FileRecord, Displayed
    <2>3. Side(file) = IF w < h THEN w ELSE h
      BY <2>2 DEF Side, ShortSide
    <2> QED
      BY <2>1, <2>2, <2>3 DEF Ladder, STANDARD_RUNGS
  <1> QED
    BY <1>1, Follows, PTL

-----------------------------------------------------------------------------
(* Where the i-th of C tiles is, counted from 1. *)
Cell(i, C) == <<Column(i - 1, C), Row(i - 1, C)>>

Cells(n, C) == {Cell(i, C) : i \in 1 .. n}

(* No two tiles have one cell. *)
LEMMA CellsDiffer ==
  ASSUME NEW C \in 1 .. 100, NEW n \in 0 .. C
  PROVE  Cardinality(Cells(n, C)) = n
  <1> DEFINE f == [i \in 1 .. n |-> Cell(i, C)]
  <1>1. f \in Bijection(1 .. n, Cells(n, C))
    <2>1. f \in Surjection(1 .. n, Cells(n, C))
      BY DEF Surjection, Cells
    <2>2. ASSUME NEW i \in 1 .. n, NEW j \in 1 .. n, f[i] = f[j] PROVE i = j
      <3>1. i - 1 \in 0 .. C - 1 /\ j - 1 \in 0 .. C - 1
        OBVIOUS
      <3>2. Column(i - 1, C) = Column(j - 1, C) /\ Row(i - 1, C) = Row(j - 1, C)
        BY <2>2 DEF Cell
      <3>3. /\ i - 1 = Columns(C) * Row(i - 1, C) + Column(i - 1, C)
            /\ j - 1 = Columns(C) * Row(j - 1, C) + Column(j - 1, C)
        BY <3>1, GridFacts
      <3>4. i - 1 = j - 1
        BY ONLY <3>2, <3>3, Zenon
      <3> QED
        BY <3>4
    <2>3. f \in Injection(1 .. n, Cells(n, C))
      <3>1. f \in [1 .. n -> Cells(n, C)]
        BY DEF Cells
      <3> HIDE DEF f
      <3> QED
        BY <2>2, <3>1 DEF Injection, IsInjective
    <2> QED
      BY <2>1, <2>3 DEF Bijection
  <1>2. IsFiniteSet(1 .. n) /\ Cardinality(1 .. n) = n
    BY FS_Interval
  <1> QED
    BY <1>1, <1>2, FS_Bijection DEF ExistsBijection

(* When all tiles have theirs, no column and no row is empty. *)
LEMMA CellsFill ==
  ASSUME NEW C \in 1 .. 100
  PROVE  /\ {c[1] : c \in Cells(C, C)} = 0 .. Columns(C) - 1
         /\ {c[2] : c \in Cells(C, C)} = 0 .. Rows(C) - 1
  <1>1. \A i \in 1 .. C : /\ Cell(i, C)[1] = Column(i - 1, C)
                          /\ Cell(i, C)[2] = Row(i - 1, C)
                          /\ i - 1 \in 0 .. C - 1
    BY DEF Cell
  <1>2. \A j \in 0 .. C - 1 : /\ Cell(j + 1, C)[1] = Column(j, C)
                              /\ Cell(j + 1, C)[2] = Row(j, C)
                              /\ Cell(j + 1, C) \in Cells(C, C)
    <2> SUFFICES ASSUME NEW j \in 0 .. C - 1
                 PROVE  /\ Cell(j + 1, C)[1] = Column(j, C)
                        /\ Cell(j + 1, C)[2] = Row(j, C)
                        /\ Cell(j + 1, C) \in Cells(C, C)
      OBVIOUS
    <2>1. j + 1 \in 1 .. C /\ (j + 1) - 1 = j
      OBVIOUS
    <2> QED
      BY <2>1 DEF Cell, Cells
  <1>3. ASSUME NEW c \in Cells(C, C)
        PROVE  c[1] \in 0 .. Columns(C) - 1 /\ c[2] \in 0 .. Rows(C) - 1
    <2>1. PICK i \in 1 .. C : c = Cell(i, C)
      BY DEF Cells
    <2>2. PICK j \in 0 .. C - 1 : c[1] = Column(j, C) /\ c[2] = Row(j, C)
      BY <1>1, <2>1
    <2> QED
      BY <2>2, GridFacts
  <1>4. ASSUME NEW x \in 0 .. Columns(C) - 1 PROVE \E c \in Cells(C, C) : c[1] = x
    <2>1. x \in 0 .. C - 1 /\ Column(x, C) = x
      BY GridFacts
    <2> QED
      BY <1>2, <2>1
  <1>5. ASSUME NEW x \in 0 .. Rows(C) - 1 PROVE \E c \in Cells(C, C) : c[2] = x
    <2>1. PICK j \in 0 .. C - 1 : Row(j, C) = x
      BY GridFacts
    <2> QED
      BY <1>2, <2>1
  <1> QED
    BY <1>3, <1>4, <1>5

(* The printed cues cover the clip exactly, each with a tile of its own      *)
(* (build_vtt, plan_sprite, sprite_grid), for a clip of any length.          *)
THEOREM CuesTileTheClipTheorem == Spec => []CuesTileTheClip
  <1> DEFINE n == Len(cues)
             C == TileCount(duration)
             cells == {<<cues[i].column, cues[i].row>> : i \in DOMAIN cues}
  <1>1. ASSUME IInv, ~Planned PROVE CuesTileTheClip
    <2>1. cues = <<>> /\ ~(step \in {"master", "done"})
      BY <1>1 DEF IInv, CuesFollow, Planned
    <2>2. DOMAIN cues = {} /\ Len(cues) = 0
      BY <2>1
    <2>3. cells = {}
      BY <2>2
    <2>4. Cardinality(cells) = 0
      BY <2>3, FS_EmptySet
    <2>5. 1 .. Len(cues) - 1 = {}
      BY <2>2
    <2> QED
      BY <2>1, <2>2, <2>4, <2>5 DEF CuesTileTheClip
  <1>2. ASSUME IInv, Planned PROVE CuesTileTheClip
    <2>1. duration \in Nat \ {0}
      BY <1>2, PlannedFacts DEF IInv, PlanFollows
    <2>2. C \in 1 .. 100 /\ Slots(C) = C + 1
      BY <2>1, TileCountFacts
    <2>3. n \in Nat /\ DOMAIN cues = 1 .. n
      BY <1>2 DEF IInv, CuesFollow
    <2>4. n \in 0 .. C /\ (step \in {"master", "done"} => n = C)
      <3>1. step = "cues" => Len(cues) < C
        BY <1>2 DEF IInv, CuesFollow
      <3>2. step \in {"master", "done"} => Len(cues) = C
        BY <1>2 DEF IInv, CuesFollow
      <3>3. PICK c \in 1 .. 100, m \in Nat : c = C /\ m = n
        BY <2>2, <2>3
      <3>4. (step = "cues" => m < c) /\ (step \in {"master", "done"} => m = c)
        BY <3>1, <3>2, <3>3
      <3>5. step \in {"cues", "master", "done"}
        BY <1>2 DEF Planned
      <3>6. m \in 0 .. c
        BY <3>3, <3>4, <3>5
      <3> QED
        BY <3>2, <3>3, <3>6
    <2>5. \A i \in 1 .. n : cues[i] = Cue(i - 1, duration)
      BY <1>2 DEF IInv, CuesFollow
    <2> HIDE DEF n, C
    <2>6. ASSUME NEW i \in 1 .. n
          PROVE  /\ Ms(cues[i].start) < Ms(cues[i].end)
                 /\ i = 1 => Ms(cues[i].start) = 0
                 /\ i < n => cues[i].end = cues[i + 1].start
                 /\ i = C => Ms(cues[i].end) = duration
                 /\ <<cues[i].column, cues[i].row>> = Cell(i, C)
      <3>1. PICK j \in Nat : j = i - 1 /\ j < C
        BY <2>2, <2>4
      <3>2. /\ Ms(Cue(j, duration).start) < Ms(Cue(j, duration).end)
            /\ j = 0 => Ms(Cue(j, duration).start) = 0
            /\ j + 1 < C => Cue(j, duration).end = Cue(j + 1, duration).start
            /\ j + 1 = C => Ms(Cue(j, duration).end) = duration
            /\ Cue(j, duration).column = Column(j, C) /\ Cue(j, duration).row = Row(j, C)
        BY <2>1, <3>1, CueFacts DEF C
      <3>3. cues[i] = Cue(j, duration)
        BY <2>5, <3>1
      <3>4. i < n => /\ i + 1 \in 1 .. n /\ (i + 1) - 1 = j + 1 /\ j + 1 < C
                     /\ cues[i + 1] = Cue(j + 1, duration)
        <4>1. i < n => i + 1 \in 1 .. n /\ (i + 1) - 1 = j + 1 /\ j + 1 < C
          BY <2>2, <2>4, <3>1
        <4> QED
          BY <2>5, <4>1
      <3>5. (i = 1 => j = 0) /\ (i = C => j + 1 = C)
        BY <3>1
      <3>6. Cell(i, C) = <<Column(j, C), Row(j, C)>>
        BY <3>1 DEF Cell
      <3> QED
        BY <3>2, <3>3, <3>4, <3>5, <3>6
    <2>7. cells = Cells(n, C)
      BY <2>3, <2>6 DEF Cells
    <2>8. Cardinality(cells) = n
      BY <2>2, <2>4, <2>7, CellsDiffer
    <2>9. ASSUME step \in {"master", "done"}
          PROVE  /\ Ms(cues[n].end) = duration
                 /\ Start(C, duration) < duration * Slots(C)
                 /\ {c[1] : c \in cells} = 0 .. Columns(C) - 1
                 /\ {c[2] : c \in cells} = 0 .. Rows(C) - 1
      <3>1. n = C /\ n \in 1 .. n
        BY <2>2, <2>4, <2>9
      <3>2. Ms(cues[n].end) = duration
        BY <2>6, <3>1
      <3>3. C * duration < duration * (C + 1)
        BY <2>1, <2>2
      <3> HIDE DEF cells
      <3>4. cells = Cells(C, C)
        BY <2>7, <3>1
      <3> QED
        BY <2>2, <3>2, <3>3, <3>4, CellsFill DEF Start
    <2>10. cues # <<>> => Ms(cues[1].start) = 0
      <3>1. cues # <<>> => 1 \in 1 .. n
        BY <1>2, <2>3 DEF IInv, CuesFollow, n
      <3> QED
        BY <2>6, <3>1
    <2>11. \A i \in 1 .. n - 1 : cues[i].end = cues[i + 1].start
      BY <2>3, <2>6
    <2>12. \A i \in DOMAIN cues : Ms(cues[i].start) < Ms(cues[i].end)
      BY <2>3, <2>6
    <2> HIDE DEF cells
    <2> QED
      BY <2>8, <2>9, <2>10, <2>11, <2>12 DEF CuesTileTheClip, cells, n, C
  <1> QED
    BY <1>1, <1>2, Follows, PTL

-----------------------------------------------------------------------------
(* A rung between two known ones has a bitrate between theirs, and the larger *)
(* of two such rungs not the lower one.                                      *)
LEMMA BetweenFacts ==
  ASSUME NEW r \in Nat, r > 240, r < 1080, r \notin DOMAIN BITRATES
  PROVE  /\ r < 360 => Bitrate(r) = 400 + Rounded((r - 240) * 400, 120)
         /\ r > 360 /\ r < 480 => Bitrate(r) = 800 + Rounded((r - 360) * 600, 120)
         /\ r > 480 /\ r < 720 => Bitrate(r) = 1400 + Rounded((r - 480) * 1400, 240)
         /\ r > 720 => Bitrate(r) = 2800 + Rounded((r - 720) * 2200, 360)
  <1>1. DOMAIN BITRATES = {240, 360, 480, 720, 1080}
    BY DEF BITRATES
  <1>2. /\ BITRATES[240] = 400 /\ BITRATES[360] = 800 /\ BITRATES[480] = 1400
        /\ BITRATES[720] = 2800 /\ BITRATES[1080] = 5000
    BY DEF BITRATES
  <1>3. Bitrate(r) = Between(r)
    BY <1>1 DEF Bitrate
  <1> DEFINE below == {s \in DOMAIN BITRATES : s < r}
             above == {s \in DOMAIN BITRATES : s > r}
  <1>4. CASE r < 360
    <2>1. Max(below) = 240
      BY <1>1, <1>4 DEF Max
    <2>2. Min(above) = 360
      BY <1>1, <1>4 DEF Min
    <2> QED
      BY <1>2, <1>3, <1>4, <2>1, <2>2 DEF Between
  <1>5. CASE r > 360 /\ r < 480
    <2>1. Max(below) = 360
      BY <1>1, <1>5 DEF Max
    <2>2. Min(above) = 480
      BY <1>1, <1>5 DEF Min
    <2> QED
      BY <1>2, <1>3, <1>5, <2>1, <2>2 DEF Between
  <1>6. CASE r > 480 /\ r < 720
    <2>1. Max(below) = 480
      BY <1>1, <1>6 DEF Max
    <2>2. Min(above) = 720
      BY <1>1, <1>6 DEF Min
    <2> QED
      BY <1>2, <1>3, <1>6, <2>1, <2>2 DEF Between
  <1>7. CASE r > 720
    <2>1. Max(below) = 720
      BY <1>1, <1>7 DEF Max
    <2>2. Min(above) = 1080
      BY <1>1, <1>7 DEF Min
    <2> QED
      BY <1>2, <1>3, <1>7, <2>1, <2>2 DEF Between
  <1> QED
    BY <1>1, <1>4, <1>5, <1>6, <1>7

(* The bitrate table as a function of the rung, in pieces. *)
LEMMA BitrateFacts ==
  ASSUME NEW r \in Nat
  PROVE  /\ r <= 240 => Bitrate(r) = 400
         /\ r \in 240 .. 360 => Bitrate(r) = 400 + Rounded((r - 240) * 400, 120)
         /\ r \in 360 .. 480 => Bitrate(r) = 800 + Rounded((r - 360) * 600, 120)
         /\ r \in 480 .. 720 => Bitrate(r) = 1400 + Rounded((r - 480) * 1400, 240)
         /\ r \in 720 .. 1080 => Bitrate(r) = 2800 + Rounded((r - 720) * 2200, 360)
         /\ r >= 1080 => Bitrate(r) = 5000
  <1>1. DOMAIN BITRATES = {240, 360, 480, 720, 1080}
    BY DEF BITRATES
  <1>2. /\ BITRATES[240] = 400 /\ BITRATES[360] = 800 /\ BITRATES[480] = 1400
        /\ BITRATES[720] = 2800 /\ BITRATES[1080] = 5000
    BY DEF BITRATES
  <1>3. CASE r \in DOMAIN BITRATES
    <2>1. Bitrate(r) = BITRATES[r]
      BY <1>1, <1>3 DEF Bitrate
    <2> QED
      BY <1>1, <1>2, <1>3, <2>1 DEF Rounded
  <1>4. CASE r < 240
    BY <1>1, <1>2, <1>4 DEF Bitrate
  <1>5. CASE r > 1080
    BY <1>1, <1>2, <1>5 DEF Bitrate
  <1>6. CASE r > 240 /\ r < 1080 /\ r \notin DOMAIN BITRATES
    <2>1. r \notin {360, 480, 720}
      BY <1>1, <1>6
    <2> QED
      BY <1>6, <2>1, BetweenFacts
  <1> QED
    BY <1>1, <1>3, <1>4, <1>5, <1>6

(* A larger rung never has a lower bitrate (bitrate_for). *)
LEMMA BitrateMonotonic ==
  ASSUME NEW a \in Nat, NEW b \in Nat, a < b
  PROVE  Bitrate(a) <= Bitrate(b)
  BY BitrateFacts DEF Rounded

(* A finite set of numbers can be put in order. *)
LEMMA SortedExists ==
  ASSUME NEW S \in SUBSET Nat, IsFiniteSet(S)
  PROVE  \E s \in [1 .. Cardinality(S) -> S] : \A i, j \in DOMAIN s : i < j => Before(s[i], s[j])
  <1> DEFINE upTo(x) == {y \in S : y <= x}
             rank == [x \in S |-> Cardinality(upTo(x))]
             n == Cardinality(S)
  <1>1. n \in Nat
    BY FS_CardinalityType
  <1>2. ASSUME NEW x \in S
        PROVE  IsFiniteSet(upTo(x)) /\ Cardinality(upTo(x)) \in 1 .. n
    <2>1. upTo(x) \in SUBSET S /\ x \in upTo(x)
      OBVIOUS
    <2>2. IsFiniteSet(upTo(x)) /\ Cardinality(upTo(x)) <= n
      BY <2>1, FS_Subset
    <2>3. Cardinality(upTo(x)) \in Nat /\ Cardinality(upTo(x)) # 0
      BY <2>1, <2>2, FS_CardinalityType, FS_EmptySet
    <2> QED
      BY <1>1, <2>2, <2>3
  <1>3. ASSUME NEW x \in S, NEW y \in S, x < y
        PROVE  Cardinality(upTo(x)) < Cardinality(upTo(y))
    <2>1. upTo(x) \in SUBSET upTo(y) /\ y \in upTo(y) /\ y \notin upTo(x)
      <3>1. x \in Nat /\ y \in Nat /\ \A z \in S : z \in Nat
        OBVIOUS
      <3>2. \A z \in S : z <= x => z <= y
        BY <1>3, <3>1
      <3>3. ~(y <= x) /\ y <= y
        BY <1>3, <3>1
      <3>4. \A z : z \in upTo(x) => z \in upTo(y)
        BY <3>2
      <3>5. y \in upTo(y) /\ y \notin upTo(x)
        BY <3>3
      <3> HIDE DEF upTo
      <3> QED
        BY <3>4, <3>5
    <2>2. /\ Cardinality(upTo(x)) <= Cardinality(upTo(y))
          /\ Cardinality(upTo(x)) # Cardinality(upTo(y))
      <3>1. IsFiniteSet(upTo(y)) /\ upTo(x) # upTo(y)
        BY <1>2, <2>1
      <3> HIDE DEF upTo
      <3> QED
        BY <2>1, <3>1, FS_Subset
    <2> QED
      BY <1>1, <1>2, <2>2
  <1> HIDE DEF upTo
  <1>4. rank \in Injection(S, 1 .. n)
    <2>1. rank \in [S -> 1 .. n]
      BY <1>2
    <2>2. ASSUME NEW x \in S, NEW y \in S, rank[x] = rank[y] PROVE x = y
      <3>1. Cardinality(upTo(x)) = Cardinality(upTo(y)) /\ Cardinality(upTo(x)) \in Nat
        BY <1>2, <2>2
      <3>2. ~(x < y) /\ ~(y < x)
        BY <1>3, <3>1
      <3> QED
        BY <3>2
    <2> HIDE DEF rank
    <2> QED
      BY <2>1, <2>2 DEF Injection, IsInjective
  <1>5. rank \in Surjection(S, 1 .. n)
    <2>1. IsFiniteSet(1 .. n) /\ Cardinality(1 .. n) = n
      BY <1>1, FS_Interval
    <2> HIDE DEF rank
    <2> QED
      BY <1>4, <2>1, FS_Injection
  <1>6. \A i \in 1 .. n : \E x \in S : rank[x] = i
    BY <1>5 DEF Surjection
  <1> DEFINE s == [i \in 1 .. n |-> CHOOSE x \in S : rank[x] = i]
  <1>7. s \in [1 .. n -> S] /\ \A i \in 1 .. n : rank[s[i]] = i
    <2> HIDE DEF rank
    <2>1. \A i \in 1 .. n : s[i] \in S /\ rank[s[i]] = i
      BY <1>6
    <2> QED
      BY <2>1
  <1>8. ASSUME NEW i \in 1 .. n, NEW j \in 1 .. n, i < j PROVE s[i] < s[j]
    <2>1. PICK x \in S, y \in S : x = s[i] /\ y = s[j] /\ rank[x] = i /\ rank[y] = j
      BY <1>7
    <2>2. Cardinality(upTo(x)) = i /\ Cardinality(upTo(y)) = j
      BY <2>1
    <2>3. ~(y < x) /\ x # y
      <3>1. ~(j < i) /\ i # j
        BY <1>1, <1>8
      <3> QED
        BY <1>3, <2>2, <3>1
    <2>4. x \in Nat /\ y \in Nat
      OBVIOUS
    <2>5. x < y
      BY <2>3, <2>4
    <2> QED
      BY <2>1, <2>5
  <1> HIDE DEF s
  <1> QED
    BY <1>7, <1>8 DEF Before

(* What the playlist lists: each rendition once, by size. *)
LEMMA SortedFacts ==
  ASSUME NEW S \in SUBSET Nat, IsFiniteSet(S)
  PROVE  /\ Cardinality(S) \in Nat
         /\ Sorted(S) \in [1 .. Cardinality(S) -> S]
         /\ \A i, j \in 1 .. Cardinality(S) : i < j => Sorted(S)[i] < Sorted(S)[j]
         /\ \A r \in S : \E i \in 1 .. Cardinality(S) : Sorted(S)[i] = r
  <1> DEFINE n == Cardinality(S)
             s == Sorted(S)
  <1>1. n \in Nat
    BY FS_CardinalityType
  <1>2. s \in [1 .. n -> S] /\ \A i, j \in DOMAIN s : i < j => Before(s[i], s[j])
    BY SortedExists DEF Sorted
  <1> HIDE DEF s
  <1>3. \A i, j \in 1 .. n : i < j => s[i] < s[j]
    BY <1>2 DEF Before
  <1>4. s \in Injection(1 .. n, S)
    <2>1. ASSUME NEW i \in 1 .. n, NEW j \in 1 .. n, s[i] = s[j] PROVE i = j
      <3>1. s[i] \in Nat /\ ~(s[i] < s[j]) /\ ~(s[j] < s[i])
        <4>1. PICK x \in Nat : x = s[i]
          BY <1>2
        <4> QED
          BY <2>1, <4>1
      <3>2. ~(i < j) /\ ~(j < i)
        BY <1>3, <3>1
      <3> QED
        BY <1>1, <3>2
    <2> QED
      BY <1>2, <2>1 DEF Injection, IsInjective
  <1>5. s \in Surjection(1 .. n, S)
    <2>1. Cardinality(1 .. n) = n
      BY <1>1, FS_Interval
    <2> QED
      BY <1>4, <2>1, FS_Injection
  <1> QED
    BY <1>1, <1>2, <1>3, <1>5 DEF Surjection, s

(* A ladder is a finite set of sizes. *)
LEMMA LadderFacts ==
  ASSUME NEW f \in Files
  PROVE  Ladder(f) \in SUBSET Nat /\ IsFiniteSet(Ladder(f))
  <1>1. f \in FileRecord
    BY MediaAssumption
  <1>2. Side(f) \in Nat
    BY <1>1 DEF FileRecord, Side, ShortSide, Displayed
  <1>3. IsFiniteSet({Side(f)})
    BY FS_Singleton
  <1>4. Ladder(f) = {Side(f)} \/ Ladder(f) \subseteq STANDARD_RUNGS
    <2> DEFINE rungs == {r \in STANDARD_RUNGS : r <= Side(f)}
    <2>1. rungs \subseteq STANDARD_RUNGS
      OBVIOUS
    <2>2. Ladder(f) = rungs \/ Ladder(f) = {Side(f)}
      BY DEF Ladder
    <2> HIDE DEF rungs
    <2> QED
      BY <2>1, <2>2
  <1>5. CASE Ladder(f) = {Side(f)}
    BY <1>2, <1>3, <1>5
  <1>6. CASE Ladder(f) \subseteq STANDARD_RUNGS
    <2>1. Ladder(f) \in SUBSET (1 .. 1080)
      BY <1>6 DEF STANDARD_RUNGS
    <2>2. IsFiniteSet(1 .. 1080)
      <3>1. PICK n \in Nat : n = 1080
        OBVIOUS
      <3>2. IsFiniteSet(1 .. n)
        BY FS_Interval
      <3> QED
        BY <3>1, <3>2
    <2>3. IsFiniteSet(Ladder(f))
      BY <2>1, <2>2, FS_Subset
    <2>4. \A r \in 1 .. 1080 : r \in Nat
      OBVIOUS
    <2> QED
      BY <2>1, <2>3, <2>4
  <1> QED
    BY <1>4, <1>5, <1>6

(* The master playlist has each rendition once, by bandwidth                 *)
(* (build_master_playlist), whatever ladder is on record.                    *)
THEOREM MasterIsByBandwidthTheorem == Spec => []MasterIsByBandwidth
  <1>1. IInv => MasterIsByBandwidth
    <2> SUFFICES ASSUME IInv, step = "done"
                 PROVE  /\ {master[i].rung : i \in DOMAIN master} = expected
                        /\ Len(master) = Cardinality(expected)
                        /\ \A i, j \in DOMAIN master :
                             i < j => master[i].bandwidth <= master[j].bandwidth
      BY DEF MasterIsByBandwidth
    <2>1. expected \in SUBSET Nat /\ IsFiniteSet(expected)
      BY MediaAssumption, LadderFacts DEF IInv, PlanFollows, Planned
    <2> DEFINE n == Cardinality(expected)
               s == Sorted(expected)
               entry(r) == [rung |-> r, bandwidth |-> Bitrate(r)]
               E == {entry(r) : r \in expected}
    <2>2. /\ n \in Nat /\ s \in [1 .. n -> expected]
          /\ \A i, j \in 1 .. n : i < j => s[i] < s[j]
          /\ \A r \in expected : \E i \in 1 .. n : s[i] = r
      BY <2>1, SortedFacts
    <2>3. master = [i \in DOMAIN s |-> entry(s[i])]
      BY DEF IInv, MasterFollows, MasterPlaylist
    <2> HIDE DEF n, s
    <2>4. /\ DOMAIN master = 1 .. n
          /\ \A i \in 1 .. n : master[i].rung = s[i] /\ master[i].bandwidth = Bitrate(s[i])
      BY <2>2, <2>3
    <2>5. master \in [1 .. n -> E]
      BY <2>2, <2>3
    <2>6. Len(master) = n
      <3> HIDE DEF E
      <3>1. master \in Seq(E)
        BY <2>2, <2>5
      <3>2. Len(master) \in Nat /\ 1 .. Len(master) = 1 .. n
        BY <2>4, <3>1, LenProperties
      <3> QED
        BY <2>2, <3>2
    <2>7. {master[i].rung : i \in DOMAIN master} = expected
      BY <2>2, <2>4
    <2>8. ASSUME NEW i \in 1 .. n, NEW j \in 1 .. n, i < j
          PROVE  master[i].bandwidth <= master[j].bandwidth
      <3>1. s[i] \in Nat /\ s[j] \in Nat /\ s[i] < s[j]
        BY <2>1, <2>2, <2>8
      <3> QED
        BY <2>4, <3>1, BitrateMonotonic
    <2> QED
      BY <2>4, <2>6, <2>7, <2>8 DEF n
  <1> QED
    BY <1>1, Follows, PTL
=============================================================================
