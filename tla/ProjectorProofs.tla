---------------------------- MODULE ProjectorProofs ----------------------------
(***************************************************************************)
(* Proofs about Projector: for any log of events, any number of workers,   *)
(* crashes and evictions, the ids of a video's events appear in order, an  *)
(* offset is committed only past what is projected, and the group          *)
(* implements the read model its readers rely on; without evictions the    *)
(* row ends up as the logs say.                                            *)
(***************************************************************************)
EXTENDS Projector, FiniteSetTheorems, TLAPS

-----------------------------------------------------------------------------
(* The inductive invariant. *)

(* What TypeOK leaves open. *)
Typed ==
  /\ TypeOK
  /\ offset \in [Topics -> Nat] /\ position \in [Topics -> Nat]
  /\ nextId \in Nat \ {0}
  /\ evictions \in Nat

(* A member at work that has its partition still. *)
Live(w) == pc[w] # "idle" /\ ~evicted[w]

(* A partition has one owner at work at most, on the message behind the      *)
(* committed offset; without one, the group reads on from there.             *)
OwnersAgree ==
  /\ \A v, w \in Workers : Live(v) /\ Live(w) /\ TopicOf(v) = TopicOf(w) => v = w
  /\ \A w \in Workers : Live(w) =>
       position[TopicOf(w)] = job[w][2] /\ offset[TopicOf(w)] + 1 = job[w][2]
  /\ \A t \in Topics :
       (\A w \in Workers : Live(w) => TopicOf(w) # t) => position[t] = offset[t]
  /\ \A w \in Workers : pc[w] = "idle" => ~evicted[w]

(* The lock on the videos row is held from the update to the commit. *)
LockHeld ==
  /\ \A w \in Workers :
       pc[w] \in {"append", "commit"} /\ Event(job[w]).known => lock = w
  /\ \A w \in Workers : pc[w] = "commit" => Event(job[w]).known

(* A transaction appends what is not in the table yet, under an id above all *)
(* others; what is past its commit is in the table or on the DLQ.            *)
AppendsNew ==
  \A w \in Workers :
    /\ newId[w] # 0 => /\ pc[w] = "commit" /\ job[w] \notin Logged
                       /\ \A e \in events : e.id < newId[w]
    /\ pc[w] = "commit" /\ newId[w] = 0 => job[w] \in Logged
    /\ pc[w] = "offset" => job[w] \in Logged \union dead

(* What a worker is at comes behind what is projected of its topic. *)
EarlierLogged ==
  \A w \in Workers : pc[w] # "idle" =>
    \A m \in Known : m[1] = TopicOf(w) /\ m[2] < job[w][2] => m \in Logged

Ids == {e.id : e \in events}
Rank(e) == Cardinality({j \in Ids : j < e.id})

(* The ids number the events through. *)
RanksAreDense ==
  /\ IsFiniteSet(Ids)
  /\ \A e \in events : Rank(e) + 1 \in 1 .. Cardinality(Ids)
  /\ \A i \in 1 .. Cardinality(Ids) : \E e \in events : Rank(e) = i - 1
  /\ \A e, f \in events : Rank(e) = Rank(f) => e = f

(* The row has what the events in the table have said. *)
RowFollows ==
  /\ columns = UNION {Event(m).fields : m \in Logged}
  /\ \A m \in Logged : Event(m).rendition # NoRendition =>
       outcome[Event(m).rendition] # "none"

(* Without evictions only the newest event of a topic is projected twice.    *)
NewestLast ==
  evictions = 0 =>
    /\ \A w \in Workers : ~evicted[w]
    /\ \A m \in Logged : m[2] <= offset[m[1]] + 1
    /\ Logged # {} =>
         \E m \in Logged : /\ status = Event(m).state
                           /\ \A n \in Logged : n[1] = m[1] => n[2] <= m[2]

IInv ==
  /\ Typed
  /\ OwnersAgree
  /\ LockHeld
  /\ AppendsNew
  /\ EarlierLogged
  /\ OffsetsAreProjected
  /\ RanksAreDense
  /\ RowFollows
  /\ NewestLast

-----------------------------------------------------------------------------
(* Messages and workers. *)

(* A message is an event of a topic. *)
LEMMA MessageFacts ==
  ASSUME NEW m \in Messages
  PROVE  /\ m[1] \in Topics /\ m[2] \in Nat \ {0}
         /\ m[2] \in DOMAIN Log[m[1]] /\ m[2] <= Len(Log[m[1]])
         /\ m = <<m[1], m[2]>>
         /\ Event(m) \in EventRecord
         /\ m # Nothing
  <1>1. PICK t \in Topics : m \in {t} \X DOMAIN Log[t]
    BY DEF Messages
  <1>2. m[1] = t /\ m[2] \in DOMAIN Log[t] /\ m = <<m[1], m[2]>>
    BY <1>1
  <1>3. Log[t] \in Seq(EventRecord)
    BY StatusEventsAssumption
  <1>4. m[2] \in Nat \ {0} /\ m[2] <= Len(Log[t]) /\ Log[t][m[2]] \in EventRecord
    BY <1>2, <1>3
  <1>5. <<m[1], m[2]>> # <<>>
    OBVIOUS
  <1> QED
    BY <1>1, <1>2, <1>4, <1>5 DEF Event, Nothing

(* What an event says. *)
LEMMA EventFacts ==
  ASSUME NEW m \in Messages
  PROVE  /\ Event(m).state \in States /\ Event(m).fields \subseteq Fields
         /\ Event(m).rendition \in Renditions \union {NoRendition}
         /\ Event(m).known \in BOOLEAN
         /\ Outcome(Event(m)) \in Outcomes \ {"none"}
  <1>1. Event(m) \in EventRecord
    BY MessageFacts
  <1> QED
    BY <1>1 DEF EventRecord, Outcome, Outcomes

(* A worker at work has a message. *)
LEMMA JobFacts ==
  ASSUME Typed, NEW w \in Workers, pc[w] # "idle"
  PROVE  job[w] \in Messages /\ job[w][1] \in Topics /\ job[w][2] \in Nat \ {0}
  <1>1. job[w] \in Messages
    BY DEF Typed, TypeOK
  <1> QED
    BY <1>1, MessageFacts

(* A sequence that moves on keeps the numbers it has handed out. *)
LEMMA RangeFacts ==
  ASSUME NEW m \in Nat \ {0}, NEW n \in Nat, m <= n
  PROVE  1 .. m - 1 \subseteq 1 .. n - 1 /\ n \in Nat \ {0}
  OBVIOUS

(* A worker that goes on to another step. *)
LEMMA GotoFacts ==
  ASSUME Typed, NEW w \in Workers, pc[w] # "idle",
         NEW step \in {"append", "commit", "offset"}, pc' = [pc EXCEPT ![w] = step],
         UNCHANGED <<job, evicted>>
  PROVE  /\ pc' \in [Workers -> {"idle", "update", "append", "commit", "offset"}]
         /\ \A v \in Workers : pc'[v] = "idle" <=> job'[v] = Nothing
         /\ pc'[w] = step
         /\ \A v \in Workers \ {w} : pc'[v] = pc[v]
         /\ \A v \in Workers : Live(v)' <=> Live(v)
  BY DEF Typed, TypeOK, Live

(* A worker that is done with its message, one way or the other. *)
LEMMA IdleFacts ==
  ASSUME Typed, NEW w \in Workers, GoIdle(w)
  PROVE  /\ pc' \in [Workers -> {"idle", "update", "append", "commit", "offset"}]
         /\ job' \in [Workers -> Messages \union {Nothing}]
         /\ evicted' \in [Workers -> BOOLEAN]
         /\ \A v \in Workers : pc'[v] = "idle" <=> job'[v] = Nothing
         /\ pc'[w] = "idle" /\ ~evicted'[w] /\ ~Live(w)'
         /\ \A v \in Workers \ {w} :
              /\ pc'[v] = pc[v] /\ job'[v] = job[v] /\ evicted'[v] = evicted[v]
              /\ Live(v)' <=> Live(v)
  BY DEF Typed, TypeOK, GoIdle, Live

(* The topic a worker is at has no other owner at work. *)
LEMMA OwnerFacts ==
  ASSUME IInv, NEW w \in Workers, Live(w)
  PROVE  /\ TopicOf(w) \in Topics /\ job[w] \in Messages
         /\ job[w][2] = offset[TopicOf(w)] + 1
         /\ job[w][2] = position[TopicOf(w)]
         /\ \A v \in Workers \ {w} : Live(v) => TopicOf(v) # TopicOf(w)
  <1>1. job[w] \in Messages /\ TopicOf(w) \in Topics
    BY JobFacts DEF IInv, Live, TopicOf
  <1> QED
    BY <1>1 DEF IInv, OwnersAgree

-----------------------------------------------------------------------------
(* What is left to show of a step that writes no table. *)

(* The table, and what is said about it alone, stays. *)
LEMMA TableAside ==
  ASSUME IInv, UNCHANGED tableVars
  PROVE  /\ Logged' = Logged /\ Ids' = Ids
         /\ RanksAreDense' /\ RowFollows'
  <1>1. Logged' = Logged /\ Ids' = Ids /\ \A e : Rank(e)' = Rank(e)
    BY DEF tableVars, Logged, Ids, Rank
  <1>2. RanksAreDense'
    BY <1>1 DEF IInv, RanksAreDense, tableVars
  <1>3. RowFollows'
    BY <1>1 DEF IInv, RowFollows, tableVars
  <1> QED
    BY <1>1, <1>2, <1>3

(* A step inside a transaction: offsets, positions and owners stay. *)
LEMMA InsideKeeps ==
  ASSUME IInv, NEW w \in Workers, pc[w] # "idle",
         NEW step \in {"append", "commit", "offset"}, pc' = [pc EXCEPT ![w] = step],
         UNCHANGED <<offset, position, tableVars, job, evicted, budgetVars>>,
         dead \subseteq dead', dead' \subseteq Messages \ Known,
         lock' \in Workers \union {NoWorker},
         nextId' \in Nat, nextId <= nextId',
         newId' \in [Workers -> 0 .. nextId' - 1],
         LockHeld', AppendsNew'
  PROVE  IInv'
  <1> USE DEF budgetVars
  <1>1. Typed
    BY DEF IInv
  <1>2. /\ pc' \in [Workers -> {"idle", "update", "append", "commit", "offset"}]
        /\ \A v \in Workers : pc'[v] = "idle" <=> job'[v] = Nothing
        /\ pc'[w] = step
        /\ \A v \in Workers \ {w} : pc'[v] = pc[v]
        /\ \A v \in Workers : Live(v)' <=> Live(v)
    BY <1>1, GotoFacts
  <1>3. Logged' = Logged /\ Ids' = Ids /\ RanksAreDense' /\ RowFollows'
    BY TableAside
  <1>4. Typed'
    <2>1. 1 .. nextId - 1 \subseteq 1 .. nextId' - 1 /\ nextId' \in Nat \ {0}
      <3>1. nextId \in Nat \ {0}
        BY <1>1 DEF Typed
      <3> QED
        BY <3>1, RangeFacts
    <2>2. events' \subseteq [id : 1 .. nextId' - 1, msg : Known]
      BY <1>1, <2>1 DEF Typed, TypeOK, tableVars
    <2> QED
      BY <1>1, <1>2, <2>1, <2>2 DEF Typed, TypeOK, tableVars
  <1>5. OwnersAgree'
    BY <1>2 DEF IInv, OwnersAgree, TopicOf
  <1>6. EarlierLogged'
    BY <1>2, <1>3 DEF IInv, EarlierLogged, TopicOf
  <1>7. OffsetsAreProjected'
    BY <1>3 DEF IInv, OffsetsAreProjected
  <1>8. NewestLast'
    BY <1>3 DEF IInv, NewestLast, tableVars
  <1> QED
    BY <1>3, <1>4, <1>5, <1>6, <1>7, <1>8 DEF IInv

-----------------------------------------------------------------------------
(* The steps of a transaction. *)

(* The video's row is updated, and locked: a known event waits for the lock. *)
LEMMA UpdateVideoKeeps ==
  ASSUME IInv, NEW w \in Workers, UpdateVideo(w)
  PROVE  IInv'
  <1>1. Typed
    BY DEF IInv
  <1>2. /\ pc[w] = "update" /\ pc' = [pc EXCEPT ![w] = "append"]
        /\ UNCHANGED <<kafkaVars, tableVars, nextId, job, newId, evicted, budgetVars>>
        /\ Event(job[w]).known => lock = NoWorker /\ lock' = w
        /\ ~Event(job[w]).known => lock' = lock
    BY DEF UpdateVideo
  <1>3. pc'[w] = "append" /\ \A v \in Workers \ {w} : pc'[v] = pc[v]
    BY <1>1, <1>2, GotoFacts
  <1>4. lock' \in Workers \union {NoWorker}
    BY <1>1, <1>2, JobFacts, EventFacts DEF Typed, TypeOK
  <1>5. LockHeld'
    <2>1. ASSUME NEW v \in Workers, pc'[v] \in {"append", "commit"}, Event(job[v]).known
          PROVE  lock' = v
      <3>1. CASE v = w
        BY <1>2, <2>1, <3>1
      <3>2. CASE v # w
        <4>1. lock = v
          BY <1>3, <2>1, <3>2 DEF IInv, LockHeld
        <4>2. lock # NoWorker
          BY <4>1, ProjectorAssumption
        <4>3. Event(job[w]).known \in BOOLEAN
          BY <1>1, <1>2, JobFacts, EventFacts
        <4> QED
          BY <1>2, <4>1, <4>2, <4>3
      <3> QED
        BY <3>1, <3>2
    <2>2. \A v \in Workers : pc'[v] = "commit" => Event(job[v]).known
      BY <1>3 DEF IInv, LockHeld
    <2> QED
      BY <1>2, <2>1, <2>2 DEF LockHeld, Event
  <1>6. AppendsNew'
    BY <1>2, <1>3, TableAside DEF IInv, AppendsNew, tableVars, kafkaVars
  <1>7. nextId' \in Nat /\ nextId <= nextId'
    BY <1>1, <1>2 DEF Typed
  <1>8. dead \subseteq dead' /\ dead' \subseteq Messages \ Known
        /\ newId' \in [Workers -> 0 .. nextId' - 1]
    BY <1>1, <1>2 DEF Typed, TypeOK, kafkaVars
  <1> QED
    BY <1>2, <1>4, <1>5, <1>6, <1>7, <1>8, InsideKeeps DEF kafkaVars

(* The id that is drawn is above all that are drawn already. *)
LEMMA AppendEventKeeps ==
  ASSUME IInv, NEW w \in Workers, AppendEvent(w)
  PROVE  IInv'
  <1>1. Typed
    BY DEF IInv
  <1>2. /\ pc[w] = "append" /\ pc' = [pc EXCEPT ![w] = "commit"]
        /\ UNCHANGED <<kafkaVars, tableVars, lock, job, evicted, budgetVars>>
        /\ newId' = [newId EXCEPT ![w] = IF job[w] \in Logged THEN 0 ELSE nextId]
        /\ nextId' = nextId + 1
        /\ Event(job[w]).known
    BY DEF AppendEvent
  <1>3. pc'[w] = "commit" /\ \A v \in Workers \ {w} : pc'[v] = pc[v]
    BY <1>1, <1>2, GotoFacts
  <1>4. nextId' \in Nat /\ nextId <= nextId' /\ nextId \in Nat \ {0}
    BY <1>1, <1>2 DEF Typed
  <1>5. newId' \in [Workers -> 0 .. nextId' - 1]
    <2>1. \A v \in Workers : newId[v] \in 0 .. nextId' - 1
      BY <1>1, <1>2, <1>4 DEF Typed, TypeOK
    <2>2. (IF job[w] \in Logged THEN 0 ELSE nextId) \in 0 .. nextId' - 1
      BY <1>2, <1>4
    <2> QED
      BY <1>1, <1>2, <2>1, <2>2 DEF Typed, TypeOK
  <1>6. LockHeld'
    BY <1>2, <1>3 DEF IInv, LockHeld, Event
  <1>7. AppendsNew'
    <2>1. \A e \in events : e.id < nextId
      BY <1>1, <1>4 DEF Typed, TypeOK
    <2>2. newId'[w] = (IF job[w] \in Logged THEN 0 ELSE nextId)
          /\ \A v \in Workers \ {w} : newId'[v] = newId[v]
      BY <1>1, <1>2 DEF Typed, TypeOK
    <2>3. Logged' = Logged
      BY <1>2, TableAside
    <2>4. ASSUME NEW v \in Workers
          PROVE  /\ newId'[v] # 0 => /\ pc'[v] = "commit" /\ job[v] \notin Logged
                                     /\ \A e \in events : e.id < newId'[v]
                 /\ pc'[v] = "commit" /\ newId'[v] = 0 => job[v] \in Logged
                 /\ pc'[v] = "offset" => job[v] \in Logged \union dead
      <3>1. CASE v = w
        BY <1>3, <1>4, <2>1, <2>2, <3>1
      <3>2. CASE v # w
        BY <1>3, <2>2, <3>2 DEF IInv, AppendsNew
      <3> QED
        BY <3>1, <3>2
    <2> QED
      BY <1>2, <2>3, <2>4 DEF AppendsNew, tableVars, kafkaVars
  <1>8. dead \subseteq dead' /\ dead' \subseteq Messages \ Known
        /\ lock' \in Workers \union {NoWorker}
    BY <1>1, <1>2 DEF Typed, TypeOK, kafkaVars
  <1> QED
    BY <1>2, <1>4, <1>5, <1>6, <1>7, <1>8, InsideKeeps DEF kafkaVars

(* An event of a video that is not known goes to the DLQ. *)
LEMMA ViolateConstraintKeeps ==
  ASSUME IInv, NEW w \in Workers, ViolateConstraint(w)
  PROVE  IInv'
  <1>1. Typed
    BY DEF IInv
  <1>2. /\ pc[w] = "append" /\ pc' = [pc EXCEPT ![w] = "offset"]
        /\ UNCHANGED <<offset, position, tableVars, lock, job, newId, evicted, budgetVars>>
        /\ dead' = dead \union {job[w]}
        /\ nextId' = nextId + 1
        /\ ~Event(job[w]).known
    BY DEF ViolateConstraint
  <1>3. pc'[w] = "offset" /\ \A v \in Workers \ {w} : pc'[v] = pc[v]
    BY <1>1, <1>2, GotoFacts
  <1>4. nextId' \in Nat /\ nextId <= nextId'
    BY <1>1, <1>2 DEF Typed
  <1>5. newId' \in [Workers -> 0 .. nextId' - 1]
    BY <1>1, <1>2 DEF Typed, TypeOK
  <1>6. LockHeld'
    BY <1>2, <1>3 DEF IInv, LockHeld, Event
  <1>7. AppendsNew'
    <2>1. newId[w] = 0
      BY <1>2 DEF IInv, AppendsNew
    <2> QED
      BY <1>2, <1>3, <2>1, TableAside DEF IInv, AppendsNew, tableVars
  <1>8. job[w] \in Messages \ Known
    BY <1>1, <1>2, JobFacts DEF Known
  <1>9. dead \subseteq dead' /\ dead' \subseteq Messages \ Known
        /\ lock' \in Workers \union {NoWorker}
    BY <1>1, <1>2, <1>8 DEF Typed, TypeOK
  <1> QED
    BY <1>2, <1>4, <1>5, <1>6, <1>7, <1>9, InsideKeeps

-----------------------------------------------------------------------------
(* The steps between transactions. *)

(* What a committed offset covers is in the table, if the video is known. *)
LEMMA CoveredIsLogged ==
  ASSUME IInv, NEW m \in Known, m[2] <= offset[m[1]]
  PROVE  m \in Logged
  <1>1. m \in Messages /\ m \notin dead
    BY DEF IInv, Typed, TypeOK, Known
  <1> QED
    BY <1>1 DEF IInv, OffsetsAreProjected

(* A worker fetches the message behind the committed offset. *)
LEMMA TakeKeeps ==
  ASSUME IInv, NEW w \in Workers, NEW t \in Topics, Take(w, t)
  PROVE  IInv'
  <1> DEFINE m == <<t, position[t] + 1>>
  <1>1. Typed
    BY DEF IInv
  <1>2. /\ pc[w] = "idle" /\ position[t] < Len(Log[t])
        /\ \A v \in Workers : Live(v) => TopicOf(v) # t
        /\ position' = [position EXCEPT ![t] = @ + 1]
        /\ job' = [job EXCEPT ![w] = m]
        /\ pc' = [pc EXCEPT ![w] = "update"]
        /\ UNCHANGED <<offset, dead, tableVars, nextId, lock, newId, evicted, budgetVars>>
    BY DEF Take, Live
  <1>3. Log[t] \in Seq(EventRecord)
    BY StatusEventsAssumption
  <1>4. position[t] \in Nat /\ offset[t] \in Nat /\ offset[t] <= position[t]
    BY <1>1 DEF Typed, TypeOK
  <1>5. position[t] + 1 \in DOMAIN Log[t] /\ position[t] + 1 <= Len(Log[t])
    BY <1>2, <1>3, <1>4
  <1>6. m \in Messages /\ m[1] = t /\ m[2] = position[t] + 1
    BY <1>5 DEF Messages
  <1>7. m # Nothing
    BY <1>6, MessageFacts
  <1> HIDE DEF m
  <1>8. /\ pc'[w] = "update" /\ job'[w] = m /\ ~evicted[w]
        /\ \A v \in Workers \ {w} : pc'[v] = pc[v] /\ job'[v] = job[v]
        /\ Live(w)' /\ \A v \in Workers \ {w} : Live(v)' <=> Live(v)
    BY <1>1, <1>2 DEF IInv, OwnersAgree, Typed, TypeOK, Live
  <1>9. /\ position'[t] = position[t] + 1 /\ position' \in [Topics -> Nat]
        /\ \A u \in Topics \ {t} : position'[u] = position[u]
    BY <1>1, <1>2, <1>4 DEF Typed
  <1>10. Logged' = Logged /\ RanksAreDense' /\ RowFollows'
    BY <1>2, TableAside
  <1>11. Typed'
    <2>1. \A u \in Topics : 0 <= offset[u] /\ offset[u] <= Len(Log[u])
      BY <1>1 DEF Typed, TypeOK
    <2>2. \A u \in Topics : offset[u] <= position'[u] /\ position'[u] <= Len(Log[u])
      <3>1. \A u \in Topics : offset[u] <= position[u] /\ position[u] <= Len(Log[u])
        BY <1>1 DEF Typed, TypeOK
      <3> QED
        BY <1>4, <1>5, <1>9, <3>1
    <2>3. /\ pc' \in [Workers -> {"idle", "update", "append", "commit", "offset"}]
          /\ job' \in [Workers -> Messages \union {Nothing}]
          /\ \A v \in Workers : pc'[v] = "idle" <=> job'[v] = Nothing
      BY <1>1, <1>2, <1>6, <1>7, <1>8 DEF Typed, TypeOK
    <2> QED
      BY <1>1, <1>2, <1>9, <2>1, <2>2, <2>3 DEF Typed, TypeOK, tableVars, budgetVars
  <1>12. position[t] = offset[t]
    BY <1>2 DEF IInv, OwnersAgree
  <1>13. OwnersAgree'
    <2>1. \A u, v \in Workers : Live(u)' /\ Live(v)' /\ job'[u][1] = job'[v][1] => u = v
      BY <1>2, <1>6, <1>8 DEF IInv, OwnersAgree, TopicOf
    <2>2. ASSUME NEW v \in Workers, Live(v)'
          PROVE  position'[job'[v][1]] = job'[v][2] /\ offset[job'[v][1]] + 1 = job'[v][2]
      <3>1. CASE v = w
        BY <1>6, <1>8, <1>9, <1>12, <3>1
      <3>2. CASE v # w
        <4>1. Live(v) /\ job'[v] = job[v]
          BY <1>8, <2>2, <3>2
        <4>2. TopicOf(v) \in Topics \ {t}
          BY <1>1, <1>2, <4>1, JobFacts DEF Live, TopicOf
        <4> QED
          BY <1>9, <4>1, <4>2 DEF IInv, OwnersAgree, TopicOf
      <3> QED
        BY <3>1, <3>2
    <2>3. ASSUME NEW u \in Topics, \A v \in Workers : Live(v)' => job'[v][1] # u
          PROVE  position'[u] = offset[u]
      <3>1. u # t
        BY <1>6, <1>8, <2>3
      <3>2. \A v \in Workers : Live(v) => TopicOf(v) # u
        BY <1>2, <1>8, <2>3 DEF Live, TopicOf
      <3> QED
        BY <1>9, <3>1, <3>2 DEF IInv, OwnersAgree
    <2>4. \A v \in Workers : pc'[v] = "idle" => ~evicted[v]
      BY <1>8 DEF IInv, OwnersAgree
    <2> QED
      BY <1>2, <2>1, <2>2, <2>3, <2>4 DEF OwnersAgree, TopicOf
  <1>14. LockHeld'
    BY <1>2, <1>8 DEF IInv, LockHeld, Event
  <1>15. AppendsNew'
    BY <1>2, <1>8, <1>10 DEF IInv, AppendsNew, tableVars
  <1>16. EarlierLogged'
    <2>1. ASSUME NEW n \in Known, n[1] = t, n[2] < position[t] + 1
          PROVE  n \in Logged
      <3>1. n[2] \in Nat
        BY MessageFacts DEF Known
      <3>2. n[2] <= offset[n[1]]
        BY <1>4, <1>12, <2>1, <3>1
      <3> QED
        BY <3>2, CoveredIsLogged
    <2> QED
      BY <1>6, <1>8, <1>10, <2>1 DEF IInv, EarlierLogged, TopicOf
  <1>17. OffsetsAreProjected'
    BY <1>2, <1>10 DEF IInv, OffsetsAreProjected
  <1>18. NewestLast'
    BY <1>2, <1>10 DEF IInv, NewestLast, tableVars, budgetVars
  <1> QED
    BY <1>10, <1>11, <1>13, <1>14, <1>15, <1>16, <1>17, <1>18 DEF IInv

(* A worker whose work is over, however that comes: it holds nothing more.   *)
LEMMA LeavesKeep ==
  ASSUME IInv, NEW w \in Workers, pc[w] # "idle", GoIdle(w),
         UNCHANGED <<dead, tableVars, nextId>>,
         lock' = lock \/ (lock = w /\ lock' = NoWorker),
         newId' = [newId EXCEPT ![w] = 0],
         offset' \in [Topics -> Nat], position' \in [Topics -> Nat],
         \A u \in Topics : /\ offset[u] <= offset'[u] /\ offset'[u] <= position'[u]
                           /\ position'[u] <= Len(Log[u]),
         \A u \in Topics : ~Live(w) \/ u # TopicOf(w)
            => offset'[u] = offset[u] /\ position'[u] = position[u],
         Live(w) => position'[TopicOf(w)] = offset'[TopicOf(w)],
         OffsetsAreProjected', evictions' = evictions
  PROVE  IInv'
  <1>1. Typed
    BY DEF IInv
  <1>2. /\ pc' \in [Workers -> {"idle", "update", "append", "commit", "offset"}]
        /\ job' \in [Workers -> Messages \union {Nothing}]
        /\ evicted' \in [Workers -> BOOLEAN]
        /\ \A v \in Workers : pc'[v] = "idle" <=> job'[v] = Nothing
        /\ pc'[w] = "idle" /\ ~evicted'[w] /\ ~Live(w)'
        /\ \A v \in Workers \ {w} :
             /\ pc'[v] = pc[v] /\ job'[v] = job[v] /\ evicted'[v] = evicted[v]
             /\ Live(v)' <=> Live(v)
    BY <1>1, IdleFacts
  <1>3. Logged' = Logged /\ RanksAreDense' /\ RowFollows'
    BY TableAside
  <1>4. newId'[w] = 0 /\ \A v \in Workers \ {w} : newId'[v] = newId[v]
    BY <1>1 DEF Typed, TypeOK
  <1>5. Typed'
    <2>1. \A u \in Topics : 0 <= offset'[u] /\ offset'[u] <= Len(Log[u])
      <3>1. \A u \in Topics : Log[u] \in Seq(EventRecord)
        BY StatusEventsAssumption
      <3>2. \A u \in Topics : Len(Log[u]) \in Nat /\ offset'[u] \in Nat /\ position'[u] \in Nat
        BY <3>1
      <3> QED
        BY <3>2
    <2>2. newId' \in [Workers -> 0 .. nextId - 1]
      <3>1. 0 \in 0 .. nextId - 1
        BY <1>1 DEF Typed
      <3> QED
        BY <1>1, <3>1 DEF Typed, TypeOK
    <2> QED
      BY <1>1, <1>2, <2>1, <2>2 DEF Typed, TypeOK, tableVars
  <1>6. OwnersAgree'
    <2>1. \A u, v \in Workers : Live(u)' /\ Live(v)' /\ job'[u][1] = job'[v][1] => u = v
      BY <1>2 DEF IInv, OwnersAgree, TopicOf
    <2>2. ASSUME NEW v \in Workers, Live(v)'
          PROVE  position'[job'[v][1]] = job'[v][2] /\ offset'[job'[v][1]] + 1 = job'[v][2]
      <3>1. v # w /\ Live(v) /\ job'[v] = job[v]
        BY <1>2, <2>2
      <3>2. TopicOf(v) \in Topics /\ (Live(w) => TopicOf(v) # TopicOf(w))
        BY <1>1, <3>1, JobFacts DEF Live, TopicOf, IInv, OwnersAgree
      <3>3. offset'[TopicOf(v)] = offset[TopicOf(v)]
            /\ position'[TopicOf(v)] = position[TopicOf(v)]
        BY <3>2
      <3> QED
        BY <3>1, <3>3 DEF IInv, OwnersAgree, TopicOf
    <2>3. ASSUME NEW u \in Topics, \A v \in Workers : Live(v)' => job'[v][1] # u
          PROVE  position'[u] = offset'[u]
      <3>1. CASE Live(w) /\ u = TopicOf(w)
        BY <3>1
      <3>2. CASE ~Live(w) \/ u # TopicOf(w)
        <4>1. \A v \in Workers : Live(v) => TopicOf(v) # u
          BY <1>2, <2>3, <3>2 DEF TopicOf
        <4> QED
          BY <3>2, <4>1 DEF IInv, OwnersAgree
      <3> QED
        BY <3>1, <3>2
    <2>4. \A v \in Workers : pc'[v] = "idle" => ~evicted'[v]
      BY <1>2 DEF IInv, OwnersAgree
    <2> QED
      BY <2>1, <2>2, <2>3, <2>4 DEF OwnersAgree, TopicOf
  <1>7. LockHeld'
    BY <1>2 DEF IInv, LockHeld, Event
  <1>8. AppendsNew'
    BY <1>2, <1>3, <1>4 DEF IInv, AppendsNew, tableVars
  <1>9. EarlierLogged'
    BY <1>2, <1>3 DEF IInv, EarlierLogged, TopicOf
  <1>10. NewestLast'
    <2>1. ASSUME NEW m \in Logged, m[2] <= offset[m[1]] + 1
          PROVE  m[2] <= offset'[m[1]] + 1
      <3>1. m \in Messages
        BY <1>1 DEF Typed, TypeOK, Logged, Known
      <3>2. m[1] \in Topics /\ m[2] \in Nat
        BY <3>1, MessageFacts
      <3>3. offset[m[1]] \in Nat /\ offset'[m[1]] \in Nat /\ offset[m[1]] <= offset'[m[1]]
        BY <1>1, <3>2 DEF Typed
      <3> QED
        BY <2>1, <3>2, <3>3
    <2> QED
      BY <1>2, <1>3, <2>1 DEF IInv, NewestLast, tableVars
  <1> QED
    BY <1>3, <1>5, <1>6, <1>7, <1>8, <1>9, <1>10 DEF IInv

(* The offset moves past one message, which is in the table or on the DLQ. *)
LEMMA CommitOffsetKeeps ==
  ASSUME IInv, NEW w \in Workers, CommitOffset(w)
  PROVE  IInv'
  <1>1. Typed
    BY DEF IInv
  <1>2. /\ pc[w] = "offset" /\ GoIdle(w)
        /\ offset' = IF evicted[w] THEN offset
                     ELSE [offset EXCEPT ![TopicOf(w)] = job[w][2]]
        /\ UNCHANGED <<position, dead, tableVars, nextId, lock, newId, budgetVars>>
    BY DEF CommitOffset
  <1>3. Live(w) <=> ~evicted[w]
    BY <1>2 DEF Live
  <1>4. newId[w] = 0 /\ job[w] \in Logged \union dead
    BY <1>2 DEF IInv, AppendsNew
  <1>5. newId' = [newId EXCEPT ![w] = 0]
    BY <1>1, <1>2, <1>4 DEF Typed, TypeOK
  <1>6. job[w] \in Messages /\ TopicOf(w) \in Topics /\ job[w][2] \in Nat
    BY <1>1, <1>2, JobFacts DEF TopicOf
  <1>7. Live(w) => job[w][2] = offset[TopicOf(w)] + 1 /\ job[w][2] = position[TopicOf(w)]
    BY OwnerFacts
  <1>8. /\ offset' \in [Topics -> Nat]
        /\ \A u \in Topics : ~Live(w) \/ u # TopicOf(w) => offset'[u] = offset[u]
        /\ Live(w) => offset'[TopicOf(w)] = job[w][2]
    BY <1>1, <1>2, <1>3, <1>6 DEF Typed
  <1>9. \A u \in Topics : /\ offset[u] <= offset'[u] /\ offset'[u] <= position[u]
                          /\ position[u] <= Len(Log[u])
    <2> SUFFICES ASSUME NEW u \in Topics
                 PROVE  /\ offset[u] <= offset'[u] /\ offset'[u] <= position[u]
                        /\ position[u] <= Len(Log[u])
      OBVIOUS
    <2>1. /\ offset[u] \in Nat /\ position[u] \in Nat
          /\ offset[u] <= position[u] /\ position[u] <= Len(Log[u])
      BY <1>1 DEF Typed, TypeOK
    <2>2. CASE ~Live(w) \/ u # TopicOf(w)
      BY <1>8, <2>1, <2>2
    <2>3. CASE Live(w) /\ u = TopicOf(w)
      BY <1>7, <1>8, <2>1, <2>3
    <2> QED
      BY <2>2, <2>3
  <1>10. Live(w) => position'[TopicOf(w)] = offset'[TopicOf(w)]
    BY <1>2, <1>7, <1>8
  <1>11. OffsetsAreProjected'
    <2> SUFFICES ASSUME NEW m \in Messages, m[2] <= offset'[m[1]]
                 PROVE  m \in Logged \union dead
      BY <1>2, TableAside DEF OffsetsAreProjected
    <2>1. m[1] \in Topics /\ m[2] \in Nat /\ m = <<m[1], m[2]>>
      BY MessageFacts
    <2>2. CASE m[2] <= offset[m[1]]
      BY <2>2 DEF IInv, OffsetsAreProjected
    <2>3. CASE ~(m[2] <= offset[m[1]])
      <3>1. Live(w) /\ m[1] = TopicOf(w)
        BY <1>8, <2>1, <2>3
      <3>2. offset[m[1]] \in Nat
        BY <1>1, <2>1 DEF Typed
      <3>3. offset'[m[1]] = offset[m[1]] + 1 /\ job[w][2] = offset[m[1]] + 1
        BY <1>7, <1>8, <3>1
      <3>4. m[2] = job[w][2]
        BY <2>1, <2>3, <3>2, <3>3
      <3>5. job[w] = <<job[w][1], job[w][2]>>
        BY <1>6, MessageFacts
      <3>6. m = job[w]
        BY <2>1, <3>1, <3>4, <3>5 DEF TopicOf
      <3> QED
        BY <1>4, <3>6
    <2> QED
      BY <2>2, <2>3
  <1>12. evictions' = evictions /\ position' \in [Topics -> Nat]
    BY <1>1, <1>2 DEF Typed, budgetVars
  <1> QED
    BY <1>2, <1>5, <1>8, <1>9, <1>10, <1>11, <1>12, LeavesKeep

(* A transaction is rolled back, and the group reads on behind its offset. *)
LEMMA CrashKeeps ==
  ASSUME IInv, NEW w \in Workers, Crash(w)
  PROVE  IInv'
  <1>1. Typed
    BY DEF IInv
  <1>2. /\ pc[w] # "idle" /\ GoIdle(w)
        /\ lock' = lock \/ (lock = w /\ lock' = NoWorker)
        /\ newId' = [newId EXCEPT ![w] = 0]
        /\ position' = IF evicted[w] THEN position
                       ELSE [position EXCEPT ![TopicOf(w)] = offset[TopicOf(w)]]
        /\ UNCHANGED <<offset, dead, tableVars, nextId, evictions>>
    BY DEF Crash, Refetch
  <1>3. Live(w) <=> ~evicted[w]
    BY <1>2 DEF Live
  <1>4. TopicOf(w) \in Topics
    BY <1>1, <1>2, JobFacts DEF TopicOf
  <1>5. /\ position' \in [Topics -> Nat]
        /\ \A u \in Topics : ~Live(w) \/ u # TopicOf(w) => position'[u] = position[u]
        /\ Live(w) => position'[TopicOf(w)] = offset[TopicOf(w)]
    BY <1>1, <1>2, <1>3, <1>4 DEF Typed
  <1>6. \A u \in Topics : /\ offset[u] <= offset'[u] /\ offset'[u] <= position'[u]
                          /\ position'[u] <= Len(Log[u])
    <2> SUFFICES ASSUME NEW u \in Topics
                 PROVE  /\ offset[u] <= offset[u] /\ offset[u] <= position'[u]
                        /\ position'[u] <= Len(Log[u])
      BY <1>2
    <2>1. /\ offset[u] \in Nat /\ position[u] \in Nat
          /\ offset[u] <= position[u] /\ position[u] <= Len(Log[u])
          /\ offset[u] <= Len(Log[u])
      BY <1>1 DEF Typed, TypeOK
    <2>2. position'[u] = position[u] \/ position'[u] = offset[u]
      BY <1>5
    <2> QED
      BY <2>1, <2>2
  <1>7. OffsetsAreProjected'
    BY <1>2, TableAside DEF IInv, OffsetsAreProjected
  <1>8. offset' \in [Topics -> Nat]
    BY <1>1, <1>2 DEF Typed
  <1> QED
    BY <1>2, <1>5, <1>6, <1>7, <1>8, LeavesKeep

(* The partition goes to somebody else, the work goes on. *)
LEMMA EvictKeeps ==
  ASSUME IInv, NEW w \in Workers, Evict(w)
  PROVE  IInv'
  <1>1. Typed
    BY DEF IInv
  <1>2. /\ Live(w)
        /\ evictions' = evictions + 1
        /\ evicted' = [evicted EXCEPT ![w] = TRUE]
        /\ position' = [position EXCEPT ![TopicOf(w)] = offset[TopicOf(w)]]
        /\ UNCHANGED <<offset, dead, tableVars, nextId, lock, pc, job, newId>>
    BY DEF Evict, Refetch, Live
  <1>3. TopicOf(w) \in Topics
    BY <1>1, <1>2, JobFacts DEF Live, TopicOf
  <1>4. /\ position' \in [Topics -> Nat]
        /\ position'[TopicOf(w)] = offset[TopicOf(w)]
        /\ \A u \in Topics : u # TopicOf(w) => position'[u] = position[u]
    BY <1>1, <1>2, <1>3 DEF Typed
  <1>5. /\ evicted' \in [Workers -> BOOLEAN] /\ ~Live(w)'
        /\ \A v \in Workers \ {w} : evicted'[v] = evicted[v] /\ (Live(v)' <=> Live(v))
    BY <1>1, <1>2 DEF Typed, TypeOK, Live
  <1>6. Logged' = Logged /\ RanksAreDense' /\ RowFollows'
    BY <1>2, TableAside
  <1>7. Typed'
    <2>1. \A u \in Topics : offset[u] <= position'[u] /\ position'[u] <= Len(Log[u])
      <3> SUFFICES ASSUME NEW u \in Topics
                   PROVE  offset[u] <= position'[u] /\ position'[u] <= Len(Log[u])
        OBVIOUS
      <3>1. /\ offset[u] \in Nat /\ position[u] \in Nat
            /\ offset[u] <= position[u] /\ position[u] <= Len(Log[u])
            /\ offset[u] <= Len(Log[u])
        BY <1>1 DEF Typed, TypeOK
      <3>2. position'[u] = position[u] \/ position'[u] = offset[u]
        BY <1>4
      <3> QED
        BY <3>1, <3>2
    <2>2. evictions' \in Nat
      BY <1>1, <1>2 DEF Typed
    <2> QED
      BY <1>1, <1>2, <1>4, <1>5, <2>1, <2>2 DEF Typed, TypeOK, tableVars
  <1>8. OwnersAgree'
    <2>1. \A u, v \in Workers : Live(u)' /\ Live(v)' /\ job[u][1] = job[v][1] => u = v
      BY <1>5 DEF IInv, OwnersAgree, TopicOf
    <2>2. ASSUME NEW v \in Workers, Live(v)'
          PROVE  position'[job[v][1]] = job[v][2] /\ offset[job[v][1]] + 1 = job[v][2]
      <3>1. v # w /\ Live(v)
        BY <1>5, <2>2
      <3>2. TopicOf(v) \in Topics /\ TopicOf(v) # TopicOf(w)
        BY <1>1, <1>2, <3>1, JobFacts DEF Live, TopicOf, IInv, OwnersAgree
      <3> QED
        BY <1>4, <3>1, <3>2 DEF IInv, OwnersAgree, TopicOf
    <2>3. ASSUME NEW u \in Topics, \A v \in Workers : Live(v)' => job[v][1] # u
          PROVE  position'[u] = offset[u]
      <3>1. CASE u = TopicOf(w)
        BY <1>4, <3>1
      <3>2. CASE u # TopicOf(w)
        <4>1. \A v \in Workers : Live(v) => TopicOf(v) # u
          BY <1>5, <2>3, <3>2 DEF TopicOf
        <4> QED
          BY <1>4, <3>2, <4>1 DEF IInv, OwnersAgree
      <3> QED
        BY <3>1, <3>2
    <2>4. \A v \in Workers : pc[v] = "idle" => ~evicted'[v]
      BY <1>2, <1>5 DEF IInv, OwnersAgree, Live
    <2> QED
      BY <1>2, <2>1, <2>2, <2>3, <2>4 DEF OwnersAgree, TopicOf
  <1>9. LockHeld'
    BY <1>2 DEF IInv, LockHeld, Event
  <1>10. AppendsNew'
    BY <1>2, <1>6 DEF IInv, AppendsNew, tableVars
  <1>11. EarlierLogged'
    BY <1>2, <1>6 DEF IInv, EarlierLogged, TopicOf
  <1>12. OffsetsAreProjected'
    BY <1>2, <1>6 DEF IInv, OffsetsAreProjected
  <1>13. NewestLast'
    <2>1. evictions' # 0
      BY <1>1, <1>2 DEF Typed
    <2> QED
      BY <2>1 DEF NewestLast
  <1> QED
    BY <1>6, <1>7, <1>8, <1>9, <1>10, <1>11, <1>12, <1>13 DEF IInv

-----------------------------------------------------------------------------
(* The commit. *)

(* Ranks are numbers, and an event's is below the number of events. *)
LEMMA RankFacts ==
  ASSUME RanksAreDense
  PROVE  /\ IsFiniteSet(Ids) /\ Cardinality(Ids) \in Nat
         /\ \A e \in events : Rank(e) \in Nat /\ Rank(e) < Cardinality(Ids)
  <1>1. IsFiniteSet(Ids) /\ Cardinality(Ids) \in Nat
    BY FS_CardinalityType DEF RanksAreDense
  <1>2. ASSUME NEW e \in events
        PROVE  Rank(e) \in Nat /\ Rank(e) < Cardinality(Ids)
    <2>1. {j \in Ids : j < e.id} \subseteq Ids
      OBVIOUS
    <2>2. Rank(e) \in Nat
      BY <1>1, <2>1, FS_Subset, FS_CardinalityType DEF Rank
    <2>3. Rank(e) + 1 \in 1 .. Cardinality(Ids)
      BY DEF RanksAreDense
    <2> QED
      BY <1>1, <2>2, <2>3
  <1> QED
    BY <1>1, <1>2

(* An event with an id above all others is the last in their order. *)
LEMMA NewIsLast ==
  ASSUME RanksAreDense, \A f \in events : f.id \in Nat,
         NEW n \in Nat, \A f \in events : f.id < n,
         NEW m, events' = events \union {[id |-> n, msg |-> m]}
  PROVE  /\ Ids' = Ids \union {n} /\ Cardinality(Ids') = Cardinality(Ids) + 1
         /\ \A f \in events : Rank(f)' = Rank(f)
         /\ Rank([id |-> n, msg |-> m])' = Cardinality(Ids)
         /\ RanksAreDense'
  <1> DEFINE new == [id |-> n, msg |-> m]
  <1>1. new.id = n
    OBVIOUS
  <1>2. Ids' = Ids \union {n}
    BY <1>1 DEF Ids
  <1>3. n \notin Ids /\ \A j \in Ids : j \in Nat /\ j < n
    BY DEF Ids
  <1>4. IsFiniteSet(Ids) /\ Cardinality(Ids) \in Nat
        /\ \A f \in events : Rank(f) \in Nat /\ Rank(f) < Cardinality(Ids)
    BY RankFacts
  <1>5. IsFiniteSet(Ids') /\ Cardinality(Ids') = Cardinality(Ids) + 1
    BY <1>2, <1>3, <1>4, FS_AddElement
  <1>6. ASSUME NEW f \in events
        PROVE  Rank(f)' = Rank(f)
    <2>1. f.id < n /\ f.id \in Nat
      OBVIOUS
    <2>2. {j \in Ids' : j < f.id} = {j \in Ids : j < f.id}
      BY <1>2, <1>3, <2>1
    <2> QED
      BY <2>2 DEF Rank
  <1>7. Rank(new)' = Cardinality(Ids)
    <2>1. {j \in Ids' : j < n} = Ids
      BY <1>2, <1>3
    <2> QED
      BY <1>1, <2>1 DEF Rank
  <1> HIDE DEF new
  <1>8. events' = events \union {new}
    BY DEF new
  <1>9. \A f \in events' : Rank(f)' + 1 \in 1 .. Cardinality(Ids')
    BY <1>4, <1>5, <1>6, <1>7, <1>8
  <1>10. ASSUME NEW i \in 1 .. Cardinality(Ids')
         PROVE  \E f \in events' : Rank(f)' = i - 1
    <2>1. CASE i \in 1 .. Cardinality(Ids)
      BY <1>6, <1>8, <2>1 DEF RanksAreDense
    <2>2. CASE i = Cardinality(Ids) + 1
      BY <1>4, <1>7, <1>8, <2>2
    <2> QED
      BY <1>4, <1>5, <2>1, <2>2
  <1>11. \A e, f \in events' : Rank(e)' = Rank(f)' => e = f
    BY <1>4, <1>6, <1>7, <1>8 DEF RanksAreDense
  <1>12. RanksAreDense'
    BY <1>5, <1>9, <1>10, <1>11 DEF RanksAreDense
  <1> QED
    BY <1>2, <1>5, <1>6, <1>7, <1>12 DEF new

(* Who commits is alone: every other transaction with an id of its own would *)
(* hold the lock too.                                                        *)
LEMMA CommitsAlone ==
  ASSUME IInv, NEW w \in Workers, pc[w] = "commit"
  PROVE  /\ lock = w /\ job[w] \in Known
         /\ \A v \in Workers \ {w} : pc[v] # "commit" /\ newId[v] = 0
         /\ \A v \in Workers \ {w} : pc[v] = "append" => ~Event(job[v]).known
  <1>1. job[w] \in Messages
    BY JobFacts DEF IInv
  <1> QED
    BY <1>1 DEF IInv, LockHeld, AppendsNew, Known

(* What a commit does to the table, and to its order. *)
LEMMA CommitFacts ==
  ASSUME IInv, NEW w \in Workers, CommitTransaction(w)
  PROVE  /\ Logged' = Logged \union {job[w]}
         /\ RanksAreDense'
         /\ newId[w] = 0 => events' = events /\ job[w] \in Logged
         /\ newId[w] # 0 =>
              /\ events' = events \union {[id |-> newId[w], msg |-> job[w]]}
              /\ job[w] \notin Logged
              /\ newId[w] \in 1 .. nextId - 1
              /\ \A e \in events : e.id \in Nat /\ e.id < newId[w]
  <1>1. Typed /\ pc[w] = "commit"
    BY DEF IInv, CommitTransaction
  <1>2. newId[w] \in 0 .. nextId - 1 /\ nextId \in Nat
    BY <1>1 DEF Typed, TypeOK
  <1>3. \A e \in events : e.id \in Nat
    BY <1>1 DEF Typed, TypeOK
  <1>4. CASE newId[w] = 0
    <2>1. events' = events /\ job[w] \in Logged
      BY <1>1, <1>4 DEF CommitTransaction, IInv, AppendsNew
    <2>2. Logged' = Logged \union {job[w]} /\ Ids' = Ids /\ \A e : Rank(e)' = Rank(e)
      BY <2>1 DEF Logged, Ids, Rank
    <2>3. RanksAreDense'
      BY <2>1, <2>2 DEF IInv, RanksAreDense
    <2> QED
      BY <1>4, <2>1, <2>2, <2>3
  <1>5. CASE newId[w] # 0
    <2>1. events' = events \union {[id |-> newId[w], msg |-> job[w]]}
      BY <1>5 DEF CommitTransaction
    <2>2. job[w] \notin Logged /\ \A e \in events : e.id < newId[w]
      BY <1>5 DEF IInv, AppendsNew
    <2>3. newId[w] \in Nat /\ newId[w] \in 1 .. nextId - 1
      BY <1>2, <1>5
    <2>4. RanksAreDense'
      BY <1>3, <2>1, <2>2, <2>3, NewIsLast DEF IInv
    <2>5. Logged' = Logged \union {job[w]}
      <3>1. PICK new : new = [id |-> newId[w], msg |-> job[w]]
        OBVIOUS
      <3>2. events' = events \union {new} /\ new.msg = job[w]
        BY <2>1, <3>1
      <3> QED
        BY <3>2 DEF Logged
    <2> QED
      BY <1>3, <1>5, <2>1, <2>2, <2>3, <2>4, <2>5
  <1> QED
    BY <1>4, <1>5

(* The commit: rows and event together. *)
LEMMA CommitTransactionKeeps ==
  ASSUME IInv, NEW w \in Workers, CommitTransaction(w)
  PROVE  IInv'
  <1> DEFINE m == job[w]
             e == Event(m)
  <1>1. Typed
    BY DEF IInv
  <1>2. /\ pc[w] = "commit"
        /\ status' = e.state
        /\ columns' = columns \union e.fields
        /\ outcome' = IF e.rendition = NoRendition THEN outcome
                      ELSE [outcome EXCEPT ![e.rendition] = Outcome(e)]
        /\ lock' = NoWorker
        /\ newId' = [newId EXCEPT ![w] = 0]
        /\ pc' = [pc EXCEPT ![w] = "offset"]
        /\ UNCHANGED <<kafkaVars, nextId, job, evicted, budgetVars>>
    BY DEF CommitTransaction
  <1>3. /\ pc' \in [Workers -> {"idle", "update", "append", "commit", "offset"}]
        /\ \A v \in Workers : pc'[v] = "idle" <=> job'[v] = Nothing
        /\ pc'[w] = "offset"
        /\ \A v \in Workers \ {w} : pc'[v] = pc[v]
        /\ \A v \in Workers : Live(v)' <=> Live(v)
    BY <1>1, <1>2, GotoFacts
  <1>4. /\ lock = w /\ m \in Known /\ m \in Messages
        /\ \A v \in Workers \ {w} : pc[v] # "commit" /\ newId[v] = 0
        /\ \A v \in Workers \ {w} : pc[v] = "append" => ~Event(job[v]).known
    BY <1>2, CommitsAlone DEF Known
  <1>5. /\ Logged' = Logged \union {m}
        /\ RanksAreDense'
        /\ newId[w] = 0 => events' = events /\ m \in Logged
        /\ newId[w] # 0 =>
             /\ events' = events \union {[id |-> newId[w], msg |-> m]}
             /\ m \notin Logged
             /\ newId[w] \in 1 .. nextId - 1
             /\ \A f \in events : f.id \in Nat /\ f.id < newId[w]
    BY CommitFacts
  <1>6. /\ e.state \in States /\ e.fields \subseteq Fields
        /\ e.rendition \in Renditions \union {NoRendition}
        /\ Outcome(e) \in Outcomes \ {"none"}
    BY <1>4, EventFacts
  <1> HIDE DEF m, e
  <1>7. newId' = [v \in Workers |-> 0]
    BY <1>1, <1>2, <1>4 DEF Typed, TypeOK
  <1>8. /\ outcome' \in [Renditions -> Outcomes]
        /\ e.rendition # NoRendition => outcome'[e.rendition] = Outcome(e)
        /\ \A r \in Renditions : outcome[r] # "none" => outcome'[r] # "none"
    BY <1>1, <1>2, <1>6 DEF Typed, TypeOK
  <1>9. Typed'
    <2>1. events' \subseteq [id : 1 .. nextId - 1, msg : Known]
      <3>1. events \subseteq [id : 1 .. nextId - 1, msg : Known]
        BY <1>1 DEF Typed, TypeOK
      <3> QED
        BY <1>4, <1>5, <3>1
    <2>2. newId' \in [Workers -> 0 .. nextId - 1]
      BY <1>1, <1>7 DEF Typed
    <2> QED
      BY <1>1, <1>2, <1>3, <1>6, <1>8, <2>1, <2>2 DEF Typed, TypeOK, kafkaVars, budgetVars
  <1>10. OwnersAgree'
    BY <1>2, <1>3 DEF IInv, OwnersAgree, TopicOf, kafkaVars
  <1>11. LockHeld'
    BY <1>2, <1>3, <1>4 DEF IInv, LockHeld, Event
  <1>12. AppendsNew'
    BY <1>2, <1>3, <1>4, <1>5, <1>7 DEF IInv, AppendsNew, kafkaVars, m
  <1>13. EarlierLogged'
    BY <1>2, <1>3, <1>5 DEF IInv, EarlierLogged, TopicOf
  <1>14. OffsetsAreProjected'
    BY <1>2, <1>5 DEF IInv, OffsetsAreProjected, kafkaVars
  <1>15. RowFollows'
    <2>1. columns' = UNION {Event(n).fields : n \in Logged'}
      BY <1>2, <1>5 DEF IInv, RowFollows, e
    <2>2. \A n \in Logged' : Event(n).rendition # NoRendition =>
            outcome'[Event(n).rendition] # "none"
      <3>1. \A n \in Logged : Event(n).rendition \in Renditions \union {NoRendition}
        BY <1>1, EventFacts DEF Typed, TypeOK, Logged, Known
      <3> QED
        BY <1>5, <1>6, <1>8, <3>1 DEF IInv, RowFollows, e
    <2> QED
      BY <2>1, <2>2 DEF RowFollows, Event
  <1>16. NewestLast'
    <2> SUFFICES ASSUME evictions = 0
                 PROVE  NewestLast'
      BY <1>2 DEF NewestLast, budgetVars
    <2>1. Live(w) /\ \A v \in Workers : ~evicted[v]
      BY <1>2 DEF IInv, NewestLast, Live
    <2>2. m[2] = offset[m[1]] + 1
      BY <2>1, OwnerFacts DEF m, TopicOf
    <2>3. \A n \in Logged' : n[2] <= offset[n[1]] + 1
      <3>1. m[2] <= offset[m[1]] + 1
        BY <1>4, <2>2, MessageFacts
      <3> QED
        BY <1>5, <3>1 DEF IInv, NewestLast
    <2>4. \A n \in Logged' : n[1] = m[1] => n[2] <= m[2]
      BY <2>2, <2>3
    <2>5. m \in Logged' /\ status' = Event(m).state
      BY <1>2, <1>5 DEF e
    <2> QED
      BY <1>2, <2>1, <2>3, <2>4, <2>5 DEF NewestLast, kafkaVars, Event
  <1> QED
    BY <1>5, <1>9, <1>10, <1>11, <1>12, <1>13, <1>14, <1>15, <1>16 DEF IInv

-----------------------------------------------------------------------------
(* The invariant holds. *)

(* Before the first message. *)
LEMMA InitEstablishes == Init => IInv
  <1> SUFFICES ASSUME Init
               PROVE  IInv
    OBVIOUS
  <1> USE DEF Init
  <1>1. Logged = {} /\ Ids = {} /\ events = {}
    BY DEF Logged, Ids
  <1>2. \A t \in Topics : Len(Log[t]) \in Nat
    BY StatusEventsAssumption
  <1>3. Typed
    BY <1>2 DEF Typed, TypeOK, States, Outcomes
  <1>4. RanksAreDense
    <2>1. IsFiniteSet(Ids) /\ Cardinality(Ids) = 0
      BY <1>1, FS_EmptySet
    <2> QED
      BY <1>1, <2>1 DEF RanksAreDense
  <1>5. OwnersAgree /\ LockHeld /\ AppendsNew /\ EarlierLogged
    BY DEF OwnersAgree, LockHeld, AppendsNew, EarlierLogged, Live
  <1>6. OffsetsAreProjected
    BY MessageFacts DEF OffsetsAreProjected
  <1>7. RowFollows /\ NewestLast
    BY <1>1 DEF RowFollows, NewestLast
  <1> QED
    BY <1>3, <1>4, <1>5, <1>6, <1>7 DEF IInv

(* Every step, and a stutter. *)
LEMMA NextKeeps == IInv /\ [ProjectorNext]_projectorVars => IInv'
  <1> SUFFICES ASSUME IInv, [ProjectorNext]_projectorVars
               PROVE  IInv'
    OBVIOUS
  <1>1. ASSUME NEW w \in Workers, NEW t \in Topics, Take(w, t)
        PROVE  IInv'
    BY <1>1, TakeKeeps
  <1>2. ASSUME NEW w \in Workers, Project(w)
        PROVE  IInv'
    BY <1>2, UpdateVideoKeeps, AppendEventKeeps, ViolateConstraintKeeps,
       CommitTransactionKeeps, CommitOffsetKeeps DEF Project
  <1>3. ASSUME NEW w \in Workers, Crash(w) \/ Evict(w)
        PROVE  IInv'
    BY <1>3, CrashKeeps, EvictKeeps
  <1>4. CASE UNCHANGED projectorVars
    <2>1. UNCHANGED <<offset, position, dead, status, columns, outcome, events, nextId, lock,
                      pc, job, evicted, newId, crashes, evictions>>
      BY <1>4 DEF projectorVars, kafkaVars, tableVars, workerVars, budgetVars
    <2>2. Logged' = Logged /\ RanksAreDense' /\ RowFollows'
      BY <1>1, <2>1, TableAside DEF tableVars
    <2>3. Typed'
      BY <2>1 DEF IInv, Typed, TypeOK
    <2>4. OwnersAgree' /\ LockHeld'
      BY <2>1 DEF IInv, OwnersAgree, LockHeld, Live, TopicOf, Event
    <2>5. AppendsNew' /\ EarlierLogged' /\ OffsetsAreProjected'
      BY <2>1, <2>2 DEF IInv, AppendsNew, EarlierLogged, OffsetsAreProjected, TopicOf
    <2>6. NewestLast'
      BY <2>1, <2>2 DEF IInv, NewestLast, Event
    <2> QED
      BY <2>2, <2>3, <2>4, <2>5, <2>6 DEF IInv
  <1> QED
    BY <1>1, <1>2, <1>3, <1>4 DEF ProjectorNext

(* In every reachable state. *)
THEOREM Invariant == Spec => []IInv
  BY InitEstablishes, NextKeeps, PTL DEF Spec

(* The variables keep their types. *)
THEOREM TypeCorrect == Spec => []TypeOK
  <1>1. IInv => TypeOK
    BY DEF IInv, Typed
  <1> QED
    BY <1>1, Invariant, PTL

(* A committed offset covers only messages that are projected or on the DLQ: *)
(* the commit of the transaction precedes the offset's in the handler and    *)
(* the loop, and a partition's new owner starts over at the offset.          *)
THEOREM OffsetsAreProjectedTheorem == Spec => []OffsetsAreProjected
  <1>1. IInv => OffsetsAreProjected
    BY DEF IInv
  <1> QED
    BY <1>1, Invariant, PTL

(* Without evictions, however often a worker crashes and replays: when all   *)
(* was delivered the row says what one topic said last, and has every column *)
(* and rendition that any event wrote.                                       *)
THEOREM RowReflectsLogsTheorem == Spec => []RowReflectsLogs
  <1>1. ASSUME IInv
        PROVE  RowReflectsLogs
    <2> SUFFICES ASSUME Quiet, evictions = 0, Known # {}
                 PROVE  /\ \E t \in Topics : \E i \in Last(t) : status = Log[t][i].state
                        /\ columns = UNION {Event(m).fields : m \in Known}
                        /\ \A m \in Known : Event(m).rendition # NoRendition =>
                             outcome[Event(m).rendition] # "none"
      BY DEF RowReflectsLogs
    <2>1. Logged \subseteq Known /\ dead \intersect Known = {}
      BY <1>1 DEF IInv, Typed, TypeOK, Logged
    <2>2. Known \subseteq Logged
      <3>1. ASSUME NEW m \in Known
            PROVE  m \in Logged
        <4>1. m \in Messages /\ m[1] \in Topics /\ m[2] <= Len(Log[m[1]])
          BY MessageFacts DEF Known
        <4>2. m[2] <= offset[m[1]]
          BY <4>1 DEF Quiet
        <4> QED
          BY <1>1, <2>1, <4>1, <4>2 DEF IInv, OffsetsAreProjected
      <3> QED
        BY <3>1
    <2>3. Logged = Known
      BY <2>1, <2>2
    <2>4. PICK m \in Logged : /\ status = Event(m).state
                              /\ \A n \in Logged : n[1] = m[1] => n[2] <= m[2]
      BY <1>1, <2>3 DEF IInv, NewestLast
    <2>5. m[2] \in Last(m[1]) /\ m[1] \in Topics
      <3>1. m \in Messages /\ m[1] \in Topics /\ m = <<m[1], m[2]>> /\ m[2] \in DOMAIN Log[m[1]]
        BY <2>3, MessageFacts DEF Known
      <3>2. \A j \in DOMAIN Log[m[1]] : <<m[1], j>> \in Known => j <= m[2]
        BY <2>3, <2>4
      <3> QED
        BY <2>3, <3>1, <3>2 DEF Last
    <2>6. status = Log[m[1]][m[2]].state
      BY <2>4 DEF Event
    <2> QED
      BY <1>1, <2>3, <2>5, <2>6 DEF IInv, RowFollows
  <1> QED
    BY <1>1, Invariant, PTL

(* Ids appear in order: the row's lock is held from before the id is drawn   *)
(* until the commit, so whoever commits has the highest id of all.           *)
THEOREM IdsAppearInOrderTheorem == Spec => IdsAppearInOrder
  <1>1. ASSUME IInv, [ProjectorNext]_projectorVars
        PROVE  [\A e \in events' \ events : \A f \in events : f.id < e.id]_projectorVars
    <2>1. ASSUME NEW w \in Workers, CommitTransaction(w)
          PROVE  \A e \in events' \ events : \A f \in events : f.id < e.id
      BY <1>1, <2>1, CommitFacts
    <2>2. CASE \A w \in Workers : ~CommitTransaction(w)
      BY <1>1, <2>2 DEF ProjectorNext, Take, Project, UpdateVideo, AppendEvent,
         ViolateConstraint, CommitOffset, Crash, Evict, tableVars, projectorVars
    <2> QED
      BY <2>1, <2>2
  <1> QED
    BY <1>1, Invariant, PTL DEF Spec, IdsAppearInOrder

-----------------------------------------------------------------------------
(* The refinement: the log in the order of its ids grows at its end. *)

(* What the log in order is made of. *)
LogIsOfEvents ==
  /\ DOMAIN LogInOrder = 1 .. Cardinality(Ids)
  /\ LogInOrder = [i \in 1 .. Cardinality(Ids) |-> LogInOrder[i]]
  /\ \A e \in events : LogInOrder[Rank(e) + 1] = e.msg

(* Dense ranks make the event with a rank the only one. *)
LEMMA LogFacts == RanksAreDense => LogIsOfEvents
  <1> SUFFICES ASSUME RanksAreDense
               PROVE  LogIsOfEvents
    OBVIOUS
  <1> DEFINE nth(i) == CHOOSE e \in events : Rank(e) = i - 1
  <1>1. LogInOrder = [i \in 1 .. Cardinality(Ids) |-> nth(i).msg]
    BY DEF LogInOrder, Ids, Rank
  <1>2. ASSUME NEW e \in events
        PROVE  LogInOrder[Rank(e) + 1] = e.msg
    <2>1. Rank(e) \in Nat /\ Rank(e) + 1 \in 1 .. Cardinality(Ids)
      BY RankFacts DEF RanksAreDense
    <2>2. Rank(e) = (Rank(e) + 1) - 1
      BY <2>1
    <2>3. nth(Rank(e) + 1) = e
      BY <2>2 DEF RanksAreDense
    <2> HIDE DEF nth
    <2> QED
      BY <1>1, <2>1, <2>3
  <1> HIDE DEF nth
  <1> QED
    BY <1>1, <1>2 DEF LogIsOfEvents

(* The same of the next state. *)
LEMMA LogFactsNext == RanksAreDense' => LogIsOfEvents'
  BY LogFacts, PTL

(* The abstract log holds what the table holds. *)
LEMMA EntriesAreLogged ==
  ASSUME RanksAreDense
  PROVE  {LogInOrder[i] : i \in DOMAIN LogInOrder} = Logged
  <1>1. LogIsOfEvents
    BY LogFacts
  <1>2. ASSUME NEW i \in 1 .. Cardinality(Ids)
        PROVE  LogInOrder[i] \in Logged
    <2>1. PICK e \in events : Rank(e) = i - 1
      BY DEF RanksAreDense
    <2>2. Rank(e) + 1 = i
      BY <2>1
    <2> QED
      BY <1>1, <2>2 DEF LogIsOfEvents, Logged
  <1>3. ASSUME NEW e \in events
        PROVE  e.msg \in {LogInOrder[i] : i \in DOMAIN LogInOrder}
    BY <1>1 DEF LogIsOfEvents, RanksAreDense
  <1> QED
    BY <1>1, <1>2, <1>3 DEF LogIsOfEvents, Logged

(* A commit with an id of its own appends to the abstract log. *)
LEMMA LogGrowsAtItsEnd ==
  ASSUME RanksAreDense, \A f \in events : f.id \in Nat,
         NEW n \in Nat, \A f \in events : f.id < n,
         NEW m, events' = events \union {[id |-> n, msg |-> m]}
  PROVE  LogInOrder' = Append(LogInOrder, m)
  <1>1. PICK new : new = [id |-> n, msg |-> m]
    OBVIOUS
  <1>2. new.msg = m /\ events' = events \union {new}
    BY <1>1
  <1>3. /\ Cardinality(Ids') = Cardinality(Ids) + 1
        /\ \A f \in events : Rank(f)' = Rank(f)
        /\ Rank(new)' = Cardinality(Ids)
        /\ RanksAreDense'
    BY <1>1, NewIsLast
  <1>4. LogIsOfEvents /\ LogIsOfEvents'
    BY <1>3, LogFacts, LogFactsNext
  <1>5. Cardinality(Ids) \in Nat
    BY RankFacts
  <1>6. LogInOrder'[Cardinality(Ids) + 1] = m
    BY <1>2, <1>3, <1>4 DEF LogIsOfEvents
  <1>7. ASSUME NEW i \in 1 .. Cardinality(Ids)
        PROVE  LogInOrder'[i] = LogInOrder[i]
    <2>1. PICK e \in events : Rank(e) = i - 1
      BY DEF RanksAreDense
    <2>2. Rank(e) + 1 = i /\ Rank(e)' + 1 = i /\ e \in events'
      BY <1>2, <1>3, <2>1
    <2> QED
      BY <1>4, <2>2 DEF LogIsOfEvents
  <1> QED
    BY <1>3, <1>4, <1>5, <1>6, <1>7 DEF LogIsOfEvents

(* The abstract variables, which only a commit moves. *)
abstractVars == <<status, outcome, LogInOrder>>

(* Whatever leaves the tables alone leaves the abstract state alone. *)
LEMMA TablesStutter ==
  ASSUME UNCHANGED tableVars
  PROVE  UNCHANGED abstractVars
  <1>1. status' = status /\ outcome' = outcome /\ events' = events
    BY DEF tableVars
  <1>2. LogInOrder' = LogInOrder
    BY <1>1 DEF LogInOrder
  <1> QED
    BY <1>1, <1>2 DEF abstractVars

(* A commit is an Apply of its event, or a Reapply of one delivered before. *)
LEMMA CommitImplements ==
  ASSUME IInv, NEW w \in Workers, CommitTransaction(w)
  PROVE  RM!ReadModelNext
  <1> DEFINE m == job[w]
             e == Event(m)
  <1>1. RanksAreDense /\ Typed /\ pc[w] = "commit"
    BY DEF IInv, CommitTransaction
  <1>2. m \in Known /\ m \in Messages
    BY <1>1, CommitsAlone DEF Known
  <1>3. RM!Entries = Logged
    BY <1>1, EntriesAreLogged DEF RM!Entries
  <1>4. /\ newId[w] = 0 => events' = events /\ m \in Logged
        /\ newId[w] # 0 =>
             /\ events' = events \union {[id |-> newId[w], msg |-> m]}
             /\ m \notin Logged
             /\ newId[w] \in Nat
             /\ \A f \in events : f.id \in Nat /\ f.id < newId[w]
    BY CommitFacts, <1>1 DEF Typed
  <1>5. m \in RM!Known /\ m \in RM!Messages
    BY <1>2 DEF Known, Messages, Event, Topics,
       RM!Known, RM!Messages, RM!Event, RM!Topics
  <1>6. RM!WriteRows(RM!Event(m))
    BY DEF CommitTransaction, RM!WriteRows, RM!Event, Event, RM!Outcome, Outcome
  <1>7. RM!Earlier(m) \subseteq Logged
    <2>1. RM!Known = Known
      BY DEF Known, Messages, Event, Topics, RM!Known, RM!Messages, RM!Event, RM!Topics
    <2> QED
      BY <1>1, <2>1 DEF RM!Earlier, IInv, EarlierLogged, TopicOf
  <1> HIDE DEF m
  <1>8. CASE newId[w] = 0
    <2>1. LogInOrder' = LogInOrder
      BY <1>4, <1>8 DEF LogInOrder
    <2>2. RM!Reapply(m)
      BY <1>3, <1>4, <1>6, <1>8, <2>1 DEF RM!Reapply
    <2> QED
      BY <1>5, <2>2 DEF RM!ReadModelNext
  <1>9. CASE newId[w] # 0
    <2>1. LogInOrder' = Append(LogInOrder, m)
      BY <1>1, <1>4, <1>9, LogGrowsAtItsEnd
    <2>2. RM!Apply(m)
      BY <1>3, <1>4, <1>5, <1>6, <1>7, <1>9, <2>1 DEF RM!Apply
    <2> QED
      BY <1>5, <2>2 DEF RM!ReadModelNext
  <1> QED
    BY <1>8, <1>9

(* The group implements the read model: a commit appends its event to the    *)
(* log in order, or applies again what is in it; nothing else moves what a   *)
(* reader sees.                                                              *)
THEOREM ImplementsReadModelTheorem == Spec => ImplementsReadModel
  <1>1. ASSUME Init
        PROVE  RM!ReadModelInit
    <2>1. events = {}
      BY <1>1 DEF Init
    <2>2. Ids = {} /\ Cardinality(Ids) = 0
      BY <2>1, FS_EmptySet DEF Ids
    <2>3. RanksAreDense
      BY <1>1, InitEstablishes DEF IInv
    <2>4. LogInOrder = <<>>
      BY <2>2, <2>3, LogFacts DEF LogIsOfEvents
    <2> QED
      BY <1>1, <2>4 DEF Init, RM!ReadModelInit
  <1>2. ASSUME IInv, [ProjectorNext]_projectorVars
        PROVE  [RM!ReadModelNext]_(RM!readModelVars)
    <2>1. CASE \E w \in Workers : CommitTransaction(w)
      BY <1>2, <2>1, CommitImplements
    <2>2. CASE ~\E w \in Workers : CommitTransaction(w)
      <3>1. UNCHANGED tableVars
        BY <1>2, <2>2 DEF ProjectorNext, Take, Project, UpdateVideo, AppendEvent,
           ViolateConstraint, CommitOffset, Crash, Evict, projectorVars
      <3> QED
        BY <3>1, TablesStutter DEF abstractVars, RM!readModelVars
    <2> QED
      BY <2>1, <2>2
  <1> QED
    BY <1>1, <1>2, Invariant, PTL DEF Spec, ImplementsReadModel, RM!ReadModelSpec

=============================================================================
