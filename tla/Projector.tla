----------------------------- MODULE Projector -----------------------------
(***************************************************************************)
(* The read model of one video and the projector group that writes it:     *)
(* services/projector/main.py, ProjectorRepository in repository.py.       *)
(*                                                                         *)
(* Two topics, video.status and pipeline.failed, each with one partition   *)
(* for this video, so two members of the group can be at work on the same  *)
(* video.  A handler is one transaction: update the video's row, upsert    *)
(* the rendition's, append to the events log; then the offset is           *)
(* committed.  The statements of a transaction are steps.  Postgres runs   *)
(* READ COMMITTED: an updated row stays locked until the transaction ends, *)
(* a sequence hands its numbers out at once and never takes one back.      *)
(*                                                                         *)
(* The consumer loop is StageWorker's; of it this module keeps offsets,    *)
(* eviction and crash.                                                     *)
(***************************************************************************)
EXTENDS StatusEvents

CONSTANTS
  Workers,       \* members of the projector group
  NoWorker,
  MaxCrashes,
  MaxEvictions

ASSUME ProjectorAssumption ==
  NoWorker \notin Workers /\ MaxCrashes \in Nat /\ MaxEvictions \in Nat

VARIABLES
  \* Kafka
  offset,     \* per topic, how many messages are committed
  position,   \* per topic, how many the partition's owner has fetched
  dead,       \* messages on a DLQ
  \* Postgres
  status,     \* videos.status
  columns,    \* the optional columns that are set
  outcome,    \* renditions.status
  events,     \* the events table: committed rows, an id and a message each
  nextId,     \* its sequence
  lock,       \* the transaction that holds the lock on the videos row
  \* each worker
  pc, job,
  newId,      \* the id of the row its transaction has appended, or 0
  evicted,    \* its partition went to another worker meanwhile
  crashes, evictions

kafkaVars  == <<offset, position, dead>>
tableVars  == <<status, columns, outcome, events>>
workerVars == <<pc, job, evicted>>
budgetVars == <<crashes, evictions>>
projectorVars ==
  <<kafkaVars, tableVars, nextId, lock, workerVars, newId, budgetVars>>

Nothing == <<>>

TypeOK ==
  /\ \A t \in Topics : 0 <= offset[t] /\ offset[t] <= Len(Log[t])
  /\ \A t \in Topics : offset[t] <= position[t] /\ position[t] <= Len(Log[t])
  /\ dead \subseteq Messages \ Known
  /\ status \in States
  /\ columns \subseteq Fields
  /\ outcome \in [Renditions -> Outcomes]
  /\ events \subseteq [id : 1 .. nextId - 1, msg : Known]
  /\ lock \in Workers \union {NoWorker}
  /\ pc \in [Workers -> {"idle", "update", "append", "commit", "offset"}]
  /\ job \in [Workers -> Messages \union {Nothing}]
  /\ \A w \in Workers : pc[w] = "idle" <=> job[w] = Nothing
  /\ newId \in [Workers -> 0 .. nextId - 1]
  /\ evicted \in [Workers -> BOOLEAN]

(* The API has left the row at "uploaded". *)
Init ==
  /\ offset = [t \in Topics |-> 0] /\ position = [t \in Topics |-> 0]
  /\ dead = {}
  /\ status = "uploaded" /\ columns = {}
  /\ outcome = [r \in Renditions |-> "none"]
  /\ events = {} /\ nextId = 1 /\ lock = NoWorker
  /\ pc = [w \in Workers |-> "idle"]
  /\ job = [w \in Workers |-> Nothing]
  /\ newId = [w \in Workers |-> 0]
  /\ evicted = [w \in Workers |-> FALSE]
  /\ crashes = 0 /\ evictions = 0

-----------------------------------------------------------------------------
TopicOf(w) == job[w][1]

(* Mutant of Take: offsets are committed as messages are fetched. *)
TakeAndCommit(w, t) ==
  /\ pc[w] = "idle"
  /\ position[t] < Len(Log[t])
  /\ \A v \in Workers : pc[v] # "idle" /\ ~evicted[v] => TopicOf(v) # t
  /\ position' = [position EXCEPT ![t] = @ + 1]
  /\ offset' = position'
  /\ job' = [job EXCEPT ![w] = <<t, position[t] + 1>>]
  /\ pc' = [pc EXCEPT ![w] = "update"]
  /\ UNCHANGED <<dead, tableVars, nextId, lock, newId, evicted, budgetVars>>

Take(w, t) ==
  /\ pc[w] = "idle"
  /\ position[t] < Len(Log[t])
  /\ \A v \in Workers : pc[v] # "idle" /\ ~evicted[v] => TopicOf(v) # t
  /\ position' = [position EXCEPT ![t] = @ + 1]
  /\ job' = [job EXCEPT ![w] = <<t, position[t] + 1>>]
  /\ pc' = [pc EXCEPT ![w] = "update"]
  /\ UNCHANGED <<offset, dead, tableVars, nextId, lock, newId, evicted, budgetVars>>

(* Mutant of UpdateVideo: the update comes in a transaction of its own. *)
UpdateWithoutLock(w) ==
  /\ pc[w] = "update"
  /\ pc' = [pc EXCEPT ![w] = "append"]
  /\ UNCHANGED <<kafkaVars, tableVars, nextId, lock, job, newId, evicted, budgetVars>>

(* The first statement.  It waits for whoever has updated the row, and then  *)
(* locks it; without a row to update there is nothing to lock.  What it      *)
(* writes, and the rendition's row after it, shows at the commit.            *)
UpdateVideo(w) ==
  /\ pc[w] = "update"
  /\ IF Event(job[w]).known
       THEN lock = NoWorker /\ lock' = w
       ELSE UNCHANGED lock
  /\ pc' = [pc EXCEPT ![w] = "append"]
  /\ UNCHANGED <<kafkaVars, tableVars, nextId, job, newId, evicted, budgetVars>>

Logged == {e.msg : e \in events}

(* ON CONFLICT (event_id) DO NOTHING; the sequence has moved on even then. *)
AppendEvent(w) ==
  /\ pc[w] = "append" /\ Event(job[w]).known
  /\ newId' = [newId EXCEPT ![w] = IF job[w] \in Logged THEN 0 ELSE nextId]
  /\ nextId' = nextId + 1
  /\ pc' = [pc EXCEPT ![w] = "commit"]
  /\ UNCHANGED <<kafkaVars, tableVars, lock, job, evicted, budgetVars>>

(* A foreign key has no row to refer to: IntegrityError, rollback,           *)
(* TerminalError, and the loop dead-letters the message.                     *)
ViolateConstraint(w) ==
  /\ pc[w] = "append" /\ ~Event(job[w]).known
  /\ dead' = dead \union {job[w]}
  /\ nextId' = nextId + 1
  /\ pc' = [pc EXCEPT ![w] = "offset"]
  /\ UNCHANGED <<offset, position, tableVars, lock, job, newId, evicted, budgetVars>>

(* Mutant of CommitTransaction: columns an event says nothing of are cleared. *)
CommitClears(w) ==
  LET e == Event(job[w]) IN
  /\ pc[w] = "commit"
  /\ status' = e.state
  /\ columns' = e.fields
  /\ outcome' = IF e.rendition = NoRendition THEN outcome
                ELSE [outcome EXCEPT ![e.rendition] = Outcome(e)]
  /\ events' = IF newId[w] = 0 THEN events
               ELSE events \union {[id |-> newId[w], msg |-> job[w]]}
  /\ lock' = NoWorker
  /\ newId' = [newId EXCEPT ![w] = 0]
  /\ pc' = [pc EXCEPT ![w] = "offset"]
  /\ UNCHANGED <<kafkaVars, nextId, job, evicted, budgetVars>>

(* Mutant of CommitTransaction: a failure upserts the rendition's row as     *)
(* completed.                                                                *)
CommitCompleted(w) ==
  LET e == Event(job[w]) IN
  /\ pc[w] = "commit"
  /\ status' = e.state
  /\ columns' = columns \union e.fields
  /\ outcome' = IF e.rendition = NoRendition THEN outcome
                ELSE [outcome EXCEPT ![e.rendition] = "completed"]
  /\ events' = IF newId[w] = 0 THEN events
               ELSE events \union {[id |-> newId[w], msg |-> job[w]]}
  /\ lock' = NoWorker
  /\ newId' = [newId EXCEPT ![w] = 0]
  /\ pc' = [pc EXCEPT ![w] = "offset"]
  /\ UNCHANGED <<kafkaVars, nextId, job, evicted, budgetVars>>

(* _apply_status and _apply_failure take effect, with the appended event. *)
CommitTransaction(w) ==
  LET e == Event(job[w]) IN
  /\ pc[w] = "commit"
  /\ status' = e.state
  /\ columns' = columns \union e.fields
  /\ outcome' = IF e.rendition = NoRendition THEN outcome
                ELSE [outcome EXCEPT ![e.rendition] = Outcome(e)]
  /\ events' = IF newId[w] = 0 THEN events
               ELSE events \union {[id |-> newId[w], msg |-> job[w]]}
  /\ lock' = NoWorker
  /\ newId' = [newId EXCEPT ![w] = 0]
  /\ pc' = [pc EXCEPT ![w] = "offset"]
  /\ UNCHANGED <<kafkaVars, nextId, job, evicted, budgetVars>>

GoIdle(w) ==
  /\ pc' = [pc EXCEPT ![w] = "idle"]
  /\ job' = [job EXCEPT ![w] = Nothing]
  /\ evicted' = [evicted EXCEPT ![w] = FALSE]

(* A worker that is no member any more is refused. *)
CommitOffset(w) ==
  /\ pc[w] = "offset"
  /\ offset' = IF evicted[w] THEN offset
               ELSE [offset EXCEPT ![TopicOf(w)] = job[w][2]]
  /\ GoIdle(w)
  /\ UNCHANGED <<position, dead, tableVars, nextId, lock, newId, budgetVars>>

-----------------------------------------------------------------------------
Refetch(w) == position' = [position EXCEPT ![TopicOf(w)] = offset[TopicOf(w)]]

(* A kill, or any other database error: TRANSIENT, on a topic without a      *)
(* retry ladder.  The transaction is rolled back, the message read again.    *)
Crash(w) ==
  /\ pc[w] # "idle"
  /\ crashes < MaxCrashes /\ crashes' = crashes + 1
  /\ lock' = IF lock = w THEN NoWorker ELSE lock
  /\ newId' = [newId EXCEPT ![w] = 0]
  /\ IF evicted[w] THEN UNCHANGED position ELSE Refetch(w)
  /\ GoIdle(w)
  /\ UNCHANGED <<offset, dead, tableVars, nextId, evictions>>

(* The group gives the partition to another member; the handler goes on. *)
Evict(w) ==
  /\ pc[w] # "idle" /\ ~evicted[w]
  /\ evictions < MaxEvictions /\ evictions' = evictions + 1
  /\ evicted' = [evicted EXCEPT ![w] = TRUE]
  /\ Refetch(w)
  /\ UNCHANGED <<offset, dead, tableVars, nextId, lock, pc, job, newId, crashes>>

Project(w) ==
  \/ UpdateVideo(w) \/ AppendEvent(w) \/ ViolateConstraint(w)
  \/ CommitTransaction(w) \/ CommitOffset(w)

ProjectorNext ==
  \E w \in Workers :
    \/ \E t \in Topics : Take(w, t)
    \/ Project(w)
    \/ Crash(w)
    \/ Evict(w)

Spec == Init /\ [][ProjectorNext]_projectorVars

-----------------------------------------------------------------------------
(* The ids of a video's events are committed in the order they were handed   *)
(* out, whichever workers append them: a reader who has seen id n will never *)
(* see a smaller one appear (_apply_status and _apply_failure lock the row   *)
(* before _append_event draws the id).  Last-Event-ID relies on it.          *)
IdsAppearInOrder ==
  [][\A e \in events' \ events : \A f \in events : f.id < e.id]_projectorVars

(* The events in the order of their ids. *)
LogInOrder ==
  LET ids == {e.id : e \in events}
      nth(i) == CHOOSE e \in events :
                  Cardinality({j \in ids : j < e.id}) = i - 1
  IN  [i \in 1 .. Cardinality(ids) |-> nth(i).msg]

RM == INSTANCE ReadModel WITH log <- LogInOrder

(* The group, transaction by transaction, with its crashes, evictions and    *)
(* second deliveries, implements the read model: what a reader has seen of   *)
(* the log stays a prefix of it, an event is in it once however often it is  *)
(* delivered (ON CONFLICT), those of a topic come in their order, and the    *)
(* rows change only as an event says.                                *)
ImplementsReadModel == RM!ReadModelSpec

(* A committed offset covers only messages whose row update and event are    *)
(* committed, or that are on the DLQ (ADR-0007: "The offset is committed     *)
(* after the DB transaction commits").                                       *)
OffsetsAreProjected ==
  \A m \in Messages : m[2] <= offset[m[1]] => m \in Logged \union dead

(* Everything was delivered, nobody is at work. *)
Quiet ==
  /\ \A w \in Workers : pc[w] = "idle"
  /\ \A t \in Topics : offset[t] = Len(Log[t])

Last(t) == {i \in DOMAIN Log[t] : <<t, i>> \in Known
              /\ \A j \in DOMAIN Log[t] : <<t, j>> \in Known => j <= i}

(* Replaying is safe: when all was delivered, whatever was delivered twice   *)
(* on the way, the row says what one of the topics said last, has every      *)
(* column that any event has set and the outcome of every rendition          *)
(* ("Projector writes are upserts, so replaying a partition is safe",        *)
(* ADR-0007).  Stated without evictions: an evicted projector that commits   *)
(* late does put an old state over a newer one (_apply_status).              *)
RowReflectsLogs ==
  Quiet /\ evictions = 0 /\ Known # {} =>
    /\ \E t \in Topics : \E i \in Last(t) : status = Log[t][i].state
    /\ columns = UNION {Event(m).fields : m \in Known}
    /\ \A m \in Known : Event(m).rendition # NoRendition =>
         outcome[Event(m).rendition] # "none"
=============================================================================
