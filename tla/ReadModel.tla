----------------------------- MODULE ReadModel -----------------------------
(***************************************************************************)
(* What the readers of a video's rows may rely on: a row that says what    *)
(* some event said, and a log of events that only grows at its end, by     *)
(* each event once and by those of a topic in their order.  Projector      *)
(* implements it; SseStream is built on it.                                *)
(***************************************************************************)
EXTENDS StatusEvents

VARIABLES
  status,    \* videos.status
  outcome,   \* renditions.status
  log        \* the events rows in the order of their ids

readModelVars == <<status, outcome, log>>

Entries == {log[i] : i \in DOMAIN log}

ReadModelInit ==
  /\ status = "uploaded"
  /\ outcome = [r \in Renditions |-> "none"]
  /\ log = <<>>

(* The row and the rendition's row take what the event carries. *)
WriteRows(e) ==
  /\ status' = e.state
  /\ outcome' = IF e.rendition = NoRendition THEN outcome
                ELSE [outcome EXCEPT ![e.rendition] = Outcome(e)]

Earlier(m) == {n \in Known : n[1] = m[1] /\ n[2] < m[2]}

Apply(m) ==
  /\ m \in Known \ Entries /\ Earlier(m) \subseteq Entries
  /\ log' = Append(log, m)
  /\ WriteRows(Event(m))

(* A second delivery rewrites the rows, and is not logged again. *)
Reapply(m) ==
  /\ m \in Entries
  /\ WriteRows(Event(m))
  /\ UNCHANGED log

ReadModelNext == \E m \in Messages : Apply(m) \/ Reapply(m)

ReadModelSpec == ReadModelInit /\ [][ReadModelNext]_readModelVars
=============================================================================
