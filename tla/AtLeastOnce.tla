---------------------------- MODULE AtLeastOnce ----------------------------
(***************************************************************************)
(* What a consumer group promises the topics it reads (ADR-0005): a        *)
(* partition's committed offset, the point a restart resumes from, only    *)
(* ever covers messages whose fate is settled.  A message is settled when  *)
(* its handler succeeded or when a copy of it is safe on a retry tier or   *)
(* on the DLQ.  The committed offset may move back (a redelivery), never   *)
(* forward over a message that is not settled.                             *)
(***************************************************************************)
EXTENDS Naturals

CONSTANTS Partitions, LogLength

VARIABLES committed,    \* per partition, the next offset a restart reads
          settled       \* the messages whose fate is settled

aloVars == <<committed, settled>>

AloMessages == Partitions \X (0 .. LogLength - 1)

AloInit ==
  /\ committed = [p \in Partitions |-> 0]
  /\ settled = {}

Settle(m) ==
  /\ settled' = settled \union {m}
  /\ UNCHANGED committed

(* Everything below o is settled before the group resumes from o. *)
CommitUpTo(p, o) ==
  /\ \A i \in 0 .. LogLength - 1 : i < o => <<p, i>> \in settled
  /\ committed' = [committed EXCEPT ![p] = o]
  /\ UNCHANGED settled

AloNext ==
  \/ \E m \in AloMessages : Settle(m)
  \/ \E p \in Partitions, o \in 0 .. LogLength : CommitUpTo(p, o)

AloSafety == AloInit /\ [][AloNext]_aloVars
=============================================================================
