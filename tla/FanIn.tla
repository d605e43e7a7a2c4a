------------------------------- MODULE FanIn -------------------------------
(***************************************************************************)
(* What the packaging join promises (ADR-0013): the facts it waits for     *)
(* arrive one by one, in any order, and stay; the video is packaged only   *)
(* once all of them are there, and stays packaged; it is announced only    *)
(* once it is packaged, and what was given up on stays given up.           *)
(***************************************************************************)
CONSTANT Facts

VARIABLES arrived, packaged, announced, givenUp

fanVars == <<arrived, packaged, announced, givenUp>>

FanInit ==
  /\ arrived = {}
  /\ packaged = FALSE
  /\ announced = FALSE
  /\ givenUp = {}

Arrive(f) ==
  /\ arrived' = arrived \union {f}
  /\ UNCHANGED <<packaged, announced, givenUp>>

Package ==
  /\ arrived = Facts
  /\ packaged' = TRUE
  /\ UNCHANGED <<arrived, announced, givenUp>>

Announce ==
  /\ packaged
  /\ announced' = TRUE
  /\ UNCHANGED <<arrived, packaged, givenUp>>

GiveUp(f) ==
  /\ givenUp' = givenUp \union {f}
  /\ UNCHANGED <<arrived, packaged, announced>>

FanNext ==
  \/ \E f \in Facts : Arrive(f) \/ GiveUp(f)
  \/ Package
  \/ Announce

FanSafety == FanInit /\ [][FanNext]_fanVars
=============================================================================
