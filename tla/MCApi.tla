------------------------------- MODULE MCApi -------------------------------
(***************************************************************************)
(* The API's requests on uploads, or those for event streams: the two      *)
(* share nothing, so a behaviour is about one kind.                        *)
(***************************************************************************)
EXTENDS UploadApi, EventStreams

VARIABLE kind

MCInit == Init /\ StreamsInit /\ kind \in {"uploads", "streams"}

Uploads   == kind = "uploads" /\ Next /\ UNCHANGED <<streamVars, kind>>
EventFeed == kind = "streams" /\ StreamsNext /\ UNCHANGED <<vars, kind>>

(* The owner's browser keeps asking for the list (UploadPage.tsx:46-49).     *)
MCFairSpec ==
  /\ MCInit /\ [][Uploads \/ EventFeed]_<<vars, streamVars, kind>>
  /\ RequestFairness
  /\ SF_vars(kind = "uploads" /\ \E r \in Requests : StartList(r))
=============================================================================
