----------------------------- MODULE Transcode -----------------------------
(***************************************************************************)
(* One rendition.requested on its way through the transcode stage and the  *)
(* retry ladder: services/worker_transcode/main.py with                    *)
(* RenditionRepository.claim, on the clock that the claim's age and the    *)
(* ladder's delays are both measured by (RetryPump).                       *)
(*                                                                         *)
(* The handler looks for its outputs, elects an encoder by the claim,      *)
(* encodes and promotes the MP4, then cuts and promotes the HLS playlist,  *)
(* and announces.  It never gives the claim back: what follows a failure   *)
(* has to wait until the claim is stale, on the ladder.                    *)
(*                                                                         *)
(* Calls to Postgres and to the store are steps; encoding takes time.      *)
(***************************************************************************)
EXTENDS RetryPump

CONSTANTS
  Requested,      \* the rendition.requested
  Workers,        \* members of the transcode group
  StaleAfter,     \* RenditionRepository.STALE_AFTER
  MaxBacklog,     \* how long after occurred_at the message is first taken
  MaxWork         \* how long an attempt goes on after its claim

ASSUME TranscodeAssumption ==
  /\ {StaleAfter, MaxBacklog, MaxWork} \subseteq Nat
  /\ Requested \in Laddered /\ "transcode" \in Readers[Requested]

VARIABLES
  claimedAt,    \* renditions.claimed_at, or Never
  mp4, mp4Scratch, segments, playlist, playlistScratch,  \* does it exist?
  announced,    \* was rendition.completed published?
  pc, count,    \* each worker's step, and its message's retry_count
  since,        \* when its attempt claimed the rendition, or Never
  evicted       \* its partition went to another worker meanwhile

storeVars  == <<mp4, mp4Scratch, segments, playlist, playlistScratch>>
workerVars == <<pc, count, since, evicted>>
transcodeVars == <<claimedAt, storeVars, announced, workerVars>>
transcodeStage == <<ladderVars, transcodeVars>>

(* The steps of an attempt that encodes, and of the HLS part after it. *)
Encoding == {"encode", "upload", "copy", "delete"}
Cutting  == {"segments", "uploadPlaylist", "copyPlaylist", "deletePlaylist"}

TranscodeTypeOK ==
  /\ claimedAt \in 0 .. now \union {Never}
  /\ {mp4, mp4Scratch, segments, playlist, playlistScratch, announced} \subseteq BOOLEAN
  /\ pc \in [Workers -> {"idle", "lookMp4", "lookPlaylist", "claim", "announce",
                         "flush"} \union Encoding \union Cutting]
  /\ count \in [Workers -> Counts]
  /\ since \in [Workers -> 0 .. now \union {Never}]
  /\ evicted \in [Workers -> BOOLEAN]

TranscodeInit ==
  /\ claimedAt = Never
  /\ mp4 = FALSE /\ mp4Scratch = FALSE /\ segments = FALSE
  /\ playlist = FALSE /\ playlistScratch = FALSE /\ announced = FALSE
  /\ pc = [w \in Workers |-> "idle"] /\ count = [w \in Workers |-> 0]
  /\ since = [w \in Workers |-> Never] /\ evicted = [w \in Workers |-> FALSE]

-----------------------------------------------------------------------------
Idle(w) ==
  /\ pc' = [pc EXCEPT ![w] = "idle"]
  /\ count' = [count EXCEPT ![w] = 0]
  /\ since' = [since EXCEPT ![w] = Never]
  /\ evicted' = [evicted EXCEPT ![w] = FALSE]

Goto(w, step) ==
  /\ pc' = [pc EXCEPT ![w] = step]
  /\ UNCHANGED <<count, since, evicted>>

Busy(w) == pc[w] # "idle"

Message(n) == [group |-> "transcode", event |-> Requested, count |-> n]

Take(w, n) ==
  /\ ~Busy(w) /\ Message(n) \in waiting
  /\ \A v \in Workers : Busy(v) => evicted[v]
  /\ waiting' = waiting \ {Message(n)}
  /\ count' = [count EXCEPT ![w] = n]
  /\ pc' = [pc EXCEPT ![w] = "lookMp4"]
  /\ UNCHANGED <<clockVars, laddered, dead, claimedAt, storeVars, announced,
                 since, evicted, faults>>

(* StageWorker's _route_failure for a transient error. *)
FailTransient(w) ==
  /\ ParkTransient(Message(count[w]))
  /\ Idle(w)
  /\ UNCHANGED waiting

LookMp4(w) ==
  /\ pc[w] = "lookMp4"
  /\ Goto(w, IF mp4 THEN "lookPlaylist" ELSE "claim")
  /\ UNCHANGED <<ladderVars, claimedAt, storeVars, announced>>

(* Mutant of LookPlaylist: the MP4 is proof enough. *)
TrustMp4(w) ==
  /\ pc[w] = "lookPlaylist"
  /\ Goto(w, "announce")
  /\ UNCHANGED <<ladderVars, claimedAt, storeVars, announced>>

(* With both outputs there, they are announced again; with the MP4 alone it  *)
(* is downloaded and cut, under no claim.                                    *)
LookPlaylist(w) ==
  /\ pc[w] = "lookPlaylist"
  /\ Goto(w, IF playlist THEN "announce" ELSE "segments")
  /\ UNCHANGED <<ladderVars, claimedAt, storeVars, announced>>

(* Mutant of Stale: already at the end of the window. *)
StaleTooSoon(t) == t = Never \/ t + StaleAfter <= now

Stale(t) == t = Never \/ t + StaleAfter < now

(* Mutant of Claim: who does not get the claim has nothing to do. *)
DeniedIsDone(w) ==
  /\ pc[w] = "claim"
  /\ IF Stale(claimedAt)
       THEN /\ claimedAt' = now
            /\ since' = [since EXCEPT ![w] = now]
            /\ pc' = [pc EXCEPT ![w] = "encode"]
            /\ UNCHANGED <<count, evicted>>
       ELSE Idle(w) /\ UNCHANGED claimedAt
  /\ UNCHANGED <<clockVars, kafkaVars, storeVars, announced, faults>>

(* RenditionRepository.claim.  A denied attempt raises TransientError. *)
Claim(w) ==
  /\ pc[w] = "claim"
  /\ IF Stale(claimedAt)
       THEN /\ claimedAt' = now
            /\ since' = [since EXCEPT ![w] = now]
            /\ pc' = [pc EXCEPT ![w] = "encode"]
            /\ UNCHANGED <<count, evicted, kafkaVars>>
       ELSE FailTransient(w) /\ UNCHANGED claimedAt
  /\ UNCHANGED <<clockVars, storeVars, announced, faults>>

(* Download and encode; how long is up to Tick. *)
Encode(w) ==
  /\ pc[w] = "encode"
  /\ Goto(w, "upload")
  /\ UNCHANGED <<ladderVars, claimedAt, storeVars, announced>>

Upload(w) ==
  /\ pc[w] = "upload"
  /\ mp4Scratch' = TRUE
  /\ Goto(w, "copy")
  /\ UNCHANGED <<clockVars, kafkaVars, claimedAt, mp4, segments, playlist,
                 playlistScratch, announced, faults>>

(* promote of the MP4: fails when another attempt has used the scratch up. *)
Copy(w) ==
  /\ pc[w] = "copy"
  /\ IF mp4Scratch
       THEN mp4' = TRUE /\ Goto(w, "delete") /\ UNCHANGED kafkaVars
       ELSE FailTransient(w) /\ UNCHANGED mp4
  /\ UNCHANGED <<clockVars, claimedAt, mp4Scratch, segments, playlist,
                 playlistScratch, announced, faults>>

Delete(w) ==
  /\ pc[w] = "delete"
  /\ mp4Scratch' = FALSE
  /\ Goto(w, "segments")
  /\ UNCHANGED <<clockVars, kafkaVars, claimedAt, mp4, segments, playlist,
                 playlistScratch, announced, faults>>

Segments(w) ==
  /\ pc[w] = "segments"
  /\ segments' = TRUE
  /\ Goto(w, "uploadPlaylist")
  /\ UNCHANGED <<clockVars, kafkaVars, claimedAt, mp4, mp4Scratch, playlist,
                 playlistScratch, announced, faults>>

UploadPlaylist(w) ==
  /\ pc[w] = "uploadPlaylist"
  /\ playlistScratch' = TRUE
  /\ Goto(w, "copyPlaylist")
  /\ UNCHANGED <<clockVars, kafkaVars, claimedAt, mp4, mp4Scratch, segments, playlist,
                 announced, faults>>

CopyPlaylist(w) ==
  /\ pc[w] = "copyPlaylist"
  /\ IF playlistScratch
       THEN playlist' = TRUE /\ Goto(w, "deletePlaylist") /\ UNCHANGED kafkaVars
       ELSE FailTransient(w) /\ UNCHANGED playlist
  /\ UNCHANGED <<clockVars, claimedAt, mp4, mp4Scratch, segments, playlistScratch,
                 announced, faults>>

DeletePlaylist(w) ==
  /\ pc[w] = "deletePlaylist"
  /\ playlistScratch' = FALSE
  /\ Goto(w, "announce")
  /\ UNCHANGED <<clockVars, kafkaVars, claimedAt, mp4, mp4Scratch, segments, playlist,
                 announced, faults>>

(* rendition.completed, then video.status, then flush() and the commit. *)
Announce(w) ==
  /\ pc[w] = "announce"
  /\ announced' = TRUE
  /\ Goto(w, "flush")
  /\ UNCHANGED <<clockVars, kafkaVars, claimedAt, storeVars, faults>>

Finish(w) ==
  /\ pc[w] = "flush"
  /\ Idle(w)
  /\ UNCHANGED <<ladderVars, claimedAt, storeVars, announced>>

-----------------------------------------------------------------------------
(* A call raises anything but TerminalError, in any step. *)
CallFails(w) ==
  /\ Busy(w) /\ Fault
  /\ FailTransient(w)
  /\ UNCHANGED <<clockVars, claimedAt, storeVars, announced>>

(* ffmpeg says the source cannot be decoded: TerminalError. *)
EncodeRefused(w) ==
  /\ pc[w] \in {"encode", "segments"} /\ Fault
  /\ ParkTerminal(Message(count[w]))
  /\ Idle(w)
  /\ UNCHANGED <<clockVars, waiting, claimedAt, storeVars, announced>>

(* The message is delivered again, by Kafka, with the count it had. *)
Crash(w) ==
  /\ Busy(w) /\ Fault
  /\ waiting' = IF evicted[w] THEN waiting ELSE waiting \union {Message(count[w])}
  /\ Idle(w)
  /\ UNCHANGED <<clockVars, laddered, dead, claimedAt, storeVars, announced>>

Evict(w) ==
  /\ Busy(w) /\ ~evicted[w] /\ Fault
  /\ evicted' = [evicted EXCEPT ![w] = TRUE]
  /\ waiting' = waiting \union {Message(count[w])}
  /\ UNCHANGED <<clockVars, laddered, dead, claimedAt, storeVars, announced, pc, count,
                 since>>

(* A message does not wait longer than the backlog for its first worker, the *)
(* look-ups before a claim take no time to speak of, and an attempt is over  *)
(* MaxWork after its claim.                                                  *)
TranscodeIsInTime ==
  /\ Message(0) \in waiting => now < MaxBacklog
  /\ \A w \in Workers :
       /\ pc[w] \in {"lookMp4", "lookPlaylist", "claim"} => evicted[w]
       /\ since[w] # Never => now < since[w] + MaxWork

-----------------------------------------------------------------------------
Handle(w) ==
  \/ LookMp4(w) \/ LookPlaylist(w) \/ Claim(w) \/ Encode(w) \/ Upload(w)
  \/ Copy(w) \/ Delete(w) \/ Segments(w) \/ UploadPlaylist(w)
  \/ CopyPlaylist(w) \/ DeletePlaylist(w) \/ Announce(w) \/ Finish(w)

TranscodeNext ==
  \E w \in Workers :
    \/ \E n \in Counts : Take(w, n)
    \/ Handle(w)
    \/ CallFails(w) \/ EncodeRefused(w) \/ Crash(w) \/ Evict(w)

(* Somebody takes what is there, and a handler's calls return. *)
TranscodeFairness ==
  /\ WF_transcodeStage(\E w \in Workers, n \in Counts : Take(w, n))
  /\ \A w \in Workers : WF_transcodeStage(Handle(w))

-----------------------------------------------------------------------------
(* A rendition is announced only when everything a player needs of it is in  *)
(* place: the MP4, the segments and the playlist, however often the attempt  *)
(* was interrupted, resumed, or run by two workers (main.py:92-102, 163-185).*)
AnnouncedIsThere == announced => mp4 /\ segments /\ playlist

(* As long as an attempt lasts no longer than a claim, no two workers are    *)
(* between the claim and the promoted MP4 at once, whoever was evicted or    *)
(* redelivered meanwhile (repository.py:187-198).                            *)
OneEncoderAtATime == Cardinality({w \in Workers : pc[w] \in Encoding}) <= 1

(* "5m clears the ladder's last hop" (repository.py:178-179): a rendition    *)
(* with nothing wrong about it does not run out of retries because the claim *)
(* of the attempt that failed is still live.  Stated of runs with one fault. *)
LadderOutlastsTheClaim ==
  faults <= 1 => [event |-> Requested, why |-> "exhausted"] \notin dead

(* With one fault at most, the rendition is announced in the end, unless the *)
(* source cannot be decoded: the ladder, the claim and the pump between them *)
(* leave no state from which nothing more comes.                             *)
AnnouncedInTheEnd ==
  (\E n \in Counts : Message(n) \in waiting)
    ~> \/ announced \/ faults > 1
       \/ [event |-> Requested, why |-> "refused"] \in dead
=============================================================================
