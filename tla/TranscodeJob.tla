---------------------------- MODULE TranscodeJob ----------------------------
(***************************************************************************)
(* The transcode job of one video, from the API's TriggerJob through the   *)
(* outbox and the JetStream consumer to the worker's Process: the rows     *)
(* transcode_jobs and videos, the HLS files in object storage, the         *)
(* redeliveries of the job message, and what the worker does when a        *)
(* statement, a file, ffmpeg or its own process fails half-way.            *)
(*                                                                         *)
(* Every statement of the code is keyed by the video, so that videos meet  *)
(* only in the worker slots.  Database statements are steps of their own   *)
(* unless they share a transaction; each may fail.                         *)
(***************************************************************************)
EXTENDS Naturals, FiniteSets

CONSTANTS Requesters,   \* API requests that may run TriggerJob side by side
          Workers,      \* worker slots handling a message
          Entries,      \* messages the stream can hold for the video
          NoEntry,
          MaxDeliver,   \* deliveries of one message (nats-init: 3)
          MaxRetries    \* retries of a failed job (TriggerJob: 3)

ASSUME TranscodeJobAssumption ==
    /\ NoEntry \notin Entries
    /\ MaxDeliver \in Nat \ {0}
    /\ MaxRetries \in Nat

VARIABLES
    job, attempt,          \* transcode_jobs.status ("none": no row), .attempt
    video, captions,       \* videos.status, videos.captions_status
    vtt,                   \* what there is of the captions: the .vtt file in
                           \* storage, its row in caption_tracks
    hls,                   \* the files of the HLS output in storage
    owed, bills,           \* outbox events: job messages to relay, usage
    entry, deliveries,     \* job messages in the stream, their deliveries
    req,                   \* what each request has read
    pc, msg, reuse, up, cap  \* a worker slot: its place in Process, its
                             \* message, alreadyEncoded, the files it has
                             \* uploaded, its captions branch

dbvars  == <<job, attempt, video, captions, vtt, bills>>
natsvars == <<owed, entry, deliveries>>
runvars == <<pc, msg, reuse, up, cap>>
vars == <<dbvars, hls, natsvars, req, runvars>>

Files == {"master", "segments"}
Captions == {"file", "row"}
CapPlaces == {"todo", "running", "uploaded", "saved", "done"}
Places == {"idle", "fetched", "claimed", "prepared", "encoding", "finishing",
           "committed", "failing", "failed"}

TypeOK ==
    /\ job \in {"none", "queued", "processing", "completed", "failed"}
    /\ attempt \in Nat
    /\ video \in {"queued", "processing", "ready", "failed"}
    /\ captions \in {"pending", "processing", "ready", "failed"}
    /\ vtt \in SUBSET Captions
    /\ hls \in SUBSET Files
    /\ owed \in Nat
    /\ bills \in Nat
    /\ entry \in [Entries -> {"unused", "ready", "out", "acked", "dropped"}]
    /\ deliveries \in [Entries -> 0..MaxDeliver]
    /\ req \in [Requesters -> {"idle", "retrying"}]
    /\ pc \in [Workers -> Places]
    /\ msg \in [Workers -> Entries \cup {NoEntry}]
    /\ reuse \in [Workers -> BOOLEAN]
    /\ up \in [Workers -> SUBSET Files]
    /\ cap \in [Workers -> CapPlaces]

Init ==
    /\ job = "none" /\ attempt = 0
    /\ video = "queued" /\ captions = "pending" /\ vtt = {}
    /\ hls = {}
    /\ owed = 0 /\ bills = 0
    /\ entry = [m \in Entries |-> "unused"]
    /\ deliveries = [m \in Entries |-> 0]
    /\ req = [a \in Requesters |-> "idle"]
    /\ pc = [w \in Workers |-> "idle"]
    /\ msg = [w \in Workers |-> NoEntry]
    /\ reuse = [w \in Workers |-> FALSE]
    /\ up = [w \in Workers |-> {}]
    /\ cap = [w \in Workers |-> "todo"]

-----------------------------------------------------------------------------
(* TriggerJob.  The first request inserts the row and the event in one     *)
(* transaction.                                                            *)
TriggerFirst(a) ==
    /\ req[a] = "idle" /\ job = "none"
    /\ job' = "queued"
    /\ owed' = owed + 1
    /\ UNCHANGED <<attempt, video, captions, vtt, bills, hls, entry, deliveries, req, runvars>>

(* A retry allowed while the job is processing. *)
Retryable_Processing == job \in {"failed", "processing"} /\ attempt < MaxRetries

(* What the SELECT of a later request must find for it to go on; a queued, *)
(* processing or completed job and a spent one end the request.            *)
Retryable == job = "failed" /\ attempt < MaxRetries

TriggerRead(a) ==
    /\ req[a] = "idle"
    /\ Retryable
    /\ req' = [req EXCEPT ![a] = "retrying"]
    /\ UNCHANGED <<dbvars, hls, natsvars, runvars>>

(* Its UPDATE names the row and not the status it read; the event commits  *)
(* with it.                                                                *)
TriggerRetry(a) ==
    /\ req[a] = "retrying"
    /\ job' = "queued"
    /\ attempt' = attempt + 1
    /\ owed' = owed + 1
    /\ req' = [req EXCEPT ![a] = "idle"]
    /\ UNCHANGED <<video, captions, vtt, bills, hls, entry, deliveries, runvars>>

(* The transaction fails, and rolls back. *)
TriggerFails(a) ==
    /\ req[a] = "retrying"
    /\ req' = [req EXCEPT ![a] = "idle"]
    /\ UNCHANGED <<dbvars, hls, natsvars, runvars>>

-----------------------------------------------------------------------------
(* The relay of the outbox: an event reaches the stream, and may reach it  *)
(* again while it is not marked published.                                 *)
Relay(m) ==
    /\ owed > 0
    /\ entry[m] = "unused"
    /\ entry' = [entry EXCEPT ![m] = "ready"]
    /\ owed' \in {owed, owed - 1}
    /\ UNCHANGED <<dbvars, hls, deliveries, req, runvars>>

(* Fetch, and the wait for a slot in Submit. *)
Fetch(w, m) ==
    /\ pc[w] = "idle"
    /\ entry[m] = "ready"
    /\ entry' = [entry EXCEPT ![m] = "out"]
    /\ deliveries' = [deliveries EXCEPT ![m] = @ + 1]
    /\ pc' = [pc EXCEPT ![w] = "fetched"]
    /\ msg' = [msg EXCEPT ![w] = m]
    /\ UNCHANGED <<dbvars, hls, owed, req, reuse, up, cap>>

(* A consumer without MaxDeliver. *)
Again_Always(m) == "ready"

(* A message not acknowledged is delivered again, or dropped when it has   *)
(* been delivered MaxDeliver times.                                        *)
Again(m) == IF deliveries[m] < MaxDeliver THEN "ready" ELSE "dropped"

(* A consumer without AckWait: what was not answered for stays out.        *)
AckWaitEnds_Never(m) == FALSE /\ UNCHANGED vars

(* AckWait ends whether or not a slot still works on the message: Process  *)
(* never calls InProgress.                                                 *)
AckWaitEnds(m) ==
    /\ entry[m] = "out"
    /\ entry' = [entry EXCEPT ![m] = Again(m)]
    /\ UNCHANGED <<dbvars, hls, owed, deliveries, req, runvars>>

(* The slot of w is free again. *)
Leave(w) ==
    /\ pc' = [pc EXCEPT ![w] = "idle"]
    /\ msg' = [msg EXCEPT ![w] = NoEntry]
    /\ reuse' = [reuse EXCEPT ![w] = FALSE]
    /\ up' = [up EXCEPT ![w] = {}]
    /\ cap' = [cap EXCEPT ![w] = "todo"]

(* Ack and Nak are sent without waiting for an answer, and may be lost. A  *)
(* stream that has given the message up takes neither.                     *)
Ack(w) ==
    /\ entry' \in {entry, [entry EXCEPT ![msg[w]] = IF @ = "dropped" THEN @ ELSE "acked"]}
    /\ Leave(w)

Nak(w) ==
    /\ entry' \in {entry, [entry EXCEPT ![msg[w]] = IF @ = "out" THEN Again(msg[w]) ELSE @]}
    /\ Leave(w)

Goto(w, place) == pc' = [pc EXCEPT ![w] = place]

-----------------------------------------------------------------------------
(* A claim without AND status = 'queued'. *)
ClaimJob_AnyStatus(w) ==
    /\ pc[w] = "fetched"
    /\ job' = "processing"
    /\ Goto(w, "claimed")
    /\ UNCHANGED <<attempt, video, captions, vtt, bills, hls, natsvars, req,
                   msg, reuse, up, cap>>

(* claimJob, its first statement. *)
ClaimJob(w) ==
    /\ pc[w] = "fetched"
    /\ job = "queued"
    /\ job' = "processing"
    /\ Goto(w, "claimed")
    /\ UNCHANGED <<attempt, video, captions, vtt, bills, hls, natsvars, req,
                   msg, reuse, up, cap>>

(* An acknowledgement where the claim finds nothing to do. *)
ClaimRefused_Acked(w) ==
    /\ pc[w] = "fetched"
    /\ job # "queued"
    /\ Ack(w)
    /\ UNCHANGED <<dbvars, hls, owed, deliveries, req>>

(* It finds no queued row, or fails: the message is delivered again. *)
ClaimRefused(w) ==
    /\ pc[w] = "fetched"
    /\ Nak(w)
    /\ UNCHANGED <<dbvars, hls, owed, deliveries, req>>

(* claimJob's second statement, the bucket query and the temp directory.   *)
Prepare(w) ==
    /\ pc[w] = "claimed"
    /\ video' = "processing"
    /\ Goto(w, "prepared")
    /\ UNCHANGED <<job, attempt, captions, vtt, bills, hls, natsvars, req,
                   msg, reuse, up, cap>>

(* An error in one of the three returns without failJob. *)
PrepareFails(w) ==
    /\ pc[w] = "claimed"
    /\ video' \in {video, "processing"}
    /\ Nak(w)
    /\ UNCHANGED <<job, attempt, captions, vtt, bills, hls, owed, deliveries, req>>

(* Download, probe and alreadyEncoded, which a failed GetObject takes for  *)
(* a missing master playlist.                                              *)
Download(w) ==
    /\ pc[w] = "prepared"
    /\ \E found \in {"master" \in hls, FALSE} : reuse' = [reuse EXCEPT ![w] = found]
    /\ Goto(w, "encoding")
    /\ UNCHANGED <<dbvars, hls, natsvars, req, msg, up, cap>>

DownloadFails(w) ==
    /\ pc[w] = "prepared"
    /\ Goto(w, "failing")
    /\ UNCHANGED <<dbvars, hls, natsvars, req, msg, reuse, up, cap>>

(* UploadHLS, after Encode: eight goroutines put the files in any order. *)
Upload(w, f) ==
    /\ pc[w] = "encoding" /\ ~reuse[w]
    /\ f \notin up[w]
    /\ hls' = hls \cup {f}
    /\ up' = [up EXCEPT ![w] = @ \cup {f}]
    /\ UNCHANGED <<dbvars, natsvars, req, pc, msg, reuse, cap>>

(* The captions branch never fails the job; its own updates may be lost.   *)
CaptionsMove(w, from, to) ==
    /\ pc[w] = "encoding" /\ cap[w] \in from
    /\ cap' = [cap EXCEPT ![w] = to]
    /\ UNCHANGED <<job, attempt, video, bills, hls, natsvars, req, pc, msg, reuse, up>>

CaptionsStart(w) ==
    /\ CaptionsMove(w, {"todo"}, "running")
    /\ captions' \in {captions, "processing"}
    /\ UNCHANGED vtt

(* The audio is extracted and transcribed, and its .vtt file uploaded. *)
UploadCaption(w) ==
    /\ CaptionsMove(w, {"running"}, "uploaded")
    /\ vtt' = vtt \cup {"file"}
    /\ UNCHANGED captions

SaveCaptionTrack(w) ==
    /\ CaptionsMove(w, {"uploaded"}, "saved")
    /\ vtt' = vtt \cup {"row"}
    /\ UNCHANGED captions

(* One of these fails, with its effect or without, or saveChapters does.   *)
CaptionsFail(w) ==
    /\ CaptionsMove(w, {"running", "uploaded", "saved"}, "done")
    /\ vtt' \in {vtt, vtt \cup (CASE cap[w] = "running" -> {"file"}
                                 [] cap[w] = "uploaded" -> {"row"}
                                 [] OTHER -> {})}
    /\ captions' \in {captions, "failed"}

(* A failure of saveCaptionTrack that is logged and passed over. *)
CaptionsReady_Early(w) ==
    /\ CaptionsMove(w, {"uploaded", "saved"}, "done")
    /\ captions' \in {captions, "ready"}
    /\ UNCHANGED vtt

CaptionsReady(w) ==
    /\ CaptionsMove(w, {"saved"}, "done")
    /\ captions' \in {captions, "ready"}
    /\ UNCHANGED vtt

(* An upload that returns nil for the files it gave up. *)
EncodeDone_Partial(w) ==
    /\ pc[w] = "encoding" /\ cap[w] = "done"
    /\ Goto(w, "finishing")
    /\ UNCHANGED <<dbvars, hls, natsvars, req, msg, reuse, up, cap>>

(* eg.Wait() returns nil; thumbnails and tracked objects never fail it.    *)
EncodeDone(w) ==
    /\ pc[w] = "encoding" /\ cap[w] = "done"
    /\ reuse[w] \/ up[w] = Files
    /\ Goto(w, "finishing")
    /\ UNCHANGED <<dbvars, hls, natsvars, req, msg, reuse, up, cap>>

(* Encode, saveRenditions, the playlist or an upload fails; the captions   *)
(* branch is cancelled with it.                                            *)
EncodeFails(w) ==
    /\ pc[w] = "encoding" /\ ~reuse[w]
    /\ Goto(w, "failing")
    /\ UNCHANGED <<dbvars, hls, natsvars, req, msg, reuse, up, cap>>

(* completeJobWithBilling commits.  Its answer is nil, or an error when    *)
(* the connection is lost after the commit.                                *)
Complete(w) ==
    /\ pc[w] = "finishing"
    /\ video' = "ready" /\ job' = "completed"
    /\ bills' = bills + 1
    /\ \E place \in {"committed", "failing"} : Goto(w, place)
    /\ UNCHANGED <<attempt, captions, vtt, hls, natsvars, req, msg, reuse, up, cap>>

(* Process returns nil. *)
Acknowledge(w) ==
    /\ pc[w] = "committed"
    /\ Ack(w)
    /\ UNCHANGED <<dbvars, hls, owed, deliveries, req>>

CompleteFails(w) ==
    /\ pc[w] = "finishing"
    /\ Goto(w, "failing")
    /\ UNCHANGED <<dbvars, hls, natsvars, req, msg, reuse, up, cap>>

(* failJob, two statements whose errors nobody reads. *)
FailJob(w) ==
    /\ pc[w] = "failing"
    /\ job' \in {job, "failed"}
    /\ Goto(w, "failed")
    /\ UNCHANGED <<attempt, video, captions, vtt, bills, hls, natsvars, req,
                   msg, reuse, up, cap>>

FailVideo(w) ==
    /\ pc[w] = "failed"
    /\ \/ UNCHANGED <<video, captions>>
       \/ /\ video' = "failed"
          /\ captions' = IF captions = "processing" THEN "failed" ELSE captions
    /\ Nak(w)
    /\ UNCHANGED <<job, attempt, vtt, bills, hls, owed, deliveries, req>>

(* The process dies, a job panics in its slot, or the consumer returns on  *)
(* SIGTERM and main exits: neither Ack nor Nak.                            *)
Crash(w) ==
    /\ pc[w] # "idle"
    /\ Leave(w)
    /\ UNCHANGED <<dbvars, hls, natsvars, req>>

-----------------------------------------------------------------------------
Request(a) == TriggerFirst(a) \/ TriggerRead(a) \/ TriggerRetry(a) \/ TriggerFails(a)

Message(m) == Relay(m) \/ AckWaitEnds(m)

CaptionsStep(w) ==
    \/ CaptionsStart(w)
    \/ UploadCaption(w) \/ SaveCaptionTrack(w)
    \/ CaptionsFail(w) \/ CaptionsReady(w)

RunStep(w) ==
    \/ ClaimJob(w) \/ ClaimRefused(w)
    \/ Prepare(w) \/ PrepareFails(w)
    \/ Download(w) \/ DownloadFails(w)
    \/ \E f \in Files : Upload(w, f)
    \/ CaptionsStep(w)
    \/ EncodeDone(w) \/ EncodeFails(w)
    \/ Complete(w) \/ CompleteFails(w) \/ Acknowledge(w)
    \/ FailJob(w) \/ FailVideo(w)

Next ==
    \/ \E a \in Requesters : Request(a)
    \/ \E m \in Entries : Message(m)
    \/ \E w \in Workers, m \in Entries : Fetch(w, m)
    \/ \E w \in Workers : RunStep(w) \/ Crash(w)

Spec == Init /\ [][Next]_vars

(* Slots keep working and fetching, the relay publishes, AckWait runs out. *)
(* Users owe the system nothing.                                           *)
Fairness ==
    /\ \A w \in Workers : WF_vars(RunStep(w))
    /\ \A m \in Entries :
          /\ SF_vars(\E w \in Workers : Fetch(w, m))
          /\ WF_vars(Message(m))

FairSpec == Spec /\ Fairness

-----------------------------------------------------------------------------
(* A run works for the job from its claim until it has written the outcome *)
(* into the job's row.                                                     *)
Works(w) == pc[w] \in {"claimed", "prepared", "encoding", "finishing", "failing"}

(* worker/internal/job/handler.go, line 86: "Atomic job claim to ensure    *)
(* exclusivity".  No two runs work for the job at once, however often its  *)
(* message is delivered.                                                   *)
OneRunPerJob == \A w, v \in Workers : Works(w) /\ Works(v) => w = v

(* While a run works for the job, nobody else moves the job's status.      *)
ClaimIsExclusive ==
    [][\A w \in Workers : Works(w) /\ pc'[w] = pc[w] => job' = job]_vars

(* A video that players are served has a master playlist in storage, also  *)
(* when the run that made it ready reused the output of an earlier one.    *)
ReadyHasMaster == video = "ready" => "master" \in hls

(* Its segments are there too: "we upload the whole directory"             *)
(* (worker/internal/uploader/storage.go, line 45).                         *)
ReadyIsPlayable == video = "ready" => hls = Files

(* A job message is acknowledged only after a completion has committed,    *)
(* also across crashes between the commit and the acknowledgement.         *)
AckedIsCompleted == (\E m \in Entries : entry[m] = "acked") => bills > 0

(* Redeliveries, duplicates of the outbox and lost answers never bill a    *)
(* video more often than its job was queued.                               *)
BillsBounded == bills <= attempt + 1

(* content/docs/guides/captions-chapters.mdx, line 24: ready means ".vtt   *)
(* file available in storage".  Its row is saved too: a run that fails     *)
(* between the three writes, or is replaced, has not reported them.        *)
CaptionsReadyAreStored == captions = "ready" => vtt = Captions

(* The same page, line 23: processing means "Whisper is transcribing".  It *)
(* is over when the job is completed.  Not what the code does when the     *)
(* last statement of the captions branch fails.                            *)
ProcessingIsTranscribing == job = "completed" => captions # "processing"

(* Every job message is acknowledged or dropped in the end: no redelivery  *)
(* goes on for ever.                                                       *)
MessagesDrain == \A m \in Entries : entry[m] = "ready" ~> entry[m] \in {"acked", "dropped"}

(* A claimed job is completed or failed in the end, since every error of a *)
(* run is handed back as a "Transient/retryable error" (consumer.go, line  *)
(* 104) and a lost worker's message is delivered again.                    *)
ClaimedJobResolves == job = "processing" ~> job \in {"completed", "failed"}
=============================================================================
