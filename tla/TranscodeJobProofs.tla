------------------------- MODULE TranscodeJobProofs -------------------------
(***************************************************************************)
(* The safety properties of TranscodeJob for any number of worker slots,   *)
(* messages, deliveries and retries.  Those of the messages, the files,    *)
(* the bills and the captions hold for any requests of the API; that no    *)
(* two runs work for the job at once holds when no two requests race, and  *)
(* only then.                                                              *)
(***************************************************************************)
EXTENDS TranscodeJob, FiniteSetTheorems, TLAPS

(* A message that can be fetched has a delivery left. *)
ReadyHasDelivery ==
    \A m \in Entries : entry[m] \in {"unused", "ready"} => deliveries[m] < MaxDeliver

(* A slot at work has a message to answer for. *)
BusyHasMessage == \A w \in Workers : pc[w] # "idle" => msg[w] \in Entries

MessageInv == TypeOK /\ ReadyHasDelivery /\ BusyHasMessage

(* What a run has uploaded, or found at its start, is in storage, and it   *)
(* finishes with all of it.                                                *)
RunsFilesAreStored ==
    \A w \in Workers :
        /\ up[w] \subseteq hls
        /\ reuse[w] => "master" \in hls
        /\ pc[w] = "finishing" => reuse[w] \/ up[w] = Files

FileInv == RunsFilesAreStored /\ ReadyHasMaster

(* The runs that have claimed the job and may still bill it.               *)
MayBill == {"claimed", "prepared", "encoding", "finishing"}
Unbilled == {w \in Workers : pc[w] \in MayBill}

(* Each time the job is queued it is billed, or claimed by a run that may  *)
(* bill it, or still queued, at most once.                                 *)
QueuedBillsOnce ==
    /\ IsFiniteSet(Unbilled)
    /\ bills + Cardinality(Unbilled) + (IF job = "queued" THEN 1 ELSE 0)
           <= IF job = "none" THEN 0 ELSE attempt + 1

(* A run that is about to acknowledge has billed. *)
CommittedIsBilled == \A w \in Workers : pc[w] = "committed" => bills > 0

BillInv == QueuedBillsOnce /\ CommittedIsBilled /\ AckedIsCompleted

(* What the captions branch of a run has written is there.                 *)
BranchIsStored ==
    \A w \in Workers :
        /\ cap[w] \in {"uploaded", "saved"} => "file" \in vtt
        /\ cap[w] = "saved" => "row" \in vtt

CaptionsInv == BranchIsStored /\ CaptionsReadyAreStored

IInv == MessageInv /\ FileInv /\ BillInv /\ CaptionsInv

(* No two requests of the API run side by side. *)
OneRequester == \A a, b \in Requesters : a = b

(* A run works for a processing job, or for one it has completed without   *)
(* an answer.                                                              *)
WorkingJob ==
    \A w \in Workers :
        Works(w) => job = "processing" \/ (pc[w] = "failing" /\ job = "completed")

(* A request that goes on to retry has found a failed job, and it still is *)
(* one.                                                                    *)
RetriedJobIsFailed == \A a \in Requesters : req[a] = "retrying" => job = "failed"

ExclusionInv == OneRunPerJob /\ WorkingJob /\ RetriedJobIsFailed

-----------------------------------------------------------------------------
(* A slot that becomes free. *)
LEMMA LeaveType ==
    ASSUME TypeOK, NEW w \in Workers, Leave(w)
    PROVE  /\ pc' = [pc EXCEPT ![w] = "idle"] /\ pc' \in [Workers -> Places]
           /\ msg' \in [Workers -> Entries \cup {NoEntry}]
           /\ reuse' \in [Workers -> BOOLEAN]
           /\ up' \in [Workers -> SUBSET Files]
           /\ cap' \in [Workers -> CapPlaces]
           /\ pc'[w] = "idle" /\ ~reuse'[w] /\ up'[w] = {}
           /\ \A v \in Workers : v # w =>
                 pc'[v] = pc[v] /\ msg'[v] = msg[v] /\ reuse'[v] = reuse[v] /\ up'[v] = up[v]
BY DEF Leave, TypeOK, Places, CapPlaces

(* A step of the captions branch touches the captions alone, and adds to   *)
(* what there is of them.                                                  *)
LEMMA CaptionsStepType ==
    ASSUME TypeOK, NEW w \in Workers, CaptionsStep(w)
    PROVE  /\ UNCHANGED <<job, attempt, video, bills, hls, natsvars, req, pc, msg, reuse, up>>
           /\ captions' \in {captions, "processing", "failed", "ready"}
           /\ cap' \in [Workers -> CapPlaces] /\ vtt' \in SUBSET Captions
           /\ \A v \in Workers : v # w => cap'[v] = cap[v]
           /\ vtt \subseteq vtt'
<1>1. CASE CaptionsStart(w)
  BY <1>1 DEF CaptionsStart, CaptionsMove, CapPlaces, TypeOK
<1>2. CASE UploadCaption(w)
  BY <1>2 DEF UploadCaption, CaptionsMove, CapPlaces, Captions, TypeOK
<1>3. CASE SaveCaptionTrack(w)
  BY <1>3 DEF SaveCaptionTrack, CaptionsMove, CapPlaces, Captions, TypeOK
<1>4. CASE CaptionsFail(w)
  BY <1>4 DEF CaptionsFail, CaptionsMove, CapPlaces, Captions, TypeOK
<1>5. CASE CaptionsReady(w)
  BY <1>5 DEF CaptionsReady, CaptionsMove, CapPlaces, TypeOK
<1>6. QED
  BY <1>1, <1>2, <1>3, <1>4, <1>5 DEF CaptionsStep

LEMMA GotoType ==
    ASSUME TypeOK, NEW w \in Workers, NEW place \in Places, Goto(w, place)
    PROVE  /\ pc' \in [Workers -> Places]
           /\ pc'[w] = place
           /\ \A v \in Workers : v # w => pc'[v] = pc[v]
BY DEF Goto, TypeOK

(* A message goes back to the stream only with a delivery left. *)
LEMMA AgainType ==
    ASSUME NEW m \in Entries
    PROVE  /\ Again(m) \in {"ready", "dropped"}
           /\ Again(m) = "ready" => deliveries[m] < MaxDeliver
BY DEF Again

(* What the answer for a message does to it, and to no other. *)
LEMMA AnswerMoves ==
    ASSUME MessageInv, NEW w \in Workers, pc[w] # "idle", Ack(w) \/ Nak(w)
    PROVE  /\ entry' \in [Entries -> {"unused", "ready", "out", "acked", "dropped"}]
           /\ \A m \in Entries : entry'[m] \in {entry[m], Again(m), "acked"}
           /\ \A m \in Entries : entry'[m] = "acked" => entry[m] = "acked" \/ Ack(w)
<1>1. msg[w] \in Entries
  BY DEF MessageInv, BusyHasMessage
<1>2. CASE Ack(w)
  BY <1>1, <1>2 DEF Ack, MessageInv, TypeOK
<1>3. CASE Nak(w)
  BY <1>1, <1>3, AgainType DEF Nak, MessageInv, TypeOK
<1>4. QED
  BY <1>2, <1>3

-----------------------------------------------------------------------------
(* The messages. *)
LEMMA InitMessageInv == Init => MessageInv
<1> SUFFICES ASSUME Init
             PROVE  MessageInv
  OBVIOUS
<1>1. TypeOK
  <2>1. 0 \in 0..MaxDeliver /\ 0 \in Nat
    BY TranscodeJobAssumption
  <2>2. /\ {} \in SUBSET Files
        /\ [w \in Workers |-> {}] \in [Workers -> SUBSET Files]
        /\ [w \in Workers |-> FALSE] \in [Workers -> BOOLEAN]
        /\ [w \in Workers |-> "idle"] \in [Workers -> Places]
    BY DEF Places
  <2>3. QED
    BY <2>1, <2>2 DEF Init, TypeOK, CapPlaces, Captions
<1>2. ReadyHasDelivery
  BY TranscodeJobAssumption DEF Init, ReadyHasDelivery
<1>3. BusyHasMessage
  BY DEF Init, BusyHasMessage
<1>4. QED
  BY <1>1, <1>2, <1>3 DEF MessageInv

(* A step of a run that keeps its message. *)
LEMMA RunMessageInv ==
    ASSUME MessageInv, NEW w \in Workers, pc[w] # "idle",
           NEW place \in Places, Goto(w, place),
           UNCHANGED <<natsvars, msg, req>>,
           job' \in {"none", "queued", "processing", "completed", "failed"},
           attempt' \in Nat,
           video' \in {"queued", "processing", "ready", "failed"},
           captions' \in {"pending", "processing", "ready", "failed"},
           vtt' \in SUBSET Captions, hls' \in SUBSET Files, bills' \in Nat,
           reuse' \in [Workers -> BOOLEAN],
           up' \in [Workers -> SUBSET Files],
           cap' \in [Workers -> CapPlaces]
    PROVE  MessageInv'
<1> USE DEF MessageInv, natsvars
<1>1. TypeOK'
  BY GotoType DEF TypeOK
<1>2. ReadyHasDelivery'
  BY DEF ReadyHasDelivery
<1>3. BusyHasMessage'
  BY GotoType DEF BusyHasMessage
<1>4. QED
  BY <1>1, <1>2, <1>3

(* A step of a run that answers its message, or dies without. *)
LEMMA EndMessageInv ==
    ASSUME MessageInv, NEW w \in Workers, pc[w] # "idle",
           Ack(w) \/ Nak(w) \/ (Leave(w) /\ UNCHANGED entry),
           UNCHANGED <<job, attempt, vtt, bills, hls, owed, deliveries, req>>,
           video' \in {"queued", "processing", "ready", "failed"},
           captions' \in {"pending", "processing", "ready", "failed"}
    PROVE  MessageInv'
<1> USE DEF MessageInv
<1>a. Leave(w)
  BY DEF Ack, Nak
<1>b. /\ entry' \in [Entries -> {"unused", "ready", "out", "acked", "dropped"}]
      /\ \A m \in Entries : entry'[m] \in {entry[m], Again(m), "acked"}
  BY AnswerMoves DEF TypeOK
<1>1. TypeOK'
  BY <1>a, <1>b, LeaveType DEF TypeOK
<1>2. ReadyHasDelivery'
  BY <1>b, AgainType DEF ReadyHasDelivery
<1>3. BusyHasMessage'
  BY <1>a, LeaveType DEF BusyHasMessage
<1>4. QED
  BY <1>1, <1>2, <1>3

LEMMA NextMessageInv == MessageInv /\ [Next]_vars => MessageInv'
<1> SUFFICES ASSUME MessageInv, [Next]_vars
             PROVE  MessageInv'
  OBVIOUS
<1> USE DEF MessageInv, dbvars, natsvars, runvars
<1>1. ASSUME NEW a \in Requesters, Request(a)
      PROVE  MessageInv'
  <2>1. TypeOK'
    BY <1>1 DEF Request, TriggerFirst, TriggerRead, TriggerRetry, TriggerFails, TypeOK
  <2>2. ReadyHasDelivery' /\ BusyHasMessage'
    BY <1>1 DEF Request, TriggerFirst, TriggerRead, TriggerRetry, TriggerFails,
                ReadyHasDelivery, BusyHasMessage
  <2>3. QED
    BY <2>1, <2>2
<1>2. ASSUME NEW m \in Entries, Relay(m)
      PROVE  MessageInv'
  <2>1. owed' \in Nat
    BY <1>2 DEF Relay, TypeOK
  <2>2. TypeOK' /\ ReadyHasDelivery' /\ BusyHasMessage'
    BY <1>2, <2>1 DEF Relay, TypeOK, ReadyHasDelivery, BusyHasMessage
  <2>3. QED
    BY <2>2
<1>3. ASSUME NEW m \in Entries, AckWaitEnds(m)
      PROVE  MessageInv'
  <2>1. TypeOK'
    BY <1>3, AgainType DEF AckWaitEnds, TypeOK
  <2>2. ReadyHasDelivery' /\ BusyHasMessage'
    BY <1>3, AgainType DEF AckWaitEnds, TypeOK, ReadyHasDelivery, BusyHasMessage
  <2>3. QED
    BY <2>1, <2>2
<1>4. ASSUME NEW w \in Workers, NEW m \in Entries, Fetch(w, m)
      PROVE  MessageInv'
  <2>1. deliveries' \in [Entries -> 0..MaxDeliver]
    BY <1>4, TranscodeJobAssumption DEF Fetch, TypeOK, ReadyHasDelivery
  <2>2. TypeOK'
    BY <1>4, <2>1 DEF Fetch, TypeOK, Places
  <2>3. ReadyHasDelivery'
    BY <1>4 DEF Fetch, TypeOK, ReadyHasDelivery
  <2>4. BusyHasMessage'
    BY <1>4 DEF Fetch, TypeOK, BusyHasMessage
  <2>5. QED
    BY <2>2, <2>3, <2>4
<1>5. ASSUME NEW w \in Workers, ClaimJob(w) \/ Prepare(w) \/ Complete(w) \/ FailJob(w)
      PROVE  MessageInv'
  <2>1. PICK place \in Places : Goto(w, place)
    BY <1>5 DEF ClaimJob, Prepare, Complete, FailJob, Places
  <2>2. QED
    BY <1>5, <2>1, RunMessageInv DEF ClaimJob, Prepare, Complete, FailJob, TypeOK
<1>6. ASSUME NEW w \in Workers,
             \/ Download(w) \/ DownloadFails(w)
             \/ EncodeDone(w) \/ EncodeFails(w) \/ CompleteFails(w)
      PROVE  MessageInv'
  <2>1. PICK place \in Places : Goto(w, place)
    BY <1>6 DEF Download, DownloadFails, EncodeDone, EncodeFails, CompleteFails, Places
  <2>2. reuse' \in [Workers -> BOOLEAN]
    <3>1. CASE Download(w)
      <4>1. \/ reuse' = [reuse EXCEPT ![w] = ("master" \in hls)]
            \/ reuse' = [reuse EXCEPT ![w] = FALSE]
        BY <3>1 DEF Download
      <4>2. ("master" \in hls) \in BOOLEAN
        OBVIOUS
      <4>3. QED
        BY <4>1, <4>2 DEF TypeOK
    <3>2. QED
      BY <1>6, <3>1 DEF DownloadFails, EncodeDone, EncodeFails, CompleteFails, TypeOK
  <2>3. /\ pc[w] # "idle"
        /\ UNCHANGED <<dbvars, hls, natsvars, req, msg, up, cap>>
    BY <1>6 DEF Download, DownloadFails, EncodeDone, EncodeFails, CompleteFails
  <2>4. QED
    BY <2>1, <2>2, <2>3, RunMessageInv DEF TypeOK
<1>7. ASSUME NEW w \in Workers,
             (\E f \in Files : Upload(w, f)) \/ CaptionsStep(w)
      PROVE  MessageInv'
  <2>1. TypeOK'
    <3>1. ASSUME NEW f \in Files, Upload(w, f)
          PROVE  TypeOK'
      BY <3>1 DEF Upload, TypeOK
    <3>2. CASE CaptionsStep(w)
      BY <3>2, CaptionsStepType DEF TypeOK
    <3>3. QED
      BY <1>7, <3>1, <3>2
  <2>2. ReadyHasDelivery' /\ BusyHasMessage'
    BY <1>7, CaptionsStepType DEF Upload, ReadyHasDelivery, BusyHasMessage
  <2>3. QED
    BY <2>1, <2>2
<1>8. ASSUME NEW w \in Workers,
             \/ ClaimRefused(w) \/ PrepareFails(w) \/ Acknowledge(w)
             \/ FailVideo(w) \/ Crash(w)
      PROVE  MessageInv'
  <2>1. /\ pc[w] # "idle"
        /\ Ack(w) \/ Nak(w) \/ (Leave(w) /\ UNCHANGED entry)
        /\ UNCHANGED <<job, attempt, vtt, bills, hls, owed, deliveries, req>>
    BY <1>8 DEF ClaimRefused, PrepareFails, Acknowledge, FailVideo, Crash
  <2>2. /\ video' \in {"queued", "processing", "ready", "failed"}
        /\ captions' \in {"pending", "processing", "ready", "failed"}
    BY <1>8 DEF ClaimRefused, PrepareFails, Acknowledge, FailVideo, Crash, TypeOK
  <2>3. QED
    BY <2>1, <2>2, EndMessageInv
<1>9. CASE UNCHANGED vars
  BY <1>9 DEF vars, TypeOK, ReadyHasDelivery, BusyHasMessage
<1>10. QED
  BY <1>1, <1>2, <1>3, <1>4, <1>5, <1>6, <1>7, <1>8, <1>9
     DEF Next, Message, RunStep

-----------------------------------------------------------------------------
(* The files. *)
LEMMA NextFileInv == MessageInv /\ FileInv /\ [Next]_vars => FileInv'
<1> SUFFICES ASSUME MessageInv, FileInv, [Next]_vars
             PROVE  FileInv'
  OBVIOUS
<1>a. TypeOK
  BY DEF MessageInv
<1> USE DEF FileInv, RunsFilesAreStored, ReadyHasMaster, dbvars, natsvars, runvars
<1>1. ASSUME NEW a \in Requesters, Request(a)
      PROVE  FileInv'
  BY <1>1 DEF Request, TriggerFirst, TriggerRead, TriggerRetry, TriggerFails
<1>2. ASSUME NEW m \in Entries, Message(m)
      PROVE  FileInv'
  BY <1>2 DEF Message, Relay, AckWaitEnds
<1>3. ASSUME NEW w \in Workers, NEW m \in Entries, Fetch(w, m)
      PROVE  FileInv'
  BY <1>3, <1>a DEF Fetch, TypeOK
<1>4. ASSUME NEW w \in Workers, NEW f \in Files, Upload(w, f)
      PROVE  FileInv'
  BY <1>4, <1>a DEF Upload, TypeOK
<1>5. ASSUME NEW w \in Workers, CaptionsStep(w)
      PROVE  FileInv'
  BY <1>5, <1>a, CaptionsStepType
<1>6. ASSUME NEW w \in Workers, Download(w)
      PROVE  FileInv'
  <2>1. \/ reuse' = [reuse EXCEPT ![w] = ("master" \in hls)]
        \/ reuse' = [reuse EXCEPT ![w] = FALSE]
    BY <1>6 DEF Download
  <2>2. Goto(w, "encoding") /\ UNCHANGED <<video, hls, up>>
    BY <1>6 DEF Download
  <2>3. \A v \in Workers : reuse'[v] => "master" \in hls
    BY <2>1, <1>a DEF TypeOK
  <2>4. \A v \in Workers : pc'[v] = "finishing" => pc[v] = "finishing" /\ reuse'[v] = reuse[v]
    BY <2>1, <2>2, <1>a DEF Goto, TypeOK
  <2>5. QED
    BY <2>2, <2>3, <2>4
<1>7. ASSUME NEW w \in Workers, EncodeDone(w)
      PROVE  FileInv'
  BY <1>7, <1>a DEF EncodeDone, Goto, TypeOK
<1>8. ASSUME NEW w \in Workers, Complete(w)
      PROVE  FileInv'
  <2>1. "master" \in hls
    BY <1>8 DEF Complete, Files
  <2>2. \A v \in Workers : pc'[v] = "finishing" => pc[v] = "finishing"
    BY <1>8, <1>a DEF Complete, Goto, TypeOK
  <2>3. QED
    BY <1>8, <2>1, <2>2 DEF Complete
<1>9. ASSUME NEW w \in Workers,
             \/ ClaimJob(w) \/ Prepare(w) \/ DownloadFails(w)
             \/ EncodeFails(w) \/ CompleteFails(w) \/ FailJob(w)
      PROVE  FileInv'
  <2>1. PICK place \in Places \ {"finishing"} : Goto(w, place)
    BY <1>9 DEF ClaimJob, Prepare, DownloadFails, EncodeFails, CompleteFails, FailJob, Places
  <2>2. \A v \in Workers : pc'[v] = "finishing" => pc[v] = "finishing"
    BY <2>1, <1>a, GotoType
  <2>3. UNCHANGED <<hls, reuse, up>> /\ video' \in {video, "processing"}
    BY <1>9 DEF ClaimJob, Prepare, DownloadFails, EncodeFails, CompleteFails, FailJob
  <2>4. QED
    BY <2>2, <2>3
<1>10. ASSUME NEW w \in Workers,
             \/ ClaimRefused(w) \/ PrepareFails(w) \/ Acknowledge(w)
             \/ FailVideo(w) \/ Crash(w)
      PROVE  FileInv'
  <2>1. Leave(w) /\ UNCHANGED hls /\ video' \in {video, "processing", "failed"}
    BY <1>10 DEF ClaimRefused, PrepareFails, Acknowledge, FailVideo, Crash, Ack, Nak
  <2>2. QED
    BY <2>1, <1>a, LeaveType
<1>11. CASE UNCHANGED vars
  BY <1>11 DEF vars
<1>12. QED
  BY <1>1, <1>2, <1>3, <1>4, <1>5, <1>6, <1>7, <1>8, <1>9, <1>10, <1>11 DEF Next, RunStep

-----------------------------------------------------------------------------
(* The bills.  A run that moves on is counted while it may bill. *)
LEMMA UnbilledMoves ==
    ASSUME TypeOK, NEW w \in Workers, NEW place \in Places,
           pc' = [pc EXCEPT ![w] = place], IsFiniteSet(Unbilled)
    PROVE  /\ IsFiniteSet(Unbilled')
           /\ Cardinality(Unbilled) \in Nat /\ Cardinality(Unbilled') \in Nat
           /\ pc[w] \notin MayBill /\ place \in MayBill =>
                 Cardinality(Unbilled') = Cardinality(Unbilled) + 1
           /\ pc[w] \in MayBill /\ place \notin MayBill =>
                 Cardinality(Unbilled') = Cardinality(Unbilled) - 1
           /\ (pc[w] \in MayBill <=> place \in MayBill) =>
                 Cardinality(Unbilled') = Cardinality(Unbilled)
           /\ place \notin MayBill => Cardinality(Unbilled') <= Cardinality(Unbilled)
<1>1. Cardinality(Unbilled) \in Nat
  BY FS_CardinalityType
<1>2. w \in Unbilled <=> pc[w] \in MayBill
  BY DEF Unbilled
<1>3. CASE place \in MayBill
  <2>1. Unbilled' = Unbilled \cup {w}
    BY <1>3 DEF Unbilled, TypeOK
  <2>2. QED
    BY <1>1, <1>2, <1>3, <2>1, FS_AddElement, FS_CardinalityType
<1>4. CASE place \notin MayBill
  <2>1. Unbilled' = Unbilled \ {w}
    BY <1>4 DEF Unbilled, TypeOK
  <2>2. IsFiniteSet(Unbilled') /\ Cardinality(Unbilled') \in Nat
    BY <2>1, FS_RemoveElement, FS_CardinalityType
  <2>3. QED
    BY <1>1, <1>2, <1>4, <2>1, <2>2, FS_RemoveElement
<1>5. QED
  BY <1>3, <1>4

(* The steps of which none bills, queues the job or has a run claim it. *)
LEMMA NoBillInv ==
    ASSUME MessageInv, BillInv, NEW w \in Workers, NEW place \in Places \ {"committed"},
           pc' = [pc EXCEPT ![w] = place],
           place \in MayBill => pc[w] \in MayBill,
           UNCHANGED <<bills, attempt>>,
           job' = job \/ job' = "failed",
           \A m \in Entries : entry'[m] = "acked" => entry[m] = "acked" \/ bills > 0
    PROVE  BillInv'
<1> USE DEF BillInv, MessageInv
<1>1. QueuedBillsOnce'
  <2>1. /\ IsFiniteSet(Unbilled') /\ Cardinality(Unbilled) \in Nat
        /\ Cardinality(Unbilled') \in Nat /\ Cardinality(Unbilled') <= Cardinality(Unbilled)
    <3>1. place \in Places /\ IsFiniteSet(Unbilled) /\ TypeOK
      BY DEF QueuedBillsOnce
    <3>2. CASE place \in MayBill
      <4>1. /\ IsFiniteSet(Unbilled') /\ Cardinality(Unbilled) \in Nat
            /\ Cardinality(Unbilled') = Cardinality(Unbilled)
        BY <3>1, <3>2, UnbilledMoves
      <4>2. QED
        BY <4>1
    <3>3. CASE place \notin MayBill
      BY <3>1, <3>3, UnbilledMoves
    <3>4. QED
      BY <3>2, <3>3
  <2>2. bills \in Nat /\ attempt \in Nat
    BY DEF TypeOK
  <2>3. QED
    BY <2>1, <2>2 DEF QueuedBillsOnce
<1>2. CommittedIsBilled'
  BY DEF CommittedIsBilled, TypeOK
<1>3. AckedIsCompleted'
  BY DEF AckedIsCompleted
<1>4. QED
  BY <1>1, <1>2, <1>3

LEMMA CompleteBillInv ==
    ASSUME MessageInv, BillInv, NEW w \in Workers, Complete(w)
    PROVE  BillInv'
<1> USE DEF BillInv, MessageInv
<1>a. PICK place \in {"committed", "failing"} : pc' = [pc EXCEPT ![w] = place]
  BY DEF Complete, Goto
<1>b. /\ IsFiniteSet(Unbilled') /\ Cardinality(Unbilled) \in Nat
      /\ Cardinality(Unbilled') = Cardinality(Unbilled) - 1
  <2>1. place \in Places /\ place \notin MayBill /\ pc[w] \in MayBill
    BY <1>a DEF Complete, Places, MayBill
  <2>2. QED
    BY <1>a, <2>1, UnbilledMoves DEF QueuedBillsOnce
<1>c. bills \in Nat /\ attempt \in Nat /\ bills' = bills + 1 /\ attempt' = attempt
      /\ job' = "completed" /\ entry' = entry
  BY DEF TypeOK, Complete, natsvars
<1>1. QueuedBillsOnce'
  BY <1>b, <1>c DEF QueuedBillsOnce
<1>2. CommittedIsBilled' /\ AckedIsCompleted'
  BY <1>c DEF CommittedIsBilled, AckedIsCompleted
<1>3. QED
  BY <1>1, <1>2

LEMMA ClaimBillInv ==
    ASSUME MessageInv, BillInv, NEW w \in Workers, ClaimJob(w)
    PROVE  BillInv'
<1> USE DEF BillInv, MessageInv
<1>a. pc' = [pc EXCEPT ![w] = "claimed"]
  BY DEF ClaimJob, Goto
<1>b. /\ IsFiniteSet(Unbilled') /\ Cardinality(Unbilled) \in Nat
      /\ Cardinality(Unbilled') = Cardinality(Unbilled) + 1
  <2>1. "claimed" \in Places /\ "claimed" \in MayBill /\ pc[w] \notin MayBill
    BY DEF ClaimJob, Places, MayBill
  <2>2. QED
    BY <1>a, <2>1, UnbilledMoves DEF QueuedBillsOnce
<1>c. /\ bills \in Nat /\ attempt \in Nat /\ UNCHANGED <<bills, attempt, entry>>
      /\ job = "queued" /\ job' = "processing"
  BY DEF TypeOK, ClaimJob, natsvars
<1>1. QueuedBillsOnce'
  BY <1>b, <1>c DEF QueuedBillsOnce
<1>2. CommittedIsBilled' /\ AckedIsCompleted'
  BY <1>a, <1>c DEF CommittedIsBilled, AckedIsCompleted, TypeOK
<1>3. QED
  BY <1>1, <1>2

LEMMA RequestBillInv ==
    ASSUME MessageInv, BillInv, NEW a \in Requesters, Request(a)
    PROVE  BillInv'
<1> USE DEF BillInv, MessageInv
<1>a. /\ Unbilled' = Unbilled /\ UNCHANGED <<pc, entry, bills>>
      /\ Cardinality(Unbilled) \in Nat /\ bills \in Nat /\ attempt \in Nat
  <2>1. UNCHANGED <<pc, entry, bills>>
    BY DEF Request, TriggerFirst, TriggerRead, TriggerRetry, TriggerFails,
           dbvars, natsvars, runvars
  <2>2. QED
    BY <2>1, FS_CardinalityType DEF Unbilled, QueuedBillsOnce, TypeOK
<1>1. QueuedBillsOnce'
  <2>1. CASE TriggerFirst(a)
    BY <2>1, <1>a DEF TriggerFirst, QueuedBillsOnce
  <2>2. CASE TriggerRetry(a)
    BY <2>2, <1>a DEF TriggerRetry, QueuedBillsOnce
  <2>3. CASE TriggerRead(a) \/ TriggerFails(a)
    BY <2>3, <1>a DEF TriggerRead, TriggerFails, QueuedBillsOnce, dbvars
  <2>4. QED
    BY <2>1, <2>2, <2>3 DEF Request
<1>2. CommittedIsBilled' /\ AckedIsCompleted'
  BY <1>a DEF CommittedIsBilled, AckedIsCompleted
<1>3. QED
  BY <1>1, <1>2

LEMMA NextBillInv == MessageInv /\ BillInv /\ [Next]_vars => BillInv'
<1> SUFFICES ASSUME MessageInv, BillInv, [Next]_vars
             PROVE  BillInv'
  OBVIOUS
<1> USE DEF dbvars, natsvars, runvars
<1>1. ASSUME NEW a \in Requesters, Request(a)
      PROVE  BillInv'
  BY <1>1, RequestBillInv
<1>2. ASSUME UNCHANGED <<job, attempt, bills, pc>>,
             \A m \in Entries : entry'[m] = "acked" => entry[m] = "acked"
      PROVE  BillInv'
  BY <1>2 DEF BillInv, QueuedBillsOnce, Unbilled, CommittedIsBilled, AckedIsCompleted
<1>3. ASSUME NEW m \in Entries, Message(m)
      PROVE  BillInv'
  <2>1. UNCHANGED <<job, attempt, bills, pc>>
    BY <1>3 DEF Message, Relay, AckWaitEnds
  <2>2. \A n \in Entries : entry'[n] = "acked" => entry[n] = "acked"
    BY <1>3, AgainType DEF Message, Relay, AckWaitEnds, MessageInv, TypeOK
  <2>3. QED
    BY <1>2, <2>1, <2>2
<1>4. ASSUME NEW w \in Workers,
             (\E f \in Files : Upload(w, f)) \/ CaptionsStep(w)
      PROVE  BillInv'
  BY <1>2, <1>4, CaptionsStepType DEF Upload, MessageInv
<1>5. ASSUME NEW w \in Workers, NEW m \in Entries, Fetch(w, m)
      PROVE  BillInv'
  <2>1. pc' = [pc EXCEPT ![w] = "fetched"] /\ "fetched" \in Places \ {"committed"}
        /\ "fetched" \notin MayBill
    BY <1>5 DEF Fetch, Places, MayBill
  <2>2. UNCHANGED <<job, bills, attempt>>
        /\ \A n \in Entries : entry'[n] = "acked" => entry[n] = "acked"
    BY <1>5 DEF Fetch, MessageInv, TypeOK
  <2>3. QED
    BY <2>1, <2>2, NoBillInv
<1>6. ASSUME NEW w \in Workers, ClaimJob(w)
      PROVE  BillInv'
  BY <1>6, ClaimBillInv
<1>7. ASSUME NEW w \in Workers, Complete(w)
      PROVE  BillInv'
  BY <1>7, CompleteBillInv
<1>8. ASSUME NEW w \in Workers,
             \/ Prepare(w) \/ Download(w) \/ DownloadFails(w)
             \/ EncodeDone(w) \/ EncodeFails(w) \/ CompleteFails(w) \/ FailJob(w)
      PROVE  BillInv'
  <2>1. PICK place \in Places \ {"committed"} :
            pc' = [pc EXCEPT ![w] = place] /\ (place \in MayBill => pc[w] \in MayBill)
    BY <1>8 DEF Prepare, Download, DownloadFails, EncodeDone, EncodeFails, CompleteFails,
                FailJob, Goto, Places, MayBill
  <2>2. UNCHANGED <<attempt, bills, entry>> /\ job' \in {job, "failed"}
    BY <1>8 DEF Prepare, Download, DownloadFails, EncodeDone, EncodeFails, CompleteFails,
                FailJob
  <2>3. QED
    BY <2>1, <2>2, NoBillInv
<1>9. ASSUME NEW w \in Workers,
             \/ ClaimRefused(w) \/ PrepareFails(w) \/ Acknowledge(w)
             \/ FailVideo(w) \/ Crash(w)
      PROVE  BillInv'
  <2>1. pc' = [pc EXCEPT ![w] = "idle"] /\ "idle" \in Places \ {"committed"}
        /\ "idle" \notin MayBill
    BY <1>9 DEF ClaimRefused, PrepareFails, Acknowledge, FailVideo, Crash, Ack, Nak, Leave,
                Places, MayBill
  <2>2. UNCHANGED <<job, attempt, bills>>
    BY <1>9 DEF ClaimRefused, PrepareFails, Acknowledge, FailVideo, Crash
  <2>3. \A m \in Entries : entry'[m] = "acked" => entry[m] = "acked" \/ bills > 0
    <3>1. CASE Acknowledge(w)
      BY <3>1 DEF Acknowledge, BillInv, CommittedIsBilled
    <3>2. CASE ClaimRefused(w) \/ PrepareFails(w) \/ FailVideo(w)
      <4>1. pc[w] # "idle" /\ Nak(w)
        BY <3>2 DEF ClaimRefused, PrepareFails, FailVideo
      <4>2. msg[w] \in Entries
        BY <4>1 DEF MessageInv, BusyHasMessage
      <4>3. QED
        BY <4>1, <4>2, AgainType DEF Nak, MessageInv, TypeOK
    <3>3. CASE Crash(w)
      BY <3>3 DEF Crash
    <3>4. QED
      BY <1>9, <3>1, <3>2, <3>3
  <2>4. QED
    BY <2>1, <2>2, <2>3, NoBillInv
<1>10. CASE UNCHANGED vars
  BY <1>2, <1>10 DEF vars
<1>11. QED
  BY <1>1, <1>3, <1>4, <1>5, <1>6, <1>7, <1>8, <1>9, <1>10 DEF Next, RunStep

-----------------------------------------------------------------------------
(* The captions: nothing takes the file or its row away, and a branch that *)
(* reports them has written both.                                          *)
LEMMA NextCaptions == TypeOK /\ CaptionsInv /\ [Next]_vars => CaptionsInv'
<1> SUFFICES ASSUME TypeOK, CaptionsInv, [Next]_vars
             PROVE  CaptionsInv'
  OBVIOUS
<1> USE DEF CaptionsInv, BranchIsStored, CaptionsReadyAreStored, dbvars, runvars
<1>1. ASSUME NEW a \in Requesters, Request(a)
      PROVE  CaptionsInv'
  BY <1>1 DEF Request, TriggerFirst, TriggerRead, TriggerRetry, TriggerFails
<1>2. ASSUME NEW m \in Entries, Message(m) \/ (\E w \in Workers : Fetch(w, m))
      PROVE  CaptionsInv'
  BY <1>2 DEF Message, Relay, AckWaitEnds, Fetch
<1>3. ASSUME NEW w \in Workers,
             \/ ClaimJob(w) \/ Prepare(w) \/ Download(w) \/ DownloadFails(w)
             \/ (\E f \in Files : Upload(w, f)) \/ EncodeDone(w) \/ EncodeFails(w)
             \/ Complete(w) \/ CompleteFails(w) \/ FailJob(w)
      PROVE  CaptionsInv'
  BY <1>3 DEF ClaimJob, Prepare, Download, DownloadFails, Upload, EncodeDone, EncodeFails,
              Complete, CompleteFails, FailJob
<1>4. ASSUME NEW w \in Workers, CaptionsStep(w)
      PROVE  CaptionsInv'
  <2>1. /\ cap' \in [Workers -> CapPlaces] /\ vtt \subseteq vtt' /\ vtt' \subseteq Captions
        /\ \A v \in Workers : v # w => cap'[v] = cap[v]
    BY <1>4, CaptionsStepType
  <2>2. /\ cap'[w] \in {"uploaded", "saved"} => "file" \in vtt'
        /\ cap'[w] = "saved" => "row" \in vtt'
    BY <1>4 DEF CaptionsStep, CaptionsStart, UploadCaption, SaveCaptionTrack, CaptionsFail,
                CaptionsReady, CaptionsMove, TypeOK
  <2>3. BranchIsStored'
    BY <2>1, <2>2
  <2>4. captions' = "ready" => captions = "ready" \/ vtt = Captions
    BY <1>4 DEF CaptionsStep, CaptionsStart, UploadCaption, SaveCaptionTrack, CaptionsFail,
                CaptionsReady, CaptionsMove, Captions, TypeOK
  <2>5. QED
    BY <2>1, <2>3, <2>4
<1>5. ASSUME NEW w \in Workers,
             \/ ClaimRefused(w) \/ PrepareFails(w) \/ Acknowledge(w)
             \/ FailVideo(w) \/ Crash(w)
      PROVE  CaptionsInv'
  <2>1. /\ vtt' = vtt /\ (captions' = "ready" => captions = "ready")
        /\ Leave(w)
    BY <1>5 DEF ClaimRefused, PrepareFails, Acknowledge, FailVideo, Crash, Ack, Nak
  <2>2. cap' = [cap EXCEPT ![w] = "todo"]
    BY <2>1 DEF Leave
  <2>3. QED
    BY <2>1, <2>2 DEF TypeOK
<1>6. CASE UNCHANGED vars
  BY <1>6 DEF vars
<1>7. QED
  BY <1>1, <1>2, <1>3, <1>4, <1>5, <1>6 DEF Next, RunStep

-----------------------------------------------------------------------------
LEMMA InitIInv == Init => IInv
<1> SUFFICES ASSUME Init
             PROVE  IInv
  OBVIOUS
<1>1. MessageInv
  BY InitMessageInv
<1>2. FileInv
  BY DEF Init, FileInv, RunsFilesAreStored, ReadyHasMaster
<1>3. BillInv
  <2>1. Unbilled = {}
    BY DEF Init, Unbilled, MayBill
  <2>2. IsFiniteSet(Unbilled) /\ Cardinality(Unbilled) = 0
    BY <2>1, FS_EmptySet
  <2>3. QED
    BY <2>2 DEF Init, BillInv, QueuedBillsOnce, CommittedIsBilled, AckedIsCompleted
<1>4. CaptionsInv
  BY DEF Init, CaptionsInv, BranchIsStored, CaptionsReadyAreStored
<1>5. QED
  BY <1>1, <1>2, <1>3, <1>4 DEF IInv

LEMMA NextIInv == IInv /\ [Next]_vars => IInv'
BY NextMessageInv, NextFileInv, NextBillInv, NextCaptions DEF IInv, MessageInv

(* The invariant holds in every state the job reaches, however requests,   *)
(* redeliveries, runs, failures and crashes interleave.                    *)
THEOREM Inductive == Spec => []IInv
BY InitIInv, NextIInv, PTL DEF Spec

(* The rows, the messages and the slots keep to their types: no message is *)
(* delivered more than MaxDeliver times.                                   *)
THEOREM TypesKept == Spec => []TypeOK
<1>1. IInv => TypeOK
  BY DEF IInv, MessageInv
<1>2. QED
  BY <1>1, Inductive, PTL

(* A video is ready only with its master playlist in storage, also when    *)
(* the run that completed it reused another's output, or wrote over it.    *)
THEOREM ReadyMaster == Spec => []ReadyHasMaster
<1>1. IInv => ReadyHasMaster
  BY DEF IInv, FileInv
<1>2. QED
  BY <1>1, Inductive, PTL

(* Process acknowledges a job message only when a completion has           *)
(* committed.                                                              *)
THEOREM AckedCompleted == Spec => []AckedIsCompleted
<1>1. IInv => AckedIsCompleted
  BY DEF IInv, BillInv
<1>2. QED
  BY <1>1, Inductive, PTL

(* completeJobWithBilling writes at most one usage event for each time the *)
(* job was queued, also when requests race and runs overlap.               *)
THEOREM BillsBound == Spec => []BillsBounded
<1>1. IInv => BillsBounded
  <2> SUFFICES ASSUME IInv
               PROVE  BillsBounded
    OBVIOUS
  <2>1. /\ Cardinality(Unbilled) \in Nat /\ bills \in Nat /\ attempt \in Nat
        /\ QueuedBillsOnce
    BY FS_CardinalityType DEF IInv, MessageInv, TypeOK, BillInv, QueuedBillsOnce
  <2>2. QED
    BY <2>1 DEF QueuedBillsOnce, BillsBounded
<1>2. QED
  BY <1>1, Inductive, PTL

(* The captions of a video are reported ready only when their file and its *)
(* row have been written, whichever of the writes of whichever run fails.  *)
THEOREM CaptionsStored == Spec => []CaptionsReadyAreStored
<1>1. IInv => CaptionsReadyAreStored
  BY DEF IInv, CaptionsInv
<1>2. QED
  BY <1>1, Inductive, PTL

-----------------------------------------------------------------------------
(* The exclusion.  Who is at work after a run has moved. *)
LEMMA WorksMoves ==
    ASSUME TypeOK, NEW w \in Workers, NEW place \in Places, pc' = [pc EXCEPT ![w] = place]
    PROVE  /\ pc'[w] = place
           /\ \A v \in Workers : v # w => pc'[v] = pc[v] /\ Works(v)' = Works(v)
BY DEF TypeOK, Works

LEMMA InitExclusion == Init => ExclusionInv
BY DEF Init, ExclusionInv, OneRunPerJob, Works, WorkingJob, RetriedJobIsFailed

(* A run that does not claim the job and does not write its status. *)
LEMMA KeepJobExclusion ==
    ASSUME TypeOK, ExclusionInv, NEW w \in Workers, NEW place \in Places,
           pc' = [pc EXCEPT ![w] = place],
           place \in {"claimed", "prepared", "encoding", "finishing", "failing"} => Works(w),
           place # "failing" => pc[w] # "failing" \/ ~Works(w)',
           UNCHANGED <<job, req>>
    PROVE  ExclusionInv'
<1> USE DEF ExclusionInv
<1>1. Works(w)' => Works(w)
  BY WorksMoves DEF Works
<1>2. OneRunPerJob'
  BY <1>1, WorksMoves DEF OneRunPerJob
<1>3. WorkingJob'
  BY <1>1, WorksMoves DEF WorkingJob, Works
<1>4. RetriedJobIsFailed'
  BY DEF RetriedJobIsFailed
<1>5. QED
  BY <1>2, <1>3, <1>4

LEMMA RequestExclusion ==
    ASSUME OneRequester, TypeOK, ExclusionInv, NEW a \in Requesters, Request(a)
    PROVE  ExclusionInv'
<1> USE DEF ExclusionInv
<1>a. UNCHANGED pc
  BY DEF Request, TriggerFirst, TriggerRead, TriggerRetry, TriggerFails, runvars
<1>1. OneRunPerJob'
  BY <1>a DEF OneRunPerJob, Works
<1>2. WorkingJob'
  BY <1>a DEF Request, TriggerFirst, TriggerRead, TriggerRetry, TriggerFails, dbvars,
              WorkingJob, Works, RetriedJobIsFailed
<1>3. RetriedJobIsFailed'
  <2>1. \A b \in Requesters : b = a
    BY DEF OneRequester
  <2>2. QED
    BY <2>1 DEF Request, TriggerFirst, TriggerRead, TriggerRetry, TriggerFails, dbvars,
                Retryable, RetriedJobIsFailed, TypeOK
<1>4. QED
  BY <1>1, <1>2, <1>3

(* A claim finds nobody at work. *)
LEMMA ClaimExclusion ==
    ASSUME TypeOK, ExclusionInv, NEW w \in Workers, ClaimJob(w)
    PROVE  ExclusionInv'
<1> USE DEF ExclusionInv
<1>a. job = "queued" /\ job' = "processing" /\ req' = req
      /\ pc' = [pc EXCEPT ![w] = "claimed"] /\ "claimed" \in Places
  BY DEF ClaimJob, Goto, Places
<1>b. \A v \in Workers : ~Works(v)
  BY <1>a DEF WorkingJob
<1>1. OneRunPerJob'
  BY <1>a, <1>b, WorksMoves DEF OneRunPerJob
<1>2. WorkingJob'
  BY <1>a DEF WorkingJob
<1>3. RetriedJobIsFailed'
  BY <1>a DEF RetriedJobIsFailed
<1>4. QED
  BY <1>1, <1>2, <1>3

(* The run that writes the outcome is the only one at work. *)
LEMMA OutcomeExclusion ==
    ASSUME TypeOK, ExclusionInv, NEW w \in Workers, Complete(w) \/ FailJob(w)
    PROVE  ExclusionInv'
<1> USE DEF ExclusionInv
<1>a. PICK place \in {"committed", "failing", "failed"} :
          /\ pc' = [pc EXCEPT ![w] = place] /\ req' = req
          /\ place = "failing" => job' = "completed"
  BY DEF Complete, FailJob, Goto
<1>b. Works(w) /\ place \in Places
  BY DEF Complete, FailJob, Works, Places
<1>c. \A v \in Workers : v # w => ~Works(v)'
  BY <1>a, <1>b, WorksMoves DEF OneRunPerJob
<1>1. OneRunPerJob'
  BY <1>c DEF OneRunPerJob
<1>2. WorkingJob'
  BY <1>a, <1>b, <1>c, WorksMoves DEF WorkingJob, Works
<1>3. RetriedJobIsFailed'
  BY <1>a, <1>b DEF RetriedJobIsFailed, WorkingJob
<1>4. QED
  BY <1>1, <1>2, <1>3

LEMMA NextExclusion ==
    ASSUME OneRequester
    PROVE  TypeOK /\ ExclusionInv /\ [Next]_vars => ExclusionInv'
<1> SUFFICES ASSUME TypeOK, ExclusionInv, [Next]_vars
             PROVE  ExclusionInv'
  OBVIOUS
<1> USE DEF dbvars, natsvars, runvars
<1>1. ASSUME NEW a \in Requesters, Request(a)
      PROVE  ExclusionInv'
  BY <1>1, RequestExclusion
<1>2. ASSUME UNCHANGED <<job, req, pc>>
      PROVE  ExclusionInv'
  BY <1>2 DEF ExclusionInv, OneRunPerJob, Works, WorkingJob, RetriedJobIsFailed
<1>3. ASSUME NEW m \in Entries, Message(m)
      PROVE  ExclusionInv'
  BY <1>2, <1>3 DEF Message, Relay, AckWaitEnds
<1>4. ASSUME NEW w \in Workers,
             (\E f \in Files : Upload(w, f)) \/ CaptionsStep(w)
      PROVE  ExclusionInv'
  BY <1>2, <1>4, CaptionsStepType DEF Upload
<1>5. ASSUME NEW w \in Workers, ClaimJob(w)
      PROVE  ExclusionInv'
  BY <1>5, ClaimExclusion
<1>6. ASSUME NEW w \in Workers, Complete(w) \/ FailJob(w)
      PROVE  ExclusionInv'
  BY <1>6, OutcomeExclusion
<1>7. ASSUME NEW w \in Workers, NEW m \in Entries, Fetch(w, m)
      PROVE  ExclusionInv'
  <2>1. pc' = [pc EXCEPT ![w] = "fetched"] /\ "fetched" \in Places /\ UNCHANGED <<job, req>>
        /\ pc[w] = "idle"
    BY <1>7 DEF Fetch, Places
  <2>2. QED
    BY <2>1, KeepJobExclusion
<1>8. ASSUME NEW w \in Workers,
             \/ Prepare(w) \/ Download(w) \/ DownloadFails(w)
             \/ EncodeDone(w) \/ EncodeFails(w) \/ CompleteFails(w)
      PROVE  ExclusionInv'
  <2>1. PICK place \in Places : pc' = [pc EXCEPT ![w] = place]
    BY <1>8 DEF Prepare, Download, DownloadFails, EncodeDone, EncodeFails, CompleteFails,
                Goto, Places
  <2>2. Works(w) /\ pc[w] # "failing" /\ UNCHANGED <<job, req>>
    BY <1>8 DEF Prepare, Download, DownloadFails, EncodeDone, EncodeFails, CompleteFails,
                Works
  <2>3. QED
    BY <2>1, <2>2, KeepJobExclusion
<1>9. ASSUME NEW w \in Workers,
             \/ ClaimRefused(w) \/ PrepareFails(w) \/ Acknowledge(w)
             \/ FailVideo(w) \/ Crash(w)
      PROVE  ExclusionInv'
  <2>1. pc' = [pc EXCEPT ![w] = "idle"] /\ "idle" \in Places /\ UNCHANGED <<job, req>>
    BY <1>9 DEF ClaimRefused, PrepareFails, Acknowledge, FailVideo, Crash, Ack, Nak, Leave,
                Places
  <2>2. ~Works(w)'
    BY <2>1, WorksMoves DEF Works
  <2>3. QED
    BY <2>1, <2>2, KeepJobExclusion
<1>10. CASE UNCHANGED vars
  BY <1>2, <1>10 DEF vars
<1>11. QED
  BY <1>1, <1>3, <1>4, <1>5, <1>6, <1>7, <1>8, <1>9, <1>10 DEF Next, RunStep

LEMMA ExclusionInductive ==
    ASSUME OneRequester
    PROVE  Spec => []ExclusionInv
<1>1. TypeOK /\ ExclusionInv /\ [Next]_vars => ExclusionInv'
  BY NextExclusion
<1>2. QED
  BY <1>1, InitExclusion, TypesKept, PTL DEF Spec

(* claimJob is exclusive as long as no two requests of TriggerJob race:    *)
(* no two runs work for the job at once, whatever is delivered again and   *)
(* whoever crashes.  Without the assumption it is false.                   *)
THEOREM OneRun ==
    ASSUME OneRequester
    PROVE  Spec => []OneRunPerJob
<1>1. ExclusionInv => OneRunPerJob
  BY DEF ExclusionInv
<1>2. QED
  BY <1>1, ExclusionInductive, PTL

(* What a step that moves the job's status says of the runs at work. *)
LEMMA StatusMoves ==
    ASSUME TypeOK, ExclusionInv, [Next]_vars, NEW w \in Workers, Works(w), pc'[w] = pc[w]
    PROVE  job' = job
<1> USE DEF ExclusionInv, dbvars, natsvars, runvars
<1>1. ASSUME NEW a \in Requesters, Request(a)
      PROVE  job' = job
  BY <1>1 DEF Request, TriggerFirst, TriggerRead, TriggerRetry, TriggerFails,
              WorkingJob, RetriedJobIsFailed
<1>2. ASSUME NEW m \in Entries, Message(m) \/ (\E v \in Workers : Fetch(v, m))
      PROVE  job' = job
  BY <1>2 DEF Message, Relay, AckWaitEnds, Fetch
<1>3. ASSUME NEW v \in Workers, ClaimJob(v)
      PROVE  FALSE
  BY <1>3 DEF ClaimJob, WorkingJob
<1>4. ASSUME NEW v \in Workers, Complete(v) \/ FailJob(v)
      PROVE  FALSE
  <2>1. v = w
    BY <1>4 DEF Complete, FailJob, Works, OneRunPerJob
  <2>2. pc'[w] # pc[w]
    BY <1>4, <2>1 DEF Complete, FailJob, Goto, TypeOK
  <2>3. QED
    BY <2>2
<1>5. ASSUME NEW v \in Workers,
             \/ ClaimRefused(v) \/ Prepare(v) \/ PrepareFails(v)
             \/ Download(v) \/ DownloadFails(v) \/ (\E f \in Files : Upload(v, f))
             \/ CaptionsStep(v)
      PROVE  job' = job
  BY <1>5, CaptionsStepType
     DEF ClaimRefused, Prepare, PrepareFails, Download, DownloadFails, Upload
<1>6. ASSUME NEW v \in Workers,
             \/ EncodeDone(v) \/ EncodeFails(v) \/ CompleteFails(v) \/ Acknowledge(v)
             \/ FailVideo(v) \/ Crash(v)
      PROVE  job' = job
  BY <1>6 DEF EncodeDone, EncodeFails, CompleteFails, Acknowledge, FailVideo, Crash
<1>7. CASE UNCHANGED vars
  BY <1>7 DEF vars
<1>8. QED
  BY <1>1, <1>2, <1>3, <1>4, <1>5, <1>6, <1>7 DEF Next, RunStep

(* While a run works for the job, only its own outcome moves the job's     *)
(* status, under the same assumption.                                      *)
THEOREM StatusIsTheRuns ==
    ASSUME OneRequester
    PROVE  Spec => ClaimIsExclusive
<1>1. TypeOK /\ ExclusionInv /\ [Next]_vars =>
          [\A w \in Workers : Works(w) /\ pc'[w] = pc[w] => job' = job]_vars
  BY StatusMoves
<1>2. QED
  BY <1>1, ExclusionInductive, TypesKept, PTL DEF Spec, ClaimIsExclusive

=============================================================================
