------------------------------ MODULE SdkUpload ------------------------------
(***************************************************************************)
(* uploadVideo of the JavaScript SDK (sdk/js/packages/sdk/src/client and   *)
(* services/uploadFile.ts) against the multipart handlers of the API: one  *)
(* request creates the video row and the multipart upload, one fetches the *)
(* URLs of the parts, each part is PUT to storage, and one completes the   *)
(* upload.  Any request may fail before or after it took effect; nothing   *)
(* is tried again, and nothing is taken back.                              *)
(*                                                                         *)
(* A file is told by the number of parts of 5 MB it fills; the k-th slice  *)
(* of it is the number k, an empty blob is Empty.  A Buffer is taken for a *)
(* File all the way: it has no size, the ends of its slices are NaN, and   *)
(* so is the progress that is counted from them.                           *)
(***************************************************************************)
EXTENDS Naturals, Sequences, Functions

CONSTANTS Calls,         \* calls of uploadVideo
          Files,         \* the calls given a File, the others a Buffer
          FileName,      \* the name of each File
          BufferName,    \* the name of any Buffer ("upload")
          PartsOf,       \* parts of 5 MB the call's file fills
          DefaultCount,  \* parts the API signs when none are asked for (10)
          Fields,        \* names the API may give the number of a part
          NaN

ASSUME SdkUploadAssumption ==
    /\ Files \subseteq Calls
    /\ PartsOf \in [Calls -> Nat]
    /\ DefaultCount \in Nat \ {0, 1}
    /\ Fields \subseteq {"partNumber", "PartNumber", "part_number"}
    /\ NaN \notin Nat

VARIABLES
    field,      \* the name this API gives the number of a part
    rows,       \* calls whose video row exists
    pending,    \* calls whose multipart upload is open in storage
    put,        \* slices stored under each part of a multipart upload
    object,     \* content of the object of each name
    pc, err,    \* where a call is, what it threw
    urls, sent, \* parts it was given, parts it will name at completion
    loaded,     \* full parts its progress callback has reported
    made        \* the content storage has put together for it, if any

api  == <<rows, pending, put, object>>
vars == <<field, api, pc, err, urls, sent, loaded, made>>

Empty == 0
Whole(c) == [k \in 1..PartsOf[c] |-> k]
PartNumbers(c) == 1..(IF PartsOf[c] = 0 THEN DefaultCount ELSE PartsOf[c])
Slices(c) == 0..PartsOf[c]
Places == {"idle", "parts", "putting", "done", "failed"}
Errors == {"none", "route", "message"}

(* extractFileMeta *)
Meta(c) == [filename |-> IF c \in Files THEN FileName[c] ELSE BufferName,
            size |-> PartsOf[c]]
Names == {Meta(c).filename : c \in Calls}

TypeOK ==
    /\ field \in Fields
    /\ rows \subseteq Calls /\ pending \subseteq rows
    /\ \A c \in Calls :
          /\ DOMAIN put[c] \subseteq PartNumbers(c) /\ Range(put[c]) \subseteq Slices(c)
          /\ urls[c] \in {0} \cup PartNumbers(c) /\ Len(sent[c]) <= urls[c]
          /\ loaded[c] \in IF c \in Files THEN Slices(c) ELSE {0, NaN}
    /\ DOMAIN object = Names
    /\ pc \in [Calls -> Places] /\ err \in [Calls -> Errors]

Init ==
    /\ field \in Fields
    /\ rows = {} /\ pending = {}
    /\ put = [c \in Calls |-> <<>>]
    /\ object = [n \in Names |-> <<>>]
    /\ pc = [c \in Calls |-> "idle"]
    /\ err = [c \in Calls |-> "none"]
    /\ urls = [c \in Calls |-> 0]
    /\ sent = [c \in Calls |-> <<>>]
    /\ loaded = [c \in Calls |-> 0]
    /\ made = [c \in Calls |-> {}]

-----------------------------------------------------------------------------
(* Statuses of the multipart handlers and of authentication other than     *)
(* 2xx, and no answer at all (0).                                          *)
Replies == {0, 400, 401, 404, 500}

(* handleApiError; its error for a plan gate (403) is for other routes.    *)
ApiError(status) == IF status = 404 THEN "route" ELSE "message"

(* A client that begins again at every error. *)
Throw_Again(c, e) ==
    /\ pc' = [pc EXCEPT ![c] = "parts"]
    /\ err' = [err EXCEPT ![c] = e]

(* The call throws, and does not try again. *)
Throw(c, e) ==
    /\ pc' = [pc EXCEPT ![c] = "failed"]
    /\ err' = [err EXCEPT ![c] = e]

Goto(c, place) ==
    /\ pc' = [pc EXCEPT ![c] = place]
    /\ UNCHANGED err

(* this.request: the answer is taken, or lost or turned into an error. *)
Request(c, place) ==
    \/ Goto(c, place)
    \/ \E r \in Replies : Throw(c, ApiError(r))

(* The same request when the API did not do what it asks. *)
Refused(c) == \E r \in Replies : Throw(c, ApiError(r))

(* POST /videos/multipart: the row, then the multipart upload. *)
Initiate(c) ==
    /\ pc[c] = "idle"
    /\ rows' = rows \cup {c}
    /\ pending' = pending \cup {c}
    /\ Request(c, "parts")
    /\ UNCHANGED <<field, put, object, urls, sent, loaded, made>>

InitiateFails(c) ==
    /\ pc[c] = "idle"
    /\ rows' \in {rows, rows \cup {c}}
    /\ Refused(c)
    /\ UNCHANGED <<field, pending, put, object, urls, sent, loaded, made>>

(* GET /videos/multipart/{id}/parts with count = ceil(size / 5 MB), where  *)
(* the API takes a count below one for ten.                                *)
GetParts(c) ==
    /\ pc[c] = "parts"
    /\ urls' = [urls EXCEPT ![c] = IF Meta(c).size < 1 THEN DefaultCount ELSE Meta(c).size]
    /\ Goto(c, "putting")
    /\ UNCHANGED <<field, api, sent, loaded, made>>

GetPartsFails(c) ==
    /\ pc[c] = "parts"
    /\ Refused(c)
    /\ UNCHANGED <<field, api, urls, sent, loaded, made>>

-----------------------------------------------------------------------------
(* p.partNumber ?? p.PartNumber *)
ReadsNumber == field \in {"partNumber", "PartNumber"}

(* A slice that starts one part late. *)
Chunk_Late(c, k) ==
    IF c \in Files /\ ReadsNumber /\ k < PartsOf[c] THEN k + 1 ELSE Empty

(* file.slice(start, end) with start = (partNum - 1) * partSize and end at *)
(* most file.size: without a number both are NaN, without a size the end   *)
(* is, and the blob is empty.                                              *)
Chunk(c, k) == IF c \in Files /\ ReadsNumber /\ k <= PartsOf[c] THEN k ELSE Empty

(* The next URL of the loop. *)
Part(c) == Len(sent[c]) + 1
Stored(c) ==
    [put EXCEPT ![c] = [k \in DOMAIN @ \cup {Part(c)} |->
                           IF k = Part(c) THEN Chunk(c, k) ELSE @[k]]]

PartSent(c, chunk) ==
    [sent EXCEPT ![c] = Append(@, [number |-> IF ReadsNumber THEN Part(c) ELSE 0,
                                   chunk |-> chunk])]

(* Progress that counts parts, not bytes. *)
Counted_Parts(c) == [loaded EXCEPT ![c] = IF c \notin Files THEN NaN ELSE @ + 1]

(* uploadedBytes += chunk.size, which a Buffer does not have.              *)
Counted(c) ==
    [loaded EXCEPT ![c] = IF c \notin Files THEN NaN
                          ELSE IF Chunk(c, Part(c)) = Empty THEN @ ELSE @ + 1]

(* PUT of one part, its ETag kept and its bytes counted. *)
PutPart(c) ==
    /\ pc[c] = "putting" /\ Part(c) <= urls[c]
    /\ put' = Stored(c)
    /\ sent' = PartSent(c, Chunk(c, Part(c)))
    /\ loaded' = Counted(c)
    /\ UNCHANGED <<field, rows, pending, object, pc, err, urls, made>>

(* A loop that goes on after a failed PUT. *)
PutPartFails_GoesOn(c) ==
    /\ pc[c] = "putting" /\ Part(c) <= urls[c]
    /\ sent' = PartSent(c, Empty)
    /\ loaded' = Counted(c)
    /\ UNCHANGED <<field, api, pc, err, urls, made>>

(* The PUT fails, its answer is lost, or shows no ETag: the call throws.   *)
PutPartFails(c) ==
    /\ pc[c] = "putting" /\ Part(c) <= urls[c]
    /\ put' \in {put, Stored(c)}
    /\ Throw(c, "message")
    /\ UNCHANGED <<field, rows, pending, object, urls, sent, loaded, made>>

-----------------------------------------------------------------------------
(* Storage takes parts in ascending order that it holds, all but the last  *)
(* of them full.                                                           *)
Completable(c) ==
    /\ c \in pending
    /\ sent[c] # <<>>
    /\ \A i \in DOMAIN sent[c] :
          /\ sent[c][i].number \in DOMAIN put[c]
          /\ put[c][sent[c][i].number] = sent[c][i].chunk
          /\ i > 1 => sent[c][i - 1].number < sent[c][i].number
          /\ i < Len(sent[c]) => sent[c][i].chunk # Empty

(* The full parts, one after the other; an empty last part adds nothing.   *)
Content(c) ==
    [i \in {k \in DOMAIN sent[c] : sent[c][k].chunk # Empty} |-> sent[c][i].chunk]

AllSent(c) == pc[c] = "putting" /\ Len(sent[c]) = urls[c]

(* POST /videos/multipart/{id}/complete: storage puts the parts together   *)
(* under the key account/videos/filename.                                  *)
CompleteUpload(c) ==
    /\ AllSent(c) /\ Completable(c)
    /\ object' = [object EXCEPT ![Meta(c).filename] = Content(c)]
    /\ made' = [made EXCEPT ![c] = {Content(c)}]
    /\ pending' = pending \ {c}
    /\ Request(c, "done")
    /\ UNCHANGED <<field, rows, put, urls, sent, loaded>>

(* A failure that clears away what is stored under the name. *)
CompleteFails_Deletes(c) ==
    /\ AllSent(c)
    /\ Refused(c)
    /\ object' = [object EXCEPT ![Meta(c).filename] = <<>>]
    /\ UNCHANGED <<field, rows, pending, put, urls, sent, loaded, made>>

(* Any answer but success, storage refusing the parts included. *)
CompleteFails(c) ==
    /\ AllSent(c)
    /\ Refused(c)
    /\ UNCHANGED <<field, api, urls, sent, loaded, made>>

-----------------------------------------------------------------------------
Step(c) ==
    \/ Initiate(c) \/ InitiateFails(c)
    \/ GetParts(c) \/ GetPartsFails(c)
    \/ PutPart(c) \/ PutPartFails(c)
    \/ CompleteUpload(c) \/ CompleteFails(c)

Next == \E c \in Calls : Step(c)

(* Every fetch ends, with an answer or without. *)
Fairness == \A c \in Calls : WF_vars(Step(c) /\ pc[c] # "idle")

Spec == Init /\ [][Next]_vars /\ Fairness

-----------------------------------------------------------------------------
(* A call for a File that returns its key has had the whole file put       *)
(* together, slice after slice: no lost PUT, empty answer or odd size is   *)
(* taken for success (uploadVideo).                                        *)
DoneIsWhole == \A c \in Files : pc[c] = "done" => made[c] = {Whole(c)}

(* Progress reaches 100 percent only when storage holds every slice under  *)
(* the part it belongs to; for a Buffer it never does (uploadFile).        *)
FullProgressIsStored ==
    \A c \in Calls :
        loaded[c] = PartsOf[c] /\ PartsOf[c] > 0 =>
            \A k \in 1..PartsOf[c] : k \in DOMAIN put[c] /\ put[c][k] = k

(* The object of a finished File is replaced only by a completed upload of *)
(* the same name, which all Buffers have (extractFileMeta, uploadVideo).   *)
OnlyNamesakesReplace ==
    \A c \in Files :
        pc[c] = "done" /\ object[Meta(c).filename] # Whole(c) =>
            \E d \in Calls \ {c} : Meta(d).filename = Meta(c).filename /\ made[d] # {}

(* A returned key is the "object storage key of the uploaded video"        *)
(* (content/docs/javascript.mdx, line 40): what storage has put together   *)
(* under it is the video, also when that was given as a Buffer.  Not what  *)
(* the code does: a Buffer of one part is stored as an empty object.       *)
ReturnedKeyIsWhole == \A c \in Calls : pc[c] = "done" => made[c] = {Whole(c)}

(* "OMC API returns partNumber (lowercase); support both casings"          *)
(* (uploadFile.ts, line 19): the number of every part that is put is read. *)
(* Not what the code does with the name this API gives it, part_number.    *)
NumbersAreRead == \A c \in Calls : \A i \in DOMAIN sent[c] : sent[c][i].number = i

(* Every call returns its key or throws, for whatever files, when each of  *)
(* its fetches ends (uploadVideo, uploadFile).                             *)
CallsEnd == \A c \in Calls : pc[c] = "parts" ~> pc[c] \in {"done", "failed"}
=============================================================================
