-------------------------- MODULE SdkUploadProofs --------------------------
(***************************************************************************)
(* The safety properties of SdkUpload for any calls, any Files, Buffers    *)
(* and names, and any API that names the number of a part in one of the    *)
(* three ways, by an inductive invariant.                                  *)
(***************************************************************************)
EXTENDS SdkUpload, TLAPS

(* The parts a call asks for, as the API counts them. *)
Count(c) == IF PartsOf[c] = 0 THEN DefaultCount ELSE PartsOf[c]

SentPart(c, i) == [number |-> IF ReadsNumber THEN i ELSE 0, chunk |-> Chunk(c, i)]

IsFunction(f) == f = [x \in DOMAIN f |-> f[x]]

Types ==
    /\ TypeOK
    /\ DOMAIN put = Calls /\ IsFunction(put) /\ \A c \in Calls : IsFunction(put[c])
    /\ urls \in [Calls -> Nat] /\ loaded \in [Calls -> Nat \cup {NaN}]
    /\ sent \in [Calls -> Seq([number : Nat, chunk : Nat])]
    /\ made \in [Calls -> SUBSET Seq(Nat)] /\ object \in [Names -> Seq(Nat)]

(* A call that puts parts has a URL for every part of its file. *)
PuttingHasUrls == \A c \in Calls : pc[c] = "putting" => urls[c] = Count(c)

(* What a call will name at completion is what it has read and put. *)
SentIsPut ==
    \A c \in Calls : \A i \in 1..Len(sent[c]) :
        sent[c][i] = SentPart(c, i) /\ i \in DOMAIN put[c] /\ put[c][i] = Chunk(c, i)

(* Progress counts the slices of a File among the parts put: all of them   *)
(* up to its end, or none when the number of a part was not found.         *)
LoadedIsSent ==
    \A c \in Files :
        loaded[c] = IF ~ReadsNumber THEN 0
                    ELSE IF Len(sent[c]) <= PartsOf[c] THEN Len(sent[c]) ELSE PartsOf[c]

IInv ==
    /\ Types
    /\ PuttingHasUrls
    /\ SentIsPut
    /\ LoadedIsSent
    /\ DoneIsWhole
    /\ OnlyNamesakesReplace

LEMMA FilesAreCalls == \A c \in Files : c \in Calls
BY SdkUploadAssumption

LEMMA CountType ==
    ASSUME NEW c \in Calls
    PROVE  /\ PartsOf[c] \in Nat /\ Count(c) \in Nat /\ Count(c) >= 1 /\ Count(c) >= PartsOf[c]
           /\ PartNumbers(c) = 1..Count(c)
           /\ (IF Meta(c).size < 1 THEN DefaultCount ELSE Meta(c).size) = Count(c)
           /\ Meta(c).filename \in Names
<1>1. PartsOf[c] \in Nat /\ DefaultCount \in Nat /\ DefaultCount >= 1
  BY SdkUploadAssumption
<1>2. Meta(c).size = PartsOf[c] /\ Meta(c).filename \in Names
  BY DEF Meta, Names
<1>3. QED
  BY <1>1, <1>2 DEF Count, PartNumbers

(* What the SDK reads of a part: its slice, or an empty blob when it finds *)
(* no number for it or the file has no such slice.                         *)
LEMMA ChunkType ==
    ASSUME NEW c \in Calls, NEW k \in Nat, k >= 1
    PROVE  /\ Chunk(c, k) \in Slices(c) /\ Chunk(c, k) \in Nat
           /\ Chunk(c, k) # Empty <=> c \in Files /\ ReadsNumber /\ k <= PartsOf[c]
           /\ Chunk(c, k) # Empty => Chunk(c, k) = k
<1>1. PartsOf[c] \in Nat
  BY CountType
<1>2. QED
  BY <1>1 DEF Chunk, Slices, Empty

LEMMA RequestMoves ==
    ASSUME TypeOK, NEW c \in Calls, NEW place \in Places,
           Request(c, place) \/ Goto(c, place) \/ Refused(c)
    PROVE  /\ pc' \in [Calls -> Places] /\ err' \in [Calls -> Errors]
           /\ pc'[c] \in {place, "failed"} /\ (Refused(c) => pc'[c] = "failed")
           /\ \A d \in Calls : d # c => pc'[d] = pc[d]
<1>1. \A r \in Replies : ApiError(r) \in Errors
  BY DEF ApiError, Errors
<1>2. CASE Goto(c, place)
  BY <1>2 DEF Goto, TypeOK, Refused, Throw
<1>3. CASE Refused(c)
  <2>1. PICK r \in Replies : Throw(c, ApiError(r))
    BY <1>3 DEF Refused
  <2>2. QED
    BY <1>1, <2>1 DEF Throw, TypeOK, Places
<1>4. QED
  BY <1>2, <1>3 DEF Request, Refused

-----------------------------------------------------------------------------
LEMMA InitIInv == Init => IInv
<1> SUFFICES ASSUME Init
             PROVE  IInv
  OBVIOUS
<1> USE DEF Init
<1>a. <<>> \in Seq(Nat) /\ <<>> \in Seq([number : Nat, chunk : Nat]) /\ Len(<<>>) = 0
  OBVIOUS
<1>1. TypeOK
  <2>1. \A c \in Calls : DOMAIN put[c] \subseteq PartNumbers(c) /\ Range(put[c]) \subseteq Slices(c)
    BY DEF Range
  <2>2. \A c \in Calls : /\ urls[c] \in {0} \cup PartNumbers(c) /\ Len(sent[c]) <= urls[c]
                         /\ loaded[c] \in IF c \in Files THEN Slices(c) ELSE {0, NaN}
    BY CountType DEF Slices
  <2>3. pc \in [Calls -> Places] /\ err \in [Calls -> Errors]
    BY DEF Places, Errors
  <2>4. QED
    BY <2>1, <2>2, <2>3 DEF TypeOK
<1>2. Types
  <2>1. DOMAIN put = Calls /\ IsFunction(put) /\ \A c \in Calls : IsFunction(put[c])
    BY DEF IsFunction
  <2>2. /\ urls \in [Calls -> Nat] /\ loaded \in [Calls -> Nat \cup {NaN}]
        /\ sent \in [Calls -> Seq([number : Nat, chunk : Nat])]
        /\ made \in [Calls -> SUBSET Seq(Nat)] /\ object \in [Names -> Seq(Nat)]
    BY <1>a
  <2>3. QED
    BY <1>1, <2>1, <2>2 DEF Types
<1>3. PuttingHasUrls /\ SentIsPut /\ DoneIsWhole /\ OnlyNamesakesReplace
  BY FilesAreCalls DEF PuttingHasUrls, SentIsPut, DoneIsWhole, OnlyNamesakesReplace
<1>4. LoadedIsSent
  BY CountType, FilesAreCalls DEF LoadedIsSent
<1>5. QED
  BY <1>2, <1>3, <1>4 DEF IInv

(* A request, or the failure of one, that touches no part and no object. *)
LEMMA MoveIInv ==
    ASSUME IInv, NEW c \in Calls,
           pc' \in [Calls -> Places], err' \in [Calls -> Errors],
           pc'[c] \in {"parts", "failed"},
           \A d \in Calls : d # c => pc'[d] = pc[d],
           rows' \subseteq Calls, pending' \subseteq rows',
           UNCHANGED <<field, put, object, urls, sent, loaded, made>>
    PROVE  IInv'
<1> USE DEF IInv
<1>1. Types'
  BY DEF Types, TypeOK
<1>2. PuttingHasUrls'
  BY DEF PuttingHasUrls
<1>3. SentIsPut' /\ LoadedIsSent'
  BY DEF SentIsPut, LoadedIsSent, SentPart, Chunk, ReadsNumber
<1>4. DoneIsWhole' /\ OnlyNamesakesReplace'
  BY FilesAreCalls DEF DoneIsWhole, OnlyNamesakesReplace
<1>5. QED
  BY <1>1, <1>2, <1>3, <1>4

LEMMA GetPartsIInv ==
    ASSUME IInv, NEW c \in Calls, GetParts(c)
    PROVE  IInv'
<1> USE DEF IInv, GetParts, api
<1>a. /\ pc' \in [Calls -> Places] /\ err' \in [Calls -> Errors]
      /\ pc'[c] \in {"putting", "failed"}
      /\ \A d \in Calls : d # c => pc'[d] = pc[d]
  BY RequestMoves DEF Types, Places
<1>b. /\ urls' = [urls EXCEPT ![c] = Count(c)] /\ Count(c) \in Nat
      /\ PartNumbers(c) = 1..Count(c) /\ Count(c) >= 1
  BY CountType
<1>1. Types'
  <2>1. urls'[c] \in PartNumbers(c) /\ Len(sent[c]) <= urls'[c]
    <3>1. urls[c] \in {0} \cup PartNumbers(c) /\ Len(sent[c]) <= urls[c]
      BY DEF Types, TypeOK
    <3>2. Len(sent[c]) \in Nat /\ urls'[c] = Count(c)
      BY <1>b DEF Types
    <3>3. QED
      BY <1>b, <3>1, <3>2
  <2>2. QED
    BY <1>a, <1>b, <2>1 DEF Types, TypeOK
<1>2. PuttingHasUrls'
  BY <1>a, <1>b DEF PuttingHasUrls, Types
<1>3. SentIsPut' /\ LoadedIsSent'
  BY DEF SentIsPut, LoadedIsSent, SentPart, Chunk, ReadsNumber
<1>4. DoneIsWhole' /\ OnlyNamesakesReplace'
  BY <1>a, FilesAreCalls DEF DoneIsWhole, OnlyNamesakesReplace
<1>5. QED
  BY <1>1, <1>2, <1>3, <1>4

(* The part that is put next is one the call has not sent yet. *)
LEMMA StoredType ==
    ASSUME Types, NEW c \in Calls, Part(c) <= urls[c], put' = Stored(c)
    PROVE  /\ Len(sent[c]) \in Nat /\ Part(c) = Len(sent[c]) + 1
           /\ DOMAIN put' = Calls /\ IsFunction(put') /\ IsFunction(put'[c])
           /\ DOMAIN put'[c] = DOMAIN put[c] \cup {Part(c)}
           /\ DOMAIN put'[c] \subseteq PartNumbers(c) /\ Range(put'[c]) \subseteq Slices(c)
           /\ put'[c][Part(c)] = Chunk(c, Part(c))
           /\ \A k \in DOMAIN put[c] : k # Part(c) => put'[c][k] = put[c][k]
           /\ \A d \in Calls : d # c => put'[d] = put[d]
<1>1. Len(sent[c]) \in Nat /\ Part(c) = Len(sent[c]) + 1 /\ urls[c] \in Nat
  BY DEF Types, Part
<1>2. Part(c) \in PartNumbers(c) /\ Part(c) \in Nat /\ Part(c) >= 1
  <2>1. urls[c] \in {0} \cup PartNumbers(c)
    BY DEF Types, TypeOK
  <2>2. QED
    BY <1>1, <2>1, CountType
<1>3. /\ DOMAIN put' = Calls /\ IsFunction(put')
      /\ put'[c] = [k \in DOMAIN put[c] \cup {Part(c)} |->
                       IF k = Part(c) THEN Chunk(c, k) ELSE put[c][k]]
      /\ \A d \in Calls : d # c => put'[d] = put[d]
  <2>1. put' = [d \in Calls |-> IF d = c THEN [k \in DOMAIN put[c] \cup {Part(c)} |->
                                             IF k = Part(c) THEN Chunk(c, k) ELSE put[c][k]]
                                ELSE put[d]]
    BY DEF Stored, Types
  <2>2. QED
    BY <2>1 DEF IsFunction
<1>4. Chunk(c, Part(c)) \in Slices(c)
  BY <1>2, ChunkType
<1>5. DOMAIN put'[c] \subseteq PartNumbers(c) /\ Range(put'[c]) \subseteq Slices(c)
  BY <1>2, <1>3, <1>4 DEF Types, TypeOK, Range
<1>6. IsFunction(put'[c])
  BY <1>3 DEF IsFunction
<1>7. QED
  BY <1>1, <1>3, <1>5, <1>6

LEMMA PutPartIInv ==
    ASSUME IInv, NEW c \in Calls, PutPart(c)
    PROVE  IInv'
<1> USE DEF IInv, PutPart
<1> DEFINE p == Part(c)
           sp == SentPart(c, p)
<1>a. /\ p \in Nat /\ p >= 1 /\ p = Len(sent[c]) + 1 /\ Len(sent[c]) \in Nat
      /\ p <= urls[c] /\ urls[c] \in Nat /\ PartsOf[c] \in Nat
  BY CountType DEF Part, Types
<1>b. /\ sp \in [number : Nat, chunk : Nat]
      /\ Chunk(c, p) \in Nat
      /\ Chunk(c, p) # Empty <=> c \in Files /\ ReadsNumber /\ p <= PartsOf[c]
  BY <1>a, ChunkType DEF SentPart
<1>c. /\ sent' = [sent EXCEPT ![c] = Append(sent[c], sp)]
      /\ Append(sent[c], sp) \in Seq([number : Nat, chunk : Nat])
      /\ Len(Append(sent[c], sp)) = p /\ Append(sent[c], sp)[p] = sp
      /\ \A i \in 1..Len(sent[c]) : Append(sent[c], sp)[i] = sent[c][i]
  BY <1>a, <1>b DEF Types, SentPart, PartSent
<1>d. loaded' = [loaded EXCEPT ![c] =
                   IF c \notin Files THEN NaN
                   ELSE IF ReadsNumber /\ p <= PartsOf[c] THEN loaded[c] + 1 ELSE loaded[c]]
  BY <1>b DEF Counted
<1> HIDE DEF p, sp
<1>e. /\ c \notin Files => loaded'[c] = NaN
      /\ c \in Files =>
            loaded'[c] = IF ~ReadsNumber THEN 0 ELSE IF p <= PartsOf[c] THEN p ELSE PartsOf[c]
      /\ \A d \in Calls : d # c => loaded'[d] = loaded[d]
  <2>1. /\ loaded'[c] = IF c \notin Files THEN NaN
                        ELSE IF ReadsNumber /\ p <= PartsOf[c] THEN loaded[c] + 1 ELSE loaded[c]
        /\ \A d \in Calls : d # c => loaded'[d] = loaded[d]
    BY <1>d DEF Types
  <2>2. QED
    BY <1>a, <2>1 DEF LoadedIsSent
<1>1. LoadedIsSent'
  <2>1. sent'[c] = Append(sent[c], sp) /\ \A d \in Calls : d # c => sent'[d] = sent[d]
    BY <1>c DEF Types
  <2>2. QED
    BY <1>c, <1>e, <2>1, FilesAreCalls DEF LoadedIsSent, ReadsNumber
<1>2. Types'
  <2>1. /\ loaded'[c] \in IF c \in Files THEN Slices(c) ELSE {0, NaN}
        /\ loaded'[c] \in Nat \cup {NaN}
    BY <1>a, <1>e DEF Slices
  <2>2. \A d \in Calls : d # c => loaded'[d] = loaded[d] /\ sent'[d] = sent[d]
    BY <1>c, <1>d DEF Types
  <2>3. /\ sent' \in [Calls -> Seq([number : Nat, chunk : Nat])]
        /\ loaded' \in [Calls -> Nat \cup {NaN}] /\ Len(sent'[c]) <= urls[c]
    BY <1>a, <1>c, <1>d, <2>1 DEF Types
  <2>4. TypeOK'
    <3>1. ASSUME NEW d \in Calls
          PROVE  /\ DOMAIN put'[d] \subseteq PartNumbers(d) /\ Range(put'[d]) \subseteq Slices(d)
                 /\ urls'[d] \in {0} \cup PartNumbers(d) /\ Len(sent'[d]) <= urls'[d]
                 /\ loaded'[d] \in IF d \in Files THEN Slices(d) ELSE {0, NaN}
      <4>1. CASE d = c
        BY <4>1, <2>1, <2>3, StoredType DEF Types, TypeOK
      <4>2. CASE d # c
        BY <4>2, <2>2, StoredType DEF Types, TypeOK
      <4>3. QED
        BY <4>1, <4>2
    <3>2. QED
      BY <3>1 DEF Types, TypeOK
  <2>5. QED
    BY <2>3, <2>4, StoredType DEF Types
<1>3. SentIsPut'
  <2> SUFFICES ASSUME NEW d \in Calls, NEW i \in 1..Len(sent'[d])
               PROVE  /\ sent'[d][i] = SentPart(d, i)
                      /\ i \in DOMAIN put'[d] /\ put'[d][i] = Chunk(d, i)
    BY DEF SentIsPut, SentPart, Chunk, ReadsNumber
  <2>1. CASE d # c
    <3>1. sent'[d] = sent[d] /\ put'[d] = put[d]
      BY <2>1, <1>a, <1>c, StoredType DEF Types
    <3>2. QED
      BY <3>1 DEF SentIsPut
  <2>2. CASE d = c /\ i = p
    BY <2>2, <1>c, StoredType DEF p, sp, Types
  <2>3. CASE d = c /\ i # p
    <3>1. sent'[c] = Append(sent[c], sp) /\ i \in 1..Len(sent[c])
      BY <2>3, <1>a, <1>c DEF Types
    <3>2. /\ i \in DOMAIN put[c] => i \in DOMAIN put'[c]
          /\ i \in DOMAIN put[c] => put'[c][i] = put[c][i]
      BY <2>3, <1>a, StoredType DEF p
    <3>3. QED
      BY <2>3, <3>1, <3>2, <1>c DEF SentIsPut
  <2>4. QED
    BY <2>1, <2>2, <2>3
<1>4. PuttingHasUrls' /\ DoneIsWhole' /\ OnlyNamesakesReplace'
  BY DEF PuttingHasUrls, DoneIsWhole, OnlyNamesakesReplace
<1>5. QED
  BY <1>1, <1>2, <1>3, <1>4

LEMMA PutPartFailsIInv ==
    ASSUME IInv, NEW c \in Calls, PutPartFails(c)
    PROVE  IInv'
<1> USE DEF IInv, PutPartFails
<1>a. /\ pc' \in [Calls -> Places] /\ err' \in [Calls -> Errors] /\ pc'[c] = "failed"
      /\ \A d \in Calls : d # c => pc'[d] = pc[d]
  BY DEF Throw, Types, TypeOK, Places, Errors
<1>b. /\ DOMAIN put' = Calls /\ IsFunction(put')
      /\ \A d \in Calls :
            /\ IsFunction(put'[d])
            /\ DOMAIN put'[d] \subseteq PartNumbers(d) /\ Range(put'[d]) \subseteq Slices(d)
            /\ \A i \in 1..Len(sent[d]) : i \in DOMAIN put[d] =>
                  i \in DOMAIN put'[d] /\ put'[d][i] = put[d][i]
  <2>1. CASE put' = put
    BY <2>1 DEF Types, TypeOK
  <2>2. CASE put' = Stored(c)
    <3>1. Len(sent[c]) \in Nat /\ Part(c) = Len(sent[c]) + 1
      BY <2>2, StoredType
    <3>2. \A i \in 1..Len(sent[c]) : i # Part(c)
      BY <3>1
    <3>3. /\ DOMAIN put' = Calls /\ IsFunction(put') /\ IsFunction(put'[c])
          /\ DOMAIN put'[c] = DOMAIN put[c] \cup {Part(c)}
          /\ DOMAIN put'[c] \subseteq PartNumbers(c) /\ Range(put'[c]) \subseteq Slices(c)
          /\ \A k \in DOMAIN put[c] : k # Part(c) => put'[c][k] = put[c][k]
          /\ \A d \in Calls : d # c => put'[d] = put[d]
      BY <2>2, StoredType
    <3>4. ASSUME NEW d \in Calls
          PROVE  /\ IsFunction(put'[d])
                 /\ DOMAIN put'[d] \subseteq PartNumbers(d) /\ Range(put'[d]) \subseteq Slices(d)
                 /\ \A i \in 1..Len(sent[d]) : i \in DOMAIN put[d] =>
                       i \in DOMAIN put'[d] /\ put'[d][i] = put[d][i]
      <4>1. CASE d = c
        BY <4>1, <3>2, <3>3
      <4>2. CASE d # c
        BY <4>2, <3>3 DEF Types, TypeOK
      <4>3. QED
        BY <4>1, <4>2
    <3>5. QED
      BY <3>3, <3>4
  <2>3. QED
    BY <2>1, <2>2
<1>1. Types'
  BY <1>a, <1>b DEF Types, TypeOK
<1>2. PuttingHasUrls' /\ LoadedIsSent'
  BY <1>a DEF PuttingHasUrls, LoadedIsSent, ReadsNumber
<1>3. SentIsPut'
  BY <1>b DEF SentIsPut, SentPart, Chunk, ReadsNumber
<1>4. DoneIsWhole' /\ OnlyNamesakesReplace'
  BY <1>a, FilesAreCalls DEF DoneIsWhole, OnlyNamesakesReplace
<1>5. QED
  BY <1>1, <1>2, <1>3, <1>4

(* What storage takes for complete is the whole file, of at least one      *)
(* part: without numbers, or with empty parts before the last, it refuses. *)
(* Of a Buffer it takes nothing but an empty part.                         *)
LEMMA CompletedIsWhole ==
    ASSUME IInv, NEW c \in Calls, AllSent(c), Completable(c)
    PROVE  Content(c) \in Seq(Nat) /\ (c \in Files => Content(c) = Whole(c))
<1> USE DEF IInv
<1>a. /\ sent[c] \in Seq([number : Nat, chunk : Nat]) /\ Len(sent[c]) = Count(c)
      /\ Count(c) \in Nat /\ Count(c) >= 1 /\ PartsOf[c] \in Nat
      /\ DOMAIN sent[c] = 1..Count(c)
  BY CountType DEF AllSent, PuttingHasUrls, Types
<1>b. \A i \in 1..Count(c) : sent[c][i].number = (IF ReadsNumber THEN i ELSE 0)
                             /\ sent[c][i].chunk = Chunk(c, i)
  <2>1. \A i \in 1..Count(c) : sent[c][i] = SentPart(c, i)
    BY <1>a DEF SentIsPut
  <2>2. \A i : SentPart(c, i).number = (IF ReadsNumber THEN i ELSE 0)
               /\ SentPart(c, i).chunk = Chunk(c, i)
    BY DEF SentPart
  <2>3. QED
    BY <2>1, <2>2
<1>1. ReadsNumber
  <2>1. sent[c][1].number \in PartNumbers(c)
    <3>1. sent[c][1].number \in DOMAIN put[c]
      BY <1>a DEF Completable
    <3>2. QED
      BY <3>1 DEF Types, TypeOK
  <2>2. QED
    BY <1>a, <1>b, <2>1, CountType
<1>2. CASE c \in Files
  <2>1. PartsOf[c] >= 1
    <3>1. CASE PartsOf[c] = 0
      <4>1. Count(c) > 1
        BY <3>1, SdkUploadAssumption DEF Count
      <4>2. Chunk(c, 1) # Empty
        BY <1>a, <1>b, <4>1 DEF Completable
      <4>3. QED
        BY <3>1, <4>2 DEF Chunk
    <3>2. QED
      BY <1>a, <3>1
  <2>2. \A i \in 1..PartsOf[c] : sent[c][i].chunk = i /\ i # Empty
    BY <1>2, <1>a, <1>b, <1>1, <2>1 DEF Count, Chunk, Empty
  <2>3. {k \in DOMAIN sent[c] : sent[c][k].chunk # Empty} = 1..PartsOf[c]
    BY <1>a, <2>1, <2>2 DEF Count
  <2>4. Content(c) = Whole(c)
    BY <2>2, <2>3 DEF Content, Whole
  <2>5. Whole(c) \in Seq(Nat)
    BY <1>a DEF Whole
  <2>6. QED
    BY <2>4, <2>5
<1>3. CASE c \notin Files
  <2>1. {k \in DOMAIN sent[c] : sent[c][k].chunk # Empty} = 1..0
    BY <1>3, <1>a, <1>b DEF Chunk
  <2>2. Content(c) = [i \in 1..0 |-> sent[c][i].chunk]
    BY <2>1 DEF Content
  <2>3. QED
    BY <1>3, <2>2
<1>4. QED
  BY <1>2, <1>3

LEMMA CompleteUploadIInv ==
    ASSUME IInv, NEW c \in Calls, CompleteUpload(c)
    PROVE  IInv'
<1> USE DEF IInv, CompleteUpload
<1>a. /\ pc' \in [Calls -> Places] /\ err' \in [Calls -> Errors]
      /\ pc'[c] \in {"done", "failed"}
      /\ \A d \in Calls : d # c => pc'[d] = pc[d]
  BY RequestMoves DEF Types, Places
<1>b. Content(c) \in Seq(Nat) /\ (c \in Files => Content(c) = Whole(c))
  BY CompletedIsWhole
<1> DEFINE content == Content(c)
<1>c. /\ Meta(c).filename \in Names
      /\ object' = [object EXCEPT ![Meta(c).filename] = content]
      /\ made' = [made EXCEPT ![c] = {content}]
  BY CountType
<1> HIDE DEF content
<1>d. content \in Seq(Nat) /\ (c \in Files => content = Whole(c))
  BY <1>b DEF content
<1>1. Types'
  <2>1. object' \in [Names -> Seq(Nat)] /\ made' \in [Calls -> SUBSET Seq(Nat)]
    BY <1>c, <1>d DEF Types
  <2>2. QED
    BY <1>a, <2>1 DEF Types, TypeOK
<1>2. PuttingHasUrls'
  BY <1>a DEF PuttingHasUrls
<1>3. SentIsPut' /\ LoadedIsSent'
  BY DEF SentIsPut, LoadedIsSent, SentPart, Chunk, ReadsNumber
<1>4. DoneIsWhole'
  BY <1>a, <1>c, <1>d, FilesAreCalls DEF DoneIsWhole, Types, Whole
<1>5. OnlyNamesakesReplace'
  <2> SUFFICES ASSUME NEW d \in Files, pc'[d] = "done",
                      object'[Meta(d).filename] # Whole(d)
               PROVE  \E x \in Calls \ {d} :
                          Meta(x).filename = Meta(d).filename /\ made'[x] # {}
    BY DEF OnlyNamesakesReplace, Whole, Meta
  <2>1. CASE Meta(d).filename = Meta(c).filename
    <3>1. object'[Meta(d).filename] = content /\ made'[c] # {}
      BY <2>1, <1>c DEF Types
    <3>2. c # d
      BY <3>1, <1>d
    <3>3. QED
      BY <2>1, <3>1, <3>2
  <2>2. CASE Meta(d).filename # Meta(c).filename
    <3>1. pc[d] = "done" /\ object[Meta(d).filename] # Whole(d)
      BY <2>2, <1>a, <1>c, FilesAreCalls, CountType DEF Types
    <3>2. PICK x \in Calls \ {d} : Meta(x).filename = Meta(d).filename /\ made[x] # {}
      BY <3>1 DEF OnlyNamesakesReplace
    <3>3. QED
      BY <2>2, <3>2, <1>c DEF Types
  <2>3. QED
    BY <2>1, <2>2
<1>6. QED
  BY <1>1, <1>2, <1>3, <1>4, <1>5

LEMMA NextIInv == IInv /\ [Next]_vars => IInv'
<1> SUFFICES ASSUME IInv, [Next]_vars
             PROVE  IInv'
  OBVIOUS
<1>a. TypeOK
  BY DEF IInv, Types
<1>1. ASSUME NEW c \in Calls, Initiate(c)
      PROVE  IInv'
  <2>1. rows' \subseteq Calls /\ pending' \subseteq rows'
    BY <1>1, <1>a DEF Initiate, TypeOK
  <2>2. QED
    BY <1>1, <1>a, <2>1, RequestMoves, MoveIInv DEF Initiate, Places
<1>2. ASSUME NEW c \in Calls, InitiateFails(c) \/ GetPartsFails(c) \/ CompleteFails(c)
      PROVE  IInv'
  <2>1. Refused(c) /\ UNCHANGED <<field, put, object, urls, sent, loaded, made>>
    BY <1>2 DEF InitiateFails, GetPartsFails, CompleteFails, api
  <2>2. rows' \subseteq Calls /\ pending' \subseteq rows'
    BY <1>2, <1>a DEF InitiateFails, GetPartsFails, CompleteFails, api, TypeOK
  <2>3. "failed" \in Places
    BY DEF Places
  <2>4. QED
    BY <1>a, <2>1, <2>2, <2>3, RequestMoves, MoveIInv
<1>3. ASSUME NEW c \in Calls, GetParts(c)
      PROVE  IInv'
  BY <1>3, GetPartsIInv
<1>4. ASSUME NEW c \in Calls, PutPart(c)
      PROVE  IInv'
  BY <1>4, PutPartIInv
<1>5. ASSUME NEW c \in Calls, PutPartFails(c)
      PROVE  IInv'
  BY <1>5, PutPartFailsIInv
<1>6. ASSUME NEW c \in Calls, CompleteUpload(c)
      PROVE  IInv'
  BY <1>6, CompleteUploadIInv
<1>7. CASE UNCHANGED vars
  BY <1>7
     DEF vars, api, IInv, Types, TypeOK, PuttingHasUrls, SentIsPut, SentPart, Chunk,
         ReadsNumber, IsFunction, LoadedIsSent, DoneIsWhole, OnlyNamesakesReplace
<1>8. QED
  BY <1>1, <1>2, <1>3, <1>4, <1>5, <1>6, <1>7 DEF Next, Step

(* The invariant holds in every state of any number of calls, whichever of *)
(* their requests fail before or after they took effect.                   *)
THEOREM Inductive == Spec => []IInv
BY InitIInv, NextIInv, PTL DEF Spec

(* The calls, their parts and what storage holds keep to their types. *)
THEOREM TypesKept == Spec => []TypeOK
<1>1. IInv => TypeOK
  BY DEF IInv, Types
<1>2. QED
  BY <1>1, Inductive, PTL

(* uploadVideo of a File returns only when storage has put the whole file  *)
(* together.                                                               *)
THEOREM DoneWhole == Spec => []DoneIsWhole
BY Inductive, PTL DEF IInv

(* Progress of 100 percent means that storage has every slice under the    *)
(* part it belongs to.                                                     *)
THEOREM ProgressStored == Spec => []FullProgressIsStored
<1>1. IInv => FullProgressIsStored
  <2> SUFFICES ASSUME IInv, NEW c \in Calls,
                      loaded[c] = PartsOf[c], PartsOf[c] > 0, NEW k \in 1..PartsOf[c]
               PROVE  k \in DOMAIN put[c] /\ put[c][k] = k
    BY DEF FullProgressIsStored
  <2>1. PartsOf[c] \in Nat /\ Len(sent[c]) \in Nat
    BY CountType DEF IInv, Types
  <2>2. c \in Files
    <3>1. c \notin Files => loaded[c] \in {0, NaN}
      BY DEF IInv, Types, TypeOK
    <3>2. QED
      BY <2>1, <3>1, SdkUploadAssumption
  <2>3. ReadsNumber /\ PartsOf[c] <= Len(sent[c])
    BY <2>1, <2>2 DEF IInv, LoadedIsSent
  <2>4. k \in 1..Len(sent[c]) /\ k <= PartsOf[c]
    BY <2>1, <2>3
  <2>5. QED
    BY <2>2, <2>3, <2>4 DEF IInv, SentIsPut, Chunk
<1>2. QED
  BY <1>1, Inductive, PTL

(* The object of a finished File changes only under a completed upload of  *)
(* the same name.                                                          *)
THEOREM NamesakesReplace == Spec => []OnlyNamesakesReplace
BY Inductive, PTL DEF IInv

=============================================================================
