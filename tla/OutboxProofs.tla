---------------------------- MODULE OutboxProofs ----------------------------
(***************************************************************************)
(* The safety properties of Outbox for any sets of events and relays, any  *)
(* batch size and any limit of attempts, whether or not the database takes *)
(* the bulk mark, by an inductive invariant.                               *)
(***************************************************************************)
EXTENDS Outbox, TLAPS

(* Whoever holds the token of a row has read the count the row still has,  *)
(* and the row is still the one it claimed.                                *)
HolderIsCurrent ==
    \A r \in Relays, e \in Events :
        Holds(r, e) => status[e] = "publishing" /\ seen[r][e] = attempts[e]

(* An acknowledged publish is in the stream. *)
AcknowledgedIsStored ==
    \A r \in Relays, e \in Events : answer[r][e] = "ok" => copies[e] > 0

(* Nothing is claimed, sent or on the wire before it is inserted. *)
OnlyInserted ==
    \A e \in Events :
        (adrift[e] > 0 \/ \E r \in Relays : e \in batch[r] \/ answer[r][e] # "none")
            => status[e] # "absent"

IInv ==
    /\ TypeOK
    /\ NoStrandedEvent
    /\ PublishedIsStored
    /\ HolderIsCurrent
    /\ AcknowledgedIsStored
    /\ OnlyInserted

(* Counts of messages stay counts. *)
LEMMA CountsSaturate ==
    ASSUME NEW n \in 0..Many
    PROVE  /\ OneMore(n) \in 0..Many
           /\ OneMore(n) > 0
           /\ n > 0 => OneLess(n) \subseteq 0..Many
BY OutboxAssumption DEF OneMore, OneLess

(* The relay only ever forgets events. *)
LEMMA KeepType ==
    ASSUME TypeOK, NEW r \in Relays, NEW S \in SUBSET Events, Keep(r, S)
    PROVE  /\ pc' \in [Relays -> {"idle", "publishing", "failing"}]
           /\ batch' \in [Relays -> SUBSET Events]
           /\ seen' \in [Relays -> [Events -> 0..MaxAttempts]]
           /\ answer' \in [Relays -> [Events -> Answers]]
<1>1. [e \in Events |-> IF e \in S THEN seen[r][e] ELSE 0] \in [Events -> 0..MaxAttempts]
  BY OutboxAssumption DEF TypeOK
<1>2. [e \in Events |-> IF e \in S THEN answer[r][e] ELSE "none"] \in [Events -> Answers]
  BY DEF TypeOK, Answers
<1>3. QED
  BY <1>1, <1>2 DEF Keep, TypeOK

LEMMA KeepForgets ==
    ASSUME TypeOK, NEW q \in Relays, NEW S \in SUBSET Events,
           S \subseteq batch[q], Keep(q, S)
    PROVE  \A r \in Relays, e \in Events :
               /\ e \in batch'[r] => e \in batch[r] /\ seen'[r][e] = seen[r][e]
               /\ answer'[r][e] \in {answer[r][e], "none"}
               /\ batch'[q] = S
BY DEF TypeOK, Keep

-----------------------------------------------------------------------------
LEMMA InitIInv == Init => IInv
BY OutboxAssumption
   DEF Init, IInv, TypeOK, Statuses, Answers, NoStrandedEvent, PublishedIsStored,
       HolderIsCurrent, Holds, AcknowledgedIsStored, OnlyInserted

LEMMA InsertEventIInv ==
    ASSUME IInv, NEW x \in Events, InsertEvent(x)
    PROVE  IInv'
<1> USE DEF IInv, InsertEvent, stream, relays
<1>1. TypeOK'
  BY DEF TypeOK, Statuses
<1>2. NoStrandedEvent'
  BY DEF TypeOK, NoStrandedEvent
<1>3. PublishedIsStored'
  BY DEF TypeOK, PublishedIsStored
<1>4. HolderIsCurrent'
  BY DEF TypeOK, HolderIsCurrent, Holds
<1>5. AcknowledgedIsStored' /\ OnlyInserted'
  BY DEF TypeOK, AcknowledgedIsStored, OnlyInserted
<1>6. QED
  BY <1>1, <1>2, <1>3, <1>4, <1>5

LEMMA ClaimIInv ==
    ASSUME IInv, NEW q \in Relays, NEW S \in SUBSET Events, Claim(q, S)
    PROVE  IInv'
<1> USE DEF IInv, Claim, Due, stream
<1>1. TypeOK'
  <2>1. [e \in Events |-> IF e \in S THEN attempts[e] ELSE 0] \in [Events -> 0..MaxAttempts]
    BY OutboxAssumption DEF TypeOK
  <2>2. QED
    BY <2>1 DEF TypeOK, Statuses
<1>2. NoStrandedEvent'
  BY OutboxAssumption DEF TypeOK, NoStrandedEvent
<1>3. PublishedIsStored'
  BY DEF TypeOK, PublishedIsStored
<1>4. HolderIsCurrent'
  <2> SUFFICES ASSUME NEW r \in Relays, NEW e \in Events, Holds(r, e)'
               PROVE  (status[e] = "publishing" /\ seen[r][e] = attempts[e])'
    BY DEF HolderIsCurrent
  <2>1. CASE e \in S
    <3>1. r = q
      BY <2>1 DEF Holds, TypeOK
    <3>2. QED
      BY <2>1, <3>1 DEF TypeOK
  <2>2. CASE e \notin S
    <3>1. r # q
      BY <2>2 DEF Holds, TypeOK
    <3>2. Holds(r, e)
      BY <2>2, <3>1 DEF Holds, TypeOK
    <3>3. QED
      BY <2>2, <3>1, <3>2 DEF TypeOK, HolderIsCurrent
  <2>3. QED
    BY <2>1, <2>2
<1>5. AcknowledgedIsStored' /\ OnlyInserted'
  BY DEF TypeOK, AcknowledgedIsStored, OnlyInserted
<1>6. QED
  BY <1>1, <1>2, <1>3, <1>4, <1>5

(* The four ways a publish goes, of which one stores a copy and one leaves *)
(* a message on the wire.                                                  *)
LEMMA PublishStepIInv ==
    ASSUME IInv, NEW q \in Relays, NEW x \in Events, PublishStep(q, x)
    PROVE  IInv'
<1> USE DEF IInv, rows, stream
<1>a. status' = status /\ attempts' = attempts /\ claimToken' = claimToken
      /\ leased' = leased /\ backoff' = backoff
      /\ pc' = pc /\ batch' = batch /\ seen' = seen
  BY DEF PublishStep, Publish, Store, Reject, Timeout
<1>b. /\ OneMore(copies[x]) \in 0..Many /\ OneMore(copies[x]) > 0
      /\ OneMore(adrift[x]) \in 0..Many
  BY CountsSaturate DEF TypeOK
<1>c. PICK a \in Answers :
          /\ Answered(q, x, a)
          /\ \/ a # "ok" /\ copies' = copies
             \/ copies' = [copies EXCEPT ![x] = OneMore(copies[x])]
          /\ \/ adrift' = adrift
             \/ adrift' = [adrift EXCEPT ![x] = OneMore(adrift[x])]
  BY DEF PublishStep, Publish, Store, Reject, Timeout, Answers
<1>d. status[x] # "absent"
  BY DEF PublishStep, Publish, Store, Reject, Timeout, OnlyInserted
<1>e. \A e \in Events : copies[e] > 0 => copies'[e] > 0
  BY <1>b, <1>c DEF TypeOK
<1>1. TypeOK'
  <2>1. copies' \in [Events -> 0..Many] /\ adrift' \in [Events -> 0..Many]
    BY <1>b, <1>c DEF TypeOK
  <2>2. answer' \in [Relays -> [Events -> Answers]]
    BY <1>c DEF TypeOK, Answered
  <2>3. QED
    BY <1>a, <2>1, <2>2 DEF TypeOK
<1>2. NoStrandedEvent'
  BY <1>a DEF NoStrandedEvent
<1>3. PublishedIsStored'
  BY <1>a, <1>e DEF PublishedIsStored
<1>4. HolderIsCurrent'
  BY <1>a DEF HolderIsCurrent, Holds
<1>5. AcknowledgedIsStored'
  <2> SUFFICES ASSUME NEW r \in Relays, NEW e \in Events, answer'[r][e] = "ok"
               PROVE  copies'[e] > 0
    BY DEF AcknowledgedIsStored
  <2>1. CASE r = q /\ e = x
    BY <1>b, <1>c, <2>1 DEF TypeOK, Answered
  <2>2. CASE ~(r = q /\ e = x)
    BY <1>c, <1>e, <2>2 DEF TypeOK, Answered, AcknowledgedIsStored
  <2>3. QED
    BY <2>1, <2>2
<1>6. OnlyInserted'
  <2> SUFFICES ASSUME NEW e \in Events, e # x
               PROVE  /\ adrift'[e] = adrift[e]
                      /\ \A r \in Relays : answer'[r][e] = answer[r][e]
    BY <1>a, <1>d DEF OnlyInserted
  <2>1. QED
    BY <1>c DEF TypeOK, Answered
<1>7. QED
  BY <1>1, <1>2, <1>3, <1>4, <1>5, <1>6

(* What an acknowledgement or a message on the wire says of an event stays *)
(* true when its relay forgets it.                                         *)
LEMMA KeepIInv ==
    ASSUME IInv, NEW q \in Relays, NEW S \in SUBSET Events,
           S \subseteq batch[q], Keep(q, S), UNCHANGED copies,
           \A e \in Events : adrift'[e] > 0 =>
               adrift[e] > 0 \/ \E r \in Relays : answer[r][e] # "none",
           \A e \in Events : status[e] # "absent" => status'[e] # "absent"
    PROVE  AcknowledgedIsStored' /\ OnlyInserted'
<1>1. AcknowledgedIsStored'
  BY KeepForgets DEF IInv, AcknowledgedIsStored
<1>2. OnlyInserted'
  BY KeepForgets DEF IInv, OnlyInserted
<1>3. QED
  BY <1>1, <1>2

(* The rows stay as they are: the statement failed, found none, or was     *)
(* never sent.                                                             *)
LEMMA ForgetIInv ==
    ASSUME IInv, NEW q \in Relays, NEW S \in SUBSET Events,
           S \subseteq batch[q], Keep(q, S), UNCHANGED rows, UNCHANGED copies,
           adrift' \in [Events -> 0..Many],
           \A e \in Events : adrift'[e] > 0 =>
               adrift[e] > 0 \/ \E r \in Relays : answer[r][e] # "none"
    PROVE  IInv'
<1> USE DEF IInv, rows
<1>1. TypeOK'
  BY KeepType DEF TypeOK
<1>2. NoStrandedEvent' /\ PublishedIsStored'
  BY DEF NoStrandedEvent, PublishedIsStored
<1>3. HolderIsCurrent'
  BY KeepForgets DEF HolderIsCurrent, Holds
<1>4. AcknowledgedIsStored' /\ OnlyInserted'
  BY KeepIInv
<1>5. QED
  BY <1>1, <1>2, <1>3, <1>4

LEMMA MarkPublishedIInv ==
    ASSUME IInv, NEW q \in Relays, MarkPublished(q)
    PROVE  IInv'
<1> USE DEF IInv
<1>a. Unpublished(q) \in SUBSET Events /\ Unpublished(q) \subseteq batch[q]
  BY DEF Unpublished, TypeOK
<1>b. Keep(q, Unpublished(q)) /\ UNCHANGED <<attempts, leased, backoff, copies, adrift>>
  BY DEF MarkPublished, stream
<1>c. \A e \in ToMark(q) : e \in Events /\ Holds(q, e) /\ answer[q][e] = "ok"
  BY DEF ToMark, TypeOK
<1>d. \A e \in Events : IF e \in ToMark(q)
                         THEN status'[e] = "published" /\ claimToken'[e] = NoToken
                         ELSE status'[e] = status[e] /\ claimToken'[e] = claimToken[e]
  BY DEF MarkPublished
<1>1. TypeOK'
  <2>1. status' \in [Events -> Statuses] /\ claimToken' \in [Events -> Relays \cup {NoToken}]
    BY DEF MarkPublished, TypeOK, Statuses
  <2>2. QED
    BY <1>a, <1>b, <2>1, KeepType DEF TypeOK
<1>2. NoStrandedEvent'
  BY <1>b, <1>c, <1>d DEF NoStrandedEvent, HolderIsCurrent
<1>3. PublishedIsStored'
  BY <1>b, <1>c, <1>d DEF PublishedIsStored, AcknowledgedIsStored
<1>4. HolderIsCurrent'
  <2> SUFFICES ASSUME NEW r \in Relays, NEW e \in Events, Holds(r, e)'
               PROVE  (status[e] = "publishing" /\ seen[r][e] = attempts[e])'
    BY DEF HolderIsCurrent
  <2>1. e \notin ToMark(q)
    BY <1>d, OutboxAssumption DEF Holds
  <2>2. Holds(r, e) /\ seen'[r][e] = seen[r][e]
    BY <1>a, <1>b, <1>d, <2>1, KeepForgets DEF Holds
  <2>3. QED
    BY <1>b, <1>d, <2>1, <2>2 DEF HolderIsCurrent
<1>5. AcknowledgedIsStored' /\ OnlyInserted'
  <2>1. \A e \in Events : status[e] # "absent" => status'[e] # "absent"
    BY <1>d
  <2>2. QED
    BY <1>a, <1>b, <2>1, KeepIInv
<1>6. QED
  BY <1>1, <1>2, <1>3, <1>4, <1>5

LEMMA MarkFailedIInv ==
    ASSUME IInv, NEW q \in Relays, NEW x \in Events, MarkFailed(q, x)
    PROVE  IInv'
<1> USE DEF IInv
<1>a. batch[q] \ {x} \in SUBSET Events /\ batch[q] \ {x} \subseteq batch[q]
  BY DEF TypeOK
<1>b. Keep(q, batch[q] \ {x}) /\ UNCHANGED copies /\ UNCHANGED adrift
  BY DEF MarkFailed, WriteFailure, stream
<1>1. CASE ~Holds(q, x)
  <2>1. UNCHANGED rows
    BY <1>1 DEF MarkFailed, WriteFailure
  <2>2. adrift' \in [Events -> 0..Many]
    BY <1>b DEF TypeOK
  <2>3. QED
    BY <1>a, <1>b, <2>1, <2>2, ForgetIInv
<1>2. CASE Holds(q, x)
  <2> DEFINE n == seen[q][x] + 1
  <2>a. /\ attempts' = [attempts EXCEPT ![x] = n]
        /\ status' = [status EXCEPT ![x] = IF n >= MaxAttempts THEN "dead_letter" ELSE "failed"]
        /\ backoff' = [backoff EXCEPT ![x] = TRUE]
        /\ claimToken' = [claimToken EXCEPT ![x] = NoToken]
        /\ UNCHANGED leased
    BY <1>2 DEF MarkFailed, WriteFailure
  <2>b. status[x] = "publishing" /\ n = attempts[x] + 1 /\ n \in 0..MaxAttempts
    <3>1. status[x] = "publishing" /\ n = attempts[x] + 1
      BY <1>2 DEF HolderIsCurrent
    <3>2. attempts[x] \in 0..MaxAttempts /\ attempts[x] # MaxAttempts
      BY <3>1 DEF TypeOK, NoStrandedEvent
    <3>3. QED
      BY <3>1, <3>2, OutboxAssumption
  <2> HIDE DEF n
  <2>1. TypeOK'
    <3>1. status' \in [Events -> Statuses] /\ attempts' \in [Events -> 0..MaxAttempts]
      BY <2>a, <2>b DEF TypeOK, Statuses
    <3>2. /\ backoff' \in [Events -> BOOLEAN] /\ leased' \in [Events -> BOOLEAN]
          /\ claimToken' \in [Events -> Relays \cup {NoToken}]
      BY <2>a DEF TypeOK
    <3>3. QED
      BY <1>a, <1>b, <3>1, <3>2, KeepType DEF TypeOK
  <2>2. NoStrandedEvent'
    <3>1. status'[x] = "dead_letter" <=> attempts'[x] = MaxAttempts
      <4>1. /\ status'[x] = IF n >= MaxAttempts THEN "dead_letter" ELSE "failed"
            /\ attempts'[x] = n
        BY <2>a DEF TypeOK
      <4>2. n >= MaxAttempts <=> n = MaxAttempts
        BY <2>b, OutboxAssumption
      <4>3. QED
        BY <4>1, <4>2
    <3>2. \A e \in Events : e # x => status'[e] = status[e] /\ attempts'[e] = attempts[e]
      BY <2>a DEF TypeOK
    <3>3. QED
      BY <3>1, <3>2 DEF NoStrandedEvent
  <2>3. PublishedIsStored'
    BY <1>b, <2>a DEF TypeOK, PublishedIsStored
  <2>4. HolderIsCurrent'
    <3> SUFFICES ASSUME NEW r \in Relays, NEW e \in Events, Holds(r, e)'
                 PROVE  (status[e] = "publishing" /\ seen[r][e] = attempts[e])'
      BY DEF HolderIsCurrent
    <3>1. e # x
      BY <2>a, OutboxAssumption DEF TypeOK, Holds
    <3>2. claimToken'[e] = claimToken[e]
      BY <2>a, <3>1 DEF TypeOK
    <3>3. Holds(r, e) /\ seen'[r][e] = seen[r][e]
      BY <1>a, <1>b, <3>2, KeepForgets DEF Holds
    <3>4. QED
      BY <2>a, <3>1, <3>3 DEF HolderIsCurrent, TypeOK
  <2>5. AcknowledgedIsStored' /\ OnlyInserted'
    <3>1. \A e \in Events : status[e] # "absent" => status'[e] # "absent"
      BY <2>a DEF TypeOK
    <3>2. QED
      BY <1>a, <1>b, <3>1, KeepIInv
  <2>6. QED
    BY <2>1, <2>2, <2>3, <2>4, <2>5
<1>3. QED
  BY <1>1, <1>2

LEMMA AbandonIInv ==
    ASSUME IInv, NEW q \in Relays, Abandon(q)
    PROVE  IInv'
<1>1. Keep(q, {}) /\ UNCHANGED rows /\ UNCHANGED copies
  BY DEF Abandon
<1>2. \A e \in Events : adrift'[e] = IF answer[q][e] = "sent" THEN OneMore(adrift[e])
                                                         ELSE adrift[e]
  BY DEF Abandon
<1>3. adrift' \in [Events -> 0..Many]
  <2>1. \A e \in Events : adrift'[e] \in 0..Many
    BY <1>2, CountsSaturate DEF IInv, TypeOK
  <2>2. QED
    BY <2>1 DEF Abandon
<1>4. QED
  BY <1>1, <1>2, <1>3, ForgetIInv

(* A message on the wire arrives or is lost. *)
LEMMA LateIInv ==
    ASSUME IInv, NEW x \in Events, LateArrival(x) \/ LateLoss(x)
    PROVE  IInv'
<1> USE DEF IInv, LateArrival, LateLoss, rows, relays
<1>a. adrift[x] \in 0..Many /\ adrift[x] > 0
  BY DEF TypeOK
<1>b. OneMore(copies[x]) \in 0..Many /\ OneMore(copies[x]) > 0
  BY CountsSaturate DEF TypeOK
<1>c. PICK n \in 0..Many : adrift' = [adrift EXCEPT ![x] = n]
  <2>1. OneLess(adrift[x]) \subseteq 0..Many
    BY <1>a, CountsSaturate
  <2>2. QED
    BY <2>1
<1>d. copies' = copies \/ copies' = [copies EXCEPT ![x] = OneMore(copies[x])]
  OBVIOUS
<1>e. \A e \in Events : (copies[e] > 0 => copies'[e] > 0) /\ (adrift'[e] > 0 => adrift[e] > 0)
  BY <1>a, <1>b, <1>c, <1>d DEF TypeOK
<1>f. status' = status /\ batch' = batch /\ answer' = answer
  OBVIOUS
<1>1. TypeOK'
  <2>1. copies' \in [Events -> 0..Many] /\ adrift' \in [Events -> 0..Many]
    BY <1>b, <1>c, <1>d DEF TypeOK
  <2>2. QED
    BY <2>1 DEF TypeOK
<1>2. NoStrandedEvent' /\ HolderIsCurrent'
  BY DEF NoStrandedEvent, HolderIsCurrent, Holds
<1>3. PublishedIsStored' /\ AcknowledgedIsStored'
  BY <1>e, <1>f DEF PublishedIsStored, AcknowledgedIsStored
<1>4. OnlyInserted'
  BY <1>e, <1>f DEF OnlyInserted
<1>5. QED
  BY <1>1, <1>2, <1>3, <1>4

(* Time moves no status, no count and no token. *)
LEMMA ClockIInv ==
    ASSUME IInv, NEW x \in Events, LeaseLapses(x) \/ BackoffEnds(x)
    PROVE  IInv'
<1> USE DEF IInv, LeaseLapses, BackoffEnds, stream, relays
<1>1. TypeOK'
  BY DEF TypeOK
<1>2. NoStrandedEvent' /\ PublishedIsStored' /\ HolderIsCurrent'
  BY DEF NoStrandedEvent, PublishedIsStored, HolderIsCurrent, Holds
<1>3. AcknowledgedIsStored' /\ OnlyInserted'
  BY DEF AcknowledgedIsStored, OnlyInserted
<1>4. QED
  BY <1>1, <1>2, <1>3

LEMMA NextIInv == IInv /\ [Next]_vars => IInv'
<1> SUFFICES ASSUME IInv, [Next]_vars
             PROVE  IInv'
  OBVIOUS
<1>1. ASSUME NEW r \in Relays, NEW S \in SUBSET Events, Claim(r, S)
      PROVE  IInv'
  BY <1>1, ClaimIInv
<1>2. ASSUME NEW r \in Relays, NEW e \in Events, PublishStep(r, e)
      PROVE  IInv'
  BY <1>2, PublishStepIInv
<1>3. ASSUME NEW r \in Relays, MarkPublished(r)
      PROVE  IInv'
  BY <1>3, MarkPublishedIInv
<1>4. ASSUME NEW r \in Relays, MarkPublishedFails(r)
      PROVE  IInv'
  <2>1. Unpublished(r) \in SUBSET Events /\ Unpublished(r) \subseteq batch[r]
    BY DEF Unpublished, IInv, TypeOK
  <2>2. adrift' \in [Events -> 0..Many] /\ adrift' = adrift
    BY <1>4 DEF MarkPublishedFails, stream, IInv, TypeOK
  <2>3. QED
    BY <1>4, <2>1, <2>2, ForgetIInv DEF MarkPublishedFails, stream
<1>5. ASSUME NEW r \in Relays, NEW e \in Events, MarkFailed(r, e)
      PROVE  IInv'
  BY <1>5, MarkFailedIInv
<1>6. ASSUME NEW r \in Relays, NEW e \in Events, MarkFailedFails(r, e)
      PROVE  IInv'
  <2>1. batch[r] \ {e} \in SUBSET Events /\ batch[r] \ {e} \subseteq batch[r]
    BY DEF IInv, TypeOK
  <2>2. adrift' \in [Events -> 0..Many] /\ adrift' = adrift
    BY <1>6 DEF MarkFailedFails, stream, IInv, TypeOK
  <2>3. QED
    BY <1>6, <2>1, <2>2, ForgetIInv DEF MarkFailedFails, stream
<1>7. ASSUME NEW r \in Relays, Abandon(r)
      PROVE  IInv'
  BY <1>7, AbandonIInv
<1>8. ASSUME NEW e \in Events, EventStep(e)
      PROVE  IInv'
  BY <1>8, InsertEventIInv, LateIInv, ClockIInv DEF EventStep
<1>9. CASE UNCHANGED vars
  BY <1>9
     DEF vars, rows, stream, relays, IInv, TypeOK, NoStrandedEvent, PublishedIsStored,
         HolderIsCurrent, Holds, AcknowledgedIsStored, OnlyInserted
<1>10. QED
  BY <1>1, <1>2, <1>3, <1>4, <1>5, <1>6, <1>7, <1>8, <1>9 DEF Next, RelayStep

(* The invariant holds in every state the outbox reaches, however relays,  *)
(* crashes, late messages and the clock interleave.                        *)
THEOREM Inductive == Spec => []IInv
BY InitIInv, NextIInv, PTL DEF Spec

(* The tables and the relays keep to their types. *)
THEOREM TypesKept == Spec => []TypeOK
BY Inductive, PTL DEF IInv

(* An event marked published is in the stream: processOutbox never records *)
(* a message that was lost.                                                *)
THEOREM PublishedStored == Spec => []PublishedIsStored
BY Inductive, PTL DEF IInv

(* Attempts reach their limit exactly when the event becomes a dead        *)
(* letter: no event is left where no claim can see it.                     *)
THEOREM NoneStranded == Spec => []NoStrandedEvent
BY Inductive, PTL DEF IInv

-----------------------------------------------------------------------------
(* What a step may do to the row of an event: nothing, the insertion, a    *)
(* claim, the mark of a stored message, the record of a failure.           *)
RowMoves(e) ==
    \/ status'[e] = status[e] /\ attempts'[e] = attempts[e]
    \/ /\ status[e] \in {"absent", "pending", "failed", "publishing"}
       /\ status'[e] \in {"pending", "publishing"}
       /\ attempts'[e] = attempts[e]
    \/ /\ status[e] = "publishing" /\ status'[e] = "published"
       /\ attempts'[e] = attempts[e]
    \/ /\ status[e] = "publishing" /\ status'[e] \in {"failed", "dead_letter"}
       /\ attempts'[e] = attempts[e] + 1

LEMMA StepMovesRows ==
    ASSUME IInv, [Next]_vars, NEW e \in Events
    PROVE  RowMoves(e)
<1> USE DEF IInv, TypeOK, RowMoves
<1>1. ASSUME NEW r \in Relays, NEW S \in SUBSET Events, Claim(r, S)
      PROVE  RowMoves(e)
  BY <1>1 DEF Claim, Due
<1>2. ASSUME NEW r \in Relays, NEW x \in Events, PublishStep(r, x)
      PROVE  RowMoves(e)
  BY <1>2 DEF PublishStep, Publish, Store, Reject, Timeout, rows
<1>3. ASSUME NEW r \in Relays, MarkPublished(r)
      PROVE  RowMoves(e)
  BY <1>3 DEF MarkPublished, ToMark, HolderIsCurrent
<1>4. ASSUME NEW r \in Relays, NEW x \in Events, MarkFailed(r, x)
      PROVE  RowMoves(e)
  <2>1. CASE Holds(r, x)
    <3>1. status[x] = "publishing" /\ seen[r][x] = attempts[x]
      BY <2>1 DEF HolderIsCurrent
    <3>2. QED
      BY <1>4, <2>1, <3>1 DEF MarkFailed, WriteFailure
  <2>2. CASE ~Holds(r, x)
    BY <1>4, <2>2 DEF MarkFailed, WriteFailure, rows
  <2>3. QED
    BY <2>1, <2>2
<1>5. ASSUME NEW r \in Relays, NEW x \in Events,
             MarkPublishedFails(r) \/ MarkFailedFails(r, x) \/ Abandon(r)
      PROVE  RowMoves(e)
  BY <1>5 DEF MarkPublishedFails, MarkFailedFails, Abandon, rows
<1>6. ASSUME NEW x \in Events, EventStep(x)
      PROVE  RowMoves(e)
  BY <1>6 DEF EventStep, InsertEvent, LateArrival, LateLoss, LeaseLapses, BackoffEnds, rows
<1>7. CASE UNCHANGED vars
  BY <1>7 DEF vars, rows
<1>8. QED
  BY <1>1, <1>2, <1>3, <1>4, <1>5, <1>6, <1>7 DEF Next, RelayStep

(* A relay overtaken by another neither repeats nor undoes a failure that  *)
(* the row already counts.                                                 *)
THEOREM AttemptsOnlyCountUp == Spec => AttemptsCountUp
<1>1. IInv /\ [Next]_vars =>
          [\A e \in Events : attempts'[e] \in {attempts[e], attempts[e] + 1}]_vars
  BY StepMovesRows DEF RowMoves
<1>2. QED
  BY <1>1, Inductive, PTL DEF Spec, AttemptsCountUp

(* Published and dead-lettered are final, whoever still works on the row.  *)
THEOREM SettledIsFinal == Spec => SettledForGood
<1>1. IInv /\ [Next]_vars =>
          [\A e \in Events : status[e] \in Settled => status'[e] = status[e]]_vars
  BY StepMovesRows DEF RowMoves, Settled
<1>2. QED
  BY <1>1, Inductive, PTL DEF Spec, SettledForGood

-----------------------------------------------------------------------------
(* The refinement.  The fate of every event, as a function to rewrite. *)
fates == [e \in Events |-> Fate(e)]

(* Two ways for a step to leave the fates alone. *)
LEMMA SameFates ==
    ASSUME \A e \in Events : status'[e] = status[e]
    PROVE  fates' = fates
BY DEF fates, Fate

LEMMA ReclaimKeepsFates ==
    ASSUME IInv, NEW r \in Relays, NEW S \in SUBSET Events, Claim(r, S)
    PROVE  fates' = fates
<1>1. \A e \in Events : Fate(e)' = Fate(e)
  <2> SUFFICES ASSUME NEW e \in Events
               PROVE  Fate(e)' = Fate(e)
    OBVIOUS
  <2>1. CASE e \in S
    <3>1. status[e] \in {"pending", "failed", "publishing"} /\ status'[e] = "publishing"
      BY <2>1 DEF Claim, Due
    <3>2. QED
      BY <3>1 DEF Fate
  <2>2. CASE e \notin S
    BY <2>2 DEF Claim, Fate
  <2>3. QED
    BY <2>1, <2>2
<1>2. QED
  BY <1>1 DEF fates

LEMMA InitRefines == Init => Contract!Init
BY DEF Init, Contract!Init, Fate

LEMMA InsertEventRefines ==
    ASSUME IInv, NEW e \in Events, InsertEvent(e)
    PROVE  Contract!Accept(e)
<1>1. status[e] = "absent" /\ status' = [status EXCEPT ![e] = "pending"] /\ UNCHANGED copies
  BY DEF InsertEvent, stream
<1>2. Fate(e) = "none"
  BY <1>1 DEF Fate
<1>3. fates' = [fates EXCEPT ![e] = "owed"]
  BY <1>1 DEF IInv, TypeOK, fates, Fate
<1>4. QED
  BY <1>1, <1>2, <1>3 DEF Contract!Accept, fates

(* A copy that reaches the stream, with or without a relay waiting. *)
LEMMA CopyRefines ==
    ASSUME IInv, NEW e \in Events, status[e] # "absent", UNCHANGED status,
           copies' = [copies EXCEPT ![e] = OneMore(@)]
    PROVE  Contract!Deliver(e)
<1>1. Fate(e) # "none"
  BY DEF Fate
<1>2. fates' = fates
  BY SameFates
<1>3. QED
  BY <1>1, <1>2 DEF Contract!Deliver, Contract!OneMore, OneMore, fates

LEMMA MarkPublishedRefines ==
    ASSUME IInv, NEW r \in Relays, MarkPublished(r)
    PROVE  Contract!Settle(ToMark(r))
<1>1. \A e \in ToMark(r) : e \in Events /\ status[e] = "publishing" /\ copies[e] > 0
  BY DEF ToMark, IInv, TypeOK, HolderIsCurrent, AcknowledgedIsStored
<1>2. \A e \in ToMark(r) : fates[e] = "owed" /\ copies[e] > 0
  BY <1>1 DEF fates, Fate
<1>3. \A e \in Events : Fate(e)' = IF e \in ToMark(r) THEN "published" ELSE fates[e]
  BY DEF MarkPublished, Fate, fates
<1>4. fates' = [e \in Events |-> IF e \in ToMark(r) THEN "published" ELSE fates[e]]
  BY <1>3 DEF fates
<1>5. QED
  BY <1>2, <1>4 DEF Contract!Settle, MarkPublished, stream, fates

(* A failure leaves the event owed, or gives it up. *)
LEMMA MarkFailedRefines ==
    ASSUME IInv, NEW r \in Relays, NEW e \in Events, MarkFailed(r, e)
    PROVE  Contract!GiveUp(e) \/ UNCHANGED <<fates, copies>>
<1>a. UNCHANGED copies
  BY DEF MarkFailed, WriteFailure, stream
<1>1. CASE ~Holds(r, e)
  <2>1. UNCHANGED status
    BY <1>1 DEF MarkFailed, WriteFailure, rows
  <2>2. QED
    BY <1>a, <2>1, SameFates
<1>2. CASE Holds(r, e)
  <2>1. status[e] = "publishing"
    BY <1>2 DEF IInv, HolderIsCurrent
  <2>2. status' = [status EXCEPT ![e] = "dead_letter"] \/ status' = [status EXCEPT ![e] = "failed"]
    BY <1>2 DEF MarkFailed, WriteFailure
  <2>3. CASE status' = [status EXCEPT ![e] = "dead_letter"]
    <3>1. fates[e] = "owed" /\ fates' = [fates EXCEPT ![e] = "abandoned"]
      BY <2>1, <2>3 DEF IInv, TypeOK, fates, Fate
    <3>2. QED
      BY <1>a, <3>1 DEF Contract!GiveUp, fates
  <2>4. CASE status' = [status EXCEPT ![e] = "failed"]
    <3>1. fates' = fates
      BY <2>1, <2>4 DEF IInv, TypeOK, fates, Fate
    <3>2. QED
      BY <1>a, <3>1
  <2>5. QED
    BY <2>2, <2>3, <2>4
<1>3. QED
  BY <1>1, <1>2

LEMMA NextRefines == IInv /\ [Next]_vars => [Contract!Next]_(Contract!cvars)
<1> SUFFICES ASSUME IInv, [Next]_vars
             PROVE  Contract!Next \/ UNCHANGED <<fates, copies>>
  BY DEF Contract!cvars, fates
<1> USE DEF Contract!Next
<1>1. ASSUME NEW r \in Relays, NEW S \in SUBSET Events, Claim(r, S)
      PROVE  Contract!Next \/ UNCHANGED <<fates, copies>>
  BY <1>1, ReclaimKeepsFates DEF Claim, stream
<1>2. ASSUME NEW r \in Relays, NEW e \in Events, PublishStep(r, e)
      PROVE  Contract!Next \/ UNCHANGED <<fates, copies>>
  <2>1. CASE Store(r, e)
    <3>1. status[e] # "absent"
      BY <2>1 DEF Store, IInv, OnlyInserted
    <3>2. Contract!Deliver(e)
      BY <2>1, <3>1, CopyRefines DEF Store, rows
    <3>3. QED
      BY <3>2
  <2>2. CASE Publish(r, e) \/ Reject(r, e) \/ Timeout(r, e)
    BY <2>2, SameFates DEF Publish, Reject, Timeout, rows, stream
  <2>3. QED
    BY <1>2, <2>1, <2>2 DEF PublishStep
<1>3. ASSUME NEW r \in Relays, MarkPublished(r)
      PROVE  Contract!Next \/ UNCHANGED <<fates, copies>>
  <2>1. ToMark(r) \in SUBSET Events
    BY DEF ToMark, IInv, TypeOK
  <2>2. QED
    BY <1>3, <2>1, MarkPublishedRefines
<1>4. ASSUME NEW r \in Relays, NEW e \in Events, MarkFailed(r, e)
      PROVE  Contract!Next \/ UNCHANGED <<fates, copies>>
  BY <1>4, MarkFailedRefines
<1>5. ASSUME NEW r \in Relays,
             \/ MarkPublishedFails(r) \/ Abandon(r)
             \/ \E e \in Events : MarkFailedFails(r, e)
      PROVE  Contract!Next \/ UNCHANGED <<fates, copies>>
  BY <1>5, SameFates DEF MarkPublishedFails, MarkFailedFails, Abandon, rows, stream
<1>6. ASSUME NEW e \in Events, EventStep(e)
      PROVE  Contract!Next \/ UNCHANGED <<fates, copies>>
  <2>1. CASE InsertEvent(e)
    BY <2>1, InsertEventRefines
  <2>2. CASE LateArrival(e)
    <3>1. status[e] # "absent"
      BY <2>2 DEF LateArrival, IInv, OnlyInserted
    <3>2. Contract!Deliver(e)
      BY <2>2, <3>1, CopyRefines DEF LateArrival, rows
    <3>3. QED
      BY <3>2
  <2>3. CASE LateLoss(e) \/ LeaseLapses(e) \/ BackoffEnds(e)
    BY <2>3, SameFates DEF LateLoss, LeaseLapses, BackoffEnds, rows, stream
  <2>4. QED
    BY <1>6, <2>1, <2>2, <2>3 DEF EventStep
<1>7. CASE UNCHANGED vars
  BY <1>7, SameFates DEF vars, rows, stream
<1>8. QED
  BY <1>1, <1>2, <1>3, <1>4, <1>5, <1>6, <1>7 DEF Next, RelayStep

(* The relay implements the contract of the outbox: nothing counts as      *)
(* published before the stream has it, and an accepted event stays owed    *)
(* until it is published or given up.                                      *)
THEOREM Refinement == Spec => ImplementsContract
<1>1. Init => Contract!Init
  BY InitRefines
<1>2. IInv /\ [Next]_vars => [Contract!Next]_(Contract!cvars)
  BY NextRefines
<1>3. QED
  BY <1>1, <1>2, Inductive, PTL DEF Spec, ImplementsContract, Contract!Spec

=============================================================================
