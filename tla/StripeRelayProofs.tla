------------------------- MODULE StripeRelayProofs -------------------------
(***************************************************************************)
(* The safety properties of StripeRelay for any sets of rows and workers,  *)
(* any batch size and any limit of attempts, by an inductive invariant,    *)
(* and the contract of an outbox it implements towards Stripe.             *)
(***************************************************************************)
EXTENDS StripeRelay, TLAPS

(* The token of a row in a worker's batch is worth something: the row is   *)
(* still being published and counts the attempts the worker has read.      *)
HolderIsCurrent ==
    \A w \in Workers, e \in Events :
        Holds(w, e) /\ e \in batch[w]
            => status[e] = "publishing" /\ seen[w][e] = attempts[e]

(* Calls are made for the rows of the batch. *)
CallsInBatch ==
    \A w \in Workers, e \in Events : call[w][e] # "none" => e \in batch[w]

(* A call answered without an error has reached Stripe. *)
AnsweredIsMetered ==
    \A w \in Workers, e \in Events : call[w][e] = "ok" => e \in metered

(* Nothing is claimed or asked of Stripe before its row is inserted. *)
OnlyInserted ==
    \A e \in Events :
        (e \in adrift \/ \E w \in Workers : e \in batch[w]) => status[e] # "absent"

IInv ==
    /\ TypeOK
    /\ NoStrandedRow
    /\ PublishedIsMetered
    /\ HolderIsCurrent
    /\ CallsInBatch
    /\ AnsweredIsMetered
    /\ OnlyInserted

(* The places of a call. *)
LEMMA GoesType ==
    ASSUME TypeOK, NEW q \in Workers, NEW x \in Events,
           NEW place \in {"none", "sent", "ok", "err", "over"}, Goes(q, x, place)
    PROVE  /\ call' \in [Workers -> [Events -> {"none", "sent", "ok", "err", "over"}]]
           /\ \A w \in Workers, e \in Events :
                 call'[w][e] = IF w = q /\ e = x THEN place ELSE call[w][e]
BY DEF Goes, TypeOK

(* A worker that forgets its batch forgets nothing of anybody else's. *)
LEMMA ForgetType ==
    ASSUME TypeOK, NEW q \in Workers, Forget(q)
    PROVE  /\ batch' \in [Workers -> SUBSET Events]
           /\ seen' \in [Workers -> [Events -> 0..MaxAttempts]]
           /\ call' \in [Workers -> [Events -> {"none", "sent", "ok", "err", "over"}]]
           /\ \A w \in Workers, e \in Events :
                 /\ e \in batch'[w] => w # q /\ e \in batch[w]
                 /\ w # q => seen'[w][e] = seen[w][e] /\ batch'[w] = batch[w]
                 /\ call'[w][e] = IF w = q THEN "none" ELSE call[w][e]
<1>1. [e \in Events |-> 0] \in [Events -> 0..MaxAttempts]
  BY StripeRelayAssumption
<1>2. [e \in Events |-> "none"] \in [Events -> {"none", "sent", "ok", "err", "over"}]
  OBVIOUS
<1>3. QED
  BY <1>1, <1>2 DEF Forget, TypeOK

-----------------------------------------------------------------------------
LEMMA InitIInv == Init => IInv
BY StripeRelayAssumption
   DEF Init, IInv, TypeOK, NoStrandedRow, PublishedIsMetered, HolderIsCurrent, Holds,
       CallsInBatch, AnsweredIsMetered, OnlyInserted

LEMMA InsertRowIInv ==
    ASSUME IInv, NEW x \in Events, InsertRow(x)
    PROVE  IInv'
<1> USE DEF IInv, InsertRow, stripe
<1>1. TypeOK'
  BY DEF TypeOK
<1>2. NoStrandedRow' /\ PublishedIsMetered'
  BY DEF TypeOK, NoStrandedRow, PublishedIsMetered
<1>3. HolderIsCurrent'
  BY DEF TypeOK, HolderIsCurrent, Holds
<1>4. CallsInBatch' /\ AnsweredIsMetered'
  BY DEF CallsInBatch, AnsweredIsMetered
<1>5. OnlyInserted'
  BY DEF TypeOK, OnlyInserted
<1>6. QED
  BY <1>1, <1>2, <1>3, <1>4, <1>5

LEMMA ClaimIInv ==
    ASSUME IInv, NEW q \in Workers, NEW S \in SUBSET Events, Claim(q, S)
    PROVE  IInv'
<1> USE DEF IInv, Claim, Due, stripe
<1>1. TypeOK'
  <2>1. [e \in Events |-> IF e \in S THEN attempts[e] ELSE 0] \in [Events -> 0..MaxAttempts]
    BY StripeRelayAssumption DEF TypeOK
  <2>2. QED
    BY <2>1 DEF TypeOK
<1>2. NoStrandedRow' /\ PublishedIsMetered'
  BY StripeRelayAssumption DEF TypeOK, NoStrandedRow, PublishedIsMetered
<1>3. HolderIsCurrent'
  <2> SUFFICES ASSUME NEW w \in Workers, NEW e \in Events, Holds(w, e)', e \in batch'[w]
               PROVE  (status[e] = "publishing" /\ seen[w][e] = attempts[e])'
    BY DEF HolderIsCurrent
  <2>1. CASE e \in S
    <3>1. w = q
      BY <2>1 DEF Holds
    <3>2. QED
      BY <2>1, <3>1 DEF TypeOK
  <2>2. CASE e \notin S
    <3>1. w # q
      BY <2>2 DEF TypeOK
    <3>2. Holds(w, e) /\ e \in batch[w]
      BY <2>2, <3>1 DEF Holds, TypeOK
    <3>3. QED
      BY <2>2, <3>1, <3>2 DEF TypeOK, HolderIsCurrent
  <2>3. QED
    BY <2>1, <2>2
<1>4. CallsInBatch' /\ AnsweredIsMetered'
  BY DEF TypeOK, CallsInBatch, AnsweredIsMetered
<1>5. OnlyInserted'
  BY DEF TypeOK, OnlyInserted
<1>6. QED
  BY <1>1, <1>2, <1>3, <1>4, <1>5

(* A call moves on, and Stripe meters what it answers for. *)
LEMMA CallMovesIInv ==
    ASSUME IInv, NEW q \in Workers, NEW x \in Events, x \in batch[q],
           NEW place \in {"none", "sent", "ok", "err", "over"}, Goes(q, x, place),
           metered' \in {metered, metered \cup {x}},
           place = "ok" => x \in metered',
           adrift' \in {adrift, adrift \cup {x}},
           UNCHANGED <<rows, batch, seen>>
    PROVE  IInv'
<1> USE GoesType DEF IInv, rows
<1>1. TypeOK'
  BY DEF TypeOK
<1>2. NoStrandedRow' /\ PublishedIsMetered'
  BY DEF NoStrandedRow, PublishedIsMetered
<1>3. HolderIsCurrent'
  BY DEF HolderIsCurrent, Holds
<1>4. CallsInBatch' /\ AnsweredIsMetered'
  BY DEF CallsInBatch, AnsweredIsMetered
<1>5. OnlyInserted'
  BY DEF OnlyInserted
<1>6. QED
  BY <1>1, <1>2, <1>3, <1>4, <1>5

LEMMA RecordFailureIInv ==
    ASSUME IInv, NEW q \in Workers, NEW x \in Events, MarkStripeEventFailed(q, x)
    PROVE  IInv'
<1> USE DEF IInv
<1>a. call[q][x] = "err" /\ x \in batch[q] /\ Goes(q, x, "over")
      /\ UNCHANGED <<metered, adrift, batch, seen>>
  BY DEF MarkStripeEventFailed, WriteFailure, CallsInBatch, stripe
<1>1. CASE ~Holds(q, x)
  <2>1. UNCHANGED rows
    BY <1>1 DEF MarkStripeEventFailed, WriteFailure
  <2>2. QED
    BY <1>a, <2>1, CallMovesIInv
<1>2. CASE Holds(q, x)
  <2> DEFINE n == seen[q][x] + 1
  <2>a. /\ attempts' = [attempts EXCEPT ![x] = n]
        /\ status' = [status EXCEPT ![x] = IF n >= MaxAttempts THEN "dead_letter" ELSE "failed"]
        /\ backoff' = [backoff EXCEPT ![x] = TRUE]
        /\ claimToken' = [claimToken EXCEPT ![x] = NoToken]
        /\ UNCHANGED fresh
    BY <1>2 DEF MarkStripeEventFailed, WriteFailure
  <2>b. n \in 0..MaxAttempts
    <3>1. status[x] = "publishing" /\ n = attempts[x] + 1
      BY <1>a, <1>2 DEF HolderIsCurrent
    <3>2. attempts[x] \in 0..MaxAttempts /\ attempts[x] # MaxAttempts
      BY <3>1 DEF TypeOK, NoStrandedRow
    <3>3. QED
      BY <3>1, <3>2, StripeRelayAssumption
  <2> HIDE DEF n
  <2>1. TypeOK'
    BY <1>a, <2>a, <2>b, GoesType DEF TypeOK
  <2>2. NoStrandedRow'
    <3>1. /\ status'[x] = IF n >= MaxAttempts THEN "dead_letter" ELSE "failed"
          /\ attempts'[x] = n
      BY <2>a DEF TypeOK
    <3>2. n >= MaxAttempts <=> n = MaxAttempts
      BY <2>b, StripeRelayAssumption
    <3>3. \A e \in Events : e # x => status'[e] = status[e] /\ attempts'[e] = attempts[e]
      BY <2>a DEF TypeOK
    <3>4. QED
      BY <3>1, <3>2, <3>3 DEF NoStrandedRow
  <2>3. PublishedIsMetered' /\ OnlyInserted'
    BY <1>a, <2>a DEF TypeOK, PublishedIsMetered, OnlyInserted
  <2>4. HolderIsCurrent'
    <3> SUFFICES ASSUME NEW w \in Workers, NEW e \in Events, Holds(w, e)', e \in batch'[w]
                 PROVE  (status[e] = "publishing" /\ seen[w][e] = attempts[e])'
      BY DEF HolderIsCurrent
    <3>1. e # x
      BY <2>a, StripeRelayAssumption DEF TypeOK, Holds
    <3>2. Holds(w, e) /\ e \in batch[w]
      BY <1>a, <2>a, <3>1 DEF Holds, TypeOK
    <3>3. QED
      BY <1>a, <2>a, <3>1, <3>2 DEF HolderIsCurrent, TypeOK
  <2>5. CallsInBatch' /\ AnsweredIsMetered'
    BY <1>a, GoesType DEF CallsInBatch, AnsweredIsMetered
  <2>6. QED
    BY <2>1, <2>2, <2>3, <2>4, <2>5
<1>3. QED
  BY <1>1, <1>2

(* The batch is forgotten and the rows stay as they are. *)
LEMMA ForgetIInv ==
    ASSUME IInv, NEW q \in Workers, Forget(q), UNCHANGED rows, UNCHANGED metered,
           NEW A \in SUBSET batch[q], adrift' = adrift \cup A
    PROVE  IInv'
<1> USE ForgetType DEF IInv, rows
<1>1. TypeOK'
  BY DEF TypeOK
<1>2. NoStrandedRow' /\ PublishedIsMetered'
  BY DEF NoStrandedRow, PublishedIsMetered
<1>3. HolderIsCurrent'
  BY DEF HolderIsCurrent, Holds
<1>4. CallsInBatch' /\ AnsweredIsMetered'
  BY DEF CallsInBatch, AnsweredIsMetered
<1>5. OnlyInserted'
  BY DEF OnlyInserted
<1>6. QED
  BY <1>1, <1>2, <1>3, <1>4, <1>5

LEMMA RecordPublishedIInv ==
    ASSUME IInv, NEW q \in Workers, MarkStripeEventsPublished(q)
    PROVE  IInv'
<1> USE DEF IInv
<1>a. Forget(q) /\ UNCHANGED <<attempts, fresh, backoff, metered, adrift>>
  BY DEF MarkStripeEventsPublished, stripe
<1>b. \A e \in ToMark(q) : Holds(q, e) /\ e \in batch[q] /\ call[q][e] = "ok"
  BY DEF ToMark
<1>c. /\ \A e \in Events : IF e \in ToMark(q)
                           THEN status'[e] = "published" /\ claimToken'[e] = NoToken
                           ELSE status'[e] = status[e] /\ claimToken'[e] = claimToken[e]
      /\ status' \in [Events -> {"absent", "pending", "publishing", "failed",
                                 "published", "dead_letter"}]
      /\ claimToken' \in [Events -> Workers \cup {NoToken}]
  BY DEF MarkStripeEventsPublished, TypeOK
<1>1. TypeOK'
  BY <1>a, <1>c, ForgetType DEF TypeOK
<1>2. NoStrandedRow'
  BY <1>a, <1>b, <1>c DEF NoStrandedRow, HolderIsCurrent
<1>3. PublishedIsMetered'
  BY <1>a, <1>b, <1>c DEF PublishedIsMetered, AnsweredIsMetered
<1>4. HolderIsCurrent'
  <2> SUFFICES ASSUME NEW w \in Workers, NEW e \in Events, Holds(w, e)', e \in batch'[w]
               PROVE  (status[e] = "publishing" /\ seen[w][e] = attempts[e])'
    BY DEF HolderIsCurrent
  <2>1. e \notin ToMark(q)
    BY <1>c, StripeRelayAssumption DEF Holds
  <2>2. Holds(w, e) /\ e \in batch[w] /\ seen'[w][e] = seen[w][e]
    BY <1>a, <1>c, <2>1, ForgetType DEF Holds
  <2>3. QED
    BY <1>a, <1>c, <2>1, <2>2 DEF HolderIsCurrent
<1>5. CallsInBatch' /\ AnsweredIsMetered'
  BY <1>a, ForgetType DEF CallsInBatch, AnsweredIsMetered
<1>6. OnlyInserted'
  BY <1>a, <1>c, ForgetType DEF OnlyInserted
<1>7. QED
  BY <1>1, <1>2, <1>3, <1>4, <1>5, <1>6

LEMMA LateRequestIInv ==
    ASSUME IInv, NEW x \in Events, LateRequest(x)
    PROVE  IInv'
<1> USE DEF IInv, LateRequest, rows
<1>1. TypeOK' /\ CallsInBatch' /\ AnsweredIsMetered'
  BY DEF TypeOK, CallsInBatch, AnsweredIsMetered
<1>2. NoStrandedRow' /\ PublishedIsMetered'
  BY DEF NoStrandedRow, PublishedIsMetered
<1>3. HolderIsCurrent' /\ OnlyInserted'
  BY DEF HolderIsCurrent, Holds, OnlyInserted
<1>4. QED
  BY <1>1, <1>2, <1>3

(* Time moves no status, no count and no token. *)
LEMMA ClockIInv ==
    ASSUME IInv, NEW x \in Events, LeaseLapses(x) \/ BackoffEnds(x)
    PROVE  IInv'
<1> USE DEF IInv, LeaseLapses, BackoffEnds, stripe
<1>1. TypeOK' /\ CallsInBatch' /\ AnsweredIsMetered'
  BY DEF TypeOK, CallsInBatch, AnsweredIsMetered
<1>2. NoStrandedRow' /\ PublishedIsMetered'
  BY DEF NoStrandedRow, PublishedIsMetered
<1>3. HolderIsCurrent' /\ OnlyInserted'
  BY DEF HolderIsCurrent, Holds, OnlyInserted
<1>4. QED
  BY <1>1, <1>2, <1>3

LEMMA NextIInv == IInv /\ [Next]_vars => IInv'
<1> SUFFICES ASSUME IInv, [Next]_vars
             PROVE  IInv'
  OBVIOUS
<1>1. ASSUME NEW w \in Workers, NEW S \in SUBSET Events, Claim(w, S)
      PROVE  IInv'
  BY <1>1, ClaimIInv
<1>2. ASSUME NEW w \in Workers, NEW e \in Events, CallStep(w, e)
      PROVE  IInv'
  <2>1. CASE Send(w, e)
    BY <2>1, CallMovesIInv DEF Send, stripe
  <2>2. CASE Meter(w, e)
    <3>1. PICK place \in {"ok", "err"} : Goes(w, e, place)
      BY <2>2 DEF Meter
    <3>2. e \in batch[w] /\ metered' = metered \cup {e} /\ adrift' = adrift
          /\ UNCHANGED <<rows, batch, seen>>
      BY <2>2 DEF Meter, IInv, CallsInBatch
    <3>3. QED
      BY <3>1, <3>2, CallMovesIInv
  <2>3. CASE CallFails(w, e)
    <3>1. e \in batch[w]
      BY <2>3 DEF CallFails, IInv, CallsInBatch
    <3>2. QED
      BY <2>3, <3>1, CallMovesIInv DEF CallFails
  <2>4. CASE MarkStripeEventFailed(w, e)
    BY <2>4, RecordFailureIInv
  <2>5. CASE MarkStripeEventFailedFails(w, e)
    <3>1. e \in batch[w]
      BY <2>5 DEF MarkStripeEventFailedFails, IInv, CallsInBatch
    <3>2. QED
      BY <2>5, <3>1, CallMovesIInv DEF MarkStripeEventFailedFails, stripe
  <2>6. QED
    BY <1>2, <2>1, <2>2, <2>3, <2>4, <2>5 DEF CallStep
<1>3. ASSUME NEW w \in Workers, MarkStripeEventsPublished(w)
      PROVE  IInv'
  BY <1>3, RecordPublishedIInv
<1>4. ASSUME NEW w \in Workers, MarkStripeEventsPublishedFails(w)
      PROVE  IInv'
  <2>1. {} \in SUBSET batch[w] /\ adrift' = adrift \cup {}
    BY <1>4 DEF MarkStripeEventsPublishedFails, stripe
  <2>2. QED
    BY <1>4, <2>1, ForgetIInv DEF MarkStripeEventsPublishedFails, stripe
<1>5. ASSUME NEW w \in Workers, Abandon(w)
      PROVE  IInv'
  <2>1. {e \in Events : call[w][e] = "sent"} \in SUBSET batch[w]
    BY DEF IInv, CallsInBatch
  <2>2. QED
    BY <1>5, <2>1, ForgetIInv DEF Abandon
<1>6. ASSUME NEW e \in Events, RowStep(e)
      PROVE  IInv'
  BY <1>6, InsertRowIInv, LateRequestIInv, ClockIInv DEF RowStep
<1>7. CASE UNCHANGED vars
  BY <1>7
     DEF vars, rows, stripe, IInv, TypeOK, NoStrandedRow, PublishedIsMetered,
         HolderIsCurrent, Holds, CallsInBatch, AnsweredIsMetered, OnlyInserted
<1>8. QED
  BY <1>1, <1>2, <1>3, <1>4, <1>5, <1>6, <1>7 DEF Next, WorkerStep

(* The invariant holds in every state the relay to Stripe reaches, however *)
(* workers, crashes, late requests and the clock interleave.               *)
THEOREM Inductive == Spec => []IInv
BY InitIInv, NextIInv, PTL DEF Spec

(* The rows, the calls and the batches keep to their types. *)
THEOREM TypesKept == Spec => []TypeOK
BY Inductive, PTL DEF IInv

(* processStripeOutbox records no row as published that Stripe has not     *)
(* metered.                                                                *)
THEOREM PublishedMetered == Spec => []PublishedIsMetered
BY Inductive, PTL DEF IInv

(* Exactly the rows out of attempts are dead letters: none is left where   *)
(* claimStripeOutbox cannot see it.                                        *)
THEOREM NoneStranded == Spec => []NoStrandedRow
BY Inductive, PTL DEF IInv

-----------------------------------------------------------------------------
(* Only the two records of the holder of its token move a row out of       *)
(* publishing.                                                             *)
LEMMA StepsOfHolder ==
    ASSUME IInv, [Next]_vars, NEW e \in Events,
           status[e] = "publishing", status'[e] # "publishing"
    PROVE  \E w \in Workers : Holds(w, e) /\ e \in batch[w]
                              /\ (status'[e] = "published" => call[w][e] = "ok")
<1> USE DEF IInv, TypeOK
<1>1. ASSUME NEW w \in Workers, NEW S \in SUBSET Events, Claim(w, S)
      PROVE  FALSE
  BY <1>1 DEF Claim
<1>2. ASSUME NEW w \in Workers, NEW x \in Events,
             Send(w, x) \/ Meter(w, x) \/ CallFails(w, x) \/ MarkStripeEventFailedFails(w, x)
      PROVE  FALSE
  BY <1>2 DEF Send, Meter, CallFails, MarkStripeEventFailedFails, rows
<1>3. ASSUME NEW w \in Workers, NEW x \in Events, MarkStripeEventFailed(w, x)
      PROVE  Holds(w, e) /\ e \in batch[w] /\ status'[e] # "published"
  <2>1. Holds(w, x) /\ x \in batch[w]
    BY <1>3 DEF MarkStripeEventFailed, WriteFailure, rows, CallsInBatch
  <2>2. x = e /\ status'[x] \in {"dead_letter", "failed"}
    BY <1>3, <2>1 DEF MarkStripeEventFailed, WriteFailure
  <2>3. QED
    BY <2>1, <2>2
<1>4. ASSUME NEW w \in Workers, MarkStripeEventsPublished(w)
      PROVE  Holds(w, e) /\ e \in batch[w] /\ call[w][e] = "ok"
  BY <1>4 DEF MarkStripeEventsPublished, ToMark
<1>5. ASSUME NEW w \in Workers, MarkStripeEventsPublishedFails(w) \/ Abandon(w)
      PROVE  FALSE
  BY <1>5 DEF MarkStripeEventsPublishedFails, Abandon, rows
<1>6. ASSUME NEW x \in Events, RowStep(x)
      PROVE  FALSE
  BY <1>6 DEF RowStep, InsertRow, LateRequest, LeaseLapses, BackoffEnds, rows
<1>7. CASE UNCHANGED vars
  BY <1>7 DEF vars, rows
<1>8. QED
  BY <1>1, <1>2, <1>3, <1>4, <1>5, <1>6, <1>7 DEF Next, WorkerStep, CallStep

(* A worker that lost its lease during a slow call to Stripe records       *)
(* nothing: only the worker whose token is in the row, with the row in its *)
(* batch, ends the publishing of it, and as published only after Stripe    *)
(* has answered.                                                           *)
THEOREM OnlyHolder == Spec => OnlyHolderRecords
<1>1. IInv /\ [Next]_vars =>
          [\A e \in Events : status[e] = "publishing" /\ status'[e] # "publishing"
               => \E w \in Workers : Holds(w, e) /\ e \in batch[w]
                                     /\ (status'[e] = "published" => call[w][e] = "ok")]_vars
  BY StepsOfHolder
<1>2. QED
  BY <1>1, Inductive, PTL DEF Spec, OnlyHolderRecords

-----------------------------------------------------------------------------
(* The refinement: the fate of every row and the meter events, as          *)
(* functions to rewrite.                                                   *)
fates == [e \in Events |-> Fate(e)]
meters == [e \in Events |-> IF e \in metered THEN 1 ELSE 0]

LEMMA SameFates ==
    ASSUME \A e \in Events : status'[e] = status[e]
    PROVE  fates' = fates
BY DEF fates, Fate

(* A claim leaves what was owed owed. *)
LEMMA ClaimKeepsFates ==
    ASSUME IInv, NEW w \in Workers, NEW S \in SUBSET Events, Claim(w, S)
    PROVE  fates' = fates
<1>1. \A e \in Events : Fate(e)' = Fate(e)
  <2> SUFFICES ASSUME NEW e \in Events
               PROVE  Fate(e)' = Fate(e)
    OBVIOUS
  <2>1. CASE e \in S
    <3>1. status[e] \in {"pending", "failed", "publishing"} /\ status'[e] = "publishing"
      BY <2>1 DEF Claim, Due
    <3>2. QED
      BY <3>1 DEF Fate
  <2>2. CASE e \notin S
    BY <2>2 DEF Claim, Fate
  <2>3. QED
    BY <2>1, <2>2
<1>2. QED
  BY <1>1 DEF fates

LEMMA InitRefines == Init => Contract!Init
BY DEF Init, Contract!Init, Fate

LEMMA InsertRowRefines ==
    ASSUME IInv, NEW e \in Events, InsertRow(e)
    PROVE  Contract!Accept(e)
<1>1. status[e] = "absent" /\ status' = [status EXCEPT ![e] = "pending"] /\ UNCHANGED metered
  BY DEF InsertRow, stripe
<1>2. Fate(e) = "none"
  BY <1>1 DEF Fate
<1>3. fates' = [fates EXCEPT ![e] = "owed"]
  BY <1>1 DEF IInv, TypeOK, fates, Fate
<1>4. QED
  BY <1>1, <1>2, <1>3 DEF Contract!Accept, fates

(* A request that reaches Stripe, with or without a worker waiting. *)
LEMMA MeterRefines ==
    ASSUME IInv, NEW e \in Events, status[e] # "absent", UNCHANGED status,
           metered' = metered \cup {e}
    PROVE  Contract!Deliver(e)
<1>1. Fate(e) # "none"
  BY DEF Fate
<1>2. fates' = fates
  BY SameFates
<1>3. meters' = [meters EXCEPT ![e] = IF @ = 1 THEN 1 ELSE @ + 1]
  <2>1. (IF meters[e] = 1 THEN 1 ELSE meters[e] + 1) = 1
    BY DEF meters
  <2>2. meters' = [meters EXCEPT ![e] = 1]
    BY DEF meters
  <2>3. QED
    BY <2>1, <2>2
<1>4. QED
  BY <1>1, <1>2, <1>3 DEF Contract!Deliver, Contract!OneMore, fates, meters

LEMMA RecordPublishedRefines ==
    ASSUME IInv, NEW w \in Workers, MarkStripeEventsPublished(w)
    PROVE  Contract!Settle(ToMark(w))
<1>1. \A e \in ToMark(w) : e \in Events /\ status[e] = "publishing" /\ e \in metered
  BY DEF ToMark, IInv, TypeOK, HolderIsCurrent, AnsweredIsMetered
<1>2. \A e \in ToMark(w) : fates[e] = "owed" /\ meters[e] > 0
  BY <1>1 DEF fates, Fate, meters
<1>3. \A e \in Events : Fate(e)' = IF e \in ToMark(w) THEN "published" ELSE fates[e]
  BY DEF MarkStripeEventsPublished, Fate, fates
<1>4. fates' = [e \in Events |-> IF e \in ToMark(w) THEN "published" ELSE fates[e]]
  BY <1>3 DEF fates
<1>5. meters' = meters
  BY DEF MarkStripeEventsPublished, stripe, meters
<1>6. QED
  BY <1>2, <1>4, <1>5 DEF Contract!Settle, fates, meters

(* A failure leaves the row owed, or gives it up. *)
LEMMA RecordFailureRefines ==
    ASSUME IInv, NEW w \in Workers, NEW e \in Events, MarkStripeEventFailed(w, e)
    PROVE  Contract!GiveUp(e) \/ UNCHANGED <<fates, meters>>
<1>a. meters' = meters
  BY DEF MarkStripeEventFailed, WriteFailure, stripe, meters
<1>1. CASE ~Holds(w, e)
  <2>1. UNCHANGED status
    BY <1>1 DEF MarkStripeEventFailed, WriteFailure, rows
  <2>2. QED
    BY <1>a, <2>1, SameFates
<1>2. CASE Holds(w, e)
  <2>1. status[e] = "publishing"
    BY <1>2 DEF MarkStripeEventFailed, WriteFailure, IInv, CallsInBatch, HolderIsCurrent
  <2>2. status' = [status EXCEPT ![e] = "dead_letter"] \/ status' = [status EXCEPT ![e] = "failed"]
    BY <1>2 DEF MarkStripeEventFailed, WriteFailure
  <2>3. CASE status' = [status EXCEPT ![e] = "dead_letter"]
    <3>1. fates[e] = "owed" /\ fates' = [fates EXCEPT ![e] = "abandoned"]
      BY <2>1, <2>3 DEF IInv, TypeOK, fates, Fate
    <3>2. QED
      BY <1>a, <3>1 DEF Contract!GiveUp, fates, meters
  <2>4. CASE status' = [status EXCEPT ![e] = "failed"]
    <3>1. fates' = fates
      BY <2>1, <2>4 DEF IInv, TypeOK, fates, Fate
    <3>2. QED
      BY <1>a, <3>1
  <2>5. QED
    BY <2>2, <2>3, <2>4
<1>3. QED
  BY <1>1, <1>2

LEMMA NextRefines == IInv /\ [Next]_vars => [Contract!Next]_(Contract!cvars)
<1> SUFFICES ASSUME IInv, [Next]_vars
             PROVE  Contract!Next \/ UNCHANGED <<fates, meters>>
  BY DEF Contract!cvars, fates, meters
<1> USE DEF Contract!Next
<1>a. UNCHANGED metered => UNCHANGED meters
  BY DEF meters
<1>1. ASSUME NEW w \in Workers, NEW S \in SUBSET Events, Claim(w, S)
      PROVE  Contract!Next \/ UNCHANGED <<fates, meters>>
  BY <1>1, <1>a, ClaimKeepsFates DEF Claim, stripe
<1>2. ASSUME NEW w \in Workers, NEW e \in Events, CallStep(w, e)
      PROVE  Contract!Next \/ UNCHANGED <<fates, meters>>
  <2>1. CASE Meter(w, e)
    <3>1. status[e] # "absent"
      BY <2>1 DEF Meter, IInv, CallsInBatch, OnlyInserted
    <3>2. Contract!Deliver(e)
      BY <2>1, <3>1, MeterRefines DEF Meter, rows
    <3>3. QED
      BY <3>2
  <2>2. CASE Send(w, e) \/ CallFails(w, e) \/ MarkStripeEventFailedFails(w, e)
    BY <2>2, <1>a, SameFates DEF Send, CallFails, MarkStripeEventFailedFails, rows, stripe
  <2>3. CASE MarkStripeEventFailed(w, e)
    BY <2>3, RecordFailureRefines
  <2>4. QED
    BY <1>2, <2>1, <2>2, <2>3 DEF CallStep
<1>3. ASSUME NEW w \in Workers, MarkStripeEventsPublished(w)
      PROVE  Contract!Next \/ UNCHANGED <<fates, meters>>
  <2>1. ToMark(w) \in SUBSET Events
    BY DEF ToMark, IInv, TypeOK
  <2>2. QED
    BY <1>3, <2>1, RecordPublishedRefines
<1>4. ASSUME NEW w \in Workers, MarkStripeEventsPublishedFails(w) \/ Abandon(w)
      PROVE  Contract!Next \/ UNCHANGED <<fates, meters>>
  BY <1>4, <1>a, SameFates DEF MarkStripeEventsPublishedFails, Abandon, rows, stripe
<1>5. ASSUME NEW e \in Events, RowStep(e)
      PROVE  Contract!Next \/ UNCHANGED <<fates, meters>>
  <2>1. CASE InsertRow(e)
    BY <2>1, InsertRowRefines
  <2>2. CASE LateRequest(e)
    <3>1. CASE metered' = metered \cup {e}
      <4>1. Contract!Deliver(e)
        BY <2>2, <3>1, MeterRefines DEF LateRequest, IInv, OnlyInserted, rows
      <4>2. QED
        BY <4>1
    <3>2. CASE metered' = metered
      BY <2>2, <3>2, <1>a, SameFates DEF LateRequest, rows
    <3>3. QED
      BY <2>2, <3>1, <3>2 DEF LateRequest
  <2>3. CASE LeaseLapses(e) \/ BackoffEnds(e)
    BY <2>3, <1>a, SameFates DEF LeaseLapses, BackoffEnds, stripe
  <2>4. QED
    BY <1>5, <2>1, <2>2, <2>3 DEF RowStep
<1>6. CASE UNCHANGED vars
  BY <1>6, <1>a, SameFates DEF vars, rows, stripe
<1>7. QED
  BY <1>1, <1>2, <1>3, <1>4, <1>5, <1>6 DEF Next, WorkerStep

(* The relay implements the contract of an outbox towards Stripe: no row   *)
(* counts as published before Stripe has metered it, and a row stays owed  *)
(* until it is published or given up.                                      *)
THEOREM Refinement == Spec => ImplementsContract
<1>1. Init => Contract!Init
  BY InitRefines
<1>2. IInv /\ [Next]_vars => [Contract!Next]_(Contract!cvars)
  BY NextRefines
<1>3. QED
  BY <1>1, <1>2, Inductive, PTL DEF Spec, ImplementsContract, Contract!Spec

=============================================================================
