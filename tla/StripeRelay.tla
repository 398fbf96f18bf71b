---------------------------- MODULE StripeRelay ----------------------------
(***************************************************************************)
(* The relay from stripe_outbox to Stripe's meter events, in               *)
(* server/worker/internal/billing: every worker claims a batch of rows     *)
(* under a lease of 30 seconds and a fresh token, calls Stripe for each of *)
(* them side by side, records a failed call at once and all the others     *)
(* together when the last call has returned.  A worker forgets the tokens  *)
(* of a batch before it claims another, so that its name serves as the     *)
(* token.                                                                  *)
(*                                                                         *)
(* Stripe is external: it keeps one meter event per idempotency key, and   *)
(* the key of a row is the event_id of its usage.  Time is abstract: a     *)
(* lease lapses and a backoff ends by steps of the clock.                  *)
(***************************************************************************)
EXTENDS Naturals, FiniteSets

CONSTANTS Events,       \* rows, by usage_event_id
          Workers,      \* worker processes
          NoToken,      \* SQL NULL in claim_token
          BatchSize,    \* LIMIT of the claim (50)
          MaxAttempts   \* STRIPE_OUTBOX_MAX_ATTEMPTS (5)

ASSUME StripeRelayAssumption ==
    /\ NoToken \notin Workers
    /\ BatchSize \in Nat \ {0}
    /\ MaxAttempts \in Nat \ {0}

VARIABLES
    \* stripe_outbox; fresh: claimed_until is ahead; backoff: next_attempt_at is
    status, attempts, claimToken, fresh, backoff,
    \* Stripe: the keys it has metered, the requests nobody waits for
    metered, adrift,
    \* a worker: its batch, the attempts it read, its call for each row
    batch, seen, call

rows   == <<status, attempts, claimToken, fresh, backoff>>
stripe == <<metered, adrift>>
vars   == <<rows, stripe, batch, seen, call>>

TypeOK ==
    /\ status \in [Events -> {"absent", "pending", "publishing", "failed",
                              "published", "dead_letter"}]
    /\ attempts \in [Events -> 0..MaxAttempts]
    /\ claimToken \in [Events -> Workers \cup {NoToken}]
    /\ fresh \in [Events -> BOOLEAN]
    /\ backoff \in [Events -> BOOLEAN]
    /\ metered \in SUBSET Events
    /\ adrift \in SUBSET Events
    /\ batch \in [Workers -> SUBSET Events]
    /\ seen \in [Workers -> [Events -> 0..MaxAttempts]]
    /\ call \in [Workers -> [Events -> {"none", "sent", "ok", "err", "over"}]]

Init ==
    /\ status = [e \in Events |-> "absent"]
    /\ attempts = [e \in Events |-> 0]
    /\ claimToken = [e \in Events |-> NoToken]
    /\ fresh = [e \in Events |-> FALSE]
    /\ backoff = [e \in Events |-> FALSE]
    /\ metered = {} /\ adrift = {}
    /\ batch = [w \in Workers |-> {}]
    /\ seen = [w \in Workers |-> [e \in Events |-> 0]]
    /\ call = [w \in Workers |-> [e \in Events |-> "none"]]

-----------------------------------------------------------------------------
(* RecordUsageAndStripeEvent commits a row (module UsageConsumer). *)
InsertRow(e) ==
    /\ status[e] = "absent"
    /\ status' = [status EXCEPT ![e] = "pending"]
    /\ UNCHANGED <<attempts, claimToken, fresh, backoff, stripe, batch, seen, call>>

(* The WHERE clause of the claim: unlike the outbox's, a failed row does   *)
(* not wait for the end of its old lease.                                  *)
Due(e) ==
    /\ \/ status[e] \in {"pending", "failed"} /\ ~backoff[e]
       \/ status[e] = "publishing" /\ ~fresh[e]
    /\ attempts[e] < MaxAttempts

Claim(w, S) ==
    /\ batch[w] = {}
    /\ S # {} /\ Cardinality(S) <= BatchSize
    /\ \A e \in S : Due(e)
    /\ status' = [e \in Events |-> IF e \in S THEN "publishing" ELSE status[e]]
    /\ claimToken' = [e \in Events |-> IF e \in S THEN w ELSE claimToken[e]]
    /\ fresh' = [e \in Events |-> fresh[e] \/ e \in S]
    /\ batch' = [batch EXCEPT ![w] = S]
    /\ seen' = [seen EXCEPT ![w] = [e \in Events |-> IF e \in S THEN attempts[e] ELSE 0]]
    /\ UNCHANGED <<attempts, backoff, stripe, call>>

Goes(w, e, place) == call' = [call EXCEPT ![w][e] = place]

(* meterevent.New sends the request, when a slot of sem is free. *)
Send(w, e) ==
    /\ e \in batch[w] /\ call[w][e] = "none"
    /\ Goes(w, e, "sent")
    /\ UNCHANGED <<rows, stripe, batch, seen>>

(* Stripe meters the key, or knows it already; the answer comes back, or   *)
(* the connection fails first.                                             *)
Meter(w, e) ==
    /\ call[w][e] = "sent"
    /\ metered' = metered \cup {e}
    /\ \E place \in {"ok", "err"} : Goes(w, e, place)
    /\ UNCHANGED <<rows, adrift, batch, seen>>

(* The call fails; the request may have got away. *)
CallFails(w, e) ==
    /\ call[w][e] = "sent"
    /\ adrift' \in {adrift, adrift \cup {e}}
    /\ Goes(w, e, "err")
    /\ UNCHANGED <<rows, metered, batch, seen>>

Holds(w, e) == claimToken[e] = w

WriteFailure(w, e, found, n, dead) ==
    /\ call[w][e] = "err"
    /\ Goes(w, e, "over")
    /\ IF found
       THEN /\ attempts' = [attempts EXCEPT ![e] = n]
            /\ status' = [status EXCEPT ![e] = IF dead THEN "dead_letter" ELSE "failed"]
            /\ backoff' = [backoff EXCEPT ![e] = TRUE]
            /\ claimToken' = [claimToken EXCEPT ![e] = NoToken]
            /\ UNCHANGED fresh
       ELSE UNCHANGED rows
    /\ UNCHANGED <<stripe, batch, seen>>

(* Without the token condition; counting in SQL without it; a limit off by *)
(* one.                                                                    *)
MarkStripeEventFailed_AnyToken(w, e) ==
    WriteFailure(w, e, TRUE, seen[w][e] + 1, seen[w][e] + 1 >= MaxAttempts)
MarkStripeEventFailed_SqlCount(w, e) ==
    WriteFailure(w, e, TRUE, attempts[e] + 1, attempts[e] + 1 >= MaxAttempts)
MarkStripeEventFailed_OffByOne(w, e) ==
    WriteFailure(w, e, Holds(w, e), seen[w][e] + 1, seen[w][e] + 1 > MaxAttempts)

(* At once, while other calls of the batch are still out. *)
MarkStripeEventFailed(w, e) ==
    WriteFailure(w, e, Holds(w, e), seen[w][e] + 1, seen[w][e] + 1 >= MaxAttempts)

(* The statement fails, and the error is logged. *)
MarkStripeEventFailedFails(w, e) ==
    /\ call[w][e] = "err"
    /\ Goes(w, e, "over")
    /\ UNCHANGED <<rows, stripe, batch, seen>>

Forget(w) ==
    /\ batch' = [batch EXCEPT ![w] = {}]
    /\ seen' = [seen EXCEPT ![w] = [e \in Events |-> 0]]
    /\ call' = [call EXCEPT ![w] = [e \in Events |-> "none"]]

(* Every row of the batch; whoever claimed the row since. *)
ToMark_WholeBatch(w) == {e \in batch[w] : Holds(w, e)}
ToMark_AnyToken(w) == {e \in batch[w] : call[w][e] = "ok"}

ToMark(w) == {e \in batch[w] : call[w][e] = "ok" /\ Holds(w, e)}

CallsOver(w) == batch[w] # {} /\ \A e \in batch[w] : call[w][e] \in {"ok", "over"}

(* After wg.Wait, one statement for the rows still under the own token. *)
MarkStripeEventsPublished(w) ==
    /\ CallsOver(w)
    /\ status' = [e \in Events |-> IF e \in ToMark(w) THEN "published" ELSE status[e]]
    /\ claimToken' = [e \in Events |-> IF e \in ToMark(w) THEN NoToken ELSE claimToken[e]]
    /\ Forget(w)
    /\ UNCHANGED <<attempts, fresh, backoff, stripe>>

(* It fails, and the error is logged. *)
MarkStripeEventsPublishedFails(w) ==
    /\ CallsOver(w)
    /\ Forget(w)
    /\ UNCHANGED <<rows, stripe>>

(* The process stops, or a claimed row fails to scan. *)
Abandon(w) ==
    /\ batch[w] # {}
    /\ adrift' = adrift \cup {e \in Events : call[w][e] = "sent"}
    /\ Forget(w)
    /\ UNCHANGED <<rows, metered>>

(* A request nobody waits for reaches Stripe, or is lost. *)
LateRequest(e) ==
    /\ e \in adrift
    /\ metered' \in {metered, metered \cup {e}}
    /\ adrift' = adrift \ {e}
    /\ UNCHANGED <<rows, batch, seen, call>>

(* claimed_until < NOW(), of a row whose lease a claim still reads. *)
LeaseLapses(e) ==
    /\ fresh[e] /\ status[e] = "publishing"
    /\ fresh' = [fresh EXCEPT ![e] = FALSE]
    /\ UNCHANGED <<status, attempts, claimToken, backoff, stripe, batch, seen, call>>

(* next_attempt_at <= NOW(), of a row whose backoff a claim still reads. *)
BackoffEnds(e) ==
    /\ backoff[e] /\ status[e] = "failed"
    /\ backoff' = [backoff EXCEPT ![e] = FALSE]
    /\ UNCHANGED <<status, attempts, claimToken, fresh, stripe, batch, seen, call>>

-----------------------------------------------------------------------------
CallStep(w, e) ==
    \/ Send(w, e)
    \/ Meter(w, e)
    \/ CallFails(w, e)
    \/ MarkStripeEventFailed(w, e)
    \/ MarkStripeEventFailedFails(w, e)

WorkerStep(w) ==
    \/ \E S \in SUBSET Events : Claim(w, S)
    \/ \E e \in Events : CallStep(w, e)
    \/ MarkStripeEventsPublished(w)
    \/ MarkStripeEventsPublishedFails(w)
    \/ Abandon(w)

RowStep(e) == InsertRow(e) \/ LateRequest(e) \/ LeaseLapses(e) \/ BackoffEnds(e)

Next == (\E w \in Workers : WorkerStep(w)) \/ (\E e \in Events : RowStep(e))

Spec == Init /\ [][Next]_vars

-----------------------------------------------------------------------------
(* A row counts as published only when Stripe has its meter event, however *)
(* many workers called for it and whichever of their answers was lost.     *)
PublishedIsMetered == \A e \in Events : status[e] = "published" => e \in metered

(* A row that used up its attempts is a dead letter and no other is, so    *)
(* that none is left where no claim can see it.                            *)
NoStrandedRow == \A e \in Events : status[e] = "dead_letter" <=> attempts[e] = MaxAttempts

(* A worker that lost its lease during a slow call neither takes a failure *)
(* back nor counts one for the worker that has the row now: only the       *)
(* holder of the token moves a row out of publishing.                      *)
OnlyHolderRecords ==
    [][\A e \in Events : status[e] = "publishing" /\ status'[e] # "publishing"
           => \E w \in Workers : Holds(w, e) /\ e \in batch[w]
                                 /\ (status'[e] = "published" => call[w][e] = "ok")]_vars

(* The relay implements the contract of an outbox towards Stripe, for      *)
(* which a key is metered or not.                                          *)
Fate(e) ==
    CASE status[e] = "absent" -> "none"
      [] status[e] = "published" -> "published"
      [] status[e] = "dead_letter" -> "abandoned"
      [] OTHER -> "owed"

Contract == INSTANCE OutboxContract WITH
    Many <- 1,
    fate <- [e \in Events |-> Fate(e)],
    copies <- [e \in Events |-> IF e \in metered THEN 1 ELSE 0]

ImplementsContract == Contract!Spec
=============================================================================
