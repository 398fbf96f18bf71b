------------------------------- MODULE Outbox -------------------------------
(***************************************************************************)
(* The transactional outbox of server/shared/outbox/outbox.go: rows are    *)
(* inserted with the business transaction, and every API replica runs a    *)
(* relay that claims a batch of due rows under a lease and a fresh token,  *)
(* publishes them to JetStream side by side, waits for all the answers,    *)
(* and writes the outcome back for the rows whose token is still its own.  *)
(* A relay forgets the tokens of a batch before it claims another, so that *)
(* its name serves as the token gen_random_uuid() gives its rows.          *)
(*                                                                         *)
(* Time is abstract: a lease (claimed_until) lapses and a backoff          *)
(* (next_attempt_at) ends by steps of the clock, at any moment.            *)
(***************************************************************************)
EXTENDS Naturals, FiniteSets

CONSTANTS Events,       \* ids of the events the server ever inserts
          Relays,       \* processes that run a relay
          NoToken,      \* SQL NULL in claim_token
          BatchSize,    \* LIMIT of the claim
          MaxAttempts,  \* failures before an event is a dead letter
          Many,         \* where the counts of messages stop
          IdIsText      \* whether outbox_events.id compares with text

ASSUME OutboxAssumption ==
    /\ NoToken \notin Relays
    /\ BatchSize \in Nat \ {0}
    /\ MaxAttempts \in Nat \ {0}
    /\ Many \in Nat \ {0}
    /\ IdIsText \in BOOLEAN

VARIABLES
    \* outbox_events
    status, attempts, claimToken, leased, backoff,
    \* JetStream: copies stored of each event, and publishes still on the wire
    copies, adrift,
    \* a relay's run of processOutbox: what it does, its batch, and of each
    \* event in it the attempts read and the answer to its publish
    pc, batch, seen, answer

rows   == <<status, attempts, claimToken, leased, backoff>>
stream == <<copies, adrift>>
relays == <<pc, batch, seen, answer>>
vars   == <<rows, stream, relays>>

Statuses == {"absent", "pending", "publishing", "failed", "published", "dead_letter"}
Answers  == {"none", "sent", "ok", "err"}
Settled  == {"published", "dead_letter"}

(* Counts of messages saturate: one less than Many may still be Many.      *)
OneMore(n) == IF n = Many THEN Many ELSE n + 1
OneLess(n) == IF n = Many THEN {Many - 1, Many} ELSE {n - 1}

TypeOK ==
    /\ status \in [Events -> Statuses]
    /\ attempts \in [Events -> 0..MaxAttempts]
    /\ claimToken \in [Events -> Relays \cup {NoToken}]
    /\ leased \in [Events -> BOOLEAN]
    /\ backoff \in [Events -> BOOLEAN]
    /\ copies \in [Events -> 0..Many]
    /\ adrift \in [Events -> 0..Many]
    /\ pc \in [Relays -> {"idle", "publishing", "failing"}]
    /\ batch \in [Relays -> SUBSET Events]
    /\ seen \in [Relays -> [Events -> 0..MaxAttempts]]
    /\ answer \in [Relays -> [Events -> Answers]]

Init ==
    /\ status = [e \in Events |-> "absent"]
    /\ attempts = [e \in Events |-> 0]
    /\ claimToken = [e \in Events |-> NoToken]
    /\ leased = [e \in Events |-> FALSE]
    /\ backoff = [e \in Events |-> FALSE]
    /\ copies = [e \in Events |-> 0]
    /\ adrift = [e \in Events |-> 0]
    /\ pc = [r \in Relays |-> "idle"]
    /\ batch = [r \in Relays |-> {}]
    /\ seen = [r \in Relays |-> [e \in Events |-> 0]]
    /\ answer = [r \in Relays |-> [e \in Events |-> "none"]]

-----------------------------------------------------------------------------
(* InsertEvent, seen when the caller's transaction commits. *)
InsertEvent(e) ==
    /\ status[e] = "absent"
    /\ status' = [status EXCEPT ![e] = "pending"]
    /\ UNCHANGED <<attempts, claimToken, leased, backoff, stream, relays>>

(* A claim blind to the rows that a crashed relay left publishing. *)
Due_NoRecovery(e) ==
    /\ status[e] \in {"pending", "failed"}
    /\ ~leased[e]
    /\ ~backoff[e]
    /\ attempts[e] < MaxAttempts

(* The WHERE clause of the claim. *)
Due(e) ==
    /\ status[e] \in {"pending", "failed", "publishing"}
    /\ ~leased[e]
    /\ ~backoff[e]
    /\ attempts[e] < MaxAttempts

(* The claim.  Rows another statement has locked are skipped, so that the  *)
(* batch is any non-empty set of due rows within the limit.                *)
Claim(r, S) ==
    /\ pc[r] = "idle"
    /\ S # {} /\ Cardinality(S) <= BatchSize
    /\ \A e \in S : Due(e)
    /\ status' = [e \in Events |-> IF e \in S THEN "publishing" ELSE status[e]]
    /\ claimToken' = [e \in Events |-> IF e \in S THEN r ELSE claimToken[e]]
    /\ leased' = [e \in Events |-> leased[e] \/ e \in S]
    /\ pc' = [pc EXCEPT ![r] = "publishing"]
    /\ batch' = [batch EXCEPT ![r] = S]
    /\ seen' = [seen EXCEPT ![r] = [e \in Events |-> IF e \in S THEN attempts[e] ELSE 0]]
    /\ UNCHANGED <<attempts, backoff, stream, answer>>

Answered(r, e, a) == answer' = [answer EXCEPT ![r][e] = a]

(* PublishAsync hands the message to the connection, or refuses it. *)
Publish(r, e) ==
    /\ pc[r] = "publishing" /\ e \in batch[r] /\ answer[r][e] = "none"
    /\ \E a \in {"sent", "err"} : Answered(r, e, a)
    /\ UNCHANGED <<rows, stream, pc, batch, seen>>

(* JetStream stores the message, and future.Ok() fires or the answer is    *)
(* not back when pubCtx ends.                                              *)
Store(r, e) ==
    /\ pc[r] = "publishing" /\ answer[r][e] = "sent"
    /\ copies' = [copies EXCEPT ![e] = OneMore(@)]
    /\ \E a \in {"ok", "err"} : Answered(r, e, a)
    /\ UNCHANGED <<rows, adrift, pc, batch, seen>>

(* future.Err(): the stream turned the message down. *)
Reject(r, e) ==
    /\ pc[r] = "publishing" /\ answer[r][e] = "sent"
    /\ Answered(r, e, "err")
    /\ UNCHANGED <<rows, stream, pc, batch, seen>>

(* An await without pubCtx. *)
Timeout_None(r, e) == FALSE /\ UNCHANGED vars

(* pubCtx.Done(): the relay stops waiting for a message that is still on   *)
(* the wire, from where the stream may yet store it.                       *)
Timeout(r, e) ==
    /\ pc[r] = "publishing" /\ answer[r][e] = "sent"
    /\ adrift' = [adrift EXCEPT ![e] = OneMore(@)]
    /\ Answered(r, e, "err")
    /\ UNCHANGED <<rows, copies, pc, batch, seen>>

Holds(r, e) == e \in batch[r] /\ claimToken[e] = r

AllAnswered(r) ==
    /\ pc[r] = "publishing"
    /\ \A e \in batch[r] : answer[r][e] \in {"ok", "err"}

(* The relay goes on with the events in S and forgets the others. *)
Keep(r, S) ==
    /\ pc' = [pc EXCEPT ![r] = IF S = {} THEN "idle" ELSE "failing"]
    /\ batch' = [batch EXCEPT ![r] = S]
    /\ seen' = [seen EXCEPT ![r] = [e \in Events |-> IF e \in S THEN seen[r][e] ELSE 0]]
    /\ answer' = [answer EXCEPT ![r] = [e \in Events |-> IF e \in S THEN answer[r][e] ELSE "none"]]

Unpublished(r) == {e \in batch[r] : answer[r][e] = "err"}

(* The bulk UPDATE over the whole batch, and without its token condition. *)
ToMark_WholeBatch(r) == {e \in batch[r] : Holds(r, e)}
ToMark_AnyToken(r) == {e \in batch[r] : answer[r][e] = "ok"}

(* The events the bulk UPDATE finds still under the token of the relay. *)
ToMark(r) == {e \in batch[r] : answer[r][e] = "ok" /\ Holds(r, e)}

(* One bulk statement marks what was acknowledged.  Its join t.id = u.id   *)
(* reads the ids as text, which a uuid column refuses.                     *)
MarkPublished(r) ==
    /\ AllAnswered(r)
    /\ IdIsText \/ batch[r] = Unpublished(r)
    /\ status' = [e \in Events |-> IF e \in ToMark(r) THEN "published" ELSE status[e]]
    /\ claimToken' = [e \in Events |-> IF e \in ToMark(r) THEN NoToken ELSE claimToken[e]]
    /\ Keep(r, Unpublished(r))
    /\ UNCHANGED <<attempts, leased, backoff, stream>>

(* The statement fails; the error is logged and the relay goes on. *)
MarkPublishedFails(r) ==
    /\ AllAnswered(r)
    /\ batch[r] # Unpublished(r)
    /\ Keep(r, Unpublished(r))
    /\ UNCHANGED <<rows, stream>>

(* The outcome of a failed publish, for the rows the UPDATE finds. *)
WriteFailure(r, e, found, newAttempts, dead) ==
    /\ pc[r] = "failing" /\ e \in batch[r]
    /\ IF found
       THEN /\ attempts' = [attempts EXCEPT ![e] = newAttempts]
            /\ status' = [status EXCEPT ![e] = IF dead THEN "dead_letter" ELSE "failed"]
            /\ backoff' = [backoff EXCEPT ![e] = TRUE]
            /\ claimToken' = [claimToken EXCEPT ![e] = NoToken]
            /\ UNCHANGED leased
       ELSE UNCHANGED rows
    /\ Keep(r, batch[r] \ {e})
    /\ UNCHANGED stream

(* Without the token condition; counting in SQL without it; a limit off by *)
(* one.                                                                    *)
MarkFailed_AnyToken(r, e) ==
    WriteFailure(r, e, TRUE, seen[r][e] + 1, seen[r][e] + 1 >= MaxAttempts)
MarkFailed_SqlCount(r, e) ==
    WriteFailure(r, e, TRUE, attempts[e] + 1, attempts[e] + 1 >= MaxAttempts)
MarkFailed_OffByOne(r, e) ==
    WriteFailure(r, e, Holds(r, e), seen[r][e] + 1, seen[r][e] + 1 > MaxAttempts)

(* One statement per failed event, under its token. *)
MarkFailed(r, e) ==
    WriteFailure(r, e, Holds(r, e), seen[r][e] + 1, seen[r][e] + 1 >= MaxAttempts)

MarkFailedFails(r, e) ==
    /\ pc[r] = "failing" /\ e \in batch[r]
    /\ Keep(r, batch[r] \ {e})
    /\ UNCHANGED <<rows, stream>>

(* The process stops, or a row of the claim fails to scan: the batch is    *)
(* forgotten, its rows stay as they are, its messages stay on the wire.    *)
Abandon(r) ==
    /\ pc[r] # "idle"
    /\ adrift' = [e \in Events |-> IF answer[r][e] = "sent" THEN OneMore(adrift[e])
                                                          ELSE adrift[e]]
    /\ Keep(r, {})
    /\ UNCHANGED <<rows, copies>>

(* A message on the wire reaches the stream with nobody waiting for it. *)
LateArrival(e) ==
    /\ adrift[e] > 0
    /\ copies' = [copies EXCEPT ![e] = OneMore(@)]
    /\ \E n \in OneLess(adrift[e]) : adrift' = [adrift EXCEPT ![e] = n]
    /\ UNCHANGED <<rows, relays>>

LateLoss(e) ==
    /\ adrift[e] > 0
    /\ \E n \in OneLess(adrift[e]) : adrift' = [adrift EXCEPT ![e] = n]
    /\ UNCHANGED <<rows, copies, relays>>

(* claimed_until < NOW(), of a row whose lease a claim still reads. *)
LeaseLapses(e) ==
    /\ leased[e] /\ status[e] \notin Settled
    /\ leased' = [leased EXCEPT ![e] = FALSE]
    /\ UNCHANGED <<status, attempts, claimToken, backoff, stream, relays>>

(* next_attempt_at <= NOW(), of a row whose backoff a claim still reads. *)
BackoffEnds(e) ==
    /\ backoff[e] /\ status[e] \notin Settled
    /\ backoff' = [backoff EXCEPT ![e] = FALSE]
    /\ UNCHANGED <<status, attempts, claimToken, leased, stream, relays>>

-----------------------------------------------------------------------------
PublishStep(r, e) ==
    \/ Publish(r, e)
    \/ Store(r, e)
    \/ Reject(r, e)
    \/ Timeout(r, e)

RelayStep(r) ==
    \/ \E S \in SUBSET Events : Claim(r, S)
    \/ \E e \in Events : PublishStep(r, e)
    \/ MarkPublished(r)
    \/ MarkPublishedFails(r)
    \/ \E e \in Events : MarkFailed(r, e) \/ MarkFailedFails(r, e)
    \/ Abandon(r)

EventStep(e) ==
    \/ InsertEvent(e)
    \/ LateArrival(e)
    \/ LateLoss(e)
    \/ LeaseLapses(e)
    \/ BackoffEnds(e)

Next == (\E r \in Relays : RelayStep(r)) \/ (\E e \in Events : EventStep(e))

Spec == Init /\ [][Next]_vars

(***************************************************************************)
(* Fairness.  The ticker keeps claiming, oldest first (ORDER BY            *)
(* created_at), so a row that stays due is in some batch in the end; every *)
(* publish is answered within its timeout; the clock runs; a statement     *)
(* tried again and again is accepted in the end; and from some time on the *)
(* relays no longer crash, and their lease of one minute outlives a batch  *)
(* whose publishes are cut off after five seconds.                         *)
(***************************************************************************)
ClaimOf(e) == \E r \in Relays : \E S \in SUBSET Events : e \in S /\ Claim(r, S)

Crashes(r) ==
    Abandon(r) /\ ~(MarkPublishedFails(r) \/ \E e \in Events : MarkFailedFails(r, e))

Stable ==
    <>[][/\ \A r \in Relays : ~Crashes(r)
         /\ \A e \in Events : LeaseLapses(e) => \A r \in Relays : ~Holds(r, e)]_vars

Fairness ==
    /\ \A r \in Relays :
          /\ WF_vars(MarkPublished(r) \/ MarkPublishedFails(r))
          /\ \A e \in Events :
                /\ WF_vars(Publish(r, e))
                /\ WF_vars(Timeout(r, e))
                /\ WF_vars(MarkFailed(r, e) \/ MarkFailedFails(r, e))
    /\ \A e \in Events :
          /\ SF_vars(ClaimOf(e))
          /\ SF_vars(\E r \in Relays : MarkPublished(r) /\ e \in ToMark(r))
          /\ SF_vars(\E r \in Relays : MarkFailed(r, e) /\ Holds(r, e))
          /\ WF_vars(LeaseLapses(e))
          /\ WF_vars(BackoffEnds(e))
    /\ Stable

FairSpec == Spec /\ Fairness

-----------------------------------------------------------------------------
(* An event counts as published only when the stream has stored it: no     *)
(* outcome of a batch whose publishes time out, fail or succeed side by    *)
(* side records one that was lost (processOutbox, bulk mark).              *)
PublishedIsStored == \A e \in Events : status[e] = "published" => copies[e] > 0

(* No event is stranded: one that used up its attempts is a dead letter,   *)
(* and one that did not still satisfies attempts < maxAttempts, so that a  *)
(* later claim can see it.                                                 *)
NoStrandedEvent ==
    \A e \in Events : status[e] = "dead_letter" <=> attempts[e] = MaxAttempts

(* A relay overtaken by another, whose outcome arrives late, neither       *)
(* undoes nor repeats what the row already counts.                         *)
AttemptsCountUp ==
    [][\A e \in Events : attempts'[e] \in {attempts[e], attempts[e] + 1}]_vars

(* Published and dead-lettered are final, whoever still works on the row.  *)
SettledForGood ==
    [][\A e \in Events : status[e] \in Settled => status'[e] = status[e]]_vars

(* The relay implements the contract of the outbox. *)
Fate(e) ==
    CASE status[e] = "absent" -> "none"
      [] status[e] = "published" -> "published"
      [] status[e] = "dead_letter" -> "abandoned"
      [] OTHER -> "owed"

Contract == INSTANCE OutboxContract WITH fate <- [e \in Events |-> Fate(e)]

ImplementsContract == Contract!Spec

(* Every inserted event reaches the stream or is dead-lettered in the end, *)
(* through crashes, lost answers, refused statements and lapsed leases     *)
(* (processOutbox).                                                        *)
EventuallyDelivered ==
    \A e \in Events : status[e] = "pending" ~> copies[e] > 0 \/ status[e] = "dead_letter"

(* "The relay publishes events to NATS JetStream and updates the database  *)
(* row status" (docs/scaling/main5-current-state.md, line 21): every       *)
(* inserted event is recorded as published or dead-lettered in the end.    *)
EventuallySettled ==
    \A e \in Events : status[e] = "pending" ~> status[e] \in Settled

(* A relay always finishes its batch: no answer is awaited for ever.       *)
BatchEnds == \A r \in Relays : pc[r] # "idle" ~> pc[r] = "idle"
=============================================================================
