--------------------------- MODULE UsageConsumer ---------------------------
(***************************************************************************)
(* The billing consumer of server/worker/internal/billing: every worker    *)
(* fetches a batch of usage messages of an account, handles them side by   *)
(* side and waits for all.  A handler looks the account up through a cache *)
(* of its process, then records the usage and, when the account has a      *)
(* Stripe customer, the row of stripe_outbox in one transaction, and       *)
(* acknowledges the message or has it delivered again.                     *)
(*                                                                         *)
(* The outbox may have stored several copies of an event in the stream.    *)
(***************************************************************************)
EXTENDS Naturals, FiniteSets

CONSTANTS Events,       \* event_id of the usage events
          Entries,      \* messages in the stream
          EventOf,      \* the event an entry carries
          Workers,      \* worker processes
          Concurrency,  \* per worker, messages of one Fetch
          MaxDeliver    \* deliveries of one message (nats-init: 5)

ASSUME UsageConsumerAssumption ==
    /\ EventOf \in [Entries -> Events]
    /\ Concurrency \in [Workers -> Nat \ {0}]
    /\ MaxDeliver \in Nat \ {0}

VARIABLES
    customer,           \* accounts.stripe_customer_id is set
    used, owed,         \* rows of usage_events and stripe_outbox per event
    entry, deliveries,  \* the messages and how often each was delivered
    cache,              \* accCache of a process
    batch, hand, knows  \* the messages a process handles, where each handler
                        \* is, whether it read a Stripe customer

dbvars   == <<customer, used, owed>>
natsvars == <<entry, deliveries>>
vars     == <<dbvars, natsvars, cache, batch, hand, knows>>

(* Rows of one key are told apart only as none, one, or more than one. *)
Twice == 2

TypeOK ==
    /\ customer \in BOOLEAN
    /\ used \in [Events -> 0..Twice]
    /\ owed \in [Events -> 0..Twice]
    /\ entry \in [Entries -> {"unused", "ready", "out", "acked", "dropped"}]
    /\ deliveries \in [Entries -> 0..MaxDeliver]
    /\ cache \in [Workers -> {"empty", "without", "with"}]
    /\ batch \in [Workers -> SUBSET Entries]
    /\ hand \in [Workers -> [Entries -> {"none", "fetched", "loaded", "acks", "naks", "done"}]]
    /\ knows \in [Workers -> [Entries -> BOOLEAN]]

Init ==
    /\ customer = FALSE
    /\ used = [e \in Events |-> 0]
    /\ owed = [e \in Events |-> 0]
    /\ entry = [m \in Entries |-> "unused"]
    /\ deliveries = [m \in Entries |-> 0]
    /\ cache = [w \in Workers |-> "empty"]
    /\ batch = [w \in Workers |-> {}]
    /\ hand = [w \in Workers |-> [m \in Entries |-> "none"]]
    /\ knows = [w \in Workers |-> [m \in Entries |-> FALSE]]

-----------------------------------------------------------------------------
(* The API stores the customer Stripe made for the account. *)
CreateCustomer ==
    /\ ~customer
    /\ customer' = TRUE
    /\ UNCHANGED <<used, owed, natsvars, cache, batch, hand, knows>>

(* The relay of the outbox stores a copy of an event. *)
Arrive(m) ==
    /\ entry[m] = "unused"
    /\ entry' = [entry EXCEPT ![m] = "ready"]
    /\ UNCHANGED <<dbvars, deliveries, cache, batch, hand, knows>>

(* A consumer without MaxDeliver. *)
Again_Always(m) == "ready"

(* A message not acknowledged is delivered again, or dropped when it has   *)
(* been delivered MaxDeliver times.                                        *)
Again(m) == IF deliveries[m] < MaxDeliver THEN "ready" ELSE "dropped"

(* A consumer without AckWait: what was not answered for stays out.        *)
AckWaitEnds_Never(m) == FALSE /\ UNCHANGED vars

(* The message was not acknowledged in time, or its Ack or Nak was lost.   *)
AckWaitEnds(m) ==
    /\ entry[m] = "out"
    /\ entry' = [entry EXCEPT ![m] = Again(m)]
    /\ UNCHANGED <<dbvars, deliveries, cache, batch, hand, knows>>

(* Fetch, when every handler of the last batch is done (wg.Wait). *)
Fetch(w, S) ==
    /\ batch[w] = {}
    /\ S # {} /\ Cardinality(S) <= Concurrency[w]
    /\ \A m \in S : entry[m] = "ready"
    /\ entry' = [m \in Entries |-> IF m \in S THEN "out" ELSE entry[m]]
    /\ deliveries' = [m \in Entries |-> deliveries[m] + IF m \in S THEN 1 ELSE 0]
    /\ batch' = [batch EXCEPT ![w] = S]
    /\ hand' = [hand EXCEPT ![w] = [m \in Entries |-> IF m \in S THEN "fetched" ELSE "none"]]
    /\ UNCHANGED <<dbvars, cache, knows>>

Handle(w, m, place) == hand' = [hand EXCEPT ![w][m] = place]

(* getAccountCached, from the cache or through one query that fills it. *)
LookUp(w, m) ==
    /\ hand[w][m] = "fetched"
    /\ cache' = [cache EXCEPT ![w] = IF @ # "empty" THEN @
                                     ELSE IF customer THEN "with" ELSE "without"]
    /\ knows' = [knows EXCEPT ![w][m] = cache'[w] = "with"]
    /\ Handle(w, m, "loaded")
    /\ UNCHANGED <<dbvars, natsvars, batch>>

(* The query fails: Nak. *)
LookUpFails(w, m) ==
    /\ hand[w][m] = "fetched" /\ cache[w] = "empty"
    /\ Handle(w, m, "naks")
    /\ UNCHANGED <<dbvars, natsvars, cache, batch, knows>>

(* An INSERT without ON CONFLICT DO NOTHING. *)
Insert_Always(table, e) == [table EXCEPT ![e] = IF @ = Twice THEN Twice ELSE @ + 1]

(* INSERT ... ON CONFLICT DO NOTHING, on the event's key. *)
Insert(table, e) == [table EXCEPT ![e] = IF @ = 0 THEN 1 ELSE @]

(* Two statements without a transaction; a return for usage already        *)
(* recorded; an acknowledgement whatever came of it.                       *)
Record_TwoStatements(w, m) ==
    /\ hand[w][m] = "loaded"
    /\ used' \in {used, Insert(used, EventOf[m])}
    /\ owed' = IF knows[w][m] THEN Insert(owed, EventOf[m]) ELSE owed
    /\ \E place \in {"acks", "naks"} : Handle(w, m, place)
    /\ UNCHANGED <<customer, natsvars, cache, batch, knows>>
Record_OnlyNew(w, m) ==
    /\ hand[w][m] = "loaded"
    /\ used' = Insert(used, EventOf[m])
    /\ owed' = IF knows[w][m] /\ used[EventOf[m]] = 0 THEN Insert(owed, EventOf[m]) ELSE owed
    /\ \E place \in {"acks", "naks"} : Handle(w, m, place)
    /\ UNCHANGED <<customer, natsvars, cache, batch, knows>>
RecordFails_Acks(w, m) ==
    /\ hand[w][m] = "loaded"
    /\ Handle(w, m, "acks")
    /\ UNCHANGED <<dbvars, natsvars, cache, batch, knows>>

(* RecordUsageAndStripeEvent commits; its answer may be lost, and is then  *)
(* taken for a failure.                                                    *)
Record(w, m) ==
    /\ hand[w][m] = "loaded"
    /\ used' = Insert(used, EventOf[m])
    /\ owed' = IF knows[w][m] THEN Insert(owed, EventOf[m]) ELSE owed
    /\ \E place \in {"acks", "naks"} : Handle(w, m, place)
    /\ UNCHANGED <<customer, natsvars, cache, batch, knows>>

(* It fails and rolls back. *)
RecordFails(w, m) ==
    /\ hand[w][m] = "loaded"
    /\ Handle(w, m, "naks")
    /\ UNCHANGED <<dbvars, natsvars, cache, batch, knows>>

(* Ack and Nak are sent without waiting for an answer, and may be lost. A  *)
(* stream that has given the message up takes neither.                     *)
Ack(w, m) ==
    /\ hand[w][m] = "acks"
    /\ entry' \in {entry, [entry EXCEPT ![m] = IF @ = "dropped" THEN @ ELSE "acked"]}
    /\ Handle(w, m, "done")
    /\ UNCHANGED <<dbvars, deliveries, cache, batch, knows>>

Nak(w, m) ==
    /\ hand[w][m] = "naks"
    /\ entry' \in {entry, [entry EXCEPT ![m] = IF @ = "out" THEN Again(m) ELSE @]}
    /\ Handle(w, m, "done")
    /\ UNCHANGED <<dbvars, deliveries, cache, batch, knows>>

Forget(w) ==
    /\ batch' = [batch EXCEPT ![w] = {}]
    /\ hand' = [hand EXCEPT ![w] = [m \in Entries |-> "none"]]
    /\ knows' = [knows EXCEPT ![w] = [m \in Entries |-> FALSE]]

EndBatch(w) ==
    /\ batch[w] # {}
    /\ \A m \in batch[w] : hand[w][m] = "done"
    /\ Forget(w)
    /\ UNCHANGED <<dbvars, natsvars, cache>>

(* The process dies, or is stopped, with whatever it was handling. *)
Crash(w) ==
    /\ batch[w] # {}
    /\ Forget(w)
    /\ cache' = [cache EXCEPT ![w] = "empty"]
    /\ UNCHANGED <<dbvars, natsvars>>

(* Five minutes after it was read, or for lack of room. *)
CacheExpires(w) ==
    /\ cache[w] # "empty"
    /\ cache' = [cache EXCEPT ![w] = "empty"]
    /\ UNCHANGED <<dbvars, natsvars, batch, hand, knows>>

-----------------------------------------------------------------------------
HandlerStep(w, m) ==
    \/ LookUp(w, m) \/ LookUpFails(w, m)
    \/ Record(w, m) \/ RecordFails(w, m)
    \/ Ack(w, m) \/ Nak(w, m)

MessageStep(m) == Arrive(m) \/ AckWaitEnds(m)

WorkerStep(w) ==
    \/ \E S \in SUBSET Entries : Fetch(w, S)
    \/ \E m \in Entries : HandlerStep(w, m)
    \/ EndBatch(w)
    \/ Crash(w)
    \/ CacheExpires(w)

Next ==
    \/ CreateCustomer
    \/ \E m \in Entries : MessageStep(m)
    \/ \E w \in Workers : WorkerStep(w)

Spec == Init /\ [][Next]_vars

(* Workers go on fetching and their handlers go on; AckWait runs out.      *)
(* Nothing says that the database ever accepts a transaction.              *)
Fairness ==
    /\ \A m \in Entries :
          /\ WF_vars(AckWaitEnds(m))
          /\ SF_vars(\E w \in Workers, S \in SUBSET Entries : m \in S /\ Fetch(w, S))
    /\ \A w \in Workers :
          /\ WF_vars(EndBatch(w))
          /\ \A m \in Entries : WF_vars(HandlerStep(w, m))

FairSpec == Spec /\ Fairness

-----------------------------------------------------------------------------
(* A message is acknowledged only when its usage is recorded, also when    *)
(* another worker handles the same message or a copy of it at once.        *)
AckedIsRecorded == \A m \in Entries : entry[m] = "acked" => used[EventOf[m]] > 0

(* Copies of the outbox, redeliveries and lost answers neither count usage *)
(* twice nor owe it to Stripe twice (migrations 022 and 025).              *)
RecordedOnce == \A e \in Events : used[e] <= 1 /\ owed[e] <= 1

(* Stripe is owed nothing but recorded usage ("source of truth").          *)
OwedIsRecorded == \A e \in Events : owed[e] > 0 => used[e] > 0

(* A handler that read a Stripe customer acknowledges only usage that is   *)
(* owed to Stripe, also when an earlier handler with a stale account had   *)
(* recorded that usage without a customer.                                 *)
KnownCustomerIsOwed ==
    \A w \in Workers, m \in Entries :
        hand[w][m] = "acks" /\ knows[w][m] => owed[EventOf[m]] > 0

(* Every message is acknowledged or dropped in the end.                    *)
MessagesEnd == \A m \in Entries : entry[m] = "ready" ~> entry[m] \in {"acked", "dropped"}
=============================================================================
