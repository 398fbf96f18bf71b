------------------------ MODULE UsageConsumerProofs ------------------------
(***************************************************************************)
(* The safety properties of UsageConsumer for any set of events, any       *)
(* number of copies of each in the stream, any workers and concurrency,    *)
(* and any limit of deliveries, by an inductive invariant.                 *)
(***************************************************************************)
EXTENDS UsageConsumer, TLAPS

(* A message that can be fetched has a delivery left. *)
ReadyHasDelivery ==
    \A m \in Entries : entry[m] \in {"unused", "ready"} => deliveries[m] < MaxDeliver

(* A handler is about to acknowledge recorded usage only, whatever other   *)
(* handlers, crashes and lost answers did since it recorded it.            *)
AcksAreRecorded ==
    \A w \in Workers, m \in Entries : hand[w][m] = "acks" => used[EventOf[m]] > 0

IInv ==
    /\ TypeOK
    /\ ReadyHasDelivery
    /\ AcksAreRecorded
    /\ AckedIsRecorded
    /\ RecordedOnce
    /\ OwedIsRecorded
    /\ KnownCustomerIsOwed

(* The rows of a table only accumulate, and no key gets a second row.      *)
Grows(old, new) == \A e \in Events : (old[e] > 0 => new[e] > 0) /\ (old[e] <= 1 => new[e] <= 1)

(* INSERT ... ON CONFLICT DO NOTHING leaves one row where there was none   *)
(* and touches no other.                                                   *)
LEMMA InsertOnce ==
    ASSUME NEW t \in [Events -> 0..Twice], NEW x \in Events
    PROVE  /\ Insert(t, x) \in [Events -> 0..Twice]
           /\ Insert(t, x)[x] > 0
           /\ \A e \in Events : e # x => Insert(t, x)[e] = t[e]
           /\ Grows(t, Insert(t, x))
BY DEF Insert, Twice, Grows

(* The answer of a message and the place of a handler, as they change. *)
LEMMA HandleType ==
    ASSUME TypeOK, NEW q \in Workers, NEW x \in Entries,
           NEW place \in {"none", "fetched", "loaded", "acks", "naks", "done"},
           Handle(q, x, place)
    PROVE  /\ hand' \in [Workers -> [Entries -> {"none", "fetched", "loaded", "acks", "naks", "done"}]]
           /\ \A w \in Workers, m \in Entries :
                 hand'[w][m] = IF w = q /\ m = x THEN place ELSE hand[w][m]
BY DEF Handle, TypeOK

LEMMA ForgetType ==
    ASSUME TypeOK, NEW q \in Workers, Forget(q)
    PROVE  /\ batch' \in [Workers -> SUBSET Entries]
           /\ hand' \in [Workers -> [Entries -> {"none", "fetched", "loaded", "acks", "naks", "done"}]]
           /\ knows' \in [Workers -> [Entries -> BOOLEAN]]
           /\ \A w \in Workers, m \in Entries :
                 hand'[w][m] # "none" => hand'[w][m] = hand[w][m] /\ knows'[w][m] = knows[w][m]
<1>1. /\ [m \in Entries |-> "none"] \in [Entries -> {"none", "fetched", "loaded", "acks", "naks", "done"}]
      /\ [m \in Entries |-> FALSE] \in [Entries -> BOOLEAN]
  OBVIOUS
<1>2. QED
  BY <1>1 DEF Forget, TypeOK

(* A message goes back to the stream only with a delivery left. *)
LEMMA AgainType ==
    ASSUME NEW m \in Entries
    PROVE  /\ Again(m) \in {"ready", "dropped"}
           /\ Again(m) = "ready" => deliveries[m] < MaxDeliver
BY DEF Again

-----------------------------------------------------------------------------
LEMMA InitIInv == Init => IInv
<1> SUFFICES ASSUME Init
             PROVE  IInv
  OBVIOUS
<1> USE DEF Init
<1>1. TypeOK
  <2>1. 0 \in 0..Twice /\ 0 \in 0..MaxDeliver
    BY UsageConsumerAssumption DEF Twice
  <2>2. /\ [m \in Entries |-> "none"] \in [Entries -> {"none", "fetched", "loaded", "acks", "naks", "done"}]
        /\ [m \in Entries |-> FALSE] \in [Entries -> BOOLEAN]
    OBVIOUS
  <2>3. QED
    BY <2>1, <2>2 DEF TypeOK
<1>2. ReadyHasDelivery
  BY UsageConsumerAssumption DEF ReadyHasDelivery
<1>3. AcksAreRecorded /\ AckedIsRecorded /\ KnownCustomerIsOwed
  BY DEF AcksAreRecorded, AckedIsRecorded, KnownCustomerIsOwed
<1>4. RecordedOnce /\ OwedIsRecorded
  BY DEF RecordedOnce, OwedIsRecorded
<1>5. QED
  BY <1>1, <1>2, <1>3, <1>4 DEF IInv

(* What holds of handlers and messages survives every step that leaves the *)
(* tables alone, acknowledges no message but of a handler that acks, and   *)
(* has no handler reach its acknowledgement.                               *)
LEMMA TablesKeptIInv ==
    ASSUME IInv, TypeOK', ReadyHasDelivery',
           UNCHANGED <<used, owed>>,
           \A m \in Entries : entry'[m] = "acked" =>
               entry[m] = "acked" \/ \E w \in Workers : hand[w][m] = "acks",
           \A w \in Workers, m \in Entries : hand'[w][m] = "acks" =>
               hand[w][m] = "acks" /\ knows'[w][m] = knows[w][m]
    PROVE  IInv'
<1> USE DEF IInv
<1>1. AcksAreRecorded' /\ AckedIsRecorded'
  BY DEF AcksAreRecorded, AckedIsRecorded
<1>2. RecordedOnce' /\ OwedIsRecorded'
  BY DEF RecordedOnce, OwedIsRecorded
<1>3. KnownCustomerIsOwed'
  BY DEF KnownCustomerIsOwed
<1>4. QED
  BY <1>1, <1>2, <1>3

LEMMA ArriveIInv ==
    ASSUME IInv, NEW x \in Entries, Arrive(x)
    PROVE  IInv'
<1> USE DEF IInv, Arrive, dbvars
<1>1. TypeOK' /\ ReadyHasDelivery'
  BY DEF TypeOK, ReadyHasDelivery
<1>2. \A m \in Entries : entry'[m] = "acked" => entry[m] = "acked"
  BY DEF TypeOK
<1>3. QED
  BY <1>1, <1>2, TablesKeptIInv

LEMMA AckWaitEndsIInv ==
    ASSUME IInv, NEW x \in Entries, AckWaitEnds(x)
    PROVE  IInv'
<1> USE DEF IInv, AckWaitEnds, dbvars
<1>1. TypeOK' /\ ReadyHasDelivery'
  BY AgainType DEF TypeOK, ReadyHasDelivery
<1>2. \A m \in Entries : entry'[m] = "acked" => entry[m] = "acked"
  BY AgainType DEF TypeOK
<1>3. QED
  BY <1>1, <1>2, TablesKeptIInv

LEMMA FetchIInv ==
    ASSUME IInv, NEW q \in Workers, NEW S \in SUBSET Entries, Fetch(q, S)
    PROVE  IInv'
<1> USE DEF IInv, Fetch, dbvars
<1>1. TypeOK'
  <2>1. deliveries' \in [Entries -> 0..MaxDeliver]
    BY UsageConsumerAssumption DEF TypeOK, ReadyHasDelivery
  <2>2. hand' \in [Workers -> [Entries -> {"none", "fetched", "loaded", "acks", "naks", "done"}]]
    <3>1. [m \in Entries |-> IF m \in S THEN "fetched" ELSE "none"]
              \in [Entries -> {"none", "fetched", "loaded", "acks", "naks", "done"}]
      OBVIOUS
    <3>2. QED
      BY <3>1 DEF TypeOK
  <2>3. QED
    BY <2>1, <2>2 DEF TypeOK
<1>2. ReadyHasDelivery'
  BY DEF TypeOK, ReadyHasDelivery
<1>3. \A m \in Entries : entry'[m] = "acked" => entry[m] = "acked"
  OBVIOUS
<1>4. \A w \in Workers, m \in Entries : hand'[w][m] = "acks" => hand[w][m] = "acks"
  BY DEF TypeOK
<1>5. QED
  BY <1>1, <1>2, <1>3, <1>4, TablesKeptIInv

(* The steps of a handler that leave the tables and the stream alone. *)
LEMMA LookUpIInv ==
    ASSUME IInv, NEW q \in Workers, NEW x \in Entries,
           LookUp(q, x) \/ LookUpFails(q, x) \/ RecordFails(q, x)
    PROVE  IInv'
<1> USE DEF IInv, dbvars, natsvars
<1>a. UNCHANGED <<customer, used, owed, entry, deliveries, batch>>
  BY DEF LookUp, LookUpFails, RecordFails
<1>b. PICK place \in {"loaded", "naks"} : Handle(q, x, place)
  BY DEF LookUp, LookUpFails, RecordFails
<1>c. \A w \in Workers, m \in Entries : w # q \/ m # x => knows'[w][m] = knows[w][m]
  BY DEF LookUp, LookUpFails, RecordFails, TypeOK
<1>1. TypeOK'
  <2>1. cache' \in [Workers -> {"empty", "without", "with"}]
    BY DEF LookUp, LookUpFails, RecordFails, TypeOK
  <2>2. knows' \in [Workers -> [Entries -> BOOLEAN]]
    <3>1. CASE LookUp(q, x)
      <4>1. PICK b \in BOOLEAN : knows' = [knows EXCEPT ![q][x] = b]
        BY <3>1 DEF LookUp
      <4>2. QED
        BY <4>1 DEF TypeOK
    <3>2. CASE LookUpFails(q, x) \/ RecordFails(q, x)
      BY <3>2 DEF LookUpFails, RecordFails, TypeOK
    <3>3. QED
      BY <3>1, <3>2
  <2>3. QED
    BY <1>a, <1>b, <2>1, <2>2, HandleType DEF TypeOK
<1>2. ReadyHasDelivery'
  BY <1>a DEF ReadyHasDelivery
<1>3. \A w \in Workers, m \in Entries : hand'[w][m] = "acks" =>
          hand[w][m] = "acks" /\ knows'[w][m] = knows[w][m]
  BY <1>b, <1>c, HandleType
<1>4. QED
  BY <1>a, <1>1, <1>2, <1>3, TablesKeptIInv

LEMMA RecordIInv ==
    ASSUME IInv, NEW q \in Workers, NEW x \in Entries, Record(q, x)
    PROVE  IInv'
<1> USE DEF IInv, Record, natsvars
<1> DEFINE u == EventOf[x]
<1>a. \A m \in Entries : EventOf[m] \in Events
  BY UsageConsumerAssumption
<1>b. PICK place \in {"acks", "naks"} : Handle(q, x, place)
  OBVIOUS
<1>c. /\ used' \in [Events -> 0..Twice] /\ used'[u] > 0 /\ Grows(used, used')
      /\ \A e \in Events : e # u => used'[e] = used[e]
  BY <1>a, InsertOnce DEF TypeOK
<1>d. /\ owed' \in [Events -> 0..Twice] /\ Grows(owed, owed')
      /\ knows[q][x] => owed'[u] > 0
      /\ \A e \in Events : e # u => owed'[e] = owed[e]
  <2>1. CASE knows[q][x]
    BY <1>a, <2>1, InsertOnce DEF TypeOK
  <2>2. CASE ~knows[q][x]
    BY <2>2 DEF TypeOK, Grows
  <2>3. QED
    BY <2>1, <2>2
<1> HIDE DEF u
<1>1. TypeOK'
  BY <1>b, <1>c, <1>d, HandleType DEF TypeOK
<1>2. ReadyHasDelivery'
  BY DEF ReadyHasDelivery
<1>3. AcksAreRecorded'
  <2> SUFFICES ASSUME NEW w \in Workers, NEW m \in Entries, hand'[w][m] = "acks"
               PROVE  used'[EventOf[m]] > 0
    BY DEF AcksAreRecorded
  <2>1. CASE w = q /\ m = x
    BY <2>1, <1>c DEF u
  <2>2. CASE ~(w = q /\ m = x)
    BY <2>2, <1>a, <1>b, <1>c, HandleType DEF AcksAreRecorded, Grows
  <2>3. QED
    BY <2>1, <2>2
<1>4. AckedIsRecorded'
  BY <1>a, <1>c DEF AckedIsRecorded, Grows
<1>5. RecordedOnce'
  BY <1>c, <1>d DEF RecordedOnce, Grows
<1>6. OwedIsRecorded'
  BY <1>c, <1>d DEF OwedIsRecorded
<1>7. KnownCustomerIsOwed'
  <2> SUFFICES ASSUME NEW w \in Workers, NEW m \in Entries,
                      hand'[w][m] = "acks", knows'[w][m]
               PROVE  owed'[EventOf[m]] > 0
    BY DEF KnownCustomerIsOwed
  <2>1. CASE w = q /\ m = x
    BY <2>1, <1>d DEF u
  <2>2. CASE ~(w = q /\ m = x)
    BY <2>2, <1>a, <1>b, <1>d, HandleType DEF KnownCustomerIsOwed, Grows
  <2>3. QED
    BY <2>1, <2>2
<1>8. QED
  BY <1>1, <1>2, <1>3, <1>4, <1>5, <1>6, <1>7

LEMMA AckIInv ==
    ASSUME IInv, NEW q \in Workers, NEW x \in Entries, Ack(q, x) \/ Nak(q, x)
    PROVE  IInv'
<1> USE DEF IInv, dbvars
<1>a. Handle(q, x, "done") /\ UNCHANGED <<customer, used, owed, deliveries, cache, batch, knows>>
  BY DEF Ack, Nak
<1>b. /\ entry' \in [Entries -> {"unused", "ready", "out", "acked", "dropped"}]
      /\ \A m \in Entries : m # x => entry'[m] = entry[m]
      /\ \/ entry'[x] \in {entry[x], Again(x)}
         \/ hand[q][x] = "acks" /\ entry'[x] = "acked"
  <2>1. CASE Ack(q, x)
    BY <2>1 DEF Ack, TypeOK
  <2>2. CASE Nak(q, x)
    BY <2>2, AgainType DEF Nak, TypeOK
  <2>3. QED
    BY <2>1, <2>2
<1>1. TypeOK'
  BY <1>a, <1>b, HandleType DEF TypeOK
<1>2. ReadyHasDelivery'
  BY <1>a, <1>b, AgainType DEF ReadyHasDelivery
<1>3. \A m \in Entries : entry'[m] = "acked" =>
          entry[m] = "acked" \/ \E w \in Workers : hand[w][m] = "acks"
  BY <1>b, AgainType
<1>4. \A w \in Workers, m \in Entries : hand'[w][m] = "acks" =>
          hand[w][m] = "acks" /\ knows'[w][m] = knows[w][m]
  BY <1>a, HandleType
<1>5. QED
  BY <1>a, <1>1, <1>2, <1>3, <1>4, TablesKeptIInv

LEMMA ForgetIInv ==
    ASSUME IInv, NEW q \in Workers, EndBatch(q) \/ Crash(q)
    PROVE  IInv'
<1> USE DEF IInv, dbvars, natsvars
<1>a. Forget(q) /\ UNCHANGED <<customer, used, owed, entry, deliveries>>
  BY DEF EndBatch, Crash
<1>b. cache' \in [Workers -> {"empty", "without", "with"}]
  BY DEF EndBatch, Crash, TypeOK
<1>1. TypeOK'
  BY <1>a, <1>b, ForgetType DEF TypeOK
<1>2. ReadyHasDelivery'
  BY <1>a DEF ReadyHasDelivery
<1>3. \A w \in Workers, m \in Entries : hand'[w][m] = "acks" =>
          hand[w][m] = "acks" /\ knows'[w][m] = knows[w][m]
  BY <1>a, ForgetType
<1>4. QED
  BY <1>a, <1>1, <1>2, <1>3, TablesKeptIInv

(* The account and its cached copies are nothing the tables depend on. *)
LEMMA AccountIInv ==
    ASSUME IInv,
           CreateCustomer \/ (\E w \in Workers : CacheExpires(w)) \/ UNCHANGED vars
    PROVE  IInv'
<1> USE DEF IInv, CreateCustomer, CacheExpires, vars, dbvars, natsvars
<1>a. UNCHANGED <<used, owed, entry, deliveries, batch, hand, knows>>
  OBVIOUS
<1>1. TypeOK'
  BY DEF TypeOK
<1>2. ReadyHasDelivery'
  BY <1>a DEF ReadyHasDelivery
<1>3. QED
  BY <1>a, <1>1, <1>2, TablesKeptIInv

LEMMA NextIInv == IInv /\ [Next]_vars => IInv'
<1> SUFFICES ASSUME IInv, [Next]_vars
             PROVE  IInv'
  OBVIOUS
<1>1. ASSUME NEW m \in Entries, MessageStep(m)
      PROVE  IInv'
  BY <1>1, ArriveIInv, AckWaitEndsIInv DEF MessageStep
<1>2. ASSUME NEW w \in Workers, NEW S \in SUBSET Entries, Fetch(w, S)
      PROVE  IInv'
  BY <1>2, FetchIInv
<1>3. ASSUME NEW w \in Workers, NEW m \in Entries, HandlerStep(w, m)
      PROVE  IInv'
  BY <1>3, LookUpIInv, RecordIInv, AckIInv DEF HandlerStep
<1>4. ASSUME NEW w \in Workers, EndBatch(w) \/ Crash(w)
      PROVE  IInv'
  BY <1>4, ForgetIInv
<1>5. CASE CreateCustomer \/ (\E w \in Workers : CacheExpires(w)) \/ UNCHANGED vars
  BY <1>5, AccountIInv
<1>6. QED
  BY <1>1, <1>2, <1>3, <1>4, <1>5 DEF Next, WorkerStep

(* The invariant holds in every state the consumer reaches, however        *)
(* workers, copies, redeliveries, lost answers and crashes interleave.     *)
THEOREM Inductive == Spec => []IInv
BY InitIInv, NextIInv, PTL DEF Spec

(* The tables, the messages and the handlers keep to their types: in       *)
(* particular no message is delivered more than MaxDeliver times.          *)
THEOREM TypesKept == Spec => []TypeOK
BY Inductive, PTL DEF IInv

(* Usage is never lost by an acknowledgement: processMessage acks only     *)
(* after the transaction of that event, its own or another handler's.      *)
THEOREM AckedRecorded == Spec => []AckedIsRecorded
BY Inductive, PTL DEF IInv

(* RecordUsageAndStripeEvent counts each event once and owes it to Stripe  *)
(* once, whatever is delivered again.                                      *)
THEOREM CountedOnce == Spec => []RecordedOnce
BY Inductive, PTL DEF IInv

(* Nothing is owed to Stripe that usage_events does not have.              *)
THEOREM OwedRecorded == Spec => []OwedIsRecorded
BY Inductive, PTL DEF IInv

(* A handler that knows the customer leaves the event owed to Stripe when  *)
(* it acknowledges, also when the usage was there before.                  *)
THEOREM CustomerOwed == Spec => []KnownCustomerIsOwed
BY Inductive, PTL DEF IInv

=============================================================================
