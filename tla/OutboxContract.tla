--------------------------- MODULE OutboxContract ---------------------------
(***************************************************************************)
(* What the transactional outbox promises the rest of the server: an event *)
(* accepted by a committed transaction is owed to the stream, it reaches   *)
(* the stream at least once before it counts as published, it may reach it *)
(* again at any time, and giving it up is a fate of its own.               *)
(***************************************************************************)
EXTENDS Naturals

CONSTANTS Events,
          Many      \* where the count of copies stops

VARIABLES fate,     \* what the outbox says of each event
          copies    \* copies of each event in the stream, saturating at Many

cvars == <<fate, copies>>

OneMore(n) == IF n = Many THEN Many ELSE n + 1

Fates == {"none", "owed", "published", "abandoned"}

Init ==
    /\ fate = [e \in Events |-> "none"]
    /\ copies = [e \in Events |-> 0]

Accept(e) ==
    /\ fate[e] = "none"
    /\ fate' = [fate EXCEPT ![e] = "owed"]
    /\ UNCHANGED copies

(* Late and repeated copies are allowed whatever was decided meanwhile. *)
Deliver(e) ==
    /\ fate[e] # "none"
    /\ copies' = [copies EXCEPT ![e] = OneMore(@)]
    /\ UNCHANGED fate

(* A set of events, because a batch is recorded in one statement. *)
Settle(S) ==
    /\ \A e \in S : fate[e] = "owed" /\ copies[e] > 0
    /\ fate' = [e \in Events |-> IF e \in S THEN "published" ELSE fate[e]]
    /\ UNCHANGED copies

GiveUp(e) ==
    /\ fate[e] = "owed"
    /\ fate' = [fate EXCEPT ![e] = "abandoned"]
    /\ UNCHANGED copies

Next ==
    \/ \E e \in Events : Accept(e) \/ Deliver(e) \/ GiveUp(e)
    \/ \E S \in SUBSET Events : Settle(S)

Spec == Init /\ [][Next]_cvars
=============================================================================
