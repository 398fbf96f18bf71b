--------------------------- MODULE DashboardProofs ---------------------------
(***************************************************************************)
(* The invariants of the dashboard, for any rows, any tours and any bounds *)
(* on clicks, requests and retries.                                        *)
(***************************************************************************)
EXTENDS Dashboard, ToastProofs, FiniteSetTheorems, FunctionTheorems

-----------------------------------------------------------------------------
(* The ids of calls: there is always a free one, and enough for several    *)
(* queries that are sent at once.                                          *)

LEMMA UsedCount ==
    ASSUME NEW cs, IsFiniteSet(cs)
    PROVE  IsFiniteSet(Used(cs)) /\ Cardinality(Used(cs)) <= 2 * Cardinality(cs)
<1> DEFINE A == {c.id : c \in cs}
           B == {c.on : c \in cs}
           f == [c \in cs |-> c.id]
           g == [c \in cs |-> c.on]
<1>1. f \in Surjection(cs, A) /\ g \in Surjection(cs, B)
  BY DEF Surjection
<1> HIDE DEF f, g, A, B
<1>2. IsFiniteSet(A) /\ Cardinality(A) <= Cardinality(cs)
  BY <1>1, FS_Surjection
<1>3. IsFiniteSet(B) /\ Cardinality(B) <= Cardinality(cs)
  BY <1>1, FS_Surjection
<1>4. IsFiniteSet(A \cap B)
  BY <1>2, FS_Intersection
<1>5. /\ IsFiniteSet(A \cup B)
      /\ Cardinality(A \cup B) = Cardinality(A) + Cardinality(B) - Cardinality(A \cap B)
  BY <1>2, <1>3, FS_Union
<1>6. /\ Cardinality(cs) \in Nat /\ Cardinality(A) \in Nat /\ Cardinality(B) \in Nat
      /\ Cardinality(A \cap B) \in Nat
  BY <1>2, <1>3, <1>4, FS_CardinalityType
<1>7. Cardinality(A \cup B) <= 2 * Cardinality(cs)
  BY <1>2, <1>3, <1>5, <1>6
<1>8. QED
  BY <1>5, <1>7 DEF Used, A, B

LEMMA FreeCount ==
    ASSUME NEW cs, IsFiniteSet(cs), NEW n \in Nat
    PROVE  /\ FreeIds(cs, n) \subseteq Nat \ {0} /\ FreeIds(cs, n) \cap Used(cs) = {}
           /\ IsFiniteSet(FreeIds(cs, n)) /\ n <= Cardinality(FreeIds(cs, n))
<1> DEFINE m == 2 * Cardinality(cs) + n
           U == Used(cs)
<1>1. Cardinality(cs) \in Nat /\ m \in Nat /\ m = 2 * Cardinality(cs) + n
  BY FS_CardinalityType
<1>2. IsFiniteSet(U) /\ Cardinality(U) <= 2 * Cardinality(cs) /\ Cardinality(U) \in Nat
  BY UsedCount, FS_CardinalityType
<1> HIDE DEF m, U
<1>3. IsFiniteSet(1..m) /\ Cardinality(1..m) = m
  BY <1>1, FS_Interval
<1>4. IsFiniteSet((1..m) \cap U) /\ Cardinality((1..m) \cap U) <= Cardinality(U)
  BY <1>2, FS_Intersection
<1>5. /\ IsFiniteSet((1..m) \ U)
      /\ Cardinality((1..m) \ U) = m - Cardinality((1..m) \cap U)
  BY <1>3, FS_Difference
<1>6. n <= Cardinality((1..m) \ U)
  <2>1. Cardinality((1..m) \cap U) \in Nat
    BY <1>4, FS_CardinalityType
  <2>2. QED
    BY <1>1, <1>2, <1>4, <1>5, <2>1
<1>7. FreeIds(cs, n) = (1..m) \ U
  BY DEF FreeIds, m, U
<1>8. QED
  BY <1>1, <1>5, <1>6, <1>7 DEF U

LEMMA FreeId ==
    ASSUME NEW cs, IsFiniteSet(cs), NEW i, i = CHOOSE j \in FreeIds(cs, 1) : TRUE
    PROVE  i \in Nat \ {0} /\ \A c \in cs : c.id # i /\ c.on # i
<1>1. FreeIds(cs, 1) # {}
  <2>1. Cardinality(FreeIds(cs, 1)) # 0
    BY FreeCount, FS_CardinalityType
  <2>2. QED
    BY <2>1, FS_EmptySet
<1>2. i \in FreeIds(cs, 1)
  BY <1>1
<1>3. QED
  BY <1>2, FreeCount DEF Used

LEMMA FreeInjection ==
    ASSUME NEW cs, IsFiniteSet(cs), NEW S, IsFiniteSet(S)
    PROVE  \E f \in [S -> FreeIds(cs, Cardinality(S))] : \A j, k \in S : f[j] = f[k] => j = k
<1> DEFINE n == Cardinality(S)
           F == FreeIds(cs, n)
           m == Cardinality(F)
<1>1. n \in Nat /\ ExistsBijection(1..n, S)
  BY FS_CardinalityType
<1>2. IsFiniteSet(F) /\ n <= m
  BY <1>1, FreeCount
<1>3. m \in Nat /\ ExistsBijection(1..m, F)
  BY <1>2, FS_CardinalityType
<1> HIDE DEF n, m, F
<1>4. PICK g : g \in [S -> 1..n] /\ \A j, k \in S : g[j] = g[k] => j = k
  <2>1. ExistsBijection(S, 1..n)
    BY <1>1, Fun_ExistsBijSymmetric
  <2>2. PICK g : g \in Bijection(S, 1..n)
    BY <2>1 DEF ExistsBijection
  <2>3. /\ g \in [S -> 1..n] /\ \A j, k \in S : g[j] = g[k] => j = k
    BY ONLY <2>2, Fun_BijectionProperties
  <2>4. QED
    BY <2>3
<1>5. PICK h : h \in [1..m -> F] /\ \A j, k \in 1..m : h[j] = h[k] => j = k
  <2>1. PICK h : h \in Bijection(1..m, F)
    BY <1>3 DEF ExistsBijection
  <2>2. QED
    BY <2>1, Fun_BijectionProperties
<1>6. \A j \in S : g[j] \in 1..m
  BY <1>1, <1>2, <1>3, <1>4
<1> DEFINE f == [j \in S |-> h[g[j]]]
<1>7. f \in [S -> F] /\ \A j, k \in S : f[j] = f[k] => j = k
  BY <1>4, <1>5, <1>6
<1> HIDE DEF f
<1>8. QED
  BY <1>7 DEF F, n

-----------------------------------------------------------------------------
(* Calls: what they are, and which sets of them may be out while page p is *)
(* mounted.                                                                *)

OwnOps == {"copyTimer", "postBucket", "bucketTail", "deleteVideo", "deleteTail",
           "getBilling", "getInvoices", "postFunds", "postPortal", "getBranding",
           "putBranding", "postAsset", "assetTimer", "nameTimer"}

(* The page that makes calls of this kind. *)
Sender(op) ==
    CASE op = "copyTimer" -> "keys"
      [] op \in {"postBucket", "bucketTail"} -> "buckets"
      [] op \in {"deleteVideo", "deleteTail"} -> "video"
      [] op \in {"getBilling", "getInvoices", "postFunds", "postPortal"} -> "billing"
      [] op = "nameTimer" -> "settings"
      [] OTHER -> "branding"

ReplyType == [status : Nat, rows : SUBSET Rows, busy : SUBSET Rows, n : Nat]
CallType == [id : Nat \ {0}, op : OwnOps \cup {"query"}, key : Keys \cup {<<>>},
             by : Pages, arg : Nat, on : Nat, tries : Nat, mounted : BOOLEAN,
             reply : ReplyType]

(* Queries have a key, other calls are their page's own, and a call of the *)
(* page that is mounted is by that page.                                   *)
Proper(c, p) ==
    /\ c.mounted => c.by = p
    /\ c.op = "query" => c.key \in Keys
    /\ c.op # "query" => c.key = <<>> /\ c.by = Sender(c.op)

Legal(cs, p) ==
    /\ IsFiniteSet(cs) /\ cs \subseteq CallType
    /\ \A c \in cs : Proper(c, p)
    /\ \A c, d \in cs : c.id = d.id => c = d
    /\ \A c, d \in cs : c.op = "query" /\ d.op = "query" /\ c.key = d.key => c = d

LEMMA KeysAreNotEmpty == <<>> \notin Keys
<1>1. /\ KeysKey # <<>> /\ BucketsKey # <<>> /\ VideosKey # <<>> /\ PollingKey # <<>>
      /\ JobsKey # <<>>
  BY DEF KeysKey, BucketsKey, VideosKey, PollingKey, JobsKey
<1>2. \A i : ObjectsKey(i) # <<>>
  BY DEF ObjectsKey
<1>3. QED
  BY <1>1, <1>2 DEF Keys

LEMMA NoReplyType == NoReply \in ReplyType /\ NoReply.status = 0 /\ NoReply.n = 0
                     /\ NoReply.rows = {} /\ NoReply.busy = {}
BY DEF NoReply, ReplyType

LEMMA CallAsType ==
    ASSUME NEW id \in Nat \ {0}, NEW op \in OwnOps \cup {"query"},
           NEW key \in Keys \cup {<<>>}, NEW by \in Pages, NEW arg \in Nat, NEW on \in Nat,
           NEW d, d = CallAs(id, op, key, by, arg, on)
    PROVE  /\ d \in CallType
           /\ d.id = id /\ d.op = op /\ d.key = key /\ d.by = by /\ d.on = on
           /\ d.mounted /\ d.reply = NoReply
<1> DEFINE t == IF op = "query" THEN Retries ELSE 0
<1>1. t \in Nat
  BY BrowserAssumption
<1>2. d = [id |-> id, op |-> op, key |-> key, by |-> by, arg |-> arg, on |-> on,
           tries |-> t, mounted |-> TRUE, reply |-> NoReply]
  BY DEF CallAs
<1> HIDE DEF t
<1>3. d \in CallType
  BY <1>1, <1>2, NoReplyType DEF CallType
<1>4. QED
  BY <1>2, <1>3

(* What may change of a call: its mounted page is gone, an answer comes,   *)
(* it is tried again, or it goes on as something else.                     *)
LEMMA CallUnmounted ==
    ASSUME NEW c \in CallType, NEW d, d = [c EXCEPT !.mounted = FALSE]
    PROVE  /\ d \in CallType /\ d.id = c.id /\ d.op = c.op /\ d.key = c.key
           /\ d.by = c.by /\ ~d.mounted /\ d.reply = c.reply /\ d.on = c.on
BY DEF CallType

LEMMA CallAnswered ==
    ASSUME NEW c \in CallType, NEW r \in ReplyType, NEW d, d = [c EXCEPT !.reply = r]
    PROVE  /\ d \in CallType /\ d.id = c.id /\ d.op = c.op /\ d.key = c.key
           /\ d.by = c.by /\ (d.mounted <=> c.mounted) /\ d.reply = r /\ d.on = c.on
BY DEF CallType

LEMMA CallRetried ==
    ASSUME NEW c \in CallType, c.tries > 0, NEW d,
           d = [c EXCEPT !.tries = @ - 1, !.reply = NoReply]
    PROVE  /\ d \in CallType /\ d.id = c.id /\ d.op = c.op /\ d.key = c.key
           /\ d.by = c.by /\ (d.mounted <=> c.mounted) /\ d.reply = NoReply /\ d.on = c.on
<1>1. c.tries - 1 \in Nat
  BY DEF CallType
<1>2. d \in CallType
  BY <1>1, NoReplyType DEF CallType
<1>3. QED
  BY <1>2 DEF CallType

LEMMA LegalSubset ==
    ASSUME NEW cs, NEW p, Legal(cs, p), NEW ds, ds \subseteq cs
    PROVE  Legal(ds, p)
BY FS_Subset DEF Legal

LEMMA LegalEmpty == ASSUME NEW p PROVE Legal({}, p)
BY FS_EmptySet DEF Legal

LEMMA NewCall ==
    ASSUME NEW cs, NEW p, Legal(cs, p), NEW op \in OwnOps, NEW arg \in Nat, NEW on \in Nat,
           NEW d, d = Call(cs, op, <<>>, Sender(op), arg, on)
    PROVE  /\ d \in CallType /\ d.op = op /\ d.by = Sender(op) /\ d.key = <<>>
           /\ d.mounted /\ d.reply = NoReply /\ \A c \in cs : c.id # d.id
<1>1. Sender(op) \in Pages
  BY DEF Sender, OwnOps, Pages
<1> DEFINE i == CHOOSE j \in FreeIds(cs, 1) : TRUE
<1>2. i \in Nat \ {0} /\ \A c \in cs : c.id # i
  BY FreeId DEF Legal
<1>3. d = CallAs(i, op, <<>>, Sender(op), arg, on)
  BY DEF Call
<1> HIDE DEF i
<1>4. QED
  BY <1>1, <1>2, <1>3, CallAsType

(* One more call of the mounted page, or one that follows another call,    *)
(* mounted or not.                                                         *)
LEMMA LegalWith ==
    ASSUME NEW cs, NEW p, Legal(cs, p), NEW op \in OwnOps,
           NEW d \in CallType, d.op = op, d.by = Sender(op), d.key = <<>>,
           d.mounted => p = Sender(op), \A c \in cs : c.id # d.id
    PROVE  Legal(cs \cup {d}, p)
<1>1. op # "query"
  BY DEF OwnOps
<1>2. Proper(d, p)
  BY <1>1 DEF Proper
<1>3. IsFiniteSet(cs \cup {d})
  BY FS_AddElement DEF Legal
<1>4. QED
  BY <1>1, <1>2, <1>3 DEF Legal

LEMMA LegalAdd ==
    ASSUME NEW cs, NEW op \in OwnOps, NEW p, p = Sender(op), Legal(cs, p),
           NEW arg \in Nat, NEW on \in Nat,
           NEW d, d = Call(cs, op, <<>>, p, arg, on)
    PROVE  /\ Legal(cs \cup {d}, p) /\ d.op = op /\ d.reply = NoReply
BY NewCall, LegalWith

(* A call that goes on what another one did, for the page of the other. *)
Following(new, c) == [new EXCEPT !.mounted = c.mounted]

Follows(d, c, cs, p, op, arg, on) ==
    /\ Legal(cs, p) /\ op \in OwnOps /\ arg \in Nat /\ on \in Nat
    /\ c \in CallType /\ (c.mounted => p = Sender(op))
    /\ d = Following(Call(cs, op, <<>>, Sender(op), arg, on), c)

LEMMA LegalFollow ==
    ASSUME NEW d, NEW c, NEW cs, NEW p, NEW op, NEW arg, NEW on,
           Follows(d, c, cs, p, op, arg, on)
    PROVE  /\ Legal(cs \cup {d}, p) /\ d.op = op /\ d.reply = NoReply
           /\ d.mounted <=> c.mounted
<1> DEFINE new == Call(cs, op, <<>>, Sender(op), arg, on)
<1> USE DEF Follows
<1>1. /\ new \in CallType /\ new.op = op /\ new.by = Sender(op) /\ new.key = <<>>
      /\ new.reply = NoReply /\ \A e \in cs : e.id # new.id
  BY NewCall
<1>2. d = [new EXCEPT !.mounted = c.mounted]
  BY DEF Following
<1> HIDE DEF new
<1>3. d \in CallType /\ (d.mounted <=> c.mounted)
  BY <1>1, <1>2 DEF CallType
<1>4. /\ d.id = new.id /\ d.op = op /\ d.by = Sender(op) /\ d.key = <<>>
      /\ d.reply = NoReply
  BY <1>1, <1>2 DEF CallType
<1>5. d \in CallType
  BY <1>3
<1>6. \A e \in cs : e.id # d.id
  BY <1>1, <1>4
<1>7. d.mounted => p = Sender(op)
  BY <1>3
<1>8. Legal(cs \cup {d}, p)
  BY ONLY Follows(d, c, cs, p, op, arg, on), <1>5, <1>4, <1>6, <1>7, LegalWith DEF Follows
<1>9. QED
  BY <1>4, <1>3, <1>8

(* A call gets an answer, or goes on under another kind. *)
LEMMA LegalReplace ==
    ASSUME NEW cs, NEW p, Legal(cs, p), NEW c \in cs, NEW d \in CallType,
           d.id = c.id, d.key = c.key, d.by = c.by, (d.mounted <=> c.mounted),
           d.op = c.op \/ (c.op # "query" /\ d.op # "query" /\ Sender(d.op) = Sender(c.op))
    PROVE  Legal((cs \ {c}) \cup {d}, p)
<1>1. IsFiniteSet((cs \ {c}) \cup {d})
  BY FS_RemoveElement, FS_AddElement DEF Legal
<1>2. Proper(d, p)
  BY DEF Legal, Proper
<1>3. QED
  BY <1>1, <1>2 DEF Legal

(* The page is gone: its calls go on without it. *)
LEMMA LegalLeft ==
    ASSUME NEW cs, NEW p, Legal(cs, p), NEW q, NEW left,
           left = {[c EXCEPT !.mounted = FALSE] : c \in cs}
    PROVE  /\ Legal(left, q)
           /\ \A d \in left : ~d.mounted /\ \E c \in cs : d = [c EXCEPT !.mounted = FALSE]
<1> DEFINE Left(c) == [c EXCEPT !.mounted = FALSE]
           f == [c \in cs |-> Left(c)]
<1>1. ASSUME NEW c \in cs
      PROVE  /\ Left(c) \in CallType /\ Left(c).id = c.id /\ Left(c).op = c.op
             /\ Left(c).key = c.key /\ Left(c).by = c.by /\ ~Left(c).mounted
  <2>1. c \in CallType
    BY DEF Legal
  <2>2. QED
    BY <2>1, CallUnmounted
<1>2. left = {Left(c) : c \in cs}
  OBVIOUS
<1> HIDE DEF Left
<1>3. IsFiniteSet(left)
  <2>1. f \in Surjection(cs, left)
    BY <1>2 DEF Surjection
  <2> HIDE DEF f
  <2>2. QED
    BY <2>1, FS_Surjection DEF Legal
<1>4. left \subseteq CallType
  BY <1>1, <1>2
<1>5. \A d \in left : Proper(d, q)
  BY <1>1, <1>2 DEF Legal, Proper
<1>6. /\ \A d, e \in left : d.id = e.id => d = e
      /\ \A d, e \in left : d.op = "query" /\ e.op = "query" /\ d.key = e.key => d = e
  BY <1>1, <1>2 DEF Legal
<1>7. \A d \in left : ~d.mounted /\ \E c \in cs : d = Left(c)
  BY <1>1, <1>2
<1>8. QED
  BY <1>3, <1>4, <1>5, <1>6, <1>7 DEF Legal, Left

(* Queries that are sent: the ones that are missing among those wanted. *)
LEMMA ObservedKeys ==
    ASSUME NEW p, NEW i, NEW ca
    PROVE  /\ Observed(p, i, ca) \subseteq Keys /\ IsFiniteSet(Observed(p, i, ca))
           /\ Observed(p, i, ca) # {} => p \in Pages
<1> DEFINE objects == IF i \in Rows THEN {ObjectsKey(i)} ELSE {}
           polling == IF Processing(ca) THEN {PollingKey} ELSE {}
<1>1. Observed(p, i, ca) \in {{}, {VideosKey, BucketsKey}, {KeysKey}, {BucketsKey}, {VideosKey},
                              {JobsKey}, {BucketsKey} \cup objects, {VideosKey} \cup polling}
  BY DEF Observed
<1>2. Observed(p, i, ca) # {} => p \in Pages
  BY DEF Observed, Pages
<1>3. /\ IsFiniteSet({}) /\ IsFiniteSet({VideosKey}) /\ IsFiniteSet({BucketsKey})
      /\ IsFiniteSet({KeysKey}) /\ IsFiniteSet({JobsKey}) /\ IsFiniteSet({PollingKey})
      /\ IsFiniteSet({ObjectsKey(i)})
  BY FS_EmptySet, FS_Singleton
<1>4. IsFiniteSet(objects) /\ IsFiniteSet(polling)
  BY <1>3
<1>5. objects \subseteq Keys /\ polling \subseteq Keys
  BY DEF Keys
<1> HIDE DEF objects, polling
<1>6. {VideosKey, BucketsKey} = {VideosKey} \cup {BucketsKey}
  OBVIOUS
<1>7. IsFiniteSet(Observed(p, i, ca))
  <2>1. /\ IsFiniteSet({VideosKey} \cup {BucketsKey})
        /\ IsFiniteSet({BucketsKey} \cup objects) /\ IsFiniteSet({VideosKey} \cup polling)
    BY <1>3, <1>4, FS_Union
  <2>2. QED
    BY <1>1, <1>3, <1>6, <2>1
<1>8. Observed(p, i, ca) \subseteq Keys
  BY <1>1, <1>5 DEF Keys
<1>9. QED
  BY <1>2, <1>7, <1>8

LEMMA NewQuery ==
    ASSUME NEW i \in Nat \ {0}, NEW key \in Keys, NEW p \in Pages,
           NEW d, d = CallAs(i, "query", key, p, 0, 0)
    PROVE  /\ d \in CallType /\ d.id = i /\ d.op = "query" /\ d.key = key /\ d.by = p
           /\ d.mounted /\ d.reply = NoReply
<1>1. "query" \in OwnOps \cup {"query"} /\ key \in Keys \cup {<<>>} /\ 0 \in Nat
  OBVIOUS
<1>2. QED
  BY <1>1, CallAsType

LEMMA FetchesLegal ==
    ASSUME NEW cs, NEW p, Legal(cs, p), NEW keys, keys \subseteq Keys, IsFiniteSet(keys),
           keys # {} => p \in Pages
    PROVE  /\ Legal(Fetches(cs, keys, p), p)
           /\ cs \subseteq Fetches(cs, keys, p)
           /\ \A d \in Fetches(cs, keys, p) \ cs :
                 /\ d.op = "query" /\ d.key \in keys /\ ~Querying(cs, d.key)
                 /\ d.by = p /\ d.mounted /\ d.reply = NoReply
           /\ \A key \in keys : Querying(Fetches(cs, keys, p), key)
<1> DEFINE first == {key \in keys : ~Querying(cs, key)}
           ids == FreeIds(cs, Cardinality(first))
           id == CHOOSE f \in [first -> ids] : \A j, k \in first : f[j] = f[k] => j = k
           New(key) == CallAs(id[key], "query", key, p, 0, 0)
           new == {New(key) : key \in first}
<1>1. Fetches(cs, keys, p) = cs \cup new
  BY DEF Fetches
<1>2. IsFiniteSet(first) /\ first \subseteq keys /\ \A key \in first : ~Querying(cs, key)
  BY FS_Subset
<1>3. IsFiniteSet(cs)
  BY DEF Legal
<1>4. id \in [first -> ids] /\ \A j, k \in first : id[j] = id[k] => j = k
  <2>1. \E f \in [first -> ids] : \A j, k \in first : f[j] = f[k] => j = k
    BY <1>2, <1>3, FreeInjection
  <2>2. QED
    BY <2>1
<1>5. ids \subseteq Nat \ {0} /\ ids \cap Used(cs) = {}
  BY <1>2, <1>3, FreeCount, FS_CardinalityType
<1> HIDE DEF first, ids, id
<1>6. ASSUME NEW key \in first
      PROVE  /\ New(key) \in CallType /\ New(key).id = id[key] /\ New(key).op = "query"
             /\ New(key).key = key /\ New(key).by = p /\ New(key).reply = NoReply
             /\ New(key).mounted
             /\ key \in keys /\ key \in Keys /\ ~Querying(cs, key) /\ id[key] \notin Used(cs)
  <2>1. id[key] \in Nat \ {0} /\ id[key] \notin Used(cs)
    BY <1>4, <1>5
  <2>2. key \in keys /\ key \in Keys /\ ~Querying(cs, key) /\ p \in Pages
    BY <1>2
  <2>3. /\ New(key) \in CallType /\ New(key).id = id[key] /\ New(key).op = "query"
        /\ New(key).key = key /\ New(key).by = p /\ New(key).mounted
        /\ New(key).reply = NoReply
    BY ONLY <2>1, <2>2, NewQuery
  <2>4. QED
    BY <2>1, <2>2, <2>3
<1>7. IsFiniteSet(new)
  <2>1. [key \in first |-> New(key)] \in Surjection(first, new)
    BY DEF Surjection
  <2>2. QED
    BY <1>2, <2>1, FS_Surjection
<1> HIDE DEF New
<1>8. \A d \in new : \E key \in first : d = New(key)
  OBVIOUS
<1>9. \A key \in first : New(key) \in new
  OBVIOUS
<1> HIDE DEF new
<1>10. Legal(cs \cup new, p)
  <2>1. IsFiniteSet(cs \cup new)
    BY <1>3, <1>7, FS_Union
  <2>2. cs \cup new \subseteq CallType
    BY <1>6, <1>8 DEF Legal
  <2>3. \A c \in cs \cup new : Proper(c, p)
    <3>1. \A c \in new : Proper(c, p)
      BY <1>6, <1>8 DEF Proper
    <3>2. QED
      BY <3>1 DEF Legal
  <2>4. \A c, d \in cs \cup new : c.id = d.id => c = d
    <3>1. \A c \in cs, d \in new : c.id # d.id
      BY <1>6, <1>8 DEF Used
    <3>2. \A c, d \in new : c.id = d.id => c = d
      BY <1>4, <1>6, <1>8
    <3>3. QED
      BY <3>1, <3>2 DEF Legal
  <2>5. \A c, d \in cs \cup new :
            c.op = "query" /\ d.op = "query" /\ c.key = d.key => c = d
    <3>1. \A c \in cs, d \in new : c.op = "query" => c.key # d.key
      BY <1>6, <1>8 DEF Querying
    <3>2. \A c, d \in new : c.key = d.key => c = d
      BY <1>6, <1>8
    <3>3. QED
      BY <3>1, <3>2 DEF Legal
  <2>6. QED
    BY <2>1, <2>2, <2>3, <2>4, <2>5 DEF Legal
<1>11. \A d \in (cs \cup new) \ cs :
          /\ d.op = "query" /\ d.key \in keys /\ ~Querying(cs, d.key)
          /\ d.by = p /\ d.mounted /\ d.reply = NoReply
  BY <1>6, <1>8
<1>12. \A key \in keys : Querying(cs \cup new, key)
  <2> SUFFICES ASSUME NEW key \in keys, ~Querying(cs, key)
               PROVE  Querying(cs \cup new, key)
    BY DEF Querying
  <2>1. key \in first
    BY DEF first
  <2>2. QED
    BY <1>6, <1>9, <2>1 DEF Querying
<1>13. QED
  BY <1>1, <1>10, <1>11, <1>12

-----------------------------------------------------------------------------
(* The inductive invariant. *)

HomeLocal     == [id : Nat]
KeysLocal     == [id : Nat, open : BOOLEAN, named : BOOLEAN, made : BOOLEAN,
                  copied : SUBSET Nat]
BucketsLocal  == [id : Nat, open : BOOLEAN, filled : BOOLEAN, made : SUBSET Rows]
BucketLocal   == [id : Nat, editing : BOOLEAN, changed : BOOLEAN, open : BOOLEAN,
                  expanded : SUBSET Nat]
VideosLocal   == [id : Nat, open : BOOLEAN]
VideoLocal    == [id : Nat, open : BOOLEAN, deleting : BOOLEAN]
ActivityLocal == [id : Nat, filter : {"all", "video.processing", "video.transcoded"}]
ConvertLocal  == [id : Nat, filled : BOOLEAN]
BillingLocal  == [id : Nat, open : BOOLEAN, balance : Nat]
BrandingLocal == [id : Nat, pro : {"unknown", "yes", "no"}, asset : BOOLEAN,
                  saving : BOOLEAN, uploading : BOOLEAN]
SettingsLocal == [id : Nat, saving : BOOLEAN, step : Nat, confirmed : BOOLEAN]
TeamLocal     == [id : Nat, open : BOOLEAN, members : Nat]

LocalType(p) ==
    CASE p = "home"     -> HomeLocal
      [] p = "keys"     -> KeysLocal
      [] p = "buckets"  -> BucketsLocal
      [] p = "bucket"   -> BucketLocal
      [] p = "videos"   -> VideosLocal
      [] p = "video"    -> VideoLocal
      [] p = "activity" -> ActivityLocal
      [] p = "convert"  -> ConvertLocal
      [] p = "billing"  -> BillingLocal
      [] p = "branding" -> BrandingLocal
      [] p = "settings" -> SettingsLocal
      [] p = "team"     -> TeamLocal

Held == [has : BOOLEAN, rows : SUBSET Rows, busy : SUBSET Rows, shape : {"array", "object"},
         failed : BOOLEAN, stale : BOOLEAN]
Account == [keys : SUBSET Rows, buckets : SUBSET Rows, videos : SUBSET Rows,
            busy : SUBSET Rows, balance : Nat]

ShellInv == /\ tour \in Tours /\ page \in Pages \cup {"crashed"}
            /\ clicks \in Nat /\ clicks <= MaxClicks

(* What the page shows of the account is behind it, never ahead of it. *)
LocalInv == /\ page # "crashed" => local \in LocalType(page)
            /\ page = "billing" => local.balance <= server.balance

PaletteInv == palette \in BOOLEAN

CacheInv == /\ cache \in [Keys -> Held]
            /\ \A k \in Keys : cache[k].busy \subseteq cache[k].rows

ServerInv == server \in Account /\ server.busy \subseteq server.videos

(* An answer tells what the account had when it was given. *)
Honest(r, c) == /\ r.busy \subseteq r.rows /\ r.n <= server.balance
                /\ c.op = "postBucket" => r.rows \subseteq server.buckets
RepliesInv == \A c \in calls : Honest(c.reply, c)

(* Every payment, made or on its way, is a click. *)
Unpaid(cs) == {c.id : c \in {d \in cs : d.op = "postFunds" /\ d.reply = NoReply}}
PaymentsInv == Cardinality(Unpaid(calls)) + server.balance <= clicks

(* A deletion that the page waits for keeps its button from being used. *)
Deletes == {"deleteVideo", "deleteTail"}
DeletionInv ==
    /\ \A c \in calls : c.mounted /\ c.op \in Deletes => page = "video" /\ local.deleting
    /\ \A c, d \in calls :
          c.mounted /\ d.mounted /\ {c.op, d.op} \subseteq Deletes => c = d

(* Once the page has created a bucket, whatever reads the list is the      *)
(* page's own query, sent after the creation.                              *)
CreatedInv ==
    page = "buckets" =>
        /\ local.made \subseteq cache[BucketsKey].rows
        /\ local.made \subseteq server.buckets
        /\ local.made # {} =>
              \A c \in calls : c.op = "query" /\ c.key = BucketsKey =>
                  /\ c.by = "buckets"
                  /\ c.reply.status = 200 => local.made \subseteq c.reply.rows

IInv == /\ ShellInv /\ PaletteInv /\ Legal(calls, page) /\ LocalInv /\ CacheInv /\ ServerInv
        /\ RepliesInv /\ PaymentsInv /\ DeletionInv /\ CreatedInv /\ ToastInv

-----------------------------------------------------------------------------
(* A calm step is neither an answer of the API nor a payment: every call   *)
(* that is out afterwards was out before, and may have lost its page or    *)
(* wait for an answer again, or it is new.  A quiet one begins no deletion *)
(* either.                                                                 *)

Kept(d, c) == /\ d.id = c.id /\ d.op = c.op /\ d.key = c.key /\ d.by = c.by
              /\ d.mounted => c.mounted
              /\ d.reply = c.reply \/ (d.op = "query" /\ d.reply = NoReply)
Started(d, p) == d.reply = NoReply /\ d.op # "postFunds" /\ (d.op = "query" => d.by = p)
Begun(d, p) == Started(d, p) /\ d.op \notin Deletes
KeptOrStarted(new, old, p) == \A d \in new : Started(d, p) \/ \E c \in old : Kept(d, c)
KeptOrBegun(new, old, p) == \A d \in new : Begun(d, p) \/ \E c \in old : Kept(d, c)

Calm == /\ Legal(calls', page') /\ KeptOrStarted(calls', calls, page')
        /\ server' = server
Quiet == /\ Legal(calls', page') /\ KeptOrBegun(calls', calls, page')
         /\ server' = server

LEMMA QuietIsCalm == Quiet => Calm
BY DEF Quiet, Calm, KeptOrBegun, KeptOrStarted, Begun

LEMMA UnpaidFinite ==
    ASSUME NEW cs, IsFiniteSet(cs)
    PROVE  IsFiniteSet(Unpaid(cs)) /\ Cardinality(Unpaid(cs)) \in Nat
<1> DEFINE ds == {d \in cs : d.op = "postFunds" /\ d.reply = NoReply}
           f == [c \in ds |-> c.id]
<1>1. IsFiniteSet(ds)
  BY FS_Subset
<1>2. f \in Surjection(ds, Unpaid(cs))
  BY DEF Surjection, Unpaid
<1> HIDE DEF f, ds
<1>3. IsFiniteSet(Unpaid(cs))
  BY <1>1, <1>2, FS_Surjection
<1>4. QED
  BY <1>3, FS_CardinalityType

LEMMA CalmUnpaid ==
    ASSUME NEW old, IsFiniteSet(old), NEW new, NEW p, KeptOrStarted(new, old, p)
    PROVE  Cardinality(Unpaid(new)) <= Cardinality(Unpaid(old))
<1>1. Unpaid(new) \subseteq Unpaid(old)
  <2> SUFFICES ASSUME NEW d \in new, d.op = "postFunds", d.reply = NoReply
               PROVE  d.id \in Unpaid(old)
    BY DEF Unpaid
  <2>1. ~Started(d, p)
    BY DEF Started
  <2>2. PICK c \in old : Kept(d, c)
    BY <2>1 DEF KeptOrStarted
  <2>3. d.id = c.id /\ c.op = "postFunds" /\ c.reply = NoReply
    BY <2>2 DEF Kept
  <2>4. QED
    BY <2>3 DEF Unpaid
<1>2. QED
  BY <1>1, UnpaidFinite, FS_Subset

(* What a calm step does to what is known of the calls. *)
LEMMA CalmStep ==
    ASSUME IInv, Calm, clicks' \in Nat, clicks <= clicks'
    PROVE  ServerInv' /\ RepliesInv' /\ PaymentsInv'
<1>1. ServerInv'
  BY DEF IInv, ServerInv, Calm
<1>2. RepliesInv'
  <2> SUFFICES ASSUME NEW d \in calls'
               PROVE  Honest(d.reply, d)'
    BY DEF RepliesInv
  <2>1. server.balance \in Nat /\ server' = server
    BY DEF IInv, ServerInv, Account, Calm
  <2>2. Honest(NoReply, d)'
    BY <2>1, NoReplyType DEF Honest
  <2>3. CASE d.reply = NoReply
    BY <2>2, <2>3
  <2>4. CASE d.reply # NoReply
    <3>1. PICK c \in calls : Kept(d, c)
      BY <2>4 DEF Calm, KeptOrStarted, Started
    <3>2. d.reply = c.reply /\ d.op = c.op
      BY <2>4, <3>1 DEF Kept
    <3>3. Honest(c.reply, c)
      BY DEF IInv, RepliesInv
    <3>4. QED
      BY <2>1, <3>2, <3>3 DEF Honest
  <2>5. QED
    BY <2>3, <2>4
<1>3. PaymentsInv'
  <2>1. IsFiniteSet(calls) /\ IsFiniteSet(calls')
    BY DEF IInv, Calm, Legal
  <2>2. Cardinality(Unpaid(calls')) <= Cardinality(Unpaid(calls))
    BY <2>1, CalmUnpaid DEF Calm
  <2>3. /\ Cardinality(Unpaid(calls)) \in Nat /\ Cardinality(Unpaid(calls')) \in Nat
        /\ server.balance \in Nat /\ clicks \in Nat
    BY <2>1, UnpaidFinite DEF IInv, ServerInv, Account, ShellInv
  <2>4. Cardinality(Unpaid(calls)) + server.balance <= clicks /\ server' = server
    BY DEF IInv, PaymentsInv, Calm
  <2>5. Cardinality(Unpaid(calls')) + server'.balance <= clicks'
    BY <2>2, <2>3, <2>4
  <2>6. QED
    BY <2>5 DEF PaymentsInv, Unpaid
<1>4. QED
  BY <1>1, <1>2, <1>3

(* A quiet step leaves the deletion of a page that is still there, or      *)
(* takes away the page.                                                    *)
LEMMA QuietDeletion ==
    ASSUME IInv, Quiet,
           \/ \A d \in calls' : d.op \in Deletes => ~d.mounted
           \/ page' = page /\ (page = "video" /\ local.deleting => local'.deleting)
    PROVE  DeletionInv'
<1> DEFINE D(d) == d.mounted /\ d.op \in Deletes
<1>1. CASE \A d \in calls' : d.op \in Deletes => ~d.mounted
  BY <1>1 DEF DeletionInv
<1>2. CASE page' = page /\ (page = "video" /\ local.deleting => local'.deleting)
  <2>1. ASSUME NEW d \in calls', d.mounted, d.op \in Deletes
        PROVE  \E c \in calls : c.id = d.id /\ c.mounted /\ c.op \in Deletes
    BY <2>1 DEF Quiet, KeptOrBegun, Begun, Started, Kept
  <2>2. ASSUME NEW d \in calls', d.mounted, d.op \in Deletes
        PROVE  page' = "video" /\ local'.deleting
    BY <1>2, <2>1, <2>2 DEF IInv, DeletionInv
  <2>3. ASSUME NEW d \in calls', d.mounted, d.op \in Deletes,
               NEW e \in calls', e.mounted, e.op \in Deletes
        PROVE  d = e
    <3>1. PICK b \in calls : b.id = d.id /\ b.mounted /\ b.op \in Deletes
      BY <2>1, <2>3
    <3>2. PICK c \in calls : c.id = e.id /\ c.mounted /\ c.op \in Deletes
      BY <2>1, <2>3
    <3>3. b = c
      BY <3>1, <3>2 DEF IInv, DeletionInv
    <3>4. d.id = e.id
      BY <3>1, <3>2, <3>3
    <3>5. QED
      BY <3>4 DEF Quiet, Legal
  <2>4. QED
    BY <2>2, <2>3 DEF DeletionInv
<1>3. QED
  BY <1>1, <1>2

-----------------------------------------------------------------------------
(* The actions by what they do to the calls. *)

Inputs ==
    \/ KeysInput \/ BucketsInput \/ BucketInput \/ VideosInput \/ VideoInput \/ ConvertInput
    \/ BillingInput \/ TeamInput \/ handleCreate \/ handleSaveName \/ handleFileSelected
    \/ handleCreateJob \/ handleDeleteAccount \/ handleInvite
    \/ \E i \in Rows : handleRevoke(i) \/ togglePrefix(i)
    \/ \E type \in {"all"} \cup actionTypes : setFilter(type)
    \/ OpenPalette \/ TogglePalette
    \/ \E id \in Closable : CloseToast(id)
    \/ \E id \in timers : ToastTimer(id)
    \/ UNCHANGED vars
Endings(c) ==
    \/ CopyTimer(c) \/ BucketTail(c) \/ BucketFails(c) \/ VideoDeleteFails(c)
    \/ InvoicesLoaded(c) \/ ToppedUp(c) \/ PortalFails(c) \/ BrandingLoaded(c)
    \/ BrandingSaved(c) \/ AssetTimer(c) \/ NameTimer(c)
Sendings ==
    \/ \E i \in Rows \cup {0} : handleCopy(i)
    \/ handleCreateBucket \/ handlePortalRedirect \/ handleSave \/ handleFileUpload
    \/ handleSaveAccountName
Refetches == Poll \/ RetryBuckets \/ RetryVideos \/ RefreshJobs
Moves == Sidebar \/ HomeLink \/ OpenRow \/ Choose \/ handleDelete \/ \E c \in calls : DeleteTail(c)
Loads == Reload \/ \E c \in calls : PortalOpens(c)

LEMMA NextKinds ==
    ASSUME [Next]_vars
    PROVE  \/ Inputs \/ Sendings \/ Refetches \/ Moves \/ Loads
           \/ handleTopUp \/ handleDeleteVideo \/ TranscodeEnds
           \/ \E c \in calls : \/ Endings(c) \/ SubscriptionLoaded(c) \/ AssetPosted(c)
                               \/ BucketPosted(c) \/ VideoDeleted(c) \/ Fetched(c) \/ Serve(c)
<1>1. CASE StoragePagesNext
  BY <1>1 DEF StoragePagesNext, Inputs, Endings, Sendings, Refetches, Moves
<1>2. CASE VideoPagesNext
  BY <1>2 DEF VideoPagesNext, Inputs, Endings, Refetches, Moves
<1>3. CASE AccountPagesNext
  BY <1>3 DEF AccountPagesNext, Inputs, Endings, Sendings
<1>4. CASE UNCHANGED vars
  BY <1>4 DEF Inputs
<1>5. QED
  BY <1>1, <1>2, <1>3, <1>4 DEF Next, Inputs, Moves, Loads

(* A tab that moves to a page mounts it; a deletion that ends on the list  *)
(* of videos, or after a crash, moves nowhere.                             *)
MovesTo(p, i) == \E cs \in SUBSET calls : Mount(cs, p, i, Fresh(p, i), Effect(p))
Stays == /\ page \in {"videos", "crashed"} /\ UNCHANGED <<page, local, cache>>
         /\ \E c \in calls : calls' = calls \ {c}

LEMMA MoveKinds ==
    ASSUME ShellInv, CacheInv, Moves
    PROVE  /\ tour' = tour /\ server' = server
           /\ Click \/ clicks' = clicks
           /\ Stays \/ \E p \in Pages, i \in Nat : MovesTo(p, i)
<1> DEFINE Goal == /\ tour' = tour /\ server' = server
                   /\ Click \/ clicks' = clicks
                   /\ Stays \/ \E p \in Pages, i \in Nat : MovesTo(p, i)
<1>1. tour \subseteq Pages
  BY BrowserAssumption DEF ShellInv
<1>2. ASSUME NEW p \in Pages, NEW i \in Nat, Visit(p, i)
      PROVE  Goal
  BY <1>2 DEF Visit, MovesTo
<1>3. CASE Sidebar
  BY <1>1, <1>2, <1>3 DEF Sidebar
<1>4. CASE HomeLink
  BY <1>1, <1>2, <1>4 DEF HomeLink
<1>5. CASE OpenRow
  <2>1. cache[BucketsKey].rows \subseteq Nat /\ cache[VideosKey].rows \subseteq Nat
    BY BrowserAssumption DEF CacheInv, Held, Keys
  <2>2. "bucket" \in Pages /\ "video" \in Pages
    BY DEF Pages
  <2>3. QED
    BY <1>2, <1>5, <2>1, <2>2 DEF OpenRow, Videos
<1>6. CASE Choose
  <2>1. "bucket" \in Pages /\ "video" \in Pages
    BY DEF Pages
  <2>2. QED
    BY <1>2, <1>6, <2>1 DEF Choose
<1>7. CASE handleDelete
  <2>1. Fresh("buckets", 0) = FreshBuckets /\ Effect("buckets") = {} /\ "buckets" \in Pages
    BY DEF Fresh, Effect, Pages
  <2>2. MovesTo("buckets", 0)
    BY <1>7, <2>1 DEF handleDelete, MovesTo
  <2>3. QED
    BY <1>7, <2>1, <2>2 DEF handleDelete
<1>8. CASE \E c \in calls : DeleteTail(c)
  <2>1. PICK c \in calls : DeleteTail(c)
    BY <1>8
  <2>2. Fresh("videos", 0) = FreshVideos /\ Effect("videos") = {} /\ "videos" \in Pages
    BY DEF Fresh, Effect, Pages
  <2>3. calls \ {c} \in SUBSET calls
    OBVIOUS
  <2>4. Stays \/ MovesTo("videos", 0)
    BY <2>1, <2>2, <2>3 DEF DeleteTail, Stays, MovesTo
  <2>5. QED
    BY <2>1, <2>2, <2>4 DEF DeleteTail
<1>9. QED
  BY <1>3, <1>4, <1>5, <1>6, <1>7, <1>8 DEF Moves

LEMMA LoadKinds ==
    ASSUME ShellInv, LocalInv, Loads
    PROVE  /\ Click \/ clicks' = clicks
           /\ \E p \in Pages, i \in Nat : Load(p, i)
<1>1. tour \subseteq Pages
  BY BrowserAssumption DEF ShellInv
<1>2. CASE Reload
  <2>1. CASE page = "crashed"
    BY <1>1, <1>2, <2>1 DEF Reload
  <2>2. CASE page # "crashed"
    <3>1. page \in Pages
      BY <2>2 DEF ShellInv
    <3>2. local.id \in Nat
      BY <2>2, <3>1 DEF LocalInv, LocalType, Pages, HomeLocal, KeysLocal, BucketsLocal, BucketLocal,
         VideosLocal, VideoLocal, ActivityLocal, ConvertLocal, BillingLocal, BrandingLocal,
         SettingsLocal, TeamLocal
    <3>3. QED
      BY <1>2, <2>2, <3>1, <3>2 DEF Reload
  <2>3. QED
    BY <2>1, <2>2
<1>3. CASE \E c \in calls : PortalOpens(c)
  <2>1. "billing" \in Pages
    BY DEF Pages
  <2>2. QED
    BY <1>3, <2>1 DEF PortalOpens
<1>4. QED
  BY <1>2, <1>3 DEF Loads

(* What is common to the actions of a group. *)
LEMMA InputKinds ==
    ASSUME Inputs
    PROVE  /\ UNCHANGED <<tour, page, calls, server>>
           /\ Click \/ clicks' = clicks
<1> USE DEF shell, net, Click
<1>1. CASE \/ KeysInput \/ BucketsInput \/ BucketInput \/ VideosInput \/ VideoInput
           \/ ConvertInput \/ BillingInput \/ TeamInput
  BY <1>1 DEF KeysInput, BucketsInput, BucketInput, VideosInput, VideoInput, ConvertInput,
              BillingInput, TeamInput
<1>2. CASE \/ handleCreate \/ handleSaveName \/ handleFileSelected \/ handleCreateJob
           \/ handleDeleteAccount \/ handleInvite
           \/ \E i \in Rows : handleRevoke(i) \/ togglePrefix(i)
           \/ \E type \in {"all"} \cup actionTypes : setFilter(type)
  BY <1>2 DEF handleCreate, handleSaveName, handleFileSelected, handleCreateJob,
              handleDeleteAccount, handleInvite, handleRevoke, togglePrefix, setFilter
<1>3. CASE OpenPalette \/ TogglePalette
  BY <1>3 DEF OpenPalette, TogglePalette
<1>4. CASE \/ \E id \in Closable : CloseToast(id)
           \/ \E id \in timers : ToastTimer(id)
           \/ UNCHANGED vars
  BY <1>4 DEF CloseToast, ToastTimer, vars
<1>5. QED
  BY <1>1, <1>2, <1>3, <1>4 DEF Inputs

LEMMA EndingKinds ==
    ASSUME NEW c \in calls, Endings(c)
    PROVE  /\ UNCHANGED <<tour, page, palette, cache, server, clicks>>
           /\ calls' = calls \ {c}
BY DEF shell, Endings, CopyTimer, BucketTail, BucketFails, VideoDeleteFails, InvoicesLoaded,
       ToppedUp, PortalFails, BrandingLoaded, BrandingSaved, AssetTimer, NameTimer

LEMMA SendingKinds ==
    ASSUME Sendings
    PROVE  /\ UNCHANGED <<tour, page, palette, cache, server>> /\ Click
           /\ \E op \in OwnOps \ (Deletes \cup Awaits \cup {"postFunds"}), arg \in Nat :
                 page = Sender(op) /\ calls' = Send(op, arg)
<1> USE DEF shell, On, OwnOps, Deletes, Awaits, Sender
<1>1. CASE \E i \in Rows \cup {0} : handleCopy(i)
  BY <1>1, BrowserAssumption DEF handleCopy
<1>2. CASE handleCreateBucket
  BY <1>2 DEF handleCreateBucket
<1>3. CASE handlePortalRedirect
  BY <1>3 DEF handlePortalRedirect
<1>4. CASE handleSave
  BY <1>4 DEF handleSave
<1>5. CASE handleFileUpload
  BY <1>5 DEF handleFileUpload
<1>6. CASE handleSaveAccountName
  BY <1>6 DEF handleSaveAccountName
<1>7. QED
  BY <1>1, <1>2, <1>3, <1>4, <1>5, <1>6 DEF Sendings

LEMMA RefetchKinds ==
    ASSUME Refetches
    PROVE  /\ UNCHANGED <<tour, page, palette, local, server, toastVars>>
           /\ Click \/ clicks' = clicks
           /\ \/ page = "videos" /\ calls' = Fetches(calls, {PollingKey}, page) /\ cache' = cache
              \/ \E key \in {BucketsKey, VideosKey, JobsKey} :
                    cache' = Marked(cache, key) /\ calls' = Refetched(calls, cache, key)
BY DEF shell, On, Refetches, Poll, RetryBuckets, RetryVideos, RefreshJobs

LEMMA ShellStep ==
    ASSUME IInv, [Next]_vars
    PROVE  ShellInv' /\ clicks' \in Nat /\ clicks <= clicks'
<1> USE DEF ShellInv
<1> DEFINE Goal == ShellInv' /\ clicks' \in Nat /\ clicks <= clicks'
<1>1. ShellInv /\ CacheInv /\ LocalInv
  BY DEF IInv
<1>2. Click => clicks' \in Nat /\ clicks <= clicks' /\ clicks' <= MaxClicks
  BY <1>1, BrowserAssumption DEF Click
<1>3. ASSUME tour' = tour, page' \in {page, "crashed"},
             Click \/ clicks' = clicks
      PROVE  Goal
  BY <1>1, <1>2, <1>3
<1>4. CASE Inputs
  BY <1>3, <1>4, InputKinds
<1>5. CASE Sendings
  BY <1>3, <1>5, SendingKinds
<1>6. CASE Refetches
  BY <1>3, <1>6, RefetchKinds
<1>7. CASE Moves
  <2>1. page' \in Pages \cup {"crashed"}
    <3>1. CASE Stays
      BY <1>1, <3>1 DEF Stays
    <3>2. CASE \E p \in Pages, i \in Nat : MovesTo(p, i)
      BY <3>2 DEF MovesTo, Mount
    <3>3. QED
      BY <1>1, <1>7, <3>1, <3>2, MoveKinds
  <2>2. tour' = tour /\ (Click \/ clicks' = clicks)
    BY <1>1, <1>7, MoveKinds
  <2>3. QED
    BY <1>1, <1>2, <2>1, <2>2
<1>8. CASE Loads
  <2>1. PICK p \in Pages, i \in Nat : Load(p, i)
    BY <1>1, <1>8, LoadKinds
  <2>2. tour' = tour /\ page' = p
    BY <2>1 DEF Load
  <2>3. Click \/ clicks' = clicks
    BY <1>1, <1>8, LoadKinds
  <2>4. QED
    BY <1>1, <1>2, <2>2, <2>3
<1>9. CASE handleTopUp \/ handleDeleteVideo \/ TranscodeEnds
  BY <1>3, <1>9 DEF handleTopUp, handleDeleteVideo, TranscodeEnds, shell
<1>10. ASSUME NEW c \in calls,
              \/ SubscriptionLoaded(c) \/ AssetPosted(c) \/ BucketPosted(c) \/ VideoDeleted(c)
              \/ Serve(c)
       PROVE  Goal
  BY <1>3, <1>10 DEF SubscriptionLoaded, AssetPosted, BucketPosted, VideoDeleted, Serve, shell
<1>11. ASSUME NEW c \in calls, Endings(c)
       PROVE  Goal
  BY <1>3, <1>11, EndingKinds
<1>12. ASSUME NEW c \in calls, Fetched(c)
       PROVE  Goal
  BY <1>3, <1>12 DEF Fetched, Shown
<1>13. QED
  <2>1. CASE \E c \in calls : \/ Endings(c) \/ SubscriptionLoaded(c) \/ AssetPosted(c)
                             \/ BucketPosted(c) \/ VideoDeleted(c) \/ Fetched(c) \/ Serve(c)
    BY <1>10, <1>11, <1>12, <2>1
  <2>2. \/ Inputs \/ Sendings \/ Refetches \/ Moves \/ Loads
        \/ handleTopUp \/ handleDeleteVideo \/ TranscodeEnds
        \/ \E c \in calls : \/ Endings(c) \/ SubscriptionLoaded(c) \/ AssetPosted(c)
                            \/ BucketPosted(c) \/ VideoDeleted(c) \/ Fetched(c) \/ Serve(c)
    BY NextKinds
  <2>3. QED
    BY <1>4, <1>5, <1>6, <1>7, <1>8, <1>9, <2>1, <2>2

-----------------------------------------------------------------------------
(* The groups whose steps are quiet. *)

LEMMA KeptSelf == ASSUME NEW c PROVE Kept(c, c)
BY DEF Kept

LEMMA EndsQuiet ==
    ASSUME IInv, calls' \subseteq calls, page' = page, server' = server
    PROVE  Quiet
<1>1. Legal(calls', page')
  BY LegalSubset DEF IInv
<1>2. KeptOrBegun(calls', calls, page')
  BY KeptSelf DEF KeptOrBegun
<1>3. QED
  BY <1>1, <1>2 DEF Quiet

LEMMA SendsQuiet ==
    ASSUME IInv, NEW op \in OwnOps \ (Deletes \cup {"postFunds"}), NEW arg \in Nat,
           page = Sender(op), calls' = Send(op, arg), page' = page, server' = server
    PROVE  Quiet
<1> DEFINE d == Call(calls, op, <<>>, page, arg, 0)
<1>1. calls' = calls \cup {d}
  BY DEF Send
<1>2. Legal(calls, page) /\ 0 \in Nat
  BY DEF IInv
<1>3. Legal(calls \cup {d}, page) /\ d.op = op /\ d.reply = NoReply
  BY <1>2, LegalAdd
<1> HIDE DEF d
<1>4. Begun(d, page)
  BY <1>3 DEF Begun, Started, OwnOps
<1>5. KeptOrBegun(calls', calls, page)
  BY <1>1, <1>4, KeptSelf DEF KeptOrBegun
<1>6. QED
  BY <1>1, <1>3, <1>5 DEF Quiet

(* The list is read again, whole, unless it is its first reading. *)
Replaced(c, ca, key) ==
    c.op = "query" /\ c.key \in Under(key) /\ c.key \in Watched(ca) /\ ca[c.key].has

LEMMA RefetchedLegal ==
    ASSUME NEW cs, Legal(cs, page), NEW ca, NEW key
    PROVE  /\ Legal(Refetched(cs, ca, key), page)
           /\ \A d \in Refetched(cs, ca, key) :
                 \/ d \in cs /\ ~Replaced(d, ca, key)
                 \/ d.op = "query" /\ d.by = page /\ d.reply = NoReply
<1> DEFINE again == Under(key) \cap Watched(ca)
           kept == {c \in cs : ~(c.op = "query" /\ c.key \in again /\ ca[c.key].has)}
<1>1. Refetched(cs, ca, key) = Fetches(kept, again, page)
  BY DEF Refetched
<1>2. again \subseteq Keys /\ IsFiniteSet(again) /\ (again # {} => page \in Pages)
  <2>1. /\ Watched(ca) \subseteq Keys /\ IsFiniteSet(Watched(ca))
        /\ Watched(ca) # {} => page \in Pages
    BY ObservedKeys DEF Watched
  <2>2. QED
    BY <2>1, FS_Subset
<1>3. Legal(kept, page)
  BY LegalSubset
<1> HIDE DEF again, kept
<1>4. /\ Legal(Fetches(kept, again, page), page)
      /\ \A d \in Fetches(kept, again, page) \ kept :
            d.op = "query" /\ d.by = page /\ d.reply = NoReply
  BY <1>2, <1>3, FetchesLegal
<1>5. QED
  BY <1>1, <1>4 DEF kept, again, Replaced

LEMMA RefetchesQuiet ==
    ASSUME IInv, Refetches
    PROVE  Quiet
<1>1. Legal(calls, page) /\ page' = page /\ server' = server
  BY RefetchKinds DEF IInv
<1>2. CASE page = "videos" /\ calls' = Fetches(calls, {PollingKey}, page)
  <2>1. {PollingKey} \subseteq Keys /\ IsFiniteSet({PollingKey}) /\ page \in Pages
    BY <1>2, FS_Singleton DEF Keys, Pages
  <2>2. /\ Legal(calls', page)
        /\ \A d \in calls' \ calls : d.op = "query" /\ d.by = page /\ d.reply = NoReply
    BY <1>1, <1>2, <2>1, FetchesLegal
  <2>3. KeptOrBegun(calls', calls, page)
    BY <2>2, KeptSelf DEF KeptOrBegun, Begun, Started, Deletes
  <2>4. QED
    BY <1>1, <2>2, <2>3 DEF Quiet
<1>3. ASSUME NEW key \in {BucketsKey, VideosKey, JobsKey}, calls' = Refetched(calls, cache, key)
      PROVE  Quiet
  <2>1. /\ Legal(calls', page)
        /\ \A d \in calls' : d \in calls \/ (d.op = "query" /\ d.by = page /\ d.reply = NoReply)
    BY <1>1, <1>3, RefetchedLegal
  <2>2. KeptOrBegun(calls', calls, page)
    BY <2>1, KeptSelf DEF KeptOrBegun, Begun, Started, Deletes
  <2>3. QED
    BY <1>1, <2>1, <2>2 DEF Quiet
<1>4. QED
  BY <1>2, <1>3, RefetchKinds

LEMMA FollowUpsQuiet ==
    ASSUME IInv, NEW c \in calls, SubscriptionLoaded(c) \/ AssetPosted(c)
    PROVE  Quiet
<1>1. /\ Legal(calls, page) /\ Legal(calls \ {c}, page) /\ c \in CallType
      /\ page' = page /\ server' = server /\ Proper(c, page)
  BY LegalSubset DEF IInv, Legal, SubscriptionLoaded, AssetPosted, shell
<1>2. CASE SubscriptionLoaded(c)
  <2> DEFINE cs == calls \ {c}
             d == [Call(cs, "getInvoices", <<>>, c.by, 0, 0) EXCEPT !.mounted = c.mounted]
  <2>1. calls' = cs \/ calls' = cs \cup {d}
    BY <1>2 DEF SubscriptionLoaded
  <2>2. CASE calls' = cs
    BY <1>1, <2>2, EndsQuiet
  <2>3. CASE calls' = cs \cup {d}
    <3>1. /\ c.op = "getBilling" /\ c.by = Sender("getInvoices") /\ "getInvoices" \in OwnOps
          /\ (c.mounted => page = Sender("getInvoices")) /\ 0 \in Nat
      BY <1>1, <1>2 DEF SubscriptionLoaded, Proper, Sender, OwnOps
    <3>2. Legal(cs, page) /\ c \in CallType
      BY <1>1
    <3> HIDE DEF cs
    <3>3. d = Following(Call(cs, "getInvoices", <<>>, Sender("getInvoices"), 0, 0), c)
      BY <3>1 DEF Following
    <3> HIDE DEF d
    <3>4. Legal(cs \cup {d}, page) /\ d.op = "getInvoices" /\ d.reply = NoReply
      <4>1. Follows(d, c, cs, page, "getInvoices", 0, 0)
        BY <3>1, <3>2, <3>3 DEF Follows
      <4>2. QED
        BY ONLY <4>1, LegalFollow
    <3>5. KeptOrBegun(cs \cup {d}, calls, page)
      BY <3>4, KeptSelf DEF KeptOrBegun, Begun, Started, Deletes, cs
    <3>6. QED
      BY <1>1, <2>3, <3>4, <3>5 DEF Quiet
  <2>4. QED
    BY <2>1, <2>2, <2>3
<1>3. CASE AssetPosted(c)
  <2> DEFINE d == [c EXCEPT !.op = "assetTimer", !.reply = NoReply]
  <2>1. calls' = calls \ {c} \/ calls' = (calls \ {c}) \cup {d}
    BY <1>3 DEF AssetPosted
  <2>2. CASE calls' = calls \ {c}
    BY <1>1, <2>2, EndsQuiet
  <2>3. CASE calls' = (calls \ {c}) \cup {d}
    <3>1. c.op = "postAsset" /\ "assetTimer" \in OwnOps
      BY <1>3 DEF AssetPosted, OwnOps
    <3>2. /\ d \in CallType /\ d.id = c.id /\ d.op = "assetTimer" /\ d.key = c.key
          /\ d.by = c.by /\ (d.mounted <=> c.mounted) /\ d.reply = NoReply
      BY <1>1, <3>1, NoReplyType DEF CallType
    <3>3. Sender(d.op) = Sender(c.op)
      BY <3>1, <3>2 DEF Sender
    <3> HIDE DEF d
    <3>4. Legal((calls \ {c}) \cup {d}, page)
      BY <1>1, <3>1, <3>2, <3>3, LegalReplace
    <3>5. KeptOrBegun((calls \ {c}) \cup {d}, calls, page)
      BY <3>2, KeptSelf DEF KeptOrBegun, Begun, Started, Deletes
    <3>6. QED
      BY <1>1, <2>3, <3>4, <3>5 DEF Quiet
  <2>4. QED
    BY <2>1, <2>2, <2>3
<1>4. QED
  BY <1>2, <1>3

LEMMA FetchingType ==
    ASSUME NEW cs, cs \subseteq CallType, NEW key
    PROVE  Fetching(cs, key) \in Nat
<1>1. CASE \E e \in cs : e.op = "query" /\ e.key = key
  <2>1. (CHOOSE e \in cs : e.op = "query" /\ e.key = key) \in cs
    BY <1>1
  <2>2. \A e \in cs : e.id \in Nat
    BY DEF CallType
  <2>3. QED
    BY <1>1, <2>1, <2>2 DEF Fetching
<1>2. CASE ~\E e \in cs : e.op = "query" /\ e.key = key
  BY <1>2 DEF Fetching
<1>3. QED
  BY <1>1, <1>2

(* The handler of c goes on to await the list. *)
Without(cs, c) == cs \ {c}

LEMMA RestRefetched ==
    ASSUME IInv, NEW c, NEW ca, NEW key, NEW cs, cs = Refetched(Without(calls, c), ca, key)
    PROVE  /\ Legal(cs, page)
           /\ \A e \in cs : \/ e \in Without(calls, c) /\ ~Replaced(e, ca, key)
                            \/ e.op = "query" /\ e.by = page /\ e.reply = NoReply
<1> DEFINE rest == Without(calls, c)
<1>1. Legal(rest, page) /\ rest \subseteq calls
  BY LegalSubset DEF IInv, Without
<1> HIDE DEF rest
<1>2. cs = Refetched(rest, ca, key)
  BY DEF rest
<1>3. /\ Legal(cs, page)
      /\ \A e \in cs : \/ e \in rest /\ ~Replaced(e, ca, key)
                       \/ e.op = "query" /\ e.by = page /\ e.reply = NoReply
  BY ONLY <1>1, <1>2, RefetchedLegal
<1>4. QED
  BY <1>1, <1>3 DEF rest

LEMMA TailAwaits ==
    ASSUME NEW cs, Legal(cs, page), NEW ca, NEW key,
           NEW on, on = IF key \in Watched(ca) THEN Fetching(cs, key) ELSE 0
    PROVE  on \in Nat
<1>1. cs \subseteq CallType
  BY DEF Legal
<1>2. Fetching(cs, key) \in Nat
  BY <1>1, FetchingType
<1>3. QED
  BY <1>2

LEMMA BucketPostedCalls ==
    ASSUME IInv, NEW c \in calls, BucketPosted(c)
    PROVE  /\ Quiet /\ page' = page
           /\ \A e \in calls' : e.op = "query" /\ e.key = BucketsKey /\ page = "buckets" =>
                 e.by = "buckets" /\ e.reply = NoReply
<1> DEFINE ca == SetData(cache, BucketsKey,
                         Holding(cache[BucketsKey].rows \cup c.reply.rows, {}, "array"))
           cs == Refetched(Without(calls, c), ca, BucketsKey)
           on == IF BucketsKey \in Watched(ca) THEN Fetching(cs, BucketsKey) ELSE 0
           d  == Following(Call(cs, "bucketTail", <<>>, c.by, 0, on), c)
<1>1. /\ calls' = cs \cup {d} /\ page' = page /\ server' = server /\ c.op = "postBucket"
  BY DEF BucketPosted, Following, Without, shell
<1>2. /\ "bucketTail" \in OwnOps /\ c.by = Sender("bucketTail") /\ 0 \in Nat
      /\ (c.mounted => page = Sender("bucketTail"))
  BY <1>1 DEF OwnOps, Sender, IInv, Legal, Proper
<1>3. page = "buckets" => BucketsKey \in Watched(ca) /\ BucketsKey \in Under(BucketsKey)
                          /\ ca[BucketsKey].has
  BY DEF Watched, Observed, Under, IsPrefix, BucketsKey, Keys, SetData, Holding, IInv, CacheInv
<1> HIDE DEF ca
<1>4. /\ Legal(cs, page)
      /\ \A e \in cs : \/ e \in Without(calls, c) /\ ~Replaced(e, ca, BucketsKey)
                       \/ e.op = "query" /\ e.by = page /\ e.reply = NoReply
  BY RestRefetched
<1> HIDE DEF cs
<1>5. Legal(cs \cup {d}, page) /\ d.op = "bucketTail" /\ d.reply = NoReply
  <2>1. on \in Nat /\ Legal(cs, page) /\ c \in CallType
    BY <1>4, TailAwaits DEF IInv, Legal
  <2> HIDE DEF on
  <2>2. d = Following(Call(cs, "bucketTail", <<>>, Sender("bucketTail"), 0, on), c)
    BY <1>2
  <2> HIDE DEF d
  <2>3. Follows(d, c, cs, page, "bucketTail", 0, on)
    BY <1>2, <2>1, <2>2 DEF Follows
  <2>4. QED
    BY ONLY <2>3, LegalFollow
<1> HIDE DEF on, d
<1>6. KeptOrBegun(cs \cup {d}, calls, page)
  BY <1>4, <1>5, KeptSelf DEF KeptOrBegun, Begun, Started, Deletes, Without
<1>7. \A e \in cs \cup {d} : e.op = "query" /\ e.key = BucketsKey /\ page = "buckets" =>
          e.by = "buckets" /\ e.reply = NoReply
  <2> SUFFICES ASSUME NEW e \in cs \cup {d}, e.op = "query", e.key = BucketsKey,
                      page = "buckets"
               PROVE  e.by = "buckets" /\ e.reply = NoReply
    OBVIOUS
  <2>1. e \in cs
    BY <1>5
  <2>2. Replaced(e, ca, BucketsKey)
    BY <1>3 DEF Replaced
  <2>3. QED
    BY <1>4, <2>1, <2>2
<1>8. QED
  BY <1>1, <1>5, <1>6, <1>7 DEF Quiet

(* What a page that shows the cache leaves of the calls. *)
LEMMA LeftKept ==
    ASSUME NEW cs, NEW p, Legal(cs, p), NEW q, NEW left,
           left = {[c EXCEPT !.mounted = FALSE] : c \in cs}
    PROVE  /\ Legal(left, q)
           /\ \A d \in left : ~d.mounted /\ \E c \in cs : Kept(d, c)
<1>1. /\ Legal(left, q)
      /\ \A d \in left : ~d.mounted /\ \E c \in cs : d = [c EXCEPT !.mounted = FALSE]
  BY LegalLeft
<1>2. ASSUME NEW d \in left
      PROVE  \E c \in cs : Kept(d, c)
  <2>1. PICK c \in cs : d = [c EXCEPT !.mounted = FALSE]
    BY <1>1
  <2>2. c \in CallType
    BY DEF Legal
  <2>3. QED
    BY <2>1, <2>2 DEF CallType, Kept
<1>3. QED
  BY <1>1, <1>2

LEMMA ShownQuiet ==
    ASSUME NEW ca, NEW cs, Legal(cs, page), \A d \in cs : \E c \in calls : Kept(d, c),
           Shown(ca, cs), server' = server
    PROVE  Quiet
<1>1. CASE Crashes(page, ca)
  <2> DEFINE left == {[c EXCEPT !.mounted = FALSE] : c \in cs}
  <2>1. calls' = left /\ page' = "crashed"
    BY <1>1 DEF Shown
  <2>2. /\ Legal(left, "crashed")
        /\ \A d \in left : ~d.mounted /\ \E c \in cs : Kept(d, c)
    BY LeftKept
  <2> HIDE DEF left
  <2>3. \A d \in left : \E c \in calls : Kept(d, c)
    BY <2>2 DEF Kept
  <2>4. QED
    BY <2>1, <2>2, <2>3 DEF Quiet, KeptOrBegun
<1>2. CASE ~Crashes(page, ca)
  BY <1>2 DEF Shown, Quiet, KeptOrBegun
<1>3. QED
  BY <1>1, <1>2

LEMMA FetchedQuiet ==
    ASSUME IInv, NEW c \in calls, Fetched(c)
    PROVE  Quiet
<1> DEFINE again == [c EXCEPT !.tries = @ - 1, !.reply = NoReply]
<1>1. Legal(calls, page) /\ c \in CallType /\ server' = server /\ c.op = "query"
  BY DEF IInv, Legal, Fetched
<1>2. \/ \E ca : Shown(ca, calls \ {c})
      \/ c.tries > 0 /\ \E ca : Shown(ca, (calls \ {c}) \cup {again})
  BY DEF Fetched
<1>3. ASSUME NEW ca, Shown(ca, calls \ {c})
      PROVE  Quiet
  <2> DEFINE cs == calls \ {c}
  <2>1. Legal(cs, page)
    BY <1>1, LegalSubset
  <2>2. \A d \in cs : \E e \in calls : Kept(d, e)
    BY KeptSelf
  <2>3. Shown(ca, cs)
    BY <1>3
  <2> HIDE DEF cs
  <2>4. QED
    BY <1>1, <2>1, <2>2, <2>3, ShownQuiet
<1>4. ASSUME NEW ca, c.tries > 0, Shown(ca, (calls \ {c}) \cup {again})
      PROVE  Quiet
  <2> DEFINE cs == (calls \ {c}) \cup {again}
  <2>1. /\ again \in CallType /\ again.id = c.id /\ again.op = c.op /\ again.key = c.key
        /\ again.by = c.by /\ (again.mounted <=> c.mounted) /\ again.reply = NoReply
    BY <1>1, <1>4, CallRetried
  <2> HIDE DEF again
  <2>2. Legal(cs, page)
    BY <1>1, <2>1, LegalReplace
  <2>3. \A d \in cs : \E e \in calls : Kept(d, e)
    BY <1>1, <2>1, KeptSelf DEF Kept
  <2>4. Shown(ca, cs)
    BY <1>4
  <2> HIDE DEF cs
  <2>5. QED
    BY <1>1, <2>2, <2>3, <2>4, ShownQuiet
<1>5. QED
  BY <1>2, <1>3, <1>4

(* What a page sends when it is mounted: its missing queries, and the      *)
(* request of its effect.                                                  *)
LEMMA WithEffect ==
    ASSUME NEW cs, NEW p \in Pages, Legal(cs, p), NEW keys, keys \subseteq Keys,
           IsFiniteSet(keys), NEW sent, sent = Fetches(cs, keys, p),
           NEW new, new = sent \cup {Call(sent, op, <<>>, p, 0, 0) : op \in Effect(p)}
    PROVE  /\ Legal(new, p)
           /\ \A d \in new \ cs : Begun(d, p) /\ d.op \notin Awaits
<1>1. Legal(sent, p) /\ \A d \in sent \ cs : d.op = "query" /\ d.by = p /\ d.reply = NoReply
  BY FetchesLegal
<1>2. \A d \in sent \ cs : Begun(d, p) /\ d.op \notin Awaits
  BY <1>1 DEF Begun, Started, Deletes, Awaits
<1>3. CASE Effect(p) = {}
  BY <1>1, <1>2, <1>3
<1>4. ASSUME NEW op \in OwnOps \ (Deletes \cup Awaits \cup {"postFunds"}),
             Effect(p) = {op}, p = Sender(op)
      PROVE  /\ Legal(new, p)
             /\ \A d \in new \ cs : Begun(d, p) /\ d.op \notin Awaits
  <2> DEFINE d == Call(sent, op, <<>>, p, 0, 0)
  <2>1. new = sent \cup {d}
    BY <1>4
  <2>2. Legal(sent \cup {d}, p) /\ d.op = op /\ d.reply = NoReply
    BY ONLY <1>1, <1>4, op \in OwnOps, 0 \in Nat, LegalAdd
  <2> HIDE DEF d
  <2>3. Begun(d, p) /\ d.op \notin Awaits
    BY <1>4, <2>2 DEF Begun, Started, OwnOps
  <2>4. QED
    BY <1>2, <2>1, <2>2, <2>3
<1>5. \/ Effect(p) = {}
      \/ p = "billing" /\ Effect(p) = {"getBilling"}
      \/ p = "branding" /\ Effect(p) = {"getBranding"}
  BY DEF Effect
<1>6. \A op \in {"getBilling", "getBranding"} :
         op \in OwnOps \ (Deletes \cup Awaits \cup {"postFunds"})
  BY DEF OwnOps, Deletes, Awaits
<1>7. Sender("getBilling") = "billing" /\ Sender("getBranding") = "branding"
  BY DEF Sender
<1>8. QED
  BY <1>3, <1>4, <1>5, <1>6, <1>7

LEMMA MountQuiet ==
    ASSUME IInv, NEW p \in Pages, NEW i, MovesTo(p, i), server' = server
    PROVE  /\ Quiet
           /\ \A d \in calls' : d.op \in Deletes => ~d.mounted
<1>1. PICK cs \in SUBSET calls : Mount(cs, p, i, Fresh(p, i), Effect(p))
  BY DEF MovesTo
<1>2. Legal(cs, page) /\ cs \subseteq calls
  BY LegalSubset DEF IInv
<1> DEFINE left == {[c EXCEPT !.mounted = FALSE] : c \in cs}
<1>3. PICK ca :
        LET first == {k \in Observed(p, i, ca) : ~ca[k].has \/ ca[k].stale}
            sent == Fetches(left, first, p)
        IN  /\ page' = IF Crashes(p, ca) THEN "crashed" ELSE p
            /\ calls' = IF Crashes(p, ca) THEN left
                        ELSE sent \cup {Call(sent, op, <<>>, p, 0, 0) : op \in Effect(p)}
  BY <1>1 DEF Mount
<1>4. \A q : Legal(left, q)
  BY <1>2, LeftKept
<1>5. \A d \in left : ~d.mounted /\ \E c \in calls : Kept(d, c)
  BY <1>2, LeftKept
<1> HIDE DEF left
<1>6. CASE Crashes(p, ca)
  BY <1>3, <1>4, <1>5, <1>6 DEF Quiet, KeptOrBegun
<1>7. CASE ~Crashes(p, ca)
  <2> DEFINE first == {k \in Observed(p, i, ca) : ~ca[k].has \/ ca[k].stale}
             sent == Fetches(left, first, p)
             new == sent \cup {Call(sent, op, <<>>, p, 0, 0) : op \in Effect(p)}
  <2>1. page' = p /\ calls' = new
    BY <1>3, <1>7
  <2>2. first \subseteq Keys /\ IsFiniteSet(first)
    <3>1. Observed(p, i, ca) \subseteq Keys /\ IsFiniteSet(Observed(p, i, ca))
      BY ObservedKeys
    <3>2. QED
      BY <3>1, FS_Subset
  <2>3. sent = Fetches(left, first, p) /\ new = sent \cup {Call(sent, op, <<>>, p, 0, 0) : op \in Effect(p)}
    OBVIOUS
  <2> HIDE DEF first, sent, new
  <2>4. Legal(new, p) /\ \A d \in new \ left : Begun(d, p) /\ d.op \notin Awaits
    BY <1>4, <2>2, <2>3, WithEffect
  <2>5. \A d \in new : d.op \in Deletes => ~d.mounted
    BY <1>5, <2>4 DEF Begun, Started
  <2>6. KeptOrBegun(new, calls, p)
    BY <1>5, <2>4 DEF KeptOrBegun
  <2>7. QED
    BY <2>1, <2>4, <2>5, <2>6 DEF Quiet
<1>8. QED
  BY <1>6, <1>7

LEMMA FirstCallsLegal ==
    ASSUME NEW p \in Pages, NEW i
    PROVE  Legal(FirstCalls(p, i), p) /\ \A d \in FirstCalls(p, i) : Begun(d, p)
<1> DEFINE keys == Observed(p, i, EmptyCache)
           sent == Fetches({}, keys, p)
           new == sent \cup {Call(sent, op, <<>>, p, 0, 0) : op \in Effect(p)}
<1>1. FirstCalls(p, i) = new
  BY DEF FirstCalls
<1>2. keys \subseteq Keys /\ IsFiniteSet(keys) /\ Legal({}, p)
  BY ObservedKeys, LegalEmpty
<1>3. sent = Fetches({}, keys, p) /\ new = sent \cup {Call(sent, op, <<>>, p, 0, 0) : op \in Effect(p)}
  OBVIOUS
<1> HIDE DEF keys, sent, new
<1>4. Legal(new, p) /\ \A d \in new \ {} : Begun(d, p)
  BY <1>2, <1>3, WithEffect
<1>5. QED
  BY <1>1, <1>4

LEMMA LoadQuiet ==
    ASSUME NEW p \in Pages, NEW i, Load(p, i)
    PROVE  Quiet /\ \A d \in calls' : d.op \notin Deletes
BY FirstCallsLegal DEF Load, Quiet, KeptOrBegun, Begun, Started

-----------------------------------------------------------------------------
(* The steps that are not quiet. *)

LEMMA DeletionCalm ==
    ASSUME IInv, handleDeleteVideo
    PROVE  Calm /\ \E d : calls' = calls \cup {d} /\ d.op = "deleteVideo"
<1> DEFINE d == Call(calls, "deleteVideo", <<>>, page, local.id, 0)
<1>1. calls' = calls \cup {d} /\ page' = page /\ server' = server /\ page = "video"
  BY DEF handleDeleteVideo, On, Send, shell
<1>2. /\ Legal(calls, page) /\ "deleteVideo" \in OwnOps /\ page = Sender("deleteVideo")
      /\ local.id \in Nat /\ 0 \in Nat
  BY <1>1 DEF IInv, OwnOps, Sender, LocalInv, LocalType, VideoLocal
<1>3. Legal(calls \cup {d}, page) /\ d.op = "deleteVideo" /\ d.reply = NoReply
  BY <1>2, LegalAdd
<1> HIDE DEF d
<1>4. KeptOrStarted(calls \cup {d}, calls, page)
  BY <1>3, KeptSelf DEF KeptOrStarted, Started
<1>5. QED
  BY <1>1, <1>3, <1>4 DEF Calm

LEMMA VideoDeletedCalm ==
    ASSUME IInv, NEW c \in calls, VideoDeleted(c)
    PROVE  /\ Calm /\ page' = page
           /\ \E d : /\ d \in calls' /\ d.op = "deleteTail" /\ (d.mounted <=> c.mounted)
                     /\ \A e \in calls' \ {d} : e \in calls \ {c} \/ Begun(e, page)
<1> DEFINE cs == Refetched(Without(calls, c), cache, VideosKey)
           arg == c.arg
           on == IF VideosKey \in Watched(cache) THEN Fetching(cs, VideosKey) ELSE 0
           d  == Following(Call(cs, "deleteTail", <<>>, c.by, arg, on), c)
<1>1. /\ calls' = cs \cup {d} /\ page' = page /\ server' = server /\ c.op = "deleteVideo"
  BY DEF VideoDeleted, Following, Without, shell
<1>2. /\ "deleteTail" \in OwnOps /\ c.by = Sender("deleteTail") /\ arg \in Nat
      /\ (c.mounted => page = Sender("deleteTail"))
  BY <1>1 DEF OwnOps, Sender, IInv, Legal, Proper, CallType
<1>3. /\ Legal(cs, page)
      /\ \A e \in cs : \/ e \in Without(calls, c)
                       \/ e.op = "query" /\ e.by = page /\ e.reply = NoReply
  BY RestRefetched
<1> HIDE DEF cs
<1>4. d.mounted <=> c.mounted
  BY DEF Following, Call, CallAs
<1>5. Legal(cs \cup {d}, page) /\ d.op = "deleteTail" /\ d.reply = NoReply
  <2>1. on \in Nat /\ Legal(cs, page) /\ c \in CallType
    BY <1>3, TailAwaits DEF IInv, Legal
  <2> HIDE DEF on, arg
  <2>2. d = Following(Call(cs, "deleteTail", <<>>, Sender("deleteTail"), arg, on), c)
    BY <1>2
  <2> HIDE DEF d
  <2>3. Follows(d, c, cs, page, "deleteTail", arg, on)
    BY <1>2, <2>1, <2>2 DEF Follows
  <2>4. QED
    BY ONLY <2>3, LegalFollow
<1> HIDE DEF on, arg, d
<1>6. KeptOrStarted(cs \cup {d}, calls, page)
  BY <1>3, <1>5, KeptSelf DEF KeptOrStarted, Started, Without
<1>7. \A e \in (cs \cup {d}) \ {d} : e \in calls \ {c} \/ Begun(e, page)
  BY <1>3 DEF Begun, Started, Deletes, Without
<1>8. QED
  BY <1>1, <1>4, <1>5, <1>6, <1>7 DEF Calm

(* A payment begins with a click. *)
LEMMA TopUpState ==
    ASSUME IInv, handleTopUp
    PROVE  /\ Legal(calls', page') /\ ServerInv' /\ RepliesInv' /\ PaymentsInv'
           /\ \E d : calls' = calls \cup {d} /\ d.op = "postFunds"
<1> DEFINE d == Call(calls, "postFunds", <<>>, page, 0, 0)
<1>1. /\ calls' = calls \cup {d} /\ page' = page /\ server' = server /\ page = "billing"
      /\ clicks' = clicks + 1
  BY DEF handleTopUp, On, Send, shell, Click
<1>2. Legal(calls, page) /\ "postFunds" \in OwnOps /\ page = Sender("postFunds") /\ 0 \in Nat
  BY <1>1 DEF IInv, OwnOps, Sender
<1>3. Legal(calls \cup {d}, page) /\ d.op = "postFunds" /\ d.reply = NoReply
  BY <1>2, LegalAdd
<1> HIDE DEF d
<1>4. RepliesInv'
  <2>1. server.balance \in Nat
    BY DEF IInv, ServerInv, Account
  <2>2. Honest(NoReply, d)'
    BY <1>1, <1>3, <2>1, NoReplyType DEF Honest
  <2>3. \A c \in calls : Honest(c.reply, c)'
    BY <1>1 DEF IInv, RepliesInv, Honest
  <2>4. QED
    BY <1>1, <1>3, <2>2, <2>3 DEF RepliesInv, Honest
<1>5. PaymentsInv'
  <2>1. Unpaid(calls \cup {d}) = Unpaid(calls) \cup {d.id}
    BY <1>3 DEF Unpaid
  <2>2. IsFiniteSet(Unpaid(calls)) /\ Cardinality(Unpaid(calls)) \in Nat
    BY UnpaidFinite DEF IInv, Legal
  <2>3. Cardinality(Unpaid(calls) \cup {d.id}) \in {Cardinality(Unpaid(calls)), Cardinality(Unpaid(calls)) + 1}
    BY <2>2, FS_AddElement
  <2>4. /\ Cardinality(Unpaid(calls)) + server.balance <= clicks
        /\ server.balance \in Nat /\ clicks \in Nat
    BY DEF IInv, PaymentsInv, ServerInv, Account, ShellInv
  <2>5. \/ Cardinality(Unpaid(calls \cup {d})) = Cardinality(Unpaid(calls))
        \/ Cardinality(Unpaid(calls \cup {d})) = Cardinality(Unpaid(calls)) + 1
    BY <2>1, <2>3
  <2>6. Cardinality(Unpaid(calls \cup {d})) + server.balance <= clicks + 1
    BY <2>2, <2>4, <2>5
  <2>7. QED
    BY <1>1, <2>6 DEF PaymentsInv, Unpaid
<1>6. QED
  BY <1>1, <1>3, <1>4, <1>5 DEF IInv, ServerInv

(* An answer: the account may have grown, and the answer is what it has.   *)
Answered(c, r) ==
    /\ Served(c, r) /\ r \in ReplyType /\ r # NoReply /\ r.busy \subseteq r.rows
    /\ r.n <= server'.balance
    /\ c.op = "postBucket" => r.rows \subseteq server'.buckets
    /\ c.op = "query" /\ c.key = BucketsKey /\ r.status = 200 => r.rows = server.buckets
    /\ ServerInv' /\ server.buckets \subseteq server'.buckets
    /\ \/ server'.balance = server.balance
       \/ server'.balance = server.balance + 1 /\ c.op = "postFunds"

LEMMA ListType ==
    ASSUME ServerInv, NEW key \in Keys
    PROVE  /\ ListOf(key) \in ReplyType /\ ListOf(key).busy \subseteq ListOf(key).rows
           /\ ListOf(key).status = 200 /\ ListOf(key).n = 0
           /\ key = BucketsKey => ListOf(key).rows = server.buckets
<1>1. /\ server.keys \subseteq Rows /\ server.buckets \subseteq Rows
      /\ server.videos \subseteq Rows /\ server.busy \subseteq server.videos
      /\ Objects \subseteq Rows
  BY BrowserAssumption DEF ServerInv, Account
<1>2. /\ KeysKey # BucketsKey /\ KeysKey # VideosKey /\ KeysKey # PollingKey
      /\ BucketsKey # VideosKey /\ BucketsKey # PollingKey
  BY DEF BucketsKey, KeysKey, VideosKey, PollingKey
<1>3. ASSUME NEW rows \in SUBSET Rows, NEW busy \in SUBSET Rows, busy \subseteq rows,
             key = BucketsKey => rows = server.buckets, ListOf(key) = Ok(rows, busy, 0)
      PROVE  /\ ListOf(key) \in ReplyType /\ ListOf(key).busy \subseteq ListOf(key).rows
             /\ ListOf(key).status = 200 /\ ListOf(key).n = 0
             /\ key = BucketsKey => ListOf(key).rows = server.buckets
  <2> DEFINE r == Ok(rows, busy, 0)
  <2>1. r \in ReplyType /\ r.rows = rows /\ r.busy = busy /\ r.status = 200 /\ r.n = 0
    BY DEF Ok, ReplyType
  <2>2. ListOf(key) = r
    BY <1>3
  <2> HIDE DEF r
  <2>3. QED
    BY <1>3, <2>1, <2>2
<1>4. CASE key = KeysKey
  <2>1. ListOf(key) = Ok(server.keys, {}, 0)
    BY <1>2, <1>4 DEF ListOf
  <2>2. key # BucketsKey /\ server.keys \in SUBSET Rows /\ {} \in SUBSET Rows
        /\ {} \subseteq server.keys
    BY <1>1, <1>2, <1>4
  <2>3. QED
    BY ONLY <1>3, <2>1, <2>2
<1>5. CASE key = BucketsKey
  <2>1. ListOf(key) = Ok(server.buckets, {}, 0)
    BY <1>2, <1>5 DEF ListOf
  <2>2. server.buckets \in SUBSET Rows /\ {} \in SUBSET Rows /\ {} \subseteq server.buckets
    BY <1>1
  <2>3. QED
    BY ONLY <1>3, <2>1, <2>2
<1>6. CASE key # KeysKey /\ key # BucketsKey /\ key \in {VideosKey, PollingKey}
  <2>1. ListOf(key) = Ok(server.videos, server.busy, 0)
    BY <1>6 DEF ListOf
  <2>2. server.videos \in SUBSET Rows /\ server.busy \in SUBSET Rows
        /\ server.busy \subseteq server.videos
    BY <1>1
  <2>3. QED
    BY ONLY <1>3, <1>6, <2>1, <2>2
<1>7. CASE key # KeysKey /\ key # BucketsKey /\ key \notin {VideosKey, PollingKey}
  <2>1. ListOf(key) = Ok(Objects, {}, 0)
    BY <1>7 DEF ListOf
  <2>2. Objects \in SUBSET Rows /\ {} \in SUBSET Rows /\ {} \subseteq Objects
    BY <1>1
  <2>3. QED
    BY ONLY <1>3, <1>7, <2>1, <2>2
<1>8. QED
  BY <1>4, <1>5, <1>6, <1>7

LEMMA ServeKinds ==
    ASSUME IInv, NEW c \in calls, Serve(c)
    PROVE  \E r : Answered(c, r)
<1> USE DEF Answered
<1>1. /\ ServerInv /\ server.balance \in Nat /\ server.keys \subseteq Rows
      /\ server.buckets \subseteq Rows /\ server.videos \subseteq Rows
      /\ server.busy \subseteq server.videos
  BY DEF IInv, ServerInv, Account
<1>2. \A r : r.status # 0 => r # NoReply
  BY NoReplyType
<1>3. CASE \E status \in Refusals(c) : /\ Served(c, [NoReply EXCEPT !.status = status])
                                      /\ UNCHANGED server
  <2>1. PICK status \in Refusals(c) : /\ Served(c, [NoReply EXCEPT !.status = status])
                                      /\ UNCHANGED server
    BY <1>3
  <2> DEFINE r == [NoReply EXCEPT !.status = status]
  <2>2. status \in Nat /\ status # 0 /\ status # 200
    BY DEF Refusals
  <2>3. r \in ReplyType /\ r.status = status /\ r.rows = {} /\ r.busy = {} /\ r.n = 0
    BY <2>2 DEF NoReply, ReplyType
  <2>4. Served(c, r) /\ server' = server
    BY <2>1
  <2> HIDE DEF r
  <2>5. Answered(c, r)
    BY <1>1, <1>2, <2>2, <2>3, <2>4 DEF ServerInv
  <2>6. QED
    BY <2>5
<1>4. CASE c.op = "postBucket" /\ CreateBucket(c)
  <2>1. PICK new \in Rows \ server.buckets :
            /\ server' = [server EXCEPT !.buckets = @ \cup {new}]
            /\ Served(c, Ok({new}, {}, 0))
    BY <1>4 DEF CreateBucket
  <2> DEFINE r == Ok({new}, {}, 0)
  <2>2. r \in ReplyType /\ r.status = 200 /\ r.rows = {new} /\ r.busy = {} /\ r.n = 0
    BY DEF Ok, ReplyType
  <2>3. /\ ServerInv' /\ server'.buckets = server.buckets \cup {new}
        /\ server'.balance = server.balance
    BY <1>1, <2>1 DEF ServerInv, Account
  <2>4. Served(c, r)
    BY <2>1
  <2> HIDE DEF r
  <2>5. Answered(c, r)
    BY <1>1, <1>2, <1>4, <2>2, <2>3, <2>4
  <2>6. QED
    BY <2>5
<1>5. CASE c.op = "deleteVideo" /\ DeleteVideo(c)
  <2> DEFINE r == Ok({}, {}, 0)
  <2>1. r \in ReplyType /\ r.status = 200 /\ r.rows = {} /\ r.busy = {} /\ r.n = 0
    BY DEF Ok, ReplyType
  <2>2. /\ ServerInv' /\ server'.buckets = server.buckets /\ server'.balance = server.balance
    BY <1>1, <1>5 DEF DeleteVideo, ServerInv, Account
  <2>3. Served(c, r)
    BY <1>5 DEF DeleteVideo
  <2> HIDE DEF r
  <2>4. Answered(c, r)
    BY <1>1, <1>2, <1>5, <2>1, <2>2, <2>3
  <2>5. QED
    BY <2>4
<1>6. CASE c.op = "postFunds" /\ AddFunds(c)
  <2> DEFINE n == server.balance + 1
             r == Ok({}, {}, n)
  <2>1. n \in Nat
    BY <1>1
  <2>2. Served(c, r) /\ server' = [server EXCEPT !.balance = n]
    BY <1>6 DEF AddFunds
  <2>3. n = server.balance + 1
    OBVIOUS
  <2> HIDE DEF n
  <2>4. r \in ReplyType /\ r.status = 200 /\ r.rows = {} /\ r.busy = {} /\ r.n = n
    BY <2>1 DEF Ok, ReplyType
  <2>5. ServerInv' /\ server'.buckets = server.buckets /\ server'.balance = n
    BY <1>1, <2>1, <2>2 DEF ServerInv, Account
  <2> HIDE DEF r
  <2>6. Answered(c, r)
    BY <1>1, <1>2, <1>6, <2>1, <2>2, <2>3, <2>4, <2>5
  <2>7. QED
    BY <2>6
<1>7. CASE c.op # "postBucket" /\ Read(c)
  <2>1. server' = server
    BY <1>7 DEF Read
  <2>2. CASE c.op = "query"
    <3>1. c.key \in Keys
      BY <2>2 DEF IInv, Legal, Proper
    <3>2. Served(c, ListOf(c.key))
      BY <1>7, <2>2 DEF Read
    <3>3. /\ ListOf(c.key) \in ReplyType /\ ListOf(c.key).busy \subseteq ListOf(c.key).rows
          /\ ListOf(c.key).status = 200 /\ ListOf(c.key).n = 0
          /\ c.key = BucketsKey => ListOf(c.key).rows = server.buckets
      BY <1>1, <3>1, ListType
    <3>4. Answered(c, ListOf(c.key))
      BY <1>1, <1>2, <2>1, <2>2, <3>2, <3>3 DEF ServerInv
    <3>5. QED
      BY <3>4
  <2>3. CASE c.op # "query"
    <3>a. PICK n \in 0..server.balance : Served(c, Ok({}, {}, n))
      <4>1. 0 \in 0..server.balance
        BY <1>1
      <4>2. QED
        BY <1>7, <2>3, <4>1 DEF Read
    <3> DEFINE r == Ok({}, {}, n)
    <3>1. Served(c, r)
      BY <3>a
    <3>2. /\ r \in ReplyType /\ r.status = 200 /\ r.rows = {} /\ r.busy = {}
          /\ r.n <= server.balance
      BY <1>1 DEF Ok, ReplyType
    <3> HIDE DEF r
    <3>3. Answered(c, r)
      BY <1>1, <1>2, <1>7, <2>1, <2>3, <3>1, <3>2 DEF ServerInv
    <3>4. QED
      BY <3>3
  <2>4. QED
    BY <2>2, <2>3
<1>8. QED
  <2>1. Refuse(c) => \E status \in Refusals(c) : /\ Served(c, [NoReply EXCEPT !.status = status])
                                                /\ UNCHANGED server
    BY DEF Refuse
  <2>2. \/ c.op = "postBucket" /\ CreateBucket(c)
        \/ c.op = "deleteVideo" /\ DeleteVideo(c)
        \/ c.op = "postFunds" /\ AddFunds(c)
        \/ c.op # "postBucket" /\ Read(c)
        \/ Refuse(c)
    BY DEF Serve
  <2>3. QED
    BY <1>3, <1>4, <1>5, <1>6, <1>7, <2>1, <2>2

LEMMA AnsweredState ==
    ASSUME IInv, NEW c \in calls, c.reply = NoReply, NEW r, Answered(c, r),
           page' = page, clicks' = clicks
    PROVE  Legal(calls', page') /\ ServerInv' /\ RepliesInv' /\ PaymentsInv'
<1> DEFINE d == [c EXCEPT !.reply = r]
<1>1. c \in CallType /\ r \in ReplyType /\ calls' = (calls \ {c}) \cup {d} /\ r # NoReply
  BY DEF IInv, Legal, Answered, Served
<1>2. /\ d \in CallType /\ d.id = c.id /\ d.op = c.op /\ d.key = c.key
      /\ d.by = c.by /\ (d.mounted <=> c.mounted) /\ d.reply = r
  BY <1>1 DEF CallType
<1> HIDE DEF d
<1>3. Legal(calls', page')
  BY <1>1, <1>2, LegalReplace DEF IInv
<1>4. /\ server.balance \in Nat /\ server'.balance \in Nat /\ server.balance <= server'.balance
      /\ server.buckets \subseteq server'.buckets
  BY DEF IInv, ServerInv, Account, Answered
<1>5. RepliesInv'
  <2>1. Honest(d.reply, d)'
    BY <1>2 DEF Answered, Honest
  <2>2. ASSUME NEW e \in calls
        PROVE  Honest(e.reply, e)'
    <3>1. Honest(e.reply, e) /\ e.reply.n \in Nat
      BY DEF IInv, RepliesInv, Legal, CallType, ReplyType
    <3>2. e.reply.busy \subseteq e.reply.rows /\ e.reply.n <= server.balance
          /\ (e.op = "postBucket" => e.reply.rows \subseteq server.buckets)
      BY <3>1 DEF Honest
    <3>3. e.reply.n <= server'.balance
      BY <1>4, <3>1, <3>2
    <3>4. e.op = "postBucket" => e.reply.rows \subseteq server'.buckets
      BY <1>4, <3>2
    <3>5. QED
      BY <3>2, <3>3, <3>4 DEF Honest
  <2>3. QED
    BY <1>1, <2>1, <2>2 DEF RepliesInv, Honest
<1>6. Unpaid(calls') = IF c.op = "postFunds" THEN Unpaid(calls) \ {c.id} ELSE Unpaid(calls)
  <2>1. \A e \in calls : e.id = c.id => e = c
    BY DEF IInv, Legal
  <2>2. QED
    BY <1>1, <1>2, <2>1 DEF Unpaid
<1>7. PaymentsInv'
  <2>1. IsFiniteSet(Unpaid(calls)) /\ Cardinality(Unpaid(calls)) \in Nat
    BY UnpaidFinite DEF IInv, Legal
  <2>2. /\ Cardinality(Unpaid(calls)) + server.balance <= clicks /\ clicks \in Nat
    BY DEF IInv, PaymentsInv, ShellInv
  <2>3. CASE c.op = "postFunds"
    <3>1. c.id \in Unpaid(calls)
      BY <2>3 DEF Unpaid
    <3>2. Cardinality(Unpaid(calls')) = Cardinality(Unpaid(calls)) - 1
      BY <1>6, <2>1, <2>3, <3>1, FS_RemoveElement
    <3>3. server'.balance \in {server.balance, server.balance + 1}
      BY DEF Answered
    <3>4. Cardinality(Unpaid(calls')) + server'.balance <= clicks'
      BY <1>4, <2>1, <2>2, <3>2, <3>3
    <3>5. QED
      BY <3>4 DEF PaymentsInv, Unpaid
  <2>4. CASE c.op # "postFunds"
    <3>1. Unpaid(calls') = Unpaid(calls) /\ server'.balance = server.balance
      BY <1>6, <2>4 DEF Answered
    <3>2. QED
      BY <2>2, <3>1 DEF PaymentsInv, Unpaid
  <2>5. QED
    BY <2>3, <2>4
<1>8. QED
  BY <1>3, <1>5, <1>7 DEF Answered

(* What the API has is never less than what was known of it. *)
LEMMA StateStep ==
    ASSUME IInv, [Next]_vars
    PROVE  Legal(calls', page') /\ ServerInv' /\ RepliesInv' /\ PaymentsInv'
<1> DEFINE Goal == Legal(calls', page') /\ ServerInv' /\ RepliesInv' /\ PaymentsInv'
<1>1. clicks' \in Nat /\ clicks <= clicks' /\ ShellInv /\ CacheInv /\ LocalInv
  BY ShellStep DEF IInv
<1>2. ASSUME Calm PROVE Goal
  BY <1>1, <1>2, CalmStep DEF Calm
<1>3. ASSUME Quiet PROVE Goal
  BY <1>2, <1>3, QuietIsCalm
<1>4. CASE Inputs
  BY <1>3, <1>4, InputKinds, EndsQuiet
<1>5. CASE Sendings
  BY <1>3, <1>5, SendingKinds, SendsQuiet
<1>6. CASE Refetches
  BY <1>3, <1>6, RefetchesQuiet
<1>7. CASE Moves
  <2>1. server' = server /\ (Stays \/ \E p \in Pages, i \in Nat : MovesTo(p, i))
    BY <1>1, <1>7, MoveKinds
  <2>2. CASE Stays
    BY <1>3, <2>1, <2>2, EndsQuiet DEF Stays
  <2>3. CASE \E p \in Pages, i \in Nat : MovesTo(p, i)
    BY <1>3, <2>1, <2>3, MountQuiet
  <2>4. QED
    BY <2>1, <2>2, <2>3
<1>8. CASE Loads
  BY <1>1, <1>3, <1>8, LoadKinds, LoadQuiet
<1>9. CASE handleTopUp
  BY <1>9, TopUpState
<1>10. CASE handleDeleteVideo
  BY <1>2, <1>10, DeletionCalm
<1>11. CASE TranscodeEnds
  <2>1. /\ calls' = calls /\ page' = page /\ clicks' = clicks
        /\ server' = [server EXCEPT !.busy = {}]
    BY <1>11 DEF TranscodeEnds
  <2>2. /\ server'.balance = server.balance /\ server'.buckets = server.buckets /\ ServerInv'
    BY <2>1 DEF IInv, ServerInv, Account
  <2>3. RepliesInv'
    BY <2>1, <2>2 DEF IInv, RepliesInv, Honest
  <2>4. PaymentsInv'
    BY <2>1, <2>2 DEF IInv, PaymentsInv, Unpaid
  <2>5. QED
    BY <2>1, <2>2, <2>3, <2>4 DEF IInv
<1>12. ASSUME NEW c \in calls,
              \/ Endings(c) \/ SubscriptionLoaded(c) \/ AssetPosted(c)
              \/ BucketPosted(c) \/ VideoDeleted(c) \/ Fetched(c) \/ Serve(c)
       PROVE  Goal
  <2>1. CASE Endings(c)
    BY <1>3, <2>1, EndingKinds, EndsQuiet
  <2>2. CASE SubscriptionLoaded(c) \/ AssetPosted(c)
    BY <1>3, <2>2, FollowUpsQuiet
  <2>3. CASE BucketPosted(c)
    BY <1>3, <2>3, BucketPostedCalls
  <2>4. CASE VideoDeleted(c)
    BY <1>2, <2>4, VideoDeletedCalm
  <2>5. CASE Fetched(c)
    BY <1>3, <2>5, FetchedQuiet
  <2>6. CASE Serve(c)
    <3>1. PICK r : Answered(c, r)
      BY <2>6, ServeKinds
    <3>2. c.reply = NoReply /\ page' = page /\ clicks' = clicks
      BY <2>6 DEF Serve
    <3>3. QED
      BY <3>1, <3>2, AnsweredState
  <2>7. QED
    BY <1>12, <2>1, <2>2, <2>3, <2>4, <2>5, <2>6
<1>13. QED
  BY <1>4, <1>5, <1>6, <1>7, <1>8, <1>9, <1>10, <1>11, <1>12, NextKinds

LEMMA PaletteStep ==
    ASSUME PaletteInv, [Next]_vars
    PROVE  PaletteInv'
<1> USE DEF PaletteInv
<1>1. ASSUME UNCHANGED palette
      PROVE  PaletteInv'
  BY <1>1, Zenon
<1>2. CASE Inputs
  <2>1. CASE \/ KeysInput \/ BucketsInput \/ BucketInput \/ VideosInput \/ VideoInput
             \/ ConvertInput \/ BillingInput \/ TeamInput
    BY <1>1, <2>1 DEF KeysInput, BucketsInput, BucketInput, VideosInput, VideoInput,
                      ConvertInput, BillingInput, TeamInput, shell
  <2>2. CASE \/ handleCreate \/ handleSaveName \/ handleFileSelected \/ handleCreateJob
             \/ handleDeleteAccount \/ handleInvite
             \/ \E i \in Rows : handleRevoke(i) \/ togglePrefix(i)
             \/ \E type \in {"all"} \cup actionTypes : setFilter(type)
    BY <1>1, <2>2 DEF handleCreate, handleSaveName, handleFileSelected, handleCreateJob,
                handleDeleteAccount, handleInvite, handleRevoke, togglePrefix, setFilter, shell
  <2>3. CASE OpenPalette \/ TogglePalette
    BY <2>3 DEF OpenPalette, TogglePalette
  <2>4. CASE \/ \E id \in Closable : CloseToast(id)
             \/ \E id \in timers : ToastTimer(id)
             \/ UNCHANGED vars
    BY <1>1, <2>4 DEF CloseToast, ToastTimer, vars, shell
  <2>5. QED
    BY <1>2, <2>1, <2>2, <2>3, <2>4 DEF Inputs
<1>3. CASE Sendings
  BY <1>1, <1>3, SendingKinds
<1>4. CASE Refetches
  BY <1>1, <1>4, RefetchKinds
<1>5. CASE Moves
  <2>1. CASE Sidebar \/ HomeLink \/ OpenRow \/ handleDelete \/ \E c \in calls : DeleteTail(c)
    BY <1>1, <2>1 DEF Sidebar, HomeLink, OpenRow, handleDelete, DeleteTail
  <2>2. CASE Choose
    BY <2>2 DEF Choose
  <2>3. QED
    BY <1>5, <2>1, <2>2 DEF Moves
<1>6. CASE Loads
  BY <1>6 DEF Loads, Reload, PortalOpens, Load
<1>7. CASE handleTopUp \/ handleDeleteVideo \/ TranscodeEnds
  BY <1>1, <1>7 DEF handleTopUp, handleDeleteVideo, TranscodeEnds, shell
<1>8. ASSUME NEW c \in calls,
             \/ Endings(c) \/ SubscriptionLoaded(c) \/ AssetPosted(c)
             \/ BucketPosted(c) \/ VideoDeleted(c) \/ Fetched(c) \/ Serve(c)
      PROVE  PaletteInv'
  <2>1. UNCHANGED palette
    BY <1>8, EndingKinds
    DEF SubscriptionLoaded, AssetPosted, BucketPosted, VideoDeleted, Fetched, Serve, shell
  <2>2. QED
    BY <1>1, <2>1
<1>9. QED
  BY <1>2, <1>3, <1>4, <1>5, <1>6, <1>7, <1>8, NextKinds

-----------------------------------------------------------------------------
(* The cache: what is put into it is well formed, whoever puts it.         *)

WellKept(ca) == /\ ca \in [Keys -> Held]
                /\ \A k \in Keys : ca[k].busy \subseteq ca[k].rows

LEMMA HoldingType ==
    ASSUME NEW rows \in SUBSET Rows, NEW busy \in SUBSET Rows,
           NEW shape \in {"array", "object"}, NEW h, h = Holding(rows, busy, shape)
    PROVE  h \in Held /\ h.rows = rows /\ h.busy = busy /\ h.shape = shape
BY DEF Holding, Held

LEMMA NothingType == Nothing \in Held /\ Nothing.rows = {} /\ Nothing.busy = {} /\ ~Nothing.has
<1> DEFINE h == Holding({}, {}, "array")
<1>1. h \in Held /\ h.rows = {} /\ h.busy = {}
  BY HoldingType
<1>2. Nothing = [h EXCEPT !.has = FALSE]
  BY DEF Nothing
<1> HIDE DEF h
<1>3. QED
  BY <1>1, <1>2 DEF Held

LEMMA KeptSet ==
    ASSUME NEW ca, WellKept(ca), NEW key \in Keys, NEW h \in Held, h.busy \subseteq h.rows
    PROVE  WellKept(SetData(ca, key, h))
BY DEF WellKept, SetData

LEMMA KeptMarked ==
    ASSUME NEW ca, WellKept(ca), NEW key
    PROVE  WellKept(Marked(ca, key))
<1>1. ASSUME NEW k \in Keys
      PROVE  /\ [ca[k] EXCEPT !.stale = TRUE] \in Held
             /\ [ca[k] EXCEPT !.stale = TRUE].rows = ca[k].rows
             /\ [ca[k] EXCEPT !.stale = TRUE].busy = ca[k].busy
  <2>1. ca[k] \in Held
    BY DEF WellKept
  <2>2. QED
    BY <2>1 DEF Held
<1>2. QED
  BY <1>1 DEF WellKept, Marked

LEMMA KeptFailed ==
    ASSUME NEW ca, WellKept(ca), NEW key \in Keys
    PROVE  WellKept([ca EXCEPT ![key].failed = TRUE])
<1>1. ca[key] \in Held /\ ca \in [Keys -> Held]
  BY DEF WellKept
<1> DEFINE h == [ca[key] EXCEPT !.failed = TRUE]
<1>2. h \in Held /\ h.rows = ca[key].rows /\ h.busy = ca[key].busy
  BY <1>1 DEF Held
<1>3. [ca EXCEPT ![key].failed = TRUE] = [ca EXCEPT ![key] = h]
  OBVIOUS
<1> HIDE DEF h
<1>4. QED
  BY <1>1, <1>2, <1>3 DEF WellKept

LEMMA KeptEmpty == WellKept(EmptyCache)
BY NothingType DEF WellKept, EmptyCache

(* What a queryFn returns, as far as the cache takes it. *)
Readable(got) == /\ got.value \in Held /\ got.value.busy \subseteq got.value.rows

LEMMA FetchedType ==
    ASSUME NEW c, NEW r \in ReplyType, r.busy \subseteq r.rows
    PROVE  Readable(queryFn(c, r))
<1> DEFINE Value(shape) == Holding(r.rows, r.busy, shape)
<1>1. r.rows \in SUBSET Rows /\ r.busy \in SUBSET Rows /\ r.busy \subseteq r.rows
  BY DEF ReplyType
<1>2. ASSUME NEW rows \in SUBSET Rows, NEW busy \in SUBSET Rows, busy \subseteq rows,
             NEW shape \in {"array", "object"}, NEW told, NEW got,
             got = [value |-> Holding(rows, busy, shape), told |-> told]
      PROVE  Readable(got)
  <2> DEFINE h == Holding(rows, busy, shape)
  <2>1. h \in Held /\ h.rows = rows /\ h.busy = busy
    BY HoldingType
  <2>2. got.value = h
    BY <1>2
  <2> HIDE DEF h
  <2>3. QED
    BY <1>2, <2>1, <2>2 DEF Readable
<1>3. ASSUME NEW told, NEW got, got = [value |-> Nothing, told |-> told]
      PROVE  Readable(got)
  BY <1>3, NothingType DEF Readable
<1>4. Readable(Threw)
  BY <1>3 DEF Threw
<1>5. Readable(FetchKeys(r))
  <2>1. CASE r.status = 200
    BY <1>1, <1>2, <2>1 DEF FetchKeys
  <2>2. CASE r.status # 200
    BY <1>3, <2>2 DEF FetchKeys
  <2>3. QED
    BY <2>1, <2>2
<1>6. Readable(FetchBuckets(r))
  <2>1. CASE r.status = 200
    BY <1>1, <1>2, <2>1 DEF FetchBuckets
  <2>2. CASE r.status # 200
    BY <1>3, <2>2 DEF FetchBuckets
  <2>3. QED
    BY <2>1, <2>2
<1>7. Readable(FetchHomeBuckets(r))
  <2>1. CASE r.status = 200
    BY <1>1, <1>2, <2>1 DEF FetchHomeBuckets
  <2>2. CASE r.status = 0
    BY <1>4, <2>2 DEF FetchHomeBuckets
  <2>3. CASE r.status # 0 /\ r.status # 200
    BY <1>2, <2>3 DEF FetchHomeBuckets
  <2>4. QED
    BY <2>1, <2>2, <2>3
<1>8. Readable(FetchVideos(r))
  <2>1. CASE r.status = 200
    BY <1>1, <1>2, <2>1 DEF FetchVideos
  <2>2. CASE r.status # 200
    BY <1>3, <2>2 DEF FetchVideos
  <2>3. QED
    BY <2>1, <2>2
<1>9. Readable(FetchPolling(r))
  BY <1>2, <1>4 DEF FetchPolling
<1>10. Readable(FetchActivity(r))
  <2>1. CASE r.status = 0
    BY <1>4, <2>1 DEF FetchActivity
  <2>2. CASE r.status = 200
    BY <1>1, <1>2, <2>2 DEF FetchActivity
  <2>3. CASE r.status # 0 /\ r.status # 200
    BY <1>2, <2>3 DEF FetchActivity
  <2>4. QED
    BY <2>1, <2>2, <2>3
<1>11. queryFn(c, r) \in {Threw, FetchKeys(r), FetchHomeBuckets(r), FetchBuckets(r),
                          FetchPolling(r), FetchActivity(r), FetchVideos(r)}
  BY DEF queryFn, FetchObjects
<1>12. QED
  BY <1>4, <1>5, <1>6, <1>7, <1>8, <1>9, <1>10, <1>11

LEMMA MountCache ==
    ASSUME WellKept(cache), NEW p, NEW i, MovesTo(p, i)
    PROVE  WellKept(cache')
<1>1. PICK aged, gone \in SUBSET Observed(p, i, cache) :
          cache' = [k \in Keys |-> IF k \in gone THEN Nothing
                                   ELSE IF k \in aged THEN [cache[k] EXCEPT !.stale = TRUE]
                                   ELSE cache[k]]
  BY DEF MovesTo, Mount
<1>2. ASSUME NEW k \in Keys
      PROVE  /\ [cache[k] EXCEPT !.stale = TRUE] \in Held
             /\ [cache[k] EXCEPT !.stale = TRUE].rows = cache[k].rows
             /\ [cache[k] EXCEPT !.stale = TRUE].busy = cache[k].busy
             /\ cache[k] \in Held /\ cache[k].busy \subseteq cache[k].rows
  <2>1. cache[k] \in Held /\ cache[k].busy \subseteq cache[k].rows
    BY DEF WellKept
  <2>2. QED
    BY <2>1 DEF Held
<1>3. QED
  BY <1>1, <1>2, NothingType DEF WellKept

(* An answer that was read into the cache. *)
LEMMA FetchedKinds ==
    ASSUME IInv, NEW c \in calls, Fetched(c)
    PROVE  \E r \in Outcomes(c) : \E ca :
              /\ WellKept(ca) /\ cache' = ca
              /\ page' = IF Crashes(page, ca) THEN "crashed" ELSE page
              /\ local' = IF Crashes(page, ca) THEN [id |-> 0] ELSE local
              /\ IF c.key = BucketsKey /\ queryFn(c, r).value.has
                 THEN ca[BucketsKey].rows = queryFn(c, r).value.rows
                 ELSE ca[BucketsKey].rows = cache[BucketsKey].rows
<1>1. WellKept(cache) /\ c.op = "query" /\ c.key \in Keys /\ c.reply \in ReplyType
  BY DEF IInv, CacheInv, WellKept, Fetched, Legal, Proper, CallType
<1>2. /\ BucketsKey \in Keys /\ VideosKey \in Keys /\ BucketsKey # VideosKey
      /\ PollingKey # BucketsKey
  BY DEF Keys, BucketsKey, VideosKey, PollingKey
<1>3. PICK r \in Outcomes(c) :
          \/ /\ queryFn(c, r).value.has
             /\ \E cs : Shown(Polled(SetData(cache, c.key, queryFn(c, r).value), c, r), cs)
          \/ /\ ~queryFn(c, r).value.has
             /\ \E cs : Shown(cache, cs) \/ Shown([cache EXCEPT ![c.key].failed = TRUE], cs)
  BY DEF Fetched
<1>4. r \in ReplyType /\ r.busy \subseteq r.rows
  BY <1>1, NoReplyType DEF Outcomes, IInv, RepliesInv, Honest
<1> DEFINE v == queryFn(c, r).value
<1>5. v \in Held /\ v.busy \subseteq v.rows
  BY <1>4, FetchedType DEF Readable
<1> HIDE DEF v
<1>6. ASSUME NEW ca, NEW cs, Shown(ca, cs), WellKept(ca),
             IF c.key = BucketsKey /\ v.has THEN ca[BucketsKey].rows = v.rows
             ELSE ca[BucketsKey].rows = cache[BucketsKey].rows
      PROVE  /\ WellKept(ca) /\ cache' = ca
             /\ page' = IF Crashes(page, ca) THEN "crashed" ELSE page
             /\ local' = IF Crashes(page, ca) THEN [id |-> 0] ELSE local
             /\ IF c.key = BucketsKey /\ queryFn(c, r).value.has
                THEN ca[BucketsKey].rows = queryFn(c, r).value.rows
                ELSE ca[BucketsKey].rows = cache[BucketsKey].rows
  BY <1>6 DEF Shown, v
<1>7. CASE v.has /\ \E cs : Shown(Polled(SetData(cache, c.key, v), c, r), cs)
  <2> DEFINE set == SetData(cache, c.key, v)
             h == Holding(r.rows, r.busy, "object")
             ca == Polled(set, c, r)
  <2>1. WellKept(set)
    BY <1>1, <1>5, KeptSet
  <2>2. h \in Held /\ h.busy \subseteq h.rows
    <3>1. r.rows \in SUBSET Rows /\ r.busy \in SUBSET Rows
      BY <1>4 DEF ReplyType
    <3>2. h \in Held /\ h.rows = r.rows /\ h.busy = r.busy
      BY <3>1, HoldingType
    <3>3. QED
      BY <1>4, <3>2
  <2>3. IF c.key = BucketsKey THEN set[BucketsKey].rows = v.rows
        ELSE set[BucketsKey].rows = cache[BucketsKey].rows
    BY <1>1, <1>2 DEF SetData, WellKept
  <2>4. ca = set \/ (c.key = PollingKey /\ ca = SetData(set, VideosKey, h))
    BY DEF Polled
  <2> HIDE DEF set, h, ca
  <2>5. WellKept(ca)
    BY <1>2, <2>1, <2>2, <2>4, KeptSet
  <2>6. ca[BucketsKey] = set[BucketsKey]
    BY <1>2, <2>1, <2>4 DEF SetData, WellKept
  <2>7. PICK cs : Shown(ca, cs)
    BY <1>7 DEF ca, set
  <2>8. QED
    BY <1>6, <1>7, <2>3, <2>5, <2>6, <2>7
<1>8. CASE ~v.has /\ \E cs : Shown(cache, cs) \/ Shown([cache EXCEPT ![c.key].failed = TRUE], cs)
  <2> DEFINE failed == [cache EXCEPT ![c.key].failed = TRUE]
  <2>1. WellKept(failed)
    BY <1>1, KeptFailed
  <2>2. failed[BucketsKey].rows = cache[BucketsKey].rows
    <3>1. cache[BucketsKey] \in Held /\ cache \in [Keys -> Held]
      BY <1>1, <1>2 DEF WellKept
    <3>2. QED
      BY <1>1, <1>2, <3>1 DEF Held
  <2> HIDE DEF failed
  <2>3. QED
    BY <1>1, <1>6, <1>8, <2>1, <2>2 DEF failed
<1>9. QED
  BY <1>3, <1>7, <1>8 DEF v

(* The rest of a step that the user makes on a page. *)
LEMMA InputCache ==
    ASSUME WellKept(cache), Inputs
    PROVE  \/ cache' = cache
           \/ page = "keys" /\ WellKept(cache') /\ cache'[BucketsKey] = cache[BucketsKey]
<1>1. CASE \/ KeysInput \/ BucketsInput \/ BucketInput \/ VideosInput \/ VideoInput
           \/ ConvertInput \/ BillingInput \/ TeamInput
  BY <1>1 DEF KeysInput, BucketsInput, BucketInput, VideosInput, VideoInput, ConvertInput,
              BillingInput, TeamInput, net
<1>2. CASE \/ handleSaveName \/ handleFileSelected \/ handleCreateJob
           \/ handleDeleteAccount \/ handleInvite
           \/ \E i \in Rows : togglePrefix(i)
           \/ \E type \in {"all"} \cup actionTypes : setFilter(type)
  BY <1>2 DEF handleSaveName, handleFileSelected, handleCreateJob,
              handleDeleteAccount, handleInvite, togglePrefix, setFilter, net
<1>3. CASE OpenPalette \/ TogglePalette
  BY <1>3 DEF OpenPalette, TogglePalette, net
<1>4. CASE \/ \E id \in Closable : CloseToast(id)
           \/ \E id \in timers : ToastTimer(id)
           \/ UNCHANGED vars
  BY <1>4 DEF CloseToast, ToastTimer, vars, net
<1>5. CASE handleCreate \/ \E i \in Rows : handleRevoke(i)
  <2>1. /\ KeysKey \in Keys /\ BucketsKey \in Keys /\ KeysKey # BucketsKey
    BY DEF Keys, KeysKey, BucketsKey
  <2>2. KeyRows \in SUBSET Rows
    BY <2>1 DEF KeyRows, WellKept, Held
  <2>3. page = "keys" /\ \E rows \in SUBSET Rows :
            cache' = SetData(cache, KeysKey, Holding(rows, {}, "array"))
    <3>1. CASE handleCreate
      <4>1. PICK i \in Rows \ KeyRows :
                cache' = SetData(cache, KeysKey, Holding(KeyRows \cup {i}, {}, "array"))
        BY <3>1 DEF handleCreate
      <4>2. KeyRows \cup {i} \in SUBSET Rows
        BY <2>2
      <4>3. page = "keys"
        BY <3>1 DEF handleCreate, On
      <4>4. QED
        BY <4>1, <4>2, <4>3
    <3>2. ASSUME NEW i \in Rows, handleRevoke(i)
          PROVE  page = "keys" /\ \E rows \in SUBSET Rows :
                     cache' = SetData(cache, KeysKey, Holding(rows, {}, "array"))
      <4>1. cache' = SetData(cache, KeysKey, Holding(KeyRows \ {i}, {}, "array"))
        BY <3>2 DEF handleRevoke
      <4>2. KeyRows \ {i} \in SUBSET Rows
        BY <2>2
      <4>3. page = "keys"
        BY <3>2 DEF handleRevoke, On
      <4>4. QED
        BY <4>1, <4>2, <4>3
    <3>3. QED
      BY <1>5, <3>1, <3>2
  <2>4. PICK rows \in SUBSET Rows :
            cache' = SetData(cache, KeysKey, Holding(rows, {}, "array"))
    BY <2>3
  <2> DEFINE h == Holding(rows, {}, "array")
  <2>5. h \in Held /\ h.busy \subseteq h.rows
    BY HoldingType
  <2>6. cache' = SetData(cache, KeysKey, h)
    BY <2>4
  <2> HIDE DEF h
  <2>7. WellKept(cache')
    BY <2>1, <2>5, <2>6, KeptSet
  <2>8. cache'[BucketsKey] = cache[BucketsKey]
    BY <2>1, <2>6 DEF SetData, WellKept
  <2>9. QED
    BY <2>3, <2>7, <2>8
<1>6. QED
  BY <1>1, <1>2, <1>3, <1>4, <1>5 DEF Inputs

LEMMA MarkedRows ==
    ASSUME NEW ca, WellKept(ca), NEW key, NEW k \in Keys
    PROVE  Marked(ca, key)[k].rows = ca[k].rows
<1>1. ca[k] \in Held
  BY DEF WellKept
<1>2. [ca[k] EXCEPT !.stale = TRUE].rows = ca[k].rows
  BY <1>1 DEF Held
<1>3. QED
  BY <1>2 DEF Marked

(* The bucket that was posted joins the list. *)
LEMMA PostedCache ==
    ASSUME IInv, NEW c \in calls, BucketPosted(c)
    PROVE  /\ WellKept(cache')
           /\ cache'[BucketsKey].rows = cache[BucketsKey].rows \cup c.reply.rows
<1> DEFINE rows == cache[BucketsKey].rows \cup c.reply.rows
           h == Holding(rows, {}, "array")
           ca == SetData(cache, BucketsKey, h)
<1>1. WellKept(cache) /\ BucketsKey \in Keys /\ c.reply \in ReplyType
  BY DEF IInv, CacheInv, WellKept, Legal, CallType, Keys
<1>2. rows \in SUBSET Rows /\ {} \in SUBSET Rows /\ "array" \in {"array", "object"}
  BY <1>1 DEF WellKept, Held, ReplyType
<1>3. cache' = Marked(ca, BucketsKey)
  BY DEF BucketPosted
<1>4. rows = cache[BucketsKey].rows \cup c.reply.rows
  OBVIOUS
<1> HIDE DEF rows
<1>5. h \in Held /\ h.rows = rows /\ h.busy = {}
  BY <1>2, HoldingType
<1> HIDE DEF h
<1>6. WellKept(ca) /\ ca[BucketsKey] = h
  BY <1>1, <1>5, KeptSet DEF SetData, WellKept
<1> HIDE DEF ca
<1>7. WellKept(Marked(ca, BucketsKey)) /\ Marked(ca, BucketsKey)[BucketsKey].rows = rows
  BY <1>1, <1>5, <1>6, KeptMarked, MarkedRows
<1>8. QED
  BY <1>3, <1>4, <1>7

LEMMA CacheStep ==
    ASSUME IInv, [Next]_vars
    PROVE  CacheInv'
<1>1. WellKept(cache) /\ ShellInv /\ LocalInv /\ CacheInv
  BY DEF IInv, CacheInv, WellKept
<1>2. ASSUME WellKept(cache') PROVE CacheInv'
  BY <1>2 DEF WellKept, CacheInv
<1>3. ASSUME cache' = cache PROVE CacheInv'
  BY <1>1, <1>2, <1>3
<1>4. CASE Inputs
  BY <1>1, <1>2, <1>3, <1>4, InputCache
<1>5. CASE Sendings
  BY <1>3, <1>5, SendingKinds
<1>6. CASE Refetches
  BY <1>1, <1>2, <1>3, <1>6, RefetchKinds, KeptMarked
<1>7. CASE Moves
  <2>1. CASE Stays
    BY <1>3, <2>1 DEF Stays
  <2>2. CASE \E p \in Pages, i \in Nat : MovesTo(p, i)
    BY <1>1, <1>2, <2>2, MountCache
  <2>3. QED
    BY <1>1, <1>7, <2>1, <2>2, MoveKinds
<1>8. CASE Loads
  BY <1>1, <1>2, <1>8, LoadKinds, KeptEmpty DEF Load
<1>9. CASE handleTopUp \/ handleDeleteVideo \/ TranscodeEnds
  BY <1>3, <1>9 DEF handleTopUp, handleDeleteVideo, TranscodeEnds
<1>10. ASSUME NEW c \in calls,
              \/ Endings(c) \/ SubscriptionLoaded(c) \/ AssetPosted(c)
              \/ BucketPosted(c) \/ VideoDeleted(c) \/ Fetched(c) \/ Serve(c)
       PROVE  CacheInv'
  <2>1. CASE Endings(c)
    BY <1>3, <2>1, EndingKinds
  <2>2. CASE SubscriptionLoaded(c) \/ AssetPosted(c) \/ Serve(c)
    BY <1>3, <2>2 DEF SubscriptionLoaded, AssetPosted, Serve
  <2>3. CASE BucketPosted(c)
    BY <1>2, <2>3, PostedCache
  <2>4. CASE VideoDeleted(c)
    BY <1>1, <1>2, <2>4, KeptMarked DEF VideoDeleted
  <2>5. CASE Fetched(c)
    BY <1>2, <2>5, FetchedKinds
  <2>6. QED
    BY <1>10, <2>1, <2>2, <2>3, <2>4, <2>5
<1>11. QED
  BY <1>4, <1>5, <1>6, <1>7, <1>8, <1>9, <1>10, NextKinds

-----------------------------------------------------------------------------
(* What a call does to the page it was made by. *)

LEMMA MountedSender ==
    ASSUME IInv, NEW c \in calls, c.op # "query", c.mounted
    PROVE  page = Sender(c.op)
BY DEF IInv, Legal, Proper

(* The page of the buckets remembers what it has created. *)
LEMMA MadeKept ==
    ASSUME IInv, page = "buckets",
           Inputs \/ Sendings \/ \E c \in calls : Endings(c) \/ SubscriptionLoaded(c) \/ AssetPosted(c)
    PROVE  local'.made = local.made
<1>1. local \in [id : Nat, open : BOOLEAN, filled : BOOLEAN, made : SUBSET Rows]
  BY DEF IInv, LocalInv, LocalType, BucketsLocal
<1>2. CASE Inputs
  <2>1. BucketsInput \/ local' = local
    BY <1>2 DEF Inputs, On, KeysInput, BucketInput, VideosInput, VideoInput, ConvertInput,
                BillingInput, TeamInput, handleCreate, handleSaveName, handleFileSelected,
                handleCreateJob, handleDeleteAccount, handleInvite, handleRevoke, togglePrefix,
                setFilter, OpenPalette, TogglePalette, CloseToast, ToastTimer, vars
  <2>2. CASE BucketsInput
    BY <1>1, <2>2 DEF BucketsInput
  <2>3. QED
    BY <2>1, <2>2
<1>3. CASE Sendings
  BY <1>3 DEF Sendings, On, handleCopy, handleCreateBucket, handlePortalRedirect, handleSave,
              handleFileUpload, handleSaveAccountName
<1>4. ASSUME NEW c \in calls, Endings(c) \/ SubscriptionLoaded(c) \/ AssetPosted(c)
      PROVE  local'.made = local.made
  <2>1. CASE BucketTail(c)
    <3>1. [FreshBuckets EXCEPT !.made = local.made].made = local.made
      BY DEF FreshBuckets
    <3>2. QED
      BY <2>1, <3>1 DEF BucketTail
  <2>2. CASE BucketFails(c) \/ InvoicesLoaded(c) \/ PortalFails(c)
    BY <2>2 DEF BucketFails, InvoicesLoaded, PortalFails
  <2>3. CASE CopyTimer(c) \/ VideoDeleteFails(c) \/ ToppedUp(c) \/ BrandingLoaded(c)
    <3>1. c.op \in {"copyTimer", "deleteVideo", "postFunds", "getBranding"}
      BY <2>3 DEF CopyTimer, VideoDeleteFails, ToppedUp, BrandingLoaded
    <3>2. ~c.mounted
      BY <3>1, MountedSender DEF Sender
    <3>3. QED
      BY <2>3, <3>2 DEF CopyTimer, VideoDeleteFails, ToppedUp, BrandingLoaded
  <2>4. CASE BrandingSaved(c) \/ AssetTimer(c) \/ NameTimer(c) \/ SubscriptionLoaded(c)
             \/ AssetPosted(c)
    <3>1. c.op \in {"putBranding", "assetTimer", "nameTimer", "getBilling", "postAsset"}
      BY <2>4 DEF BrandingSaved, AssetTimer, NameTimer, SubscriptionLoaded, AssetPosted
    <3>2. ~c.mounted
      BY <3>1, MountedSender DEF Sender
    <3>3. QED
      BY <2>4, <3>2 DEF BrandingSaved, AssetTimer, NameTimer, SubscriptionLoaded, AssetPosted
  <2>5. QED
    BY <1>4, <2>1, <2>2, <2>3, <2>4 DEF Endings
<1>5. QED
  BY <1>2, <1>3, <1>4

LEMMA CreatedQuiet ==
    ASSUME IInv, Quiet, page' = page,
           page = "buckets" => local'.made = local.made /\ local.made \subseteq cache'[BucketsKey].rows
    PROVE  CreatedInv'
<1> SUFFICES ASSUME page = "buckets"
             PROVE  CreatedInv'
  BY DEF CreatedInv
<1>1. /\ local'.made = local.made /\ server' = server
      /\ local.made \subseteq cache'[BucketsKey].rows /\ local.made \subseteq server.buckets
  BY DEF Quiet, IInv, CreatedInv
<1>2. ASSUME local.made # {}, NEW d \in calls', d.op = "query", d.key = BucketsKey
      PROVE  /\ d.by = "buckets"
             /\ d.reply.status = 200 => local.made \subseteq d.reply.rows
  <2>1. CASE Begun(d, page)
    BY <1>2, <2>1, NoReplyType DEF Begun, Started
  <2>2. CASE \E c \in calls : Kept(d, c)
    <3>1. PICK c \in calls : Kept(d, c)
      BY <2>2
    <3>2. /\ c.op = "query" /\ c.key = BucketsKey /\ d.by = c.by
          /\ d.reply = c.reply \/ d.reply = NoReply
      BY <1>2, <3>1 DEF Kept
    <3>3. c.by = "buckets" /\ (c.reply.status = 200 => local.made \subseteq c.reply.rows)
      BY <1>2, <3>2 DEF IInv, CreatedInv
    <3>4. QED
      BY <3>2, <3>3, NoReplyType
  <2>3. QED
    BY <2>1, <2>2 DEF Quiet, KeptOrBegun
<1>3. QED
  BY <1>1, <1>2 DEF CreatedInv

LEMMA CreatedFetched ==
    ASSUME IInv, NEW c \in calls, Fetched(c)
    PROVE  CreatedInv'
<1>1. Quiet /\ WellKept(cache) /\ BucketsKey \in Keys
  BY FetchedQuiet DEF IInv, CacheInv, WellKept, Keys
<1>2. PICK r \in Outcomes(c) : \E ca :
              /\ WellKept(ca) /\ cache' = ca
              /\ page' = IF Crashes(page, ca) THEN "crashed" ELSE page
              /\ local' = IF Crashes(page, ca) THEN [id |-> 0] ELSE local
              /\ IF c.key = BucketsKey /\ queryFn(c, r).value.has
                 THEN ca[BucketsKey].rows = queryFn(c, r).value.rows
                 ELSE ca[BucketsKey].rows = cache[BucketsKey].rows
  BY FetchedKinds
<1>3. CASE page' # "buckets"
  BY <1>3 DEF CreatedInv
<1>4. CASE page' = "buckets"
  <2>1. page = "buckets" /\ page' = page /\ local' = local
    BY <1>2, <1>4
  <2>2. local.made \subseteq cache[BucketsKey].rows
    BY <2>1 DEF IInv, CreatedInv
  <2>3. CASE ~(c.key = BucketsKey /\ queryFn(c, r).value.has)
    <3>1. cache'[BucketsKey].rows = cache[BucketsKey].rows
      BY <1>2, <2>3
    <3>2. QED
      BY <1>1, <2>1, <2>2, <3>1, CreatedQuiet
  <2>4. CASE c.key = BucketsKey /\ queryFn(c, r).value.has /\ local.made # {}
    <3>1. cache'[BucketsKey].rows = queryFn(c, r).value.rows
      BY <1>2, <2>4
    <3>2. c.by = "buckets" /\ (c.reply.status = 200 => local.made \subseteq c.reply.rows)
      BY <2>1, <2>4 DEF IInv, CreatedInv, Fetched
    <3>3. /\ KeysKey # BucketsKey /\ JobsKey # BucketsKey /\ VideosKey # BucketsKey
          /\ PollingKey # BucketsKey
      BY DEF KeysKey, BucketsKey, JobsKey, VideosKey, PollingKey
    <3>4. queryFn(c, r) = FetchBuckets(r)
      BY <2>4, <3>2, <3>3 DEF queryFn, Broken
    <3>5. r.status = 200
      <4>1. CASE r.status # 200
        <5>1. FetchBuckets(r).value = Nothing
          BY <4>1 DEF FetchBuckets
        <5>2. QED
          BY <2>4, <3>4, <5>1, NothingType
      <4>2. QED
        BY <4>1
    <3>6. r = c.reply
      BY <3>5, NoReplyType DEF Outcomes
    <3>7. FetchBuckets(r).value.rows = r.rows
      BY <3>5 DEF FetchBuckets, Holding
    <3>8. local.made \subseteq cache'[BucketsKey].rows
      BY <3>1, <3>2, <3>4, <3>5, <3>6, <3>7
    <3>9. QED
      BY <1>1, <2>1, <3>8, CreatedQuiet
  <2>5. CASE local.made = {}
    BY <1>1, <2>1, <2>5, CreatedQuiet
  <2>6. QED
    BY <2>3, <2>4, <2>5
<1>5. QED
  BY <1>3, <1>4

LEMMA CreatedPosted ==
    ASSUME IInv, NEW c \in calls, BucketPosted(c)
    PROVE  CreatedInv'
<1>1. /\ Quiet /\ page' = page /\ server' = server /\ c.op = "postBucket"
      /\ local' = Made(c)
      /\ \A e \in calls' : e.op = "query" /\ e.key = BucketsKey /\ page = "buckets" =>
            e.by = "buckets" /\ e.reply = NoReply
  BY BucketPostedCalls DEF BucketPosted, Quiet
<1> SUFFICES ASSUME page = "buckets"
             PROVE  CreatedInv'
  BY <1>1 DEF CreatedInv
<1>2. local \in [id : Nat, open : BOOLEAN, filled : BOOLEAN, made : SUBSET Rows]
  BY DEF IInv, LocalInv, LocalType, BucketsLocal
<1>3. local.made \subseteq local'.made /\ local'.made \subseteq local.made \cup c.reply.rows
  BY <1>1, <1>2 DEF Made
<1>4. cache'[BucketsKey].rows = cache[BucketsKey].rows \cup c.reply.rows
  BY PostedCache
<1>5. c.reply.rows \subseteq server.buckets
  BY <1>1 DEF IInv, RepliesInv, Honest
<1>6. local.made \subseteq cache[BucketsKey].rows /\ local.made \subseteq server.buckets
  BY DEF IInv, CreatedInv
<1>7. /\ local'.made \subseteq cache'[BucketsKey].rows
      /\ local'.made \subseteq server'.buckets
  BY <1>1, <1>3, <1>4, <1>5, <1>6
<1>8. \A d \in calls' : d.op = "query" /\ d.key = BucketsKey =>
          d.by = "buckets" /\ d.reply.status # 200
  BY <1>1, NoReplyType
<1>9. QED
  BY <1>7, <1>8 DEF CreatedInv

LEMMA CreatedServed ==
    ASSUME IInv, NEW c \in calls, Serve(c)
    PROVE  CreatedInv'
<1>1. PICK r : Answered(c, r)
  BY ServeKinds
<1>2. page' = page /\ local' = local /\ cache' = cache
  BY DEF Serve
<1> SUFFICES ASSUME page = "buckets"
             PROVE  CreatedInv'
  BY <1>2 DEF CreatedInv
<1> DEFINE d == [c EXCEPT !.reply = r]
<1>3. /\ calls' = (calls \ {c}) \cup {d} /\ r \in ReplyType /\ c \in CallType
      /\ server.buckets \subseteq server'.buckets
      /\ c.op = "query" /\ c.key = BucketsKey /\ r.status = 200 => r.rows = server.buckets
  BY <1>1 DEF Answered, Served, IInv, Legal
<1>4. d.op = c.op /\ d.key = c.key /\ d.by = c.by /\ d.reply = r
  BY <1>3, CallAnswered
<1> HIDE DEF d
<1>5. local.made \subseteq server.buckets /\ local.made \subseteq cache[BucketsKey].rows
  BY DEF IInv, CreatedInv
<1>6. ASSUME local.made # {}, NEW e \in calls', e.op = "query", e.key = BucketsKey
      PROVE  /\ e.by = "buckets"
             /\ e.reply.status = 200 => local.made \subseteq e.reply.rows
  <2>1. CASE e \in calls
    BY <1>6, <2>1 DEF IInv, CreatedInv
  <2>2. CASE e = d
    <3>1. c.by = "buckets"
      BY <1>4, <1>6, <2>2 DEF IInv, CreatedInv
    <3>2. QED
      BY <1>3, <1>4, <1>5, <1>6, <2>2, <3>1
  <2>3. QED
    BY <1>3, <2>1, <2>2
<1>7. QED
  BY <1>2, <1>3, <1>5, <1>6 DEF CreatedInv

LEMMA CreatedDeleted ==
    ASSUME IInv, NEW c \in calls, VideoDeleted(c)
    PROVE  CreatedInv'
<1>1. /\ page' = page /\ server' = server /\ cache' = Marked(cache, VideosKey)
      /\ c.op = "deleteVideo" /\ (~c.mounted => local' = local)
  BY VideoDeletedCalm DEF VideoDeleted
<1> SUFFICES ASSUME page = "buckets"
             PROVE  CreatedInv'
  BY <1>1 DEF CreatedInv
<1>2. local' = local
  BY <1>1, MountedSender DEF Sender
<1>3. PICK d : /\ d \in calls' /\ d.op = "deleteTail"
               /\ \A e \in calls' \ {d} : e \in calls \ {c} \/ Begun(e, page)
  BY VideoDeletedCalm
<1>4. WellKept(cache) /\ BucketsKey \in Keys
  BY DEF IInv, CacheInv, WellKept, Keys
<1>5. cache'[BucketsKey].rows = cache[BucketsKey].rows
  BY <1>1, <1>4, MarkedRows
<1>6. \A e \in calls' : e.op = "query" => e \in calls \/ (e.by = "buckets" /\ e.reply = NoReply)
  BY <1>3 DEF Begun, Started
<1>7. \A e \in calls' : e.op = "query" => e \in calls \/ (e.by = "buckets" /\ e.reply.status # 200)
  BY <1>6, NoReplyType
<1>8. QED
  BY <1>1, <1>2, <1>5, <1>7 DEF IInv, CreatedInv

LEMMA CreatedStep ==
    ASSUME IInv, [Next]_vars
    PROVE  CreatedInv'
<1>1. /\ ShellInv /\ LocalInv /\ CacheInv /\ WellKept(cache) /\ BucketsKey \in Keys
      /\ page = "buckets" => local.made \subseteq cache[BucketsKey].rows
  BY DEF IInv, CacheInv, WellKept, Keys, CreatedInv
<1>2. ASSUME page' # "buckets" PROVE CreatedInv'
  BY <1>2 DEF CreatedInv
<1>3. ASSUME local' = FreshBuckets, page' = "buckets" PROVE CreatedInv'
  <2>1. local'.made = {}
    BY <1>3 DEF FreshBuckets
  <2>2. QED
    BY <2>1 DEF CreatedInv
<1>4. Fresh("buckets", 0) = FreshBuckets /\ \A i : Fresh("buckets", i) = FreshBuckets
  BY DEF Fresh
<1>5. CASE Inputs
  <2>1. Quiet /\ page' = page
    BY <1>5, InputKinds, EndsQuiet
  <2>2. page = "buckets" => local'.made = local.made /\ cache' = cache
    BY <1>1, <1>5, MadeKept, InputCache
  <2>3. QED
    BY <1>1, <2>1, <2>2, CreatedQuiet
<1>6. CASE Sendings
  <2>1. Quiet /\ page' = page /\ cache' = cache
    BY <1>6, SendingKinds, SendsQuiet
  <2>2. page = "buckets" => local'.made = local.made
    BY <1>6, MadeKept
  <2>3. QED
    BY <1>1, <2>1, <2>2, CreatedQuiet
<1>7. CASE Refetches
  <2>1. Quiet /\ page' = page /\ local' = local
    BY <1>7, RefetchKinds, RefetchesQuiet
  <2>2. cache'[BucketsKey].rows = cache[BucketsKey].rows
    BY <1>1, <1>7, RefetchKinds, MarkedRows
  <2>3. QED
    BY <1>1, <2>1, <2>2, CreatedQuiet
<1>8. CASE Moves
  <2>1. CASE Stays
    BY <1>2, <2>1 DEF Stays
  <2>2. ASSUME NEW p \in Pages, NEW i \in Nat, MovesTo(p, i)
        PROVE  CreatedInv'
    <3>1. page' = "crashed" \/ (page' = p /\ local' = Fresh(p, i))
      BY <2>2 DEF MovesTo, Mount
    <3>2. QED
      BY <1>2, <1>3, <1>4, <3>1
  <2>3. QED
    BY <1>1, <1>8, <2>1, <2>2, MoveKinds
<1>9. CASE Loads
  <2>1. PICK p \in Pages, i \in Nat : Load(p, i)
    BY <1>1, <1>9, LoadKinds
  <2>2. page' = p /\ local' = Fresh(p, i)
    BY <2>1 DEF Load
  <2>3. QED
    BY <1>2, <1>3, <1>4, <2>2
<1>10. CASE handleTopUp \/ handleDeleteVideo
  BY <1>2, <1>10 DEF handleTopUp, handleDeleteVideo, On, shell
<1>11. CASE TranscodeEnds
  <2>1. server'.buckets = server.buckets
    BY <1>11 DEF TranscodeEnds, IInv, ServerInv, Account
  <2>2. UNCHANGED <<page, local, cache, calls>>
    BY <1>11 DEF TranscodeEnds
  <2>3. QED
    BY <2>1, <2>2 DEF IInv, CreatedInv
<1>12. ASSUME NEW c \in calls,
              \/ Endings(c) \/ SubscriptionLoaded(c) \/ AssetPosted(c)
              \/ BucketPosted(c) \/ VideoDeleted(c) \/ Fetched(c) \/ Serve(c)
       PROVE  CreatedInv'
  <2>1. CASE Endings(c)
    <3>1. Quiet /\ page' = page /\ cache' = cache
      BY <2>1, EndingKinds, EndsQuiet
    <3>2. page = "buckets" => local'.made = local.made
      BY <2>1, MadeKept
    <3>3. QED
      BY <1>1, <3>1, <3>2, CreatedQuiet
  <2>2. CASE SubscriptionLoaded(c) \/ AssetPosted(c)
    <3>1. Quiet /\ page' = page /\ cache' = cache
      BY <2>2, FollowUpsQuiet DEF SubscriptionLoaded, AssetPosted, shell
    <3>2. page = "buckets" => local'.made = local.made
      BY <2>2, MadeKept
    <3>3. QED
      BY <1>1, <3>1, <3>2, CreatedQuiet
  <2>3. QED
    BY <1>12, <2>1, <2>2, CreatedPosted, CreatedDeleted, CreatedFetched, CreatedServed
<1>13. QED
  BY <1>5, <1>6, <1>7, <1>8, <1>9, <1>10, <1>11, <1>12, NextKinds

-----------------------------------------------------------------------------
(* Deletions. *)

LEMMA DeletionStep ==
    ASSUME IInv, [Next]_vars
    PROVE  DeletionInv'
<1> DEFINE Waits == page = "video" /\ local.deleting => local'.deleting
<1>1. ShellInv /\ LocalInv /\ CacheInv
  BY DEF IInv
<1>2. page = "video" => local \in [id : Nat, open : BOOLEAN, deleting : BOOLEAN]
  BY <1>1 DEF LocalInv, LocalType, VideoLocal
<1>3. ASSUME local' = local PROVE Waits
  BY <1>3
<1>4. CASE Inputs
  <2>1. Quiet /\ page' = page
    BY <1>4, InputKinds, EndsQuiet
  <2>2. Waits
    <3> SUFFICES ASSUME page = "video", local.deleting
                 PROVE  local'.deleting
      OBVIOUS
    <3>1. VideoInput \/ local' = local
      BY <1>4 DEF Inputs, On, KeysInput, BucketsInput, BucketInput, VideosInput, ConvertInput,
                  BillingInput, TeamInput, handleCreate, handleSaveName, handleFileSelected,
                  handleCreateJob, handleDeleteAccount, handleInvite, handleRevoke,
                  togglePrefix, setFilter, OpenPalette, TogglePalette, CloseToast, ToastTimer,
                  vars
    <3>2. CASE VideoInput
      BY <1>2, <3>2 DEF VideoInput
    <3>3. QED
      BY <3>1, <3>2
  <2>3. QED
    BY <2>1, <2>2, QuietDeletion
<1>5. CASE Sendings
  <2>1. Quiet /\ page' = page
    BY <1>5, SendingKinds, SendsQuiet
  <2>2. Waits
    BY <1>5 DEF Sendings, On, handleCopy, handleCreateBucket, handlePortalRedirect, handleSave,
                handleFileUpload, handleSaveAccountName
  <2>3. QED
    BY <2>1, <2>2, QuietDeletion
<1>6. CASE Refetches
  BY <1>6, RefetchKinds, RefetchesQuiet, QuietDeletion
<1>7. CASE Moves
  <2>1. server' = server /\ (Stays \/ \E p \in Pages, i \in Nat : MovesTo(p, i))
    BY <1>1, <1>7, MoveKinds
  <2>2. CASE Stays
    BY <2>1, <2>2, EndsQuiet, QuietDeletion DEF Stays
  <2>3. CASE \E p \in Pages, i \in Nat : MovesTo(p, i)
    BY <2>1, <2>3, MountQuiet, QuietDeletion
  <2>4. QED
    BY <2>1, <2>2, <2>3
<1>8. CASE Loads
  BY <1>1, <1>8, LoadKinds, LoadQuiet, QuietDeletion
<1>9. CASE handleTopUp
  <2>1. page = "billing"
    BY <1>9 DEF handleTopUp, On
  <2>2. \A c \in calls : ~(c.mounted /\ c.op \in Deletes)
    BY <2>1 DEF IInv, DeletionInv
  <2>3. \A c \in calls' : ~(c.mounted /\ c.op \in Deletes)
    BY <1>9, <2>2, TopUpState DEF Deletes
  <2>4. QED
    BY <2>3 DEF DeletionInv
<1>10. CASE handleDeleteVideo
  <2>1. /\ page = "video" /\ page' = page /\ ~local.deleting
        /\ local' = [local EXCEPT !.deleting = TRUE]
    BY <1>10 DEF handleDeleteVideo, On, VideoOffer, shell
  <2>2. \A c \in calls : ~(c.mounted /\ c.op \in Deletes)
    BY <2>1 DEF IInv, DeletionInv
  <2>3. PICK d : calls' = calls \cup {d} /\ d.op = "deleteVideo"
    BY <1>10, DeletionCalm
  <2>4. local'.deleting
    BY <1>2, <2>1
  <2>5. QED
    BY <2>1, <2>2, <2>3, <2>4 DEF DeletionInv
<1>11. CASE TranscodeEnds
  BY <1>11 DEF TranscodeEnds, IInv, DeletionInv
<1>12. ASSUME NEW c \in calls, Endings(c)
       PROVE  DeletionInv'
  <2>1. Quiet /\ page' = page /\ calls' = calls \ {c}
    BY <1>12, EndingKinds, EndsQuiet
  <2>2. CASE VideoDeleteFails(c)
    <3>1. c.op = "deleteVideo" /\ (~c.mounted => local' = local)
      BY <2>2 DEF VideoDeleteFails
    <3>2. CASE c.mounted
      <4>1. \A d \in calls : d.mounted /\ d.op \in Deletes => d = c
        BY <3>1, <3>2 DEF IInv, DeletionInv, Deletes
      <4>2. \A d \in calls' : d.op \in Deletes => ~d.mounted
        BY <2>1, <4>1
      <4>3. QED
        BY <2>1, <4>2, QuietDeletion
    <3>3. CASE ~c.mounted
      BY <2>1, <3>1, <3>3, QuietDeletion
    <3>4. QED
      BY <3>2, <3>3
  <2>3. CASE ~VideoDeleteFails(c)
    <3>1. CASE BucketFails(c) \/ InvoicesLoaded(c) \/ PortalFails(c)
      BY <2>1, <3>1, QuietDeletion DEF BucketFails, InvoicesLoaded, PortalFails
    <3>2. CASE \/ CopyTimer(c) \/ BucketTail(c) \/ ToppedUp(c) \/ BrandingLoaded(c)
               \/ BrandingSaved(c) \/ AssetTimer(c) \/ NameTimer(c)
      <4>1. /\ ~c.mounted => local' = local
            /\ c.op \in {"copyTimer", "bucketTail", "postFunds", "getBranding", "putBranding",
                         "assetTimer", "nameTimer"}
        BY <3>2 DEF CopyTimer, BucketTail, ToppedUp, BrandingLoaded, BrandingSaved, AssetTimer,
                    NameTimer
      <4>2. c.mounted => page # "video"
        BY <4>1, MountedSender DEF Sender
      <4>3. QED
        BY <2>1, <4>1, <4>2, QuietDeletion
    <3>3. QED
      BY <1>12, <2>3, <3>1, <3>2 DEF Endings
  <2>4. QED
    BY <2>2, <2>3
<1>13. ASSUME NEW c \in calls, SubscriptionLoaded(c) \/ AssetPosted(c)
       PROVE  DeletionInv'
  <2>1. /\ Quiet /\ page' = page /\ c.op \in {"getBilling", "postAsset"}
        /\ ~c.mounted => local' = local
    BY <1>13, FollowUpsQuiet DEF SubscriptionLoaded, AssetPosted, shell
  <2>2. c.mounted => page # "video"
    BY <2>1, MountedSender DEF Sender
  <2>3. QED
    BY <2>1, <2>2, QuietDeletion
<1>14. ASSUME NEW c \in calls, BucketPosted(c)
       PROVE  DeletionInv'
  <2>1. /\ Quiet /\ page' = page /\ c.op = "postBucket" /\ (~c.mounted => local' = local)
    BY <1>14, BucketPostedCalls DEF BucketPosted, Made
  <2>2. c.mounted => page # "video"
    BY <2>1, MountedSender DEF Sender
  <2>3. QED
    BY <2>1, <2>2, QuietDeletion
<1>15. ASSUME NEW c \in calls, VideoDeleted(c)
       PROVE  DeletionInv'
  <2>1. /\ page' = page /\ c.op = "deleteVideo"
        /\ local' = IF c.mounted THEN [local EXCEPT !.open = FALSE] ELSE local
    BY <1>15, VideoDeletedCalm DEF VideoDeleted
  <2>2. PICK d : /\ d \in calls' /\ d.op = "deleteTail" /\ (d.mounted <=> c.mounted)
                 /\ \A e \in calls' \ {d} : e \in calls \ {c} \/ Begun(e, page)
    BY <1>15, VideoDeletedCalm
  <2>3. page = "video" /\ local.deleting => local'.deleting
    BY <1>2, <2>1
  <2>4. \A e \in calls' : e.mounted /\ e.op \in Deletes => e \in calls \ {c} \/ (e = d /\ c.mounted)
    BY <2>2 DEF Begun
  <2>5. /\ \A e \in calls : e.mounted /\ e.op \in Deletes => page = "video" /\ local.deleting
        /\ c.op \in Deletes
    BY <2>1 DEF IInv, DeletionInv, Deletes
  <2>6. \A e \in calls' : e.mounted /\ e.op \in Deletes => page' = "video" /\ local'.deleting
    BY <2>1, <2>3, <2>4, <2>5
  <2>7. c.mounted => \A e \in calls : e.mounted /\ e.op \in Deletes => e = c
    BY <2>5 DEF IInv, DeletionInv
  <2>8. \A e, f \in calls : e.mounted /\ e.op \in Deletes /\ f.mounted /\ f.op \in Deletes => e = f
    BY DEF IInv, DeletionInv
  <2>9. \A e, f \in calls' : e.mounted /\ e.op \in Deletes /\ f.mounted /\ f.op \in Deletes => e = f
    BY <2>4, <2>7, <2>8
  <2>10. QED
    BY <2>6, <2>9 DEF DeletionInv
<1>16. ASSUME NEW c \in calls, Fetched(c)
       PROVE  DeletionInv'
  <2>1. Quiet
    BY <1>16, FetchedQuiet
  <2>2. PICK ca, cs : Shown(ca, cs)
    BY <1>16 DEF Fetched
  <2>3. CASE Crashes(page, ca)
    <3>1. page' = "crashed"
      BY <2>2, <2>3 DEF Shown
    <3>2. \A e \in calls' : Proper(e, "crashed")
      BY <2>1, <3>1 DEF Quiet, Legal
    <3>3. \A e \in calls' : e.by \in Pages
      BY <2>1 DEF Quiet, Legal, CallType
    <3>4. "crashed" \notin Pages
      BY DEF Pages
    <3>5. \A e \in calls' : ~e.mounted
      BY <3>2, <3>3, <3>4 DEF Proper
    <3>6. QED
      BY <2>1, <3>5, QuietDeletion
  <2>4. CASE ~Crashes(page, ca)
    BY <2>1, <2>2, <2>4, QuietDeletion DEF Shown
  <2>5. QED
    BY <2>3, <2>4
<1>17. ASSUME NEW c \in calls, Serve(c)
       PROVE  DeletionInv'
  <2>1. PICK r : Answered(c, r)
    BY <1>17, ServeKinds
  <2> DEFINE d == [c EXCEPT !.reply = r]
  <2>2. /\ calls' = (calls \ {c}) \cup {d} /\ r \in ReplyType /\ c \in CallType
        /\ page' = page /\ local' = local
    BY <1>17, <2>1 DEF Answered, Served, IInv, Legal, Serve
  <2>3. d.op = c.op /\ (d.mounted <=> c.mounted)
    BY <2>2, CallAnswered
  <2> HIDE DEF d
  <2>4. \A e \in calls' : e.mounted /\ e.op \in Deletes =>
            e \in calls \ {c} \/ (e = d /\ c.mounted /\ c.op \in Deletes)
    BY <2>2, <2>3
  <2>5. /\ \A e \in calls : e.mounted /\ e.op \in Deletes => page = "video" /\ local.deleting
        /\ \A e, f \in calls : e.mounted /\ e.op \in Deletes /\ f.mounted /\ f.op \in Deletes => e = f
    BY DEF IInv, DeletionInv
  <2>6. \A e \in calls' : e.mounted /\ e.op \in Deletes => page' = "video" /\ local'.deleting
    BY <2>2, <2>4, <2>5
  <2>7. \A e, f \in calls' : e.mounted /\ e.op \in Deletes /\ f.mounted /\ f.op \in Deletes => e = f
    BY <2>4, <2>5
  <2>8. QED
    BY <2>6, <2>7 DEF DeletionInv
<1>18. QED
  BY <1>4, <1>5, <1>6, <1>7, <1>8, <1>9, <1>10, <1>11, <1>12, <1>13, <1>14, <1>15, <1>16, <1>17,
     NextKinds

-----------------------------------------------------------------------------
(* The state of the mounted page. *)

Fits(l, p, n) == l \in LocalType(p) /\ (p = "billing" => l.balance <= n)

LEMMA LocalFits == LocalInv <=> (page # "crashed" => Fits(local, page, server.balance))
BY DEF LocalInv, Fits

LEMMA LocalFitsNext == (page' # "crashed" => Fits(local', page', server'.balance)) => LocalInv'
BY DEF LocalInv, Fits

LEMMA LocalTypes ==
    /\ LocalType("home") = HomeLocal         /\ LocalType("keys") = KeysLocal
    /\ LocalType("buckets") = BucketsLocal   /\ LocalType("bucket") = BucketLocal
    /\ LocalType("videos") = VideosLocal     /\ LocalType("video") = VideoLocal
    /\ LocalType("activity") = ActivityLocal /\ LocalType("convert") = ConvertLocal
    /\ LocalType("billing") = BillingLocal   /\ LocalType("branding") = BrandingLocal
    /\ LocalType("settings") = SettingsLocal /\ LocalType("team") = TeamLocal
BY DEF LocalType

LEMMA FreshFits ==
    ASSUME NEW p \in Pages, NEW i \in Nat, NEW n \in Nat
    PROVE  Fits(Fresh(p, i), p, n)
<1>1. FreshHome \in HomeLocal /\ FreshActivity \in ActivityLocal
  BY DEF FreshHome, HomeLocal, FreshActivity, ActivityLocal
<1>2. FreshKeys \in KeysLocal /\ FreshBuckets \in BucketsLocal
  BY DEF FreshKeys, KeysLocal, FreshBuckets, BucketsLocal
<1>3. FreshBucket(i) \in BucketLocal /\ FreshConvert \in ConvertLocal
  BY DEF FreshBucket, BucketLocal, FreshConvert, ConvertLocal
<1>4. FreshVideos \in VideosLocal /\ FreshVideo(i) \in VideoLocal
  BY DEF FreshVideos, VideosLocal, FreshVideo, VideoLocal
<1>5. FreshBilling \in BillingLocal /\ FreshBilling.balance = 0
  BY DEF FreshBilling, BillingLocal
<1>6. FreshBranding \in BrandingLocal
  BY DEF FreshBranding, BrandingLocal
<1>7. FreshSettings \in SettingsLocal /\ FreshTeam \in TeamLocal
  BY DEF FreshSettings, SettingsLocal, FreshTeam, TeamLocal
<1>8. CASE p = "billing"
  BY <1>5, <1>8, LocalTypes DEF Fits, Fresh
<1>9. CASE p # "billing"
  <2>1. Fresh(p, i) \in LocalType(p)
    BY <1>1, <1>2, <1>3, <1>4, <1>6, <1>7, <1>9 DEF Pages, Fresh, LocalType
  <2>2. QED
    BY <1>9, <2>1 DEF Fits
<1>10. QED
  BY <1>8, <1>9

(* The state of each page, and what a step on it has to leave. *)
LEMMA PageLocal ==
    ASSUME IInv
    PROVE  /\ page = "keys" => local \in KeysLocal
           /\ page = "buckets" => local \in BucketsLocal
           /\ page = "bucket" => local \in BucketLocal
           /\ page = "videos" => local \in VideosLocal
           /\ page = "video" => local \in VideoLocal
           /\ page = "activity" => local \in ActivityLocal
           /\ page = "convert" => local \in ConvertLocal
           /\ page = "billing" => local \in BillingLocal /\ local.balance <= server.balance
           /\ page = "branding" => local \in BrandingLocal
           /\ page = "settings" => local \in SettingsLocal
           /\ page = "team" => local \in TeamLocal
<1>1. page # "crashed" => Fits(local, page, server.balance)
  BY LocalFits DEF IInv
<1>2. page = "billing" => local \in BillingLocal /\ local.balance <= server.balance
  BY <1>1, LocalTypes DEF Fits
<1>3. QED
  BY <1>1, <1>2, LocalTypes DEF Fits

LEMMA PageFits ==
    ASSUME NEW l, NEW n,
           \/ page = "keys" /\ l \in KeysLocal
           \/ page = "buckets" /\ l \in BucketsLocal
           \/ page = "bucket" /\ l \in BucketLocal
           \/ page = "videos" /\ l \in VideosLocal
           \/ page = "video" /\ l \in VideoLocal
           \/ page = "activity" /\ l \in ActivityLocal
           \/ page = "convert" /\ l \in ConvertLocal
           \/ page = "billing" /\ l \in BillingLocal /\ l.balance <= n
           \/ page = "branding" /\ l \in BrandingLocal
           \/ page = "settings" /\ l \in SettingsLocal
           \/ page = "team" /\ l \in TeamLocal
    PROVE  Fits(l, page, n)
BY LocalTypes DEF Fits

LEMMA InputLocal ==
    ASSUME IInv, Inputs
    PROVE  page # "crashed" => Fits(local', page, server.balance)
<1>1. page # "crashed" => Fits(local, page, server.balance)
  BY LocalFits DEF IInv
<1>2. CASE KeysInput
  <2>1. page = "keys" /\ local \in KeysLocal
    BY <1>2, PageLocal DEF KeysInput, On
  <2>2. FreshKeys \in KeysLocal
    BY DEF FreshKeys, KeysLocal
  <2>3. local' \in KeysLocal
    BY <1>2, <2>1, <2>2 DEF KeysInput, KeysLocal
  <2>4. QED
    BY <2>1, <2>3, PageFits
<1>3. CASE handleCreate
  <2>1. page = "keys" /\ local \in KeysLocal
    BY <1>3, PageLocal DEF handleCreate, On
  <2>2. local' \in KeysLocal
    BY <1>3, <2>1 DEF handleCreate, KeysLocal
  <2>3. QED
    BY <2>1, <2>2, PageFits
<1>4. CASE BucketsInput
  <2>1. page = "buckets" /\ local \in BucketsLocal
    BY <1>4, PageLocal DEF BucketsInput, On
  <2>2. local' \in BucketsLocal
    BY <1>4, <2>1 DEF BucketsInput, BucketsLocal
  <2>3. QED
    BY <2>1, <2>2, PageFits
<1>5. CASE BucketInput \/ handleSaveName \/ \E i \in Rows : togglePrefix(i)
  <2>1. page = "bucket" /\ local \in BucketLocal /\ Rows \subseteq Nat
    BY <1>5, PageLocal, BrowserAssumption DEF BucketInput, handleSaveName, togglePrefix, On
  <2>2. CASE BucketInput
    <3>1. local' \in BucketLocal
      BY <2>1, <2>2 DEF BucketInput, BucketLocal
    <3>2. QED
      BY <2>1, <3>1, PageFits
  <2>3. CASE handleSaveName
    <3>1. local' \in BucketLocal
      BY <2>1, <2>3 DEF handleSaveName, BucketLocal
    <3>2. QED
      BY <2>1, <3>1, PageFits
  <2>4. ASSUME NEW i \in Rows, togglePrefix(i)
        PROVE  Fits(local', page, server.balance)
    <3> DEFINE S == IF i \in local.expanded THEN local.expanded \ {i} ELSE local.expanded \cup {i}
    <3>1. S \in SUBSET Nat
      BY <2>1 DEF BucketLocal
    <3>2. local' = [local EXCEPT !.expanded = S]
      BY <2>4 DEF togglePrefix
    <3> HIDE DEF S
    <3>3. local' \in BucketLocal
      BY <2>1, <3>1, <3>2 DEF BucketLocal
    <3>4. QED
      BY <2>1, <3>3, PageFits
  <2>5. QED
    BY <1>5, <2>2, <2>3, <2>4
<1>6. CASE VideosInput
  <2>1. page = "videos" /\ local \in VideosLocal
    BY <1>6, PageLocal DEF VideosInput, On
  <2>2. local' \in VideosLocal
    BY <1>6, <2>1 DEF VideosInput, VideosLocal
  <2>3. QED
    BY <2>1, <2>2, PageFits
<1>7. CASE VideoInput
  <2>1. page = "video" /\ local \in VideoLocal
    BY <1>7, PageLocal DEF VideoInput, On
  <2>2. local' \in VideoLocal
    BY <1>7, <2>1 DEF VideoInput, VideoLocal
  <2>3. QED
    BY <2>1, <2>2, PageFits
<1>8. CASE \E type \in {"all"} \cup actionTypes : setFilter(type)
  <2>1. page = "activity" /\ local \in ActivityLocal
    BY <1>8, PageLocal DEF setFilter, On
  <2>2. PICK type \in {"all", "video.processing", "video.transcoded"} :
            local' = [local EXCEPT !.filter = type]
    BY <1>8 DEF setFilter, actionTypes
  <2>3. local' \in ActivityLocal
    BY <2>1, <2>2 DEF ActivityLocal
  <2>4. QED
    BY <2>1, <2>3, PageFits
<1>9. CASE ConvertInput
  <2>1. page = "convert" /\ local \in ConvertLocal
    BY <1>9, PageLocal DEF ConvertInput, On
  <2>2. local' \in ConvertLocal
    BY <1>9, <2>1 DEF ConvertInput, ConvertLocal
  <2>3. QED
    BY <2>1, <2>2, PageFits
<1>10. CASE BillingInput
  <2>1. page = "billing" /\ local \in BillingLocal /\ local.balance <= server.balance
    BY <1>10, PageLocal DEF BillingInput, On
  <2>2. local' \in BillingLocal /\ local'.balance = local.balance
    BY <1>10, <2>1 DEF BillingInput, BillingLocal
  <2>3. QED
    BY <2>1, <2>2, PageFits
<1>11. CASE handleDeleteAccount
  <2>1. page = "settings" /\ local \in SettingsLocal
    BY <1>11, PageLocal DEF handleDeleteAccount, On
  <2>2. \/ \E n \in {1, 2} : local' = [local EXCEPT !.step = n]
        \/ local' = [local EXCEPT !.confirmed = ~@]
        \/ local' = [local EXCEPT !.step = 0, !.confirmed = FALSE]
    BY <1>11 DEF handleDeleteAccount
  <2>3. local' \in SettingsLocal
    <3>1. \A n \in Nat : [local EXCEPT !.step = n] \in SettingsLocal
      BY <2>1 DEF SettingsLocal
    <3>2. [local EXCEPT !.confirmed = ~@] \in SettingsLocal
      BY <2>1 DEF SettingsLocal
    <3>3. [local EXCEPT !.step = 0, !.confirmed = FALSE] \in SettingsLocal
      BY <2>1 DEF SettingsLocal
    <3>4. QED
      BY <2>2, <3>1, <3>2, <3>3
  <2>4. QED
    BY <2>1, <2>3, PageFits
<1>12. CASE handleInvite
  <2>1. page = "team" /\ local \in TeamLocal
    BY <1>12, PageLocal DEF handleInvite, On
  <2> DEFINE n == local.members + 1
  <2>2. n \in Nat
    BY <2>1 DEF TeamLocal
  <2>3. local' = [local EXCEPT !.members = n, !.open = FALSE]
    BY <1>12 DEF handleInvite
  <2> HIDE DEF n
  <2>4. local' \in TeamLocal
    BY <2>1, <2>2, <2>3 DEF TeamLocal
  <2>5. QED
    BY <2>1, <2>4, PageFits
<1>13. CASE TeamInput
  <2>1. page = "team" /\ local \in TeamLocal
    BY <1>13, PageLocal DEF TeamInput, On
  <2>2. local' \in TeamLocal
    BY <1>13, <2>1 DEF TeamInput, TeamLocal
  <2>3. QED
    BY <2>1, <2>2, PageFits
<1>14. CASE \/ handleFileSelected \/ handleCreateJob \/ OpenPalette \/ TogglePalette
            \/ \E i \in Rows : handleRevoke(i)
            \/ \E id \in Closable : CloseToast(id)
            \/ \E id \in timers : ToastTimer(id)
            \/ UNCHANGED vars
  <2>1. local' = local
    BY <1>14 DEF handleFileSelected, handleCreateJob, OpenPalette, TogglePalette,
                 handleRevoke, CloseToast, ToastTimer, vars
  <2>2. QED
    BY <1>1, <2>1
<1>15. QED
  BY <1>2, <1>3, <1>4, <1>5, <1>6, <1>7, <1>8, <1>9, <1>10, <1>11, <1>12, <1>13, <1>14
  DEF Inputs

LEMMA SendingLocal ==
    ASSUME IInv, Sendings \/ handleTopUp \/ handleDeleteVideo
    PROVE  page # "crashed" => Fits(local', page, server.balance)
<1>1. page # "crashed" => Fits(local, page, server.balance)
  BY LocalFits DEF IInv
<1>2. ASSUME NEW i \in Rows \cup {0}, handleCopy(i)
      PROVE  Fits(local', page, server.balance)
  <2>1. page = "keys" /\ local \in KeysLocal /\ {i} \in SUBSET Nat
    BY <1>2, PageLocal, BrowserAssumption DEF handleCopy, On
  <2>2. local' = [local EXCEPT !.copied = {i}]
    BY <1>2 DEF handleCopy
  <2>3. local' \in KeysLocal
    BY <2>1, <2>2 DEF KeysLocal
  <2>4. QED
    BY <2>1, <2>3, PageFits
<1>3. CASE handleCreateBucket \/ handlePortalRedirect \/ handleTopUp
  BY <1>1, <1>3 DEF handleCreateBucket, handlePortalRedirect, handleTopUp
<1>4. CASE handleSave \/ handleFileUpload
  <2>1. page = "branding" /\ local \in BrandingLocal
    BY <1>4, PageLocal DEF handleSave, handleFileUpload, On
  <2>2. local' = [local EXCEPT !.saving = TRUE] \/ local' = [local EXCEPT !.uploading = TRUE]
    BY <1>4 DEF handleSave, handleFileUpload
  <2>3. local' \in BrandingLocal
    BY <2>1, <2>2 DEF BrandingLocal
  <2>4. QED
    BY <2>1, <2>3, PageFits
<1>5. CASE handleSaveAccountName
  <2>1. page = "settings" /\ local \in SettingsLocal
    BY <1>5, PageLocal DEF handleSaveAccountName, On
  <2>2. local' \in SettingsLocal
    BY <1>5, <2>1 DEF handleSaveAccountName, SettingsLocal
  <2>3. QED
    BY <2>1, <2>2, PageFits
<1>6. CASE handleDeleteVideo
  <2>1. page = "video" /\ local \in VideoLocal
    BY <1>6, PageLocal DEF handleDeleteVideo, On
  <2>2. local' \in VideoLocal
    BY <1>6, <2>1 DEF handleDeleteVideo, VideoLocal
  <2>3. QED
    BY <2>1, <2>2, PageFits
<1>7. QED
  BY <1>2, <1>3, <1>4, <1>5, <1>6 DEF Sendings

(* A call that changes the page's state is the page's own. *)
LEMMA CallLocal ==
    ASSUME IInv, NEW c \in calls,
           \/ Endings(c) \/ SubscriptionLoaded(c) \/ AssetPosted(c) \/ BucketPosted(c)
           \/ VideoDeleted(c)
    PROVE  page # "crashed" => Fits(local', page, server.balance)
<1>1. page # "crashed" => Fits(local, page, server.balance)
  BY LocalFits DEF IInv
<1>2. /\ c.reply \in ReplyType /\ c.reply.n <= server.balance /\ server.balance \in Nat
      /\ \A r \in Outcomes(c) : r.n \in Nat /\ r.n <= server.balance
  <2>1. /\ c.reply \in ReplyType /\ c.reply.n <= server.balance /\ server.balance \in Nat
    BY DEF IInv, Legal, CallType, RepliesInv, Honest, ServerInv, Account
  <2>2. c.reply.n \in Nat
    BY <2>1 DEF ReplyType
  <2>3. QED
    BY <2>1, <2>2, NoReplyType DEF Outcomes
<1>3. CASE CopyTimer(c)
  <2>1. CASE c.mounted
    <3>1. page = "keys" /\ local \in KeysLocal
      BY <1>3, <2>1, MountedSender, PageLocal DEF CopyTimer, Sender
    <3>2. local' \in KeysLocal
      BY <1>3, <2>1, <3>1 DEF CopyTimer, KeysLocal
    <3>3. QED
      BY <3>1, <3>2, PageFits
  <2>2. QED
    BY <1>1, <1>3, <2>1 DEF CopyTimer
<1>4. CASE BucketTail(c)
  <2>1. CASE c.mounted
    <3>1. page = "buckets" /\ local \in BucketsLocal
      BY <1>4, <2>1, MountedSender, PageLocal DEF BucketTail, Sender
    <3>2. FreshBuckets \in BucketsLocal
      BY DEF FreshBuckets, BucketsLocal
    <3>3. local' = [FreshBuckets EXCEPT !.made = local.made]
      BY <1>4, <2>1 DEF BucketTail
    <3>4. local' \in BucketsLocal
      BY <3>1, <3>2, <3>3 DEF BucketsLocal
    <3>5. QED
      BY <3>1, <3>4, PageFits
  <2>2. QED
    BY <1>1, <1>4, <2>1 DEF BucketTail
<1>5. CASE BucketPosted(c)
  <2>1. CASE c.mounted
    <3>1. page = "buckets" /\ local \in BucketsLocal
      BY <1>5, <2>1, MountedSender, PageLocal DEF BucketPosted, Sender
    <3> DEFINE S == local.made \cup c.reply.rows
    <3>2. S \in SUBSET Rows
      BY <1>2, <3>1 DEF BucketsLocal, ReplyType
    <3>3. local' = [local EXCEPT !.made = S]
      BY <1>5, <2>1 DEF BucketPosted, Made
    <3> HIDE DEF S
    <3>4. local' \in BucketsLocal
      BY <3>1, <3>2, <3>3 DEF BucketsLocal
    <3>5. QED
      BY <3>1, <3>4, PageFits
  <2>2. QED
    BY <1>1, <1>5, <2>1 DEF BucketPosted, Made
<1>6. CASE VideoDeleteFails(c) \/ VideoDeleted(c)
  <2>1. CASE c.mounted
    <3>1. page = "video" /\ local \in VideoLocal
      BY <1>6, <2>1, MountedSender, PageLocal DEF VideoDeleteFails, VideoDeleted, Sender
    <3>2. local' = [local EXCEPT !.deleting = FALSE] \/ local' = [local EXCEPT !.open = FALSE]
      BY <1>6, <2>1 DEF VideoDeleteFails, VideoDeleted
    <3>3. local' \in VideoLocal
      BY <3>1, <3>2 DEF VideoLocal
    <3>4. QED
      BY <3>1, <3>3, PageFits
  <2>2. QED
    BY <1>1, <1>6, <2>1 DEF VideoDeleteFails, VideoDeleted
<1>7. CASE SubscriptionLoaded(c) \/ ToppedUp(c)
  <2>1. PICK r \in Outcomes(c) :
            local' \in {local, [local EXCEPT !.balance = r.n],
                        [local EXCEPT !.balance = r.n, !.open = FALSE]}
    BY <1>7 DEF SubscriptionLoaded, ToppedUp
  <2>2. CASE c.mounted
    <3>1. page = "billing" /\ local \in BillingLocal /\ local.balance <= server.balance
      BY <1>7, <2>2, MountedSender, PageLocal DEF SubscriptionLoaded, ToppedUp, Sender
    <3>2. local' \in BillingLocal /\ local'.balance \in {local.balance, r.n}
      BY <1>2, <2>1, <3>1 DEF BillingLocal
    <3>3. local'.balance <= server.balance
      BY <1>2, <3>1, <3>2
    <3>4. QED
      BY <3>1, <3>2, <3>3, PageFits
  <2>3. QED
    BY <1>1, <1>7, <2>2 DEF SubscriptionLoaded, ToppedUp
<1>8. CASE BrandingLoaded(c) \/ BrandingSaved(c) \/ AssetPosted(c) \/ AssetTimer(c)
  <2>1. CASE c.mounted
    <3>1. page = "branding" /\ local \in BrandingLocal
      BY <1>8, <2>1, MountedSender, PageLocal
      DEF BrandingLoaded, BrandingSaved, AssetPosted, AssetTimer, Sender
    <3>2. \/ local' = local
          \/ \E pro \in {local.pro, "yes", "no"} : local' = [local EXCEPT !.pro = pro]
          \/ local' = [local EXCEPT !.saving = FALSE]
          \/ local' = [local EXCEPT !.uploading = FALSE]
          \/ local' = [local EXCEPT !.asset = TRUE, !.uploading = FALSE]
      <4>1. CASE BrandingLoaded(c)
        <5>1. PICK r \in Outcomes(c) :
                  local' = [local EXCEPT !.pro = IF r.status = 200 THEN "yes"
                                                 ELSE IF r.status = 403 THEN "no" ELSE @]
          BY <2>1, <4>1 DEF BrandingLoaded
        <5>2. QED
          BY <5>1
      <4>2. CASE BrandingSaved(c)
        BY <2>1, <4>2 DEF BrandingSaved
      <4>3. CASE AssetPosted(c)
        BY <2>1, <4>3 DEF AssetPosted
      <4>4. CASE AssetTimer(c)
        BY <2>1, <4>4 DEF AssetTimer
      <4>5. QED
        BY <1>8, <4>1, <4>2, <4>3, <4>4
    <3>3. local' \in BrandingLocal
      BY <3>1, <3>2 DEF BrandingLocal
    <3>4. QED
      BY <3>1, <3>3, PageFits
  <2>2. CASE ~c.mounted
    <3>1. local' = local
      BY <1>8, <2>2 DEF BrandingLoaded, BrandingSaved, AssetPosted, AssetTimer
    <3>2. QED
      BY <1>1, <3>1
  <2>3. QED
    BY <2>1, <2>2
<1>9. CASE NameTimer(c)
  <2>1. CASE c.mounted
    <3>1. page = "settings" /\ local \in SettingsLocal
      BY <1>9, <2>1, MountedSender, PageLocal DEF NameTimer, Sender
    <3>2. local' \in SettingsLocal
      BY <1>9, <2>1, <3>1 DEF NameTimer, SettingsLocal
    <3>3. QED
      BY <3>1, <3>2, PageFits
  <2>2. QED
    BY <1>1, <1>9, <2>1 DEF NameTimer
<1>10. CASE BucketFails(c) \/ InvoicesLoaded(c) \/ PortalFails(c)
  BY <1>1, <1>10 DEF BucketFails, InvoicesLoaded, PortalFails
<1>11. QED
  BY <1>3, <1>4, <1>5, <1>6, <1>7, <1>8, <1>9, <1>10 DEF Endings

LEMMA LocalStep ==
    ASSUME IInv, [Next]_vars
    PROVE  LocalInv'
<1>1. /\ ShellInv /\ LocalInv /\ CacheInv /\ server.balance \in Nat
      /\ page # "crashed" => Fits(local, page, server.balance)
  BY LocalFits DEF IInv, ServerInv, Account
<1>2. ASSUME page' = page, server' = server, page # "crashed" => Fits(local', page, server.balance)
      PROVE  LocalInv'
  BY <1>2, LocalFitsNext
<1>3. ASSUME NEW p \in Pages, NEW i \in Nat, server'.balance \in Nat,
             page' = "crashed" \/ (page' = p /\ local' = Fresh(p, i))
      PROVE  LocalInv'
  BY <1>3, FreshFits, LocalFitsNext
<1>4. CASE Inputs
  BY <1>2, <1>4, InputKinds, InputLocal
<1>5. CASE Sendings
  BY <1>2, <1>5, SendingKinds, SendingLocal
<1>6. CASE Refetches
  BY <1>1, <1>2, <1>6, RefetchKinds
<1>7. CASE Moves
  <2>1. server' = server /\ (Stays \/ \E p \in Pages, i \in Nat : MovesTo(p, i))
    BY <1>1, <1>7, MoveKinds
  <2>2. CASE Stays
    BY <1>1, <1>2, <2>1, <2>2 DEF Stays
  <2>3. ASSUME NEW p \in Pages, NEW i \in Nat, MovesTo(p, i)
        PROVE  LocalInv'
    <3>1. page' = "crashed" \/ (page' = p /\ local' = Fresh(p, i))
      BY <2>3 DEF MovesTo, Mount
    <3>2. QED
      BY <1>1, <1>3, <2>1, <3>1
  <2>4. QED
    BY <2>1, <2>2, <2>3
<1>8. CASE Loads
  <2>1. PICK p \in Pages, i \in Nat : Load(p, i)
    BY <1>1, <1>8, LoadKinds
  <2>2. page' = p /\ local' = Fresh(p, i) /\ server' = server
    BY <2>1 DEF Load
  <2>3. QED
    BY <1>1, <1>3, <2>2
<1>9. CASE handleTopUp \/ handleDeleteVideo
  <2>1. page' = page /\ server' = server
    BY <1>9 DEF handleTopUp, handleDeleteVideo, shell
  <2>2. QED
    BY <1>2, <1>9, <2>1, SendingLocal
<1>10. CASE TranscodeEnds
  <2>1. page' = page /\ local' = local /\ server' = [server EXCEPT !.busy = {}]
    BY <1>10 DEF TranscodeEnds
  <2>2. server'.balance = server.balance
    BY <2>1 DEF IInv, ServerInv, Account
  <2>3. QED
    BY <1>1, <2>1, <2>2, LocalFitsNext
<1>11. ASSUME NEW c \in calls, \/ Endings(c) \/ SubscriptionLoaded(c) \/ AssetPosted(c)
                               \/ BucketPosted(c) \/ VideoDeleted(c)
       PROVE  LocalInv'
  <2>1. page' = page /\ server' = server
    BY <1>11, EndingKinds
    DEF SubscriptionLoaded, AssetPosted, BucketPosted, VideoDeleted, shell
  <2>2. QED
    BY <1>2, <1>11, <2>1, CallLocal
<1>12. ASSUME NEW c \in calls, Fetched(c)
       PROVE  LocalInv'
  <2>1. server' = server /\ (page' = "crashed" \/ (page' = page /\ local' = local))
    BY <1>12, FetchedKinds DEF Fetched
  <2>2. CASE page' = "crashed"
    BY <2>2, LocalFitsNext
  <2>3. CASE page' = page /\ local' = local
    BY <1>1, <1>2, <2>1, <2>3
  <2>4. QED
    BY <2>1, <2>2, <2>3
<1>13. ASSUME NEW c \in calls, Serve(c)
       PROVE  LocalInv'
  <2>1. page' = page /\ local' = local
    BY <1>13 DEF Serve
  <2>2. server'.balance \in Nat /\ server.balance <= server'.balance
    <3>1. PICK r : Answered(c, r)
      BY <1>13, ServeKinds
    <3>2. QED
      BY <1>1, <3>1 DEF Answered
  <2>3. page = "billing" => local.balance \in Nat /\ local.balance <= server.balance
    BY PageLocal DEF BillingLocal
  <2>4. page = "billing" => local.balance <= server'.balance
    BY <1>1, <2>2, <2>3
  <2>5. QED
    BY <1>1, <2>1, <2>4 DEF LocalInv
<1>14. QED
  BY <1>4, <1>5, <1>6, <1>7, <1>8, <1>9, <1>10, <1>11, <1>12, <1>13, NextKinds

-----------------------------------------------------------------------------
(* The pages use the store of the toasts by its operations alone. *)

Announces == \/ UNCHANGED toastVars
             \/ \E title \in Titles : toast(title)
Uploads == /\ count' = count + 2 /\ timers' = timers
           /\ toasts' = AddToast(AddToast(toasts, count + 1, "plain"), count + 2, "destructive")
Forgets == count' = 0 /\ toasts' = {} /\ timers' = {}

LEMMA ToastKinds ==
    ASSUME IInv, [Next]_vars
    PROVE  Announces \/ Uploads \/ Forgets \/ \E id \in 1..count : Dismiss(id) \/ TimerFires(id)
<1>1. "plain" \in Titles /\ "destructive" \in Titles
  BY BrowserAssumption
<1>2. toast("plain") \/ toast("destructive") \/ UNCHANGED toastVars => Announces
  BY <1>1 DEF Announces
<1>3. CASE Inputs
  <2>1. CASE \/ KeysInput \/ BucketsInput \/ BucketInput \/ VideosInput \/ VideoInput
             \/ ConvertInput \/ BillingInput \/ TeamInput \/ handleDeleteAccount \/ handleInvite
             \/ \E i \in Rows : togglePrefix(i)
             \/ \E type \in {"all"} \cup actionTypes : setFilter(type)
             \/ OpenPalette \/ TogglePalette \/ UNCHANGED vars
    BY <1>2, <2>1 DEF KeysInput, BucketsInput, BucketInput, VideosInput, VideoInput,
       ConvertInput, BillingInput, TeamInput, handleDeleteAccount, handleInvite, togglePrefix,
       setFilter, OpenPalette, TogglePalette, vars
  <2>2. CASE handleCreate \/ handleSaveName \/ handleCreateJob \/ \E i \in Rows : handleRevoke(i)
    BY <1>2, <2>2 DEF handleCreate, handleSaveName, handleCreateJob, handleRevoke
  <2>3. CASE handleFileSelected
    BY <2>3 DEF handleFileSelected, Uploads
  <2>4. CASE \E id \in Closable : CloseToast(id)
    <3>1. Closable \subseteq 1..count
      <4>1. \A t \in toasts : t.id \in Nat \ {0} /\ t.id <= count /\ count \in Nat
        BY DEF IInv, ToastInv, StoreInv, ToastTypeOK, ToasterToast
      <4>2. QED
        BY <4>1 DEF Closable
    <3>2. QED
      BY <2>4, <3>1 DEF CloseToast
  <2>5. CASE \E id \in timers : ToastTimer(id)
    BY <2>5 DEF ToastTimer, IInv, ToastInv, StoreInv, ToastTypeOK
  <2>6. QED
    BY <1>3, <2>1, <2>2, <2>3, <2>4, <2>5 DEF Inputs
<1>4. CASE Sendings
  BY <1>2, <1>4 DEF Sendings, handleCopy, handleCreateBucket, handlePortalRedirect, handleSave,
                    handleFileUpload, handleSaveAccountName
<1>5. CASE Refetches
  BY <1>2, <1>5, RefetchKinds
<1>6. CASE Moves
  BY <1>2, <1>6
  DEF Moves, Sidebar, HomeLink, OpenRow, Choose, handleDelete, DeleteTail, Visit
<1>7. CASE Loads
  BY <1>7, LoadKinds DEF Load, Forgets, IInv
<1>8. CASE handleTopUp \/ handleDeleteVideo \/ TranscodeEnds
  BY <1>2, <1>8 DEF handleTopUp, handleDeleteVideo, TranscodeEnds
<1>9. ASSUME NEW c \in calls, Endings(c)
      PROVE  Announces
  BY <1>2, <1>9 DEF Endings, CopyTimer, BucketTail, BucketFails, VideoDeleteFails,
     InvoicesLoaded, ToppedUp, PortalFails, BrandingLoaded, BrandingSaved, AssetTimer, NameTimer
<1>10. ASSUME NEW c \in calls,
              \/ SubscriptionLoaded(c) \/ AssetPosted(c) \/ BucketPosted(c) \/ VideoDeleted(c)
              \/ Fetched(c) \/ Serve(c)
       PROVE  Announces
  BY <1>2, <1>10 DEF SubscriptionLoaded, AssetPosted, BucketPosted, VideoDeleted, Fetched, Told,
     Serve
<1>11. QED
  BY <1>3, <1>4, <1>5, <1>6, <1>7, <1>8, <1>9, <1>10, NextKinds

(* Two toasts at once: each of them is open, and has an id of its own. *)
LEMMA UploadToasts ==
    ASSUME ToastInv, Uploads, "plain" \in Titles, "destructive" \in Titles
    PROVE  ToastInv'
<1> USE DEF ToastInv, StoreInv, ToastTypeOK, ClosedToastLeaves, OneToastPerId, ToasterToast
<1> DEFINE one == [id |-> count + 1, title |-> "plain", open |-> TRUE]
           two == [id |-> count + 2, title |-> "destructive", open |-> TRUE]
<1>1. toasts' \subseteq toasts \cup {one, two}
  <2> DEFINE list == AddToast(toasts, count + 1, "plain")
  <2>1. list \subseteq toasts \cup {one}
    BY AddToastAdds
  <2>2. toasts' = AddToast(list, count + 2, "destructive")
    BY DEF Uploads
  <2> HIDE DEF list
  <2>3. toasts' \subseteq list \cup {two}
    BY <2>2, AddToastAdds
  <2>4. QED
    BY <2>1, <2>3
<1>2. one \in ToasterToast /\ two \in ToasterToast
  OBVIOUS
<1>3. \A t \in toasts : t.id \in Nat /\ t.id < count + 1 /\ t.id < count + 2
  OBVIOUS
<1>4. one.id = count + 1 /\ two.id = count + 2 /\ one.id # two.id /\ one.open /\ two.open
  OBVIOUS
<1>5. timers' = timers /\ count' = count + 2
  BY DEF Uploads
<1> HIDE DEF one, two
<1>6. ToastTypeOK'
  <2>1. count' \in Nat /\ timers' \subseteq 1..count'
    BY <1>5
  <2>2. toasts' \subseteq ToasterToast
    BY <1>1, <1>2
  <2>3. \A t \in toasts' : t.id <= count'
    BY <1>1, <1>3, <1>4, <1>5
  <2>4. QED
    BY <2>1, <2>2, <2>3
<1>7. ClosedToastLeaves'
  BY <1>1, <1>4, <1>5
<1>8. OneToastPerId'
  <2>1. \A t \in toasts : t.id # one.id /\ t.id # two.id
    BY <1>3, <1>4
  <2>2. QED
    BY <1>1, <1>4, <2>1
<1>9. QED
  BY <1>6, <1>7, <1>8

LEMMA DashboardToasts ==
    ASSUME IInv, [Next]_vars
    PROVE  ToastInv'
<1>1. ToastInv /\ "plain" \in Titles /\ "destructive" \in Titles
  BY BrowserAssumption DEF IInv
<1>2. CASE Announces \/ \E id \in 1..count : Dismiss(id) \/ TimerFires(id)
  <2>1. [DismissNext]_toastVars
    BY <1>2 DEF Announces, DismissNext
  <2>2. QED
    BY <1>1, <2>1, ToastStep
<1>3. CASE Uploads
  BY <1>1, <1>3, UploadToasts
<1>4. CASE Forgets
  BY <1>4 DEF Forgets, ToastInv, StoreInv, ToastTypeOK, ClosedToastLeaves, OneToastPerId
<1>5. QED
  BY <1>2, <1>3, <1>4, ToastKinds

-----------------------------------------------------------------------------

LEMMA DashboardInit == Init => IInv
<1> SUFFICES ASSUME Init
             PROVE  IInv
  OBVIOUS
<1>1. tour \in Tours /\ tour \subseteq Pages
  BY BrowserAssumption DEF Init
<1>2. page \in tour /\ local = Fresh(page, 1) /\ calls = FirstCalls(page, 1)
  BY DEF Init
<1>3. PICK busy \in {{}, {1}} :
          server = [keys |-> {1}, buckets |-> {1}, videos |-> {1}, busy |-> busy, balance |-> 0]
  BY DEF Init
<1>4. page \in Pages /\ page \in Pages \cup {"crashed"}
  BY <1>1, <1>2
<1>5. Legal(calls, page) /\ \A d \in calls : Begun(d, page)
  BY <1>2, <1>4, FirstCallsLegal
<1>6. \A d \in calls : d.reply = NoReply /\ d.op # "postFunds" /\ d.op \notin Deletes
  BY <1>5 DEF Begun, Started
<1>7. ShellInv
  BY <1>1, <1>4, BrowserAssumption DEF ShellInv, Init
<1>8. PaletteInv
  BY DEF Init, PaletteInv
<1>9. ServerInv /\ server.balance = 0
  <2>1. {1} \subseteq Rows /\ busy \subseteq {1}
    BY <1>3, BrowserAssumption
  <2>2. QED
    BY <1>3, <2>1 DEF ServerInv, Account
<1>10. LocalInv
  <2>1. Fits(local, page, server.balance)
    BY <1>2, <1>4, <1>9, FreshFits DEF ServerInv, Account
  <2>2. QED
    BY <2>1, LocalFits
<1>11. CacheInv
  BY KeptEmpty DEF Init, CacheInv, WellKept
<1>12. RepliesInv
  <2>1. \A d \in calls : Honest(NoReply, d)
    BY <1>9, NoReplyType DEF Honest
  <2>2. QED
    BY <1>6, <2>1 DEF RepliesInv
<1>13. PaymentsInv
  <2>1. Unpaid(calls) = {}
    BY <1>6 DEF Unpaid
  <2>2. clicks = 0
    BY DEF Init
  <2>3. QED
    BY <1>9, <2>1, <2>2, FS_EmptySet DEF PaymentsInv
<1>14. DeletionInv
  BY <1>6 DEF DeletionInv
<1>15. CreatedInv
  <2> SUFFICES ASSUME page = "buckets"
               PROVE  CreatedInv
    BY DEF CreatedInv
  <2>1. local.made = {}
    BY <1>2 DEF Fresh, FreshBuckets
  <2>2. QED
    BY <2>1 DEF CreatedInv
<1>16. ToastInv
  BY DEF Init, ToastInit, ToastInv, StoreInv, ToastTypeOK, ClosedToastLeaves, OneToastPerId
<1>17. QED
  BY <1>5, <1>7, <1>8, <1>9, <1>10, <1>11, <1>12, <1>13, <1>14, <1>15, <1>16 DEF IInv

(* IInv is inductive: no order of clicks, answers, losses, retries, moves  *)
(* and reloads leaves it.                                                  *)
THEOREM DashboardInductive == Spec => []IInv
<1>1. IInv /\ [Next]_vars => IInv'
  <2> SUFFICES ASSUME IInv, [Next]_vars
               PROVE  IInv'
    OBVIOUS
  <2>1. ShellInv' /\ PaletteInv'
    BY ShellStep, PaletteStep DEF IInv
  <2>2. Legal(calls', page') /\ ServerInv' /\ RepliesInv' /\ PaymentsInv'
    BY StateStep
  <2>3. LocalInv' /\ CacheInv' /\ DeletionInv' /\ CreatedInv' /\ ToastInv'
    BY LocalStep, CacheStep, DeletionStep, CreatedStep, DashboardToasts
  <2>4. QED
    BY <2>1, <2>2, <2>3 DEF IInv
<1>2. QED
  BY <1>1, DashboardInit, PTL DEF Spec

LEMMA SameFields ==
    ASSUME NEW p \in Pages, NEW l \in LocalType(p), NEW m \in LocalType(p)
    PROVE  DOMAIN l = DOMAIN m
<1>1. /\ \A k, n \in HomeLocal : DOMAIN k = DOMAIN n
      /\ \A k, n \in KeysLocal : DOMAIN k = DOMAIN n
      /\ \A k, n \in BucketsLocal : DOMAIN k = DOMAIN n
  BY DEF HomeLocal, KeysLocal, BucketsLocal
<1>2. /\ \A k, n \in BucketLocal : DOMAIN k = DOMAIN n
      /\ \A k, n \in VideosLocal : DOMAIN k = DOMAIN n
      /\ \A k, n \in VideoLocal : DOMAIN k = DOMAIN n
  BY DEF BucketLocal, VideosLocal, VideoLocal
<1>3. /\ \A k, n \in ActivityLocal : DOMAIN k = DOMAIN n
      /\ \A k, n \in ConvertLocal : DOMAIN k = DOMAIN n
      /\ \A k, n \in BillingLocal : DOMAIN k = DOMAIN n
  BY DEF ActivityLocal, ConvertLocal, BillingLocal
<1>4. /\ \A k, n \in BrandingLocal : DOMAIN k = DOMAIN n
      /\ \A k, n \in SettingsLocal : DOMAIN k = DOMAIN n
      /\ \A k, n \in TeamLocal : DOMAIN k = DOMAIN n
  BY DEF BrandingLocal, SettingsLocal, TeamLocal
<1>5. LocalType(p) \in {HomeLocal, KeysLocal, BucketsLocal, BucketLocal, VideosLocal, VideoLocal,
                       ActivityLocal, ConvertLocal, BillingLocal, BrandingLocal, SettingsLocal,
                       TeamLocal}
  BY LocalTypes DEF Pages
<1>6. QED
  BY <1>1, <1>2, <1>3, <1>4, <1>5

(* The cache, the calls and the account are well formed; the balance on    *)
(* the page never runs ahead of the account's, nor that of the account     *)
(* ahead of what the user has paid in.                                     *)
THEOREM DashboardTypes == Spec => []DashboardTypeOK
<1>1. IInv => DashboardTypeOK
  <2> SUFFICES ASSUME IInv
               PROVE  DashboardTypeOK
    OBVIOUS
  <2>1. page \in Pages \cup {"crashed"} /\ palette \in BOOLEAN
    BY DEF IInv, ShellInv, PaletteInv
  <2>2. page # "crashed" => DOMAIN local = DOMAIN Fresh(page, 0)
    <3> SUFFICES ASSUME page \in Pages, page # "crashed"
                 PROVE  DOMAIN local = DOMAIN Fresh(page, 0)
      BY <2>1
    <3>1. local \in LocalType(page)
      BY DEF IInv, LocalInv
    <3>2. Fresh(page, 0) \in LocalType(page)
      BY FreshFits DEF Fits
    <3>3. QED
      BY <3>1, <3>2, SameFields
  <2>3. \A k \in Keys : cache[k].rows \subseteq Rows /\ cache[k].busy \subseteq cache[k].rows
    BY DEF IInv, CacheInv, Held
  <2>4. \A c, d \in calls : c.id = d.id => c = d
    BY DEF IInv, Legal
  <2>5. \A c, d \in calls : c.op = "query" /\ c.key = d.key => c = d
    <3> SUFFICES ASSUME NEW c \in calls, NEW d \in calls, c.op = "query", c.key = d.key
                 PROVE  c = d
      OBVIOUS
    <3>1. c.key \in Keys
      BY DEF IInv, Legal, Proper
    <3>2. d.op = "query"
      BY <3>1, KeysAreNotEmpty DEF IInv, Legal, Proper
    <3>3. QED
      BY <3>2 DEF IInv, Legal
  <2>6. server.videos \subseteq Rows /\ server.busy \subseteq server.videos
    BY DEF IInv, ServerInv, Account
  <2>7. server.balance <= MaxClicks
    <3>1. Cardinality(Unpaid(calls)) \in Nat
      BY UnpaidFinite DEF IInv, Legal
    <3>2. /\ Cardinality(Unpaid(calls)) + server.balance <= clicks
          /\ server.balance \in Nat /\ clicks \in Nat /\ clicks <= MaxClicks /\ MaxClicks \in Nat
      BY BrowserAssumption DEF IInv, PaymentsInv, ServerInv, Account, ShellInv
    <3>3. QED
      BY <3>1, <3>2
  <2>8. page = "billing" => local.balance \in 0..server.balance
    BY PageLocal DEF BillingLocal, IInv, ServerInv, Account
  <2>9. ToastTypeOK
    BY DEF IInv, ToastInv, StoreInv
  <2>10. QED
    BY <2>1, <2>2, <2>3, <2>4, <2>5, <2>6, <2>7, <2>8, <2>9 DEF DashboardTypeOK
<1>2. QED
  BY <1>1, DashboardInductive, PTL

(* The bucket a page has created never leaves the list of that page.       *)
THEOREM CreatedStays == Spec => []CreatedIsListed
<1>1. IInv => CreatedIsListed
  BY DEF IInv, CreatedInv, CreatedIsListed
<1>2. QED
  BY <1>1, DashboardInductive, PTL

(* No sequence of clicks has a page send a second deletion while one of    *)
(* its deletions is out or waits for the list.                             *)
THEOREM DeletesOnce == Spec => []OneDeletion
<1>1. IInv => OneDeletion
  <2> SUFFICES ASSUME IInv
               PROVE  OneDeletion
    OBVIOUS
  <2> DEFINE S == {c \in calls : c.mounted /\ c.op \in {"deleteVideo", "deleteTail"}}
  <2>1. \A c, d \in S : c = d
    BY DEF IInv, DeletionInv, Deletes
  <2> HIDE DEF S
  <2>2. CASE S = {}
    <3>1. Cardinality(S) = 0
      BY <2>2, FS_EmptySet
    <3>2. QED
      BY <3>1 DEF OneDeletion, S
  <2>3. CASE \E c : c \in S
    <3>1. PICK c : c \in S
      BY <2>3
    <3>2. S = {c}
      BY <2>1, <3>1
    <3>3. Cardinality(S) = 1
      BY <3>2, FS_Singleton
    <3>4. QED
      BY <3>3 DEF OneDeletion, S
  <2>4. QED
    BY <2>2, <2>3
<1>2. QED
  BY <1>1, DashboardInductive, PTL

(* Whatever the pages do with the store, a toast that was closed has the   *)
(* timer that takes it out.                                                *)
THEOREM DashboardToastsLeave == Spec => []ClosedToastLeaves
<1>1. IInv => ClosedToastLeaves
  BY DEF IInv, ToastInv
<1>2. QED
  BY <1>1, DashboardInductive, PTL
=============================================================================
