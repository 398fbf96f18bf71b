---------------------------- MODULE StoragePages ----------------------------
(***************************************************************************)
(* The pages for API keys, buckets and one bucket                          *)
(* (app/dashboard/keys, buckets, buckets/[id]).  Text fields are told by   *)
(* whether they are filled in.                                             *)
(***************************************************************************)
EXTENDS Browser

-----------------------------------------------------------------------------
(* keys/page.tsx.  Keys are made and revoked in the cache alone.           *)

FreshKeys == [id |-> 0, open |-> FALSE, named |-> FALSE, made |-> FALSE,
              copied |-> {}]  \* copied: the key marked as copied, 0 the new one

(* What a queryFn makes of a reply; without a value it threw. *)
FetchKeys(r) ==
    [value |-> IF r.status = 200 THEN Holding(r.rows, {}, "array") ELSE Nothing,
     told |-> r.status \in {401, 403, 429}]

KeyRows == cache[KeysKey].rows

(* What the page offers: the dialog hides the table. *)
KeysOffer ==
    IF ~local.open
    THEN {"open"} \cup (IF KeyRows = {} THEN {} ELSE {"copy", "revoke"})
    ELSE IF local.made THEN {"copyNew", "close"}
    ELSE {"close", "type"} \cup (IF local.named THEN {"create"} ELSE {})

handleCopy(i) ==
    /\ On("keys") /\ Click /\ Room
    /\ IF i = 0 THEN "copyNew" \in KeysOffer ELSE "copy" \in KeysOffer /\ i \in KeyRows
    /\ local' = [local EXCEPT !.copied = {i}]
    /\ calls' = Send("copyTimer", i)
    /\ toast("plain")
    /\ UNCHANGED <<shell, cache, server>>

(* setTimeout(() => setCopiedId(null), 2000), of whichever copy *)
CopyTimer(c) ==
    /\ c.op = "copyTimer"
    /\ calls' = calls \ {c}
    /\ local' = IF c.mounted THEN [local EXCEPT !.copied = {}] ELSE local
    /\ UNCHANGED <<shell, cache, server, clicks, toastVars>>

handleCreate ==
    /\ On("keys") /\ Click /\ "create" \in KeysOffer
    /\ \E i \in Rows \ KeyRows :
          cache' = SetData(cache, KeysKey, Holding(KeyRows \cup {i}, {}, "array"))
    /\ local' = [local EXCEPT !.made = TRUE]
    /\ UNCHANGED <<shell, calls, server, toastVars>>

handleRevoke(i) ==
    /\ On("keys") /\ Click /\ "revoke" \in KeysOffer /\ i \in KeyRows
    /\ cache' = SetData(cache, KeysKey, Holding(KeyRows \ {i}, {}, "array"))
    /\ toast("destructive")
    /\ UNCHANGED <<shell, local, calls, server>>

(* The other controls of the dialog; closing it resets it. *)
KeysInput ==
    /\ On("keys")
    /\ \/ /\ "open" \in KeysOffer
          /\ local' = [local EXCEPT !.open = TRUE]
       \/ /\ "type" \in KeysOffer
          /\ local' = [local EXCEPT !.named = ~@]
       \/ /\ "close" \in KeysOffer
          /\ local' = [FreshKeys EXCEPT !.copied = local.copied]
    /\ UNCHANGED <<shell, net, clicks, toastVars>>

-----------------------------------------------------------------------------
(* buckets/page.tsx *)

(* made, the buckets this mount of the page has created, is an             *)
(* observation.                                                            *)
FreshBuckets == [id |-> 0, open |-> FALSE, filled |-> FALSE, made |-> {}]

FetchBuckets(r) ==
    [value |-> IF r.status = 200 THEN Holding(r.rows, {}, "array") ELSE Nothing,
     told |-> FALSE]

(* The table, its absence, or the failure to load it; the form over them. *)
BucketsOffer ==
    IF local.open THEN {"close", "type"} \cup (IF local.filled THEN {"create"} ELSE {})
    ELSE {"open"} \cup (IF cache[BucketsKey].failed THEN {"retry"}
                        ELSE IF cache[BucketsKey].rows = {} THEN {} ELSE {"bucket"})

BucketsInput ==
    /\ On("buckets")
    /\ \/ /\ BucketsOffer \cap {"open", "close"} # {}
          /\ local' = [local EXCEPT !.open = ~@]
       \/ /\ "type" \in BucketsOffer
          /\ local' = [local EXCEPT !.filled = ~@]
    /\ UNCHANGED <<shell, net, clicks, toastVars>>

(* Nothing keeps the form from being sent again while a request is out. *)
handleCreateBucket ==
    /\ On("buckets") /\ Click /\ "create" \in BucketsOffer /\ Room
    /\ calls' = Send("postBucket", 0)
    /\ UNCHANGED <<shell, local, cache, server, toastVars>>

Made(c) == IF c.mounted THEN [local EXCEPT !.made = @ \cup c.reply.rows] ELSE local

(* The new row is put into the cache while the list is being read: the     *)
(* read goes on and may overwrite it.                                      *)
BucketPosted_KeepsRead(c) ==
    /\ c.op = "postBucket" /\ c.reply.status = 200
    /\ LET old == cache[BucketsKey]
           ca  == SetData(cache, BucketsKey, Holding(old.rows \cup c.reply.rows, {}, "array"))
       IN  /\ cache' = ca
           /\ calls' = LET cs == calls \ {c}
                       IN  cs \cup {[Call(cs, "bucketTail", <<>>, c.by, 0, Fetching(cs, BucketsKey))
                                     EXCEPT !.mounted = c.mounted]}
    /\ local' = Made(c)
    /\ UNCHANGED <<shell, server, clicks, toastVars>>

(* The API answered 201: the row goes into the cache, and the handler      *)
(* awaits the refetch of the list.                                         *)
BucketPosted(c) ==
    /\ c.op = "postBucket" /\ c.reply.status = 200
    /\ LET old == cache[BucketsKey]
           ca  == SetData(cache, BucketsKey, Holding(old.rows \cup c.reply.rows, {}, "array"))
           cs  == Refetched(calls \ {c}, ca, BucketsKey)
           on  == IF BucketsKey \in Watched(ca) THEN Fetching(cs, BucketsKey) ELSE 0
       IN  /\ cache' = Marked(ca, BucketsKey)
           /\ calls' = cs \cup {[Call(cs, "bucketTail", <<>>, c.by, 0, on)
                                 EXCEPT !.mounted = c.mounted]}
    /\ local' = Made(c)
    /\ UNCHANGED <<shell, server, clicks, toastVars>>

(* After the await: the dialog closes and the toast says "created". *)
BucketTail(c) ==
    /\ c.op = "bucketTail" /\ \A d \in calls : d.id # c.on
    /\ calls' = calls \ {c}
    /\ local' = IF c.mounted THEN [FreshBuckets EXCEPT !.made = local.made] ELSE local
    /\ toast("plain")
    /\ UNCHANGED <<shell, cache, server, clicks>>

BucketFails(c) ==
    /\ c.op = "postBucket"
    /\ \E r \in Outcomes(c) : r.status # 200
    /\ calls' = calls \ {c}
    /\ toast("destructive")
    /\ UNCHANGED <<shell, local, cache, server, clicks>>

RetryBuckets ==
    /\ On("buckets") /\ Click /\ "retry" \in BucketsOffer /\ Room
    /\ cache' = Marked(cache, BucketsKey)
    /\ calls' = Refetched(calls, cache, BucketsKey)
    /\ UNCHANGED <<shell, local, server, toastVars>>

-----------------------------------------------------------------------------
(* buckets/[id]/page.tsx.  Renaming and deleting are only announced.       *)

FreshBucket(i) == [id |-> i, editing |-> FALSE, changed |-> FALSE, open |-> FALSE,
                   expanded |-> {}]

FetchObjects(r) == FetchBuckets(r)

(* Loading, not found, or the bucket with its objects by prefix (here one  *)
(* prefix per object).                                                     *)
BucketOffer ==
    IF local.id \notin cache[BucketsKey].rows THEN {}
    ELSE IF local.open THEN {"close", "delete"}
    ELSE {"open", "prefix"} \cup (IF local.editing THEN {"type", "save", "cancel"} ELSE {"edit"})
groupedObjects == cache[ObjectsKey(local.id)].rows

togglePrefix(i) ==
    /\ On("bucket") /\ Click /\ "prefix" \in BucketOffer /\ i \in groupedObjects
    /\ local' = [local EXCEPT !.expanded = IF i \in @ THEN @ \ {i} ELSE @ \cup {i}]
    /\ UNCHANGED <<shell, net, toastVars>>

handleSaveName ==
    /\ On("bucket") /\ Click /\ "save" \in BucketOffer
    /\ local' = [local EXCEPT !.editing = FALSE]
    /\ IF local.changed THEN toast("plain") ELSE UNCHANGED toastVars
    /\ UNCHANGED <<shell, net>>

BucketInput ==
    /\ On("bucket") /\ Click
    /\ \/ /\ BucketOffer \cap {"open", "close"} # {}
          /\ local' = [local EXCEPT !.open = ~@]
       \/ /\ "edit" \in BucketOffer
          /\ local' = [local EXCEPT !.editing = TRUE, !.changed = FALSE]
       \/ /\ "type" \in BucketOffer
          /\ local' = [local EXCEPT !.changed = ~@]
       \/ /\ "cancel" \in BucketOffer
          /\ local' = [local EXCEPT !.editing = FALSE]
    /\ UNCHANGED <<shell, net, toastVars>>

handleDelete ==
    /\ On("bucket") /\ Click /\ "delete" \in BucketOffer
    /\ toast("destructive")
    /\ Mount(calls, "buckets", 0, FreshBuckets, {})
    /\ UNCHANGED <<tour, palette, server>>

StoragePagesNext ==
    \/ \E i \in Rows \cup {0} : handleCopy(i)
    \/ \E i \in Rows : handleRevoke(i) \/ togglePrefix(i)
    \/ handleCreate \/ KeysInput
    \/ BucketsInput \/ handleCreateBucket \/ RetryBuckets
    \/ \E c \in calls : CopyTimer(c) \/ BucketPosted(c) \/ BucketTail(c) \/ BucketFails(c)
    \/ handleSaveName \/ BucketInput \/ handleDelete
=============================================================================
