------------------------------ MODULE Browser ------------------------------
(***************************************************************************)
(* One tab of the dashboard (client/dashboard/src): the page it is on, the *)
(* state of the mounted page, the query cache the pages share, the         *)
(* requests and timers that are out, and the API as far as the pages see   *)
(* it.  The query cache, the router and the network are external and are   *)
(* modelled as the pages use them; of the API, the handlers that the pages *)
(* call (server/api/internal).  What each page does is in the modules that *)
(* extend this one.                                                        *)
(*                                                                         *)
(* A request may be lost on its way, or its answer on the way back; either *)
(* way the page sees NoReply.  A request that the page has given up for    *)
(* lost does not arrive later.                                             *)
(***************************************************************************)
EXTENDS Toasts, SequencesExt

Pages == {"home", "keys", "buckets", "bucket", "videos", "video", "activity",
          "convert", "billing", "branding", "settings", "team"}

CONSTANTS
    Rows,      \* ids of keys, buckets, videos, objects: 1..n, 0 for none
    Objects,   \* objects stored in a bucket
    Retries,   \* how often the query cache retries a failed query (3)
    MaxCalls,  \* bound on the requests and timers out at once
    MaxClicks, \* bound on what the user does, other than filling in dialogs
    Tours      \* bound on where the user goes: one of these sets of pages

ASSUME BrowserAssumption ==
    /\ Rows \subseteq Nat \ {0} /\ 1 \in Rows \* the row an account starts with
    /\ Objects \subseteq Rows
    /\ Retries \in Nat /\ MaxCalls \in Nat \ {0} /\ MaxClicks \in Nat
    /\ UNION Tours \subseteq Pages
    /\ Titles = {"plain", "destructive"} \* toasts are told by their variant

VARIABLES
    tour,    \* the pages this user goes to, by the Sidebar and by links
    page,    \* the page mounted, "crashed" when rendering it threw
    palette, \* useCommandPalette.isOpen
    local,   \* useState values of the mounted page
    cache,   \* the query cache, by query key
    calls,   \* requests, awaits of a refetch and timers that are out
    clicks,
    server   \* rows of the account in the API's tables: busy are the ids
             \* whose row of videos has status processing, and balance
             \* counts the payments, which nothing takes from

KeysKey       == <<"apiKeys">>
BucketsKey    == <<"buckets">>
ObjectsKey(i) == <<"buckets", i, "objects">>
VideosKey     == <<"videos">>
PollingKey    == <<"videos", "polling">>
JobsKey       == <<"transcode-jobs">>
Keys == {KeysKey, BucketsKey, VideosKey, PollingKey, JobsKey}
        \cup {ObjectsKey(i) : i \in Rows}

(* What a query holds.  The videos are an array, or the object             *)
(* {videos, next_cursor} of the API as it came.                            *)
Holding(rows, busy, shape) ==
    [has |-> TRUE, rows |-> rows, busy |-> busy, shape |-> shape,
     failed |-> FALSE, stale |-> FALSE]
Nothing == [Holding({}, {}, "array") EXCEPT !.has = FALSE]

NoReply == [status |-> 0, rows |-> {}, busy |-> {}, n |-> 0]
Ok(rows, busy, n) == [status |-> 200, rows |-> rows, busy |-> busy, n |-> n]

-----------------------------------------------------------------------------
(* Requests *)

(* The ids that n new calls may have: neither in use nor awaited. *)
Used(cs) == {c.id : c \in cs} \cup {c.on : c \in cs}
FreeIds(cs, n) == (1..2 * Cardinality(cs) + n) \ Used(cs)

(* on: the request whose end is awaited; arg: the id it is about. *)
CallAs(id, op, key, by, arg, on) ==
    [id |-> id, op |-> op, key |-> key, by |-> by, arg |-> arg, on |-> on,
     tries |-> IF op = "query" THEN Retries ELSE 0, mounted |-> TRUE,
     reply |-> NoReply]
Call(cs, op, key, by, arg, on) ==
    CallAs(CHOOSE i \in FreeIds(cs, 1) : TRUE, op, key, by, arg, on)

Send(op, arg) == calls \cup {Call(calls, op, <<>>, page, arg, 0)}
Awaits == {"bucketTail", "deleteTail"}
Out(cs) == Cardinality({c \in cs : c.op \notin Awaits})
Room == Out(calls) < MaxCalls

(* Queries that use the class motionmesh of the SDK as if it were an        *)
(* instance throw before they send anything: it has no static videos.      *)
Broken(c) == \/ c.key = JobsKey
             \/ c.key = VideosKey /\ c.by \in {"home", "video"}

(* What the handler of a request may find. *)
Outcomes(c) == {c.reply, NoReply}

Refusals(c) == IF c.op = "getBranding" THEN {403, 429, 500}
               ELSE IF c.key \in {KeysKey, VideosKey} THEN {429, 500} ELSE {500}

(* The handlers of the API. *)
ListOf(key) == CASE key = KeysKey -> Ok(server.keys, {}, 0)
                 [] key = BucketsKey -> Ok(server.buckets, {}, 0)
                 [] key \in {VideosKey, PollingKey} -> Ok(server.videos, server.busy, 0)
                 [] OTHER -> Ok(Objects, {}, 0)

Served(c, r) == calls' = (calls \ {c}) \cup {[c EXCEPT !.reply = r]}

CreateBucket(c) ==
    \E new \in Rows \ server.buckets :
       /\ server' = [server EXCEPT !.buckets = @ \cup {new}]
       /\ Served(c, Ok({new}, {}, 0))

(* The row is marked deleted, and no list has it any more. *)
DeleteVideo(c) ==
    /\ c.arg \in server.videos
    /\ server' = [server EXCEPT !.videos = @ \ {c.arg}, !.busy = @ \ {c.arg}]
    /\ Served(c, Ok({}, {}, 0))

AddFunds(c) ==
    /\ server' = [server EXCEPT !.balance = @ + 1]
    /\ Served(c, Ok({}, {}, server.balance + 1))

(* The other handlers that answer from the tables.  The balance is that of *)
(* the account as the authentication last cached it, which may be older.   *)
Read(c) ==
    /\ IF c.op = "query" THEN Served(c, ListOf(c.key))
       ELSE IF c.op = "getBilling"
            THEN \E n \in 0..server.balance : Served(c, Ok({}, {}, n))
       ELSE Served(c, Ok({}, {}, 0))
    /\ UNCHANGED server

Refuse(c) ==
    /\ \E status \in Refusals(c) : Served(c, [NoReply EXCEPT !.status = status])
    /\ UNCHANGED server

Timers == {"copyTimer", "assetTimer", "nameTimer"}

Serve(c) ==
    /\ c.reply = NoReply /\ c.op \notin Timers \cup Awaits /\ ~Broken(c)
    /\ CASE c.op = "postBucket" -> CreateBucket(c) \/ Refuse(c)
         [] c.op = "deleteVideo" -> DeleteVideo(c) \/ Refuse(c)
         [] c.op = "postFunds" -> AddFunds(c) \/ Refuse(c)
         [] OTHER -> Read(c) \/ Refuse(c)
    /\ UNCHANGED <<tour, page, palette, local, cache, clicks, toastVars>>

(* A worker is done with a video (module TranscodeJob). *)
TranscodeEnds ==
    /\ server.busy # {}
    /\ server' = [server EXCEPT !.busy = {}]
    /\ UNCHANGED <<tour, page, palette, local, cache, calls, clicks, toastVars>>

-----------------------------------------------------------------------------
(* Queries *)

(* videos.some of the videos page *)
Processing(ca) == ca[VideosKey].shape = "array" /\ ca[VideosKey].busy # {}

(* The enabled queries of a page that shows row i. *)
Observed(p, i, ca) ==
    CASE p = "home"     -> {VideosKey, BucketsKey}
      [] p = "keys"     -> {KeysKey}
      [] p = "buckets"  -> {BucketsKey}
      [] p = "bucket"   -> {BucketsKey} \cup (IF i \in Rows THEN {ObjectsKey(i)} ELSE {})
      [] p = "videos"   -> {VideosKey} \cup (IF Processing(ca) THEN {PollingKey} ELSE {})
      [] p \in {"video", "activity"} -> {VideosKey}
      [] p = "convert"  -> {JobsKey}
      [] OTHER          -> {}
Watched(ca) == Observed(page, local.id, ca)

Querying(cs, key) == \E c \in cs : c.op = "query" /\ c.key = key
Fetches(cs, keys, by) ==
    LET first == {key \in keys : ~Querying(cs, key)}
        id == CHOOSE f \in [first -> FreeIds(cs, Cardinality(first))] :
                  \A j, k \in first : f[j] = f[k] => j = k
    IN  cs \cup {CallAs(id[key], "query", key, by, 0, 0) : key \in first}

(* setQueryData *)
SetData(ca, key, value) == [ca EXCEPT ![key] = value]

(* invalidateQueries: every query under the key is stale; those on the     *)
(* page are fetched again, and what they were fetching is thrown away,     *)
(* unless it is their first fetch.                                         *)
Under(key) == {k \in Keys : IsPrefix(key, k)}
Marked(ca, key) == [k \in Keys |-> IF k \in Under(key) THEN [ca[k] EXCEPT !.stale = TRUE]
                                   ELSE ca[k]]
Refetched(cs, ca, key) ==
    LET again == Under(key) \cap Watched(ca)
    IN  Fetches({c \in cs : ~(c.op = "query" /\ c.key \in again /\ ca[c.key].has)},
                again, page)
Fetching(cs, key) == IF \E c \in cs : c.op = "query" /\ c.key = key
                     THEN (CHOOSE c \in cs : c.op = "query" /\ c.key = key).id ELSE 0

(* A page that maps, slices or searches the object of the API as if it     *)
(* were the array of videos throws, and no error boundary catches it.      *)
Crashes(p, ca) == /\ p \in {"home", "videos", "video", "activity"}
                  /\ ca[VideosKey].has /\ ca[VideosKey].shape = "object"

(* The cache changed under the mounted page. *)
Shown(ca, cs) ==
    /\ cache' = ca
    /\ page' = IF Crashes(page, ca) THEN "crashed" ELSE page
    /\ local' = IF Crashes(page, ca) THEN [id |-> 0] ELSE local
    /\ calls' = IF Crashes(page, ca) THEN {[c EXCEPT !.mounted = FALSE] : c \in cs} ELSE cs

(* The router mounts a page that shows row i; its state is fresh, its      *)
(* queries fetch what is missing or stale, effect is the request its       *)
(* useEffect sends.  Time passes before: cached data may have gone stale   *)
(* (staleTime), or been dropped when no page watched it (gcTime).  The      *)
(* calls cs go on.                                                         *)
Mount(cs, p, i, fresh, effect) ==
    \E aged, gone \in SUBSET Observed(p, i, cache) :
       LET ca == [k \in Keys |-> IF k \in gone THEN Nothing
                                 ELSE IF k \in aged THEN [cache[k] EXCEPT !.stale = TRUE]
                                 ELSE cache[k]]
           left == {[c EXCEPT !.mounted = FALSE] : c \in cs}
           first == {k \in Observed(p, i, ca) : ~ca[k].has \/ ca[k].stale}
           sent == Fetches(left, first, p)
       IN  /\ \A k \in gone : k \notin Watched(cache) /\ ~Querying(calls, k)
           /\ cache' = ca
           /\ page' = IF Crashes(p, ca) THEN "crashed" ELSE p
           /\ local' = IF Crashes(p, ca) THEN [id |-> 0] ELSE fresh
           /\ calls' = IF Crashes(p, ca) THEN left
                       ELSE sent \cup {Call(sent, op, <<>>, p, 0, 0) : op \in effect}
           /\ Out(calls') <= MaxCalls

On(p) == page = p /\ ~palette
Click == clicks < MaxClicks /\ clicks' = clicks + 1

net   == <<cache, calls, server>>
shell == <<tour, page, palette>>
=============================================================================
