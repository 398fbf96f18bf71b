----------------------------- MODULE Dashboard -----------------------------
(***************************************************************************)
(* The dashboard as one program: the pages (StoragePages, VideoPages,      *)
(* AccountPages), the navigation between them, the command palette, the    *)
(* toasts, and the answers to the queries the pages share.                 *)
(***************************************************************************)
EXTENDS StoragePages, VideoPages, AccountPages

vars == <<tour, page, palette, local, cache, calls, clicks, server, toastVars>>

(* useState of each page *)
Fresh(p, i) ==
    CASE p = "home"     -> FreshHome
      [] p = "keys"     -> FreshKeys
      [] p = "buckets"  -> FreshBuckets
      [] p = "bucket"   -> FreshBucket(i)
      [] p = "videos"   -> FreshVideos
      [] p = "video"    -> FreshVideo(i)
      [] p = "activity" -> FreshActivity
      [] p = "convert"  -> FreshConvert
      [] p = "billing"  -> FreshBilling
      [] p = "branding" -> FreshBranding
      [] p = "settings" -> FreshSettings
      [] p = "team"     -> FreshTeam

(* The request of the page's useEffect. *)
Effect(p) == CASE p = "billing"  -> {"getBilling"}
               [] p = "branding" -> {"getBranding"}
               [] OTHER          -> {}

DashboardTypeOK ==
    /\ page \in Pages \cup {"crashed"} /\ palette \in BOOLEAN
    /\ page # "crashed" => DOMAIN local = DOMAIN Fresh(page, 0)
    /\ \A k \in Keys : cache[k].rows \subseteq Rows /\ cache[k].busy \subseteq cache[k].rows
    /\ \A c, d \in calls : /\ c.id = d.id => c = d
                           /\ c.op = "query" /\ c.key = d.key => c = d
    /\ server.videos \subseteq Rows /\ server.busy \subseteq server.videos
    /\ server.balance <= MaxClicks
    /\ page = "billing" => local.balance \in 0..server.balance
    /\ ToastTypeOK

-----------------------------------------------------------------------------
(* A tab that is opened, or loaded anew, on a page. *)
EmptyCache == [k \in Keys |-> Nothing]
FirstCalls(p, i) ==
    LET sent == Fetches({}, Observed(p, i, EmptyCache), p)
    IN  sent \cup {Call(sent, op, <<>>, p, 0, 0) : op \in Effect(p)}

Init ==
    /\ tour \in Tours
    /\ \E p \in tour : page = p /\ local = Fresh(p, 1) /\ calls = FirstCalls(p, 1)
    /\ palette = FALSE /\ cache = EmptyCache /\ clicks = 0
    /\ \E busy \in {{}, {1}} :
          server = [keys |-> {1}, buckets |-> {1}, videos |-> {1}, busy |-> busy, balance |-> 0]
    /\ ToastInit

Load(p, i) ==
    /\ page' = p /\ local' = Fresh(p, i) /\ calls' = FirstCalls(p, i)
    /\ palette' = FALSE /\ cache' = EmptyCache
    /\ count' = 0 /\ toasts' = {} /\ timers' = {}
    /\ UNCHANGED <<tour, server>>

(* The user reloads, also a tab that shows nothing any more. *)
Reload ==
    /\ Click
    /\ IF page = "crashed" THEN \E p \in tour : Load(p, 1) ELSE Load(page, local.id)

(* A link, or the browser's back button, which leaves an open dialog.      *)
Visit(p, i) ==
    /\ Click /\ page \notin {"crashed", p}
    /\ Mount(calls, p, i, Fresh(p, i), Effect(p))
    /\ UNCHANGED <<tour, server, toastVars>>

Sidebar == /\ ~palette
           /\ \E p \in tour \ {"bucket", "video"} : Visit(p, 0)
           /\ UNCHANGED palette
HomeLink == /\ On("home")
            /\ \E p \in HomeOffer \cap tour : Visit(p, 0)
            /\ UNCHANGED palette
OpenRow ==
    /\ \/ /\ On("buckets") /\ "bucket" \in BucketsOffer
          /\ \E i \in cache[BucketsKey].rows : Visit("bucket", i)
       \/ /\ On("videos") /\ "video" \in VideosOffer
          /\ \E i \in Videos.rows : Visit("video", i)
    /\ UNCHANGED palette

(* The search button of the Topbar, and Ctrl-K, which also closes the      *)
(* palette, as a click beside it does.                                     *)
OpenPalette ==
    /\ Click /\ page # "crashed" /\ ~palette
    /\ palette' = TRUE
    /\ UNCHANGED <<tour, page, local, net, toastVars>>
TogglePalette ==
    /\ Click /\ page # "crashed"
    /\ palette' = ~palette
    /\ UNCHANGED <<tour, page, local, net, toastVars>>

(* CommandPalette: its results are fixed; they name a bucket and a video   *)
(* that no account has.                                                    *)
Choose ==
    /\ palette /\ palette' = FALSE
    /\ \E p \in {"bucket", "video"} : Visit(p, 0)

(* The portal of Stripe, and back to return_url. *)
PortalOpens(c) ==
    /\ c.op = "postPortal" /\ c.reply.status = 200
    /\ Load("billing", 0)
    /\ UNCHANGED clicks

-----------------------------------------------------------------------------
(* What the queryFn of the page that asked makes of a reply. *)
queryFn(c, r) ==
    CASE Broken(c)           -> Threw
      [] c.key = KeysKey     -> FetchKeys(r)
      [] c.key = BucketsKey  -> IF c.by = "home" THEN FetchHomeBuckets(r) ELSE FetchBuckets(r)
      [] c.key = PollingKey  -> FetchPolling(r)
      [] c.key = VideosKey   -> IF c.by = "activity" THEN FetchActivity(r) ELSE FetchVideos(r)
      [] OTHER               -> FetchObjects(r)
Told(got) == IF got.told THEN toast("destructive") ELSE UNCHANGED toastVars

(* Another try while a page watches the query, before it counts as failed. *)
Fetched(c) ==
    /\ c.op = "query"
    /\ \E r \in Outcomes(c) :
          LET got   == queryFn(c, r)
              again == c.tries > 0 /\ c.key \in Watched(cache) /\ page # "crashed"
          IN  /\ IF got.value.has
                 THEN Shown(Polled(SetData(cache, c.key, got.value), c, r), calls \ {c})
                 ELSE IF again
                 THEN Shown(cache, (calls \ {c})
                                   \cup {[c EXCEPT !.tries = @ - 1, !.reply = NoReply]})
                 ELSE Shown([cache EXCEPT ![c.key].failed = TRUE], calls \ {c})
              /\ Told(got)
    /\ UNCHANGED <<tour, palette, server, clicks>>

-----------------------------------------------------------------------------
(* A toast is closed, or closes itself after a while, which counts as a    *)
(* click.                                                                  *)
CloseToast(id) == Click /\ Dismiss(id) /\ UNCHANGED <<shell, local, net>>
ToastTimer(id) == TimerFires(id) /\ UNCHANGED <<shell, local, net, clicks>>

Next ==
    \/ StoragePagesNext \/ VideoPagesNext \/ AccountPagesNext
    \/ \E c \in calls : Serve(c) \/ Fetched(c) \/ PortalOpens(c)
    \/ TranscodeEnds
    \/ Sidebar \/ HomeLink \/ OpenRow \/ OpenPalette \/ TogglePalette \/ Choose \/ Reload
    \/ \E id \in Closable : CloseToast(id)
    \/ \E id \in timers : ToastTimer(id)

Spec == Init /\ [][Next]_vars

-----------------------------------------------------------------------------
(* A bucket that the open page has created stays in its list: neither an   *)
(* answer that was read before, nor a failed refetch, nor a second         *)
(* creation takes it out (buckets/page.tsx, lines 47-58).                  *)
CreatedIsListed == page = "buckets" => local.made \subseteq cache[BucketsKey].rows

(* A page sends one deletion at a time, and none while it waits for the    *)
(* list after a deletion (videos/[id]/page.tsx, lines 78-108).             *)
OneDeletion ==
    Cardinality({c \in calls : c.mounted /\ c.op \in {"deleteVideo", "deleteTail"}}) <= 1
=============================================================================
