----------------------------- MODULE VideoPages -----------------------------
(***************************************************************************)
(* The pages that show videos: the home page, the list, one video, the     *)
(* activity log and Media Convert (app/dashboard/page.tsx, videos,         *)
(* videos/[id], activity, media-convert).  A video is busy while its       *)
(* status is queued or processing.                                         *)
(***************************************************************************)
EXTENDS Browser

Videos == cache[VideosKey]
Threw == [value |-> Nothing, told |-> FALSE]

-----------------------------------------------------------------------------
(* page.tsx, the home page; its own queries of keys and of the             *)
(* subscription are left out.                                              *)

FreshHome == [id |-> 0]

(* Links of the home page: "View all", which redirects, and "New Bucket".  *)
HomeOffer == {"videos", "buckets"}

(* The query of the buckets turns a refusal into an empty list. *)
FetchHomeBuckets(r) ==
    IF r.status = 0 THEN Threw
    ELSE [value |-> Holding(IF r.status = 200 THEN r.rows ELSE {}, {}, "array"),
          told |-> FALSE]

-----------------------------------------------------------------------------
(* videos/page.tsx *)

FreshVideos == [id |-> 0, open |-> FALSE]

FetchVideos(r) ==
    [value |-> IF r.status = 200 THEN Holding(r.rows, r.busy, "array") ELSE Nothing,
     told |-> r.status \in {401, 403, 429}]

VideosOffer ==
    IF local.open THEN {"close", "file"}
    ELSE {"open"} \cup (IF Querying(calls, VideosKey) /\ ~Videos.has THEN {}
                        ELSE IF Videos.failed THEN {"retry"}
                        ELSE IF Videos.rows = {} THEN {} ELSE {"video"})

(* Every ten seconds while a video is busy, and once at first. *)
Poll ==
    /\ page = "videos" /\ PollingKey \in Watched(cache)
    /\ ~Querying(calls, PollingKey) /\ Room
    /\ calls' = Fetches(calls, {PollingKey}, page)
    /\ UNCHANGED <<shell, local, cache, server, clicks, toastVars>>

(* The poll also puts the answer, as it came, where the list is kept. *)
FetchPolling(r) ==
    IF r.status = 0 THEN Threw ELSE [value |-> Holding({}, {}, "array"), told |-> FALSE]
Polled(ca, c, r) ==
    IF c.key = PollingKey /\ r.status = 200
    THEN SetData(ca, VideosKey, Holding(r.rows, r.busy, "object")) ELSE ca

(* dashboardUpload throws at once (see Broken), so the two toasts follow   *)
(* each other and the button is free again.                                *)
handleFileSelected ==
    /\ On("videos") /\ Click /\ "file" \in VideosOffer
    /\ count' = count + 2
    /\ toasts' = AddToast(AddToast(toasts, count + 1, "plain"), count + 2, "destructive")
    /\ UNCHANGED <<timers, shell, local, net>>

VideosInput ==
    /\ On("videos")
    /\ VideosOffer \cap {"open", "close"} # {}
    /\ local' = [local EXCEPT !.open = ~@]
    /\ UNCHANGED <<shell, net, clicks, toastVars>>

RetryVideos ==
    /\ On("videos") /\ Click /\ "retry" \in VideosOffer /\ Room
    /\ cache' = Marked(cache, VideosKey)
    /\ calls' = Refetched(calls, cache, VideosKey)
    /\ UNCHANGED <<shell, local, server, toastVars>>

-----------------------------------------------------------------------------
(* videos/[id]/page.tsx.  Its query never succeeds: it shows what other    *)
(* pages have left in the cache.                                           *)

FreshVideo(i) == [id |-> i, open |-> FALSE, deleting |-> FALSE]

(* Loading, not found, or the video, its player and its dialog. *)
VideoOffer ==
    IF local.id \notin Videos.rows THEN {}
    ELSE IF local.open THEN (IF local.deleting THEN {} ELSE {"delete"}) \cup {"close"}
    ELSE {"open"} \cup (IF local.id \in Videos.busy THEN {} ELSE {"player"})

VideoInput ==
    /\ On("video")
    /\ VideoOffer \cap {"open", "close"} # {}
    /\ local' = [local EXCEPT !.open = ~@]
    /\ UNCHANGED <<shell, net, clicks, toastVars>>

handleDeleteVideo ==
    /\ On("video") /\ Click /\ "delete" \in VideoOffer /\ Room
    /\ local' = [local EXCEPT !.deleting = TRUE]
    /\ calls' = Send("deleteVideo", local.id)
    /\ UNCHANGED <<shell, cache, server, toastVars>>

(* The button is free again before the list has been read again. *)
VideoDeleted_Early(c) ==
    /\ c.op = "deleteVideo" /\ c.reply.status = 200
    /\ LET cs == Refetched(calls \ {c}, cache, VideosKey)
           on == IF VideosKey \in Watched(cache) THEN Fetching(cs, VideosKey) ELSE 0
       IN  calls' = cs \cup {[Call(cs, "deleteTail", <<>>, c.by, c.arg, on)
                              EXCEPT !.mounted = c.mounted]}
    /\ cache' = Marked(cache, VideosKey)
    /\ local' = IF c.mounted THEN [local EXCEPT !.open = FALSE, !.deleting = FALSE] ELSE local
    /\ toast("destructive")
    /\ UNCHANGED <<shell, server, clicks>>

(* The API deleted the video: the dialog closes, the toast says so, and    *)
(* the handler awaits the refetch of the list.                             *)
VideoDeleted(c) ==
    /\ c.op = "deleteVideo" /\ c.reply.status = 200
    /\ LET cs == Refetched(calls \ {c}, cache, VideosKey)
           on == IF VideosKey \in Watched(cache) THEN Fetching(cs, VideosKey) ELSE 0
       IN  calls' = cs \cup {[Call(cs, "deleteTail", <<>>, c.by, c.arg, on)
                              EXCEPT !.mounted = c.mounted]}
    /\ cache' = Marked(cache, VideosKey)
    /\ local' = IF c.mounted THEN [local EXCEPT !.open = FALSE] ELSE local
    /\ toast("destructive")
    /\ UNCHANGED <<shell, server, clicks>>

(* After the await the router moves to the list, from whatever page the    *)
(* tab is on by now.                                                       *)
DeleteTail(c) ==
    /\ c.op = "deleteTail" /\ \A d \in calls : d.id # c.on
    /\ IF page \in {"videos", "crashed"}
       THEN /\ calls' = calls \ {c}
            /\ UNCHANGED <<page, local, cache>>
       ELSE Mount(calls \ {c}, "videos", 0, FreshVideos, {})
    /\ UNCHANGED <<tour, palette, server, clicks, toastVars>>

VideoDeleteFails(c) ==
    /\ c.op = "deleteVideo"
    /\ \E r \in Outcomes(c) : r.status # 200
    /\ calls' = calls \ {c}
    /\ local' = IF c.mounted THEN [local EXCEPT !.deleting = FALSE] ELSE local
    /\ toast("destructive")
    /\ UNCHANGED <<shell, cache, server, clicks>>

-----------------------------------------------------------------------------
(* activity/page.tsx *)

FreshActivity == [id |-> 0, filter |-> "all"]

(* It keeps the answer of the API as it came, under the key of the list. *)
FetchActivity(r) ==
    IF r.status = 0 THEN Threw
    ELSE [value |-> IF r.status = 200 THEN Holding(r.rows, r.busy, "object")
                    ELSE Holding({}, {}, "array"),
          told |-> FALSE]

(* deriveActivityFromVideos: the kinds of entries there are. *)
actionTypes == (IF Videos.busy = {} THEN {} ELSE {"video.processing"})
               \cup (IF Videos.rows = Videos.busy THEN {} ELSE {"video.transcoded"})

setFilter(type) ==
    /\ On("activity")
    /\ type \in {"all"} \cup actionTypes
    /\ local' = [local EXCEPT !.filter = type]
    /\ UNCHANGED <<shell, net, clicks, toastVars>>

-----------------------------------------------------------------------------
(* media-convert/page.tsx: neither its query nor its form reach the API.   *)

FreshConvert == [id |-> 0, filled |-> FALSE]

ConvertOffer == {"type", "create"} \cup (IF Querying(calls, JobsKey) THEN {} ELSE {"refresh"})

(* "Validation Error" or "Failed to create job" *)
handleCreateJob ==
    /\ On("convert") /\ Click /\ "create" \in ConvertOffer
    /\ toast("destructive")
    /\ UNCHANGED <<shell, local, net>>

ConvertInput ==
    /\ On("convert") /\ "type" \in ConvertOffer
    /\ local' = [local EXCEPT !.filled = ~@]
    /\ UNCHANGED <<shell, net, clicks, toastVars>>

(* The button; the interval of 30 s does the same and is left out. *)
RefreshJobs ==
    /\ On("convert") /\ Click /\ "refresh" \in ConvertOffer /\ Room
    /\ cache' = Marked(cache, JobsKey)
    /\ calls' = Refetched(calls, cache, JobsKey)
    /\ UNCHANGED <<shell, local, server, toastVars>>

VideoPagesNext ==
    \/ Poll \/ handleFileSelected \/ VideosInput \/ RetryVideos
    \/ VideoInput \/ handleDeleteVideo
    \/ \E c \in calls : VideoDeleted(c) \/ DeleteTail(c) \/ VideoDeleteFails(c)
    \/ \E type \in {"all"} \cup actionTypes : setFilter(type)
    \/ handleCreateJob \/ ConvertInput \/ RefreshJobs
=============================================================================
