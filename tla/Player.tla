------------------------------- MODULE Player -------------------------------
(***************************************************************************)
(* The React player of sdk/js/packages/player: a component whose property  *)
(* videoTrackingId may change while its requests are out.  It fetches the  *)
(* playback data, turns the subtitles into an object URL, and reports what *)
(* the viewer does, a view being unique once in thirty days per browser.   *)
(* All requests pass the route handler of services/processRequest.ts.      *)
(*                                                                         *)
(* Positions are counted in steps of three seconds, so that the view of    *)
(* UniqueAt = 1 is unique and Beat = 5 steps separate two heartbeats.      *)
(***************************************************************************)
EXTENDS Integers, FiniteSets

CONSTANTS Videos, NoVideo,
          Captioned,   \* videos whose playback data has a subtitle URL
          TokenFields, \* whether the API's playback data has analyticsToken
          Keys,        \* kinds of API key the route may be configured with
          UniqueAt, Beat, Length,
          MaxChanges,  \* bound: changes of videoTrackingId
          MaxOut       \* bound: events whose answer is out

ASSUME PlayerAssumption ==
    /\ NoVideo \notin Videos /\ Captioned \subseteq Videos
    /\ TokenFields \subseteq BOOLEAN
    /\ Keys \subseteq {"missing", "jwt", "mot", "other"}
    /\ {UniqueAt, Beat, Length, MaxChanges, MaxOut} \subseteq Nat \ {0}

VARIABLES
    hasToken, key,    \* the API and the route, which do not change
    prop, changes,    \* videoTrackingId, and how often it has changed
    data, fetching,   \* video of videoData, video asked for while isLoading
    lock,             \* vmx_view_<video> in localStorage
    eligible, locked, \* uniqueEligible, uniqueLocked
    at, last,         \* position, lastHeartbeatTime
    out,              \* analytics requests without an answer
    run, shown,       \* runs of the subtitle effect, and the one whose
                      \* object URL is in the state
    watched, settled  \* observed: videos that played to UniqueAt or later;
                      \* whether a late event was answered for this prop

api    == <<hasToken, key>>
view   == <<lock, eligible, locked, watched, settled>>
media  == <<at, last>>
effect == <<run, shown>>
vars   == <<api, prop, changes, data, fetching, view, media, out, effect>>

Runs == 1..MaxChanges + 1
NoRun == [video |-> NoVideo, state |-> "none", cancelled |-> FALSE]

TypeOK ==
    /\ prop \in Videos /\ changes \in 0..MaxChanges
    /\ {data, fetching} \subseteq Videos \cup {NoVideo}
    /\ lock \in [Videos -> {"absent", "fresh", "old", "corrupt"}]
    /\ eligible \in BOOLEAN /\ locked \in BOOLEAN
    /\ at \in 0..Length /\ last \in 0..Length
    /\ Cardinality(out) <= MaxOut
    /\ \A e \in out : e.prop \in Videos /\ e.token \in Videos
    /\ \A k \in Runs : run[k].state \in {"none", "loading", "live", "revoked", "failed"}
    /\ shown \in Runs \cup {0}

-----------------------------------------------------------------------------
(* The check of the key in handleProcessRequest. *)
KeyAccepted == key \in {"jwt", "mot"}

(* What becomes of a forwarded request: an answer with a body, an error    *)
(* answer, an answer without a body (204), or none.                        *)
Upstream == {"ok", "refused", "nobody", "silent"}

(* Response.json(data, {status}) throws for a status that has no body.     *)
Answer(up) == CASE up = "ok" -> 200 [] up = "refused" -> 404 [] OTHER -> 500

PlaybackAnswer(video, up) ==
    IF ~KeyAccepted THEN 401 ELSE IF video = NoVideo THEN 400 ELSE Answer(up)

(* An effect that looks into the storage for the first video only. *)
Unlock_First(v) ==
    /\ locked' = FALSE
    /\ UNCHANGED <<eligible, lock>>

(* The effect on videoTrackingId: a stored view decides on eligibility; an *)
(* old or unreadable one is removed.                                       *)
Unlock(v) ==
    /\ eligible' = (lock[v] # "fresh")
    /\ locked' = FALSE
    /\ lock' = [lock EXCEPT ![v] = IF @ = "fresh" THEN @ ELSE "absent"]

(* fetchVideoData, which an earlier fetch keeps from starting. *)
Fetching(v) == IF fetching = NoVideo THEN v ELSE fetching

Init ==
    /\ hasToken \in TokenFields /\ key \in Keys
    /\ prop \in Videos /\ changes = 0
    /\ data = NoVideo /\ fetching = prop
    /\ \E was \in [Videos -> {"absent", "fresh", "old", "corrupt"}] :
          /\ lock = [was EXCEPT ![prop] = IF @ = "fresh" THEN @ ELSE "absent"]
          /\ eligible = (was[prop] # "fresh")
    /\ locked = FALSE
    /\ at = 0 /\ last = 0
    /\ out = {}
    /\ run = [k \in Runs |-> NoRun] /\ shown = 0
    /\ watched = {} /\ settled = FALSE

-----------------------------------------------------------------------------
(* The page renders the player with another video. *)
ChangeProp(v) ==
    /\ changes < MaxChanges /\ v # prop
    /\ prop' = v /\ changes' = changes + 1
    /\ Unlock(v)
    /\ fetching' = Fetching(v)
    /\ settled' = FALSE
    /\ UNCHANGED <<api, data, media, out, effect, watched>>

(* The effect of useSrtAsVttUrl and useSignedThumbnailVtt on a new URL:    *)
(* the cleanup of the run before, then a run of its own.                   *)
Cleanup(r) ==
    [r EXCEPT !.cancelled = TRUE, !.state = IF @ = "live" THEN "revoked" ELSE @]

NextRun == Cardinality({k \in Runs : run[k] # NoRun}) + 1

Subtitles(v) ==
    run' = [k \in Runs |->
              IF run[k] # NoRun THEN Cleanup(run[k])
              ELSE IF k = NextRun /\ v \in Captioned
                   THEN [video |-> v, state |-> "loading", cancelled |-> FALSE]
              ELSE NoRun]

(* setVideoData(data): MediaPlayer gets a new source. *)
FetchAnswered ==
    /\ fetching # NoVideo
    /\ \E up \in Upstream : PlaybackAnswer(fetching, up) = 200
    /\ data' = fetching /\ fetching' = NoVideo
    /\ Subtitles(fetching)
    /\ at' = 0
    /\ UNCHANGED <<api, prop, changes, view, last, out, shown>>

(* An error answer, or none: it is logged. *)
FetchFails ==
    /\ fetching # NoVideo
    /\ \E up \in Upstream : PlaybackAnswer(fetching, up) # 200
    /\ fetching' = NoVideo
    /\ UNCHANGED <<api, prop, changes, data, view, media, out, effect>>

(* A late answer that is shown all the same. *)
SubtitlesLoaded_Late(k) ==
    /\ run[k].state = "loading"
    /\ run' = [run EXCEPT ![k].state = "live"]
    /\ shown' = k
    /\ UNCHANGED <<api, prop, changes, data, fetching, view, media, out>>

(* convert() and load(): an object URL, which only a run that was not      *)
(* cancelled puts into the state.                                          *)
SubtitlesLoaded(k) ==
    /\ run[k].state = "loading"
    /\ run' = [run EXCEPT ![k].state = "live"]
    /\ shown' = IF run[k].cancelled THEN shown ELSE k
    /\ UNCHANGED <<api, prop, changes, data, fetching, view, media, out>>

SubtitlesFail(k) ==
    /\ run[k].state = "loading"
    /\ run' = [run EXCEPT ![k].state = "failed"]
    /\ UNCHANGED <<api, prop, changes, data, fetching, view, media, out, shown>>

-----------------------------------------------------------------------------
(* What the component renders. *)
Shows ==
    IF data # NoVideo THEN "player"
    ELSE IF fetching # NoVideo THEN "loader" ELSE "error"

(* A report that forgets the lock. *)
Unique_Unlocked(late) == eligible /\ late

(* isUnique, computed when the event is sent and again at its answer. *)
Unique(late) == eligible /\ ~locked /\ late

(* sendAnalyticsEvent up to its await; without a token nothing is sent.    *)
(* The request keeps the values of the render it was sent from; which of   *)
(* the five events it reports is left out.                                 *)
Send(now) ==
    IF ~hasToken THEN UNCHANGED out
    ELSE /\ Cardinality(out) < MaxOut
         /\ out' = out \cup {[prop |-> prop, token |-> data,
                              late |-> now >= UniqueAt, unique |-> Unique(now >= UniqueAt)]}

(* The media element is at now: the video that plays is that of the data.  *)
Moves(now) ==
    /\ Shows = "player" /\ at' = now
    /\ watched' = watched \cup (IF now >= UniqueAt THEN {data} ELSE {})
    /\ UNCHANGED <<api, prop, changes, data, fetching, lock, eligible, locked,
                   settled, effect>>

MediaStep(now, beat) == Moves(now) /\ last' = beat /\ Send(now)

OnPlay == MediaStep(at, at)
OnPause == MediaStep(at, last)
OnEnded == at = Length /\ MediaStep(at, last)
OnSeeked(to) == to # at /\ MediaStep(to, last)

(* A heartbeat that stores when the next one is due. *)
OnTimeUpdate_NextBeat ==
    /\ at < Length
    /\ IF at + 1 - last >= Beat
       THEN MediaStep(at + 1, at + 1 + Beat)
       ELSE Moves(at + 1) /\ UNCHANGED <<last, out>>

(* A report five steps (15 seconds) after the one before, or, without an   *)
(* event, the next position.                                               *)
OnTimeUpdate ==
    /\ at < Length
    /\ IF at + 1 - last >= Beat
       THEN MediaStep(at + 1, at + 1)
       ELSE Moves(at + 1) /\ UNCHANGED <<last, out>>

(* The answer, whatever its status: the view is locked, in the refs of the *)
(* player as it is now and in storage under the video it was sent for.     *)
EventAnswered(e) ==
    /\ e \in out
    /\ out' = out \ {e}
    /\ locked' = (locked \/ Unique(e.late))
    /\ lock' = IF Unique(e.late) THEN [lock EXCEPT ![e.prop] = "fresh"] ELSE lock
    /\ settled' = (settled \/ e.late)
    /\ UNCHANGED <<api, prop, changes, data, fetching, media, eligible, watched, effect>>

(* No answer: logged, and not sent again. *)
EventLost(e) ==
    /\ e \in out
    /\ out' = out \ {e}
    /\ UNCHANGED <<api, prop, changes, data, fetching, view, media, effect>>

-----------------------------------------------------------------------------
Media == OnPlay \/ OnPause \/ OnEnded \/ (\E to \in 0..Length : OnSeeked(to)) \/ OnTimeUpdate

Next ==
    \/ \E v \in Videos : ChangeProp(v)
    \/ FetchAnswered \/ FetchFails
    \/ \E k \in Runs : SubtitlesLoaded(k) \/ SubtitlesFail(k)
    \/ Media
    \/ \E e \in out : EventAnswered(e) \/ EventLost(e)

Spec == Init /\ [][Next]_vars

-----------------------------------------------------------------------------
(* "Lock unique impression" (line 441): once an event of the current video *)
(* at three seconds or later has been answered, no further one is reported *)
(* as a unique view, whichever answers of other events and of an earlier   *)
(* video come in between.                                                  *)
NoUniqueAfterAnswer ==
    [][\A e \in out' \ out : settled => ~e.unique]_vars

(* A view that this browser stored within thirty days is not reported as   *)
(* unique again: by whichever event it was stored, under the video of an   *)
(* earlier property or the present one, the refs of the player agree with  *)
(* the storage when the next event is sent.                                *)
StoredViewIsNotUnique ==
    [][\A e \in out' \ out : lock[prop] = "fresh" => ~e.unique]_vars

(* "Lock unique impression after 3 seconds of watch time" (line 441): a    *)
(* view is stored only for a video that was watched that far.  Not what    *)
(* the code does: while the data of a changed property are still being     *)
(* fetched, or when they cannot be, the video before plays on, and its     *)
(* events store a view of the next one, for thirty days.                   *)
LockedWasWatched ==
    [][\A v \in Videos : lock'[v] = "fresh" /\ lock[v] # "fresh" => v \in watched]_vars

(* Subtitles that arrive late are not shown with another video.            *)
NoLateSubtitles ==
    [][shown' # shown => run[shown'].video = data]_vars
=============================================================================
