---------------------------- MODULE PlayerProofs ----------------------------
(***************************************************************************)
(* The safety properties of Player for any videos, any length and any      *)
(* bounds on changes and open requests, by an inductive invariant.         *)
(***************************************************************************)
EXTENDS Player, FiniteSetTheorems, TLAPS

(* The runs of the subtitle effect are records of their kind. *)
RunStates == {"none", "loading", "live", "revoked", "failed"}
RunRecords == [video : Videos \cup {NoVideo}, state : RunStates, cancelled : BOOLEAN]

Types == TypeOK /\ IsFiniteSet(out) /\ run \in [Runs -> RunRecords]

(* Once a late event of the video was answered, no event is unique: the    *)
(* view is locked, or was never eligible.                                  *)
SettledIsLocked == settled => ~eligible \/ locked

(* The refs agree with the storage: a stored view was found when the video *)
(* became the current one, or its event has locked the refs.               *)
StoredIsLocked == lock[prop] = "fresh" => ~eligible \/ locked

(* Subtitles still on their way are those of the video shown, or of a run  *)
(* that was cancelled.                                                     *)
LoadingIsCurrent ==
    \A k \in Runs : run[k].state = "loading" => run[k].cancelled \/ run[k].video = data

IInv == Types /\ SettledIsLocked /\ StoredIsLocked /\ LoadingIsCurrent

LEMMA CleanupType ==
    ASSUME NEW r \in RunRecords
    PROVE  /\ Cleanup(r) \in RunRecords
           /\ Cleanup(r).cancelled = TRUE
BY DEF Cleanup, RunRecords, RunStates

(* Every run that has begun is cancelled; the new one is of the video that *)
(* is now shown.                                                           *)
LEMMA SubtitlesType ==
    ASSUME Types, NEW v \in Videos, Subtitles(v)
    PROVE  /\ run' \in [Runs -> RunRecords]
           /\ \A k \in Runs : run'[k].state = "loading" => run'[k].cancelled \/ run'[k].video = v
<1>1. /\ NoRun \in RunRecords /\ NoRun.state = "none"
      /\ [video |-> v, state |-> "loading", cancelled |-> FALSE] \in RunRecords
  BY DEF NoRun, RunRecords, RunStates
<1>2. \A k \in Runs :
          \/ run'[k] = Cleanup(run[k])
          \/ run'[k] = [video |-> v, state |-> "loading", cancelled |-> FALSE]
          \/ run'[k] = NoRun
  BY DEF Subtitles
<1>3. \A k \in Runs : Cleanup(run[k]) \in RunRecords /\ Cleanup(run[k]).cancelled = TRUE
  BY CleanupType DEF Types
<1>4. \A k \in Runs : run'[k] \in RunRecords
  BY <1>1, <1>2, <1>3
<1>5. run' \in [Runs -> RunRecords]
  BY <1>4 DEF Subtitles
<1>6. QED
  BY <1>1, <1>2, <1>3, <1>5

-----------------------------------------------------------------------------
LEMMA InitIInv == Init => IInv
<1> SUFFICES ASSUME Init
             PROVE  IInv
  OBVIOUS
<1> USE DEF Init
<1>1. run \in [Runs -> RunRecords] /\ \A k \in Runs : run[k].state = "none"
  BY DEF NoRun, RunRecords, RunStates
<1>2. IsFiniteSet(out) /\ Cardinality(out) = 0
  BY FS_EmptySet
<1>3. lock \in [Videos -> {"absent", "fresh", "old", "corrupt"}] /\ eligible \in BOOLEAN
  OBVIOUS
<1>4. TypeOK
  <2>1. 0 \in 0..MaxChanges /\ 0 \in 0..Length /\ Cardinality(out) <= MaxOut
    BY <1>2, PlayerAssumption
  <2>2. \A k \in Runs : run[k].state \in {"none", "loading", "live", "revoked", "failed"}
    BY <1>1
  <2>3. {data, fetching} \subseteq Videos \cup {NoVideo}
    OBVIOUS
  <2>4. \A e \in out : e.prop \in Videos /\ e.token \in Videos
    OBVIOUS
  <2>5. QED
    BY <1>3, <2>1, <2>2, <2>3, <2>4 DEF TypeOK
<1>5. QED
  <2>1. StoredIsLocked
    BY DEF StoredIsLocked
  <2>2. QED
    BY <1>1, <1>2, <1>4, <2>1 DEF IInv, Types, SettledIsLocked, LoadingIsCurrent

LEMMA ChangePropIInv ==
    ASSUME IInv, NEW v \in Videos, ChangeProp(v)
    PROVE  IInv'
<1> USE DEF IInv, Types, ChangeProp, media, effect
<1>1. TypeOK'
  <2>1. lock' \in [Videos -> {"absent", "fresh", "old", "corrupt"}]
        /\ eligible' \in BOOLEAN /\ locked' \in BOOLEAN
    BY DEF Unlock, TypeOK
  <2>2. fetching' \in Videos \cup {NoVideo}
    BY DEF Fetching, TypeOK
  <2>3. changes' \in 0..MaxChanges
    BY PlayerAssumption DEF TypeOK
  <2>4. QED
    BY <2>1, <2>2, <2>3 DEF TypeOK
<1>2. SettledIsLocked' /\ StoredIsLocked' /\ LoadingIsCurrent'
  BY DEF SettledIsLocked, StoredIsLocked, LoadingIsCurrent, Unlock, TypeOK
<1>3. QED
  BY <1>1, <1>2

LEMMA FetchIInv ==
    ASSUME IInv, FetchAnswered \/ FetchFails
    PROVE  IInv'
<1> USE DEF IInv, Types, view, media, effect
<1>1. CASE FetchAnswered
  <2> USE <1>1 DEF FetchAnswered
  <2>1. fetching \in Videos
    BY DEF TypeOK
  <2>2. /\ run' \in [Runs -> RunRecords]
        /\ \A k \in Runs : run'[k].state = "loading" => run'[k].cancelled \/ run'[k].video = data'
    BY <2>1, SubtitlesType
  <2>3. \A k \in Runs : run'[k].state \in RunStates
    BY <2>2 DEF RunRecords
  <2>4. TypeOK'
    BY <2>1, <2>3, PlayerAssumption DEF TypeOK, RunStates
  <2>5. SettledIsLocked' /\ StoredIsLocked' /\ LoadingIsCurrent'
    BY <2>2 DEF SettledIsLocked, StoredIsLocked, LoadingIsCurrent
  <2>6. QED
    BY <2>2, <2>4, <2>5
<1>2. CASE FetchFails
  BY <1>2 DEF FetchFails, TypeOK, SettledIsLocked, StoredIsLocked, LoadingIsCurrent
<1>3. QED
  BY <1>1, <1>2

LEMMA SubtitlesIInv ==
    ASSUME IInv, NEW k \in Runs, SubtitlesLoaded(k) \/ SubtitlesFail(k)
    PROVE  IInv'
<1> USE DEF IInv, Types, view, media
<1>a. PICK state \in {"live", "failed"} : run' = [run EXCEPT ![k].state = state]
  BY DEF SubtitlesLoaded, SubtitlesFail
<1>b. /\ shown' \in {shown, k}
      /\ UNCHANGED <<prop, changes, data, fetching, view, media, out>>
  BY DEF SubtitlesLoaded, SubtitlesFail
<1>1. run' \in [Runs -> RunRecords] /\ \A j \in Runs : run'[j].state \in RunStates
  BY <1>a DEF RunRecords, RunStates
<1>2. TypeOK'
  BY <1>b, <1>1 DEF TypeOK, RunStates
<1>3. LoadingIsCurrent'
  <2> SUFFICES ASSUME NEW j \in Runs, run'[j].state = "loading"
               PROVE  run'[j].cancelled \/ run'[j].video = data
    BY <1>b DEF LoadingIsCurrent
  <2>1. j # k
    BY <1>a DEF RunRecords
  <2>2. run'[j] = run[j]
    BY <1>a, <2>1
  <2>3. QED
    BY <2>2 DEF LoadingIsCurrent
<1>4. SettledIsLocked' /\ StoredIsLocked'
  BY <1>b DEF SettledIsLocked, StoredIsLocked
<1>5. QED
  BY <1>b, <1>1, <1>2, <1>3, <1>4

(* The player's clock and the refs of a report. *)
LEMMA MediaIInv ==
    ASSUME IInv, NEW now \in 0..Length, NEW beat \in 0..Length, MediaStep(now, beat)
    PROVE  IInv'
<1> USE DEF IInv, Types, MediaStep, Moves, effect
<1>a. data \in Videos
  BY DEF Shows, TypeOK
<1>1. CASE ~hasToken
  BY <1>1 DEF Send, TypeOK, SettledIsLocked, StoredIsLocked, LoadingIsCurrent
<1>2. CASE hasToken
  <2> DEFINE e == [prop |-> prop, token |-> data,
                   late |-> now >= UniqueAt, unique |-> Unique(now >= UniqueAt)]
  <2>1. Cardinality(out) < MaxOut /\ out' = out \cup {e}
    BY <1>2 DEF Send
  <2>2. e.prop = prop /\ e.token = data
    OBVIOUS
  <2> HIDE DEF e
  <2>3. IsFiniteSet(out') /\ Cardinality(out') <= MaxOut
    <3>1. Cardinality(out) \in Nat
      BY FS_CardinalityType
    <3>2. /\ IsFiniteSet(out \cup {e})
          /\ Cardinality(out \cup {e}) = IF e \in out THEN Cardinality(out)
                                                      ELSE Cardinality(out) + 1
      BY FS_AddElement
    <3>3. QED
      BY <2>1, <3>1, <3>2, PlayerAssumption
  <2>4. TypeOK'
    BY <1>a, <2>1, <2>2, <2>3 DEF TypeOK
  <2>5. SettledIsLocked' /\ StoredIsLocked' /\ LoadingIsCurrent'
    BY DEF SettledIsLocked, StoredIsLocked, LoadingIsCurrent
  <2>6. QED
    BY <2>3, <2>4, <2>5
<1>3. QED
  BY <1>1, <1>2

LEMMA ClockIInv ==
    ASSUME IInv, Media
    PROVE  IInv'
<1>a. at \in 0..Length /\ last \in 0..Length /\ (at < Length => at + 1 \in 0..Length)
  BY PlayerAssumption DEF IInv, Types, TypeOK
<1>1. CASE OnPlay \/ OnPause \/ OnEnded
  BY <1>1, <1>a, MediaIInv DEF OnPlay, OnPause, OnEnded
<1>2. ASSUME NEW to \in 0..Length, OnSeeked(to)
      PROVE  IInv'
  BY <1>2, <1>a, MediaIInv DEF OnSeeked
<1>3. CASE OnTimeUpdate
  <2>1. CASE at + 1 - last >= Beat
    BY <1>3, <2>1, <1>a, MediaIInv DEF OnTimeUpdate
  <2>2. CASE ~(at + 1 - last >= Beat)
    BY <1>3, <2>2, <1>a
       DEF OnTimeUpdate, Moves, IInv, Types, TypeOK, effect, SettledIsLocked,
           StoredIsLocked, LoadingIsCurrent
  <2>3. QED
    BY <2>1, <2>2
<1>4. QED
  BY <1>1, <1>2, <1>3 DEF Media

LEMMA AnswerIInv ==
    ASSUME IInv, NEW e \in out, EventAnswered(e) \/ EventLost(e)
    PROVE  IInv'
<1> USE DEF IInv, Types, view, media, effect
<1>a. /\ out' = out \ {e}
      /\ UNCHANGED <<prop, changes, data, fetching, at, last, eligible, watched, run, shown>>
  BY DEF EventAnswered, EventLost
<1>b. e.prop \in Videos
  BY DEF TypeOK
<1>1. IsFiniteSet(out') /\ Cardinality(out') <= MaxOut
  <2>1. /\ IsFiniteSet(out \ {e}) /\ Cardinality(out) \in Nat
        /\ Cardinality(out \ {e}) = Cardinality(out) - 1
    BY FS_RemoveElement, FS_CardinalityType
  <2>2. QED
    BY <1>a, <2>1, PlayerAssumption DEF TypeOK
<1>2. lock' \in [Videos -> {"absent", "fresh", "old", "corrupt"}] /\ locked' \in BOOLEAN
  BY <1>b DEF EventAnswered, EventLost, TypeOK
<1>3. TypeOK'
  BY <1>a, <1>1, <1>2 DEF TypeOK
<1>4. SettledIsLocked'
  BY DEF EventAnswered, EventLost, Unique, SettledIsLocked
<1>5. StoredIsLocked'
  <2>1. CASE EventAnswered(e) /\ Unique(e.late)
    BY <2>1 DEF EventAnswered, StoredIsLocked
  <2>2. CASE EventLost(e) \/ (EventAnswered(e) /\ ~Unique(e.late))
    BY <2>2 DEF EventAnswered, EventLost, StoredIsLocked
  <2>3. QED
    BY <2>1, <2>2
<1>6. LoadingIsCurrent'
  BY <1>a DEF LoadingIsCurrent
<1>7. QED
  BY <1>a, <1>1, <1>3, <1>4, <1>5, <1>6

LEMMA NextIInv == IInv /\ [Next]_vars => IInv'
<1> SUFFICES ASSUME IInv, [Next]_vars
             PROVE  IInv'
  OBVIOUS
<1>1. ASSUME NEW v \in Videos, ChangeProp(v)
      PROVE  IInv'
  BY <1>1, ChangePropIInv
<1>2. CASE FetchAnswered \/ FetchFails
  BY <1>2, FetchIInv
<1>3. ASSUME NEW k \in Runs, SubtitlesLoaded(k) \/ SubtitlesFail(k)
      PROVE  IInv'
  BY <1>3, SubtitlesIInv
<1>4. CASE Media
  BY <1>4, ClockIInv
<1>5. ASSUME NEW e \in out, EventAnswered(e) \/ EventLost(e)
      PROVE  IInv'
  BY <1>5, AnswerIInv
<1>6. CASE UNCHANGED vars
  BY <1>6
     DEF vars, view, media, effect, IInv, Types, TypeOK, SettledIsLocked, StoredIsLocked,
         LoadingIsCurrent
<1>7. QED
  BY <1>1, <1>2, <1>3, <1>4, <1>5, <1>6 DEF Next

(* The invariant holds in every state of the player, whatever videos the   *)
(* page asks for and in whatever order answers come.                       *)
THEOREM Inductive == Spec => []IInv
BY InitIInv, NextIInv, PTL DEF Spec

(* The player, its locks and its requests keep to their types. *)
THEOREM TypesKept == Spec => []TypeOK
<1>1. IInv => TypeOK
  BY DEF IInv, Types
<1>2. QED
  BY <1>1, Inductive, PTL

-----------------------------------------------------------------------------
(* Only an event of the player adds a request. *)
LEMMA WhoSends ==
    ASSUME [Next]_vars, NEW e \in out' \ out
    PROVE  e.unique => eligible /\ ~locked
<1>1. ASSUME NEW now, NEW beat, MediaStep(now, beat)
      PROVE  e.unique => eligible /\ ~locked
  <2>1. e = [prop |-> prop, token |-> data,
             late |-> now >= UniqueAt, unique |-> Unique(now >= UniqueAt)]
    BY <1>1 DEF MediaStep, Send
  <2>2. e.unique = Unique(now >= UniqueAt)
    BY <2>1
  <2>3. QED
    BY <2>2 DEF Unique
<1>2. CASE Media
  BY <1>1, <1>2 DEF Media, OnPlay, OnPause, OnEnded, OnSeeked, OnTimeUpdate
<1>3. CASE \/ \E v \in Videos : ChangeProp(v)
           \/ FetchAnswered \/ FetchFails
           \/ \E k \in Runs : SubtitlesLoaded(k) \/ SubtitlesFail(k)
           \/ \E x \in out : EventAnswered(x) \/ EventLost(x)
           \/ UNCHANGED vars
  BY <1>3
     DEF ChangeProp, FetchAnswered, FetchFails, SubtitlesLoaded, SubtitlesFail,
         EventAnswered, EventLost, vars
<1>4. QED
  BY <1>2, <1>3 DEF Next

(* sendAnalyticsEvent locks the unique view of a video at its first late   *)
(* answer, and reports none after it.                                      *)
THEOREM UniqueOnce == Spec => NoUniqueAfterAnswer
<1>1. IInv /\ [Next]_vars => [\A e \in out' \ out : settled => ~e.unique]_vars
  BY WhoSends DEF IInv, SettledIsLocked
<1>2. QED
  BY <1>1, Inductive, PTL DEF Spec, NoUniqueAfterAnswer

(* The storage and the refs agree whenever an event is sent: no view that  *)
(* is stored for the video of the property is reported as unique.          *)
THEOREM StoredOnce == Spec => StoredViewIsNotUnique
<1>1. IInv /\ [Next]_vars => [\A e \in out' \ out : lock[prop] = "fresh" => ~e.unique]_vars
  BY WhoSends DEF IInv, StoredIsLocked
<1>2. QED
  BY <1>1, Inductive, PTL DEF Spec, StoredViewIsNotUnique

(* Only a run that was not cancelled shows its subtitles. *)
LEMMA WhoShows ==
    ASSUME IInv, [Next]_vars, shown' # shown
    PROVE  run[shown'].video = data
<1>1. ASSUME NEW now, Moves(now)
      PROVE  FALSE
  BY <1>1 DEF Moves, effect
<1>2. CASE Media
  BY <1>1, <1>2 DEF Media, OnPlay, OnPause, OnEnded, OnSeeked, OnTimeUpdate, MediaStep
<1>3. ASSUME NEW k \in Runs, SubtitlesLoaded(k)
      PROVE  run[shown'].video = data
  BY <1>3 DEF SubtitlesLoaded, IInv, LoadingIsCurrent
<1>4. CASE \/ \E v \in Videos : ChangeProp(v)
           \/ FetchAnswered \/ FetchFails
           \/ \E k \in Runs : SubtitlesFail(k)
           \/ \E x \in out : EventAnswered(x) \/ EventLost(x)
           \/ UNCHANGED vars
  BY <1>4
     DEF ChangeProp, FetchAnswered, FetchFails, SubtitlesFail, EventAnswered, EventLost,
         vars, effect
<1>5. QED
  BY <1>2, <1>3, <1>4 DEF Next

(* Subtitles that arrive after the video was changed are not shown with    *)
(* the next one.                                                           *)
THEOREM SubtitlesAreCurrent == Spec => NoLateSubtitles
<1>1. IInv /\ [Next]_vars => [shown' # shown => run[shown'].video = data]_vars
  BY WhoShows
<1>2. QED
  BY <1>1, Inductive, PTL DEF Spec, NoLateSubtitles

=============================================================================
