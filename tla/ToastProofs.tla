---------------------------- MODULE ToastProofs ----------------------------
(***************************************************************************)
(* The toast store for every limit and every sequence of calls: what it    *)
(* keeps with any caller, and that no closed toast stays with a caller     *)
(* that closes toasts by dismissing them only.                             *)
(***************************************************************************)
EXTENDS Toasts, TLAPS

(* With any caller, and with one that does not close toasts by updates. *)
StoreInv == ToastTypeOK /\ OneToastPerId
ToastInv == StoreInv /\ ClosedToastLeaves

(* Nothing but the new toast comes into the list. *)
LEMMA AddToastAdds ==
    ASSUME NEW list, NEW n, NEW title
    PROVE  AddToast(list, n, title)
               \subseteq list \cup {[id |-> n, title |-> title, open |-> TRUE]}
BY DEF AddToast

LEMMA StoreStep == StoreInv /\ [ToastNext]_toastVars => StoreInv'
<1> SUFFICES ASSUME StoreInv, [ToastNext]_toastVars
             PROVE  StoreInv'
  OBVIOUS
<1> USE DEF StoreInv, ToastTypeOK, OneToastPerId, ToasterToast
<1>1. ASSUME NEW title \in Titles, toast(title)
      PROVE  StoreInv'
  <2> DEFINE new == [id |-> count + 1, title |-> title, open |-> TRUE]
  <2>1. toasts' \subseteq toasts \cup {new}
    BY <1>1, AddToastAdds DEF toast
  <2>2. new \in ToasterToast
    OBVIOUS
  <2>3. \A t \in toasts : t.id \in Nat /\ t.id < count + 1
    OBVIOUS
  <2>4. timers' = timers /\ count' = count + 1
    BY <1>1 DEF toast
  <2>5. ToastTypeOK'
    <3>1. count' \in Nat /\ timers' \subseteq 1..count'
      BY <2>4
    <3>2. toasts' \subseteq ToasterToast
      BY <2>1, <2>2
    <3>3. \A t \in toasts' : t.id <= count'
      BY <2>1, <2>3, <2>4
    <3>4. QED
      BY <3>1, <3>2, <3>3
  <2>6. OneToastPerId'
    <3> SUFFICES ASSUME NEW t \in toasts', NEW u \in toasts', t.id = u.id
                 PROVE  t = u
      OBVIOUS
    <3>1. new.id = count + 1
      OBVIOUS
    <3>2. CASE t \in toasts /\ u \in toasts
      BY <3>2
    <3>3. CASE t = new /\ u = new
      BY <3>3
    <3>4. \A v \in toasts : v.id # new.id
      BY <2>3, <3>1
    <3>5. QED
      BY <2>1, <3>2, <3>3, <3>4
  <2>7. QED
    BY <2>5, <2>6
<1>2. ASSUME NEW id \in 1..count, Dismiss(id)
      PROVE  StoreInv'
  <2> DEFINE closed(t) == IF t.id = id THEN [t EXCEPT !.open = FALSE] ELSE t
  <2>1. /\ toasts' = {closed(t) : t \in toasts}
        /\ timers' = timers \cup {id}
        /\ count' = count
    BY <1>2 DEF Dismiss, addToRemoveQueue
  <2>2. \A t \in toasts :
           /\ closed(t) \in ToasterToast
           /\ closed(t).id = t.id
           /\ t.id \in 1..count
    <3> TAKE t \in toasts
    <3>1. t \in [id : Nat \ {0}, title : Titles, open : BOOLEAN]
      OBVIOUS
    <3>2. t.id \in Nat \ {0} /\ t.id <= count /\ count \in Nat
      BY <3>1
    <3>3. t.id \in 1..count
      BY <3>2
    <3>4. CASE t.id = id
      BY <3>1, <3>3, <3>4
    <3>5. CASE t.id # id
      BY <3>1, <3>3, <3>5
    <3>6. QED
      BY <3>4, <3>5
  <2>3. \A u \in toasts' : \E t \in toasts : u = closed(t)
    BY <2>1
  <2> HIDE DEF closed
  <2>4. ToastTypeOK'
    <3>1. toasts' \subseteq ToasterToast /\ \A u \in toasts' : u.id <= count'
      BY <2>1, <2>2, <2>3
    <3>2. timers' \subseteq 1..count'
      BY <2>1, <2>2
    <3>3. QED
      BY <2>1, <3>1, <3>2
  <2>5. OneToastPerId'
    <3> SUFFICES ASSUME NEW u \in toasts', NEW v \in toasts', u.id = v.id
                 PROVE  u = v
      OBVIOUS
    <3>1. PICK t \in toasts : u = closed(t)
      BY <2>3
    <3>2. PICK w \in toasts : v = closed(w)
      BY <2>3
    <3>3. t.id = w.id
      BY <2>2, <3>1, <3>2
    <3>4. QED
      BY <3>1, <3>2, <3>3
  <2>6. QED
    BY <2>4, <2>5
<1>3. ASSUME NEW id \in 1..count, TimerFires(id)
      PROVE  StoreInv'
  <2>1. toasts' \subseteq toasts /\ timers' = timers \ {id} /\ count' = count
    BY <1>3 DEF TimerFires
  <2>2. \A t \in toasts' : t.id # id
    BY <1>3 DEF TimerFires
  <2>3. ToastTypeOK'
    BY <2>1
  <2>4. OneToastPerId'
    BY <2>1
  <2>5. QED
    BY <2>3, <2>4
<1>4. ASSUME NEW id \in 1..count, NEW title \in Titles, NEW open \in BOOLEAN,
             Update(id, title, open)
      PROVE  StoreInv'
  <2> DEFINE new == [id |-> id, title |-> title, open |-> open]
  <2>1. /\ toasts' = {IF t.id = id THEN new ELSE t : t \in toasts}
        /\ timers' = timers /\ count' = count
    BY <1>4 DEF Update
  <2>2. new \in ToasterToast /\ new.id = id
    OBVIOUS
  <2> HIDE DEF new
  <2>3. toasts' \subseteq ToasterToast /\ \A t \in toasts' : t.id <= count'
    BY <2>1, <2>2
  <2>4. OneToastPerId'
    <3> SUFFICES ASSUME NEW u \in toasts', NEW v \in toasts', u.id = v.id
                 PROVE  u = v
      OBVIOUS
    <3>1. \A w \in toasts' : w = new \/ (w \in toasts /\ w.id # id)
      BY <2>1
    <3>2. QED
      BY <2>2, <3>1
  <2>5. QED
    BY <2>1, <2>3, <2>4
<1>5. ASSUME DismissAll
      PROVE  StoreInv'
  <2>1. /\ toasts' = {[t EXCEPT !.open = FALSE] : t \in toasts}
        /\ timers' = timers \cup {t.id : t \in toasts}
        /\ count' = count
    BY <1>5 DEF DismissAll, addToRemoveQueue
  <2>2. \A t \in toasts :
           /\ [t EXCEPT !.open = FALSE] \in ToasterToast
           /\ [t EXCEPT !.open = FALSE].id = t.id
           /\ t.id \in 1..count
    <3> TAKE t \in toasts
    <3>1. t \in [id : Nat \ {0}, title : Titles, open : BOOLEAN]
      OBVIOUS
    <3>2. t.id \in Nat \ {0} /\ t.id <= count /\ count \in Nat
      BY <3>1
    <3>3. t.id \in 1..count
      BY <3>2
    <3>4. QED
      BY <3>1, <3>3
  <2>3. \A u \in toasts' : \E t \in toasts : u = [t EXCEPT !.open = FALSE]
    BY <2>1
  <2>4. ToastTypeOK'
    <3>1. toasts' \subseteq ToasterToast /\ \A u \in toasts' : u.id <= count'
      BY <2>1, <2>2, <2>3
    <3>2. timers' \subseteq 1..count'
      BY <2>1, <2>2
    <3>3. QED
      BY <2>1, <3>1, <3>2
  <2>5. OneToastPerId'
    <3> SUFFICES ASSUME NEW u \in toasts', NEW v \in toasts', u.id = v.id
                 PROVE  u = v
      OBVIOUS
    <3>1. PICK t \in toasts : u = [t EXCEPT !.open = FALSE]
      BY <2>3
    <3>2. PICK w \in toasts : v = [w EXCEPT !.open = FALSE]
      BY <2>3
    <3>3. t.id = w.id
      BY <2>2, <3>1, <3>2
    <3>4. QED
      BY <3>1, <3>2, <3>3
  <2>6. QED
    BY <2>4, <2>5
<1>6. CASE UNCHANGED toastVars
  BY <1>6 DEF toastVars
<1>7. QED
  BY <1>1, <1>2, <1>3, <1>4, <1>5, <1>6 DEF ToastNext, DismissNext

(* What closes a toast other than an update starts its timer, and only the *)
(* timer of a toast ends its being waited for.                             *)
LEMMA ToastStep == ToastInv /\ [DismissNext]_toastVars => ToastInv'
<1> SUFFICES ASSUME ToastInv, [DismissNext]_toastVars
             PROVE  ToastInv'
  OBVIOUS
<1> USE DEF ToastInv, ClosedToastLeaves
<1>1. StoreInv'
  BY StoreStep DEF ToastNext
<1>2. toasts \subseteq [id : Nat \ {0}, title : Titles, open : BOOLEAN]
  BY DEF StoreInv, ToastTypeOK, ToasterToast
<1>3. ASSUME NEW title \in Titles, toast(title)
      PROVE  ClosedToastLeaves'
  <2> DEFINE new == [id |-> count + 1, title |-> title, open |-> TRUE]
  <2>1. toasts' \subseteq toasts \cup {new} /\ timers' = timers
    BY <1>3, AddToastAdds DEF toast
  <2>2. new.open
    OBVIOUS
  <2> HIDE DEF new
  <2>3. QED
    BY <2>1, <2>2
<1>4. ASSUME NEW id \in 1..count, Dismiss(id)
      PROVE  ClosedToastLeaves'
  <2>1. /\ toasts' = {IF t.id = id THEN [t EXCEPT !.open = FALSE] ELSE t : t \in toasts}
        /\ timers' = timers \cup {id}
    BY <1>4 DEF Dismiss, addToRemoveQueue
  <2>2. \A t \in toasts : t.id = id => [t EXCEPT !.open = FALSE].id = id
    BY <1>2
  <2>3. QED
    BY <2>1, <2>2
<1>5. ASSUME NEW id \in 1..count, TimerFires(id)
      PROVE  ClosedToastLeaves'
  BY <1>5 DEF TimerFires
<1>6. ASSUME NEW id \in 1..count, NEW title \in Titles, NEW open \in BOOLEAN,
             \A t \in toasts : t.id = id /\ t.open => open, Update(id, title, open)
      PROVE  ClosedToastLeaves'
  <2> DEFINE new == [id |-> id, title |-> title, open |-> open]
  <2>1. /\ toasts' = {IF t.id = id THEN new ELSE t : t \in toasts}
        /\ timers' = timers
    BY <1>6 DEF Update
  <2>2. new.id = id /\ new.open = open
    OBVIOUS
  <2> HIDE DEF new
  <2>3. \A t \in toasts : t.id = id /\ ~new.open => id \in timers
    BY <1>6, <2>2
  <2>4. QED
    BY <2>1, <2>2, <2>3
<1>7. ASSUME DismissAll
      PROVE  ClosedToastLeaves'
  <2>1. /\ toasts' = {[t EXCEPT !.open = FALSE] : t \in toasts}
        /\ timers' = timers \cup {t.id : t \in toasts}
    BY <1>7 DEF DismissAll, addToRemoveQueue
  <2>2. \A t \in toasts : [t EXCEPT !.open = FALSE].id = t.id
    BY <1>2
  <2>3. QED
    BY <2>1, <2>2
<1>8. ASSUME UNCHANGED toastVars
      PROVE  ClosedToastLeaves'
  BY <1>8 DEF toastVars
<1>9. QED
  BY <1>1, <1>3, <1>4, <1>5, <1>6, <1>7, <1>8 DEF DismissNext

(* StoreInv is inductive: whatever its callers do, updates that set "open" *)
(* included, the store keeps one toast per id, with an id that was given   *)
(* out, and no timer for an id that was not.                               *)
THEOREM ToastSafety == ToastSpec => []StoreInv
<1>1. ToastInit => StoreInv
  BY DEF ToastInit, StoreInv, ToastTypeOK, OneToastPerId
<1>2. QED
  BY <1>1, StoreStep, PTL DEF ToastSpec

(* No two toasts share an id, so that a timer or a dismissal is about one. *)
THEOREM IdsAreUnique == ToastSpec => []OneToastPerId
<1>1. StoreInv => OneToastPerId
  BY DEF StoreInv
<1>2. QED
  BY <1>1, ToastSafety, PTL

(* With a caller that closes toasts by dismissals only, every closed toast *)
(* has its timer.                                                          *)
THEOREM ToastsLeave == DismissSpec => []ClosedToastLeaves
<1>1. ToastInit => ToastInv
  BY DEF ToastInit, ToastInv, StoreInv, ToastTypeOK, ClosedToastLeaves, OneToastPerId
<1>2. ToastInv => ClosedToastLeaves
  BY DEF ToastInv
<1>3. QED
  BY <1>1, <1>2, ToastStep, PTL DEF DismissSpec

(* No step of the store brings an old toast back. *)
THEOREM ToastsStayGone == ToastSpec => GoneForGood
<1> DEFINE A == \A t \in toasts' : t.id <= count => \E u \in toasts : u.id = t.id
<1>1. StoreInv /\ [ToastNext]_toastVars => [A]_toastVars
  <2> SUFFICES ASSUME StoreInv, ToastNext, NEW t \in toasts', t.id <= count
               PROVE  \E u \in toasts : u.id = t.id
    BY DEF toastVars
  <2> USE DEF StoreInv, ToastTypeOK, ToasterToast
  <2>1. CASE \E title \in Titles : toast(title)
    <3>1. PICK title \in Titles : toast(title)
      BY <2>1
    <3>2. t \in toasts \cup {[id |-> count + 1, title |-> title, open |-> TRUE]}
      BY <3>1, AddToastAdds DEF toast
    <3>3. QED
      BY <3>2
  <2>2. ASSUME NEW id \in 1..count,
               \/ Dismiss(id) \/ TimerFires(id)
               \/ \E title \in Titles, open \in BOOLEAN : Update(id, title, open)
        PROVE  \E u \in toasts : u.id = t.id
    BY <2>2 DEF Dismiss, TimerFires, Update
  <2>3. CASE DismissAll
    BY <2>3 DEF DismissAll
  <2>4. QED
    BY <2>1, <2>2, <2>3 DEF ToastNext, DismissNext
<1>2. QED
  BY <1>1, ToastSafety, PTL DEF ToastSpec, GoneForGood
=============================================================================
