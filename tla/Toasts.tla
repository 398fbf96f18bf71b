------------------------------- MODULE Toasts -------------------------------
(***************************************************************************)
(* The store of hooks/use-toast.ts that the pages of the dashboard share:  *)
(* toasts in memory, shown by Toaster, and one timer per toast dismissed.  *)
(* The list is kept newest first, that is in the order of the ids, so a    *)
(* set of toasts stands for it.  The counter's modulus is out of reach.    *)
(***************************************************************************)
EXTENDS Naturals, FiniteSets

CONSTANTS TOAST_LIMIT, \* toasts kept (1)
          Titles

ASSUME ToastAssumption == TOAST_LIMIT \in Nat \ {0}

VARIABLES count, toasts, timers \* timers: keys of toastTimeouts

toastVars == <<count, toasts, timers>>

ToasterToast == [id : Nat \ {0}, title : Titles, open : BOOLEAN]

ToastTypeOK ==
    /\ count \in Nat
    /\ toasts \subseteq ToasterToast
    /\ timers \subseteq 1..count
    /\ \A t \in toasts : t.id <= count

ToastInit == count = 0 /\ toasts = {} /\ timers = {}

-----------------------------------------------------------------------------
(* ADD_TOAST: [toast, ...toasts].slice(0, TOAST_LIMIT). *)
AddToast(list, n, title) ==
    LET all == list \cup {[id |-> n, title |-> title, open |-> TRUE]}
    IN  {t \in all : Cardinality({u \in all : u.id > t.id}) < TOAST_LIMIT}

(* toast(), with an id from genId. *)
toast(title) ==
    /\ count' = count + 1
    /\ toasts' = AddToast(toasts, count + 1, title)
    /\ UNCHANGED timers

(* UPDATE_TOAST, for the owner of an id: any property of the toast but the *)
(* id, "open" included, and no timer.                                      *)
Update(id, title, open) ==
    /\ toasts' = {IF t.id = id THEN [id |-> id, title |-> title, open |-> open] ELSE t :
                     t \in toasts}
    /\ UNCHANGED <<count, timers>>

(* One timer for all toasts. *)
addToRemoveQueue_OneTimer(ids) == timers' = IF timers = {} THEN ids ELSE timers

(* addToRemoveQueue, which starts one timer for an id. *)
addToRemoveQueue(ids) == timers' = timers \cup ids

(* DISMISS_TOAST with an id, that of a toast no longer kept included. *)
Dismiss(id) ==
    /\ addToRemoveQueue({id})
    /\ toasts' = {IF t.id = id THEN [t EXCEPT !.open = FALSE] ELSE t : t \in toasts}
    /\ UNCHANGED count

(* DISMISS_TOAST without an id. *)
DismissAll ==
    /\ addToRemoveQueue({t.id : t \in toasts})
    /\ toasts' = {[t EXCEPT !.open = FALSE] : t \in toasts}
    /\ UNCHANGED count

(* A timer of addToRemoveQueue: REMOVE_TOAST. *)
TimerFires(id) ==
    /\ id \in timers
    /\ timers' = timers \ {id}
    /\ toasts' = {t \in toasts : t.id # id}
    /\ UNCHANGED count

(* What Toaster renders with a button to close it, or closes by itself     *)
(* after a while: onOpenChange(false).                                     *)
Closable == {t.id : t \in {u \in toasts : u.open}}

(* What does not close a toast by an update. *)
DismissNext ==
    \/ \E title \in Titles : toast(title)
    \/ \E id \in 1..count :
          \/ Dismiss(id)
          \/ TimerFires(id)
          \/ \E title \in Titles, open \in BOOLEAN :
                /\ \A t \in toasts : t.id = id /\ t.open => open
                /\ Update(id, title, open)
    \/ DismissAll

ToastNext ==
    \/ DismissNext
    \/ \E id \in 1..count, title \in Titles, open \in BOOLEAN : Update(id, title, open)

(* The store with any caller, and with one that closes toasts by           *)
(* dismissing them only, as the pages of the dashboard do.                 *)
ToastSpec == ToastInit /\ [][ToastNext]_toastVars
DismissSpec == ToastInit /\ [][DismissNext]_toastVars

-----------------------------------------------------------------------------
(* A toast that was closed has a timer that will take it out of the list:  *)
(* no order of toasts, dismissals and timers leaves a closed one in it for *)
(* ever (lines 61-75 and 93-128).  So with DismissSpec; a caller that      *)
(* closes a toast by update({open: false}) leaves it in the list.          *)
ClosedToastLeaves == \A t \in toasts : ~t.open => t.id \in timers

(* An id stands for one toast, whichever toasts were cut off, taken out    *)
(* and updated before: a dismissal closes no other one.                    *)
OneToastPerId == \A t, u \in toasts : t.id = u.id => t = u

(* A toast taken out of the list, or cut off by a newer one, does not come *)
(* back: an old timer, a late dismissal or an update of it changes nothing.*)
GoneForGood ==
    [][\A t \in toasts' : t.id <= count => \E u \in toasts : u.id = t.id]_toastVars
=============================================================================
