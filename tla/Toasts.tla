------------------------------- MODULE Toasts -------------------------------
(***************************************************************************)
(* The messages at the edge of the page: at most MAX_VISIBLE of them, each *)
(* with a bar that fills (an interval timer) and a timer that removes it.  *)
(***************************************************************************)
EXTENDS Integers, Sequences, SequencesExt

CONSTANTS
  Messages,        \* messages, with their variant
  MaxVisible,   \* MAX_VISIBLE
  MaxShown,     \* bound: messages shown
  MaxStarts     \* bound: bars started

ASSUME ToastsAssumption == MaxVisible \in Nat \ {0} /\ {MaxShown, MaxStarts} \subseteq Nat

VARIABLES
  toasts,     \* the messages shown, the oldest first
  bars,       \* intervals that run: their number and the message they fill the bar of
  barOf,      \* progressTimers: the interval of a message, 0 for none
  removals,   \* messages whose removal timer runs, in the order they fire
  hovered,    \* hoverRef
  calm,       \* prefers-reduced-motion
  showings, starts

toastVars == <<toasts, bars, barOf, removals, hovered, calm, showings, starts>>

ToastIds == 1..MaxShown
Toast == [id : ToastIds, text : Messages, persistent : BOOLEAN, full : BOOLEAN, last : ToastIds]
Visible == {toasts[i] : i \in DOMAIN toasts}
SameText(text) == {i \in DOMAIN toasts : toasts[i].text = text}
Without(id) ==     \* no two messages have the same id
  LET at == {i \in DOMAIN toasts : toasts[i].id = id} IN
  IF at = {} THEN toasts ELSE RemoveAt(toasts, CHOOSE i \in at : TRUE)
Changed(id, New(_)) ==
  [i \in DOMAIN toasts |-> IF toasts[i].id = id THEN New(toasts[i]) ELSE toasts[i]]

-----------------------------------------------------------------------------
(* startProgress, for some messages, and clearProgress, for one: a bar that  *)
(* is started anew takes the other's place in progressTimers.                *)
ClearBar(id) == bars' = {b \in bars : b.number # barOf[id]} /\ barOf' = [barOf EXCEPT ![id] = 0]

StartBars(kept, ids) ==
  IF calm THEN bars' = kept /\ barOf' = [i \in ToastIds |-> IF i \in ids THEN 0 ELSE barOf[i]]
               /\ UNCHANGED starts
  ELSE /\ starts < MaxStarts /\ starts' = starts + 1
       /\ bars' = kept \cup {[number |-> starts', id |-> i] : i \in ids}
       /\ barOf' = [i \in ToastIds |-> IF i \in ids THEN starts' ELSE barOf[i]]

(* A mutant: whether the message stays is asked of the one shown already.    *)
RepeatedPassing(text, persistent) == {i \in SameText(text) : ~toasts[i].persistent}

(* The message with the same text that is shown already, whose bar starts    *)
(* again; one that stays is always shown.                                    *)
Repeated(text, persistent) ==
  {i \in SameText(text) : ~persistent /\ \A j \in SameText(text) : i <= j}

(* showToast.  A repeated message keeps the removal timer of its first       *)
(* showing; the bar and timer of the new one run for nothing.                *)
ShowToast(text, persistent) ==
  /\ showings < MaxShown /\ showings' = showings + 1
  /\ LET again == Repeated(text, persistent)
         old   == {toasts[i].id : i \in again}
         new   == [id |-> showings', text |-> text, persistent |-> persistent, full |-> FALSE,
                   last |-> showings']
         all   == Append(toasts, new)
     IN  /\ IF again # {}
            THEN toasts' = [i \in DOMAIN toasts |->
                              IF i \in again THEN [toasts[i] EXCEPT !.full = FALSE, !.last = showings']
                              ELSE toasts[i]]
            ELSE toasts' = IF Len(all) > MaxVisible THEN Tail(all) ELSE all
         /\ IF persistent THEN UNCHANGED <<bars, barOf, starts, removals>>
            ELSE /\ StartBars({b \in bars : \A i \in old : b.number # barOf[i]}, old \cup {showings'})
                 /\ removals' = Append(removals, showings')
  /\ UNCHANGED <<hovered, calm>>

(* removeToast: by its button, its action or a swipe; and by its timer.      *)
RemoveToast(id) ==
  /\ \E t \in Visible : t.id = id
  /\ ClearBar(id) /\ toasts' = Without(id)
  /\ UNCHANGED <<removals, hovered, calm, showings, starts>>

RemovalDue ==
  /\ removals # <<>> /\ removals' = Tail(removals)
  /\ ClearBar(Head(removals)) /\ toasts' = Without(Head(removals))
  /\ UNCHANGED <<hovered, calm, showings, starts>>

DismissAll ==
  /\ toasts # <<>> /\ toasts' = <<>>
  /\ bars' = {b \in bars : barOf[b.id] # b.number}
  /\ barOf' = [i \in ToastIds |-> 0]
  /\ UNCHANGED <<removals, hovered, calm, showings, starts>>

(* The bar is full: its interval ends and is forgotten, whichever of the     *)
(* message's intervals it was.                                               *)
BarFull(b) ==
  /\ bars' = bars \ {b} /\ barOf' = [barOf EXCEPT ![b.id] = 0]
  /\ toasts' = Changed(b.id, LAMBDA t : [t EXCEPT !.full = TRUE])
  /\ UNCHANGED <<removals, hovered, calm, showings, starts>>

(* handleHover: the pointer stops the bar, not the removal. *)
HoverEnter(t) ==
  /\ ~calm /\ ~t.persistent /\ t.id \notin hovered
  /\ hovered' = hovered \cup {t.id} /\ ClearBar(t.id)
  /\ UNCHANGED <<toasts, removals, calm, showings, starts>>

HoverLeave(t) ==
  /\ t.id \in hovered /\ hovered' = hovered \ {t.id}
  /\ StartBars(bars, {t.id})
  /\ toasts' = Changed(t.id, LAMBDA u : [u EXCEPT !.full = FALSE])
  /\ UNCHANGED <<removals, calm, showings>>

-----------------------------------------------------------------------------
ToastsInit ==
  /\ toasts = <<>> /\ bars = {} /\ barOf = [i \in ToastIds |-> 0] /\ removals = <<>>
  /\ hovered = {} /\ calm \in BOOLEAN /\ showings = 0 /\ starts = 0

ToastsNext ==
  \/ \E text \in Messages, p \in BOOLEAN : ShowToast(text, p)
  \/ \E id \in ToastIds : RemoveToast(id)
  \/ RemovalDue \/ DismissAll
  \/ \E b \in bars : BarFull(b)
  \/ \E t \in Visible : HoverEnter(t) \/ HoverLeave(t)

ToastsSpec == ToastsInit /\ [][ToastsNext]_toastVars

-----------------------------------------------------------------------------
(* Messages and timers have their types. *)
ToastsTypeOK ==
  /\ toasts \in Seq(Toast) /\ bars \subseteq [number : 1..MaxStarts, id : ToastIds]
  /\ barOf \in [ToastIds -> 0..MaxStarts] /\ removals \in Seq(ToastIds)
  /\ hovered \subseteq ToastIds /\ calm \in BOOLEAN
  /\ showings \in 0..MaxShown /\ starts \in 0..MaxStarts

(* Never more than MAX_VISIBLE messages are shown; each that is not to stay  *)
(* will be removed and, unless the pointer is on it, has a bar that fills or *)
(* is full; and none repeats an earlier one unless it is to stay, through    *)
(* repetitions, dismissals and a pointer that comes and goes (Toast.tsx).    *)
ToastsLeave ==
  /\ Len(toasts) <= MaxVisible
  /\ \A t \in Visible : ~t.persistent =>
       /\ t.id \in ToSet(removals)
       /\ calm \/ t.full \/ t.id \in hovered \/ \E b \in bars : b.id = t.id
  /\ \A i, j \in DOMAIN toasts : i < j /\ toasts[i].text = toasts[j].text => toasts[j].persistent

(* A message shown again stays as long as the first time.  The code does not *)
(* hold it: the timer of the first showing takes it away.                    *)
ShownAgainStays ==
  [][RemovalDue => \A t \in Visible : t.id = Head(removals) => t.last = t.id]_toastVars

=============================================================================
