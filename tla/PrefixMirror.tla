---------------------------- MODULE PrefixMirror ----------------------------
(***************************************************************************)
(* What a mirror of a list promises to those who ask it: once it answers,  *)
(* it answers with a composition that the list really had, unless it was   *)
(* read badly, and it never goes back to an older one.  Module SessionLife *)
(* counts on this.                                                         *)
(***************************************************************************)
EXTENDS Integers, Sequences

CONSTANT Values    \* values that may be on the list

VARIABLES
    history,  \* compositions of the list, oldest first
    ready,    \* the mirror answers
    damaged,  \* what it answers with was read badly
    view,     \* index of the composition that it answers with
    content   \* that composition

vars == <<history, ready, damaged, view, content>>

Init ==
    /\ history \in Seq(SUBSET Values) /\ history # <<>>
    /\ ready = FALSE /\ damaged = FALSE
    /\ view = 1
    /\ content = {}

\* The list changes.
Grow ==
    /\ \E s \in SUBSET Values : history' = Append(history, s)
    /\ UNCHANGED <<ready, damaged, view, content>>

\* The mirror answers with what it had or with something newer.
Follow ==
    /\ ready' = TRUE
    /\ damaged' \in BOOLEAN
    /\ \E n \in view .. Len(history) :
         /\ view' = n
         /\ content' \in IF damaged' THEN SUBSET Values ELSE {history[n]}
    /\ UNCHANGED history

Next == Grow \/ Follow

Spec == Init /\ [][Next]_vars
=============================================================================
