------------------------------- MODULE Report -------------------------------
(***************************************************************************)
(* What a timeline owes its reader: every detection is shown once, unless   *)
(* one that reads the same is shown; and when events are sorted the report  *)
(* is in the order of time.  EngineScan is how Hayabusa keeps it.           *)
(***************************************************************************)
EXTENDS Naturals, Sequences, SequencesExt, Functions

VARIABLES
    due,        \* [detections -> [time, look]]
    ordered,
    shown,      \* the detections of the rows
    left_out,   \* those removed as duplicates
    done

vars == <<due, ordered, shown, left_out, done>>

Init == shown = <<>> /\ left_out = {} /\ done = FALSE

Covered(rows, rest) ==
    /\ ToSet(rows) \cup rest = DOMAIN due
    /\ ToSet(rows) \cap rest = {}
    /\ \A d \in rest : \E e \in ToSet(rows) : due[e].look = due[d].look

InOrder(rows) == \A i \in 1..(Len(rows) - 1) : due[rows[i]].time <= due[rows[i + 1]].time

(* Rows are only added; at the end nothing that is due is missing. *)
Write ==
    /\ ~done
    /\ IsPrefix(shown, shown') /\ IsInjective(shown') /\ ToSet(shown') \subseteq DOMAIN due
    /\ IF done' THEN Covered(shown', left_out') /\ (ordered => InOrder(shown'))
       ELSE left_out' = {}
    /\ UNCHANGED <<due, ordered>>

(* Every scan comes to its end. *)
Safe == Init /\ [][Write]_vars
Spec == Safe /\ <>done
=============================================================================
