------------------------------ MODULE ForkJoin ------------------------------
(***************************************************************************)
(* What a case of ipi-bench promises, without threads, counters, waits or  *)
(* memory: a team of workers is formed, the workers come together, all     *)
(* begin only then, the final figures of each are shown only when all have *)
(* finished, and the case is over only when those of all have been shown.  *)
(* A case may be given up as long as it has no team.                       *)
(***************************************************************************)
CONSTANT Member   \* those who may be in a team

VARIABLES team, came, began, finished, shown, over

vars == <<team, came, began, finished, shown, over>>

Init == /\ team = {} /\ came = {} /\ began = {} /\ finished = {} /\ shown = {}
        /\ over = FALSE

Form ==
  /\ team = {} /\ ~over
  /\ team' \in SUBSET Member
  /\ UNCHANGED <<came, began, finished, shown, over>>

Come(w) ==
  /\ w \in team \ came
  /\ came' = came \cup {w}
  /\ UNCHANGED <<team, began, finished, shown, over>>

Begin(w) ==
  /\ came = team /\ w \in team \ began
  /\ began' = began \cup {w}
  /\ UNCHANGED <<team, came, finished, shown, over>>

FinishOne(w) ==
  /\ w \in began \ finished
  /\ finished' = finished \cup {w}
  /\ UNCHANGED <<team, came, began, shown, over>>

ShowOne(w) ==
  /\ finished = team /\ w \in team \ shown
  /\ shown' = shown \cup {w}
  /\ UNCHANGED <<team, came, began, finished, over>>

\* The case is over; with an empty team it has been given up.
End ==
  /\ ~over /\ shown = team
  /\ over' = TRUE
  /\ UNCHANGED <<team, came, began, finished, shown>>

Next == \/ Form \/ End
        \/ \E w \in Member : \/ Come(w) \/ Begin(w) \/ FinishOne(w)
                             \/ ShowOne(w)

\* Steps are taken in this order only, and the case does not last forever.
SafeSpec == Init /\ [][Next]_vars
Spec     == SafeSpec /\ <>over
=============================================================================
