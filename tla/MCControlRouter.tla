-------------------------- MODULE MCControlRouter --------------------------
(* ControlRouter with two modules and the chains the runs choose from.     *)
EXTENDS ControlRouter
CONSTANTS m1, m2
Both == m1 :> 0 @@ m2 :> 1
FirstAlone == m1 :> 0 @@ m2 :> Absent
\* Edits that leave the modules in their slots and no gap between the ids.
Steady == {Both, FirstAlone}
OneModule == {m1 :> 0}
TableSymmetry == Permutations(Tables)
============================================================================
