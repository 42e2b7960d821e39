---------------------------- MODULE MCFileEditor ----------------------------
(* Instances of FileEditor small enough for TLC.                             *)
EXTENDS FileEditor

Spent(edits, changes, faults, clicks) ==
  [edits |-> edits, changes |-> changes, faults |-> faults, clicks |-> clicks]
SmallBudgets ==
  {Spent(1, 1, 1, 1), Spent(1, 1, 0, 2), Spent(2, 0, 0, 1), Spent(2, 1, 0, 0), Spent(1, 2, 0, 0)}
=============================================================================
