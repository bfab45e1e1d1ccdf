---- MODULE MCNoteSync ----
(***************************************************************************)
(* Instances of NoteSync for TLC.                                          *)
(***************************************************************************)
EXTENDS NoteSync, TLC

CONSTANTS w1, w2

\* The writers are interchangeable.
MCSymmetry == Permutations({w1, w2})
====
