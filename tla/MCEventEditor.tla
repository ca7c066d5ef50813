----------------------------- MODULE MCEventEditor -----------------------------
(* One event, the fields of its form, and two openings of the modal that are  *)
(* alike.                                                                     *)
EXTENDS EventEditor, TLC

CONSTANTS first, second

MCEvents == {"meeting"}
MCTexts == {"fields"}
MCSessions == {first, second}
Symmetry == Permutations(MCSessions)
================================================================================
