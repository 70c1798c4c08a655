------------------------------ MODULE MCUserFS ------------------------------
(***************************************************************************)
(* Instances of UserFS for TLC.                                            *)
(***************************************************************************)
EXTENDS UserFSRefinement

CONSTANTS f1, f2, n1, n2, x, y

(* Files are opened for both, or some for reading only. *)
Plain == {{"CREATE"}}
ReadOrWrite == {{"CREATE"}, {"READ_ONLY"}}

Symmetry == Permutations(Files) \cup Permutations(Names)
ByteSymmetry == Permutations(Files) \cup Permutations(Bytes)

(* What a call returns and leaves in the error code decides nothing later:   *)
(* every call is made once in each state of the files and descriptors.       *)
NoAnswers == <<fileVars, descVars>>
=============================================================================
