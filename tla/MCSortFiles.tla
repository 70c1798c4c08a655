----------------------------- MODULE MCSortFiles -----------------------------
(***************************************************************************)
(* Instances of SortFiles for TLC.                                         *)
(***************************************************************************)
EXTENDS SortFilesProps

(* Files of at most three numbers, 9 being INT_MAX in the instances. *)
SomeContents ==
    {Missing, <<>>, <<1>>, <<9>>, <<9, 1>>, <<2, 1>>, <<1, 2>>, <<1, 1>>, <<3, 1, 2>>,
     <<2, 3, 1>>, <<1, 3, 2>>, <<2, 1, 1>>}
=============================================================================
