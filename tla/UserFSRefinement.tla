-------------------------- MODULE UserFSRefinement --------------------------
(***************************************************************************)
(* UserFS implements FileStore.                                            *)
(***************************************************************************)
EXTENDS UserFSProps, SequencesExt

(* The bytes a file's blocks hold. *)
Content(f) ==
    FlattenSeq([b \in DOMAIN occupied[f] |-> SubSeq(memory[f][b], 1, occupied[f][b])])

(* What the flags of a descriptor allow. *)
Rights == [i \in Slots |-> {r \in {"read", "write"} :
                              (r = "read" /\ CanRead(i)) \/ (r = "write" /\ CanWrite(i))}]

Store == INSTANCE FileStore
           WITH folder <- [n \in Names |-> IF Lookup(n) = {} THEN None
                                           ELSE CHOOSE f \in Lookup(n) : TRUE],
                content <- [f \in Files |-> Content(f)],
                opened <- dfile, rights <- Rights, position <- offset,
                answer <- ret, request <- asked, bytes <- got, error <- ufs_error_code,
                MaxSize <- MAX_FILE_SIZE

(* Every call of userfs.c does to the files, as sequences of bytes, what     *)
(* userfs.h says, and only through descriptors whose flags allow it; a call  *)
(* that fails has no effect, and its error code has a reason.                *)
ImplementsStore == Store!Spec
=============================================================================
