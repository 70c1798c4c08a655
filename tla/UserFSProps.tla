----------------------------- MODULE UserFSProps -----------------------------
(***************************************************************************)
(* What must be true of hw3/userfs.c.                                      *)
(***************************************************************************)
EXTENDS UserFS

(* What the lists and tables hold.  The table has the free descriptor that   *)
(* ufs_open looks for: the error of lines 175-179 does not happen, and no    *)
(* descriptor is behind its end.                                             *)
TypeOK ==
    /\ file_list \subseteq Files /\ is_ghost \subseteq file_list
    /\ name \in [Files -> Names \cup {None}]
    /\ refs \in [Files -> Nat] /\ size \in [Files -> 0 .. MAX_FILE_SIZE]
    /\ memory \in [Files -> Seq(Block)] /\ occupied \in [Files -> Seq(1 .. BLOCK_SIZE)]
    /\ \A f \in Files : Len(memory[f]) = Len(occupied[f])
    /\ capacity \in 0 .. MaxCapacity /\ used \in 0 .. MaxCapacity
    /\ dfile \in [Slots -> Files \cup {None}]
    /\ open_flags \in [Slots -> SUBSET Flags] /\ offset \in [Slots -> Nat]
    /\ used = Cardinality({i \in Slots : dfile[i] # None})
    /\ used <= capacity
    /\ \A i \in Slots : dfile[i] # None => i < capacity
    /\ ufs_error_code \in ErrorCode /\ ret \in Int
    /\ asked \in Requests /\ got \in Seq(AnyByte)

OpenOn(f) == {i \in Slots : dfile[i] = f}

(* A descriptor leads to a file that exists, refs counts its descriptors,    *)
(* and a deleted file exists just as long as it has any (lines 369 and 398). *)
FilesLive ==
    \A f \in Files :
      /\ refs[f] = Cardinality(OpenOn(f))
      /\ OpenOn(f) # {} => f \in file_list
      /\ f \in is_ghost => OpenOn(f) # {}

(* The chain of blocks is as long as every walk along it: ufs_write goes to  *)
(* block offset / BLOCK_SIZE without a check (line 241), ufs_resize frees as *)
(* many blocks as the size asks for (line 436), and sets the last one (496). *)
WalksInside ==
    /\ \A i \in Slots : dfile[i] # None =>
         offset[i] \div BLOCK_SIZE <= Len(occupied[dfile[i]])
    /\ \A f \in Files : BlockCount(size[f]) <= Len(occupied[f])

(* The size of a file is what its blocks hold: all of them are full but the  *)
(* last, and nobody is behind the end.                                       *)
ChainMatchesSize ==
    /\ \A f \in Files : LET last == Len(occupied[f]) IN
         /\ last = BlockCount(size[f])
         /\ \A b \in 1 .. last : occupied[f][b] =
              IF b = last THEN LastOccupied(size[f]) ELSE BLOCK_SIZE
    /\ \A i \in Slots : dfile[i] # None => offset[i] <= size[dfile[i]]
=============================================================================
