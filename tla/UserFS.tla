------------------------------- MODULE UserFS -------------------------------
(***************************************************************************)
(* The in-memory file system of hw3/userfs.c: the list of files, their     *)
(* chains of blocks and the table of descriptors.                          *)
(*                                                                         *)
(* The program is sequential: an action is a whole call.  A file is a      *)
(* piece of memory that ufs_open may use again once it is freed.  The      *)
(* chain of blocks of a file is two sequences of the same length.          *)
(***************************************************************************)
EXTENDS Integers, Sequences, FiniteSets

CONSTANTS
    Files,          \* memory for struct file
    Names,          \* file names
    None,           \* NULL
    Bytes,          \* what clients write
    Zero, Garbage,  \* what calloc and malloc leave in a new block
    BLOCK_SIZE, MAX_FILE_SIZE,
    FirstCapacity,  \* size of the first table of descriptors, 10 in the code
    MaxCapacity,    \* bound on the size of the table
    MaxRequest,     \* bound on the length of a buffer
    MaxBlocks,      \* bound on the length of a chain of blocks
    OpenFlags,      \* the combinations of flags that files are opened with
    Overwriting,    \* may clients write into blocks that are full?
    ReadersResize   \* may clients resize through descriptors that only read?

ASSUME ConstantsAssumption ==
    /\ None \notin Files \cup Names \cup Nat
    /\ BLOCK_SIZE \in Nat \ {0} /\ MAX_FILE_SIZE \in Nat
    /\ FirstCapacity \in Nat \ {0} /\ MaxCapacity \in Nat
    /\ FirstCapacity <= MaxCapacity /\ MaxRequest \in Nat /\ MaxBlocks \in Nat
    /\ Overwriting \in BOOLEAN /\ ReadersResize \in BOOLEAN
    /\ OpenFlags \subseteq SUBSET {"CREATE", "READ_ONLY", "WRITE_ONLY", "READ_WRITE"}

VARIABLES
    (* struct file: the files in file_list, and their fields.  A block holds *)
    (* memory[f][b] and the number occupied[f][b] of its bytes in use.       *)
    file_list, name, is_ghost, refs, size, memory, occupied,
    (* file_descriptors and struct filedesc; dfile[i] = None is NULL.        *)
    capacity, used, dfile, open_flags, offset,
    (* The error code, what the last call has returned, what it was asked    *)
    (* for, and the bytes that it has got.                                   *)
    ufs_error_code, ret, asked, got

fileVars == <<file_list, name, is_ghost, refs, size, memory, occupied>>
descVars == <<capacity, used, dfile, open_flags, offset>>
vars == <<fileVars, descVars, ufs_error_code, ret, asked, got>>

AnyByte == Bytes \cup {Zero, Garbage}
Block == [1 .. BLOCK_SIZE -> AnyByte]
Slots == 0 .. MaxCapacity - 1
Flags == {"CREATE", "READ_ONLY", "WRITE_ONLY", "READ_WRITE"}
ErrorCode == {"NO_ERR", "NO_FILE", "NO_MEM", "NO_PERMISSION"}

(* What a read, a write or a resize is asked for: None for the other calls,  *)
(* and for those that fail.                                                  *)
Requests == ({"read", "write", "resize"} \X Nat) \cup {None}

Init ==
    /\ file_list = {} /\ is_ghost = {}
    /\ name = [f \in Files |-> None]
    /\ refs = [f \in Files |-> 0] /\ size = [f \in Files |-> 0]
    /\ memory = [f \in Files |-> <<>>] /\ occupied = [f \in Files |-> <<>>]
    /\ capacity = 0 /\ used = 0
    /\ dfile = [i \in Slots |-> None] /\ open_flags = [i \in Slots |-> {}]
    /\ offset = [i \in Slots |-> 0]
    /\ ufs_error_code = "NO_ERR" /\ ret = 0 /\ asked = None /\ got = <<>>

Lesser(a, b) == IF a < b THEN a ELSE b
Greater(a, b) == IF a < b THEN b ELSE a

(* How many blocks n bytes need, and how many of them are in the last one. *)
BlockCount(n) == (n + BLOCK_SIZE - 1) \div BLOCK_SIZE
LastOccupied(n) == IF n % BLOCK_SIZE = 0 THEN BLOCK_SIZE ELSE n % BLOCK_SIZE

Replies(request, r) ==
    ret' = r /\ asked' = request /\ got' = <<>> /\ UNCHANGED ufs_error_code

Returns(r) == Replies(None, r)

Fails(code) == ret' = -1 /\ asked' = None /\ got' = <<>> /\ ufs_error_code' = code

-----------------------------------------------------------------------------
(* ufs_open, ufs_close, ufs_delete, ufs_destroy *)

(* Lines 113-118 and 385-390: the file that is found under a name. *)
Lookup(n) == {f \in file_list \ is_ghost : name[f] = n}

(* Lines 107-109. *)
Normal(flags) ==
    IF flags \cap {"READ_ONLY", "WRITE_ONLY"} = {} THEN flags \cup {"READ_WRITE"}
                                                   ELSE flags

(* Lines 127-147. *)
Create(f, n) ==
    /\ f \notin file_list
    /\ file_list' = file_list \cup {f}
    /\ name' = [name EXCEPT ![f] = n]
    /\ is_ghost' = is_ghost \ {f}
    /\ size' = [size EXCEPT ![f] = 0]
    /\ memory' = [memory EXCEPT ![f] = <<>>]
    /\ occupied' = [occupied EXCEPT ![f] = <<>>]

BugSameCapacity(i) ==
    LET cap == IF capacity <= 0 THEN FirstCapacity ELSE capacity
    IN  \/ /\ used < cap
           /\ i \in 0 .. cap - 1 /\ dfile[i] = None
           /\ \A j \in 0 .. i - 1 : dfile[j] # None
           /\ capacity' = cap
        \/ used >= cap /\ i = used /\ capacity' = cap

(* Lines 150-193: the lowest free descriptor, or the first one of the upper *)
(* half of a table of twice the size.                                       *)
FreeSlot(i) ==
    LET cap == IF capacity <= 0 THEN FirstCapacity ELSE capacity
    IN  \/ /\ used < cap
           /\ i \in 0 .. cap - 1 /\ dfile[i] = None
           /\ \A j \in 0 .. i - 1 : dfile[j] # None
           /\ capacity' = cap
        \/ used >= cap /\ i = used /\ capacity' = 2 * cap

(* Lines 195-202. *)
Open(n, flags, f, i) ==
    /\ \/ f \in Lookup(n) /\ UNCHANGED <<file_list, name, is_ghost, size, memory, occupied>>
       \/ Lookup(n) = {} /\ "CREATE" \in flags /\ Create(f, n)
    /\ FreeSlot(i) /\ capacity' <= MaxCapacity
    /\ used' = used + 1
    /\ dfile' = [dfile EXCEPT ![i] = f]
    /\ open_flags' = [open_flags EXCEPT ![i] = Normal(flags)]
    /\ offset' = [offset EXCEPT ![i] = 0]
    /\ refs' = [refs EXCEPT ![f] = IF f \in file_list THEN @ + 1 ELSE 1]
    /\ Returns(i + 1)

(* Lines 120-125 and 392-396. *)
NoSuchFile(n) ==
    /\ Lookup(n) = {}
    /\ Fails("NO_FILE")
    /\ UNCHANGED <<fileVars, descVars>>

(* Lines 78-103: the file leaves the list and its memory is freed. *)
Free(f) ==
    /\ file_list' = file_list \ {f}
    /\ is_ghost' = is_ghost \ {f}
    /\ size' = [size EXCEPT ![f] = 0]
    /\ memory' = [memory EXCEPT ![f] = <<>>]
    /\ occupied' = [occupied EXCEPT ![f] = <<>>]
    /\ name' = [name EXCEPT ![f] = None]

IsOpen(fd) == fd - 1 \in 0 .. capacity - 1 /\ dfile[fd - 1] # None

(* The checks at the head of write, read, close and resize. *)
BadDescriptor(fd) ==
    /\ ~IsOpen(fd)
    /\ Fails("NO_FILE")
    /\ UNCHANGED <<fileVars, descVars>>

BugFreeGhost(f) == f \in is_ghost

(* Line 369, with refs already decremented. *)
LastReference(f) == refs[f] - 1 <= 0 /\ f \in is_ghost

(* Lines 368-379. *)
Close(fd) ==
    LET i == fd - 1
        f == dfile[i]
    IN  /\ IsOpen(fd)
        /\ refs' = [refs EXCEPT ![f] = @ - 1]
        /\ IF LastReference(f)
           THEN Free(f)
           ELSE UNCHANGED <<file_list, name, is_ghost, size, memory, occupied>>
        /\ dfile' = [dfile EXCEPT ![i] = None]
        /\ open_flags' = [open_flags EXCEPT ![i] = {}]
        /\ offset' = [offset EXCEPT ![i] = 0]
        /\ used' = used - 1
        /\ Returns(0)
        /\ UNCHANGED capacity

(* Lines 398-405. *)
Delete(n) ==
    \E f \in Lookup(n) :
      /\ IF refs[f] <= 0
         THEN Free(f)
         ELSE /\ is_ghost' = is_ghost \cup {f}
              /\ UNCHANGED <<file_list, name, size, memory, occupied>>
      /\ Returns(0)
      /\ UNCHANGED <<refs, descVars>>

(* Lines 508-527. *)
Destroy ==
    /\ capacity' = 0 /\ used' = 0
    /\ dfile' = [i \in Slots |-> None] /\ open_flags' = [i \in Slots |-> {}]
    /\ offset' = [i \in Slots |-> 0]
    /\ file_list' = {} /\ is_ghost' = {}
    /\ refs' = [f \in Files |-> 0] /\ size' = [f \in Files |-> 0]
    /\ memory' = [f \in Files |-> <<>>] /\ occupied' = [f \in Files |-> <<>>]
    /\ name' = [f \in Files |-> None]
    /\ Returns(0)

-----------------------------------------------------------------------------
(* ufs_write and ufs_read *)

CanWrite(i) == open_flags[i] \cap {"WRITE_ONLY", "READ_WRITE"} # {}
CanRead(i) == open_flags[i] \cap {"READ_ONLY", "READ_WRITE"} # {}

(* Lines 221-226 and 308-313. *)
NoPermission(fd) ==
    /\ IsOpen(fd)
    /\ ~CanWrite(fd - 1) \/ ~CanRead(fd - 1)
    /\ Fails("NO_PERMISSION")
    /\ UNCHANGED <<fileVars, descVars>>

(* Lines 228-231. *)
WriteNothing(fd) ==
    /\ IsOpen(fd) /\ CanWrite(fd - 1)
    /\ Replies(<<"write", 0>>, 0)
    /\ UNCHANGED <<fileVars, descVars>>

(* Line 233: the check counts the bytes as if they were appended. *)
TooBig(f, n) == size[f] + n > MAX_FILE_SIZE

WriteNoMem(fd, n) ==
    /\ IsOpen(fd) /\ CanWrite(fd - 1) /\ n > 0
    /\ TooBig(dfile[fd - 1], n)
    /\ Fails("NO_MEM")
    /\ UNCHANGED <<fileVars, descVars>>

(* Lines 239-242: the block the descriptor stands at, if the chain is that  *)
(* long.                                                                    *)
Current(i) == offset[i] \div BLOCK_SIZE + 1

(* Line 248: a write starts in that block unless it is full. *)
InPlace(i) ==
    /\ Current(i) <= Len(occupied[dfile[i]])
    /\ occupied[dfile[i]][Current(i)] # BLOCK_SIZE

BugFromBlockStart(i, n, k) ==
    IF k <= Lesser(n, BLOCK_SIZE - (offset[i] % BLOCK_SIZE))
    THEN k ELSE LastOccupied(k - Lesser(n, BLOCK_SIZE - (offset[i] % BLOCK_SIZE)))

(* Lines 244-282: byte k of the buffer goes to byte At of block In.  A      *)
(* block that gets full is followed by a new one at the end of the chain.   *)
First(i, n) == Lesser(n, BLOCK_SIZE - (offset[i] % BLOCK_SIZE))
StartBlock(i) == IF InPlace(i) THEN Current(i) ELSE Len(occupied[dfile[i]]) + 1
Kept(i) == Greater(Len(occupied[dfile[i]]), StartBlock(i))
In(i, n, k) ==
    IF k <= First(i, n) THEN StartBlock(i)
                        ELSE Kept(i) + BlockCount(k - First(i, n))
At(i, n, k) ==
    IF k <= First(i, n) THEN (offset[i] % BLOCK_SIZE) + k
                        ELSE LastOccupied(k - First(i, n))

Written(i, data) ==
    LET f == dfile[i]
        n == Len(data)
        count == Greater(Kept(i), In(i, n, n))
        old(b, j) == IF b <= Len(memory[f]) THEN memory[f][b][j] ELSE Garbage
        here(b, j) == {k \in 1 .. n : In(i, n, k) = b /\ At(i, n, k) = j}
    IN  [b \in 1 .. count |->
          [j \in 1 .. BLOCK_SIZE |->
            IF here(b, j) = {} THEN old(b, j) ELSE data[CHOOSE k \in here(b, j) : TRUE]]]

Occupied(i, n) ==
    LET f == dfile[i]
        count == Greater(Kept(i), In(i, n, n))
        old(b) == IF b <= Len(occupied[f]) THEN occupied[f][b] ELSE 0
        ends(b) == {At(i, n, k) : k \in {l \in 1 .. n : In(i, n, l) = b}}
    IN  [b \in 1 .. count |->
          CHOOSE e \in ends(b) \cup {old(b)} : \A d \in ends(b) \cup {old(b)} : d <= e]

(* Lines 284-287. *)
SizeAfter(f, end) == Greater(size[f], end)

(* Lines 239-289. *)
Write(fd, data) ==
    LET i == fd - 1
        f == dfile[i]
        n == Len(data)
    IN  /\ IsOpen(fd) /\ CanWrite(i) /\ n > 0 /\ ~TooBig(f, n)
        /\ Overwriting \/ InPlace(i) \/ Current(i) > Len(occupied[f])
        /\ In(i, n, n) <= MaxBlocks
        /\ memory' = [memory EXCEPT ![f] = Written(i, data)]
        /\ occupied' = [occupied EXCEPT ![f] = Occupied(i, n)]
        /\ offset' = [offset EXCEPT ![i] = @ + n]
        /\ size' = [size EXCEPT ![f] = SizeAfter(f, offset[i] + n)]
        /\ Replies(<<"write", n>>, n)
        /\ UNCHANGED <<file_list, name, is_ghost, refs, capacity, used, dfile, open_flags>>

(* Lines 329-347: one turn of the loop, which copies what the block holds    *)
(* from where the reader stands, or what is left to read of it, and goes on  *)
(* to the next block.  The reader stays inside of what is occupied.          *)
Copied(f, most, s) ==
    LET from == s.pos % BLOCK_SIZE
        k == Lesser(occupied[f][s.block] - from, most - Len(s.bytes))
    IN  [block |-> s.block + 1, pos |-> s.pos + k,
         bytes |-> s.bytes \o SubSeq(memory[f][s.block], from + 1, from + k)]

(* The loop stops when the chain ends, the buffer is full, or nothing is     *)
(* left in the block.                                                        *)
Turn(f, most, s) ==
    IF s.block > Len(occupied[f]) \/ Len(s.bytes) = most THEN s
    ELSE IF s.pos % BLOCK_SIZE >= occupied[f][s.block] THEN s
    ELSE Copied(f, most, s)

(* The loop's state after j turns, up to most bytes being read from the      *)
(* block first on.                                                           *)
Turns(f, first, start, most) ==
    LET s[j \in Nat] == IF j = 0 THEN [block |-> first, pos |-> start, bytes |-> <<>>]
                                 ELSE Turn(f, most, s[j - 1])
    IN  s

(* A turn that is not the last copies a byte: most turns are enough.         *)
ReadFrom(f, first, start, most) == Turns(f, first, start, most)[most].bytes

(* Lines 316-327. *)
AtEnd(i) == offset[i] >= size[dfile[i]] \/ Current(i) > Len(occupied[dfile[i]])

(* Lines 315-349. *)
Read(fd, n) ==
    LET i == fd - 1
    IN  /\ IsOpen(fd) /\ CanRead(i)
        /\ got' = IF AtEnd(i) THEN <<>> ELSE ReadFrom(dfile[i], Current(i), offset[i], n)
        /\ ret' = Len(got') /\ asked' = <<"read", n>>
        /\ offset' = [offset EXCEPT ![i] = @ + Len(got')]
        /\ UNCHANGED <<fileVars, capacity, used, dfile, open_flags, ufs_error_code>>

-----------------------------------------------------------------------------
(* ufs_resize, which asks for no permission: userfs.h:155-156 says that it   *)
(* does, and ReadersResize says if clients rely on it.                       *)

MayResize(fd) == IsOpen(fd) /\ (ReadersResize \/ CanWrite(fd - 1))

(* Lines 424-426. *)
ResizeSame(fd) ==
    /\ MayResize(fd)
    /\ Replies(<<"resize", size[dfile[fd - 1]]>>, 0)
    /\ UNCHANGED <<fileVars, descVars>>

BugOffsetsStay(f, new) == offset

(* Lines 460-464. *)
Clamped(f, new) ==
    [j \in Slots |-> IF dfile[j] = f THEN Lesser(offset[j], new) ELSE offset[j]]

(* Lines 427-466: blocks are freed from the end of the chain, as many as    *)
(* the size says.                                                           *)
Shrink(fd, new) ==
    LET f == dfile[fd - 1]
        kept == Len(occupied[f]) - (BlockCount(size[f]) - BlockCount(new))
    IN  /\ MayResize(fd) /\ new < size[f]
        /\ kept >= 0
        /\ memory' = [memory EXCEPT ![f] = SubSeq(@, 1, kept)]
        /\ occupied' = [occupied EXCEPT ![f] =
                          [b \in 1 .. kept |-> IF b = kept THEN LastOccupied(new) ELSE @[b]]]
        /\ size' = [size EXCEPT ![f] = IF kept = 0 THEN 0 ELSE new]
        /\ offset' = Clamped(f, new)
        /\ Replies(<<"resize", new>>, 0)
        /\ UNCHANGED <<file_list, name, is_ghost, refs, capacity, used, dfile, open_flags>>

(* Lines 467-472. *)
GrowNoMem(fd, new) ==
    /\ MayResize(fd) /\ new > size[dfile[fd - 1]] /\ new > MAX_FILE_SIZE
    /\ Fails("NO_MEM")
    /\ UNCHANGED <<fileVars, descVars>>

(* Lines 474-499: new blocks are empty; what was the last one becomes full. *)
Grow(fd, new) ==
    LET f == dfile[fd - 1]
        old == Len(occupied[f])
        count == old + BlockCount(new) - BlockCount(size[f])
    IN  /\ MayResize(fd) /\ new > size[f] /\ new <= MAX_FILE_SIZE
        /\ count > 0
        /\ memory' = [memory EXCEPT ![f] =
             [b \in 1 .. count |-> IF b <= old THEN @[b] ELSE [j \in 1 .. BLOCK_SIZE |-> Zero]]]
        /\ occupied' = [occupied EXCEPT ![f] =
             [b \in 1 .. count |-> IF b = count THEN LastOccupied(new)
                                   ELSE IF b >= old THEN BLOCK_SIZE ELSE @[b]]]
        /\ size' = [size EXCEPT ![f] = new]
        /\ Replies(<<"resize", new>>, 0)
        /\ UNCHANGED <<file_list, name, is_ghost, refs, descVars>>

-----------------------------------------------------------------------------
Descriptors == 0 .. MaxCapacity + 1
Buffers == UNION {[1 .. n -> Bytes] : n \in 1 .. MaxRequest}

NameCall(n) ==
    \/ \E flags \in OpenFlags, f \in Files, i \in Slots : Open(n, flags, f, i)
    \/ NoSuchFile(n) \/ Delete(n)

DescriptorCall(fd) ==
    \/ BadDescriptor(fd) \/ Close(fd) \/ NoPermission(fd) \/ WriteNothing(fd)
    \/ \E n \in 0 .. MaxRequest : WriteNoMem(fd, n) \/ Read(fd, n)
    \/ \E data \in Buffers : Write(fd, data)
    \/ ResizeSame(fd)
    \/ \E new \in 0 .. MAX_FILE_SIZE + 1 : Shrink(fd, new) \/ GrowNoMem(fd, new) \/ Grow(fd, new)

Next == \/ \E n \in Names : NameCall(n)
        \/ \E fd \in Descriptors : DescriptorCall(fd)
        \/ Destroy

Spec == Init /\ [][Next]_vars
=============================================================================
