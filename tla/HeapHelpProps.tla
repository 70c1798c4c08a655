---- MODULE HeapHelpProps ----
(***************************************************************************)
(* What the leak checker promises, for a program that frees only blocks it *)
(* holds and any interleaving of its threads.                              *)
(***************************************************************************)
EXTENDS HeapHelp

(* The records of the batches that were allocated. *)
Given ==
    {r \in (1..alloc_batch[1]) \X (1..BatchSize) :
        r[1] < alloc_batch[1] \/ r[2] <= alloc_batch[2]}

(* The shape of the state; every thread is at a step of heap_help.c. *)
TypeOK ==
    /\ running \subseteq Threads
    /\ owned \subseteq heap /\ heap \subseteq Addresses
    /\ libc \subseteq heap \ owned /\ buffers \subseteq heap \ (owned \union libc)
    /\ stdout_buffer \in libc \union {NoAddress}
    /\ static_used \in 0..StaticSize
    /\ alloc_batch \in Nat \X (1..BatchSize)
    /\ alloc_pool \in Seq(Given)
    /\ \A i \in 1..Len(allocs) : allocs[i].rec \in Given /\ allocs[i].mem \in Addresses
    /\ ptr \in [Threads -> Addresses \union {NoAddress}]
    /\ res \in [Threads -> Addresses \union {NoAddress}]
    /\ hand \in [Threads -> Given \union {NoRecord}]

InSection(t) == pc[t] \in {"take", "link", "unlink", "counted", "walk"}

(* spinlock_acq() keeps two threads out of the list and the pool at once,  *)
(* and the lock is never left taken (lines 126-144).                       *)
MutualExclusion ==
    /\ \A t, u \in Threads : InSection(t) /\ InSection(u) => t = u
    /\ allocs_lock <=> \E t \in Threads : InSection(t)

InHand(t) == IF hand[t] = NoRecord THEN {} ELSE {hand[t]}

(* Every record that was ever taken from a batch is in one place: once in  *)
(* the list, once in the pool or in the hand of one thread.  None is lost  *)
(* and none is used for two blocks (lines 168-185 and 220-223).  And       *)
(* alloc_count is the length of the list, so that line 390 cannot fail and *)
(* heaph_get_alloc_count() returns what the list says.                     *)
RecordsConserved ==
    TypeOK /\ alloc_count = Len(allocs) /\
    LET places(r) ==
            Cardinality({i \in 1..Len(allocs) : allocs[i].rec = r})
            + Cardinality({i \in 1..Len(alloc_pool) : alloc_pool[i] = r})
            + Cardinality({t \in Threads : r \in InHand(t)})
    IN  \A r \in Given : places(r) = 1

(* The calls that still have to take a record of p away, or have put one. *)
Removing(p) == {t \in Threads : ptr[t] = p /\ pc[t] \in {"untrace", "find", "unlink"}}
Returning(p) == {t \in Threads : res[t] = p /\ pc[t] = "return"}
Settled(p) == p \in owned \union libc /\ \A t \in Threads : res[t] # p

(* Until the program exits, a block has as many records as calls and       *)
(* holders account for: one for its holder, one for a call that will still *)
(* remove it.  After a realloc has moved a block, another thread may hold  *)
(* the old address before the old record is removed; whichever of the two  *)
(* records alloc_free() meets first, the other one remains (lines 545-577).*)
(* free() opens no such window, because it removes the record before the   *)
(* block (lines 574-575).                                                  *)
AccountsBalance ==
    ~is_exit_done =>
        /\ \A p \in Addresses \ lost :
              Cardinality(Places(allocs, p)) =
                  Cardinality(Removing(p)) + Cardinality(Returning(p))
                  + IF Settled(p) THEN 1 ELSE 0
        /\ \A p \in Addresses :
              Cardinality(Places(allocs, p)) > 1 =>
                  \E t \in Removing(p) : then[t] # "release"

(* Of the assertions of the model, those at lines 251, 390 and 482 never   *)
(* fail: the library is initialised once, by one thread, and alloc_count   *)
(* is the length of the list.  Those at lines 178, 245 and 255 are for a   *)
(* lack of memory and that at line 511 for a strdup() during the exit.     *)
(* "Freeing bad memory", line 234, fails for a block without a record and  *)
(* for no other: one that realloc() could not resize, whose record line    *)
(* 556 drops, or one that was allocated inside another call, which line    *)
(* 162 does not record.  And the exit handler, which holds allocs_lock     *)
(* while it resolves symbols and prints and thereby allocates (lines       *)
(* 363-369), never waits for the lock it holds itself: line 166.           *)
AssertionsExplained ==
    /\ failed \in {0, 178, 234, 245, 255, 511}
    /\ failed = 234 => \E t \in Threads : pc[t] = "unlink" /\ ptr[t] \in lost
    /\ \A t \in Threads : pc[t] # "spin"

(* The blocks of libc whose record is not known to be internal: it was     *)
(* linked beside the record of a block that realloc() had moved away from  *)
(* the same address, and alloc_free() has taken the newer of the two.      *)
Mixed == {p \in libc : \E i \in Places(allocs, p) : ~allocs[i].internal}

====
