---- MODULE HeapHelpProof ----
(***************************************************************************)
(* The leak checker, for any number of threads, blocks and records: the    *)
(* spin lock; the one place of every record; the blocks, which one thread  *)
(* at a time gets or gives back; the accounts of records and their owners; *)
(* the assertions that can fail.                                           *)
(*                                                                         *)
(* Of the lock: every step of a thread enters a section under it, leaves   *)
(* one, moves outside of them or does not move at all; these four cases    *)
(* keep the invariant, and each action is one of them.  Each invariant     *)
(* after it rests on those before.                                         *)
(***************************************************************************)
EXTENDS HeapHelpProps, FunctionTheorems, FiniteSetTheorems, SequenceTheorems, TLAPS

Sections == {"take", "link", "unlink", "counted", "walk"}

(* Where alloc_free() may return to: never into a section. *)
Continuations == {"idle", "release", "trace", "return"}

Outside == Continuations \union {"init", "untrace", "pool", "list", "find", "exit"}

LockInv ==
    /\ running \subseteq Threads
    /\ pc \in [Threads -> Outside \union Sections]
    /\ then \in [Threads -> Continuations]
    /\ \A t \in Threads : pc[t] \in {"exit", "walk"} => is_exit_done
    /\ MutualExclusion

----
(* The four kinds of steps. *)
Moves(t, to) == pc' = [pc EXCEPT ![t] = to] /\ running' \subseteq Threads

Enters(t, to) ==
    /\ to \in Sections /\ Moves(t, to)
    /\ ~allocs_lock /\ allocs_lock' = TRUE
    /\ to = "walk" => is_exit_done
    /\ UNCHANGED <<then, is_exit_done>>

Leaves(t, to) ==
    /\ to \in Continuations \union {"list"} /\ Moves(t, to)
    /\ InSection(t) /\ allocs_lock' = FALSE
    /\ then' \in [Threads -> Continuations]
    /\ UNCHANGED is_exit_done

Passes(t, to) ==
    /\ to \in Outside /\ Moves(t, to)
    /\ ~InSection(t) /\ UNCHANGED allocs_lock
    /\ then' \in [Threads -> Continuations]
    /\ is_exit_done => is_exit_done'
    /\ to = "exit" => is_exit_done'

Rests == UNCHANGED <<running, pc, then, allocs_lock, is_exit_done>>

(* Nobody is in a section when one is entered. *)
LEMMA EntersKeeps ==
    ASSUME LockInv, NEW t \in Threads, NEW to, Enters(t, to)
    PROVE  LockInv'
<1>1. \A u \in Threads : ~InSection(u)
  BY DEF LockInv, MutualExclusion, Enters
<1>2. to \in Sections
  BY DEF Enters
<1>3. pc' \in [Threads -> Outside \union Sections] /\ pc'[t] = to
  BY <1>2 DEF LockInv, Enters, Moves
<1>4. \A u \in Threads : u # t => pc'[u] = pc[u]
  BY DEF LockInv, Enters, Moves
<1>5. InSection(t)' /\ \A u \in Threads : u # t => ~InSection(u)'
  BY <1>1, <1>2, <1>3, <1>4 DEF InSection, Sections
<1>6. MutualExclusion'
  <2>1. \A u, v \in Threads : InSection(u)' /\ InSection(v)' => u = v
    BY <1>5
  <2>2. allocs_lock' = TRUE
    BY DEF Enters
  <2>. QED BY <2>1, <2>2, <1>5 DEF MutualExclusion
<1>7. \A u \in Threads : pc'[u] \in {"exit", "walk"} => is_exit_done'
  BY <1>2, <1>3, <1>4 DEF LockInv, Enters, Sections
<1>. QED BY <1>3, <1>6, <1>7 DEF LockInv, Enters, Moves

(* Who leaves was the only one inside. *)
LEMMA LeavesKeeps ==
    ASSUME LockInv, NEW t \in Threads, NEW to, Leaves(t, to)
    PROVE  LockInv'
<1>1. \A u \in Threads : u # t => ~InSection(u)
  BY DEF LockInv, MutualExclusion, Leaves
<1>2. to \in Continuations \union {"list"} /\ to \in Outside
  BY DEF Leaves, Outside
<1>3. pc' \in [Threads -> Outside \union Sections] /\ pc'[t] = to
  BY <1>2 DEF LockInv, Leaves, Moves
<1>4. \A u \in Threads : u # t => pc'[u] = pc[u]
  BY DEF LockInv, Leaves, Moves
<1>5. \A u \in Threads : ~InSection(u)'
  BY <1>1, <1>2, <1>3, <1>4 DEF InSection, Continuations
<1>6. MutualExclusion'
  BY <1>5 DEF MutualExclusion, Leaves
<1>7. \A u \in Threads : pc'[u] \in {"exit", "walk"} => is_exit_done'
  BY <1>2, <1>3, <1>4 DEF LockInv, Leaves, Continuations
<1>. QED BY <1>3, <1>6, <1>7 DEF LockInv, Leaves, Moves

(* A step outside of the sections leaves the lock and who holds it alone. *)
LEMMA PassesKeeps ==
    ASSUME LockInv, NEW t \in Threads, NEW to, Passes(t, to)
    PROVE  LockInv'
<1>2. to \in Outside
  BY DEF Passes
<1>3. pc' \in [Threads -> Outside \union Sections] /\ pc'[t] = to
  BY <1>2 DEF LockInv, Passes, Moves
<1>4. \A u \in Threads : u # t => pc'[u] = pc[u]
  BY DEF LockInv, Passes, Moves
<1>5. \A u \in Threads : InSection(u)' <=> InSection(u)
  <2>1. ~InSection(t) /\ ~InSection(t)'
    BY <1>2, <1>3 DEF Passes, InSection, Outside, Continuations
  <2>. QED BY <2>1, <1>4 DEF InSection
<1>6. MutualExclusion'
  <2>1. allocs_lock' = allocs_lock
    BY DEF Passes
  <2>. QED BY <2>1, <1>5 DEF LockInv, MutualExclusion
<1>7. \A u \in Threads : pc'[u] \in {"exit", "walk"} => is_exit_done'
  BY <1>2, <1>3, <1>4 DEF LockInv, Passes, Outside, Continuations
<1>. QED BY <1>3, <1>6, <1>7 DEF LockInv, Passes, Moves

(* A step that changes none of the variables of the invariant. *)
LEMMA RestsKeeps ==
    ASSUME LockInv, Rests
    PROVE  LockInv'
BY DEF LockInv, Rests, MutualExclusion, InSection

----
(* The library is initialised outside of the sections. *)
LEMMA StartupKeeps ==
    ASSUME LockInv, NEW t \in Threads,
           Touch(t) \/ static_malloc(t) \/ noStatic(t) \/ heaph_init(t)
    PROVE  LockInv'
<1>1. CASE Touch(t)
  <2>1. Passes(t, "init")
    BY <1>1 DEF LockInv, Touch, Goes, Passes, Moves, Outside, InSection, program, locals, exiting
  <2>. QED BY <2>1, PassesKeeps
<1>2. CASE static_malloc(t)
  <2>1. Rests
    BY <1>2 DEF static_malloc, Rests, program, locals, exiting
  <2>. QED BY <2>1, RestsKeeps
<1>3. CASE heaph_init(t)
  <2>1. Passes(t, "idle")
    BY <1>3 DEF LockInv, heaph_init, Goes, Passes, Moves, Outside, Continuations, InSection,
                program, locals, exiting
  <2>. QED BY <2>1, PassesKeeps
<1>4. CASE noStatic(t)
  <2>1. Rests
    BY <1>4 DEF noStatic, Rests, program, locals, exiting
  <2>. QED BY <2>1, RestsKeeps
<1>. QED BY <1>1, <1>2, <1>3, <1>4

(* A call that allocates starts outside of the sections. *)
LEMMA AllocateKeeps ==
    ASSUME LockInv, NEW t \in Threads, NEW by, Allocate(t, by)
    PROVE  LockInv'
<1>1. Passes(t, "trace")
  BY DEF LockInv, Allocate, Starts, Goes, Passes, Moves, Outside, Continuations, InSection, exiting
<1>. QED BY <1>1, PassesKeeps

(* So does one that resizes a block. *)
LEMMA ReallocKeeps ==
    ASSUME LockInv, NEW t \in Threads, NEW p, NEW new, NEW left,
           NEW next \in Continuations, Realloc(t, p, new, left, next)
    PROVE  LockInv'
<1>1. Passes(t, "untrace")
  BY DEF LockInv, Realloc, Starts, Goes, Passes, Moves, Outside, InSection, exiting
<1>. QED BY <1>1, PassesKeeps

(* And one that frees a block. *)
LEMMA FreeKeeps ==
    ASSUME LockInv, NEW t \in Threads, free(t) \/ fclose(t)
    PROVE  LockInv'
<1>1. then' = [then EXCEPT ![t] = "release"]
  BY DEF free, fclose
<1>2. then' \in [Threads -> Continuations]
  BY <1>1 DEF LockInv, Continuations
<1>3. Passes(t, "untrace")
  BY <1>2 DEF LockInv, free, fclose, Starts, Goes, Passes, Moves, Outside, InSection, exiting
<1>. QED BY <1>3, PassesKeeps

(* The calls of the program. *)
LEMMA CallKeeps ==
    ASSUME LockInv, NEW t \in Threads, Call(t)
    PROVE  LockInv'
<1>1. CASE malloc(t)
  BY <1>1, AllocateKeeps DEF malloc
<1>2. CASE calloc(t)
  BY <1>2, AllocateKeeps DEF calloc
<1>3. CASE strdup(t)
  <2>1. CASE is_exit_done
    <3>1. Rests
      BY <1>3, <2>1 DEF strdup, Rests, program, locals, exiting
    <3>. QED BY <3>1, RestsKeeps
  <2>2. CASE ~is_exit_done
    BY <1>3, <2>2, AllocateKeeps DEF strdup
  <2>. QED BY <2>1, <2>2
<1>4. CASE free(t) \/ fclose(t)
  BY <1>4, FreeKeeps
<1>5. CASE reallocMoves(t)
  <2>1. PICK p \in owned, a \in Addresses \ heap :
          Realloc(t, p, a, (heap \ {p}) \union {a}, "trace")
    BY <1>5 DEF reallocMoves
  <2>2. "trace" \in Continuations
    BY DEF Continuations
  <2>. QED BY <2>1, <2>2, ReallocKeeps
<1>6. CASE reallocFrees(t)
  <2>1. PICK p \in owned : Realloc(t, p, NoAddress, heap \ {p}, "idle")
    BY <1>6 DEF reallocFrees
  <2>2. "idle" \in Continuations
    BY DEF Continuations
  <2>. QED BY <2>1, <2>2, ReallocKeeps
<1>7. CASE reallocFails(t)
  <2>1. PICK p \in owned : Realloc(t, p, p, heap, "return")
    BY <1>7 DEF reallocFails
  <2>2. "return" \in Continuations
    BY DEF Continuations
  <2>. QED BY <2>1, <2>2, ReallocKeeps
<1>8. CASE puts(t)
  BY <1>8, AllocateKeeps DEF puts
<1>9. CASE getline(t)
  <2>1. Rests
    BY <1>9 DEF getline, Rests, locals, exiting
  <2>. QED BY <2>1, RestsKeeps
<1>. QED BY <1>1, <1>2, <1>3, <1>4, <1>5, <1>6, <1>7, <1>8, <1>9 DEF Call

(* alloc_trace_new() takes the lock twice and gives it back twice. *)
LEMMA TraceKeeps ==
    ASSUME LockInv, NEW t \in Threads,
           \/ traceStart(t) \/ poolRead(t) \/ poolTake(t) \/ noBatch(t) \/ listRead(t)
           \/ listLink(t) \/ return(t)
    PROVE  LockInv'
<1>1. CASE traceStart(t)
  <2>1. Passes(t, IF is_exit_done THEN "return" ELSE "pool")
    BY <1>1 DEF LockInv, traceStart, Goes, Passes, Moves, Outside, Continuations, InSection,
                program, locals, exiting
  <2>. QED BY <2>1, PassesKeeps
<1>2. CASE poolRead(t)
  <2>1. Enters(t, "take")
    BY <1>2 DEF LockInv, poolRead, Acquire, Goes, Enters, Moves, Sections, program, exiting
  <2>. QED BY <2>1, EntersKeeps
<1>3. CASE poolTake(t)
  <2>1. Leaves(t, "list")
    BY <1>3 DEF LockInv, poolTake, Release, Goes, Leaves, Moves, InSection, program, exiting
  <2>. QED BY <2>1, LeavesKeeps
<1>4. CASE listRead(t)
  <2>1. Enters(t, "link")
    BY <1>4 DEF LockInv, listRead, Acquire, Goes, Enters, Moves, Sections, program, exiting
  <2>. QED BY <2>1, EntersKeeps
<1>5. CASE listLink(t)
  <2>1. Leaves(t, "return")
    BY <1>5 DEF LockInv, listLink, Release, Goes, Leaves, Moves, Continuations, InSection,
                program, exiting
  <2>. QED BY <2>1, LeavesKeeps
<1>6. CASE return(t)
  <2>1. running' \subseteq Threads
    BY <1>6 DEF LockInv, return
  <2>2. Passes(t, "idle")
    BY <1>6, <2>1 DEF LockInv, return, Goes, Passes, Moves, Outside, Continuations, InSection,
                      exiting
  <2>. QED BY <2>2, PassesKeeps
<1>7. CASE noBatch(t)
  <2>1. Rests
    BY <1>7 DEF noBatch, Rests, program, locals, exiting
  <2>. QED BY <2>1, RestsKeeps
<1>. QED BY <1>1, <1>2, <1>3, <1>4, <1>5, <1>6, <1>7

(* Where alloc_free() returns to is outside of the sections. *)
LEMMA ReturnedContinues ==
    ASSUME LockInv, NEW t \in Threads, Returned(t)
    PROVE  /\ then[t] \in Continuations
           /\ pc' = [pc EXCEPT ![t] = then[t]]
           /\ then' \in [Threads -> Continuations]
<1>1. then' = [then EXCEPT ![t] = "idle"]
  BY DEF Returned
<1>. QED BY <1>1 DEF LockInv, Returned, Goes, Continuations

(* alloc_free() takes the lock once, and what is freed is given back after. *)
LEMMA UntraceKeeps ==
    ASSUME LockInv, NEW t \in Threads,
           \/ untraceStart(t) \/ findRead(t) \/ unlink(t) \/ badMemory(t)
           \/ default_free(t)
    PROVE  LockInv'
<1>1. CASE untraceStart(t)
  <2>1. CASE is_exit_done
    <3>1. Returned(t)
      BY <1>1, <2>1 DEF untraceStart
    <3>2. then[t] \in Outside /\ Moves(t, then[t])
      BY <1>1, <3>1, ReturnedContinues
         DEF LockInv, untraceStart, Moves, Outside, program
    <3>3. then[t] # "exit"
      BY <3>1, ReturnedContinues DEF Continuations
    <3>4. ~InSection(t) /\ UNCHANGED <<allocs_lock, is_exit_done>>
      BY <1>1 DEF untraceStart, InSection, exiting
    <3>5. Passes(t, then[t])
      BY <3>1, <3>2, <3>3, <3>4, ReturnedContinues DEF Passes
    <3>. QED BY <3>5, PassesKeeps
  <2>2. CASE ~is_exit_done
    <3>1. Passes(t, "find")
      BY <1>1, <2>2 DEF LockInv, untraceStart, Goes, Passes, Moves, Outside, InSection,
                        program, exiting
    <3>. QED BY <3>1, PassesKeeps
  <2>. QED BY <2>1, <2>2
<1>2. CASE findRead(t)
  <2>1. Enters(t, "unlink")
    BY <1>2 DEF LockInv, findRead, Acquire, Goes, Enters, Moves, Sections, program, exiting
  <2>. QED BY <2>1, EntersKeeps
<1>3. CASE unlink(t)
  <2>1. Returned(t)
    BY <1>3 DEF unlink
  <2>2. Leaves(t, then[t])
    BY <1>3, <2>1, ReturnedContinues
       DEF LockInv, unlink, Release, Leaves, Moves, InSection, program, exiting
  <2>. QED BY <2>2, LeavesKeeps
<1>4. CASE badMemory(t)
  <2>1. Rests
    BY <1>4 DEF badMemory, Rests, program, locals, exiting
  <2>. QED BY <2>1, RestsKeeps
<1>5. CASE default_free(t)
  <2>1. Passes(t, "idle")
    BY <1>5 DEF LockInv, default_free, Goes, Passes, Moves, Outside, Continuations, InSection,
                exiting
  <2>. QED BY <2>1, PassesKeeps
<1>. QED BY <1>1, <1>2, <1>3, <1>4, <1>5

(* The count is read under the lock, and the list is walked under it. *)
LEMMA ExitKeeps ==
    ASSUME LockInv, NEW t \in Threads,
           \/ countRead(t) \/ countReturn(t) \/ exit(t) \/ exitRead(t)
           \/ exitAllocates(t) \/ exitReport(t) \/ exitQuiet(t)
    PROVE  LockInv'
<1>1. CASE countRead(t)
  <2>1. Enters(t, "counted")
    BY <1>1 DEF LockInv, countRead, Acquire, Goes, Enters, Moves, Sections, program, locals, exiting
  <2>. QED BY <2>1, EntersKeeps
<1>2. CASE countReturn(t)
  <2>1. Leaves(t, "idle")
    BY <1>2 DEF LockInv, countReturn, Release, Goes, Leaves, Moves, Continuations, InSection,
                program, locals, exiting
  <2>. QED BY <2>1, LeavesKeeps
<1>3. CASE exit(t)
  <2>1. Passes(t, "exit")
    BY <1>3 DEF LockInv, exit, Starts, ExitDone, Goes, Passes, Moves, Outside, InSection,
                program, locals
  <2>. QED BY <2>1, PassesKeeps
<1>4. CASE exitRead(t)
  <2>1. Enters(t, "walk")
    BY <1>4 DEF LockInv, exitRead, Acquire, Goes, Enters, Moves, Sections, program, locals, exiting
  <2>. QED BY <2>1, EntersKeeps
<1>5. CASE exitAllocates(t)
  <2>1. is_exit_done
    BY <1>5 DEF LockInv, exitAllocates
  <2>2. Rests
    BY <1>5, <2>1 DEF exitAllocates, Rests, locals, exiting
  <2>. QED BY <2>2, RestsKeeps
<1>6. CASE exitReport(t)
  <2>1. Leaves(t, "idle")
    BY <1>6 DEF LockInv, exitReport, Release, Goes, Leaves, Moves, Continuations, InSection,
                program, locals, exiting
  <2>. QED BY <2>1, LeavesKeeps
<1>7. CASE exitQuiet(t)
  <2>1. Passes(t, "idle")
    BY <1>7 DEF LockInv, exitQuiet, Goes, Passes, Moves, Outside, Continuations, InSection,
                program, locals, exiting
  <2>. QED BY <2>1, PassesKeeps
<1>. QED BY <1>1, <1>2, <1>3, <1>4, <1>5, <1>6, <1>7

----
(* At first nobody is in a section. *)
LEMMA LockInit == Init => LockInv
<1> SUFFICES ASSUME Init PROVE LockInv
  OBVIOUS
<1>1. running \subseteq Threads
  BY ConstantsAssumption DEF Init
<1>2. pc \in [Threads -> Outside \union Sections] /\ \A t \in Threads : pc[t] = "idle"
  BY DEF Init, Outside, Continuations
<1>3. then \in [Threads -> Continuations]
  BY DEF Init, Continuations
<1>4. \A t \in Threads : ~InSection(t)
  BY <1>2 DEF InSection
<1>5. MutualExclusion
  BY <1>4 DEF MutualExclusion, Init
<1>. QED BY <1>1, <1>2, <1>3, <1>5 DEF LockInv

(* Every step keeps the invariant. *)
LEMMA LockNext == LockInv /\ [Next]_vars => LockInv'
<1> SUFFICES ASSUME LockInv, [Next]_vars PROVE LockInv'
  OBVIOUS
<1>1. CASE UNCHANGED vars
  <2>1. Rests
    BY <1>1 DEF vars, Rests, program, locals, exiting
  <2>. QED BY <2>1, RestsKeeps
<1>2. CASE Ended
  BY <1>1, <1>2 DEF Ended
<1>3. ASSUME NEW t \in running,
             Call(t) \/ Step(t) \/ countRead(t) \/ exit(t) \/ exitAllocates(t)
      PROVE  LockInv'
  <2>1. t \in Threads
    BY DEF LockInv
  <2>2. CASE Call(t)
    BY <2>1, <2>2, CallKeeps
  <2>3. CASE Step(t)
    BY <2>1, <2>3, StartupKeeps, TraceKeeps, UntraceKeeps, ExitKeeps DEF Step
  <2>4. CASE countRead(t) \/ exit(t) \/ exitAllocates(t)
    BY <2>1, <2>4, ExitKeeps
  <2>. QED BY <1>3, <2>2, <2>3, <2>4
<1>. QED BY <1>1, <1>2, <1>3 DEF Next

(* However many threads call the library, no two are in a section under     *)
(* allocs_lock at once, the lock is free when nobody is in one, and the     *)
(* exit handler never waits for the lock it holds (lines 126-144, 166 and   *)
(* 369).                                                                    *)
THEOREM SpinLock == Spec => [](MutualExclusion /\ \A t \in Threads : pc[t] # "spin")
<1>1. LockInv => MutualExclusion /\ \A t \in Threads : pc[t] # "spin"
  BY DEF LockInv, Outside, Continuations, Sections
<1>. QED BY LockInit, LockNext, <1>1, PTL DEF Spec

----
(* The list and the pool *)

Pairs == Nat \X Nat
Entries == [rec : Pairs, mem : Addresses, internal : BOOLEAN]

(* Where the records are.                                                   *)
InList == {allocs[i].rec : i \in 1..Len(allocs)}
InPool == {alloc_pool[j] : j \in 1..Len(alloc_pool)}
InHands == {hand[t] : t \in Threads} \ {NoRecord}

(* Every record of the batches is in one place: in the list, in the pool or *)
(* in the hand of a thread.                                                 *)
Once ==
    /\ \A i, j \in 1..Len(allocs) : allocs[i].rec = allocs[j].rec => i = j
    /\ \A i, j \in 1..Len(alloc_pool) : alloc_pool[i] = alloc_pool[j] => i = j
    /\ \A t, u \in Threads : hand[t] # NoRecord /\ hand[t] = hand[u] => t = u
    /\ InList \intersect InPool = {}
    /\ InList \intersect InHands = {}
    /\ InPool \intersect InHands = {}
    /\ InList \union InPool \union InHands = Given

(* A thread has a record in hand between the pool and the list, and what it *)
(* has read in a section is still so.                                       *)
Reads(t) ==
    /\ hand[t] # NoRecord <=> pc[t] \in {"list", "link"}
    /\ pc[t] = "take" => seen[t] = alloc_pool
    /\ pc[t] \in {"link", "unlink"} => seen[t] = allocs

(* The list is as long as it is counted.                                    *)
Tracked ==
    /\ alloc_batch \in Nat \X (1..BatchSize)
    /\ alloc_batch[1] = 0 => alloc_batch[2] = BatchSize
    /\ alloc_pool \in Seq(Pairs) /\ allocs \in Seq(Entries)
    /\ hand \in [Threads -> Pairs] /\ DOMAIN seen = Threads
    /\ alloc_count = Len(allocs)

RecordInv == Tracked /\ Once /\ \A t \in Threads : Reads(t)

(* A sequence with a new head.                                              *)
LEMMA LinkedIs ==
    ASSUME NEW S, NEW s \in Seq(S), NEW x \in S, NEW new, new = <<x>> \o s
    PROVE  /\ new \in Seq(S) /\ Len(s) \in Nat /\ Len(new) = Len(s) + 1 /\ new[1] = x
           /\ \A k \in 1..Len(s) : new[k + 1] = s[k]
           /\ \A k \in 1..Len(new) : k = 1 \/ (k - 1 \in 1..Len(s) /\ new[k] = s[k - 1])
<1>1. <<x>> \in Seq(S) /\ Len(<<x>>) = 1 /\ <<x>>[1] = x
  OBVIOUS
<1>2. Len(s) \in Nat
  BY LenProperties
<1>3. /\ new \in Seq(S) /\ Len(new) = Len(<<x>>) + Len(s)
      /\ \A k \in 1..Len(<<x>>) + Len(s) : new[k] = IF k <= Len(<<x>>) THEN <<x>>[k] ELSE s[k - Len(<<x>>)]
  BY <1>1, ConcatProperties
<1>4. Len(new) = Len(s) + 1 /\ new[1] = x
  BY <1>1, <1>2, <1>3
<1>5. ASSUME NEW k \in 1..Len(s) PROVE new[k + 1] = s[k]
  <2>1. k + 1 \in 1..Len(<<x>>) + Len(s) /\ ~(k + 1 <= Len(<<x>>)) /\ (k + 1) - Len(<<x>>) = k
    BY <1>1, <1>2
  <2>. QED BY <2>1, <1>3
<1>6. ASSUME NEW k \in 1..Len(new) PROVE k = 1 \/ (k - 1 \in 1..Len(s) /\ new[k] = s[k - 1])
  <2>1. k = 1 \/ (k - 1 \in 1..Len(s) /\ (k - 1) + 1 = k)
    BY <1>2, <1>4
  <2>. QED BY <2>1, <1>5
<1>. QED BY <1>2, <1>3, <1>4, <1>5, <1>6

(* A sequence without the element at place i: where its elements come from, *)
(* and where those of the longer one go.                                    *)
LEMMA UnlinkedIs ==
    ASSUME NEW S, NEW s \in Seq(S), NEW i \in 1..Len(s), NEW new, new = Unlinked(s, i)
    PROVE  /\ new \in Seq(S) /\ Len(s) \in Nat /\ Len(new) = Len(s) - 1
           /\ \A k \in 1..Len(s) - 1 : new[k] = IF k < i THEN s[k] ELSE s[k + 1]
<1> DEFINE a == SubSeq(s, 1, i - 1)
           b == SubSeq(s, i + 1, Len(s))
<1>1. Len(s) \in Nat
  BY LenProperties
<1>2. /\ a \in Seq(S) /\ Len(a) = i - 1 /\ \A k \in 1..i - 1 : a[k] = s[k]
  BY <1>1, SubSeqProperties
<1>3. /\ b \in Seq(S) /\ Len(b) = Len(s) - i /\ \A k \in 1..Len(s) - i : b[k] = s[i + k]
  <2>1. i + 1 \in 1..Len(s) + 1
    BY <1>1
  <2>2. \A k \in i + 1..Len(s) : s[k] \in S
    BY <1>1, ElementOfSeq
  <2>3. /\ b \in Seq(S) /\ Len(b) = IF i + 1 <= Len(s) THEN Len(s) - (i + 1) + 1 ELSE 0
        /\ \A k \in 1..Len(s) - (i + 1) + 1 : b[k] = s[(i + 1) + k - 1]
    BY <2>1, <2>2, <1>1, SubSeqProperties
  <2>. QED BY <2>3, <1>1
<1> HIDE DEF a, b
<1>4. /\ a \o b \in Seq(S) /\ Len(a \o b) = Len(a) + Len(b)
      /\ \A k \in 1..Len(a) + Len(b) : (a \o b)[k] = IF k <= Len(a) THEN a[k] ELSE b[k - Len(a)]
  BY <1>2, <1>3, ConcatProperties
<1>5. new = a \o b
  BY DEF Unlinked, a, b
<1>6. ASSUME NEW k \in 1..Len(s) - 1
      PROVE  (a \o b)[k] = IF k < i THEN s[k] ELSE s[k + 1]
  <2>1. CASE k < i
    BY <2>1, <1>1, <1>2, <1>3, <1>4
  <2>2. CASE ~(k < i)
    <3>1. k - Len(a) = k - i + 1 /\ k - i + 1 \in 1..Len(s) - i /\ i + (k - i + 1) = k + 1
      BY <2>2, <1>1, <1>2
    <3>2. k \in 1..Len(a) + Len(b) /\ ~(k <= Len(a))
      BY <2>2, <1>1, <1>2, <1>3
    <3>3. (a \o b)[k] = b[k - Len(a)]
      BY <3>2, <1>4
    <3>4. b[k - i + 1] = s[k + 1]
      BY <3>1, <1>3
    <3>. QED BY <3>1, <3>3, <3>4, <2>2
  <2>. QED BY <2>1, <2>2
<1>7. Len(a \o b) = Len(s) - 1
  BY <1>1, <1>2, <1>3, <1>4
<1>. QED BY <1>1, <1>4, <1>5, <1>6, <1>7

(* The places of s but i and those of t: one for each, and no two the same. *)
Without(t, s, i) ==
    /\ \A k \in 1..Len(t) :
          LET old == IF k < i THEN k ELSE k + 1
          IN  old \in 1..Len(s) /\ old # i /\ t[k] = s[old]
    /\ \A k, l \in 1..Len(t) :
          (IF k < i THEN k ELSE k + 1) = (IF l < i THEN l ELSE l + 1) => k = l
    /\ \A m \in 1..Len(s) : m # i =>
          \E k \in 1..Len(t) : m = (IF k < i THEN k ELSE k + 1) /\ t[k] = s[m]

(* What unlinking leaves are the other places (heap_help.c, lines 216-222). *)
LEMMA UnlinkedPlaces ==
    ASSUME NEW S, NEW s \in Seq(S), NEW i \in 1..Len(s), NEW new, new = Unlinked(s, i)
    PROVE  Without(new, s, i)
<1>1. /\ Len(s) \in Nat /\ Len(new) = Len(s) - 1
      /\ \A k \in 1..Len(s) - 1 : new[k] = IF k < i THEN s[k] ELSE s[k + 1]
  BY UnlinkedIs
<1>2. ASSUME NEW k \in 1..Len(new), NEW old, old = IF k < i THEN k ELSE k + 1
      PROVE  old \in 1..Len(s) /\ old # i /\ new[k] = s[old]
  BY <1>1, <1>2
<1>3. ASSUME NEW k \in 1..Len(new), NEW l \in 1..Len(new),
             (IF k < i THEN k ELSE k + 1) = (IF l < i THEN l ELSE l + 1)
      PROVE  k = l
  BY <1>1, <1>3
<1>4. ASSUME NEW m \in 1..Len(s), m # i
      PROVE  \E k \in 1..Len(new) : m = (IF k < i THEN k ELSE k + 1) /\ new[k] = s[m]
  <2>1. CASE m < i
    <3>1. m \in 1..Len(new)
      BY <2>1, <1>1
    <3>. QED BY <3>1, <2>1, <1>1
  <2>2. CASE ~(m < i)
    <3>1. m - 1 \in 1..Len(new) /\ ~(m - 1 < i) /\ (m - 1) + 1 = m
      BY <2>2, <1>1, <1>4
    <3>2. new[m - 1] = s[m]
      BY <3>1, <1>1
    <3>. QED BY <3>1, <3>2
  <2>. QED BY <2>1, <2>2
<1>. QED BY <1>2, <1>3, <1>4 DEF Without

(* The next record of a batch is a new one.                                 *)
LEMMA FreshIs ==
    ASSUME NEW b \in Nat \X (1..BatchSize), b[1] = 0 => b[2] = BatchSize,
           NEW c, c = FreshRecord(b),
           NEW S, S = {x \in (1..b[1]) \X (1..BatchSize) : x[1] < b[1] \/ x[2] <= b[2]},
           NEW T, T = {x \in (1..c[1]) \X (1..BatchSize) : x[1] < c[1] \/ x[2] <= c[2]}
    PROVE  /\ c \in Nat \X (1..BatchSize) /\ c[1] # 0
           /\ c \notin S /\ T = S \union {c}
<1>1. PICK m \in Nat, n \in 1..BatchSize : b = <<m, n>>
  OBVIOUS
<1>2. BatchSize \in Nat \ {0} /\ (m = 0 => n = BatchSize)
  BY <1>1, ConstantsAssumption
<1>3. PICK k \in Nat, l \in 1..BatchSize :
        /\ c = <<k, l>> /\ k > 0
        /\ \/ n = BatchSize /\ k = m + 1 /\ l = 1
           \/ n # BatchSize /\ k = m /\ l = n + 1
  <2>1. CASE n = BatchSize
    <3>1. c = <<m + 1, 1>> /\ m + 1 \in Nat /\ m + 1 > 0 /\ 1 \in 1..BatchSize
      BY <2>1, <1>1, <1>2 DEF FreshRecord
    <3>. QED BY <3>1, <2>1
  <2>2. CASE n # BatchSize
    <3>1. c = <<m, n + 1>> /\ m > 0 /\ n + 1 \in 1..BatchSize
      BY <2>2, <1>1, <1>2 DEF FreshRecord
    <3>. QED BY <3>1, <2>2
  <2>. QED BY <2>1, <2>2
<1>4. c \in Nat \X (1..BatchSize) /\ c[1] # 0
  BY <1>3
<1>5. \A i \in Nat, j \in 1..BatchSize :
        /\ <<i, j>> \in S <=> i \in 1..m /\ (i < m \/ j <= n)
        /\ <<i, j>> \in T <=> i \in 1..k /\ (i < k \/ j <= l)
  BY <1>1, <1>3
<1>6. c \notin S
  <2>1. ~(k \in 1..m /\ (k < m \/ l <= n))
    BY <1>2, <1>3
  <2>. QED BY <2>1, <1>3, <1>5
<1>7. \A x : x \in S \union T \union {c} => \E i \in Nat, j \in 1..BatchSize : x = <<i, j>>
  BY <1>1, <1>3
<1>8. \A i \in Nat, j \in 1..BatchSize :
        i \in 1..k /\ (i < k \/ j <= l)
          <=> (i \in 1..m /\ (i < m \/ j <= n)) \/ (i = k /\ j = l)
  BY <1>2, <1>3
<1>9. \A i \in Nat, j \in 1..BatchSize :
        <<i, j>> \in T <=> <<i, j>> \in S \union {c}
  <2> TAKE i \in Nat, j \in 1..BatchSize
  <2>1. <<i, j>> = c <=> i = k /\ j = l
    BY <1>3
  <2>. QED BY <2>1, <1>5, <1>8
<1>10. T = S \union {c}
  <2>1. \A x : x \in T <=> x \in S \union {c}
    BY <1>7, <1>9
  <2>. QED BY <2>1
<1>. QED BY <1>4, <1>6, <1>10

OneHand == \A t, u \in Threads : hand[t] # NoRecord /\ hand[t] = hand[u] => t = u
OnePooled == \A i, j \in 1..Len(alloc_pool) : alloc_pool[i] = alloc_pool[j] => i = j
OneListed == \A i, j \in 1..Len(allocs) : allocs[i].rec = allocs[j].rec => i = j

(* A thread with empty hands takes a record nobody has in hand.             *)
LEMMA HandTakes ==
    ASSUME hand \in [Threads -> Pairs], OneHand, NEW t \in Threads, hand[t] = NoRecord,
           NEW r \in Pairs, r # NoRecord, r \notin InHands, hand' = [hand EXCEPT ![t] = r]
    PROVE  /\ hand' \in [Threads -> Pairs] /\ OneHand'
           /\ InHands' = InHands \union {r}
<1>1. hand' \in [Threads -> Pairs] /\ hand'[t] = r
  OBVIOUS
<1>2. \A u \in Threads : u # t => hand'[u] = hand[u]
  OBVIOUS
<1>3. \A u \in Threads : hand[u] # r
  BY DEF InHands
<1>4. OneHand'
  BY <1>1, <1>2, <1>3 DEF OneHand
<1>5. InHands' = {hand'[u] : u \in Threads} \ {NoRecord}
  BY DEF InHands
<1>6. \A x : x \in InHands' => x \in InHands \union {r}
  BY <1>1, <1>2, <1>5 DEF InHands
<1>7. \A x : x \in InHands => x \in InHands'
  BY <1>2, <1>5 DEF InHands
<1>8. r \in InHands'
  BY <1>1, <1>5
<1>. QED BY <1>1, <1>4, <1>6, <1>7, <1>8

(* And gives the one it has.                                                *)
LEMMA HandGives ==
    ASSUME hand \in [Threads -> Pairs], OneHand, NEW t \in Threads, hand[t] # NoRecord,
           hand' = [hand EXCEPT ![t] = NoRecord]
    PROVE  /\ hand' \in [Threads -> Pairs] /\ OneHand'
           /\ InHands' = InHands \ {hand[t]} /\ hand[t] \in InHands
<1>1. hand' \in [Threads -> Pairs] /\ hand'[t] = NoRecord
  BY DEF NoRecord, Pairs
<1>2. \A u \in Threads : u # t => hand'[u] = hand[u] /\ (hand[u] = hand[t] => hand[u] = NoRecord)
  BY DEF OneHand
<1>3. OneHand'
  BY <1>1, <1>2 DEF OneHand
<1>4. InHands' = {hand'[u] : u \in Threads} \ {NoRecord}
  BY DEF InHands
<1>5. \A x : x \in InHands' => x \in InHands /\ x # hand[t]
  BY <1>1, <1>2, <1>4 DEF InHands
<1>6. \A x : x \in InHands /\ x # hand[t] => x \in InHands'
  BY <1>1, <1>2, <1>4 DEF InHands
<1>7. hand[t] \in InHands
  BY DEF InHands
<1>. QED BY <1>1, <1>3, <1>5, <1>6, <1>7

(* The first record leaves the pool.                                        *)
LEMMA PoolTakes ==
    ASSUME alloc_pool \in Seq(Pairs), alloc_pool # <<>>, OnePooled,
           alloc_pool' = Tail(alloc_pool)
    PROVE  /\ alloc_pool' \in Seq(Pairs) /\ OnePooled'
           /\ Head(alloc_pool) \in InPool /\ Head(alloc_pool) \in Pairs
           /\ InPool' = InPool \ {Head(alloc_pool)}
<1> DEFINE h == Head(alloc_pool)
<1>1. Len(alloc_pool) \in Nat /\ Len(alloc_pool) > 0
  BY LenProperties, EmptySeq
<1>2. /\ h = alloc_pool[1] /\ h \in Pairs
      /\ Len(alloc_pool') = Len(alloc_pool) - 1 /\ alloc_pool' \in Seq(Pairs)
      /\ \A i \in 1..Len(alloc_pool) - 1 : alloc_pool'[i] = alloc_pool[i + 1]
  BY HeadTailProperties
<1> HIDE DEF h
<1>3. \A i \in 1..Len(alloc_pool') : i + 1 \in 1..Len(alloc_pool) /\ alloc_pool'[i] = alloc_pool[i + 1]
  BY <1>1, <1>2
<1>4. OnePooled'
  <2>1. ASSUME NEW i \in 1..Len(alloc_pool'), NEW j \in 1..Len(alloc_pool'),
               alloc_pool'[i] = alloc_pool'[j]
        PROVE  i = j
    <3>1. i + 1 = j + 1
      BY <1>3, <2>1 DEF OnePooled
    <3>. QED BY <3>1
  <2>. QED BY <2>1 DEF OnePooled
<1>5. h \in InPool
  BY <1>1, <1>2 DEF InPool
<1>6. InPool' = {alloc_pool'[i] : i \in 1..Len(alloc_pool')}
  BY DEF InPool
<1>7. \A x : x \in InPool' => x \in InPool /\ x # h
  <2> SUFFICES ASSUME NEW i \in 1..Len(alloc_pool')
               PROVE  alloc_pool'[i] \in InPool /\ alloc_pool'[i] # h
    BY <1>6
  <2>1. 1 \in 1..Len(alloc_pool) /\ i + 1 \in 1..Len(alloc_pool) /\ i + 1 # 1
    BY <1>1, <1>3
  <2>2. alloc_pool[i + 1] # alloc_pool[1]
    BY <2>1 DEF OnePooled
  <2>. QED BY <2>1, <2>2, <1>2, <1>3 DEF InPool
<1>8. \A x : x \in InPool /\ x # h => x \in InPool'
  <2> SUFFICES ASSUME NEW i \in 1..Len(alloc_pool), alloc_pool[i] # h
               PROVE  alloc_pool[i] \in InPool'
    BY DEF InPool
  <2>1. i - 1 \in 1..Len(alloc_pool) - 1 /\ (i - 1) + 1 = i
    BY <1>1, <1>2
  <2>. QED BY <2>1, <1>2, <1>6, SMTT(40)
<1>. QED BY <1>2, <1>4, <1>5, <1>7, <1>8 DEF h

(* A record becomes the first of the pool.                                  *)
LEMMA PoolGets ==
    ASSUME alloc_pool \in Seq(Pairs), OnePooled, NEW r \in Pairs, r \notin InPool,
           alloc_pool' = <<r>> \o alloc_pool
    PROVE  /\ alloc_pool' \in Seq(Pairs) /\ OnePooled'
           /\ InPool' = InPool \union {r}
<1> DEFINE new == <<r>> \o alloc_pool
<1>1. /\ new \in Seq(Pairs) /\ Len(alloc_pool) \in Nat /\ Len(new) = Len(alloc_pool) + 1
      /\ new[1] = r
      /\ \A k \in 1..Len(alloc_pool) : new[k + 1] = alloc_pool[k]
      /\ \A k \in 1..Len(new) : k = 1 \/ (k - 1 \in 1..Len(alloc_pool) /\ new[k] = alloc_pool[k - 1])
  BY LinkedIs
<1>2. alloc_pool' = new
  OBVIOUS
<1> HIDE DEF new
<1>3. \A k \in 1..Len(alloc_pool) : alloc_pool[k] # r
  BY DEF InPool
<1>4. ASSUME NEW k \in 1..Len(new), NEW l \in 1..Len(new), new[k] = new[l]
      PROVE  k = l
  <2>1. CASE k = 1 \/ l = 1
    BY <2>1, <1>1, <1>3, <1>4
  <2>2. CASE k # 1 /\ l # 1
    <3>1. k - 1 \in 1..Len(alloc_pool) /\ l - 1 \in 1..Len(alloc_pool)
      BY <2>2, <1>1
    <3>2. alloc_pool[k - 1] = alloc_pool[l - 1]
      BY <2>2, <1>1, <1>4
    <3>3. k - 1 = l - 1
      BY <3>1, <3>2 DEF OnePooled
    <3>. QED BY <3>3
  <2>. QED BY <2>1, <2>2
<1>5. InPool' = {new[i] : i \in 1..Len(new)}
  BY <1>2 DEF InPool
<1>6. \A x : x \in InPool' => x \in InPool \union {r}
  BY <1>1, <1>5 DEF InPool
<1>7. \A k \in 1..Len(alloc_pool) : k + 1 \in 1..Len(new)
  BY <1>1
<1>8. \A x : x \in InPool => x \in InPool'
  BY <1>1, <1>5, <1>7 DEF InPool
<1>9. r \in InPool'
  BY <1>1, <1>5
<1>10. OnePooled'
  BY <1>2, <1>4 DEF OnePooled
<1>. QED BY <1>1, <1>2, <1>6, <1>8, <1>9, <1>10

(* A record becomes the first of the list.                                  *)
LEMMA ListGets ==
    ASSUME allocs \in Seq(Entries), OneListed, NEW e \in Entries, e.rec \notin InList,
           allocs' = Linked(e, allocs)
    PROVE  /\ allocs' \in Seq(Entries) /\ OneListed'
           /\ Len(allocs) \in Nat /\ Len(allocs') = Len(allocs) + 1
           /\ InList' = InList \union {e.rec}
<1> DEFINE new == <<e>> \o allocs
<1>1. /\ new \in Seq(Entries) /\ Len(allocs) \in Nat /\ Len(new) = Len(allocs) + 1
      /\ new[1] = e
      /\ \A k \in 1..Len(allocs) : new[k + 1] = allocs[k]
      /\ \A k \in 1..Len(new) : k = 1 \/ (k - 1 \in 1..Len(allocs) /\ new[k] = allocs[k - 1])
  BY LinkedIs
<1>2. allocs' = new
  BY DEF Linked
<1> HIDE DEF new
<1>3. \A k \in 1..Len(allocs) : allocs[k].rec # e.rec
  BY DEF InList
<1>4. ASSUME NEW k \in 1..Len(new), NEW l \in 1..Len(new), new[k].rec = new[l].rec
      PROVE  k = l
  <2>1. CASE k = 1 \/ l = 1
    BY <2>1, <1>1, <1>3, <1>4
  <2>2. CASE k # 1 /\ l # 1
    <3>1. k - 1 \in 1..Len(allocs) /\ l - 1 \in 1..Len(allocs)
      BY <2>2, <1>1
    <3>2. allocs[k - 1].rec = allocs[l - 1].rec
      BY <2>2, <1>1, <1>4
    <3>3. k - 1 = l - 1
      BY <3>1, <3>2 DEF OneListed
    <3>. QED BY <3>3
  <2>. QED BY <2>1, <2>2
<1>5. InList' = {new[i].rec : i \in 1..Len(new)}
  BY <1>2 DEF InList
<1>6. \A x : x \in InList' => x \in InList \union {e.rec}
  <2> SUFFICES ASSUME NEW k \in 1..Len(new) PROVE new[k].rec \in InList \union {e.rec}
    BY <1>5
  <2>. QED BY <1>1 DEF InList
<1>7. \A k \in 1..Len(allocs) : k + 1 \in 1..Len(new)
  BY <1>1
<1>8. \A x : x \in InList => x \in InList'
  <2> SUFFICES ASSUME NEW k \in 1..Len(allocs) PROVE allocs[k].rec \in InList'
    BY DEF InList
  <2>1. k + 1 \in 1..Len(new) /\ new[k + 1].rec = allocs[k].rec
    BY <1>1, <1>7
  <2>. QED BY <2>1, <1>5
<1>9. e.rec \in InList'
  BY <1>1, <1>5
<1>10. OneListed'
  BY <1>2, <1>4 DEF OneListed
<1>. QED BY <1>1, <1>2, <1>6, <1>8, <1>9, <1>10

(* A record leaves the list.                                                *)
LEMMA ListLoses ==
    ASSUME allocs \in Seq(Entries), OneListed, NEW i \in 1..Len(allocs),
           allocs' = Unlinked(allocs, i)
    PROVE  /\ allocs' \in Seq(Entries) /\ OneListed'
           /\ Len(allocs) \in Nat /\ Len(allocs') = Len(allocs) - 1
           /\ allocs[i].rec \in InList /\ InList' = InList \ {allocs[i].rec}
<1>1. /\ allocs' \in Seq(Entries) /\ Len(allocs) \in Nat /\ Len(allocs') = Len(allocs) - 1
  BY UnlinkedIs
<1>0. Without(allocs', allocs, i)
  BY UnlinkedPlaces
<1>2. /\ \A k \in 1..Len(allocs') :
           LET old == IF k < i THEN k ELSE k + 1
           IN  old \in 1..Len(allocs) /\ old # i /\ allocs'[k] = allocs[old]
      /\ \A k, l \in 1..Len(allocs') :
           (IF k < i THEN k ELSE k + 1) = (IF l < i THEN l ELSE l + 1) => k = l
      /\ \A m \in 1..Len(allocs) : m # i =>
           \E k \in 1..Len(allocs') : m = (IF k < i THEN k ELSE k + 1) /\ allocs'[k] = allocs[m]
  BY <1>0 DEF Without
<1>3. ASSUME NEW k \in 1..Len(allocs'), NEW l \in 1..Len(allocs'), allocs'[k].rec = allocs'[l].rec
      PROVE  k = l
  <2> DEFINE o(n) == IF n < i THEN n ELSE n + 1
  <2>1. /\ o(k) \in 1..Len(allocs) /\ allocs'[k] = allocs[o(k)]
        /\ o(l) \in 1..Len(allocs) /\ allocs'[l] = allocs[o(l)]
    BY <1>2
  <2>2. o(k) = o(l)
    BY <2>1, <1>3 DEF OneListed
  <2>. QED BY <2>2, <1>2
<1>4. InList' = {allocs'[k].rec : k \in 1..Len(allocs')}
  BY DEF InList
<1>5. \A x : x \in InList' => x \in InList /\ x # allocs[i].rec
  BY <1>2, <1>4 DEF InList, OneListed
<1>6. \A x : x \in InList /\ x # allocs[i].rec => x \in InList'
  BY <1>2, <1>4 DEF InList
<1>7. allocs[i].rec \in InList
  BY DEF InList
<1>8. OneListed'
  BY <1>3 DEF OneListed
<1>. QED BY <1>1, <1>5, <1>6, <1>7, <1>8

----
(* The blocks the threads hold *)

Recording == {"trace", "pool", "take", "list", "link", "return"}
Removals == {"untrace", "find", "unlink"}

(* What ptr and res are while a thread is at a step of a call.              *)
Stack(t) ==
    /\ pc[t] \in Recording => res[t] # NoAddress /\ ptr[t] = NoAddress
    /\ pc[t] \in Removals =>
         /\ ptr[t] # NoAddress
         /\ then[t] \in {"release", "idle"} => res[t] = NoAddress
         /\ then[t] = "trace" => res[t] # NoAddress
         /\ then[t] = "return" => res[t] = ptr[t] /\ ptr[t] \in lost
    /\ pc[t] = "release" => ptr[t] # NoAddress /\ res[t] = NoAddress
    /\ pc[t] \notin Recording \union Removals \union {"release"} =>
         ptr[t] = NoAddress /\ res[t] = NoAddress

Pointers ==
    /\ ptr \in [Threads -> Addresses \union {NoAddress}]
    /\ res \in [Threads -> Addresses \union {NoAddress}]

(* The block a thread is about to give back, and the one it is about to get.*)
Frees(t) == pc[t] = "release" \/ (pc[t] \in Removals /\ then[t] = "release")
Freeing(t) == IF Frees(t) THEN {ptr[t]} ELSE {}
Coming(t) == {res[t]} \ {NoAddress}
Claims(t) == Freeing(t) \union Coming(t)

(* A block is held by the program, by libc, by a stream, or by the one      *)
(* thread that gets it or gives it back.                                    *)
Streams ==
    /\ buffers \subseteq heap \ (owned \union libc)
    /\ stdout_buffer \in libc \union {NoAddress}

Blocks ==
    /\ Streams
    /\ owned \subseteq heap /\ heap \subseteq Addresses /\ libc \subseteq heap \ owned
    /\ \A t \in Threads : Claims(t) \subseteq heap \ owned
    /\ \A t \in Threads : Freeing(t) \intersect libc = {}
    /\ \A t \in Threads : Claims(t) \intersect buffers = {}
    /\ \A t, u \in Threads : t # u => Claims(t) \intersect Claims(u) = {}

HoldInv == Pointers /\ Blocks /\ \A t \in Threads : Stack(t)

(* What a step of t leaves of the other threads.                            *)
OthersHold(t) ==
    /\ \A u \in Threads \ {t} :
         pc'[u] = pc[u] /\ ptr'[u] = ptr[u] /\ res'[u] = res[u] /\ then'[u] = then[u]
    /\ lost \subseteq lost'

(* The blocks of the others are still theirs.                               *)
OthersClaim(t) ==
    \A u \in Threads \ {t} :
        /\ Claims(u) \subseteq heap' \ owned'
        /\ Freeing(u) \intersect libc' = {}
        /\ Claims(u) \intersect buffers' = {}
        /\ Claims(t)' \intersect Claims(u) = {}

(* A step of t is judged by what it makes of the blocks and of t.           *)
LEMMA HoldKeeps ==
    ASSUME HoldInv, NEW t \in Threads, OthersHold(t), OthersClaim(t),
           Pointers', Stack(t)', Streams', Claims(t)' \intersect buffers' = {},
           owned' \subseteq heap' /\ heap' \subseteq Addresses /\ libc' \subseteq heap' \ owned',
           Claims(t)' \subseteq heap' \ owned', Freeing(t)' \intersect libc' = {}
    PROVE  HoldInv'
<1>1. ASSUME NEW u \in Threads, u # t
      PROVE  Freeing(u)' = Freeing(u) /\ Coming(u)' = Coming(u) /\ Claims(u)' = Claims(u) /\ Stack(u)'
  <2>1. pc'[u] = pc[u] /\ ptr'[u] = ptr[u] /\ res'[u] = res[u] /\ then'[u] = then[u]
    BY <1>1 DEF OthersHold
  <2>2. Freeing(u)' = Freeing(u) /\ Coming(u)' = Coming(u) /\ Claims(u)' = Claims(u)
    BY <2>1 DEF Freeing, Coming, Claims, Frees
  <2>3. Stack(u) /\ lost \subseteq lost'
    BY DEF HoldInv, OthersHold
  <2>. QED BY <2>1, <2>2, <2>3 DEF Stack
<1>2. \A u \in Threads : Claims(u)' \subseteq heap' \ owned' /\ Freeing(u)' \intersect libc' = {}
                           /\ Claims(u)' \intersect buffers' = {}
  BY <1>1 DEF OthersClaim
<1>3. \A u, v \in Threads : u # v => Claims(u)' \intersect Claims(v)' = {}
  BY <1>1 DEF OthersClaim, HoldInv, Blocks
<1>4. Blocks'
  BY <1>2, <1>3 DEF Blocks
<1>. QED BY <1>1, <1>4 DEF HoldInv

(* A step that gives and takes no block.                                    *)
LEMMA SameBlocks ==
    ASSUME HoldInv, NEW t \in Threads, OthersHold(t), UNCHANGED <<heap, owned, libc, buffers, stdout_buffer>>,
           Pointers', Stack(t)', Freeing(t)' \subseteq Freeing(t), Coming(t)' \subseteq Coming(t)
    PROVE  HoldInv'
<1>1. Claims(t)' \subseteq Claims(t)
  BY DEF Claims
<1>2. OthersClaim(t)
  BY <1>1 DEF OthersClaim, HoldInv, Blocks
<1>3. /\ owned' \subseteq heap' /\ heap' \subseteq Addresses /\ libc' \subseteq heap' \ owned'
      /\ Claims(t)' \subseteq heap' \ owned' /\ Freeing(t)' \intersect libc' = {}
      /\ Claims(t)' \intersect buffers' = {} /\ Streams'
  BY <1>1 DEF HoldInv, Blocks, Streams
<1>. QED BY <1>2, <1>3, HoldKeeps

(* A step inside one of the parts of a call.                                *)
Goings(from, to) ==
    \/ from \in Recording /\ to \in Recording
    \/ from \in Removals /\ to \in Removals
    \/ /\ from \notin Recording \union Removals \union {"release"}
       /\ to \notin Recording \union Removals \union {"release"}

(* It leaves the blocks to those who have them. *)
LEMMA StepsHold ==
    ASSUME HoldInv, LockInv, NEW t \in Threads, NEW to, Goings(pc[t], to),
           pc' = [pc EXCEPT ![t] = to], UNCHANGED <<heap, owned, libc, buffers, stdout_buffer, lost, ptr, res, then>>
    PROVE  HoldInv'
<1>1. pc'[t] = to /\ \A u \in Threads \ {t} : pc'[u] = pc[u]
  BY DEF LockInv
<1>2. OthersHold(t) /\ Pointers'
  BY <1>1 DEF OthersHold, HoldInv, Pointers
<1>3. Stack(t)'
  BY <1>1 DEF HoldInv, Stack, Goings, Recording, Removals
<1>4. Freeing(t)' = Freeing(t) /\ Coming(t)' = Coming(t)
  BY <1>1 DEF Freeing, Coming, Frees, Goings, Recording, Removals
<1>. QED BY <1>2, <1>3, <1>4, SameBlocks

(* A step that touches none of this.                                        *)
LEMMA RestsHold ==
    ASSUME HoldInv, UNCHANGED <<heap, owned, libc, buffers, stdout_buffer, lost, ptr, res, then, pc>>
    PROVE  HoldInv'
<1>1. Pointers' /\ \A t \in Threads : Stack(t)'
  BY DEF HoldInv, Pointers, Stack
<1>2. \A t \in Threads : Freeing(t)' = Freeing(t) /\ Claims(t)' = Claims(t)
  BY DEF Freeing, Coming, Claims, Frees
<1>3. Blocks'
  BY <1>2 DEF HoldInv, Blocks, Streams
<1>. QED BY <1>1, <1>3 DEF HoldInv

----
(* The program gets a block that was free.                                  *)
LEMMA AllocateHolds ==
    ASSUME HoldInv, LockInv, NEW t \in Threads, NEW by, Allocate(t, by)
    PROVE  HoldInv'
<1>1. PICK a \in Addresses \ heap :
        /\ heap' = heap \union {a} /\ res' = [res EXCEPT ![t] = a]
        /\ libc' = libc \/ libc' = libc \union {a}
        /\ stdout_buffer' = stdout_buffer \/ (stdout_buffer' = a /\ a \in libc')
  BY DEF Allocate
<1>2. /\ pc[t] = "idle" /\ pc' = [pc EXCEPT ![t] = "trace"]
      /\ UNCHANGED <<owned, buffers, lost, ptr, then>>
  BY DEF Allocate, Starts, Goes
<1>3. pc'[t] = "trace" /\ \A u \in Threads \ {t} : pc'[u] = pc[u]
  BY <1>2 DEF LockInv
<1>4. res'[t] = a /\ a # NoAddress /\ \A u \in Threads \ {t} : res'[u] = res[u]
  BY <1>1, ConstantsAssumption DEF HoldInv, Pointers
<1>5. OthersHold(t) /\ Pointers'
  BY <1>1, <1>2, <1>3, <1>4 DEF OthersHold, HoldInv, Pointers
<1>6. ptr[t] = NoAddress
  BY <1>2 DEF HoldInv, Stack, Recording, Removals
<1>7. Stack(t)'
  BY <1>2, <1>3, <1>4, <1>6 DEF Stack, Recording, Removals
<1>8. Freeing(t)' = {} /\ Claims(t)' = {a}
  BY <1>3, <1>4 DEF Freeing, Frees, Coming, Claims, Removals
<1>9. OthersClaim(t)
  <2>1. \A u \in Threads : Claims(u) \subseteq heap \ owned /\ Freeing(u) \intersect libc = {}
                           /\ Freeing(u) \subseteq Claims(u) /\ Claims(u) \intersect buffers = {}
    BY DEF HoldInv, Blocks, Claims
  <2>. QED BY <2>1, <1>1, <1>2, <1>8 DEF OthersClaim
<1>10. owned' \subseteq heap' /\ heap' \subseteq Addresses /\ libc' \subseteq heap' \ owned'
       /\ Claims(t)' \subseteq heap' \ owned'
  BY <1>1, <1>2, <1>8 DEF HoldInv, Blocks
<1>11. Streams' /\ Claims(t)' \intersect buffers' = {}
  BY <1>1, <1>2, <1>8 DEF HoldInv, Blocks, Streams
<1>. QED BY <1>5, <1>7, <1>8, <1>9, <1>10, <1>11, HoldKeeps

(* A realloc makes of block p a new one or none, and leaves `left` to libc. *)
LEMMA ReallocHolds ==
    ASSUME HoldInv, LockInv, NEW t \in Threads, NEW p \in owned,
           NEW new \in Addresses \union {NoAddress}, NEW left, NEW next,
           Realloc(t, p, new, left, next), lost \subseteq lost',
           \/ /\ new \in Addresses \ heap /\ left = (heap \ {p}) \union {new}
              /\ next = "trace"
           \/ new = NoAddress /\ left = heap \ {p} /\ next = "idle"
           \/ new = p /\ left = heap /\ next = "return" /\ p \in lost'
    PROVE  HoldInv'
<1>1. /\ pc[t] = "idle" /\ pc' = [pc EXCEPT ![t] = "untrace"]
      /\ owned' = owned \ {p} /\ heap' = left /\ UNCHANGED <<libc, buffers, stdout_buffer>>
      /\ ptr' = [ptr EXCEPT ![t] = p] /\ res' = [res EXCEPT ![t] = new]
      /\ then' = [then EXCEPT ![t] = next]
  BY DEF Realloc, Starts, Goes
<1>2. p \in heap /\ p \in Addresses /\ p \notin libc /\ p # NoAddress
  BY ConstantsAssumption DEF HoldInv, Blocks
<1>3. /\ pc'[t] = "untrace" /\ ptr'[t] = p /\ res'[t] = new /\ then'[t] = next
      /\ \A u \in Threads \ {t} :
           pc'[u] = pc[u] /\ ptr'[u] = ptr[u] /\ res'[u] = res[u] /\ then'[u] = then[u]
  BY <1>1 DEF LockInv, HoldInv, Pointers
<1>4. OthersHold(t)
  BY <1>3 DEF OthersHold
<1>5. Pointers'
  BY <1>1, <1>2 DEF HoldInv, Pointers
<1>6. new \in Addresses => new # NoAddress
  BY ConstantsAssumption
<1>7. Stack(t)'
  BY <1>2, <1>3, <1>6 DEF Stack, Recording, Removals
<1>8. Freeing(t)' = {} /\ Claims(t)' = {new} \ {NoAddress}
  BY <1>3 DEF Freeing, Frees, Coming, Claims, Removals
<1>9. \A u \in Threads : Claims(u) \subseteq heap \ owned /\ Freeing(u) \intersect libc = {}
                         /\ Claims(u) \intersect buffers = {}
  BY DEF HoldInv, Blocks
<1>10. OthersClaim(t)
  BY <1>1, <1>2, <1>8, <1>9 DEF OthersClaim
<1>12. p \notin buffers /\ Streams' /\ Claims(t)' \intersect buffers' = {}
  BY <1>1, <1>2, <1>8 DEF HoldInv, Blocks, Streams
<1>11. owned' \subseteq heap' /\ heap' \subseteq Addresses /\ libc' \subseteq heap' \ owned'
       /\ Claims(t)' \subseteq heap' \ owned'
  BY <1>1, <1>2, <1>8 DEF HoldInv, Blocks
<1>. QED BY <1>4, <1>5, <1>7, <1>8, <1>10, <1>11, <1>12, HoldKeeps

(* The program or a stream gives a block up, and free() still has it.       *)
LEMMA FreeHolds ==
    ASSUME HoldInv, LockInv, NEW t \in Threads, free(t) \/ fclose(t)
    PROVE  HoldInv'
<1>1. PICK p \in owned \union buffers :
        /\ ptr' = [ptr EXCEPT ![t] = p] /\ UNCHANGED heap
        /\ \/ p \in owned /\ owned' = owned \ {p} /\ UNCHANGED buffers
           \/ p \in buffers /\ buffers' = buffers \ {p} /\ UNCHANGED owned
  BY DEF free, fclose, HeapAtFree
<1>2. /\ pc[t] = "idle" /\ pc' = [pc EXCEPT ![t] = "untrace"] /\ lost \subseteq lost'
      /\ then' = [then EXCEPT ![t] = "release"] /\ UNCHANGED <<libc, stdout_buffer, res>>
  BY DEF free, fclose, Starts, Goes
<1>3. p \in heap /\ p \in Addresses /\ p \notin libc /\ p # NoAddress
  BY ConstantsAssumption DEF HoldInv, Blocks, Streams
<1>13. p \notin owned' /\ p \notin buffers' /\ Streams'
  BY <1>1, <1>2 DEF HoldInv, Blocks, Streams
<1>4. /\ pc'[t] = "untrace" /\ ptr'[t] = p /\ then'[t] = "release"
      /\ \A u \in Threads \ {t} : pc'[u] = pc[u] /\ ptr'[u] = ptr[u] /\ then'[u] = then[u]
  BY <1>1, <1>2 DEF LockInv, HoldInv, Pointers
<1>5. OthersHold(t)
  BY <1>2, <1>4 DEF OthersHold
<1>6. Pointers'
  BY <1>1, <1>2, <1>3 DEF HoldInv, Pointers
<1>7. res'[t] = NoAddress
  BY <1>2 DEF HoldInv, Stack, Recording, Removals
<1>8. Stack(t)'
  BY <1>3, <1>4, <1>7 DEF Stack, Recording, Removals
<1>9. Freeing(t)' = {p} /\ Claims(t)' = {p}
  BY <1>4, <1>7 DEF Freeing, Frees, Coming, Claims, Removals
<1>10. \A u \in Threads : Claims(u) \subseteq heap \ owned /\ Freeing(u) \intersect libc = {}
                          /\ Claims(u) \intersect buffers = {}
  BY DEF HoldInv, Blocks
<1>11. OthersClaim(t)
  BY <1>1, <1>2, <1>9, <1>10 DEF OthersClaim
<1>12. owned' \subseteq heap' /\ heap' \subseteq Addresses /\ libc' \subseteq heap' \ owned'
       /\ Claims(t)' \subseteq heap' \ owned' /\ Freeing(t)' \intersect libc' = {}
       /\ Claims(t)' \intersect buffers' = {}
  BY <1>1, <1>2, <1>3, <1>9, <1>13 DEF HoldInv, Blocks
<1>. QED BY <1>5, <1>6, <1>8, <1>11, <1>12, <1>13, HoldKeeps

(* A stream gets a block of its own (line 162).                             *)
LEMMA GetlineHolds ==
    ASSUME HoldInv, LockInv, NEW t \in Threads, getline(t)
    PROVE  HoldInv'
<1>1. PICK a \in Addresses \ heap :
        heap' = heap \union {a} /\ buffers' = buffers \union {a}
  BY DEF getline
<1>2. UNCHANGED <<owned, libc, stdout_buffer, lost, ptr, res, then, pc>>
  BY DEF getline, locals
<1>3. OthersHold(t) /\ Pointers' /\ Stack(t)'
  BY <1>2 DEF OthersHold, HoldInv, Pointers, Stack
<1>4. \A u \in Threads : /\ Claims(u) \subseteq heap \ owned /\ Freeing(u) \intersect libc = {}
                         /\ Claims(u) \intersect buffers = {}
  BY DEF HoldInv, Blocks
<1>5. Freeing(t)' = Freeing(t) /\ Claims(t)' = Claims(t)
  BY <1>2 DEF Freeing, Frees, Coming, Claims
<1>6. OthersClaim(t)
  BY <1>1, <1>2, <1>4, <1>5 DEF OthersClaim, HoldInv, Blocks
<1>7. /\ owned' \subseteq heap' /\ heap' \subseteq Addresses /\ libc' \subseteq heap' \ owned'
      /\ Claims(t)' \subseteq heap' \ owned' /\ Freeing(t)' \intersect libc' = {}
      /\ Claims(t)' \intersect buffers' = {}
  BY <1>1, <1>2, <1>4, <1>5 DEF HoldInv, Blocks
<1>8. Streams'
  BY <1>1, <1>2 DEF HoldInv, Blocks, Streams
<1>. QED BY <1>3, <1>6, <1>7, <1>8, HoldKeeps

(* libc gets the block back.                                                *)
LEMMA ReleaseHolds ==
    ASSUME HoldInv, LockInv, NEW t \in Threads, default_free(t)
    PROVE  HoldInv'
<1>1. /\ pc[t] = "release" /\ pc' = [pc EXCEPT ![t] = "idle"]
      /\ heap' = heap \ {ptr[t]} /\ ptr' = [ptr EXCEPT ![t] = NoAddress]
      /\ UNCHANGED <<owned, libc, buffers, stdout_buffer, lost, res, then>>
  BY DEF default_free, Goes
<1>2. /\ pc'[t] = "idle" /\ ptr'[t] = NoAddress
      /\ \A u \in Threads \ {t} : pc'[u] = pc[u] /\ ptr'[u] = ptr[u]
  BY <1>1 DEF LockInv, HoldInv, Pointers
<1>3. OthersHold(t) /\ Pointers'
  BY <1>1, <1>2 DEF OthersHold, HoldInv, Pointers
<1>4. res'[t] = NoAddress
  BY <1>1 DEF HoldInv, Stack
<1>5. Stack(t)'
  BY <1>2, <1>4 DEF Stack, Recording, Removals
<1>6. Freeing(t)' = {} /\ Claims(t)' = {}
  BY <1>2, <1>4 DEF Freeing, Frees, Coming, Claims, Removals
<1>7. ptr[t] \in Freeing(t) /\ Freeing(t) \subseteq Claims(t)
  BY <1>1 DEF Freeing, Frees, Claims
<1>8. ptr[t] \in heap \ (owned \union libc \union buffers)
  BY <1>7 DEF HoldInv, Blocks
<1>12. Streams'
  BY <1>1, <1>8 DEF HoldInv, Blocks, Streams
<1>9. \A u \in Threads \ {t} : Claims(u) \subseteq heap \ owned /\ Freeing(u) \intersect libc = {}
                               /\ ptr[t] \notin Claims(u) /\ Claims(u) \intersect buffers = {}
  BY <1>7 DEF HoldInv, Blocks
<1>10. OthersClaim(t)
  BY <1>1, <1>6, <1>9 DEF OthersClaim
<1>11. owned' \subseteq heap' /\ heap' \subseteq Addresses /\ libc' \subseteq heap' \ owned'
  BY <1>1, <1>8 DEF HoldInv, Blocks
<1>. QED BY <1>3, <1>5, <1>6, <1>10, <1>11, <1>12, HoldKeeps

(* The call returns the block.                                              *)
LEMMA ReturnHolds ==
    ASSUME HoldInv, LockInv, NEW t \in Threads, return(t)
    PROVE  HoldInv'
<1>1. /\ pc[t] = "return" /\ pc' = [pc EXCEPT ![t] = "idle"]
      /\ res' = [res EXCEPT ![t] = NoAddress]
      /\ UNCHANGED <<heap, libc, buffers, stdout_buffer, lost, ptr, then>>
      /\ owned' = owned \/ (res[t] \notin libc /\ owned' = owned \union {res[t]})
  BY DEF return, Goes
<1>2. /\ pc'[t] = "idle" /\ res'[t] = NoAddress
      /\ \A u \in Threads \ {t} : pc'[u] = pc[u] /\ res'[u] = res[u]
  BY <1>1 DEF LockInv, HoldInv, Pointers
<1>3. OthersHold(t) /\ Pointers'
  BY <1>1, <1>2 DEF OthersHold, HoldInv, Pointers
<1>4. res[t] # NoAddress /\ ptr[t] = NoAddress
  BY <1>1 DEF HoldInv, Stack, Recording
<1>5. Stack(t)'
  BY <1>1, <1>2, <1>4 DEF Stack, Recording, Removals
<1>6. Freeing(t)' = {} /\ Claims(t)' = {}
  BY <1>2 DEF Freeing, Frees, Coming, Claims, Removals
<1>7. res[t] \in Claims(t) /\ res[t] \in heap /\ res[t] \notin buffers
  BY <1>4 DEF HoldInv, Blocks, Claims, Coming
<1>11. Streams'
  BY <1>1, <1>7 DEF HoldInv, Blocks, Streams
<1>8. \A u \in Threads \ {t} : Claims(u) \subseteq heap \ owned /\ Freeing(u) \intersect libc = {}
                               /\ res[t] \notin Claims(u) /\ Claims(u) \intersect buffers = {}
  BY <1>7 DEF HoldInv, Blocks
<1>9. OthersClaim(t)
  BY <1>1, <1>6, <1>8 DEF OthersClaim
<1>10. owned' \subseteq heap' /\ heap' \subseteq Addresses /\ libc' \subseteq heap' \ owned'
  BY <1>1, <1>7 DEF HoldInv, Blocks
<1>. QED BY <1>3, <1>5, <1>6, <1>9, <1>10, <1>11, HoldKeeps

(* The end of alloc_free().                                                 *)
LEMMA ReturnedHolds ==
    ASSUME HoldInv, LockInv, NEW t \in Threads, pc[t] \in Removals, Returned(t),
           UNCHANGED <<heap, owned, libc, buffers, stdout_buffer, lost, res>>
    PROVE  HoldInv'
<1>1. /\ pc' = [pc EXCEPT ![t] = then[t]] /\ then' = [then EXCEPT ![t] = "idle"]
      /\ ptr' = [ptr EXCEPT ![t] = IF then[t] = "release" THEN ptr[t] ELSE NoAddress]
  BY DEF Returned, Goes
<1>2. /\ pc'[t] = then[t] /\ then'[t] = "idle"
      /\ ptr'[t] = IF then[t] = "release" THEN ptr[t] ELSE NoAddress
      /\ \A u \in Threads \ {t} : pc'[u] = pc[u] /\ ptr'[u] = ptr[u] /\ then'[u] = then[u]
  BY <1>1 DEF LockInv, HoldInv, Pointers
<1>3. OthersHold(t) /\ Pointers'
  BY <1>1, <1>2 DEF OthersHold, HoldInv, Pointers
<1>4. then[t] \in Continuations
  BY DEF LockInv
<1>5. Stack(t)
  BY DEF HoldInv
<1>6. Stack(t)'
  BY <1>2, <1>4, <1>5 DEF Stack, Continuations, Recording, Removals
<1>7. Freeing(t)' \subseteq Freeing(t) /\ Coming(t)' = Coming(t)
  BY <1>2, <1>4 DEF Freeing, Frees, Coming, Continuations, Recording, Removals
<1>. QED BY <1>3, <1>6, <1>7, SameBlocks

(* libc gets a block for itself while the leaks are printed.                *)
LEMMA ExitAllocatesHolds ==
    ASSUME HoldInv, LockInv, NEW t \in Threads, exitAllocates(t)
    PROVE  HoldInv'
<1>1. is_exit_done
  BY DEF LockInv, exitAllocates
<1>2. PICK a \in Addresses \ heap : heap' = heap \union {a} /\ libc' = libc \union {a}
  BY <1>1 DEF exitAllocates
<1>3. UNCHANGED <<owned, buffers, stdout_buffer, lost, ptr, res, then, pc>>
  BY <1>1 DEF exitAllocates, locals
<1>4. OthersHold(t) /\ Pointers' /\ Stack(t)'
  BY <1>3 DEF OthersHold, HoldInv, Pointers, Stack
<1>5. \A u \in Threads : Freeing(u) \subseteq Claims(u) /\ Claims(u) \subseteq heap \ owned
                         /\ Freeing(u) \intersect libc = {} /\ Claims(u) \intersect buffers = {}
  BY DEF HoldInv, Blocks, Claims
<1>6. Freeing(t)' = Freeing(t) /\ Claims(t)' = Claims(t)
  BY <1>3 DEF Freeing, Frees, Coming, Claims
<1>7. OthersClaim(t)
  BY <1>2, <1>3, <1>5, <1>6 DEF OthersClaim, HoldInv, Blocks
<1>8. owned' \subseteq heap' /\ heap' \subseteq Addresses /\ libc' \subseteq heap' \ owned'
      /\ Claims(t)' \subseteq heap' \ owned' /\ Freeing(t)' \intersect libc' = {}
      /\ Claims(t)' \intersect buffers' = {}
  BY <1>2, <1>3, <1>5, <1>6 DEF HoldInv, Blocks
<1>9. Streams'
  BY <1>2, <1>3 DEF HoldInv, Blocks, Streams
<1>. QED BY <1>4, <1>7, <1>8, <1>9, HoldKeeps

(* The calls of the program.                                                *)
LEMMA CallHolds ==
    ASSUME HoldInv, LockInv, NEW t \in Threads, Call(t)
    PROVE  HoldInv'
<1>1. CASE malloc(t)
  BY <1>1, AllocateHolds DEF malloc
<1>2. CASE calloc(t)
  BY <1>2, AllocateHolds DEF calloc
<1>3. CASE strdup(t)
  <2>1. CASE is_exit_done
    <3>1. UNCHANGED <<heap, owned, libc, buffers, stdout_buffer, lost, ptr, res, then, pc>>
      BY <1>3, <2>1 DEF strdup, program, locals
    <3>. QED BY <3>1, RestsHold
  <2>2. CASE ~is_exit_done
    BY <1>3, <2>2, AllocateHolds DEF strdup
  <2>. QED BY <2>1, <2>2
<1>4. CASE free(t) \/ fclose(t)
  BY <1>4, FreeHolds
<1>5. CASE reallocMoves(t)
  <2>1. PICK p \in owned, a \in Addresses \ heap :
          Realloc(t, p, a, (heap \ {p}) \union {a}, "trace") /\ UNCHANGED lost
    BY <1>5 DEF reallocMoves
  <2>2. lost \subseteq lost'
    BY <2>1
  <2>. QED BY <2>1, <2>2, ReallocHolds
<1>6. CASE reallocFrees(t)
  <2>1. PICK p \in owned : Realloc(t, p, NoAddress, heap \ {p}, "idle") /\ UNCHANGED lost
    BY <1>6 DEF reallocFrees
  <2>2. lost \subseteq lost'
    BY <2>1
  <2>. QED BY <2>1, <2>2, ReallocHolds
<1>7. CASE reallocFails(t)
  <2>1. PICK p \in owned : Realloc(t, p, p, heap, "return") /\ lost' = lost \union {p}
    BY <1>7 DEF reallocFails
  <2>2. lost \subseteq lost' /\ p \in lost' /\ p \in Addresses
    BY <2>1 DEF HoldInv, Blocks
  <2>. QED BY <2>1, <2>2, ReallocHolds
<1>8. CASE puts(t)
  BY <1>8, AllocateHolds DEF puts
<1>9. CASE getline(t)
  BY <1>9, GetlineHolds
<1>. QED BY <1>1, <1>2, <1>3, <1>4, <1>5, <1>6, <1>7, <1>8, <1>9 DEF Call

(* The steps of the calls.                                                  *)
LEMMA StepHolds ==
    ASSUME HoldInv, LockInv, NEW t \in Threads,
           Step(t) \/ countRead(t) \/ exit(t) \/ exitAllocates(t)
    PROVE  HoldInv'
<1> DEFINE Same == UNCHANGED <<heap, owned, libc, buffers, stdout_buffer, lost, ptr, res, then>>
           To(to) == pc' = [pc EXCEPT ![t] = to] /\ Goings(pc[t], to)
<1>1. CASE return(t)
  BY <1>1, ReturnHolds
<1>2. CASE default_free(t)
  BY <1>2, ReleaseHolds
<1>3. CASE exitAllocates(t)
  BY <1>3, ExitAllocatesHolds
<1>4. CASE unlink(t) \/ (untraceStart(t) /\ is_exit_done)
  <2>1. pc[t] \in Removals /\ Returned(t) /\ UNCHANGED <<heap, owned, libc, buffers, stdout_buffer, lost, res>>
    BY <1>4 DEF unlink, untraceStart, Removals, program
  <2>. QED BY <2>1, ReturnedHolds
<1>5. CASE static_malloc(t) \/ noStatic(t) \/ noBatch(t) \/ badMemory(t)
  <2>1. UNCHANGED <<heap, owned, libc, buffers, stdout_buffer, lost, ptr, res, then, pc>>
    BY <1>5 DEF static_malloc, noStatic, noBatch, badMemory, program, locals
  <2>. QED BY <2>1, RestsHold
<1>6. CASE \/ Touch(t) \/ heaph_init(t) \/ countRead(t) \/ countReturn(t) \/ exit(t)
           \/ exitRead(t) \/ exitReport(t) \/ exitQuiet(t)
  <2>1. Same
    BY <1>6 DEF Touch, heaph_init, countRead, countReturn, exit, exitRead, exitReport, exitQuiet,
                program, locals
  <2>2. \E to \in {"init", "idle", "counted", "exit", "walk"} : To(to)
    BY <1>6 DEF Touch, heaph_init, countRead, countReturn, exit, exitRead, exitReport, exitQuiet,
                Starts, Goes, Goings, Recording, Removals
  <2>. QED BY <2>1, <2>2, StepsHold
<1>7. CASE traceStart(t) \/ poolRead(t) \/ poolTake(t) \/ listRead(t) \/ listLink(t)
  <2>1. Same
    BY <1>7 DEF traceStart, poolRead, poolTake, listRead, listLink, program, locals
  <2>2. \E to \in {"return", "pool", "take", "list", "link"} : To(to)
    BY <1>7 DEF traceStart, poolRead, poolTake, listRead, listLink, Goes, Goings, Recording
  <2>. QED BY <2>1, <2>2, StepsHold
<1>8. CASE findRead(t) \/ (untraceStart(t) /\ ~is_exit_done)
  <2>1. Same
    BY <1>8 DEF findRead, untraceStart, program, locals
  <2>2. \E to \in {"unlink", "find"} : To(to)
    BY <1>8 DEF findRead, untraceStart, Goes, Goings, Removals
  <2>. QED BY <2>1, <2>2, StepsHold
<1>. QED BY <1>1, <1>2, <1>3, <1>4, <1>5, <1>6, <1>7, <1>8 DEF Step

(* At first nobody holds a block.                                           *)
LEMMA HoldInit == Init => HoldInv
<1> SUFFICES ASSUME Init PROVE HoldInv
  OBVIOUS
<1>1. Pointers /\ \A t \in Threads : pc[t] = "idle" /\ ptr[t] = NoAddress /\ res[t] = NoAddress
  BY DEF Init, Pointers
<1>2. \A t \in Threads : Stack(t) /\ Claims(t) = {} /\ Freeing(t) = {}
  BY <1>1 DEF Stack, Claims, Freeing, Coming, Frees, Recording, Removals
<1>3. Blocks
  BY <1>2 DEF Init, Blocks, Streams
<1>. QED BY <1>1, <1>2, <1>3 DEF HoldInv

(* A step of the program is a step of one thread or the end.                *)
Acts(t) == Call(t) \/ Step(t) \/ countRead(t) \/ exit(t) \/ exitAllocates(t)

(* Who acts is a thread of the program, and the process has not ended. *)
LEMMA NextActs ==
    ASSUME LockInv, [Next]_vars
    PROVE  UNCHANGED vars \/ (~ended /\ \E t \in Threads : t \in running /\ Acts(t))
BY DEF LockInv, Next, Ended, Acts

(* Every step keeps the blocks apart.                                       *)
LEMMA HoldNext == LockInv /\ HoldInv /\ [Next]_vars => HoldInv'
<1> SUFFICES ASSUME LockInv, HoldInv, [Next]_vars PROVE HoldInv'
  OBVIOUS
<1>1. CASE UNCHANGED vars
  <2>1. UNCHANGED <<heap, owned, libc, buffers, stdout_buffer, lost, ptr, res, then, pc>>
    BY <1>1 DEF vars, program, locals
  <2>. QED BY <2>1, RestsHold
<1>2. ASSUME NEW t \in Threads, Acts(t) PROVE HoldInv'
  BY <1>2, CallHolds, StepHolds DEF Acts
<1>. QED BY <1>1, <1>2, NextActs

----
(* The list and the pool are changed by one thread at a time. *)
OthersKeep(t) ==
    \A u \in Threads \ {t} : pc'[u] = pc[u] /\ seen'[u] = seen[u] /\ hand'[u] = hand[u]

(* What the others have read is still so.                                   *)
LEMMA OthersRead ==
    ASSUME LockInv, RecordInv, NEW t \in Threads, OthersKeep(t), Reads(t)',
           UNCHANGED <<alloc_pool, allocs>> \/ InSection(t)
    PROVE  \A u \in Threads : Reads(u)'
<1>1. ASSUME NEW u \in Threads, u # t PROVE Reads(u)'
  <2>1. Reads(u) /\ pc'[u] = pc[u] /\ seen'[u] = seen[u] /\ hand'[u] = hand[u]
    BY <1>1 DEF RecordInv, OthersKeep
  <2>2. CASE UNCHANGED <<alloc_pool, allocs>>
    BY <2>1, <2>2 DEF Reads
  <2>3. CASE InSection(t)
    <3>1. ~InSection(u)
      BY <1>1, <2>3 DEF LockInv, MutualExclusion
    <3>2. pc[u] \notin {"take", "link", "unlink"}
      BY <3>1 DEF InSection
    <3>. QED BY <2>1, <3>2 DEF Reads
  <2>. QED BY <2>2, <2>3
<1>. QED BY <1>1

(* A step that leaves the list, the pool and the hands as they are.         *)
LEMMA KeepsRecords ==
    ASSUME LockInv, RecordInv, NEW t \in Threads, UNCHANGED <<tracker, hand>>,
           OthersKeep(t), Reads(t)', DOMAIN seen' = Threads
    PROVE  RecordInv'
<1>1. UNCHANGED <<alloc_count, allocs, alloc_pool, alloc_batch, hand>>
  BY DEF tracker
<1>2. \A u \in Threads : Reads(u)'
  BY <1>1, OthersRead
<1>3. Tracked'
  BY <1>1 DEF RecordInv, Tracked
<1>4. InList' = InList /\ InPool' = InPool /\ InHands' = InHands /\ Given' = Given
  BY <1>1 DEF InList, InPool, InHands, Given
<1>5. Once'
  BY <1>1, <1>4 DEF RecordInv, Once
<1>. QED BY <1>2, <1>3, <1>5 DEF RecordInv

(* A step outside of the sections, or out of one where nothing is written.  *)
LEMMA PassesRecords ==
    ASSUME LockInv, RecordInv, NEW t \in Threads, NEW to,
           UNCHANGED <<tracker, hand, seen>>, pc' = [pc EXCEPT ![t] = to],
           pc[t] \notin {"list", "link"}, to \notin {"take", "list", "link", "unlink"}
    PROVE  RecordInv'
<1>1. pc'[t] = to /\ \A u \in Threads \ {t} : pc'[u] = pc[u]
  BY DEF LockInv
<1>2. OthersKeep(t)
  BY <1>1 DEF OthersKeep
<1>3. Reads(t)'
  BY <1>1 DEF RecordInv, Reads
<1>4. DOMAIN seen' = Threads
  BY DEF RecordInv, Tracked
<1>. QED BY <1>2, <1>3, <1>4, KeepsRecords

(* A step that touches none of this.                                        *)
LEMMA RestsRecords ==
    ASSUME LockInv, RecordInv, UNCHANGED <<tracker, hand, seen, pc>>
    PROVE  RecordInv'
<1>1. UNCHANGED <<alloc_count, allocs, alloc_pool, alloc_batch, hand, seen, pc>>
  BY DEF tracker
<1>2. \A u \in Threads : Reads(u)'
  BY <1>1 DEF RecordInv, Reads
<1>3. Tracked'
  BY <1>1 DEF RecordInv, Tracked
<1>4. InList' = InList /\ InPool' = InPool /\ InHands' = InHands /\ Given' = Given
  BY <1>1 DEF InList, InPool, InHands, Given
<1>5. Once'
  BY <1>1, <1>4 DEF RecordInv, Once
<1>. QED BY <1>2, <1>3, <1>5 DEF RecordInv

(* The start of a section: the pool or the list is read.                    *)
LEMMA ReadsRecords ==
    ASSUME LockInv, RecordInv, NEW t \in Threads, poolRead(t) \/ listRead(t) \/ findRead(t)
    PROVE  RecordInv'
<1>1. PICK to, what :
        /\ pc' = [pc EXCEPT ![t] = to] /\ seen' = [seen EXCEPT ![t] = what]
        /\ \/ pc[t] = "pool" /\ to = "take" /\ what = alloc_pool
           \/ pc[t] = "list" /\ to = "link" /\ what = allocs
           \/ pc[t] = "find" /\ to = "unlink" /\ what = allocs
  BY DEF poolRead, listRead, findRead, Goes
<1>2. UNCHANGED <<tracker, hand>>
  BY DEF poolRead, listRead, findRead
<1>3. /\ pc'[t] = to /\ seen'[t] = what
      /\ \A u \in Threads \ {t} : pc'[u] = pc[u] /\ seen'[u] = seen[u]
  BY <1>1 DEF LockInv, RecordInv, Tracked
<1>4. OthersKeep(t)
  BY <1>2, <1>3 DEF OthersKeep
<1>5. Reads(t)'
  BY <1>1, <1>2, <1>3 DEF RecordInv, Reads, tracker
<1>6. DOMAIN seen' = Threads
  BY <1>1 DEF RecordInv, Tracked
<1>. QED BY <1>2, <1>4, <1>5, <1>6, KeepsRecords

(* The other lemmas' facts about the state before the step.                 *)
LEMMA RecordFacts ==
    ASSUME RecordInv
    PROVE  /\ hand \in [Threads -> Pairs] /\ OneHand /\ OnePooled /\ OneListed
           /\ alloc_pool \in Seq(Pairs) /\ allocs \in Seq(Entries) /\ DOMAIN seen = Threads
BY DEF RecordInv, Tracked, Once, OneHand, OnePooled, OneListed

(* The records of the batches are not NoRecord.                             *)
LEMMA GivenIs ==
    ASSUME alloc_batch \in Nat \X (1..BatchSize)
    PROVE  Given \subseteq Pairs /\ NoRecord \notin Given
<1>1. BatchSize \in Nat
  BY ConstantsAssumption
<1>. QED BY <1>1 DEF Given, Pairs, NoRecord

(* The end of the first section: a record of the pool or of a batch is in   *)
(* the hand of the thread (lines 168-185).                                  *)
LEMMA TakesRecord ==
    ASSUME LockInv, RecordInv, NEW t \in Threads, poolTake(t)
    PROVE  RecordInv'
<1>1. /\ pc[t] = "take" /\ pc' = [pc EXCEPT ![t] = "list"]
      /\ seen' = [seen EXCEPT ![t] = <<>>] /\ UNCHANGED <<alloc_count, allocs>>
  BY DEF poolTake, Goes
<1>2. seen[t] = alloc_pool /\ hand[t] = NoRecord /\ InSection(t)
  BY <1>1 DEF RecordInv, Reads, InSection
<1>3. /\ pc'[t] = "list"
      /\ \A u \in Threads \ {t} : pc'[u] = pc[u] /\ seen'[u] = seen[u]
  BY <1>1 DEF LockInv, RecordInv, Tracked
<1>4. DOMAIN seen' = Threads
  BY <1>1 DEF RecordInv, Tracked
<1>5. InList' = InList
  BY <1>1 DEF InList
<1>6. alloc_batch \in Nat \X (1..BatchSize) /\ Given \subseteq Pairs /\ NoRecord \notin Given
  BY GivenIs DEF RecordInv, Tracked
<1>7. ASSUME NEW r \in Pairs, r # NoRecord, r \notin InHands, hand' = [hand EXCEPT ![t] = r]
      PROVE  /\ hand' \in [Threads -> Pairs] /\ OneHand' /\ InHands' = InHands \union {r}
             /\ \A u \in Threads : Reads(u)'
  <2>1. hand' \in [Threads -> Pairs] /\ OneHand' /\ InHands' = InHands \union {r}
    BY <1>2, <1>7, RecordFacts, HandTakes
  <2>2. hand'[t] = r /\ \A u \in Threads \ {t} : hand'[u] = hand[u]
    BY <1>7, RecordFacts
  <2>3. OthersKeep(t)
    BY <1>3, <2>2 DEF OthersKeep
  <2>4. Reads(t)'
    BY <1>3, <1>7, <2>2 DEF Reads
  <2>. QED BY <2>1, <2>3, <2>4, <1>2, OthersRead
<1>8. CASE alloc_pool # <<>>
  <2> DEFINE r == Head(alloc_pool)
  <2>1. hand' = [hand EXCEPT ![t] = r] /\ alloc_pool' = Tail(alloc_pool) /\ UNCHANGED alloc_batch
    BY <1>2, <1>8 DEF poolTake
  <2>2. /\ alloc_pool' \in Seq(Pairs) /\ OnePooled'
        /\ r \in InPool /\ r \in Pairs /\ InPool' = InPool \ {r}
    BY <2>1, <1>8, RecordFacts, PoolTakes
  <2> HIDE DEF r
  <2>3. r # NoRecord /\ r \notin InHands /\ r \notin InList
    BY <2>2, <1>6 DEF RecordInv, Once
  <2>4. /\ hand' \in [Threads -> Pairs] /\ OneHand' /\ InHands' = InHands \union {r}
        /\ \A u \in Threads : Reads(u)'
    BY <2>1, <2>2, <2>3, <1>7
  <2>5. Tracked'
    BY <2>1, <2>2, <2>4, <1>1, <1>4 DEF RecordInv, Tracked
  <2>6. Given' = Given
    BY <2>1 DEF Given
  <2>7. Once'
    BY <2>2, <2>3, <2>4, <2>6, <1>1, <1>5 DEF RecordInv, Once, OneHand, OnePooled
  <2>. QED BY <2>4, <2>5, <2>7 DEF RecordInv
<1>9. CASE alloc_pool = <<>>
  <2> DEFINE r == FreshRecord(alloc_batch)
  <2>1. hand' = [hand EXCEPT ![t] = r] /\ alloc_batch' = r /\ UNCHANGED alloc_pool
    BY <1>2, <1>9 DEF poolTake
  <2>2. /\ r \in Nat \X (1..BatchSize) /\ r[1] # 0
        /\ r \notin Given /\ Given' = Given \union {r}
    <3>1. alloc_batch[1] = 0 => alloc_batch[2] = BatchSize
      BY DEF RecordInv, Tracked
    <3>2. Given' = {x \in (1..r[1]) \X (1..BatchSize) : x[1] < r[1] \/ x[2] <= r[2]}
      BY <2>1 DEF Given
    <3>3. Given = {x \in (1..alloc_batch[1]) \X (1..BatchSize) :
                     x[1] < alloc_batch[1] \/ x[2] <= alloc_batch[2]}
      BY DEF Given
    <3>4. r = FreshRecord(alloc_batch)
      OBVIOUS
    <3> HIDE DEF r
    <3>. QED BY <3>1, <3>2, <3>3, <3>4, <1>6, FreshIs
  <2> HIDE DEF r
  <2>3. r \in Pairs /\ r # NoRecord
    <3>1. BatchSize \in Nat
      BY ConstantsAssumption
    <3>. QED BY <2>2, <3>1 DEF Pairs, NoRecord
  <2>4. r \notin InHands /\ r \notin InList /\ r \notin InPool
    BY <2>2 DEF RecordInv, Once
  <2>5. /\ hand' \in [Threads -> Pairs] /\ OneHand' /\ InHands' = InHands \union {r}
        /\ \A u \in Threads : Reads(u)'
    BY <2>1, <2>3, <2>4, <1>7
  <2>6. Tracked'
    BY <2>1, <2>2, <2>5, <1>1, <1>4 DEF RecordInv, Tracked
  <2>7. InPool' = InPool
    BY <2>1 DEF InPool
  <2>8. Once'
    BY <2>1, <2>2, <2>4, <2>5, <2>7, <1>1, <1>5 DEF RecordInv, Once, OneHand
  <2>. QED BY <2>5, <2>6, <2>8 DEF RecordInv
<1>. QED BY <1>8, <1>9

(* The end of the second section: the record is in the list (lines 194-200).*)
LEMMA LinksRecord ==
    ASSUME LockInv, HoldInv, RecordInv, NEW t \in Threads, listLink(t)
    PROVE  RecordInv'
<1> DEFINE e == [rec |-> hand[t], mem |-> res[t], internal |-> res[t] \in libc]
           r == hand[t]
<1>1. /\ pc[t] = "link" /\ pc' = [pc EXCEPT ![t] = "return"]
      /\ seen' = [seen EXCEPT ![t] = <<>>] /\ UNCHANGED <<alloc_pool, alloc_batch>>
      /\ alloc_count' = alloc_count + 1 /\ hand' = [hand EXCEPT ![t] = NoRecord]
      /\ allocs' = Linked(e, seen[t])
  BY DEF listLink, Goes
<1>2. seen[t] = allocs /\ r # NoRecord /\ r \in Pairs /\ InSection(t)
  BY <1>1, RecordFacts DEF RecordInv, Reads, InSection
<1>3. res[t] \in Addresses
  BY <1>1 DEF HoldInv, Pointers, Stack, Recording
<1>4. e \in Entries /\ e.rec = r
  BY <1>2, <1>3 DEF Entries
<1> HIDE DEF e, r
<1>5. /\ hand' \in [Threads -> Pairs] /\ OneHand'
      /\ InHands' = InHands \ {r} /\ r \in InHands
  BY <1>1, <1>2, RecordFacts, HandGives DEF r
<1>6. r \notin InList /\ r \notin InPool
  BY <1>5 DEF RecordInv, Once
<1>7. /\ allocs' \in Seq(Entries) /\ OneListed'
      /\ Len(allocs) \in Nat /\ Len(allocs') = Len(allocs) + 1
      /\ InList' = InList \union {r}
  <2>1. allocs' = Linked(e, allocs) /\ e.rec \notin InList
    BY <1>1, <1>2, <1>4, <1>6
  <2>2. /\ allocs' \in Seq(Entries) /\ OneListed'
        /\ Len(allocs) \in Nat /\ Len(allocs') = Len(allocs) + 1
        /\ InList' = InList \union {e.rec}
    BY <2>1, <1>4, RecordFacts, ListGets
  <2>. QED BY <2>2, <1>4
<1>8. InPool' = InPool /\ Given' = Given
  BY <1>1 DEF InPool, Given
<1>9. Once'
  BY <1>1, <1>5, <1>6, <1>7, <1>8 DEF RecordInv, Once, OneHand, OneListed
<1>10. DOMAIN seen' = Threads
  BY <1>1 DEF RecordInv, Tracked
<1>11. alloc_count' = Len(allocs')
  BY <1>1, <1>7 DEF RecordInv, Tracked
<1>12. Tracked'
  BY <1>1, <1>5, <1>7, <1>10, <1>11 DEF RecordInv, Tracked
<1>13. /\ pc'[t] = "return" /\ hand'[t] = NoRecord
       /\ \A u \in Threads \ {t} : pc'[u] = pc[u] /\ seen'[u] = seen[u] /\ hand'[u] = hand[u]
  BY <1>1, RecordFacts DEF LockInv
<1>14. OthersKeep(t) /\ Reads(t)'
  BY <1>13 DEF OthersKeep, Reads
<1>15. \A u \in Threads : Reads(u)'
  BY <1>2, <1>14, OthersRead
<1>. QED BY <1>9, <1>12, <1>15 DEF RecordInv

(* The section of alloc_free(): the record goes from the list to the pool   *)
(* (lines 212-226).                                                         *)
LEMMA UnlinksRecord ==
    ASSUME LockInv, RecordInv, NEW t \in Threads, unlink(t)
    PROVE  RecordInv'
<1>1. pc[t] = "unlink" /\ Returned(t) /\ seen' = [seen EXCEPT ![t] = <<>>]
      /\ UNCHANGED <<alloc_batch, hand>> /\ alloc_count' = alloc_count - 1
  BY DEF unlink, CountFreed
<1>2. seen[t] = allocs /\ hand[t] = NoRecord /\ InSection(t)
  BY <1>1 DEF RecordInv, Reads, InSection
<1>3. PICK i \in Places(allocs, ptr[t]) :
        allocs' = Unlinked(allocs, i) /\ alloc_pool' = <<allocs[i].rec>> \o alloc_pool
  BY <1>2 DEF unlink
<1>4. i \in 1..Len(allocs)
  BY DEF Places
<1>5. PICK r : r = allocs[i].rec
  OBVIOUS
<1>6. /\ allocs' \in Seq(Entries) /\ OneListed'
      /\ Len(allocs) \in Nat /\ Len(allocs') = Len(allocs) - 1
      /\ r \in InList /\ InList' = InList \ {r}
  BY <1>3, <1>4, <1>5, RecordFacts, ListLoses
<1>7. r \in Pairs
  <2>1. allocs[i] \in Entries
    BY <1>4, RecordFacts, ElementOfSeq
  <2>. QED BY <2>1, <1>5 DEF Entries
<1>8. r \notin InPool /\ r \notin InHands
  BY <1>6 DEF RecordInv, Once
<1>9. /\ alloc_pool' \in Seq(Pairs) /\ OnePooled'
      /\ InPool' = InPool \union {r}
  BY <1>3, <1>5, <1>7, <1>8, RecordFacts, PoolGets
<1>10. InHands' = InHands /\ Given' = Given
  BY <1>1 DEF InHands, Given
<1>11. Once'
  BY <1>1, <1>6, <1>8, <1>9, <1>10 DEF RecordInv, Once, OnePooled, OneListed
<1>12. DOMAIN seen' = Threads
  BY <1>1 DEF RecordInv, Tracked
<1>13. alloc_count' = Len(allocs')
  BY <1>1, <1>6 DEF RecordInv, Tracked
<1>14. Tracked'
  BY <1>1, <1>6, <1>9, <1>12, <1>13 DEF RecordInv, Tracked
<1>15. pc' = [pc EXCEPT ![t] = then[t]] /\ then[t] \in Continuations
  BY <1>1, ReturnedContinues
<1>16. /\ pc'[t] = then[t]
       /\ \A u \in Threads \ {t} : pc'[u] = pc[u] /\ seen'[u] = seen[u]
  BY <1>1, <1>15, RecordFacts DEF LockInv
<1>17. OthersKeep(t) /\ Reads(t)'
  BY <1>1, <1>2, <1>15, <1>16 DEF OthersKeep, Reads, Continuations
<1>18. \A u \in Threads : Reads(u)'
  BY <1>2, <1>17, OthersRead
<1>. QED BY <1>11, <1>14, <1>18 DEF RecordInv

(* Every step keeps every record in its place.                              *)
LEMMA RecordStep ==
    ASSUME LockInv, HoldInv, RecordInv, NEW t \in Threads, Acts(t)
    PROVE  RecordInv'
<1> DEFINE Same == UNCHANGED <<tracker, hand, seen>>
           To(to) == /\ pc' = [pc EXCEPT ![t] = to] /\ pc[t] \notin {"list", "link"}
                     /\ to \notin {"take", "list", "link", "unlink"}
<1>1. CASE poolTake(t)
  BY <1>1, TakesRecord
<1>2. CASE listLink(t)
  BY <1>2, LinksRecord
<1>3. CASE unlink(t)
  BY <1>3, UnlinksRecord
<1>4. CASE poolRead(t) \/ listRead(t) \/ findRead(t)
  BY <1>4, ReadsRecords
<1>5. CASE static_malloc(t) \/ noStatic(t) \/ noBatch(t) \/ badMemory(t) \/ getline(t)
  <2>1. UNCHANGED <<tracker, hand, seen, pc>>
    BY <1>5 DEF static_malloc, noStatic, noBatch, badMemory, getline, locals
  <2>. QED BY <2>1, RestsRecords
<1>6. CASE exitAllocates(t)
  <2>1. is_exit_done
    BY <1>6 DEF LockInv, exitAllocates
  <2>2. UNCHANGED <<tracker, hand, seen, pc>>
    BY <1>6, <2>1 DEF exitAllocates, locals
  <2>. QED BY <2>2, RestsRecords
<1>7. CASE \/ Touch(t) \/ heaph_init(t) \/ countRead(t) \/ countReturn(t) \/ exit(t)
           \/ exitRead(t) \/ exitReport(t) \/ exitQuiet(t)
  <2>1. Same
    BY <1>7 DEF Touch, heaph_init, countRead, countReturn, exit, exitRead, exitReport, exitQuiet,
                locals
  <2>2. \E to \in {"init", "idle", "counted", "exit", "walk"} : To(to)
    BY <1>7 DEF Touch, heaph_init, countRead, countReturn, exit, exitRead, exitReport, exitQuiet,
                Starts, Goes
  <2>. QED BY <2>1, <2>2, PassesRecords
<1>8. CASE traceStart(t) \/ return(t) \/ default_free(t)
  <2>1. Same
    BY <1>8 DEF traceStart, return, default_free, locals
  <2>2. \E to \in {"return", "pool", "idle"} : To(to)
    BY <1>8 DEF traceStart, return, default_free, Goes
  <2>. QED BY <2>1, <2>2, PassesRecords
<1>9. CASE untraceStart(t)
  <2>1. Same
    BY <1>9 DEF untraceStart, Returned
  <2>2. CASE is_exit_done
    <3>1. Returned(t) /\ pc[t] = "untrace"
      BY <1>9, <2>2 DEF untraceStart
    <3>2. pc' = [pc EXCEPT ![t] = then[t]] /\ then[t] \in Continuations
      BY <3>1, ReturnedContinues
    <3>3. To(then[t])
      BY <3>1, <3>2 DEF Continuations
    <3>. QED BY <2>1, <3>3, PassesRecords
  <2>3. CASE ~is_exit_done
    <3>1. To("find")
      BY <1>9, <2>3 DEF untraceStart, Goes
    <3>. QED BY <2>1, <3>1, PassesRecords
  <2>. QED BY <2>2, <2>3
<1>10. ASSUME NEW by, Allocate(t, by) PROVE RecordInv'
  <2>1. Same /\ To("trace")
    BY <1>10 DEF Allocate, Starts, Goes
  <2>. QED BY <2>1, PassesRecords
<1>11. CASE strdup(t) /\ is_exit_done
  <2>1. UNCHANGED <<tracker, hand, seen, pc>>
    BY <1>11 DEF strdup, locals
  <2>. QED BY <2>1, RestsRecords
<1>12. CASE malloc(t) \/ calloc(t) \/ puts(t) \/ (strdup(t) /\ ~is_exit_done)
  BY <1>12, <1>10 DEF malloc, calloc, puts, strdup
<1>13. CASE free(t) \/ fclose(t) \/ reallocMoves(t) \/ reallocFrees(t) \/ reallocFails(t)
  <2>1. Same /\ To("untrace")
    BY <1>13 DEF free, fclose, reallocMoves, reallocFrees, reallocFails, Realloc, Starts, Goes
  <2>. QED BY <2>1, PassesRecords
<1>. QED BY <1>1, <1>2, <1>3, <1>4, <1>5, <1>6, <1>7, <1>8, <1>9, <1>11, <1>12, <1>13
         DEF Acts, Call, Step

(* At first there are no records.                                           *)
LEMMA RecordInit == Init => RecordInv
<1> SUFFICES ASSUME Init PROVE RecordInv
  OBVIOUS
<1>1. alloc_batch = <<0, BatchSize>> /\ BatchSize \in 1..BatchSize
  BY ConstantsAssumption DEF Init
<1>2. /\ alloc_pool = <<>> /\ allocs = <<>> /\ alloc_count = 0 /\ DOMAIN seen = Threads
      /\ hand = [t \in Threads |-> NoRecord] /\ \A t \in Threads : pc[t] = "idle"
  BY DEF Init
<1>3. NoRecord \in Pairs
  BY DEF NoRecord, Pairs
<1>4. Tracked
  <2>1. /\ alloc_pool \in Seq(Pairs) /\ allocs \in Seq(Entries)
        /\ hand \in [Threads -> Pairs] /\ alloc_count = Len(allocs)
    BY <1>2, <1>3
  <2>2. alloc_batch \in Nat \X (1..BatchSize) /\ alloc_batch[2] = BatchSize
    BY <1>1
  <2>. QED BY <2>1, <2>2, <1>2 DEF Tracked
<1>5. Given = {}
  BY <1>1 DEF Given
<1>6. InList = {} /\ InPool = {} /\ InHands = {}
  BY <1>2 DEF InList, InPool, InHands
<1>7. Once
  BY <1>2, <1>5, <1>6 DEF Once
<1>8. \A t \in Threads : Reads(t)
  BY <1>2 DEF Reads
<1>. QED BY <1>4, <1>7, <1>8 DEF RecordInv

(* So does a step that is none. *)
LEMMA RecordNext == LockInv /\ HoldInv /\ RecordInv /\ [Next]_vars => RecordInv'
<1> SUFFICES ASSUME LockInv, HoldInv, RecordInv, [Next]_vars PROVE RecordInv'
  OBVIOUS
<1>1. CASE UNCHANGED vars
  <2>1. UNCHANGED <<tracker, hand, seen, pc>>
    BY <1>1 DEF vars, locals
  <2>. QED BY <2>1, RestsRecords
<1>2. ASSUME NEW t \in Threads, Acts(t) PROVE RecordInv'
  BY <1>2, RecordStep
<1>. QED BY <1>1, <1>2, NextActs

----
(* The start of the library *)

(* One thread initialises it, once, and the static allocator is not used    *)
(* up.                                                                      *)
Starting ==
    /\ static_used \in 0..StaticSize - 1
    /\ \A t \in Threads : pc[t] = "init" => init_lock /\ ~is_init_done
    /\ \A t, u \in Threads : pc[t] = "init" /\ pc[u] = "init" => t = u

(* A step that has nothing to do with it.                                   *)
LEMMA NotStarting ==
    ASSUME LockInv, Starting, NEW t \in Threads, NEW to, to # "init", pc[t] # "init",
           pc' = [pc EXCEPT ![t] = to] \/ pc' = pc,
           UNCHANGED <<static_used, init_lock, is_init_done>>
    PROVE  Starting'
<1>1. \A u \in Threads : pc'[u] = "init" <=> pc[u] = "init"
  BY DEF LockInv
<1>. QED BY <1>1 DEF Starting

(* The thread that takes init_lock is the one that initialises the library. *)
LEMMA StartingStep ==
    ASSUME LockInv, Starting, NEW t \in Threads, Acts(t)
    PROVE  Starting'
<1> DEFINE Same == UNCHANGED <<static_used, init_lock, is_init_done>> /\ pc[t] # "init"
           To(to) == to # "init" /\ (pc' = [pc EXCEPT ![t] = to] \/ pc' = pc)
<1>1. CASE Touch(t)
  <2>1. /\ ~init_lock /\ init_lock' = TRUE /\ ~is_init_done
        /\ UNCHANGED <<is_init_done, static_used>> /\ pc' = [pc EXCEPT ![t] = "init"]
    BY <1>1 DEF Touch, Goes
  <2>2. \A u \in Threads : pc[u] # "init"
    BY <2>1 DEF Starting
  <2>3. \A u \in Threads : pc'[u] = "init" => u = t
    BY <2>1, <2>2 DEF LockInv
  <2>. QED BY <2>1, <2>3 DEF Starting
<1>2. CASE static_malloc(t)
  <2>1. UNCHANGED <<pc, init_lock, is_init_done>>
    BY <1>2 DEF static_malloc
  <2>2. static_used' \in 0..StaticSize - 1
    BY <1>2, ConstantsAssumption DEF static_malloc, Starting
  <2>. QED BY <2>1, <2>2 DEF Starting
<1>3. CASE heaph_init(t)
  <2>1. pc[t] = "init" /\ pc' = [pc EXCEPT ![t] = "idle"] /\ UNCHANGED static_used
    BY <1>3 DEF heaph_init, Goes
  <2>2. \A u \in Threads : pc'[u] # "init"
    BY <2>1 DEF LockInv, Starting
  <2>. QED BY <2>1, <2>2 DEF Starting
<1>4. CASE \/ countRead(t) \/ countReturn(t) \/ exit(t) \/ exitRead(t) \/ exitReport(t)
           \/ exitQuiet(t) \/ exitAllocates(t) \/ badMemory(t) \/ noBatch(t)
  <2>1. Same
    BY <1>4 DEF countRead, countReturn, exit, exitRead, exitReport, exitQuiet, exitAllocates,
                badMemory, noBatch, Starts, startup
  <2>2. \E to \in {"idle", "counted", "exit", "walk", "spin"} : To(to)
    BY <1>4 DEF countRead, countReturn, exit, exitRead, exitReport, exitQuiet, exitAllocates,
                badMemory, noBatch, Goes
  <2>. QED BY <2>1, <2>2, NotStarting
<1>5. CASE \/ traceStart(t) \/ poolRead(t) \/ poolTake(t) \/ listRead(t) \/ listLink(t)
           \/ return(t) \/ default_free(t) \/ findRead(t)
  <2>1. Same
    BY <1>5 DEF traceStart, poolRead, poolTake, listRead, listLink, return, default_free,
                findRead, startup
  <2>2. \E to \in {"return", "pool", "take", "list", "link", "idle", "unlink"} : To(to)
    BY <1>5 DEF traceStart, poolRead, poolTake, listRead, listLink, return, default_free,
                findRead, Goes
  <2>. QED BY <2>1, <2>2, NotStarting
<1>6. CASE unlink(t) \/ untraceStart(t)
  <2>1. Same
    BY <1>6 DEF unlink, untraceStart, startup
  <2>2. CASE Returned(t)
    <3>1. pc' = [pc EXCEPT ![t] = then[t]] /\ then[t] \in Continuations
      BY <2>2, ReturnedContinues
    <3>2. To(then[t])
      BY <3>1 DEF Continuations
    <3>. QED BY <2>1, <3>2, NotStarting
  <2>3. CASE ~Returned(t)
    <3>1. To("find")
      BY <1>6, <2>3 DEF unlink, untraceStart, Goes
    <3>. QED BY <2>1, <3>1, NotStarting
  <2>. QED BY <2>2, <2>3
<1>7. CASE Call(t)
  <2>1. Same
    BY <1>7 DEF Call, malloc, calloc, puts, strdup, Allocate, free, fclose, getline, reallocMoves,
                reallocFrees, reallocFails, Realloc, Starts, startup
  <2>2. \E to \in {"trace", "untrace"} : To(to)
    BY <1>7 DEF Call, malloc, calloc, puts, strdup, Allocate, free, fclose, getline, reallocMoves,
                reallocFrees, reallocFails, Realloc, Starts, Goes
  <2>. QED BY <2>1, <2>2, NotStarting
<1>8. CASE noStatic(t)
  <2>1. UNCHANGED <<static_used, init_lock, is_init_done, pc>>
    BY <1>8 DEF noStatic, startup
  <2>. QED BY <2>1 DEF Starting
<1>. QED BY <1>1, <1>2, <1>3, <1>4, <1>5, <1>6, <1>7, <1>8 DEF Acts, Step

(* At first nobody initialises it. *)
LEMMA StartingInit == Init => Starting
BY ConstantsAssumption DEF Init, Starting

(* And no step makes two threads do it. *)
LEMMA StartingNext == LockInv /\ Starting /\ [Next]_vars => Starting'
<1> SUFFICES ASSUME LockInv, Starting, [Next]_vars PROVE Starting'
  OBVIOUS
<1>1. CASE UNCHANGED vars
  <2>1. UNCHANGED <<static_used, init_lock, is_init_done, pc>>
    BY <1>1 DEF vars, startup
  <2>. QED BY <2>1 DEF Starting
<1>2. ASSUME NEW t \in Threads, Acts(t) PROVE Starting'
  BY <1>2, StartingStep
<1>. QED BY <1>1, <1>2, NextActs

----
(* What the runs check of the records *)

(* Everything that has been shown so far.                                   *)
LibraryInv == LockInv /\ HoldInv /\ RecordInv /\ Starting

(* The shape of the state follows. *)
LEMMA LibraryTypes == LibraryInv => TypeOK
<1> SUFFICES ASSUME LibraryInv PROVE TypeOK
  OBVIOUS
<1>1. LockInv /\ HoldInv /\ RecordInv /\ Starting
  BY DEF LibraryInv
<1>2. /\ running \subseteq Threads
      /\ owned \subseteq heap /\ heap \subseteq Addresses /\ libc \subseteq heap \ owned
      /\ buffers \subseteq heap \ (owned \union libc) /\ stdout_buffer \in libc \union {NoAddress}
  BY <1>1 DEF LockInv, HoldInv, Blocks, Streams
<1>3. static_used \in 0..StaticSize
  BY <1>1, ConstantsAssumption DEF Starting
<1>4. alloc_batch \in Nat \X (1..BatchSize)
  BY <1>1 DEF RecordInv, Tracked
<1>5. InList \subseteq Given /\ InPool \subseteq Given /\ InHands \subseteq Given
  BY <1>1 DEF RecordInv, Once
<1>6. alloc_pool \in Seq(Given)
  <2>1. alloc_pool \in Seq(Pairs) /\ Len(alloc_pool) \in Nat
    BY <1>1, RecordFacts, LenProperties
  <2>2. \A j \in 1..Len(alloc_pool) : alloc_pool[j] \in Given
    BY <1>5 DEF InPool
  <2>3. alloc_pool = [j \in 1..Len(alloc_pool) |-> alloc_pool[j]]
    BY <2>1, LenProperties
  <2>. QED BY <2>1, <2>2, <2>3, IsASeq
<1>7. \A i \in 1..Len(allocs) : allocs[i].rec \in Given /\ allocs[i].mem \in Addresses
  <2> TAKE i \in 1..Len(allocs)
  <2>1. allocs[i] \in Entries
    BY <1>1, RecordFacts, ElementOfSeq
  <2>2. allocs[i].rec \in InList
    BY DEF InList
  <2>. QED BY <2>1, <2>2, <1>5 DEF Entries
<1>8. ptr \in [Threads -> Addresses \union {NoAddress}] /\ res \in [Threads -> Addresses \union {NoAddress}]
  BY <1>1 DEF HoldInv, Pointers
<1>9. hand \in [Threads -> Given \union {NoRecord}]
  <2>1. hand \in [Threads -> Pairs]
    BY <1>1, RecordFacts
  <2>2. \A t \in Threads : hand[t] \in Given \union {NoRecord}
    BY <1>5 DEF InHands
  <2>. QED BY <2>1, <2>2
<1>. QED BY <1>2, <1>3, <1>4, <1>6, <1>7, <1>8, <1>9 DEF TypeOK

(* Of three sets one has one element and the others have none.              *)
OneFull(A, B, C) ==
    \/ (\E x : A = {x}) /\ B = {} /\ C = {}
    \/ A = {} /\ (\E x : B = {x}) /\ C = {}
    \/ A = {} /\ B = {} /\ \E x : C = {x}

(* Together they have one.                                                  *)
LEMMA OneOfThree ==
    ASSUME NEW A, NEW B, NEW C, OneFull(A, B, C)
    PROVE  Cardinality(A) + Cardinality(B) + Cardinality(C) = 1
<1>1. Cardinality({}) = 0 /\ \A x : Cardinality({x}) = 1
  BY FS_EmptySet, FS_Singleton
<1>2. \/ Cardinality(A) = 1 /\ Cardinality(B) = 0 /\ Cardinality(C) = 0
      \/ Cardinality(A) = 0 /\ Cardinality(B) = 1 /\ Cardinality(C) = 0
      \/ Cardinality(A) = 0 /\ Cardinality(B) = 0 /\ Cardinality(C) = 1
  BY <1>1 DEF OneFull
<1>. QED BY <1>2

(* And so does it that every record is in one place. *)
LEMMA LibraryRecords == LibraryInv => RecordsConserved
<1> SUFFICES ASSUME LibraryInv PROVE RecordsConserved
  OBVIOUS
<1>1. RecordInv /\ Once
  BY DEF LibraryInv, RecordInv
<1>2. alloc_count = Len(allocs)
  BY <1>1 DEF RecordInv, Tracked
<1>3. ASSUME NEW r \in Given
      PROVE  Cardinality({i \in 1..Len(allocs) : allocs[i].rec = r})
             + Cardinality({i \in 1..Len(alloc_pool) : alloc_pool[i] = r})
             + Cardinality({t \in Threads : r \in InHand(t)}) = 1
  <2> DEFINE A == {i \in 1..Len(allocs) : allocs[i].rec = r}
             B == {i \in 1..Len(alloc_pool) : alloc_pool[i] = r}
             C == {t \in Threads : r \in InHand(t)}
  <2>1. r # NoRecord
    BY <1>1, GivenIs DEF RecordInv, Tracked
  <2>2. C = {t \in Threads : hand[t] = r}
    BY <2>1 DEF InHand
  <2>3. r \notin InList => A = {}
    BY DEF InList
  <2>4. r \notin InPool => B = {}
    BY DEF InPool
  <2>5. r \notin InHands => C = {}
    BY <2>1, <2>2 DEF InHands
  <2>6. r \in InList => \E x : A = {x}
    <3> SUFFICES ASSUME r \in InList PROVE \E x : A = {x}
      OBVIOUS
    <3>1. PICK i \in 1..Len(allocs) : allocs[i].rec = r
      BY DEF InList
    <3>2. \A j \in 1..Len(allocs) : allocs[j].rec = r => j = i
      BY <1>1, <3>1 DEF Once
    <3>3. A = {i}
      BY <3>1, <3>2
    <3>. QED BY <3>3
  <2>7. r \in InPool => \E x : B = {x}
    <3> SUFFICES ASSUME r \in InPool PROVE \E x : B = {x}
      OBVIOUS
    <3>1. PICK i \in 1..Len(alloc_pool) : alloc_pool[i] = r
      BY DEF InPool
    <3>2. \A j \in 1..Len(alloc_pool) : alloc_pool[j] = r => j = i
      BY <1>1, <3>1 DEF Once
    <3>3. B = {i}
      BY <3>1, <3>2
    <3>. QED BY <3>3
  <2>8. r \in InHands => \E x : C = {x}
    <3> SUFFICES ASSUME r \in InHands PROVE \E x : C = {x}
      OBVIOUS
    <3>1. PICK t \in Threads : hand[t] = r
      BY DEF InHands
    <3>2. \A u \in Threads : hand[u] = r => u = t
      BY <1>1, <2>1, <3>1 DEF Once
    <3>3. C = {t}
      BY <2>2, <3>1, <3>2
    <3>. QED BY <3>3
  <2>9. \/ r \in InList /\ r \notin InPool /\ r \notin InHands
        \/ r \notin InList /\ r \in InPool /\ r \notin InHands
        \/ r \notin InList /\ r \notin InPool /\ r \in InHands
    BY <1>1 DEF Once
  <2> HIDE DEF A, B, C
  <2>10. Cardinality(A) + Cardinality(B) + Cardinality(C) = 1
    <3>1. OneFull(A, B, C)
      BY <2>3, <2>4, <2>5, <2>6, <2>7, <2>8, <2>9 DEF OneFull
    <3>. QED BY <3>1, OneOfThree
  <2>. QED BY <2>10 DEF A, B, C
<1>. QED BY <1>2, <1>3, LibraryTypes DEF RecordsConserved

(* All of it holds at first. *)
LEMMA LibraryInit == Init => LibraryInv
BY LockInit, HoldInit, RecordInit, StartingInit DEF LibraryInv

(* And after every step. *)
LEMMA LibraryNext == LibraryInv /\ [Next]_vars => LibraryInv'
BY LockNext, HoldNext, RecordNext, StartingNext DEF LibraryInv

(* For any number of threads, blocks and records: a record that was taken   *)
(* from a batch is once in the list, or once in the pool, or in the hand of *)
(* one thread, never in two of these and never lost, and alloc_count is the *)
(* length of the list (lines 168-200 and 212-226).                          *)
THEOREM RecordsAreConserved == Spec => []RecordsConserved
BY LibraryInit, LibraryNext, LibraryRecords, PTL DEF Spec

----
(* How many records a block has *)

(* Two sets of the same size.                                               *)
LEMMA SameSize ==
    ASSUME NEW S, NEW T, IsFiniteSet(S), NEW f \in [S -> T],
           \A x, y \in S : f[x] = f[y] => x = y, \A y \in T : \E x \in S : f[x] = y
    PROVE  IsFiniteSet(T) /\ Cardinality(T) = Cardinality(S)
<1>1. f \in Bijection(S, T)
  BY Fun_IsBij
<1>. QED BY <1>1, FS_Bijection DEF ExistsBijection

(* The places of a block in a list are finitely many.                       *)
LEMMA PlacesFinite ==
    ASSUME NEW s \in Seq(Entries), NEW p
    PROVE  IsFiniteSet(Places(s, p)) /\ Cardinality(Places(s, p)) \in Nat
<1>1. Len(s) \in Nat
  BY LenProperties
<1>2. IsFiniteSet(1..Len(s))
  BY <1>1, FS_Interval
<1>3. Places(s, p) \in SUBSET (1..Len(s))
  BY DEF Places
<1>. QED BY <1>2, <1>3, FS_Subset, FS_CardinalityType

(* A new entry is one more place of its block.                              *)
LEMMA LinkedCount ==
    ASSUME NEW s \in Seq(Entries), NEW e \in Entries, NEW new, new = Linked(e, s), NEW p
    PROVE  Cardinality(Places(new, p)) =
             Cardinality(Places(s, p)) + IF e.mem = p THEN 1 ELSE 0
<1> DEFINE P == Places(s, p)
           N == Places(new, p) \ {1}
           f == [k \in P |-> k + 1]
<1>1. /\ new \in Seq(Entries) /\ Len(s) \in Nat /\ Len(new) = Len(s) + 1 /\ new[1] = e
      /\ \A k \in 1..Len(s) : new[k + 1] = s[k]
      /\ \A k \in 1..Len(new) : k = 1 \/ (k - 1 \in 1..Len(s) /\ new[k] = s[k - 1])
  <2>1. new = <<e>> \o s
    BY DEF Linked
  <2>. QED BY <2>1, LinkedIs
<1>2. \A k \in P : k \in 1..Len(s) /\ s[k].mem = p
  BY DEF Places
<1>3. \A k \in P : k + 1 \in 1..Len(new) /\ k + 1 # 1 /\ new[k + 1].mem = p
  BY <1>1, <1>2
<1>4. f \in [P -> N]
  BY <1>3 DEF Places
<1>5. \A k, l \in P : f[k] = f[l] => k = l
  BY <1>2
<1>6. ASSUME NEW l \in N PROVE \E k \in P : f[k] = l
  <2>1. l \in 1..Len(new) /\ l # 1 /\ new[l].mem = p
    BY DEF Places
  <2>2. l - 1 \in 1..Len(s) /\ new[l] = s[l - 1]
    BY <2>1, <1>1
  <2>3. l - 1 \in P /\ (l - 1) + 1 = l
    BY <2>1, <2>2 DEF Places
  <2>. QED BY <2>3
<1>7. IsFiniteSet(P) /\ Cardinality(P) \in Nat
  BY PlacesFinite
<1>8. IsFiniteSet(Places(new, p)) /\ Cardinality(Places(new, p)) \in Nat
  BY <1>1, PlacesFinite
<1>9. 1 \in Places(new, p) <=> e.mem = p
  BY <1>1 DEF Places
<1> HIDE DEF P, f
<1>10. Cardinality(N) = Cardinality(P)
  <2> HIDE DEF N
  <2>. QED BY <1>4, <1>5, <1>6, <1>7, SameSize
<1>11. Cardinality(N) = IF 1 \in Places(new, p) THEN Cardinality(Places(new, p)) - 1
                        ELSE Cardinality(Places(new, p))
  BY <1>8, FS_RemoveElement
<1> HIDE DEF N
<1>12. Cardinality(Places(new, p)) = Cardinality(P) + IF e.mem = p THEN 1 ELSE 0
  BY <1>7, <1>8, <1>9, <1>10, <1>11
<1>. QED BY <1>12 DEF P

(* An entry that is gone is one less.                                       *)
LEMMA UnlinkedCount ==
    ASSUME NEW s \in Seq(Entries), NEW i \in 1..Len(s), NEW new, new = Unlinked(s, i), NEW p
    PROVE  Cardinality(Places(new, p)) =
             Cardinality(Places(s, p)) - IF s[i].mem = p THEN 1 ELSE 0
<1> DEFINE P == Places(s, p) \ {i}
           N == Places(new, p)
           f == [k \in N |-> IF k < i THEN k ELSE k + 1]
<1>1. /\ new \in Seq(Entries) /\ Len(s) \in Nat
  BY UnlinkedIs
<1>0. Without(new, s, i)
  BY UnlinkedPlaces
<1>2. /\ \A k \in 1..Len(new) :
           LET old == IF k < i THEN k ELSE k + 1
           IN  old \in 1..Len(s) /\ old # i /\ new[k] = s[old]
      /\ \A k, l \in 1..Len(new) :
           (IF k < i THEN k ELSE k + 1) = (IF l < i THEN l ELSE l + 1) => k = l
      /\ \A m \in 1..Len(s) : m # i =>
           \E k \in 1..Len(new) : m = (IF k < i THEN k ELSE k + 1) /\ new[k] = s[m]
  BY <1>0 DEF Without
<1>3. \A k \in N : k \in 1..Len(new) /\ new[k].mem = p
  BY DEF Places
<1>4. f \in [N -> P]
  BY <1>2, <1>3 DEF Places
<1>5. \A k, l \in N : f[k] = f[l] => k = l
  BY <1>2, <1>3
<1>6. ASSUME NEW m \in P PROVE \E k \in N : f[k] = m
  <2>1. m \in 1..Len(s) /\ m # i /\ s[m].mem = p
    BY DEF Places
  <2>2. PICK k \in 1..Len(new) : m = (IF k < i THEN k ELSE k + 1) /\ new[k] = s[m]
    BY <2>1, <1>2
  <2>3. k \in N
    BY <2>1, <2>2 DEF Places
  <2>. QED BY <2>2, <2>3
<1>7. IsFiniteSet(N) /\ Cardinality(N) \in Nat
  BY <1>1, PlacesFinite
<1>8. IsFiniteSet(Places(s, p)) /\ Cardinality(Places(s, p)) \in Nat
  BY PlacesFinite
<1>9. i \in Places(s, p) <=> s[i].mem = p
  BY DEF Places
<1> HIDE DEF N, f
<1>10. Cardinality(P) = Cardinality(N)
  <2> HIDE DEF P
  <2>. QED BY <1>4, <1>5, <1>6, <1>7, SameSize
<1>11. Cardinality(P) = IF i \in Places(s, p) THEN Cardinality(Places(s, p)) - 1
                        ELSE Cardinality(Places(s, p))
  BY <1>8, FS_RemoveElement
<1> HIDE DEF P
<1>12. Cardinality(N) = Cardinality(Places(s, p)) - IF s[i].mem = p THEN 1 ELSE 0
  BY <1>7, <1>8, <1>9, <1>10, <1>11
<1>. QED BY <1>12 DEF N

(* The calls on a block are finitely many.                                  *)
LEMMA CallsFinite ==
    ASSUME NEW p
    PROVE  /\ IsFiniteSet(Removing(p)) /\ Cardinality(Removing(p)) \in Nat
           /\ IsFiniteSet(Returning(p)) /\ Cardinality(Returning(p)) \in Nat
<1>1. Removing(p) \in SUBSET Threads /\ Returning(p) \in SUBSET Threads
  BY DEF Removing, Returning
<1>. QED BY <1>1, ConstantsAssumption, FS_Subset, FS_CardinalityType

(* The calls that have entered alloc_free() before the exit.                *)
Finding(p) == {t \in Threads : ptr[t] = p /\ pc[t] \in {"find", "unlink"}}

(* They are some of those that are to remove a record. *)
LEMMA FindingFinite ==
    ASSUME NEW p
    PROVE  /\ IsFiniteSet(Finding(p)) /\ Cardinality(Finding(p)) \in Nat
           /\ Cardinality(Finding(p)) <= Cardinality(Removing(p))
<1>1. Finding(p) \in SUBSET Removing(p) /\ Finding(p) \in SUBSET Threads
  BY DEF Finding, Removing
<1>2. IsFiniteSet(Removing(p))
  BY CallsFinite
<1>3. IsFiniteSet(Finding(p)) /\ Cardinality(Finding(p)) <= Cardinality(Removing(p))
  BY <1>1, <1>2, FS_Subset
<1>. QED BY <1>3, FS_CardinalityType

(* A variable with a part for every thread is left alone, or its part for t *)
(* is changed.                                                              *)
Only(f, g, t) == g = f \/ \E v : g = [f EXCEPT ![t] = v]

(* The parts of the others are as they were. *)
LEMMA OnlyKeeps ==
    ASSUME NEW f, NEW g, NEW t \in Threads, DOMAIN f = Threads, Only(f, g, t)
    PROVE  \A u \in Threads \ {t} : g[u] = f[u]
BY DEF Only

(* A step of a thread changes no other one's stack.                         *)
LEMMA ActsAlone ==
    ASSUME LockInv, HoldInv, NEW t \in Threads, Acts(t)
    PROVE  OthersHold(t)
<1> DEFINE Alone == /\ Only(pc, pc', t) /\ Only(ptr, ptr', t) /\ Only(res, res', t)
                    /\ Only(then, then', t) /\ lost \subseteq lost'
<1>1. ASSUME \/ Touch(t) \/ static_malloc(t) \/ heaph_init(t) \/ countRead(t) \/ countReturn(t)
             \/ exit(t) \/ exitRead(t) \/ exitReport(t) \/ exitQuiet(t) \/ exitAllocates(t)
             \/ badMemory(t) \/ noStatic(t) \/ noBatch(t) \/ getline(t)
      PROVE  Alone
  <2>1. Only(ptr, ptr', t) /\ Only(res, res', t) /\ Only(then, then', t) /\ lost \subseteq lost'
    <3>1. UNCHANGED <<ptr, res, then, lost>>
      BY <1>1 DEF Touch, static_malloc, heaph_init, countRead, countReturn, exit, exitRead,
                  exitReport, exitQuiet, exitAllocates, badMemory, noStatic, noBatch, getline,
                  program, locals
    <3>. QED BY <3>1 DEF Only
  <2>2. Only(pc, pc', t)
    BY <1>1 DEF Touch, static_malloc, heaph_init, countRead, countReturn, exit, exitRead,
                exitReport, exitQuiet, exitAllocates, badMemory, noStatic, noBatch, getline, Goes,
                Only
  <2>. QED BY <2>1, <2>2
<1>2. ASSUME \/ traceStart(t) \/ poolRead(t) \/ poolTake(t) \/ listRead(t) \/ listLink(t)
             \/ return(t) \/ default_free(t) \/ findRead(t)
      PROVE  Alone
  <2>1. Only(then, then', t) /\ lost \subseteq lost' /\ Only(ptr, ptr', t) /\ Only(res, res', t)
    BY <1>2 DEF traceStart, poolRead, poolTake, listRead, listLink, return, default_free,
                findRead, program, locals, Only
  <2>2. Only(pc, pc', t)
    BY <1>2 DEF traceStart, poolRead, poolTake, listRead, listLink, return, default_free,
                findRead, Goes, Only
  <2>. QED BY <2>1, <2>2
<1>3. ASSUME unlink(t) \/ untraceStart(t)
      PROVE  Alone
  <2>1. Only(res, res', t) /\ lost \subseteq lost' /\ Only(ptr, ptr', t) /\ Only(then, then', t)
    BY <1>3 DEF unlink, untraceStart, Returned, program, Only
  <2>2. Only(pc, pc', t)
    BY <1>3 DEF unlink, untraceStart, Returned, Goes, Only
  <2>. QED BY <2>1, <2>2
<1>4. ASSUME malloc(t) \/ calloc(t) \/ puts(t) \/ strdup(t)
      PROVE  Alone
  <2>1. Only(ptr, ptr', t) /\ Only(then, then', t) /\ lost \subseteq lost' /\ Only(res, res', t)
    BY <1>4 DEF malloc, calloc, puts, strdup, Allocate, program, locals, Only
  <2>2. Only(pc, pc', t)
    BY <1>4 DEF malloc, calloc, puts, strdup, Allocate, Goes, Only
  <2>. QED BY <2>1, <2>2
<1>5. ASSUME free(t) \/ fclose(t) \/ reallocMoves(t) \/ reallocFrees(t) \/ reallocFails(t)
      PROVE  Alone
  <2>1. lost \subseteq lost' /\ Only(ptr, ptr', t) /\ Only(res, res', t) /\ Only(then, then', t)
    BY <1>5 DEF free, fclose, reallocMoves, reallocFrees, reallocFails, Realloc, Only
  <2>2. Only(pc, pc', t)
    BY <1>5 DEF free, fclose, reallocMoves, reallocFrees, reallocFails, Realloc, Goes, Only
  <2>. QED BY <2>1, <2>2
<1>6. Alone
  <2> HIDE DEF Alone
  <2>. QED BY <1>1, <1>2, <1>3, <1>4, <1>5 DEF Acts, Call, Step
<1>7. DOMAIN pc = Threads /\ DOMAIN ptr = Threads /\ DOMAIN res = Threads /\ DOMAIN then = Threads
  BY DEF LockInv, HoldInv, Pointers
<1>. QED BY <1>6, <1>7, OnlyKeeps DEF OthersHold

----
(* The accounts *)

(* What a thread counts for.                                                *)
Removes(t, p) == ptr[t] = p /\ pc[t] \in Removals
Returns(t, p) == res[t] = p /\ pc[t] = "return"
Finds(t, p) == ptr[t] = p /\ pc[t] \in {"find", "unlink"}

Sum(p) ==
    Cardinality(Removing(p)) + Cardinality(Returning(p)) + IF Settled(p) THEN 1 ELSE 0

Balanced(p) ==
    /\ Cardinality(Places(allocs, p)) <= Sum(p)
    /\ p \notin lost => Cardinality(Places(allocs, p)) = Sum(p)

(* What is searched for can be found.                                       *)
Covered(p) == p \notin lost => Cardinality(Finding(p)) <= Cardinality(Places(allocs, p))

(* Once the program exits nothing is recorded any more, but who looks for a *)
(* record still finds it.                                                   *)
AccountInv ==
    IF is_exit_done THEN \A p \in Addresses : Covered(p) ELSE \A p \in Addresses : Balanced(p)

(* The numbers are numbers.                                                 *)
LEMMA NumbersIs ==
    ASSUME RecordInv, NEW p
    PROVE  /\ Cardinality(Places(allocs, p)) \in Nat
           /\ Cardinality(Removing(p)) \in Nat /\ Cardinality(Returning(p)) \in Nat
           /\ Cardinality(Finding(p)) \in Nat
           /\ Cardinality(Finding(p)) <= Cardinality(Removing(p))
BY RecordFacts, PlacesFinite, CallsFinite, FindingFinite

(* A balanced block is covered. *)
LEMMA BalancedCovers ==
    ASSUME RecordInv, AccountInv, NEW p \in Addresses
    PROVE  Covered(p)
<1>1. CASE is_exit_done
  BY <1>1 DEF AccountInv
<1>2. CASE ~is_exit_done
  <2>1. Balanced(p)
    BY <1>2 DEF AccountInv
  <2>2. p \notin lost => Cardinality(Places(allocs, p)) >= Cardinality(Removing(p))
    BY <2>1, NumbersIs DEF Balanced, Sum
  <2>. QED BY <2>2, NumbersIs DEF Covered
<1>. QED BY <1>1, <1>2

(* Two sets of threads that differ in t at most.                            *)
LEMMA ChangeOne ==
    ASSUME NEW S \in SUBSET Threads, NEW T \in SUBSET Threads, NEW t, S \ {t} = T \ {t}
    PROVE  /\ Cardinality(S) \in Nat /\ Cardinality(T) \in Nat
           /\ Cardinality(T) = (Cardinality(S) - IF t \in S THEN 1 ELSE 0)
                               + IF t \in T THEN 1 ELSE 0
<1>1. IsFiniteSet(S) /\ IsFiniteSet(T)
  BY ConstantsAssumption, FS_Subset
<1>2. Cardinality(S) \in Nat /\ Cardinality(T) \in Nat
  BY <1>1, FS_CardinalityType
<1>3. Cardinality(S \ {t}) = IF t \in S THEN Cardinality(S) - 1 ELSE Cardinality(S)
  BY <1>1, FS_RemoveElement
<1>4. Cardinality(T \ {t}) = IF t \in T THEN Cardinality(T) - 1 ELSE Cardinality(T)
  BY <1>1, FS_RemoveElement
<1>5. Cardinality(S \ {t}) = Cardinality(T \ {t})
  OBVIOUS
<1>6. (IF t \in S THEN Cardinality(S) - 1 ELSE Cardinality(S))
      = (IF t \in T THEN Cardinality(T) - 1 ELSE Cardinality(T))
  BY <1>3, <1>4, <1>5
<1>7. Cardinality(T) = (Cardinality(S) - IF t \in S THEN 1 ELSE 0) + IF t \in T THEN 1 ELSE 0
  BY <1>2, <1>6
<1>. QED BY <1>2, <1>7

(* What a step of t makes of the numbers.                                   *)
LEMMA NumbersChange ==
    ASSUME NEW t \in Threads, OthersHold(t), NEW p
    PROVE  /\ Cardinality(Removing(p)') = (Cardinality(Removing(p)) - IF Removes(t, p) THEN 1 ELSE 0)
                                          + IF Removes(t, p)' THEN 1 ELSE 0
           /\ Cardinality(Returning(p)') = (Cardinality(Returning(p)) - IF Returns(t, p) THEN 1 ELSE 0)
                                           + IF Returns(t, p)' THEN 1 ELSE 0
           /\ Cardinality(Finding(p)') = (Cardinality(Finding(p)) - IF Finds(t, p) THEN 1 ELSE 0)
                                         + IF Finds(t, p)' THEN 1 ELSE 0
<1>1. \A u \in Threads \ {t} : pc'[u] = pc[u] /\ ptr'[u] = ptr[u] /\ res'[u] = res[u]
  BY DEF OthersHold
<1>2. /\ Removing(p) \in SUBSET Threads /\ Removing(p)' \in SUBSET Threads
      /\ Returning(p) \in SUBSET Threads /\ Returning(p)' \in SUBSET Threads
      /\ Finding(p) \in SUBSET Threads /\ Finding(p)' \in SUBSET Threads
  BY DEF Removing, Returning, Finding
<1>3. /\ t \in Removing(p) <=> Removes(t, p)
      /\ t \in Removing(p)' <=> Removes(t, p)'
      /\ Removing(p) \ {t} = Removing(p)' \ {t}
  BY <1>1 DEF Removing, Removes, Removals
<1>4. /\ t \in Returning(p) <=> Returns(t, p)
      /\ t \in Returning(p)' <=> Returns(t, p)'
      /\ Returning(p) \ {t} = Returning(p)' \ {t}
  BY <1>1 DEF Returning, Returns
<1>5. /\ t \in Finding(p) <=> Finds(t, p)
      /\ t \in Finding(p)' <=> Finds(t, p)'
      /\ Finding(p) \ {t} = Finding(p)' \ {t}
  BY <1>1 DEF Finding, Finds
<1>. QED BY <1>2, <1>3, <1>4, <1>5, ChangeOne

(* A step at the exit that starts no search.                                *)
LEMMA AfterExit ==
    ASSUME RecordInv, AccountInv, NEW t \in Threads, OthersHold(t), is_exit_done',
           UNCHANGED allocs, \A p \in Addresses : Finds(t, p)' => Finds(t, p)
    PROVE  AccountInv'
<1>1. ASSUME NEW p \in Addresses, p \notin lost'
      PROVE  Cardinality(Finding(p)') <= Cardinality(Places(allocs', p))
  <2>1. p \notin lost
    BY <1>1 DEF OthersHold
  <2>2. Cardinality(Finding(p)) <= Cardinality(Places(allocs, p))
    BY <2>1, BalancedCovers DEF Covered
  <2>3. Cardinality(Finding(p)') = (Cardinality(Finding(p)) - IF Finds(t, p) THEN 1 ELSE 0)
                                   + IF Finds(t, p)' THEN 1 ELSE 0
    BY NumbersChange
  <2>4. Cardinality(Finding(p)) \in Nat /\ Cardinality(Places(allocs, p)) \in Nat
    BY NumbersIs
  <2>5. allocs' = allocs
    OBVIOUS
  <2>. QED BY <2>2, <2>3, <2>4, <2>5
<1>2. \A p \in Addresses : Covered(p)'
  BY <1>1 DEF Covered
<1>. QED BY <1>2 DEF AccountInv

(* What it takes for a block to be balanced after a step.                   *)
LEMMA BalancedAfter ==
    ASSUME RecordInv, AccountInv, ~is_exit_done, NEW t \in Threads, OthersHold(t),
           NEW p \in Addresses, UNCHANGED allocs,
           (IF Removes(t, p)' THEN 1 ELSE 0) + (IF Returns(t, p)' THEN 1 ELSE 0)
             + (IF Settled(p)' THEN 1 ELSE 0)
           = (IF Removes(t, p) THEN 1 ELSE 0) + (IF Returns(t, p) THEN 1 ELSE 0)
             + (IF Settled(p) THEN 1 ELSE 0)
    PROVE  Balanced(p)'
<1>1. Balanced(p)
  BY DEF AccountInv
<1>2. /\ Cardinality(Removing(p)') = (Cardinality(Removing(p)) - IF Removes(t, p) THEN 1 ELSE 0)
                                     + IF Removes(t, p)' THEN 1 ELSE 0
      /\ Cardinality(Returning(p)') = (Cardinality(Returning(p)) - IF Returns(t, p) THEN 1 ELSE 0)
                                      + IF Returns(t, p)' THEN 1 ELSE 0
  BY NumbersChange
<1>3. /\ Cardinality(Removing(p)) \in Nat /\ Cardinality(Returning(p)) \in Nat
      /\ Cardinality(Places(allocs, p)) \in Nat
  BY NumbersIs
<1>4. Sum(p)' = Cardinality(Removing(p)') + Cardinality(Returning(p)') + IF Settled(p)' THEN 1 ELSE 0
  BY DEF Sum
<1>5. Sum(p)' = Sum(p)
  BY <1>2, <1>3, <1>4 DEF Sum
<1>6. p \notin lost' => p \notin lost
  BY DEF OthersHold
<1>7. allocs' = allocs
  OBVIOUS
<1>. QED BY <1>1, <1>5, <1>6, <1>7 DEF Balanced

(* A step before the exit that changes no account.                          *)
LEMMA SameAccounts ==
    ASSUME RecordInv, AccountInv, ~is_exit_done, ~is_exit_done', NEW t \in Threads,
           OthersHold(t), UNCHANGED allocs,
           \A p \in Addresses : /\ Removes(t, p)' <=> Removes(t, p)
                                /\ Returns(t, p)' <=> Returns(t, p)
                                /\ Settled(p)' <=> Settled(p)
    PROVE  AccountInv'
<1>1. ASSUME NEW p \in Addresses PROVE Balanced(p)'
  BY BalancedAfter
<1>. QED BY <1>1 DEF AccountInv

(* A call gives block q up.                                                 *)
LEMMA GivesUp ==
    ASSUME HoldInv, RecordInv, AccountInv, ~is_exit_done, ~is_exit_done', NEW t \in Threads,
           OthersHold(t), UNCHANGED <<allocs, libc>>, NEW q \in owned, owned' = owned \ {q},
           pc[t] = "idle", pc'[t] = "untrace", ptr'[t] = q,
           res'[t] \in {q, NoAddress} \union (Addresses \ heap)
    PROVE  AccountInv'
<1>1. res[t] = NoAddress /\ ptr[t] = NoAddress
  BY DEF HoldInv, Stack, Recording, Removals
<1>2. \A u \in Threads \ {t} : res'[u] = res[u]
  BY DEF OthersHold
<1>3. q \in heap /\ q \notin libc /\ \A u \in Threads : res[u] # q
  <2>1. q \in heap /\ q \in Addresses /\ q \notin libc /\ q # NoAddress
    BY ConstantsAssumption DEF HoldInv, Blocks
  <2>2. \A u \in Threads : q \notin Claims(u)
    BY DEF HoldInv, Blocks
  <2>. QED BY <2>1, <2>2 DEF Claims, Coming
<1>4. ~Removes(t, q) /\ Removes(t, q)' /\ ~Returns(t, q) /\ ~Returns(t, q)'
  BY DEF Removes, Returns, Removals
<1>5. Settled(q) /\ ~Settled(q)'
  BY <1>3 DEF Settled
<1>6. ASSUME NEW p \in Addresses PROVE Balanced(p)'
  <2>1. CASE p = q
    BY <2>1, <1>4, <1>5, BalancedAfter
  <2>2. CASE p # q
    <3>1. ~Removes(t, p) /\ ~Removes(t, p)' /\ ~Returns(t, p) /\ ~Returns(t, p)'
      BY <2>2 DEF Removes, Returns, Removals
    <3>2. p \in (owned \union libc)' <=> p \in owned \union libc
      BY <2>2
    <3>3. p \in owned \union libc => (res'[t] # p /\ res[t] # p)
      BY <2>2, <1>1, ConstantsAssumption DEF HoldInv, Blocks
    <3>4. Settled(p)' <=> Settled(p)
      BY <3>2, <3>3, <1>2 DEF Settled
    <3>. QED BY <3>1, <3>4, BalancedAfter
  <2>. QED BY <2>1, <2>2
<1>. QED BY <1>6 DEF AccountInv

(* A call returns its block before the exit: what it counted for the block  *)
(* is what its holder counts.                                               *)
LEMMA ReturnAccounts ==
    ASSUME LockInv, HoldInv, RecordInv, AccountInv, ~is_exit_done, NEW t \in Threads, return(t)
    PROVE  AccountInv'
<1>1. /\ pc[t] = "return" /\ pc' = [pc EXCEPT ![t] = "idle"]
      /\ res' = [res EXCEPT ![t] = NoAddress] /\ UNCHANGED <<libc, allocs, is_exit_done>>
  BY DEF return, Goes, tracker, exiting
<1>7. IF res[t] \in libc THEN owned' = owned ELSE owned' = owned \union {res[t]}
  <2>1. res[t] # NoAddress /\ stdout_buffer \in libc \union {NoAddress}
    BY <1>1 DEF HoldInv, Stack, Recording, Blocks, Streams
  <2>. QED BY <2>1 DEF return
<1>2. OthersHold(t)
  BY ActsAlone DEF Acts, Step
<1>3. /\ pc'[t] = "idle" /\ res'[t] = NoAddress
      /\ \A u \in Threads \ {t} : res'[u] = res[u]
  BY <1>1 DEF LockInv, HoldInv, Pointers
<1>4. res[t] # NoAddress /\ ptr[t] = NoAddress /\ res[t] \in Addresses
  BY <1>1 DEF HoldInv, Stack, Recording, Pointers
<1>5. \A u \in Threads \ {t} : res[u] # res[t]
  <2>1. res[t] \in Claims(t)
    BY <1>4 DEF Claims, Coming
  <2>2. \A u \in Threads \ {t} : res[t] \notin Claims(u)
    BY <2>1 DEF HoldInv, Blocks
  <2>. QED BY <2>2, <1>4 DEF Claims, Coming
<1>6. ASSUME NEW p \in Addresses PROVE Balanced(p)'
  <2>1. ~Removes(t, p) /\ ~Removes(t, p)' /\ ~Returns(t, p)'
    BY <1>1, <1>3 DEF Removes, Returns, Removals
  <2>2. p # NoAddress
    BY ConstantsAssumption
  <2>3. CASE p = res[t]
    <3>1. Returns(t, p) /\ ~Settled(p)
      BY <2>3, <1>1 DEF Returns, Settled
    <3>2. p \in (owned \union libc)'
      BY <2>3, <1>1, <1>7
    <3>3. Settled(p)'
      BY <2>2, <2>3, <3>2, <1>3, <1>5 DEF Settled
    <3>. QED BY <2>1, <3>1, <3>3, <1>1, <1>2, BalancedAfter
  <2>4. CASE p # res[t]
    <3>1. ~Returns(t, p)
      BY <2>4 DEF Returns
    <3>2. p \in (owned \union libc)' <=> p \in owned \union libc
      BY <2>4, <1>1, <1>7
    <3>3. Settled(p)' <=> Settled(p)
      BY <2>2, <2>4, <3>2, <1>3 DEF Settled
    <3>. QED BY <2>1, <3>1, <3>3, <1>1, <1>2, BalancedAfter
  <2>. QED BY <2>3, <2>4
<1>. QED BY <1>1, <1>6 DEF AccountInv

(* A record is put on the list: its call is about to return.                *)
LEMMA LinkAccounts ==
    ASSUME LockInv, HoldInv, RecordInv, AccountInv, NEW t \in Threads, listLink(t)
    PROVE  AccountInv'
<1> DEFINE e == [rec |-> hand[t], mem |-> res[t], internal |-> res[t] \in libc]
<1>1. /\ pc[t] = "link" /\ pc' = [pc EXCEPT ![t] = "return"]
      /\ UNCHANGED <<owned, libc, ptr, res, lost, is_exit_done>> /\ allocs' = Linked(e, seen[t])
  BY DEF listLink, Goes, program, exiting
<1>2. seen[t] = allocs
  BY <1>1 DEF RecordInv, Reads
<1>3. e \in Entries /\ e.mem = res[t]
  <2>1. hand[t] \in Pairs
    BY RecordFacts
  <2>2. res[t] \in Addresses
    BY <1>1 DEF HoldInv, Stack, Recording, Pointers
  <2>. QED BY <2>1, <2>2 DEF Entries
<1>4. OthersHold(t)
  BY ActsAlone DEF Acts, Step
<1>5. pc'[t] = "return"
  BY <1>1 DEF LockInv
<1>6. ASSUME NEW p \in Addresses
      PROVE  Cardinality(Places(allocs', p)) =
               Cardinality(Places(allocs, p)) + IF res[t] = p THEN 1 ELSE 0
  <2> HIDE DEF e
  <2>1. allocs' = Linked(e, allocs) /\ allocs \in Seq(Entries)
    BY <1>1, <1>2, RecordFacts
  <2>. QED BY <2>1, <1>3, LinkedCount
<1>7. ASSUME NEW p \in Addresses
      PROVE  /\ ~Removes(t, p) /\ ~Removes(t, p)' /\ ~Finds(t, p) /\ ~Finds(t, p)'
             /\ ~Returns(t, p)
             /\ Returns(t, p)' <=> res[t] = p
             /\ Settled(p)' <=> Settled(p)
  BY <1>1, <1>5 DEF Removes, Returns, Finds, Settled, Removals
<1>8. ASSUME NEW p \in Addresses
      PROVE  /\ Cardinality(Removing(p)') = Cardinality(Removing(p))
             /\ Cardinality(Finding(p)') = Cardinality(Finding(p))
             /\ Cardinality(Returning(p)') = Cardinality(Returning(p)) + IF res[t] = p THEN 1 ELSE 0
             /\ Sum(p)' = Sum(p) + IF res[t] = p THEN 1 ELSE 0
             /\ Sum(p) \in Nat
  <2>1. /\ Cardinality(Removing(p)) \in Nat /\ Cardinality(Returning(p)) \in Nat
        /\ Cardinality(Finding(p)) \in Nat
    BY NumbersIs
  <2>2. /\ Cardinality(Removing(p)') = Cardinality(Removing(p))
        /\ Cardinality(Finding(p)') = Cardinality(Finding(p))
        /\ Cardinality(Returning(p)') = Cardinality(Returning(p)) + IF res[t] = p THEN 1 ELSE 0
    BY <2>1, <1>4, <1>7, NumbersChange
  <2>3. Sum(p)' = Cardinality(Removing(p)') + Cardinality(Returning(p)') + IF Settled(p)' THEN 1 ELSE 0
    BY DEF Sum
  <2>4. Sum(p)' = Sum(p) + IF res[t] = p THEN 1 ELSE 0
    BY <2>1, <2>2, <2>3, <1>7 DEF Sum
  <2>5. Sum(p) \in Nat
    BY <2>1 DEF Sum
  <2>. QED BY <2>2, <2>4, <2>5
<1>9. CASE is_exit_done
  <2>1. ASSUME NEW p \in Addresses PROVE Covered(p)'
    BY <1>1, <1>6, <1>8, <1>9, NumbersIs DEF AccountInv, Covered
  <2>. QED BY <2>1, <1>1, <1>9 DEF AccountInv
<1>10. CASE ~is_exit_done
  <2>1. ASSUME NEW p \in Addresses PROVE Balanced(p)'
    <3>1. Balanced(p) /\ Cardinality(Places(allocs, p)) \in Nat
      BY <1>10, NumbersIs DEF AccountInv
    <3>. QED BY <3>1, <1>1, <1>6, <1>8 DEF Balanced
  <2>. QED BY <2>1, <1>1, <1>10 DEF AccountInv
<1>. QED BY <1>9, <1>10

(* A record is taken off the list: its block is looked for no more.  When   *)
(* the realloc of the block has failed, the call still returns it.          *)
LEMMA UnlinkAccounts ==
    ASSUME LockInv, HoldInv, RecordInv, AccountInv, NEW t \in Threads, unlink(t)
    PROVE  AccountInv'
<1>1. /\ pc[t] = "unlink" /\ Returned(t)
      /\ UNCHANGED <<owned, libc, res, lost, is_exit_done>>
  BY DEF unlink, program, exiting
<1>2. seen[t] = allocs
  BY <1>1 DEF RecordInv, Reads
<1>3. PICK i \in Places(allocs, ptr[t]) : allocs' = Unlinked(allocs, i)
  BY <1>2 DEF unlink
<1>4. i \in 1..Len(allocs) /\ allocs[i].mem = ptr[t]
  BY DEF Places
<1>5. OthersHold(t)
  BY ActsAlone DEF Acts, Step
<1>6. pc'[t] = then[t] /\ then[t] \in Continuations
  BY <1>1, ReturnedContinues DEF LockInv
<1>7. ASSUME NEW p \in Addresses
      PROVE  Cardinality(Places(allocs', p)) =
               Cardinality(Places(allocs, p)) - IF ptr[t] = p THEN 1 ELSE 0
  BY <1>3, <1>4, RecordFacts, UnlinkedCount
<1>8. ASSUME NEW p \in Addresses
      PROVE  /\ Removes(t, p) <=> ptr[t] = p
             /\ Finds(t, p) <=> ptr[t] = p
             /\ ~Removes(t, p)' /\ ~Finds(t, p)' /\ ~Returns(t, p)
             /\ Returns(t, p)' => p = ptr[t] /\ p \in lost
             /\ Settled(p)' <=> Settled(p)
  <2>1. /\ Removes(t, p) <=> ptr[t] = p
        /\ Finds(t, p) <=> ptr[t] = p
        /\ ~Removes(t, p)' /\ ~Finds(t, p)' /\ ~Returns(t, p)
    BY <1>1, <1>6 DEF Removes, Finds, Returns, Removals, Continuations
  <2>2. Returns(t, p)' => p = ptr[t] /\ p \in lost
    BY <1>1, <1>6 DEF Returns, HoldInv, Stack, Removals
  <2>3. Settled(p)' <=> Settled(p)
    BY <1>1 DEF Settled
  <2>. QED BY <2>1, <2>2, <2>3
<1>9. ASSUME NEW p \in Addresses
      PROVE  /\ Cardinality(Finding(p)') = Cardinality(Finding(p)) - IF ptr[t] = p THEN 1 ELSE 0
             /\ Sum(p)' = (Sum(p) - IF ptr[t] = p THEN 1 ELSE 0) + IF Returns(t, p)' THEN 1 ELSE 0
             /\ Sum(p) \in Nat
  <2>1. /\ Cardinality(Removing(p)) \in Nat /\ Cardinality(Returning(p)) \in Nat
        /\ Cardinality(Finding(p)) \in Nat
    BY NumbersIs
  <2>2. /\ Cardinality(Removing(p)') = Cardinality(Removing(p)) - IF ptr[t] = p THEN 1 ELSE 0
        /\ Cardinality(Finding(p)') = Cardinality(Finding(p)) - IF ptr[t] = p THEN 1 ELSE 0
        /\ Cardinality(Returning(p)') = Cardinality(Returning(p)) + IF Returns(t, p)' THEN 1 ELSE 0
    BY <2>1, <1>5, <1>8, NumbersChange
  <2>3. Sum(p)' = Cardinality(Removing(p)') + Cardinality(Returning(p)') + IF Settled(p)' THEN 1 ELSE 0
    BY DEF Sum
  <2>4. Sum(p)' = (Sum(p) - IF ptr[t] = p THEN 1 ELSE 0) + IF Returns(t, p)' THEN 1 ELSE 0
    BY <2>1, <2>2, <2>3, <1>8 DEF Sum
  <2>5. Sum(p) \in Nat
    BY <2>1 DEF Sum
  <2>. QED BY <2>2, <2>4, <2>5
<1>10. CASE is_exit_done
  <2>1. ASSUME NEW p \in Addresses PROVE Covered(p)'
    <3>1. Covered(p) /\ Cardinality(Places(allocs, p)) \in Nat /\ Cardinality(Finding(p)) \in Nat
      BY <1>10, NumbersIs DEF AccountInv
    <3>. QED BY <3>1, <1>1, <1>7, <1>9 DEF Covered
  <2>. QED BY <2>1, <1>1, <1>10 DEF AccountInv
<1>11. CASE ~is_exit_done
  <2>1. ASSUME NEW p \in Addresses PROVE Balanced(p)'
    <3>1. Balanced(p) /\ Cardinality(Places(allocs, p)) \in Nat
      BY <1>11, NumbersIs DEF AccountInv
    <3>. QED BY <3>1, <1>1, <1>7, <1>8, <1>9 DEF Balanced
  <2>. QED BY <2>1, <1>1, <1>11 DEF AccountInv
<1>. QED BY <1>10, <1>11

(* The steps that leave the list and the blocks as they are.                *)
LEMMA PassAccounts ==
    ASSUME LockInv, RecordInv, AccountInv, NEW t \in Threads, OthersHold(t), NEW to,
           pc' = [pc EXCEPT ![t] = to] \/ (to = pc[t] /\ pc' = pc),
           UNCHANGED <<allocs, ptr, res, owned>>,
           is_exit_done => is_exit_done',
           is_exit_done' \/ UNCHANGED libc,
           is_exit_done' \/ (to \in Removals <=> pc[t] \in Removals),
           is_exit_done' \/ (to = "return" <=> pc[t] = "return"),
           is_exit_done' => (to \in {"find", "unlink"} => pc[t] \in {"find", "unlink"})
    PROVE  AccountInv'
<1>1. pc'[t] = to
  BY DEF LockInv
<1>2. CASE is_exit_done'
  <2>1. \A p \in Addresses : Finds(t, p)' => Finds(t, p)
    BY <1>1, <1>2 DEF Finds
  <2>. QED BY <1>2, <2>1, AfterExit
<1>3. CASE ~is_exit_done'
  <2>1. \A p \in Addresses : /\ Removes(t, p)' <=> Removes(t, p)
                             /\ Returns(t, p)' <=> Returns(t, p)
                             /\ Settled(p)' <=> Settled(p)
    BY <1>1, <1>3 DEF Removes, Returns, Settled
  <2>. QED BY <1>3, <2>1, SameAccounts
<1>. QED BY <1>2, <1>3

(* The program gets a block: nobody counts for it yet.                      *)
LEMMA AllocateAccounts ==
    ASSUME LockInv, HoldInv, RecordInv, AccountInv, NEW t \in Threads, OthersHold(t),
           NEW by, Allocate(t, by)
    PROVE  AccountInv'
<1>1. PICK a \in Addresses \ heap :
        /\ heap' = heap \union {a} /\ res' = [res EXCEPT ![t] = a]
        /\ libc' = libc \/ libc' = libc \union {a}
  BY DEF Allocate
<1>2. /\ pc[t] = "idle" /\ pc' = [pc EXCEPT ![t] = "trace"]
      /\ UNCHANGED <<owned, lost, ptr, allocs, is_exit_done>>
  BY DEF Allocate, Starts, Goes, tracker, exiting
<1>3. pc'[t] = "trace" /\ res'[t] = a /\ \A u \in Threads \ {t} : res'[u] = res[u]
  BY <1>1, <1>2 DEF LockInv, HoldInv, Pointers
<1>4. res[t] = NoAddress
  BY <1>2 DEF HoldInv, Stack, Recording, Removals
<1>5. CASE is_exit_done
  <2>1. \A p \in Addresses : Finds(t, p)' => Finds(t, p)
    BY <1>3 DEF Finds
  <2>. QED BY <2>1, <1>2, <1>5, AfterExit
<1>6. CASE ~is_exit_done
  <2>1. ASSUME NEW p \in Addresses
        PROVE  /\ Removes(t, p)' <=> Removes(t, p)
               /\ Returns(t, p)' <=> Returns(t, p)
    BY <1>2, <1>3 DEF Removes, Returns, Removals
  <2>2. ASSUME NEW p \in Addresses
        PROVE  Settled(p)' <=> Settled(p)
    <3>1. CASE p = a
      <4>1. ~Settled(p)
        BY <3>1 DEF HoldInv, Blocks, Settled
      <4>2. ~Settled(p)'
        BY <3>1, <1>3 DEF Settled
      <4>. QED BY <4>1, <4>2
    <3>2. CASE p # a
      <4>1. p \in (owned \union libc)' <=> p \in owned \union libc
        BY <3>2, <1>1, <1>2
      <4>2. p # NoAddress
        BY ConstantsAssumption
      <4>. QED BY <3>2, <4>1, <4>2, <1>3, <1>4 DEF Settled
    <3>. QED BY <3>1, <3>2
  <2>3. ~is_exit_done'
    BY <1>2, <1>6
  <2>. QED BY <2>1, <2>2, <2>3, <1>2, <1>6, SameAccounts
<1>. QED BY <1>5, <1>6

(* A block is given up, before the exit or during it.                       *)
LEMMA GiveAccounts ==
    ASSUME LockInv, HoldInv, RecordInv, AccountInv, NEW t \in Threads, OthersHold(t),
           free(t) \/ reallocMoves(t) \/ reallocFrees(t) \/ reallocFails(t)
    PROVE  AccountInv'
<1>1. PICK q \in owned :
        /\ owned' = owned \ {q} /\ ptr' = [ptr EXCEPT ![t] = q]
        /\ \/ UNCHANGED res
           \/ \E new \in {q, NoAddress} \union (Addresses \ heap) : res' = [res EXCEPT ![t] = new]
  BY DEF free, reallocMoves, reallocFrees, reallocFails, Realloc
<1>2. /\ pc[t] = "idle" /\ pc' = [pc EXCEPT ![t] = "untrace"]
      /\ UNCHANGED <<allocs, libc, is_exit_done>>
  BY DEF free, reallocMoves, reallocFrees, reallocFails, Realloc, Starts, Goes, tracker, exiting
<1>3. pc'[t] = "untrace" /\ ptr'[t] = q
  BY <1>1, <1>2 DEF LockInv, HoldInv, Pointers
<1>4. res[t] = NoAddress
  BY <1>2 DEF HoldInv, Stack, Recording, Removals
<1>5. res'[t] \in {q, NoAddress} \union (Addresses \ heap)
  BY <1>1, <1>4 DEF HoldInv, Pointers
<1>6. CASE is_exit_done
  <2>1. \A p \in Addresses : Finds(t, p)' => Finds(t, p)
    BY <1>3 DEF Finds
  <2>. QED BY <2>1, <1>2, <1>6, AfterExit
<1>7. CASE ~is_exit_done
  <2>1. ~is_exit_done'
    BY <1>2, <1>7
  <2>. QED BY <2>1, <1>1, <1>2, <1>3, <1>5, <1>7, GivesUp
<1>. QED BY <1>6, <1>7

(* The buffer of a stream is given up: there was no record of it, and there *)
(* is one more call that looks for one.                                     *)
LEMMA CloseAccounts ==
    ASSUME LockInv, HoldInv, RecordInv, AccountInv, NEW t \in Threads, OthersHold(t), fclose(t)
    PROVE  AccountInv'
<1>1. PICK q \in buffers : lost' = lost \union {q} /\ ptr' = [ptr EXCEPT ![t] = q]
  BY DEF fclose
<1>2. /\ pc[t] = "idle" /\ pc' = [pc EXCEPT ![t] = "untrace"]
      /\ UNCHANGED <<owned, libc, res, allocs, is_exit_done>>
  BY DEF fclose, Starts, Goes, tracker, exiting
<1>3. pc'[t] = "untrace" /\ ptr'[t] = q
  BY <1>1, <1>2 DEF LockInv, HoldInv, Pointers
<1>4. CASE is_exit_done
  <2>1. \A p \in Addresses : Finds(t, p)' => Finds(t, p)
    BY <1>3 DEF Finds
  <2>. QED BY <2>1, <1>2, <1>4, AfterExit
<1>5. CASE ~is_exit_done
  <2>1. ASSUME NEW p \in Addresses
        PROVE  /\ ~Removes(t, p) /\ (Removes(t, p)' <=> p = q)
               /\ ~Returns(t, p) /\ ~Returns(t, p)' /\ (Settled(p)' <=> Settled(p))
    BY <1>2, <1>3 DEF Removes, Returns, Settled, Removals
  <2>2. ASSUME NEW p \in Addresses PROVE Balanced(p)'
    <3>1. CASE p # q
      BY <3>1, <2>1, <1>2, <1>5, BalancedAfter
    <3>2. CASE p = q
      <4>1. /\ Cardinality(Removing(p)) \in Nat /\ Cardinality(Returning(p)) \in Nat
            /\ Cardinality(Places(allocs, p)) \in Nat
        BY NumbersIs
      <4>2. /\ Cardinality(Removing(p)') = Cardinality(Removing(p)) + 1
            /\ Cardinality(Returning(p)') = Cardinality(Returning(p))
        BY <4>1, <3>2, <2>1, NumbersChange
      <4>3. Sum(p)' = Cardinality(Removing(p)') + Cardinality(Returning(p)')
                      + IF Settled(p)' THEN 1 ELSE 0
        BY DEF Sum
      <4>4. Sum(p)' = Sum(p) + 1 /\ Sum(p) \in Nat
        BY <4>1, <4>2, <4>3, <2>1 DEF Sum
      <4>5. Cardinality(Places(allocs, p)) <= Sum(p)
        BY <1>5 DEF AccountInv, Balanced
      <4>6. allocs' = allocs /\ p \in lost'
        BY <1>1, <1>2, <3>2
      <4>. QED BY <4>1, <4>4, <4>5, <4>6 DEF Balanced
    <3>. QED BY <3>1, <3>2
  <2>. QED BY <2>2, <1>2, <1>5 DEF AccountInv
<1>. QED BY <1>4, <1>5

(* Every step keeps the accounts.                                           *)
LEMMA AccountStep ==
    ASSUME LockInv, HoldInv, RecordInv, AccountInv, NEW t \in Threads, Acts(t)
    PROVE  AccountInv'
<1> DEFINE To(to) ==
             /\ pc' = [pc EXCEPT ![t] = to] \/ (to = pc[t] /\ pc' = pc)
             /\ is_exit_done => is_exit_done'
             /\ is_exit_done' \/ UNCHANGED libc
             /\ is_exit_done' \/ (to \in Removals <=> pc[t] \in Removals)
             /\ is_exit_done' \/ (to = "return" <=> pc[t] = "return")
             /\ is_exit_done' => (to \in {"find", "unlink"} => pc[t] \in {"find", "unlink"})
           Same == UNCHANGED <<allocs, ptr, res, owned>>
<1>1. OthersHold(t)
  BY ActsAlone
<1>2. CASE listLink(t)
  BY <1>2, LinkAccounts
<1>3. CASE unlink(t)
  BY <1>3, UnlinkAccounts
<1>4. CASE return(t)
  <2>1. CASE is_exit_done
    <3>1. is_exit_done' /\ UNCHANGED allocs /\ pc' = [pc EXCEPT ![t] = "idle"]
      BY <1>4, <2>1 DEF return, Goes, tracker, exiting
    <3>2. \A p \in Addresses : Finds(t, p)' => Finds(t, p)
      BY <3>1 DEF Finds, LockInv
    <3>. QED BY <3>1, <3>2, <1>1, AfterExit
  <2>2. CASE ~is_exit_done
    BY <1>4, <2>2, ReturnAccounts
  <2>. QED BY <2>1, <2>2
<1>5. CASE default_free(t)
  <2>1. /\ pc[t] = "release" /\ pc' = [pc EXCEPT ![t] = "idle"]
        /\ UNCHANGED <<owned, libc, res, allocs, is_exit_done>>
    BY <1>5 DEF default_free, Goes, tracker, exiting
  <2>2. pc'[t] = "idle"
    BY <2>1 DEF LockInv
  <2>3. \A p \in Addresses : /\ Removes(t, p)' <=> Removes(t, p)
                             /\ Returns(t, p)' <=> Returns(t, p)
                             /\ Settled(p)' <=> Settled(p)
                             /\ Finds(t, p)' => Finds(t, p)
    BY <2>1, <2>2 DEF Removes, Returns, Settled, Finds, Removals
  <2>. QED BY <2>1, <2>3, <1>1, SameAccounts, AfterExit
<1>6. CASE untraceStart(t) /\ is_exit_done
  <2>1. Returned(t) /\ UNCHANGED <<allocs, is_exit_done>>
    BY <1>6 DEF untraceStart, tracker, exiting
  <2>2. pc'[t] \in Continuations
    BY <2>1, ReturnedContinues DEF LockInv
  <2>3. \A p \in Addresses : Finds(t, p)' => Finds(t, p)
    BY <2>2 DEF Finds, Continuations
  <2>. QED BY <2>1, <2>3, <1>1, <1>6, AfterExit
<1>7. CASE untraceStart(t) /\ ~is_exit_done
  <2>1. Same /\ UNCHANGED <<libc, is_exit_done>>
    BY <1>7 DEF untraceStart, tracker, program, exiting
  <2>2. To("find")
    BY <1>7, <2>1 DEF untraceStart, Goes, Removals
  <2>. QED BY <2>1, <2>2, <1>1, PassAccounts
<1>8. CASE \/ Touch(t) \/ static_malloc(t) \/ heaph_init(t) \/ countRead(t) \/ countReturn(t)
           \/ exitRead(t) \/ exitReport(t) \/ exitQuiet(t) \/ badMemory(t)
           \/ noStatic(t) \/ noBatch(t) \/ getline(t)
  <2>1. Same /\ UNCHANGED <<libc, is_exit_done>>
    BY <1>8 DEF Touch, static_malloc, heaph_init, countRead, countReturn, exitRead, exitReport,
                exitQuiet, badMemory, noStatic, noBatch, getline, tracker, program, locals,
                exiting
  <2>2. \/ UNCHANGED pc
        \/ /\ pc[t] \notin Removals \union {"return"}
           /\ \E to \in {"init", "idle", "counted", "walk"} : pc' = [pc EXCEPT ![t] = to]
    BY <1>8 DEF Touch, static_malloc, heaph_init, countRead, countReturn, exitRead, exitReport,
                exitQuiet, badMemory, noStatic, noBatch, getline, Starts, Goes, Removals
  <2>3. \E to : To(to)
    BY <2>1, <2>2 DEF Removals
  <2>. QED BY <2>1, <2>3, <1>1, PassAccounts
<1>9. CASE exit(t) \/ exitAllocates(t)
  <2>1. Same /\ is_exit_done'
    BY <1>9 DEF exit, exitAllocates, ExitDone, tracker, program, locals, exiting, LockInv
  <2>2. \/ UNCHANGED pc
        \/ \E to \in {"exit", "spin"} : pc' = [pc EXCEPT ![t] = to]
    BY <1>9 DEF exit, exitAllocates, Goes
  <2>3. \E to : To(to)
    BY <2>1, <2>2
  <2>. QED BY <2>1, <2>3, <1>1, PassAccounts
<1>10. CASE traceStart(t) \/ poolRead(t) \/ poolTake(t) \/ listRead(t) \/ findRead(t)
  <2>1. Same /\ UNCHANGED <<libc, is_exit_done>>
    BY <1>10 DEF traceStart, poolRead, poolTake, listRead, findRead, tracker, program, locals,
                 exiting
  <2>2. \/ /\ pc[t] \in {"trace", "pool", "take", "list"}
           /\ \/ \E to \in {"pool", "take", "list", "link"} : pc' = [pc EXCEPT ![t] = to]
              \/ is_exit_done /\ pc' = [pc EXCEPT ![t] = "return"]
        \/ pc[t] = "find" /\ pc' = [pc EXCEPT ![t] = "unlink"]
    BY <1>10 DEF traceStart, poolRead, poolTake, listRead, findRead, Goes
  <2>3. \E to : To(to)
    BY <2>1, <2>2 DEF Removals
  <2>. QED BY <2>1, <2>3, <1>1, PassAccounts
<1>11. CASE strdup(t) /\ is_exit_done
  <2>1. Same /\ UNCHANGED <<libc, is_exit_done, pc>>
    BY <1>11 DEF strdup, tracker, program, locals, exiting
  <2>2. To(pc[t])
    BY <2>1
  <2>. QED BY <2>1, <2>2, <1>1, PassAccounts
<1>12. CASE malloc(t) \/ calloc(t) \/ puts(t) \/ (strdup(t) /\ ~is_exit_done)
  BY <1>12, <1>1, AllocateAccounts DEF malloc, calloc, puts, strdup
<1>13. CASE free(t) \/ reallocMoves(t) \/ reallocFrees(t) \/ reallocFails(t)
  BY <1>13, <1>1, GiveAccounts
<1>14. CASE fclose(t)
  BY <1>14, <1>1, CloseAccounts
<1>. QED BY <1>2, <1>3, <1>4, <1>5, <1>6, <1>7, <1>8, <1>9, <1>10, <1>11, <1>12, <1>13, <1>14
         DEF Acts, Call, Step

(* At first there is nothing to account for.                                *)
LEMMA AccountInit == Init => AccountInv
<1> SUFFICES ASSUME Init, NEW p \in Addresses PROVE Balanced(p)
  BY DEF Init, AccountInv
<1>1. Places(allocs, p) = {}
  BY DEF Init, Places
<1>2. Removing(p) = {} /\ Returning(p) = {} /\ ~Settled(p)
  BY DEF Init, Removing, Returning, Settled
<1>3. Sum(p) = 0 /\ Cardinality(Places(allocs, p)) = 0
  BY <1>1, <1>2, FS_EmptySet DEF Sum
<1>. QED BY <1>3 DEF Balanced

(* So does a step that is none. *)
LEMMA AccountNext == LibraryInv /\ AccountInv /\ [Next]_vars => AccountInv'
<1> SUFFICES ASSUME LibraryInv, AccountInv, [Next]_vars PROVE AccountInv'
  OBVIOUS
<1>1. LockInv /\ HoldInv /\ RecordInv
  BY DEF LibraryInv
<1>2. CASE UNCHANGED vars
  <2>1. UNCHANGED <<allocs, ptr, res, pc, owned, libc, lost, is_exit_done>>
    BY <1>2 DEF vars, program, tracker, locals, exiting
  <2>2. \A p \in Addresses : (Covered(p)' <=> Covered(p)) /\ (Balanced(p)' <=> Balanced(p))
    BY <2>1 DEF Covered, Balanced, Sum, Finding, Removing, Returning, Settled
  <2>. QED BY <2>1, <2>2 DEF AccountInv
<1>3. ASSUME NEW t \in Threads, Acts(t) PROVE AccountInv'
  BY <1>1, <1>3, AccountStep
<1>. QED BY <1>1, <1>2, <1>3, NextActs

(* When a block has two records, a realloc is still to remove one of them:  *)
(* only free() can remove, return or hold it otherwise, and one thread at a *)
(* time does.                                                               *)
LEMMA OneAccount ==
    ASSUME HoldInv, NEW p \in Addresses, \A t \in Removing(p) : then[t] = "release"
    PROVE  Sum(p) <= 1
<1>1. p # NoAddress
  BY ConstantsAssumption
<1>2. \A u \in Threads : res[u] = p => p \in Claims(u) /\ p \notin owned
  BY <1>1 DEF Claims, Coming, HoldInv, Blocks
<1>3. \A t \in Removing(p) : /\ t \in Threads /\ pc[t] \in Removals
                             /\ p \in Claims(t) /\ p \notin owned \union libc
  <2> TAKE t \in Removing(p)
  <2>1. t \in Threads /\ pc[t] \in Removals /\ Frees(t) /\ ptr[t] = p
    BY DEF Removing, Removals, Frees
  <2>2. p \in Freeing(t) /\ p \in Claims(t)
    BY <2>1 DEF Freeing, Claims
  <2>. QED BY <2>1, <2>2 DEF HoldInv, Blocks
<1>4. \A t, u \in Threads : p \in Claims(t) /\ p \in Claims(u) => t = u
  BY DEF HoldInv, Blocks
<1>5. \A u \in Returning(p) : u \in Threads /\ res[u] = p /\ pc[u] = "return"
  BY DEF Returning
<1>6. Cardinality({}) = 0 /\ \A x : Cardinality({x}) = 1
  BY FS_EmptySet, FS_Singleton
<1>7. CASE Removing(p) # {}
  <2>1. PICK t : t \in Removing(p)
    BY <1>7
  <2>2. Removing(p) = {t}
    BY <2>1, <1>3, <1>4
  <2>3. Returning(p) = {}
    BY <2>1, <1>2, <1>3, <1>4, <1>5 DEF Removals
  <2>4. ~Settled(p)
    BY <2>1, <1>3 DEF Settled
  <2>5. Cardinality(Removing(p)) = 1 /\ Cardinality(Returning(p)) = 0
    BY <2>2, <2>3, <1>6
  <2>. QED BY <2>4, <2>5 DEF Sum
<1>8. CASE Removing(p) = {} /\ Returning(p) # {}
  <2>1. PICK t : t \in Returning(p)
    BY <1>8
  <2>2. Returning(p) = {t}
    BY <2>1, <1>2, <1>4, <1>5
  <2>3. ~Settled(p)
    BY <2>1, <1>5 DEF Settled
  <2>. QED BY <2>2, <2>3, <1>6, <1>8 DEF Sum
<1>9. CASE Removing(p) = {} /\ Returning(p) = {}
  BY <1>6, <1>9 DEF Sum
<1>. QED BY <1>7, <1>8, <1>9

(* What the runs check of the accounts. *)
LEMMA AccountsHold == LibraryInv /\ AccountInv => AccountsBalance
<1> SUFFICES ASSUME LibraryInv, AccountInv, ~is_exit_done
             PROVE  /\ \A p \in Addresses \ lost :
                         Cardinality(Places(allocs, p)) =
                           Cardinality(Removing(p)) + Cardinality(Returning(p))
                           + IF Settled(p) THEN 1 ELSE 0
                    /\ \A p \in Addresses :
                         Cardinality(Places(allocs, p)) > 1 =>
                           \E t \in Removing(p) : then[t] # "release"
  BY DEF AccountsBalance
<1>1. \A p \in Addresses : Balanced(p)
  BY DEF AccountInv
<1>2. HoldInv /\ RecordInv
  BY DEF LibraryInv
<1>3. ASSUME NEW p \in Addresses, Cardinality(Places(allocs, p)) > 1
      PROVE  \E t \in Removing(p) : then[t] # "release"
  <2>1. Cardinality(Places(allocs, p)) <= Sum(p) /\ Cardinality(Places(allocs, p)) \in Nat
    BY <1>1, <1>2, NumbersIs DEF Balanced
  <2>2. Sum(p) \in Nat
    BY <1>2, NumbersIs DEF Sum
  <2>3. ~(Sum(p) <= 1)
    BY <1>3, <2>1, <2>2
  <2>. QED BY <2>3, <1>2, OneAccount
<1>. QED BY <1>1, <1>3 DEF Balanced, Sum

----
(* The assertions *)

(* A failed assertion ends the process.  A block that alloc_free() does not *)
(* find had no record of its own.                                           *)
FailInv ==
    /\ failed # 0 => ended
    /\ failed \in {0, 178, 234, 245, 255, 511}
    /\ failed = 234 => \E t \in Threads : pc[t] = "unlink" /\ ptr[t] \in lost

(* An element is found as long as its block has a record of its own.        *)
LEMMA BadMemory ==
    ASSUME HoldInv, RecordInv, AccountInv, NEW t \in Threads, badMemory(t)
    PROVE  ptr[t] \in lost
<1>1. pc[t] = "unlink" /\ seen[t] = allocs /\ Places(allocs, ptr[t]) = {}
  BY DEF badMemory, RecordInv, Reads
<1>2. ptr[t] \in Addresses
  BY <1>1 DEF HoldInv, Stack, Removals, Pointers
<1>3. t \in Finding(ptr[t])
  BY <1>1 DEF Finding
<1>4. Cardinality(Finding(ptr[t])) # 0
  <2>1. IsFiniteSet(Finding(ptr[t]))
    BY FindingFinite
  <2>. QED BY <2>1, <1>3, FS_EmptySet
<1>5. Cardinality(Places(allocs, ptr[t])) = 0
  BY <1>1, FS_EmptySet
<1>. QED BY <1>2, <1>4, <1>5, BalancedCovers, NumbersIs DEF Covered

(* The count is not used up before the list is: heaph_assert(count > 0)     *)
(* holds for every record that is printed.                                  *)
LEMMA CountLasts ==
    ASSUME RecordInv, NEW i \in 1..Len(allocs)
    PROVE  ~(alloc_count - Cardinality(Internal(SubSeq(allocs, 1, i - 1))) <= 0)
<1> DEFINE s == SubSeq(allocs, 1, i - 1)
<1>1. alloc_count = Len(allocs) /\ allocs \in Seq(Entries) /\ Len(allocs) \in Nat
  BY RecordFacts, LenProperties DEF RecordInv, Tracked
<1>2. Len(s) = i - 1
  BY <1>1, SubSeqProperties
<1> HIDE DEF s
<1>3. Internal(s) \in SUBSET (1..i - 1)
  BY <1>2 DEF Internal
<1>4. IsFiniteSet(1..i - 1) /\ Cardinality(1..i - 1) = i - 1
  <2>1. 1 \in Int /\ i - 1 \in Int /\ i - 1 >= 0
    BY <1>1
  <2>2. IsFiniteSet(1..i - 1) /\ Cardinality(1..i - 1) = IF 1 > i - 1 THEN 0 ELSE (i - 1) - 1 + 1
    BY <2>1, FS_Interval
  <2>. QED BY <2>1, <2>2
<1>5. Cardinality(Internal(s)) <= i - 1 /\ Cardinality(Internal(s)) \in Nat
  BY <1>3, <1>4, FS_Subset, FS_CardinalityType
<1>6. ~(alloc_count - Cardinality(Internal(s)) <= 0)
  BY <1>1, <1>5
<1>. QED BY <1>6 DEF s

(* A thread fails one of the assertions only as it is explained.            *)
LEMMA FailStep ==
    ASSUME LibraryInv, AccountInv, FailInv, ~ended, NEW t \in Threads, Acts(t)
    PROVE  FailInv'
<1>1. failed = 0
  BY DEF FailInv
<1>2. LockInv /\ HoldInv /\ RecordInv /\ Starting
  BY DEF LibraryInv
<1>3. CASE static_malloc(t)
  <2>1. ~is_init_done
    BY <1>2, <1>3 DEF static_malloc, Starting
  <2>3. UNCHANGED outcome \/ Abort(255)
    BY <1>3, <2>1 DEF static_malloc
  <2>. QED BY <2>3, <1>1 DEF Abort, FailInv, outcome
<1>4. CASE heaph_init(t)
  <2>1. ~is_init_done
    BY <1>2, <1>4 DEF heaph_init, Starting
  <2>. QED BY <2>1, <1>1, <1>4 DEF heaph_init, outcome, FailInv
<1>5. CASE (strdup(t) /\ is_exit_done) \/ noStatic(t) \/ noBatch(t)
  BY <1>5 DEF strdup, noStatic, noBatch, Abort, FailInv
<1>6. CASE badMemory(t)
  <2>1. ptr[t] \in lost /\ pc[t] = "unlink"
    BY <1>2, <1>6, BadMemory DEF badMemory
  <2>2. UNCHANGED <<ptr, lost, pc>>
    BY <1>6 DEF badMemory, program, locals
  <2>. QED BY <2>1, <2>2, <1>6 DEF badMemory, Abort, FailInv
<1>7. CASE exitReport(t)
  <2>1. ~\E i \in 1..Len(allocs) : alloc_count - Cardinality(Internal(SubSeq(allocs, 1, i - 1))) <= 0
    BY <1>2, CountLasts
  <2>2. UNCHANGED failed
    BY <1>7, <2>1 DEF exitReport
  <2>. QED BY <2>2, <1>1 DEF FailInv
<1>8. CASE exitQuiet(t)
  BY <1>1, <1>8 DEF exitQuiet, FailInv
<1>9. CASE \/ Touch(t) \/ countRead(t) \/ countReturn(t) \/ exit(t) \/ exitRead(t)
           \/ exitAllocates(t) \/ traceStart(t) \/ poolRead(t) \/ poolTake(t) \/ listRead(t)
           \/ listLink(t) \/ return(t) \/ untraceStart(t) \/ findRead(t) \/ unlink(t)
           \/ default_free(t)
  <2>1. UNCHANGED outcome
    BY <1>9 DEF Touch, countRead, countReturn, exit, exitRead, exitAllocates, traceStart,
                poolRead, poolTake, listRead, listLink, return, untraceStart, findRead, unlink,
                default_free
  <2>. QED BY <2>1, <1>1 DEF outcome, FailInv
<1>10. CASE malloc(t) \/ calloc(t) \/ puts(t) \/ getline(t) \/ (strdup(t) /\ ~is_exit_done)
  <2>1. UNCHANGED outcome
    BY <1>10 DEF malloc, calloc, puts, getline, strdup, Allocate
  <2>. QED BY <2>1, <1>1 DEF outcome, FailInv
<1>11. CASE free(t) \/ fclose(t) \/ reallocMoves(t) \/ reallocFrees(t) \/ reallocFails(t)
  <2>1. UNCHANGED outcome
    BY <1>11 DEF free, fclose, reallocMoves, reallocFrees, reallocFails, Realloc
  <2>. QED BY <2>1, <1>1 DEF outcome, FailInv
<1>. QED BY <1>3, <1>4, <1>5, <1>6, <1>7, <1>8, <1>9, <1>10, <1>11 DEF Acts, Call, Step

(* The process does nothing after an assertion has failed. *)
LEMMA FailNext == LibraryInv /\ AccountInv /\ FailInv /\ [Next]_vars => FailInv'
<1> SUFFICES ASSUME LibraryInv, AccountInv, FailInv, [Next]_vars PROVE FailInv'
  OBVIOUS
<1>1. LockInv
  BY DEF LibraryInv
<1>2. CASE UNCHANGED vars
  <2>1. UNCHANGED <<failed, ended, lost, ptr, pc>>
    BY <1>2 DEF vars, program, locals, outcome
  <2>. QED BY <2>1 DEF FailInv
<1>3. ASSUME ~ended, NEW t \in Threads, Acts(t) PROVE FailInv'
  BY <1>3, FailStep
<1>. QED BY <1>1, <1>2, <1>3, NextActs

(* At first nothing has failed.                                             *)
LEMMA FailInit == Init => FailInv
BY DEF Init, FailInv

(* Until the program exits a block has as many records as its holder and    *)
(* the calls under way account for, unless a realloc of it has failed or it *)
(* was the buffer of a stream, which line 162 does not record; and two      *)
(* records of one block mean that a realloc which has already given the *)
(* address back to libc is still to remove one (lines 203-235 and 545-577). *)
THEOREM AccountsAreBalanced == Spec => []AccountsBalance
<1>1. Init => LibraryInv /\ AccountInv
  BY LibraryInit, AccountInit
<1>2. LibraryInv /\ AccountInv /\ [Next]_vars => (LibraryInv /\ AccountInv)'
  BY LibraryNext, AccountNext
<1>. QED BY <1>1, <1>2, AccountsHold, PTL DEF Spec

(* However many threads call it, the library is not initialised twice and   *)
(* the count of records does not run out before the list does: lines 251,   *)
(* 390 and 482 never fail for a program that frees what it holds.  Line 234 *)
(* fails only when the block that is freed had no record of its own: after  *)
(* a realloc() of it that failed, whose line 556 drops the record, or when  *)
(* it was allocated inside another call (line 162).  Want of memory can     *)
(* fail lines 178, 245 and 255, and a strdup() during the exit line 511.    *)
THEOREM AssertionsAreExplained == Spec => []AssertionsExplained
<1>1. Init => LibraryInv /\ AccountInv /\ FailInv
  BY LibraryInit, AccountInit, FailInit
<1>2. LibraryInv /\ AccountInv /\ FailInv /\ [Next]_vars => (LibraryInv /\ AccountInv /\ FailInv)'
  BY LibraryNext, AccountNext, FailNext
<1>3. LibraryInv /\ FailInv => AssertionsExplained
  BY DEF LibraryInv, LockInv, FailInv, AssertionsExplained, Outside, Continuations, Sections
<1>. QED BY <1>1, <1>2, <1>3, PTL DEF Spec
=============================================================================
