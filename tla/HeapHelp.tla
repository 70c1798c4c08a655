---- MODULE HeapHelp ----
(***************************************************************************)
(* The leak checker the programs are linked with                           *)
(* (utils/heap_help/heap_help.c): it interposes malloc, free and their     *)
(* kin, calls libc's own functions and keeps one record for every block    *)
(* the program holds.  The threads of the program call it concurrently.    *)
(*                                                                         *)
(* Blocks are addresses; sizes, contents and backtraces are left out.  A   *)
(* critical section is two steps, the lock with what is read first and the *)
(* writes with the unlock, so that a section that is not exclusive writes  *)
(* what it read too early.  Calls inside calls (depth > 1) go to libc and  *)
(* are not recorded (lines 162 and 208): they are part of the step of the  *)
(* outer call.  What such a call allocates may outlive the outer call.     *)
(***************************************************************************)
EXTENDS Integers, Sequences, FiniteSets

CONSTANTS
    Threads,      \* the threads of the program
    Main,         \* the one that runs main()
    Addresses,    \* what libc's malloc may return
    NoAddress,    \* NULL
    BatchSize,    \* ALLOCATION_BATCH_SIZE
    StaticSize    \* static_size, in blocks

ASSUME ConstantsAssumption ==
    /\ IsFiniteSet(Threads) /\ Main \in Threads
    /\ NoAddress \notin Addresses
    /\ BatchSize \in Nat \ {0}
    /\ StaticSize \in Nat \ {0}

VARIABLES
    \* libc and the program
    running,      \* the threads that exist
    heap,         \* the blocks libc has given out
    owned,        \* of them, those the program holds and may free
    libc,         \* of them, those that belong to libc itself
    buffers,      \* of them, those of streams, allocated inside getline()
    stdout_buffer,    \* of them, that of stdout, or NULL
    lost,         \* those freed, or still held, that had no record of their own
    ended,        \* the process is gone
    \* static variables of heap_help.c
    init_lock, is_init_done, is_exit_done, default_malloc, static_used,
    allocs_lock, alloc_count, allocs, alloc_pool, alloc_batch,
    \* the threads' stacks
    pc,
    ptr,          \* the block to be taken off the list
    res,          \* the block to be put on it
    then,         \* where alloc_free returns to
    hand,         \* the record taken by alloc_trace_new
    seen,         \* what was read first in the critical section
    \* what can be observed
    failed,       \* the line of the assertion that failed, or 0
    report,       \* the number of leaks reported at exit, or -1
    atExit        \* when the exit began: the blocks the program held, the calls in progress

program == <<running, heap, owned, libc, buffers, stdout_buffer, lost>>
startup == <<init_lock, is_init_done, default_malloc, static_used>>
tracker == <<alloc_count, allocs, alloc_pool, alloc_batch>>
locals == <<ptr, res, then, hand, seen>>
outcome == <<ended, failed, report>>
exiting == <<is_exit_done, atExit>>
vars == <<program, startup, tracker, locals, outcome, allocs_lock, exiting, pc>>

NoRecord == <<0, 0>>

----
(* Initial values, lines 59-92. *)
Init ==
    /\ running = {Main}
    /\ heap = {} /\ owned = {} /\ libc = {} /\ buffers = {} /\ lost = {}
    /\ stdout_buffer = NoAddress
    /\ init_lock = FALSE /\ is_init_done = FALSE /\ is_exit_done = FALSE
    /\ default_malloc = "none"
    /\ static_used = 0
    /\ allocs_lock = FALSE
    /\ alloc_count = 0 /\ allocs = <<>> /\ alloc_pool = <<>>
    /\ alloc_batch = <<0, BatchSize>>
    /\ pc = [t \in Threads |-> "idle"]
    /\ ptr = [t \in Threads |-> NoAddress]
    /\ res = [t \in Threads |-> NoAddress]
    /\ then = [t \in Threads |-> "idle"]
    /\ hand = [t \in Threads |-> NoRecord]
    /\ seen = [t \in Threads |-> <<>>]
    /\ ended = FALSE /\ failed = 0 /\ report = -1
    /\ atExit = [held |-> 0, inCalls |-> 0]

Goes(t, to) == pc' = [pc EXCEPT ![t] = to]

(* heaph_assert_do(), lines 105-121: the process is aborted. *)
Abort(line) ==
    /\ failed' = line
    /\ ended' = TRUE
    /\ UNCHANGED report

(* spinlock_acq() and spinlock_rel(), lines 126-144. *)
BugNoTest == allocs_lock' = TRUE

Acquire == ~allocs_lock /\ allocs_lock' = TRUE
Release == allocs_lock' = FALSE

----
(* heaph_touch(), lines 470-483: the first call of a thread that finds     *)
(* is_init_done unset takes init_lock and runs heaph_init(), which starts  *)
(* with the static allocator (lines 432-434).                              *)
Touch(t) ==
    /\ pc[t] = "idle"
    /\ ~is_init_done
    /\ ~init_lock
    /\ init_lock' = TRUE
    /\ default_malloc' = "static"
    /\ Goes(t, "init")
    /\ UNCHANGED <<program, is_init_done, static_used, tracker, locals,
                   outcome, allocs_lock, exiting>>

(* static_malloc(), lines 248-259: dlsym() itself allocates.  The nested   *)
(* heaph_touch() returns at once, and the block is not recorded because    *)
(* alloc_is_static().                                                      *)
static_malloc(t) ==
    /\ pc[t] = "init"
    /\ LET fits == 1 < StaticSize - static_used
       IN  IF is_init_done THEN Abort(251) /\ UNCHANGED static_used
           ELSE IF fits THEN static_used' = static_used + 1 /\ UNCHANGED outcome
           ELSE Abort(255) /\ UNCHANGED static_used
    /\ UNCHANGED <<program, init_lock, is_init_done, default_malloc, tracker,
                   locals, allocs_lock, exiting, pc>>

(* Lines 240-245, when static_malloc() is called first: there is no memory. *)
noStatic(t) ==
    /\ pc[t] = "init"
    /\ ~is_init_done /\ static_used = 0
    /\ Abort(245)
    /\ UNCHANGED <<program, startup, tracker, locals, allocs_lock, exiting, pc>>

(* The end of heaph_init(), lines 436-468, and of heaph_touch(), lines     *)
(* 480-482: a second initialisation fails.  The mode that HHREPORT picks   *)
(* is first looked at in the exit handler, and is chosen there.            *)
heaph_init(t) ==
    /\ pc[t] = "init"
    /\ default_malloc' = "libc"
    /\ is_init_done' = TRUE
    /\ init_lock' = FALSE
    /\ Goes(t, "idle")
    /\ IF is_init_done THEN Abort(482) ELSE UNCHANGED outcome
    /\ UNCHANGED <<program, static_used, tracker, locals, allocs_lock, exiting>>

----
(* The calls.  A call starts when its thread is idle and the library is    *)
(* initialised.                                                            *)
Starts(t) == pc[t] = "idle" /\ is_init_done

(* default_malloc() and its kin succeed: a block that was free is in use.  *)
(* What follows is alloc_trace_new().                                      *)
Allocate(t, by) ==
    /\ Starts(t)
    /\ \E a \in Addresses \ heap :
          /\ heap' = heap \union {a}
          /\ res' = [res EXCEPT ![t] = a]
          /\ libc' = IF by = "program" THEN libc ELSE libc \union {a}
          /\ stdout_buffer' = IF by = "puts" THEN a ELSE stdout_buffer
    /\ Goes(t, "trace")
    /\ UNCHANGED <<running, owned, buffers, lost, startup, tracker, ptr, then, hand, seen,
                   outcome, allocs_lock, exiting>>

(* malloc(), lines 521-531; calloc(), realloc() of NULL or of a static     *)
(* block, getline() without a buffer and getaddrinfo() have its shape.     *)
malloc(t) == Allocate(t, "program")

(* pthread_create() allocates through the interposed calloc(), lines       *)
(* 533-543, before the new thread runs: the reason why line 319 knows it.  *)
calloc(t) == t = Main /\ running # Threads /\ Allocate(t, "pthread_create")

(* The first puts() or printf() allocates the buffer of stdout in the same  *)
(* way, and lines 317-326 know it.                                          *)
puts(t) == stdout_buffer = NoAddress /\ Allocate(t, "puts")

(* strdup(), lines 507-519: not allowed once the process is exiting. *)
strdup(t) ==
    IF is_exit_done
    THEN /\ Starts(t)
         /\ Abort(511)
         /\ UNCHANGED <<program, startup, tracker, locals, allocs_lock, exiting, pc>>
    ELSE Allocate(t, "program")

(* realloc(), lines 545-563, of a block p.  libc has already moved, freed  *)
(* or kept the block when the records are changed.  getline(), lines       *)
(* 485-505, with a buffer that is too short moves it in the same way.      *)
Realloc(t, p, new, left, next) ==
    /\ Starts(t)
    /\ p \in owned
    /\ owned' = owned \ {p}
    /\ heap' = left
    /\ ptr' = [ptr EXCEPT ![t] = p]
    /\ res' = [res EXCEPT ![t] = new]
    /\ then' = [then EXCEPT ![t] = next]
    /\ Goes(t, "untrace")
    /\ UNCHANGED <<running, libc, buffers, stdout_buffer, startup, tracker, hand, seen, outcome,
                   allocs_lock, exiting>>

reallocMoves(t) ==
    \E p \in owned, a \in Addresses \ heap :
        /\ Realloc(t, p, a, (heap \ {p}) \union {a}, "trace")
        /\ UNCHANGED lost

reallocFrees(t) ==
    \E p \in owned :
        /\ Realloc(t, p, NoAddress, heap \ {p}, "idle")
        /\ UNCHANGED lost

(* There is no memory: libc keeps the block, and so does the program, but  *)
(* lines 555-556 take its record away.                                     *)
reallocFails(t) ==
    \E p \in owned :
        /\ Realloc(t, p, p, heap, "return")
        /\ lost' = lost \union {p}

(* getline(), lines 485-492, from a stream that has no buffer yet: libc     *)
(* allocates one at depth 2, and line 162 does not record it.  What the     *)
(* call does to the program's own line is a step like those above.          *)
getline(t) ==
    /\ Starts(t)
    /\ \E a \in Addresses \ heap :
          /\ heap' = heap \union {a}
          /\ buffers' = buffers \union {a}
    /\ UNCHANGED <<running, owned, libc, stdout_buffer, lost, startup, tracker, locals, outcome,
                   allocs_lock, exiting, pc>>

BugFreeFirst(p) == heap' = heap \ {p}

HeapAtFree(p) == UNCHANGED heap

(* free(), lines 565-577, and freeaddrinfo(), lines 592-603: the record    *)
(* goes first, the block after it.                                         *)
free(t) ==
    /\ Starts(t)
    /\ \E p \in owned :
          /\ owned' = owned \ {p}
          /\ ptr' = [ptr EXCEPT ![t] = p]
          /\ HeapAtFree(p)
    /\ then' = [then EXCEPT ![t] = "release"]
    /\ Goes(t, "untrace")
    /\ UNCHANGED <<running, libc, buffers, stdout_buffer, lost, startup, tracker, res, hand, seen,
                   outcome, allocs_lock, exiting>>

(* fclose() is libc's own: it frees the buffer of the stream through the    *)
(* interposed free(), lines 565-577, at depth 1.                            *)
fclose(t) ==
    /\ Starts(t)
    /\ \E p \in buffers :
          /\ buffers' = buffers \ {p}
          /\ lost' = lost \union {p}
          /\ ptr' = [ptr EXCEPT ![t] = p]
          /\ HeapAtFree(p)
    /\ then' = [then EXCEPT ![t] = "release"]
    /\ Goes(t, "untrace")
    /\ UNCHANGED <<running, owned, libc, stdout_buffer, startup, tracker, res, hand, seen,
                   outcome, allocs_lock, exiting>>

default_free(t) ==
    /\ pc[t] = "release"
    /\ heap' = heap \ {ptr[t]}
    /\ ptr' = [ptr EXCEPT ![t] = NoAddress]
    /\ Goes(t, "idle")
    /\ UNCHANGED <<running, owned, libc, buffers, stdout_buffer, lost, startup, tracker, res,
                   then, hand, seen, outcome, allocs_lock, exiting>>

----
(* alloc_trace_new(), lines 153-201.  Nothing is recorded at exit. *)
traceStart(t) ==
    /\ pc[t] = "trace"
    /\ Goes(t, IF is_exit_done THEN "return" ELSE "pool")
    /\ UNCHANGED <<program, startup, tracker, locals, outcome, allocs_lock, exiting>>

poolRead(t) ==
    /\ pc[t] = "pool"
    /\ Acquire
    /\ seen' = [seen EXCEPT ![t] = alloc_pool]
    /\ Goes(t, "take")
    /\ UNCHANGED <<program, startup, tracker, ptr, res, then, hand, outcome, exiting>>

BugUsedKept(last) == IF last[2] = BatchSize THEN <<last[1] + 1, 1>> ELSE last

(* The record after `last`, of a new batch when the batch is used up. *)
FreshRecord(last) ==
    IF last[2] = BatchSize THEN <<last[1] + 1, 1>> ELSE <<last[1], last[2] + 1>>

poolTake(t) ==
    /\ pc[t] = "take"
    /\ IF seen[t] # <<>>
       THEN /\ hand' = [hand EXCEPT ![t] = Head(seen[t])]
            /\ alloc_pool' = Tail(seen[t])
            /\ UNCHANGED alloc_batch
       ELSE /\ hand' = [hand EXCEPT ![t] = FreshRecord(alloc_batch)]
            /\ alloc_batch' = FreshRecord(alloc_batch)
            /\ UNCHANGED alloc_pool
    /\ Release
    /\ seen' = [seen EXCEPT ![t] = <<>>]
    /\ Goes(t, "list")
    /\ UNCHANGED <<program, startup, alloc_count, allocs, ptr, res, then, outcome,
                   exiting>>

(* Lines 175-178: there is no memory for a new batch. *)
noBatch(t) ==
    /\ pc[t] = "take"
    /\ seen[t] = <<>> /\ alloc_batch[2] = BatchSize
    /\ Abort(178)
    /\ UNCHANGED <<program, startup, tracker, locals, allocs_lock, exiting, pc>>

listRead(t) ==
    /\ pc[t] = "list"
    /\ Acquire
    /\ seen' = [seen EXCEPT ![t] = allocs]
    /\ Goes(t, "link")
    /\ UNCHANGED <<program, startup, tracker, ptr, res, then, hand, outcome, exiting>>

Linked(entry, list) == <<entry>> \o list

listLink(t) ==
    /\ pc[t] = "link"
    /\ LET entry == [rec |-> hand[t], mem |-> res[t], internal |-> res[t] \in libc]
       IN  allocs' = Linked(entry, seen[t])
    /\ alloc_count' = alloc_count + 1
    /\ Release
    /\ seen' = [seen EXCEPT ![t] = <<>>]
    /\ hand' = [hand EXCEPT ![t] = NoRecord]
    /\ Goes(t, "return")
    /\ UNCHANGED <<program, startup, alloc_pool, alloc_batch, ptr, res, then, outcome,
                   exiting>>

(* The call returns its block to the program; pthread_create() has also    *)
(* made a thread.                                                          *)
return(t) ==
    /\ pc[t] = "return"
    /\ \/ /\ res[t] \in libc \ {stdout_buffer}
          /\ \E u \in Threads \ running : running' = running \union {u}
          /\ UNCHANGED owned
       \/ /\ res[t] \notin libc
          /\ owned' = owned \union {res[t]}
          /\ UNCHANGED running
       \/ /\ res[t] = stdout_buffer
          /\ UNCHANGED <<owned, running>>
    /\ res' = [res EXCEPT ![t] = NoAddress]
    /\ Goes(t, "idle")
    /\ UNCHANGED <<heap, libc, buffers, stdout_buffer, lost, startup, tracker, ptr, then, hand,
                   seen, outcome, allocs_lock, exiting>>

----
(* alloc_free(), lines 203-235. *)
Returned(t) ==
    /\ ptr' = [ptr EXCEPT ![t] = IF then[t] = "release" THEN @ ELSE NoAddress]
    /\ then' = [then EXCEPT ![t] = "idle"]
    /\ Goes(t, then[t])

untraceStart(t) ==
    /\ pc[t] = "untrace"
    /\ IF is_exit_done
       THEN Returned(t)
       ELSE Goes(t, "find") /\ UNCHANGED <<ptr, then>>
    /\ UNCHANGED <<program, startup, tracker, res, hand, seen, outcome, allocs_lock,
                   exiting>>

findRead(t) ==
    /\ pc[t] = "find"
    /\ Acquire
    /\ seen' = [seen EXCEPT ![t] = allocs]
    /\ Goes(t, "unlink")
    /\ UNCHANGED <<program, startup, tracker, ptr, res, then, hand, outcome, exiting>>

(* The places of the records of block p; the list is searched from 1. *)
Places(list, p) == {i \in 1..Len(list) : list[i].mem = p}

Unlinked(list, i) == SubSeq(list, 1, i - 1) \o SubSeq(list, i + 1, Len(list))

CountFreed == alloc_count' = alloc_count - 1

unlink(t) ==
    /\ pc[t] = "unlink"
    /\ \E i \in Places(seen[t], ptr[t]) :
          /\ \A j \in Places(seen[t], ptr[t]) : i <= j
          /\ allocs' = Unlinked(seen[t], i)
          /\ alloc_pool' = <<seen[t][i].rec>> \o alloc_pool
    /\ CountFreed
    /\ Release
    /\ seen' = [seen EXCEPT ![t] = <<>>]
    /\ Returned(t)
    /\ UNCHANGED <<program, startup, alloc_batch, res, hand, outcome, exiting>>

badMemory(t) ==
    /\ pc[t] = "unlink"
    /\ Places(seen[t], ptr[t]) = {}
    /\ Abort(234)
    /\ UNCHANGED <<program, startup, tracker, locals, allocs_lock, exiting, pc>>

----
(* heaph_get_alloc_count(), lines 605-612, which main() calls. *)
countRead(t) ==
    /\ t = Main
    /\ Starts(t)
    /\ Acquire
    /\ Goes(t, "counted")
    /\ UNCHANGED <<program, startup, tracker, locals, outcome, exiting>>

countReturn(t) ==
    /\ pc[t] = "counted"
    /\ Release
    /\ Goes(t, "idle")
    /\ UNCHANGED <<program, startup, tracker, locals, outcome, exiting>>

----
BugExitDoneLate == UNCHANGED is_exit_done

ExitDone == is_exit_done' = TRUE

(* heaph_atexit(), lines 358-427, when main() returns. *)
exit(t) ==
    /\ t = Main
    /\ Starts(t)
    /\ ExitDone
    /\ atExit' = [held |-> Cardinality(owned),
                  inCalls |-> Cardinality({u \in Threads \ {t} : pc[u] # "idle"})]
    /\ Goes(t, "exit")
    /\ UNCHANGED <<program, startup, tracker, locals, outcome, allocs_lock>>

exitRead(t) ==
    /\ pc[t] = "exit"
    /\ Acquire
    /\ Goes(t, "walk")
    /\ UNCHANGED <<program, startup, tracker, locals, outcome, exiting>>

(* dladdr(), line 348, and printing may allocate while the list is locked: *)
(* only is_exit_done keeps alloc_trace_new() from waiting for allocs_lock. *)
exitAllocates(t) ==
    /\ pc[t] = "walk"
    /\ alloc_count # 0
    /\ IF is_exit_done
       THEN /\ \E a \in Addresses \ heap :
                  heap' = heap \union {a} /\ libc' = libc \union {a}
            /\ UNCHANGED pc
       ELSE Goes(t, "spin") /\ UNCHANGED <<heap, libc>>
    /\ UNCHANGED <<running, owned, buffers, stdout_buffer, lost, startup, tracker, locals,
                   outcome, allocs_lock, exiting>>


(* trace_is_internal(), lines 297-340. *)
Internal(list) == {i \in 1..Len(list) : list[i].internal}

(* Lines 370-426: a leak for every record that is not internal, and the   *)
(* process ends.  heaph_assert(count > 0) fails when the list is longer    *)
(* than alloc_count says.                                                  *)
exitReport(t) ==
    /\ pc[t] = "walk"
    /\ LET left(i) == alloc_count - Cardinality(Internal(SubSeq(allocs, 1, i)))
       IN  IF alloc_count # 0 /\ \E i \in 1..Len(allocs) : left(i - 1) <= 0
           THEN Abort(390)
           ELSE /\ report' = IF alloc_count = 0 THEN 0 ELSE left(Len(allocs))
                /\ ended' = TRUE
                /\ UNCHANGED failed
    /\ Release
    /\ Goes(t, "idle")
    /\ UNCHANGED <<program, startup, tracker, locals, exiting>>

(* Lines 365-366: HHREPORT is "q". *)
exitQuiet(t) ==
    /\ pc[t] = "exit"
    /\ ended' = TRUE
    /\ Goes(t, "idle")
    /\ UNCHANGED <<program, startup, tracker, locals, failed, report, allocs_lock,
                   exiting>>

----
Call(t) ==
    \/ malloc(t) \/ calloc(t) \/ puts(t) \/ strdup(t) \/ free(t)
    \/ reallocMoves(t) \/ reallocFrees(t) \/ reallocFails(t)
    \/ getline(t) \/ fclose(t)

Step(t) ==
    \/ Touch(t) \/ static_malloc(t) \/ noStatic(t) \/ heaph_init(t)
    \/ traceStart(t) \/ poolRead(t) \/ poolTake(t) \/ noBatch(t) \/ listRead(t) \/ listLink(t)
    \/ return(t)
    \/ untraceStart(t) \/ findRead(t) \/ unlink(t) \/ badMemory(t) \/ default_free(t)
    \/ countReturn(t)
    \/ exitRead(t) \/ exitReport(t) \/ exitQuiet(t)

Ended == ended /\ UNCHANGED vars

Next ==
    \/ /\ ~ended
       /\ \E t \in running :
             Call(t) \/ Step(t) \/ countRead(t) \/ exit(t) \/ exitAllocates(t)
    \/ Ended

Spec == Init /\ [][Next]_vars
====
