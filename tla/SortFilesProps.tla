--------------------------- MODULE SortFilesProps ---------------------------
(***************************************************************************)
(* What the coroutine library and the sorting program promise.             *)
(***************************************************************************)
EXTENDS SortFiles

(* Every variable holds what its C declaration allows. *)
TypeOK ==
    /\ coro_list \in Seq(allocated) /\ allocated \subseteq Coros
    /\ coro_this_ptr \in Coros \cup {Sched, Null}
    /\ is_sched_waiting \in BOOLEAN /\ exited \in BOOLEAN
    /\ is_finished \in [Coros -> BOOLEAN]
    /\ switch_count \in [Coros \cup {Sched} -> Nat]
    /\ cur_unsorted \in 0 .. FileCount /\ created \in 0 .. Cardinality(Coros)
    /\ slot \in [Coros -> FileSet \cup {Null}]
    /\ main \in {"start", "create", "wait", "merge", "done", "underflow"}
    /\ indices \in [FileSet -> Nat]

(* Control is only ever handed to a coroutine that still has a context to   *)
(* come back to: one that is allocated, in the list and not finished, while *)
(* the scheduler waits.  A finished coroutine leaves the list before        *)
(* anything else runs (libcoro.c:134-142 and 178).                          *)
ControlIsAlive ==
    /\ TypeOK
    /\ coro_this_ptr \in Coros =>
        /\ coro_this_ptr \in ToSet(coro_list) /\ is_sched_waiting
        /\ \A c \in ToSet(coro_list) : ~is_finished[c]
    /\ exited => \E i \in FileSet : content[i] = Missing
    /\ Cardinality({c \in ToSet(coro_list) : is_finished[c]}) <= 1

(* No coroutine is overtaken: of two that are not finished, the one nearer  *)
(* to the head of the list has had as many turns as the other, or at most   *)
(* one more for the turn in progress and one for every coroutine that has   *)
(* finished, as each of these sends the scheduler back to the head          *)
(* (libcoro.c:118 and 134).                                                 *)
TurnsFair ==
    \A i, k \in DOMAIN coro_list : i < k =>
        LET ahead == switch_count[coro_list[i]] - switch_count[coro_list[k]]
            gone == Cardinality({c \in 0 .. created - 1 : is_finished[c]})
        IN  main = "wait" => ahead \in 0 .. 1 + gone

Occurrences(s, v) == Cardinality({k \in DOMAIN s : s[k] = v})
Values == UNION {ToSet(content[i]) : i \in {k \in FileSet : content[k] # Missing}}
SameValues(s, t) == \A v \in Values : Occurrences(s, v) = Occurrences(t, v)
Sorted(s) == \A k \in 2 .. Len(s) : s[k - 1] <= s[k]

(* However the coroutines are interleaved, a file that was taken is in its  *)
(* own slot with its own numbers in some order, no two coroutines sort the  *)
(* same one, and one that nobody is sorting any more is sorted              *)
(* (solution.c:331-363).  When main merges, every slot has been filled:     *)
(* what malloc left in filesData (solution.c:399) is never read.            *)
SlotsPaired ==
    /\ \A i \in FileSet : filesData[i] # Null =>
        /\ i <= cur_unsorted
        /\ Len(filesData[i]) = Len(content[i]) /\ SameValues(filesData[i], content[i])
        /\ Sorted(filesData[i]) \/ \E c \in Coros : slot[c] = i /\ frames[c] # <<>>
    /\ \A c, d \in Coros : c # d /\ slot[c] = slot[d] => slot[c] = Null
    /\ main \in {"merge", "done", "underflow"} =>
        \A i \in FileSet : filesData[i] # Null /\ Sorted(filesData[i])

(* The output is the numbers of all the files in order (solution.c:281-324). *)
OutputSorted ==
    /\ Sorted(output)
    /\ main = "done" => \A v \in Values :
        Occurrences(output, v) =
            Cardinality({p \in FileSet \X (1 .. Len(output)) :
                            p[2] <= Len(content[p[1]]) /\ content[p[1]][p[2]] = v})

(* Files that can all be opened, with INT_MAX among their numbers. *)
Endless ==
    /\ \A i \in FileSet : content[i] # Missing
    /\ \E i \in FileSet : INT_MAX \in ToSet(content[i])

(* Every coroutine gets its turns until all the files are sorted, and then  *)
(* the merge takes everything and the program comes to an end, unless one   *)
(* of the numbers is INT_MAX: with such a number left the loop of           *)
(* solution.c:299-319 finds nothing to take and never leaves.               *)
ProgramEnds ==
    /\ ~Endless => <>Ended
    /\ Endless => <>[](main = "underflow")
=============================================================================
