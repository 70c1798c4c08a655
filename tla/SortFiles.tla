------------------------------ MODULE SortFiles ------------------------------
(***************************************************************************)
(* The sorting program of hw1/solution.c on the library of module Coro:    *)
(* main creates coroutines, each takes files, reads and sorts them with a  *)
(* quicksort that may yield after every comparison, and main merges.       *)
(*                                                                         *)
(* Indices start at 1.  The calls of quicksort that are still to be made   *)
(* are a sequence of frames, the first of them with its partition loop in  *)
(* progress.  Time is abstracted: a quantum may have elapsed at any check. *)
(***************************************************************************)
EXTENDS Coro

CONSTANTS
    FileCount,      \* files on the command line
    Contents,       \* what a file may hold: sequences of numbers, or Missing
    Missing,        \* a path that cannot be opened
    INT_MAX

ASSUME SortAssumption ==
    /\ FileCount \in Nat \ {0} /\ INT_MAX \in Int
    /\ IsFiniteSet(Coros) /\ Coros # {} /\ Coros = 0 .. Cardinality(Coros) - 1
    /\ Null \notin Int \cup Seq(Int) \cup Contents
    /\ Missing \in Contents /\ \A d \in Contents \ {Missing} : d \in Seq(Int)

VARIABLES
    content,        \* the files on the disk
    cur_unsorted, filesData,
    (* Of a coroutine: the slot of curData, and the frames of quicksort. *)
    slot, frames,
    (* Of main: where it is, how many coroutines it has created, and the merge. *)
    main, created, indices, output

sortVars == <<content, cur_unsorted, filesData, slot, frames>>
mainVars == <<main, created, indices, output>>
vars == <<coroVars, sortVars, mainVars>>

FileSet == 1 .. FileCount
Lesser(a, b) == IF a < b THEN a ELSE b
coroutines_num == Cardinality(Coros)

Init ==
    /\ CoroInit
    /\ content \in [FileSet -> Contents]
    /\ cur_unsorted = 0 /\ filesData = [i \in FileSet |-> Null]
    /\ slot = [c \in Coros |-> Null] /\ frames = [c \in Coros |-> <<>>]
    /\ main = "start" /\ created = 0
    /\ indices = [i \in FileSet |-> 0] /\ output = <<>>

-----------------------------------------------------------------------------
(* The coroutines *)

(* Lines 270-272: quicksort(low, high) enters partition, or does nothing. *)
Calls(low, high) ==
    IF low < high THEN <<[low |-> low, high |-> high, i |-> low - 1, j |-> low]>> ELSE <<>>

(* Lines 215-219. *)
Swap(arr, a, b) == [arr EXCEPT ![a] = arr[b], ![b] = arr[a]]

(* Lines 101-107 and 362: the next slot; -1 is Null. *)
haveFiles == IF cur_unsorted < FileCount THEN cur_unsorted + 1 ELSE Null

(* Lines 111-114, 183-212 and 335-348: the path that is taken is the one of *)
(* the slot, as nothing runs between haveFiles and getLastUnsortFile.       *)
TakeFile(c) ==
    /\ coro_this_ptr = c /\ frames[c] = <<>> /\ haveFiles # Null
    /\ cur_unsorted' = cur_unsorted + 1
    /\ LET data == content[cur_unsorted + 1] IN
       \/ /\ data = Missing
          /\ exited' = TRUE
          /\ UNCHANGED <<filesData, slot, frames>>
       \/ /\ data # Missing
          /\ filesData' = [filesData EXCEPT ![haveFiles] = data]
          /\ slot' = [slot EXCEPT ![c] = haveFiles]
          /\ frames' = [frames EXCEPT ![c] = Calls(1, Len(data))]
          /\ UNCHANGED exited
    /\ UNCHANGED <<coro_list, coro_this_ptr, is_sched_waiting, is_finished, switch_count,
                   allocated, content, mainVars>>

BugSwapNext(arr, f) == IF arr[f.j] < arr[f.high] THEN Swap(arr, f.i + 1, f.j + 1) ELSE arr

(* Lines 250-253. *)
Compare(arr, f) == IF arr[f.j] < arr[f.high] THEN Swap(arr, f.i + 1, f.j) ELSE arr

(* Lines 228-241 and 249-256: one turn of the loop, then yield either comes *)
(* back at once or gives the control away.                                  *)
Iterate(c) ==
    /\ coro_this_ptr = c /\ frames[c] # <<>>
    /\ LET f == Head(frames[c])
           arr == filesData[slot[c]]
           moved == IF arr[f.j] < arr[f.high] THEN 1 ELSE 0
       IN  /\ f.j < f.high
           /\ filesData' = [filesData EXCEPT ![slot[c]] = Compare(arr, f)]
           /\ frames' = [frames EXCEPT ![c] = <<[f EXCEPT !.i = @ + moved, !.j = @ + 1]>> \o Tail(@)]
    /\ Yield(c) \/ UNCHANGED coroVars
    /\ UNCHANGED <<content, cur_unsorted, slot, mainVars>>

(* Lines 273-274. *)
Halves(f, pi) == Calls(f.low, pi - 1) \o Calls(pi + 1, f.high)

(* Lines 257-258. *)
EndPartition(c) ==
    /\ coro_this_ptr = c /\ frames[c] # <<>>
    /\ LET f == Head(frames[c]) IN
       /\ f.j = f.high
       /\ filesData' = [filesData EXCEPT ![slot[c]] = Swap(@, f.i + 1, f.high)]
       /\ frames' = [frames EXCEPT ![c] = Halves(f, f.i + 1) \o Tail(@)]
    /\ UNCHANGED <<coroVars, content, cur_unsorted, slot, mainVars>>

(* Lines 336 and 365-368. *)
Finish(c) ==
    /\ coro_this_ptr = c /\ frames[c] = <<>> /\ haveFiles = Null
    /\ Return(c)
    /\ UNCHANGED <<sortVars, mainVars>>

-----------------------------------------------------------------------------
(* main *)

(* Lines 376-405; a call without coroutines or without files is refused or *)
(* divides by zero before anything is started.                             *)
Start ==
    /\ main = "start" /\ main' = "create"
    /\ SchedInit
    /\ UNCHANGED <<sortVars, created, indices, output>>

(* Lines 409-420. *)
Create ==
    /\ main = "create"
    /\ created < Lesser(coroutines_num, FileCount) /\ haveFiles # Null
    /\ New(created) /\ created' = created + 1
    /\ UNCHANGED <<sortVars, main, indices, output>>

CreateEnds ==
    /\ main = "create" /\ created = Lesser(coroutines_num, FileCount)
    /\ main' = "wait"
    /\ UNCHANGED <<coroVars, sortVars, created, indices, output>>

(* Lines 423-426. *)
Reap(c) ==
    /\ main = "wait"
    /\ WaitReturns(c) /\ Delete(c)
    /\ UNCHANGED <<sortVars, mainVars>>

Switch ==
    /\ main = "wait" /\ WaitSwitches
    /\ UNCHANGED <<sortVars, mainVars>>

WaitEnds ==
    /\ main = "wait" /\ WaitEmpty
    /\ main' = "merge"
    /\ UNCHANGED <<coroVars, sortVars, created, indices, output>>

(* Line 304: the files with data left, and line 306: those that hold the   *)
(* smallest value below INT_MAX.                                           *)
Left == {i \in FileSet : indices[i] < Len(filesData[i])}
Next1(i) == filesData[i][indices[i] + 1]
Smallest == {i \in Left : Next1(i) < INT_MAX /\ \A k \in Left : Next1(i) <= Next1(k)}

BugMergeFirst(i) == i \in Left /\ \A k \in Left : i <= k

(* Lines 303-311: of several files the first is taken. *)
Chosen(i) == i \in Smallest /\ \A k \in Smallest : i <= k

(* Lines 313-318. *)
MergeStep ==
    /\ main = "merge"
    /\ \E i \in FileSet :
        /\ Chosen(i)
        /\ output' = Append(output, Next1(i))
        /\ indices' = [indices EXCEPT ![i] = @ + 1]
    /\ UNCHANGED <<coroVars, sortVars, main, created>>

(* The same lines when nothing is below INT_MAX: indices[-1] is counted up,  *)
(* done stays 0, and the next turn finds the same.                           *)
MergeUnderflow ==
    /\ main = "merge" /\ Left # {} /\ Smallest = {}
    /\ output' = Append(output, INT_MAX)
    /\ main' = "underflow"
    /\ UNCHANGED <<coroVars, sortVars, created, indices>>

(* The turns after it, each of which writes INT_MAX again: output keeps the  *)
(* first of these numbers only.                                              *)
MergeLoops == main = "underflow" /\ UNCHANGED vars

(* Lines 298-299 and 320-323. *)
MergeEnds ==
    /\ main = "merge" /\ Left = {}
    /\ main' = "done"
    /\ UNCHANGED <<coroVars, sortVars, created, indices, output>>

Step ==
    \/ Start \/ Create \/ CreateEnds \/ Switch \/ WaitEnds
    \/ MergeStep \/ MergeUnderflow \/ MergeLoops \/ MergeEnds
    \/ \E c \in Coros :
        TakeFile(c) \/ Iterate(c) \/ EndPartition(c) \/ Finish(c) \/ Reap(c)

Ended == exited \/ main = "done"

Next == (~exited /\ Step) \/ (Ended /\ UNCHANGED vars)

(* A process that can go on does. *)
Spec == Init /\ [][Next]_vars /\ WF_vars(~exited /\ Step)
=============================================================================
