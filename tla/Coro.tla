-------------------------------- MODULE Coro --------------------------------
(***************************************************************************)
(* The coroutine library of hw1/libcoro.c: the list of coroutines, the     *)
(* scheduler that waits for them and the hand-over of control.             *)
(*                                                                         *)
(* One coroutine runs at a time and gives control away by itself.  What    *)
(* sigsetjmp keeps of it is its own state in the module that uses this     *)
(* one; the operators below are the calls that such a module makes.        *)
(***************************************************************************)
EXTENDS Integers, Sequences, SequencesExt

CONSTANTS
    Coros,          \* memory for struct coro
    Sched,          \* coro_sched
    Null            \* NULL

ASSUME CoroAssumption == Sched \notin Coros /\ Null \notin Coros \cup {Sched}

VARIABLES
    coro_list,          \* the list that starts at coro_list
    coro_this_ptr, is_sched_waiting,
    is_finished, switch_count,
    allocated,          \* the coroutines between coro_new and coro_delete
    exited              \* has the process called exit?

coroVars == <<coro_list, coro_this_ptr, is_sched_waiting, is_finished,
              switch_count, allocated, exited>>

CoroInit ==
    /\ coro_list = <<>> /\ coro_this_ptr = Null /\ is_sched_waiting = FALSE
    /\ is_finished = [c \in Coros |-> FALSE]
    /\ switch_count = [c \in Coros \cup {Sched} |-> 0]
    /\ allocated = {} /\ exited = FALSE

(* Lines 123-128. *)
SchedInit ==
    /\ coro_this_ptr' = Sched
    /\ switch_count' = [switch_count EXCEPT ![Sched] = 0]
    /\ UNCHANGED <<coro_list, is_sched_waiting, is_finished, allocated, exited>>

(* Lines 186-258: the excursion to the new stack and back leaves the        *)
(* current coroutine as it was.                                             *)
New(c) ==
    /\ c \notin allocated
    /\ allocated' = allocated \cup {c}
    /\ is_finished' = [is_finished EXCEPT ![c] = FALSE]
    /\ switch_count' = [switch_count EXCEPT ![c] = 0]
    /\ coro_list' = <<c>> \o coro_list
    /\ UNCHANGED <<coro_this_ptr, is_sched_waiting, exited>>

(* Lines 53-61 and 116-120: whom c yields to. *)
BugSuccessor(c) == Sched

Successor(c) ==
    LET later == {i \in DOMAIN coro_list : i > 1 /\ coro_list[i - 1] = c}
    IN  IF later = {} THEN Sched ELSE coro_list[CHOOSE i \in later : TRUE]

(* Lines 101-110. *)
YieldTo(to) ==
    /\ switch_count' = [switch_count EXCEPT ![coro_this_ptr] = @ + 1]
    /\ coro_this_ptr' = to

(* Lines 112-121; the scheduler goes on at line 142. *)
Yield(c) ==
    /\ coro_this_ptr = c
    /\ YieldTo(Successor(c))
    /\ is_sched_waiting' = (is_sched_waiting /\ coro_this_ptr' # Sched)
    /\ UNCHANGED <<coro_list, is_finished, allocated, exited>>

(* Lines 175-183: the function of c returns. *)
Return(c) ==
    /\ coro_this_ptr = c
    /\ is_finished' = [is_finished EXCEPT ![c] = TRUE]
    /\ exited' = ~is_sched_waiting
    /\ coro_this_ptr' = Sched
    /\ is_sched_waiting' = FALSE
    /\ UNCHANGED <<coro_list, switch_count, allocated>>

(* Lines 134-135: the first finished coroutine of the list is c, at place i. *)
FirstFinished(c, i) ==
    /\ coro_list[i] = c /\ is_finished[c]
    /\ \A j \in 1 .. i - 1 : ~is_finished[coro_list[j]]

BugKeepsLinked(c) ==
    /\ coro_this_ptr = Sched /\ \E i \in DOMAIN coro_list : FirstFinished(c, i)
    /\ UNCHANGED <<coro_list, coro_this_ptr, is_sched_waiting, is_finished, switch_count, exited>>

(* Lines 63-74 and 135-138. *)
WaitReturns(c) ==
    /\ coro_this_ptr = Sched
    /\ \E i \in DOMAIN coro_list :
        /\ FirstFinished(c, i)
        /\ coro_list' = RemoveAt(coro_list, i)
    /\ UNCHANGED <<coro_this_ptr, is_sched_waiting, is_finished, switch_count, exited>>

BugSwitchAnyway ==
    /\ coro_this_ptr = Sched /\ coro_list # <<>>
    /\ is_sched_waiting' = TRUE /\ YieldTo(Head(coro_list))
    /\ UNCHANGED <<coro_list, is_finished, allocated, exited>>

(* Lines 140-141: none is finished, the first one gets the control. *)
WaitSwitches ==
    /\ coro_this_ptr = Sched
    /\ coro_list # <<>> /\ \A c \in ToSet(coro_list) : ~is_finished[c]
    /\ is_sched_waiting' = TRUE
    /\ YieldTo(Head(coro_list))
    /\ UNCHANGED <<coro_list, is_finished, allocated, exited>>

(* Lines 132 and 144. *)
WaitEmpty == coro_this_ptr = Sched /\ coro_list = <<>>

(* Lines 94-99. *)
Delete(c) == allocated' = allocated \ {c}
=============================================================================
