---------------------------- MODULE TaskLifecycle ----------------------------
(***************************************************************************)
(* What thread_pool.h promises about a task, whatever the threads of the   *)
(* pool do: a task object is new, then queued, running and done, each push *)
(* being run once, and new again when it is joined.  A task that was       *)
(* detached is deleted when it is done and by nobody before.               *)
(***************************************************************************)
CONSTANT Tasks
VARIABLE status

Status == {"free", "new", "queued", "running", "done",
           "detached_queued", "detached_running"}

(* The moves a task can make.  "done" to "new" is a join, and the first half *)
(* of a detach that finds the task finished.                                 *)
Move == {<<"free", "new">>, <<"new", "free">>, <<"new", "queued">>,
         <<"queued", "running">>, <<"running", "done">>, <<"done", "new">>,
         <<"queued", "detached_queued">>, <<"running", "detached_running">>,
         <<"detached_queued", "detached_running">>,
         <<"detached_running", "free">>}

Init == status = [t \in Tasks |-> "free"]

Step(t) ==
    \E s \in Status : /\ <<status[t], s>> \in Move
                      /\ status' = [status EXCEPT ![t] = s]

Next == \E t \in Tasks : Step(t)

(* One task moves at a time. *)
Spec == Init /\ [][Next]_status
=============================================================================
