------------------------ MODULE ThreadPoolRefinement ------------------------
(***************************************************************************)
(* ThreadPool implements TaskLifecycle.                                    *)
(***************************************************************************)
EXTENDS ThreadPoolProps

(* The state of a task object as thread_pool.h speaks of it, read off the   *)
(* fields of struct thread_task and the workers' local variables.           *)
StatusOf(t) ==
    LET taken == InHand(t) # {}
    IN  CASE t \notin alloc -> "free"
          [] t \in alloc \cap is_detached ->
               IF taken THEN "detached_running" ELSE "detached_queued"
          [] t \in alloc \ (is_detached \cup in_pool) -> "new"
          [] OTHER -> IF t \in is_finished THEN "done"
                      ELSE IF taken THEN "running" ELSE "queued"

Lifecycle == INSTANCE TaskLifecycle
                WITH status <- [t \in Tasks |-> StatusOf(t)]

(* Every step of the pool, of its clients and of its workers is a legal move *)
(* of at most one task of thread_pool.h, or leaves all of them as they are.  *)
ImplementsLifecycle == Lifecycle!Spec
=============================================================================
