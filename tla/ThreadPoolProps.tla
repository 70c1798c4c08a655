--------------------------- MODULE ThreadPoolProps ---------------------------
(***************************************************************************)
(* What must be true of hw4/thread_pool.c.                                 *)
(***************************************************************************)
EXTENDS ThreadPool

At(pcs) == {w \in Workers : wpc[w] \in pcs}

(* The clients inside thread_pool_push_task. *)
InPush == {c \in Clients : cpc[c] \in PushPc}

(* Where the tasks are: in the list, or with a worker that has not finished. *)
InHandPc == {"start_task", "run", "lock_task"}
InHand(t) == {w \in At(InHandPc) : wtask[w] = t}
Listed(t) == {i \in DOMAIN pending_task_list : pending_task_list[i] = t}

TypeOK ==
    /\ live \in BOOLEAN
    /\ mutex \in Workers \cup Clients \cup {None}
    /\ threads \in Seq(Workers \cup {None})
    /\ pending_task_list \in Seq(Tasks)
    /\ pending_task_count \in Int /\ running_task_count \in Int
    /\ max_thread_count \in 1 .. MaxThreads
    /\ thread_count \in Nat /\ idle_thread_count \in Int
    /\ thread_idx_that_should_exit \in Nat \cup {-1}
    /\ alloc \subseteq Tasks /\ in_pool \subseteq Tasks
    /\ is_detached \subseteq Tasks /\ is_running \subseteq Tasks
    /\ is_finished \subseteq Tasks /\ locked \subseteq Tasks
    /\ result \in [Tasks -> 0 .. Gens - 1] /\ gen \in [Tasks -> 0 .. Gens - 1]
    /\ wpc \in [Workers -> WorkerPc] /\ widx \in [Workers -> Nat]
    /\ wtask \in [Workers -> Tasks \cup {None}]
    /\ wresult \in [Workers -> 0 .. Gens - 1]
    /\ cpc \in [Clients -> ClientPc] /\ ctask \in [Clients -> Tasks \cup {None}]
    /\ cint \in [Clients -> Nat] /\ rc \in [Clients -> ReturnCode \cup {None}]

(* A thread that works on a task has one. *)
HasTask ==
    /\ \A w \in Workers : wpc[w] \in InHandPc \cup {"unlock_task"} => wtask[w] \in Tasks
    /\ \A c \in Clients : cpc[c] \in PushPc \cup JoinPc \cup DetachPc
                          <=> ctask[c] \in Tasks

(* pool->mutex excludes: whoever is inside a section that the code runs with *)
(* the mutex held, from one step to the next, is its one owner.              *)
MutexOwners ==
    /\ \A w \in Workers : wpc[w] \in {"check", "lock_task", "unlock_task"}
                          <=> mutex = w
    /\ \A c \in Clients : cpc[c] = "push_spawn" <=> mutex = c

(* Memory of a task that is queued, in the hands of a worker that has not    *)
(* finished it, or the argument of a call in progress, is allocated: none of *)
(* thread_task_delete, thread_task_detach and the worker's own delete frees  *)
(* it under another thread.  (Line 106 is left out, see README.md.)          *)
TaskMemorySafe ==
    /\ \A i \in DOMAIN pending_task_list : pending_task_list[i] \in alloc
    /\ \A w \in At(InHandPc) : wtask[w] \in alloc
    /\ \A c \in Clients : ctask[c] # None => ctask[c] \in alloc

(* A task that was pushed and is not finished is in exactly one place, the   *)
(* pending list or one worker's hands, until it is finished or, detached,    *)
(* deleted; nothing else is in either place.  No push is lost or run twice.  *)
Unfinished(t) == t \in is_detached \cup (in_pool \ is_finished)
Places(t) == ({"list"} \X Listed(t)) \cup ({"hand"} \X InHand(t))
TaskPlacement ==
    \A t \in Tasks : Cardinality(Places(t)) = IF Unfinished(t) THEN 1 ELSE 0

(* What a join returns is the result of the last push of the task, and       *)
(* thread_task_is_running tells whether a worker is in its function.         *)
ResultIsThisRun ==
    /\ \A t \in in_pool \cap is_finished : result[t] = gen[t]
    /\ \A t \in Tasks : t \in is_running <=> \E w \in InHand(t) : wpc[w] # "start_task"

(* The counters of the pool count what their names say, however many pushes  *)
(* overlap: with MutexOwners, idle + running = thread_count whenever the     *)
(* mutex is free, so that thread_pool_delete refuses only because of tasks.  *)
(* The limits hold as far as they do: line 255 lets the mutex go between the *)
(* tests of lines 224 and 241 and what they guard, so that each client that  *)
(* pushes can have max_thread_count threads created, and all but one of them *)
(* can put a task on top of TPOOL_MAX_TASKS.  For one client these are the   *)
(* limits of thread_pool.h:42 and thread_pool.c:224; with two, both can be   *)
(* exceeded, and this says by how much.                                      *)
CountersAgree ==
    live =>
      /\ thread_count = Cardinality(At(WorkerPc \ {"none", "create"}))
      /\ idle_thread_count
           = Cardinality(At({"check", "wait", "wake", "exited"}))
      /\ running_task_count = Cardinality(At(InHandPc))
      /\ pending_task_count = Len(pending_task_list)
      /\ Cardinality(At(WorkerPc \ {"none"}))
           <= Cardinality(Pushers) * max_thread_count
      /\ Len(pending_task_list) + Cardinality(InPush)
           < MaxTasks + Cardinality(Pushers)

(* Until thread_pool_delete frees the pool each worker has the slot of       *)
(* pool->threads that its idx names, so that the loop joins each thread it   *)
(* has told to exit (thread_pool.c:187-191).  Afterwards no thread will use  *)
(* the pool again: every worker has left, no call on it is in progress.      *)
PoolMemorySafe ==
    /\ ~live => At(WorkerPc \ {"none", "exited"}) = {} /\ ~Pushing /\ ~Deleting
    /\ \A w \in At(WorkerPc \ {"none", "exited"}) :
         /\ widx[w] < Len(threads)
         /\ threads[widx[w] + 1] = w

(* The pending list is never left to sleeping workers: as long as a worker   *)
(* waits on pool->cv, there are at least as many workers on their way to the *)
(* list as there are tasks in it (thread_pool.c:264).                        *)
WorkConserving ==
    Waiting # {} => Len(pending_task_list) <= Cardinality(At({"check", "wake"}))

(* A pending task has a worker that will look at the list without being      *)
(* signalled once more: no wake-up of thread_pool_push_task is lost.         *)
NoLostWakeup ==
    pending_task_list # <<>> => At(WorkerPc \ {"none", "wait", "exited"}) # {}

-----------------------------------------------------------------------------
(* What the proofs need besides: these parts are inductive together.         *)

(* What a pool that is in use, being deleted or freed looks like. *)
PoolPhases ==
    /\ pending_task_count = Len(pending_task_list)
    /\ ~live => pending_task_list = <<>> /\ threads = <<>> /\ ~Pushing /\ ~Deleting
    /\ Pushing => threads # <<>> /\ ~Deleting
    /\ Deleting => pending_task_list = <<>>
    /\ \A c, d \in Clients : {cpc[c], cpc[d]} \subseteq DeletePoolPc => c = d
    /\ thread_idx_that_should_exit # -1 => Deleting
    /\ threads # <<>> /\ ~Deleting => At(WorkerPc \ {"none", "exited"}) # {}

(* What is in the pending list or in a worker's hands is there once, is      *)
(* allocated and is unfinished.                                              *)
ListCustody ==
    \A i \in DOMAIN pending_task_list :
      /\ pending_task_list[i] \in alloc /\ Unfinished(pending_task_list[i])
      /\ \A j \in DOMAIN pending_task_list :
           pending_task_list[i] = pending_task_list[j] => i = j

HandCustody ==
    \A w \in Workers : wpc[w] \in InHandPc =>
      /\ wtask[w] \in alloc /\ Unfinished(wtask[w])
      /\ \A i \in DOMAIN pending_task_list : pending_task_list[i] # wtask[w]
      /\ \A v \in Workers : wpc[v] \in InHandPc /\ wtask[v] = wtask[w] => v = w

(* The argument of a call is allocated and, but for joins, nobody else's. *)
ClientCustody ==
    \A c \in Clients : ctask[c] \in Tasks =>
      /\ ctask[c] \in alloc \ is_detached
      /\ cpc[c] \in PushPc => ctask[c] \notin in_pool
      /\ cpc[c] = "detach_lock" => ctask[c] \in in_pool
      /\ cpc[c] = "detach_delete" => ctask[c] \in is_finished \ in_pool
      /\ cpc[c] \notin JoinPc => \A d \in Clients : ctask[d] = ctask[c] => d = c

-----------------------------------------------------------------------------
(* What must happen under FairSpec. *)

(* The clients do not push for ever: the scheduler need not be fair to who   *)
(* waits for a mutex that others take again and again.                       *)
Quiet == <>[][~ \E c \in Clients : PushEnqueue(c)]_vars

(* A task that was pushed comes to its end, however its push, the joins of   *)
(* it and its detach interleave: it is finished, or, detached, deleted.      *)
TasksEnd == Quiet => \A t \in Tasks : []<>~Unfinished(t)

(* Threads of other pushes have raised thread_count past what c waits for:   *)
(* line 253 tests for equality, and c waits for ever.  The signal of line 63 *)
(* may go to c again and again, and be missed by another push.               *)
Overtaken(c) == cpc[c] \in PushPc /\ thread_count > cint[c]

(* A slot of pool->threads that thread_pool_delete will read and no push has *)
(* filled (lines 187-191): two that overlapped have shared another one.      *)
SlotLost ==
    \E i \in 1 .. thread_count : i > Len(threads) \/ threads[i] = None

(* Another join has had the result that c waits for: line 103 wakes one.     *)
ResultTaken(c) ==
    cpc[c] \in {"join_lock", "join_wait", "join_wake"} /\ ctask[c] \notin in_pool

(* Every call that may wait returns (thread_pool.c:191, 253-256, 309-311 and *)
(* 335-363 are what they wait for), but for the three above; in particular a *)
(* timed join with a deadline always does.                                   *)
CallsReturn ==
    Quiet => \A c \in Clients :
      []<>(\/ cpc[c] = "idle"
           \/ cpc[c] \in PushPc /\ \E d \in Clients : Overtaken(d)
           \/ cpc[c] \in DeletePoolPc /\ SlotLost
           \/ ResultTaken(c))

(* "For an infinite timeout pass infinity or DBL_MAX" (thread_pool.h:133):   *)
(* such a join returns, too, when the task is finished.                      *)
InfiniteJoinReturns ==
    Quiet => \A c \in Clients : cpc[c] = "huge_lock" ~> cpc[c] = "idle"
=============================================================================
