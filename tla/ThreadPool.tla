----------------------------- MODULE ThreadPool -----------------------------
(***************************************************************************)
(* The thread pool of hw4/thread_pool.c: worker threads, pending list, task *)
(* objects and the client threads that call the API.                       *)
(*                                                                         *)
(* A step is what a thread does between two points where another thread    *)
(* can see it: a mutex taken or released, a wait on a condition variable,  *)
(* the run of a task's function, an access to a shared field outside of    *)
(* any mutex.  A task is a piece of memory: thread_task_new may hand out   *)
(* again what thread_task_delete has freed.  Clients respect the contract  *)
(* of thread_pool.h (MayCall, MayJoin, MayPush, MayDeletePool).            *)
(*                                                                         *)
(* A definition called Bug... is no part of the model.  It is the next     *)
(* definition with a plausible mistake, and shows that a property notices. *)
(***************************************************************************)
EXTENDS Integers, Sequences, FiniteSets

CONSTANTS
    Workers,     \* identities pthread_create hands out
    Clients,     \* threads that call the API
    Tasks,       \* memory for struct thread_task
    None,        \* no thread, no task, no return code
    Pushers,     \* the clients that push tasks and create and delete the pool
    Owners,      \* Owners[t]: the clients that create, push, detach, delete t
    Joiners,     \* Joiners[t]: the clients that join t
    JoinCalls,   \* the ways of joining that they use, a subset of JoinEntry
    MaxThreads,  \* TPOOL_MAX_THREADS
    MaxTasks,    \* TPOOL_MAX_TASKS
    Gens         \* pushes of one task are told apart modulo Gens

(* Where the calls that join a task begin: thread_task_join, and             *)
(* thread_task_timed_join with a timeout of zero, one whose deadline is a    *)
(* time, and one ("infinity or DBL_MAX", thread_pool.h:133) whose deadline   *)
(* overflows.                                                                *)
JoinEntry == {"join_lock", "zero_lock", "timed_lock", "huge_lock"}

ASSUME ConstantsAssumption ==
    /\ None \notin Workers \cup Clients \cup Tasks
    /\ Workers \cap Clients = {}
    /\ Pushers \subseteq Clients /\ IsFiniteSet(Pushers)
    /\ Owners \in [Tasks -> SUBSET Clients]
    /\ Joiners \in [Tasks -> SUBSET Clients]
    /\ JoinCalls \subseteq JoinEntry
    /\ MaxThreads \in Nat \ {0}
    /\ MaxTasks \in Nat \ {0}
    /\ Gens \in Nat \ {0}

VARIABLES
    (* struct thread_pool.  live: it is allocated; mutex: the thread that    *)
    (* holds it; threads: <<>> is NULL, threads[i + 1] is threads[i] in C.   *)
    live, mutex, threads, pending_task_list, pending_task_count,
    running_task_count, max_thread_count, thread_count, idle_thread_count,
    thread_idx_that_should_exit,
    (* struct thread_task.  The sets of tasks that are allocated, whose pool *)
    (* is not NULL, that have the flags, whose mutex is locked; gen counts   *)
    (* the pushes, and a task's function returns the gen it was pushed with. *)
    alloc, in_pool, is_detached, is_running, is_finished, locked, result, gen,
    (* Where a worker is in _thread_worker, and its locals.                  *)
    wpc, widx, wtask, wresult,
    (* Where a client is in the call it makes, and its locals: cint is       *)
    (* required_thread_count in a push and i in thread_pool_delete; rc is    *)
    (* what the last call has returned.                                      *)
    cpc, ctask, cint, rc

queueVars == <<pending_task_list, pending_task_count, running_task_count,
               thread_count, idle_thread_count>>
lifeVars == <<live, threads, max_thread_count, thread_idx_that_should_exit>>
taskVars == <<alloc, in_pool, is_detached, is_running, is_finished, locked,
              result, gen>>
workerVars == <<wpc, widx, wtask, wresult>>
clientVars == <<cpc, ctask, cint, rc>>
vars == <<mutex, queueVars, lifeVars, taskVars, workerVars, clientVars>>

WorkerPc == {"none", "create", "check", "wait", "wake", "exited",
             "start_task", "run", "lock_task", "unlock_task"}
PushPc == {"push_spawn", "push_wait", "push_wake"}
JoinPc == JoinEntry \cup {"join_wait", "join_wake", "timed_wait", "timed_wake",
                         "timed_expired", "timed_spin"}
DetachPc == {"detach_lock", "detach_delete"}
DeletePoolPc == {"delete_join", "delete_lock"}
ClientPc == {"idle"} \cup PushPc \cup JoinPc \cup DetachPc \cup DeletePoolPc

ReturnCode == {"OK", "INVALID_ARGUMENT", "TOO_MANY_TASKS", "HAS_TASKS",
               "TASK_NOT_PUSHED", "TASK_IN_POOL", "TIMEOUT"}

(* No pool, no task, no worker; the clients have called nothing yet. *)
Init ==
    /\ live = FALSE /\ mutex = None /\ threads = <<>>
    /\ pending_task_list = <<>> /\ pending_task_count = 0
    /\ running_task_count = 0 /\ max_thread_count = 1 /\ thread_count = 0
    /\ idle_thread_count = 0 /\ thread_idx_that_should_exit = -1
    /\ alloc = {} /\ in_pool = {} /\ is_detached = {} /\ is_running = {}
    /\ is_finished = {} /\ locked = {}
    /\ result = [t \in Tasks |-> 0] /\ gen = [t \in Tasks |-> 0]
    /\ wpc = [w \in Workers |-> "none"] /\ widx = [w \in Workers |-> 0]
    /\ wtask = [w \in Workers |-> None] /\ wresult = [w \in Workers |-> 0]
    /\ cpc = [c \in Clients |-> "idle"] /\ ctask = [c \in Clients |-> None]
    /\ cint = [c \in Clients |-> 0] /\ rc = [c \in Clients |-> None]

-----------------------------------------------------------------------------
(* pthread_cond_signal wakes one waiter if there is one.  A woken thread     *)
(* still has to take the mutex.                                              *)
BugSignalNobody(waiting) == {{}}

Signal(waiting) == IF waiting = {} THEN {{}} ELSE {{x} : x \in waiting}

Woken(pc) == CASE pc = "wait" -> "wake"
               [] pc = "push_wait" -> "push_wake"
               [] pc = "join_wait" -> "join_wake"
               [] pc = "timed_wait" -> "timed_wake"

Wake(pcs, S) == [x \in DOMAIN pcs |-> IF x \in S THEN Woken(pcs[x]) ELSE pcs[x]]

(* The waiters on pool->cv, pool->spawn_cv and task->cv. *)
Waiting == {w \in Workers : wpc[w] = "wait"}

BugSpawnUnheard == {}

SpawnWaiting == {c \in Clients : cpc[c] = "push_wait"}

Joining(t) == {c \in Clients : ctask[c] = t /\ cpc[c] \in {"join_wait", "timed_wait"}}

(* A thread goes on at pc; a client begins a call, goes on, returns. *)
WorkerAt(w, pc) == wpc' = [wpc EXCEPT ![w] = pc]

ClientAt(c, pc) == cpc' = [cpc EXCEPT ![c] = pc] /\ UNCHANGED <<ctask, cint, rc>>

Enter(c, t, pc, i) ==
    /\ cpc' = [cpc EXCEPT ![c] = pc] /\ ctask' = [ctask EXCEPT ![c] = t]
    /\ cint' = [cint EXCEPT ![c] = i] /\ rc' = [rc EXCEPT ![c] = None]

Return(c, code) ==
    /\ cpc' = [cpc EXCEPT ![c] = "idle"] /\ ctask' = [ctask EXCEPT ![c] = None]
    /\ cint' = [cint EXCEPT ![c] = 0] /\ rc' = [rc EXCEPT ![c] = code]

BugFieldsUnset(t) ==
    /\ in_pool' = in_pool \ {t} /\ is_detached' = is_detached \ {t}
    /\ is_running' = is_running \ {t} /\ locked' = locked \ {t}
    /\ result' = [result EXCEPT ![t] = None] /\ gen' = [gen EXCEPT ![t] = 0]
    /\ UNCHANGED is_finished

(* Lines 274-283: the fields of a new task, and, whatever it may hold, of    *)
(* memory that has been freed.                                               *)
Blank(t) ==
    /\ in_pool' = in_pool \ {t} /\ is_detached' = is_detached \ {t}
    /\ is_running' = is_running \ {t} /\ is_finished' = is_finished \ {t}
    /\ locked' = locked \ {t}
    /\ result' = [result EXCEPT ![t] = 0] /\ gen' = [gen EXCEPT ![t] = 0]

BugDeleteAnyway(t) == alloc' = alloc \ {t} /\ Blank(t)

(* thread_task_delete: refused while task->pool is set. *)
Delete(t) == IF t \in in_pool THEN UNCHANGED taskVars
                              ELSE alloc' = alloc \ {t} /\ Blank(t)

-----------------------------------------------------------------------------
(* The worker thread. *)

(* Lines 54-66: the thread registers itself and becomes idle.  It holds the *)
(* mutex when it reaches the loop's test ("check").                         *)
WorkerStart(w) ==
    /\ wpc[w] = "create"
    /\ mutex = None
    /\ mutex' = w
    /\ thread_count' = thread_count + 1
    /\ \E S \in Signal(SpawnWaiting) : cpc' = Wake(cpc, S)
    /\ idle_thread_count' = idle_thread_count + 1
    /\ WorkerAt(w, "check")
    /\ UNCHANGED <<pending_task_list, pending_task_count, running_task_count,
                   lifeVars, taskVars, widx, wtask, wresult, ctask, cint, rc>>

(* Lines 68-70: nothing to do, wait on pool->cv. *)
WorkerWait(w) ==
    /\ wpc[w] = "check"
    /\ pending_task_count < 1
    /\ thread_idx_that_should_exit # widx[w]
    /\ mutex' = None
    /\ WorkerAt(w, "wait")
    /\ UNCHANGED <<queueVars, lifeVars, taskVars, widx, wtask, wresult, clientVars>>

(* Line 70: pthread_cond_wait returns with the mutex held. *)
WorkerWake(w) ==
    /\ wpc[w] = "wake"
    /\ mutex = None
    /\ mutex' = w
    /\ WorkerAt(w, "check")
    /\ UNCHANGED <<queueVars, lifeVars, taskVars, widx, wtask, wresult, clientVars>>

(* Lines 73-76 and 108.  The counters go on counting the thread. *)
WorkerExit(w) ==
    /\ wpc[w] = "check"
    /\ thread_idx_that_should_exit = widx[w]
    /\ mutex' = None
    /\ widx' = [widx EXCEPT ![w] = 0]
    /\ WorkerAt(w, "exited")
    /\ UNCHANGED <<queueVars, lifeVars, taskVars, wtask, wresult, clientVars>>

BugStillIdle ==
    /\ pending_task_count' = pending_task_count - 1
    /\ running_task_count' = running_task_count + 1
    /\ UNCHANGED idle_thread_count

(* Lines 83-85. *)
CountTaken ==
    /\ idle_thread_count' = idle_thread_count - 1
    /\ pending_task_count' = pending_task_count - 1
    /\ running_task_count' = running_task_count + 1

(* Lines 78-87: take the head of the pending list. *)
WorkerTake(w) ==
    /\ wpc[w] = "check"
    /\ pending_task_count >= 1
    /\ thread_idx_that_should_exit # widx[w]
    /\ pending_task_list # <<>>
    /\ wtask' = [wtask EXCEPT ![w] = Head(pending_task_list)]
    /\ pending_task_list' = Tail(pending_task_list)
    /\ CountTaken
    /\ mutex' = None
    /\ WorkerAt(w, "start_task")
    /\ UNCHANGED <<thread_count, lifeVars, taskVars, widx, wresult, clientVars>>

(* Line 89, outside of both mutexes. *)
WorkerRun(w) ==
    /\ wpc[w] = "start_task"
    /\ is_running' = is_running \cup {wtask[w]}
    /\ WorkerAt(w, "run")
    /\ UNCHANGED <<mutex, queueVars, lifeVars, alloc, in_pool, is_detached,
                   is_finished, locked, result, gen, widx, wtask, wresult, clientVars>>

(* Lines 90-93: the function returns, and the thread takes the pool's mutex. *)
WorkerReturn(w) ==
    /\ wpc[w] = "run"
    /\ mutex = None
    /\ mutex' = w
    /\ wresult' = [wresult EXCEPT ![w] = gen[wtask[w]]]
    /\ WorkerAt(w, "lock_task")
    /\ UNCHANGED <<queueVars, lifeVars, taskVars, widx, wtask, clientVars>>

BugNoResult(t, value) ==
    /\ is_running' = is_running \ {t}
    /\ is_finished' = is_finished \cup {t}
    /\ locked' = locked \cup {t}
    /\ UNCHANGED <<alloc, in_pool, is_detached, result, gen>>

(* Lines 94 and 101-103. *)
Publish(t, value) ==
    /\ is_running' = is_running \ {t}
    /\ is_finished' = is_finished \cup {t}
    /\ result' = [result EXCEPT ![t] = value]
    /\ locked' = locked \cup {t}
    /\ UNCHANGED <<alloc, in_pool, is_detached, gen>>

(* Lines 94-105: a detached task is deleted, its mutex with it; otherwise   *)
(* the result is published and one joiner is woken.                         *)
WorkerFinish(w) ==
    LET t == wtask[w] IN
    /\ wpc[w] = "lock_task"
    /\ t \notin locked
    /\ running_task_count' = running_task_count - 1
    /\ \/ t \in is_detached /\ Delete(t) /\ UNCHANGED cpc
       \/ /\ t \notin is_detached
          /\ Publish(t, wresult[w])
          /\ \E S \in Signal(Joining(t)) : cpc' = Wake(cpc, S)
    /\ WorkerAt(w, "unlock_task")
    /\ UNCHANGED <<mutex, pending_task_list, pending_task_count, thread_count,
                   idle_thread_count, lifeVars, widx, wtask, wresult,
                   ctask, cint, rc>>

(* pthread_mutex_unlock(&task->mutex) *)
Unlock(t) == locked \ {t}

(* Line 106, whatever has become of the task's memory, then line 66: the    *)
(* thread is idle again and still holds the pool's mutex.                   *)
WorkerUnlock(w) ==
    /\ wpc[w] = "unlock_task"
    /\ locked' = Unlock(wtask[w])
    /\ idle_thread_count' = idle_thread_count + 1
    /\ wtask' = [wtask EXCEPT ![w] = None]
    /\ wresult' = [wresult EXCEPT ![w] = 0]
    /\ WorkerAt(w, "check")
    /\ UNCHANGED <<mutex, pending_task_list, pending_task_count,
                   running_task_count, thread_count, lifeVars, alloc, in_pool,
                   is_detached, is_running, is_finished, result, gen, widx,
                   clientVars>>

WorkerStep(w) ==
    \/ WorkerStart(w) \/ WorkerWait(w) \/ WorkerWake(w) \/ WorkerExit(w)
    \/ WorkerTake(w) \/ WorkerRun(w) \/ WorkerReturn(w) \/ WorkerFinish(w)
    \/ WorkerUnlock(w)

-----------------------------------------------------------------------------
(* What thread_pool.h lets a client do. *)

Busy(t) == {c \in Clients : ctask[c] = t}
Pushing == \E c \in Clients : cpc[c] \in PushPc
Deleting == \E c \in Clients : cpc[c] \in DeletePoolPc

(* "After detach a task can not be accessed via any functions." *)
Accessible(t) == t \in alloc \ is_detached

(* Nobody else is in a call on the task ... *)
MayCall(c, t) ==
    cpc[c] = "idle" /\ c \in Owners[t] /\ Accessible(t) /\ Busy(t) = {}

(* ... but several clients may join the same task. *)
MayJoin(c, t) ==
    /\ cpc[c] = "idle" /\ c \in Joiners[t] /\ Accessible(t)
    /\ \A d \in Busy(t) : cpc[d] \in JoinPc

(* A task is pushed when it is new or joined, to a pool nobody deletes. *)
MayPush(c, t) ==
    c \in Pushers /\ MayCall(c, t) /\ t \notin in_pool /\ live /\ ~Deleting

MayDeletePool(c) ==
    c \in Pushers /\ cpc[c] = "idle" /\ live /\ ~Deleting /\ ~Pushing

-----------------------------------------------------------------------------
(* The pool's life: thread_pool_new and thread_pool_delete. *)

(* Lines 124-126. *)
PoolNewRefused(c, max) ==
    /\ c \in Pushers /\ cpc[c] = "idle" /\ ~live
    /\ max < 1 \/ max > MaxThreads
    /\ Return(c, "INVALID_ARGUMENT")
    /\ UNCHANGED <<mutex, queueVars, lifeVars, taskVars, workerVars>>

(* Lines 129-147. *)
PoolNew(c, max) ==
    /\ c \in Pushers /\ cpc[c] = "idle" /\ ~live
    /\ max >= 1 /\ max <= MaxThreads
    /\ live' = TRUE /\ mutex' = None /\ threads' = <<>>
    /\ max_thread_count' = max /\ thread_count' = 0 /\ idle_thread_count' = 0
    /\ thread_idx_that_should_exit' = -1 /\ pending_task_count' = 0
    /\ running_task_count' = 0 /\ pending_task_list' = <<>>
    /\ wpc' = [w \in Workers |-> "none"]
    /\ Return(c, "OK")
    /\ UNCHANGED <<taskVars, widx, wtask, wresult>>

(* Line 179. *)
HasTasks == \/ running_task_count > 0
            \/ pending_task_count > 0
            \/ idle_thread_count # thread_count

(* Lines 177-182. *)
PoolDeleteRefused(c) ==
    /\ MayDeletePool(c) /\ mutex = None /\ HasTasks
    /\ Return(c, "HAS_TASKS")
    /\ UNCHANGED <<mutex, queueVars, lifeVars, taskVars, workerVars>>

(* Lines 194-205: the pool is freed, and nothing is left of its fields. *)
FreePool(c) ==
    /\ live' = FALSE /\ threads' = <<>> /\ max_thread_count' = 1
    /\ thread_idx_that_should_exit' = -1 /\ pending_task_list' = <<>>
    /\ pending_task_count' = 0 /\ running_task_count' = 0
    /\ thread_count' = 0 /\ idle_thread_count' = 0
    /\ Return(c, "OK")
    /\ UNCHANGED wpc

(* Lines 188-190: tell thread i to exit, wake everybody, let the mutex go. *)
StopThread(c, i) ==
    /\ thread_idx_that_should_exit' = i
    /\ wpc' = Wake(wpc, Waiting)
    /\ Enter(c, None, "delete_join", i)
    /\ UNCHANGED <<live, threads, max_thread_count, queueVars>>

(* Lines 177-190 or, when no push has created a thread, all of the call. *)
PoolDelete(c) ==
    /\ MayDeletePool(c) /\ mutex = None /\ ~HasTasks
    /\ IF threads # <<>> /\ 0 < thread_count THEN StopThread(c, 0) ELSE FreePool(c)
    /\ UNCHANGED <<mutex, taskVars, widx, wtask, wresult>>

BugNoJoin(c) ==
    /\ cpc[c] = "delete_join"
    /\ ClientAt(c, "delete_lock")
    /\ UNCHANGED <<mutex, queueVars, lifeVars, taskVars, workerVars>>

(* Line 191: pthread_join, of a thread of this pool. *)
PoolDeleteJoin(c) ==
    /\ cpc[c] = "delete_join"
    /\ cint[c] < Len(threads)
    /\ \E w \in Workers : w = threads[cint[c] + 1] /\ wpc[w] = "exited"
    /\ ClientAt(c, "delete_lock")
    /\ UNCHANGED <<mutex, queueVars, lifeVars, taskVars, workerVars>>

(* Line 192, and the next turn of the loop or its end. *)
PoolDeleteLock(c) ==
    /\ cpc[c] = "delete_lock"
    /\ mutex = None
    /\ IF cint[c] + 1 < thread_count THEN StopThread(c, cint[c] + 1) ELSE FreePool(c)
    /\ UNCHANGED <<mutex, taskVars, widx, wtask, wresult>>

-----------------------------------------------------------------------------
(* thread_pool_push_task *)

(* Line 224. *)
QueueFull == pending_task_count >= MaxTasks

BugKeepMutex(c, t) ==
    /\ MayPush(c, t) /\ mutex = None /\ QueueFull
    /\ mutex' = c
    /\ Return(c, "TOO_MANY_TASKS")
    /\ UNCHANGED <<queueVars, lifeVars, taskVars, workerVars>>

(* Lines 222-227. *)
PushTooMany(c, t) ==
    /\ MayPush(c, t) /\ mutex = None /\ QueueFull
    /\ Return(c, "TOO_MANY_TASKS")
    /\ UNCHANGED <<mutex, queueVars, lifeVars, taskVars, workerVars>>

(* Lines 232 and 240-241. *)
NeedsThread ==
    threads = <<>> \/ (idle_thread_count = 0 /\ thread_count < max_thread_count)

(* Lines 234-239 and 243-249: the array gets a slot idx for the new thread. *)
(* A slot that realloc adds and nobody has filled holds garbage (None).     *)
ThreadsWith(w, idx) ==
    [i \in 1 .. idx + 1 |-> IF i = idx + 1 THEN w
                            ELSE IF i <= Len(threads) THEN threads[i] ELSE None]

Spawn(w, idx) ==
    /\ wpc[w] = "none"
    /\ threads' = ThreadsWith(w, idx)
    /\ widx' = [widx EXCEPT ![w] = idx]
    /\ WorkerAt(w, "create")

(* Lines 222-251: required_thread_count, and the new thread if one is needed. *)
PushBegin(c, t) ==
    /\ MayPush(c, t) /\ mutex = None /\ ~QueueFull
    /\ mutex' = c
    /\ LET idx == IF threads = <<>> THEN 0 ELSE thread_count
       IN  IF NeedsThread
           THEN /\ \E w \in Workers : Spawn(w, idx)
                /\ Enter(c, t, "push_spawn", idx + 1)
           ELSE /\ Enter(c, t, "push_spawn", thread_count)
                /\ UNCHANGED <<threads, wpc, widx>>
    /\ UNCHANGED <<queueVars, live, max_thread_count,
                   thread_idx_that_should_exit, taskVars, wtask, wresult>>

(* Lines 253-255. *)
PushWait(c) ==
    /\ cpc[c] = "push_spawn"
    /\ thread_count # cint[c]
    /\ mutex' = None
    /\ ClientAt(c, "push_wait")
    /\ UNCHANGED <<queueVars, lifeVars, taskVars, workerVars>>

PushWake(c) ==
    /\ cpc[c] = "push_wake"
    /\ mutex = None
    /\ mutex' = c
    /\ ClientAt(c, "push_spawn")
    /\ UNCHANGED <<queueVars, lifeVars, taskVars, workerVars>>

BugKeepFinished(t) == is_finished

(* Line 261. *)
NoLongerFinished(t) == is_finished \ {t}

BugBusyWillLook == IF running_task_count > 0 THEN {{}} ELSE Signal(Waiting)

(* Line 264. *)
PushWakes == Signal(Waiting)

(* Lines 258-267: the task becomes the head of the list.  Its own mutex is  *)
(* not taken.                                                               *)
PushEnqueue(c) ==
    LET t == ctask[c] IN
    /\ cpc[c] = "push_spawn"
    /\ thread_count = cint[c]
    /\ in_pool' = in_pool \cup {t}
    /\ pending_task_list' = <<t>> \o pending_task_list
    /\ is_finished' = NoLongerFinished(t)
    /\ is_running' = is_running \ {t}
    /\ gen' = [gen EXCEPT ![t] = (@ + 1) % Gens]
    /\ pending_task_count' = pending_task_count + 1
    /\ \E S \in PushWakes : wpc' = Wake(wpc, S)
    /\ mutex' = None
    /\ Return(c, "OK")
    /\ UNCHANGED <<running_task_count, thread_count, idle_thread_count, lifeVars,
                   alloc, is_detached, locked, result, widx, wtask, wresult>>

-----------------------------------------------------------------------------
(* The task's life: thread_task_new and thread_task_delete. *)

TaskNew(c, t) ==
    /\ cpc[c] = "idle" /\ c \in Owners[t] /\ t \notin alloc
    /\ alloc' = alloc \cup {t}
    /\ Blank(t)
    /\ Return(c, "OK")
    /\ UNCHANGED <<mutex, queueVars, lifeVars, workerVars>>

TaskDelete(c, t) ==
    /\ MayCall(c, t)
    /\ Delete(t)
    /\ Return(c, IF t \in in_pool THEN "TASK_IN_POOL" ELSE "OK")
    /\ UNCHANGED <<mutex, queueVars, lifeVars, workerVars>>

-----------------------------------------------------------------------------
(* thread_task_join, thread_task_timed_join, thread_task_detach *)

(* Lines 305, 324 and 385 read task->pool before any lock is taken. *)
NotPushed(c, t) ==
    /\ MayJoin(c, t) \/ MayCall(c, t)
    /\ t \notin in_pool
    /\ Return(c, "TASK_NOT_PUSHED")
    /\ UNCHANGED <<mutex, queueVars, lifeVars, taskVars, workerVars>>

JoinCall(c, t, pc) ==
    /\ MayJoin(c, t)
    /\ t \in in_pool
    /\ Enter(c, t, pc, 0)
    /\ UNCHANGED <<mutex, queueVars, lifeVars, taskVars, workerVars>>

(* Lines 312-316 and 359-363: the task leaves the pool with its result. *)
Collect(c) ==
    /\ in_pool' = in_pool \ {ctask[c]}
    /\ Return(c, "OK")
    /\ UNCHANGED <<alloc, is_detached, is_running, is_finished, locked, result, gen>>

(* Lines 308-316, 328 and 349-363: with the task's mutex, taken the first   *)
(* time or after a wake-up, the client collects the result or waits.        *)
CollectOrWait(c, locking, waiting) ==
    /\ cpc[c] \in locking /\ ctask[c] \notin locked
    /\ IF ctask[c] \in is_finished
       THEN Collect(c)
       ELSE ClientAt(c, waiting) /\ UNCHANGED taskVars
    /\ UNCHANGED <<mutex, queueVars, lifeVars, workerVars>>

JoinLock(c) == CollectOrWait(c, {"join_lock", "join_wake"}, "join_wait")
TimedLock(c) == CollectOrWait(c, {"timed_lock", "timed_wake"}, "timed_wait")

BugZeroCollects(c) ==
    /\ cpc[c] = "zero_lock" /\ ctask[c] \notin locked
    /\ Collect(c)
    /\ UNCHANGED <<mutex, queueVars, lifeVars, workerVars>>

(* Lines 328-334 with a timeout of zero. *)
ZeroLock(c) ==
    /\ cpc[c] = "zero_lock" /\ ctask[c] \notin locked
    /\ IF ctask[c] \in is_finished
       THEN Collect(c)
       ELSE Return(c, "TIMEOUT") /\ UNCHANGED taskVars
    /\ UNCHANGED <<mutex, queueVars, lifeVars, workerVars>>

(* Lines 336-346 for a timeout that no long holds: (long)timeout is LONG_MIN *)
(* on x86-64, and so is the number of nanoseconds, tv_nsec is negative, and  *)
(* pthread_cond_timedwait says EINVAL before it lets the task's mutex go.    *)
HugeLock(c) ==
    /\ cpc[c] = "huge_lock" /\ ctask[c] \notin locked
    /\ IF ctask[c] \in is_finished
       THEN Collect(c)
       ELSE /\ ClientAt(c, "timed_spin")
            /\ locked' = locked \cup {ctask[c]}
            /\ UNCHANGED <<alloc, in_pool, is_detached, is_running, is_finished,
                           result, gen>>
    /\ UNCHANGED <<mutex, queueVars, lifeVars, workerVars>>

(* Lines 349-351: EINVAL is not ETIMEDOUT, and nobody can finish the task as *)
(* long as its mutex is held: the loop goes round and round.                 *)
Spin(c) == cpc[c] = "timed_spin" /\ UNCHANGED vars

(* Line 350: the deadline passes while the thread waits. *)
Timeout(c) ==
    /\ cpc[c] = "timed_wait"
    /\ ClientAt(c, "timed_expired")
    /\ UNCHANGED <<mutex, queueVars, lifeVars, taskVars, workerVars>>

(* Lines 349-356: ETIMEDOUT decides, even if the task is finished by now. *)
TimedExpired(c) ==
    /\ cpc[c] = "timed_expired" /\ ctask[c] \notin locked
    /\ Return(c, "TIMEOUT")
    /\ UNCHANGED <<mutex, queueVars, lifeVars, taskVars, workerVars>>

DetachCall(c, t) ==
    /\ MayCall(c, t)
    /\ t \in in_pool
    /\ Enter(c, t, "detach_lock", 0)
    /\ UNCHANGED <<mutex, queueVars, lifeVars, taskVars, workerVars>>

BugDetachedInPool(t) == in_pool

(* Line 389. *)
OutOfPool(t) == in_pool \ {t}

(* Lines 388-397: unless it is finished, the worker will delete the task. *)
DetachLock(c) ==
    LET t == ctask[c] IN
    /\ cpc[c] = "detach_lock" /\ t \notin locked
    /\ in_pool' = OutOfPool(t)
    /\ IF t \in is_finished
       THEN ClientAt(c, "detach_delete") /\ UNCHANGED is_detached
       ELSE Return(c, "OK") /\ is_detached' = is_detached \cup {t}
    /\ UNCHANGED <<mutex, queueVars, lifeVars, alloc, is_running, is_finished,
                   locked, result, gen, workerVars>>

(* Lines 392-393, after the task's mutex has been released. *)
DetachDelete(c) ==
    /\ cpc[c] = "detach_delete"
    /\ Delete(ctask[c])
    /\ Return(c, "OK")
    /\ UNCHANGED <<mutex, queueVars, lifeVars, workerVars>>

-----------------------------------------------------------------------------
(* POSIX lets any wait on a condition variable return on its own. *)
SpuriousWorker(w) ==
    /\ w \in Waiting
    /\ wpc' = Wake(wpc, {w})
    /\ UNCHANGED <<mutex, queueVars, lifeVars, taskVars, widx, wtask, wresult,
                   clientVars>>

SpuriousClient(c) ==
    /\ cpc[c] \in {"push_wait", "join_wait", "timed_wait"}
    /\ cpc' = Wake(cpc, {c})
    /\ UNCHANGED <<mutex, queueVars, lifeVars, taskVars, workerVars, ctask, cint, rc>>

Spurious == \/ \E w \in Workers : SpuriousWorker(w)
            \/ \E c \in Clients : SpuriousClient(c)

(* A client begins a call; a call that needs no second step is all of it. *)
ClientCall(c) ==
    \/ \E max \in 0 .. MaxThreads + 1 : PoolNew(c, max) \/ PoolNewRefused(c, max)
    \/ PoolDelete(c) \/ PoolDeleteRefused(c)
    \/ \E t \in Tasks :
         \/ PushBegin(c, t) \/ PushTooMany(c, t)
         \/ TaskNew(c, t) \/ TaskDelete(c, t)
         \/ NotPushed(c, t) \/ DetachCall(c, t)
         \/ \E pc \in JoinCalls : JoinCall(c, t, pc)

(* A client goes on with its call. *)
ClientStep(c) ==
    \/ PushWait(c) \/ PushWake(c) \/ PushEnqueue(c)
    \/ JoinLock(c) \/ ZeroLock(c) \/ TimedLock(c) \/ Timeout(c)
    \/ TimedExpired(c) \/ HugeLock(c) \/ Spin(c) \/ DetachLock(c) \/ DetachDelete(c)
    \/ PoolDeleteJoin(c) \/ PoolDeleteLock(c)

Next == \/ \E w \in Workers : WorkerStep(w)
        \/ \E c \in Clients : ClientCall(c) \/ ClientStep(c)
        \/ Spurious

Spec == Init /\ [][Next]_vars

(* The scheduler runs every thread that can run, task functions return, and *)
(* spurious wake-ups do not go on for ever.  Nobody has to begin a call.    *)
Fairness ==
    /\ \A w \in Workers : WF_vars(WorkerStep(w))
    /\ \A c \in Clients : WF_vars(ClientStep(c))
    /\ <>[][~Spurious]_vars

FairSpec == Spec /\ Fairness
=============================================================================
