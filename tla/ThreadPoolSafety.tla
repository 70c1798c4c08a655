-------------------------- MODULE ThreadPoolSafety --------------------------
(***************************************************************************)
(* Safety of the pool of hw4/thread_pool.c, proved for any number of       *)
(* threads, clients and tasks: types, mutual exclusion, wake-ups, the      *)
(* counters and the array of threads.                                      *)
(***************************************************************************)
EXTENDS ThreadPoolProps, FiniteSetTheorems, TLAPS


(* The steps of the calls on the pool, of a push, and of the calls on a task. *)
PoolCall(c) ==
    \/ \E max \in 0 .. MaxThreads + 1 : PoolNew(c, max) \/ PoolNewRefused(c, max)
    \/ PoolDelete(c) \/ PoolDeleteRefused(c)
    \/ PoolDeleteJoin(c) \/ PoolDeleteLock(c)

PushCall(c) ==
    \/ \E t \in Tasks : PushBegin(c, t) \/ PushTooMany(c, t)
    \/ PushWait(c) \/ PushWake(c) \/ PushEnqueue(c)

TaskCall(c) ==
    \/ \E t \in Tasks : \/ TaskNew(c, t) \/ TaskDelete(c, t)
                        \/ NotPushed(c, t) \/ DetachCall(c, t)
                        \/ \E pc \in JoinEntry : JoinCall(c, t, pc)
    \/ JoinLock(c) \/ ZeroLock(c) \/ TimedLock(c) \/ HugeLock(c) \/ Timeout(c)
    \/ TimedExpired(c) \/ DetachLock(c) \/ DetachDelete(c)

(* Every step but the turn of a loop that changes nothing (line 350). *)
Moves ==
    \/ \E w \in Workers : WorkerStep(w)
    \/ \E c \in Clients : PoolCall(c) \/ PushCall(c) \/ TaskCall(c)
    \/ Spurious

LEMMA NextSteps ==
    ASSUME [Next]_vars
    PROVE  Moves \/ UNCHANGED vars
BY ConstantsAssumption
DEF Moves, Next, ClientCall, ClientStep, Spin, PoolCall, PushCall, TaskCall

(* What a signal may wake: nobody if nobody waits, and else one waiter. *)
LEMMA SignalOne ==
    ASSUME NEW W, NEW S \in Signal(W)
    PROVE  /\ S \subseteq W
           /\ W # {} => \E x \in W : S = {x}
BY DEF Signal

(* Waking waiting workers moves them, and nobody else, from wait to wake. *)
LEMMA WakeWorkers ==
    ASSUME wpc \in [Workers -> WorkerPc], NEW S \in SUBSET Waiting
    PROVE  /\ Wake(wpc, S) \in [Workers -> WorkerPc]
           /\ \A w \in Workers : Wake(wpc, S)[w] = IF w \in S THEN "wake" ELSE wpc[w]
BY DEF Wake, Woken, Waiting, WorkerPc

WorkersWoken ==
    /\ wpc' \in [Workers -> WorkerPc]
    /\ \A w \in Workers : wpc'[w] = wpc[w] \/ (wpc[w] = "wait" /\ wpc'[w] = "wake")

LEMMA WorkersSignalled ==
    ASSUME wpc \in [Workers -> WorkerPc], NEW S \in SUBSET Waiting, wpc' = Wake(wpc, S)
    PROVE  WorkersWoken
<1>1. \A w \in Workers : wpc'[w] = IF w \in S THEN "wake" ELSE wpc[w]
  BY WakeWorkers
<1>2. wpc' \in [Workers -> WorkerPc]
  BY WakeWorkers
<1> QED BY <1>1, <1>2 DEF WorkersWoken, Waiting

(* The same for clients: each stays where it is or leaves its wait. *)
ClientsWoken ==
    /\ cpc' \in [Clients -> ClientPc]
    /\ \A c \in Clients : \/ cpc'[c] = cpc[c]
                          \/ cpc[c] = "push_wait" /\ cpc'[c] = "push_wake"
                          \/ cpc[c] = "join_wait" /\ cpc'[c] = "join_wake"
                          \/ cpc[c] = "timed_wait" /\ cpc'[c] = "timed_wake"

LEMMA WakeClients ==
    ASSUME cpc \in [Clients -> ClientPc], NEW S \in SUBSET Clients,
           \A c \in S : cpc[c] \in {"push_wait", "join_wait", "timed_wait"},
           cpc' = Wake(cpc, S)
    PROVE  ClientsWoken
<1>1. cpc' = [c \in Clients |-> IF c \in S THEN Woken(cpc[c]) ELSE cpc[c]]
  BY DEF Wake
<1>2. /\ Woken("push_wait") = "push_wake"
      /\ Woken("join_wait") = "join_wake"
      /\ Woken("timed_wait") = "timed_wake"
  BY DEF Woken
<1> QED BY <1>1, <1>2 DEF ClientsWoken, ClientPc, PushPc, JoinPc, JoinEntry

LEMMA SpawnSignalled ==
    ASSUME cpc \in [Clients -> ClientPc],
           \E S \in Signal(SpawnWaiting) : cpc' = Wake(cpc, S)
    PROVE  ClientsWoken
<1>1. PICK S \in Signal(SpawnWaiting) : cpc' = Wake(cpc, S)
  OBVIOUS
<1>2. S \subseteq SpawnWaiting
  BY SignalOne
<1> QED BY <1>1, <1>2, WakeClients DEF SpawnWaiting

LEMMA JoinersSignalled ==
    ASSUME cpc \in [Clients -> ClientPc], NEW t,
           \E S \in Signal(Joining(t)) : cpc' = Wake(cpc, S)
    PROVE  ClientsWoken
<1>1. PICK S \in Signal(Joining(t)) : cpc' = Wake(cpc, S)
  OBVIOUS
<1>2. S \subseteq Joining(t)
  BY SignalOne
<1> QED BY <1>1, <1>2, WakeClients DEF Joining

LEMMA ThreadsWithType ==
    ASSUME threads \in Seq(Workers \cup {None}), NEW w \in Workers, NEW idx \in Nat
    PROVE  ThreadsWith(w, idx) \in Seq(Workers \cup {None})
<1>1. ThreadsWith(w, idx) \in [1 .. idx + 1 -> Workers \cup {None}]
  BY DEF ThreadsWith
<1> QED BY <1>1, idx + 1 \in Nat

TypeInv == TypeOK /\ HasTask

TaskTypeOK ==
    /\ alloc \subseteq Tasks /\ in_pool \subseteq Tasks
    /\ is_detached \subseteq Tasks /\ is_running \subseteq Tasks
    /\ is_finished \subseteq Tasks /\ locked \subseteq Tasks
    /\ result \in [Tasks -> 0 .. Gens - 1] /\ gen \in [Tasks -> 0 .. Gens - 1]

LEMMA BlankType ==
    ASSUME TypeOK, NEW t \in Tasks, alloc' \subseteq Tasks, Blank(t)
    PROVE  TaskTypeOK'
BY ConstantsAssumption DEF TypeOK, TaskTypeOK, Blank

LEMMA DeleteType ==
    ASSUME TypeOK, NEW t \in Tasks, Delete(t)
    PROVE  TaskTypeOK'
<1>1. CASE t \in in_pool
  BY <1>1 DEF Delete, TypeOK, TaskTypeOK, taskVars
<1>2. CASE t \notin in_pool
  BY <1>2, BlankType DEF Delete, TypeOK
<1> QED BY <1>1, <1>2

ClientTypeOK ==
    /\ cpc \in [Clients -> ClientPc] /\ ctask \in [Clients -> Tasks \cup {None}]
    /\ cint \in [Clients -> Nat] /\ rc \in [Clients -> ReturnCode \cup {None}]
    /\ \A c \in Clients : cpc[c] \in PushPc \cup JoinPc \cup DetachPc
                          <=> ctask[c] \in Tasks

(* Entering, going on with and leaving a call keep the clients' types. *)
LEMMA CallType ==
    ASSUME TypeInv, NEW c \in Clients
    PROVE  /\ \A t \in Tasks, pc \in PushPc \cup JoinPc \cup DetachPc, i \in Nat :
                Enter(c, t, pc, i) => ClientTypeOK'
           /\ \A i \in Nat : Enter(c, None, "delete_join", i) => ClientTypeOK'
           /\ \A code \in ReturnCode : Return(c, code) => ClientTypeOK'
<1> USE ConstantsAssumption DEF TypeInv, TypeOK, HasTask, ClientTypeOK, ClientPc,
        PushPc, JoinPc, JoinEntry, DetachPc, DeletePoolPc
<1>1. ASSUME NEW t \in Tasks, NEW pc \in PushPc \cup JoinPc \cup DetachPc,
             NEW i \in Nat, Enter(c, t, pc, i)
      PROVE  ClientTypeOK'
  BY <1>1 DEF Enter
<1>2. ASSUME NEW i \in Nat, Enter(c, None, "delete_join", i)
      PROVE  ClientTypeOK'
  BY <1>2 DEF Enter
<1>3. ASSUME NEW code \in ReturnCode, Return(c, code)
      PROVE  ClientTypeOK'
  BY <1>3 DEF Return
<1> QED BY <1>1, <1>2, <1>3

LEMMA GoOnType ==
    ASSUME TypeInv, NEW c \in Clients,
           NEW pc \in ClientPc, ClientAt(c, pc),
           cpc[c] \in PushPc \cup JoinPc \cup DetachPc
             <=> pc \in PushPc \cup JoinPc \cup DetachPc
    PROVE  ClientTypeOK'
BY DEF TypeInv, TypeOK, HasTask, ClientTypeOK, ClientAt

LEMMA TypeWorkers ==
    ASSUME TypeInv, NEW w \in Workers, WorkerStep(w)
    PROVE  TypeInv'
<1> USE ConstantsAssumption
    DEF TypeInv, TypeOK, HasTask, WorkerAt, InHandPc, WorkerPc,
        queueVars, lifeVars, taskVars, workerVars, clientVars
<1>1. CASE WorkerStart(w)
  <2>1. ClientsWoken
    BY <1>1, SpawnSignalled DEF WorkerStart
  <2> QED BY <1>1, <2>1 DEF WorkerStart, ClientsWoken, PushPc, JoinPc, JoinEntry, DetachPc
<1>2. CASE WorkerWait(w)
  BY <1>2 DEF WorkerWait
<1>3. CASE WorkerWake(w)
  BY <1>3 DEF WorkerWake
<1>4. CASE WorkerExit(w)
  BY <1>4 DEF WorkerExit
<1>5. CASE WorkerTake(w)
  BY SMTT(30), <1>5 DEF WorkerTake, CountTaken
<1>6. CASE WorkerRun(w)
  BY <1>6 DEF WorkerRun
<1>7. CASE WorkerReturn(w)
  BY <1>7 DEF WorkerReturn
<1>8. CASE WorkerFinish(w)
  <2>1. ClientsWoken \/ UNCHANGED cpc
    BY <1>8, JoinersSignalled DEF WorkerFinish
  <2>2. wtask[w] \in Tasks
    BY <1>8 DEF WorkerFinish
  <2>3. TaskTypeOK'
    <3>1. CASE wtask[w] \in is_detached /\ Delete(wtask[w])
      BY <2>2, <3>1, DeleteType
    <3>2. CASE Publish(wtask[w], wresult[w])
      BY <2>2, <3>2 DEF Publish, TaskTypeOK
    <3> QED BY <1>8, <3>1, <3>2 DEF WorkerFinish
  <2> QED BY SMTT(30), <1>8, <2>1, <2>3
          DEF WorkerFinish, TaskTypeOK, ClientsWoken, PushPc, JoinPc, JoinEntry, DetachPc
<1>9. CASE WorkerUnlock(w)
  BY <1>9 DEF WorkerUnlock, Unlock
<1> QED BY <1>1, <1>2, <1>3, <1>4, <1>5, <1>6, <1>7, <1>8, <1>9 DEF WorkerStep

(* The fields of a pool that has been freed. *)
LEMMA EmptyPoolType ==
    /\ <<>> \in Seq(Tasks) /\ <<>> \in Seq(Workers \cup {None})
    /\ 1 \in 1 .. MaxThreads /\ -1 \in Nat \cup {-1}
    /\ 0 \in Int /\ 0 \in Nat
BY ConstantsAssumption

LEMMA TypePool ==
    ASSUME TypeInv, NEW c \in Clients, PoolCall(c)
    PROVE  TypeInv'
<1> USE ConstantsAssumption
    DEF TypeInv, TypeOK, HasTask, queueVars, lifeVars, taskVars, workerVars,
        InHandPc, WorkerPc, ReturnCode
<1>1. ASSUME NEW i \in Nat, StopThread(c, i) \/ FreePool(c),
             UNCHANGED <<mutex, taskVars, widx, wtask, wresult>>
      PROVE  TypeInv'
  <2>1. ClientTypeOK'
    BY <1>1, CallType DEF StopThread, FreePool
  <2>2. /\ wpc' \in [Workers -> WorkerPc]
        /\ \A w \in Workers : wpc'[w] = wpc[w] \/ wpc'[w] = "wake"
    <3>1. CASE wpc' = Wake(wpc, Waiting)
      BY <3>1, WakeWorkers
    <3> QED BY <1>1, <3>1 DEF StopThread, FreePool
  <2>3. CASE StopThread(c, i)
    <3>1. UNCHANGED <<live, threads, max_thread_count, queueVars>>
          /\ thread_idx_that_should_exit' \in Nat
      BY <2>3 DEF StopThread
    <3> QED BY <1>1, <2>1, <2>2, <3>1 DEF ClientTypeOK
  <2>4. CASE FreePool(c)
    <3>1. /\ live' = FALSE /\ threads' = <<>> /\ max_thread_count' = 1
          /\ thread_idx_that_should_exit' = -1 /\ pending_task_list' = <<>>
          /\ pending_task_count' = 0 /\ running_task_count' = 0
          /\ thread_count' = 0 /\ idle_thread_count' = 0
      BY <2>4 DEF FreePool
    <3> QED BY <1>1, <2>1, <2>2, <3>1, EmptyPoolType, Zenon DEF ClientTypeOK
  <2> QED BY <1>1, <2>3, <2>4
<1>2. ASSUME NEW max \in 0 .. MaxThreads + 1, PoolNew(c, max)
      PROVE  TypeInv'
  <2>1. ClientTypeOK'
    BY <1>2, CallType DEF PoolNew
  <2> QED BY <1>2, <2>1 DEF PoolNew, ClientTypeOK
<1>3. ASSUME NEW max \in 0 .. MaxThreads + 1, PoolNewRefused(c, max)
      PROVE  TypeInv'
  <2>1. ClientTypeOK'
    BY <1>3, CallType DEF PoolNewRefused
  <2> QED BY <1>3, <2>1 DEF PoolNewRefused, ClientTypeOK
<1>4. CASE PoolDelete(c)
  BY <1>4, <1>1 DEF PoolDelete
<1>5. CASE PoolDeleteRefused(c)
  <2>1. ClientTypeOK'
    BY <1>5, CallType DEF PoolDeleteRefused
  <2> QED BY <1>5, <2>1 DEF PoolDeleteRefused, ClientTypeOK
<1>6. CASE PoolDeleteJoin(c)
  <2>1. ClientTypeOK'
    BY <1>6, GoOnType
    DEF PoolDeleteJoin, ClientPc, PushPc, JoinPc, JoinEntry, DetachPc, DeletePoolPc
  <2> QED BY <1>6, <2>1 DEF PoolDeleteJoin, ClientTypeOK
<1>7. CASE PoolDeleteLock(c)
  <2>1. cint[c] + 1 \in Nat
    OBVIOUS
  <2> QED BY <1>7, <2>1, <1>1 DEF PoolDeleteLock
<1> QED BY <1>2, <1>3, <1>4, <1>5, <1>6, <1>7 DEF PoolCall

LEMMA TypePush ==
    ASSUME TypeInv, NEW c \in Clients, PushCall(c)
    PROVE  TypeInv'
<1> USE ConstantsAssumption
    DEF TypeInv, TypeOK, HasTask, queueVars, lifeVars, taskVars, workerVars,
        InHandPc, WorkerPc, ReturnCode
<1>1. ASSUME NEW t \in Tasks, PushBegin(c, t)
      PROVE  TypeInv'
  <2> DEFINE idx == IF threads = <<>> THEN 0 ELSE thread_count
  <2>1. ClientTypeOK'
    BY <1>1, CallType, "push_spawn" \in PushPc, idx + 1 \in Nat DEF PushBegin, PushPc
  <2>2. CASE NeedsThread
    <3>1. PICK w \in Workers : Spawn(w, idx)
      BY <1>1, <2>2 DEF PushBegin
    <3>2. idx \in Nat
      OBVIOUS
    <3>3. threads' \in Seq(Workers \cup {None})
      BY <3>1, <3>2, ThreadsWithType DEF Spawn
    <3>4. wpc' \in [Workers -> WorkerPc] /\ widx' \in [Workers -> Nat]
      BY <3>1, <3>2 DEF Spawn, WorkerAt
    <3>5. UNCHANGED <<queueVars, live, max_thread_count, thread_idx_that_should_exit,
                      taskVars, wtask, wresult>> /\ mutex' = c
      BY <1>1 DEF PushBegin
    <3>6. \A v \in Workers : wpc'[v] \in InHandPc \cup {"unlock_task"} => wtask'[v] \in Tasks
      BY <3>1, <3>5 DEF Spawn, WorkerAt
    <3> QED BY <2>1, <3>3, <3>4, <3>5, <3>6 DEF ClientTypeOK
  <2>3. CASE ~NeedsThread
    BY <1>1, <2>1, <2>3 DEF PushBegin, ClientTypeOK
  <2> QED BY <2>2, <2>3
<1>2. ASSUME NEW t \in Tasks, PushTooMany(c, t)
      PROVE  TypeInv'
  <2>1. ClientTypeOK'
    BY <1>2, CallType DEF PushTooMany
  <2> QED BY <1>2, <2>1 DEF PushTooMany, ClientTypeOK
<1>3. CASE PushWait(c)
  <2>1. ClientTypeOK'
    BY <1>3, GoOnType DEF PushWait, ClientPc, PushPc
  <2> QED BY <1>3, <2>1 DEF PushWait, ClientTypeOK
<1>4. CASE PushWake(c)
  <2>1. ClientTypeOK'
    BY <1>4, GoOnType DEF PushWake, ClientPc, PushPc
  <2> QED BY <1>4, <2>1 DEF PushWake, ClientTypeOK
<1>5. CASE PushEnqueue(c)
  <2>1. ClientTypeOK'
    BY <1>5, CallType DEF PushEnqueue
  <2>2. WorkersWoken
    <3>1. PICK S \in SUBSET Waiting : wpc' = Wake(wpc, S)
      BY <1>5, SignalOne DEF PushEnqueue, PushWakes
    <3> QED BY <3>1, WorkersSignalled
  <2>3. ctask[c] \in Tasks
    BY <1>5 DEF PushEnqueue, PushPc
  <2>4. gen' \in [Tasks -> 0 .. Gens - 1]
    <3>1. (gen[ctask[c]] + 1) % Gens \in 0 .. Gens - 1
      BY <2>3
    <3> QED BY <1>5, <2>3, <3>1 DEF PushEnqueue
  <2>5. pending_task_list' \in Seq(Tasks)
    BY <1>5, <2>3 DEF PushEnqueue
  <2>6. /\ in_pool' \subseteq Tasks /\ is_finished' \subseteq Tasks
        /\ is_running' \subseteq Tasks
    BY <1>5, <2>3 DEF PushEnqueue, NoLongerFinished
  <2>7. UNCHANGED <<running_task_count, thread_count, idle_thread_count, lifeVars,
                    alloc, is_detached, locked, result, widx, wtask, wresult>>
    BY <1>5 DEF PushEnqueue
  <2>8. mutex' = None /\ pending_task_count' \in Int
    BY <1>5 DEF PushEnqueue
  <2> QED BY <2>1, <2>2, <2>4, <2>5, <2>6, <2>7, <2>8 DEF ClientTypeOK, WorkersWoken
<1> QED BY <1>1, <1>2, <1>3, <1>4, <1>5 DEF PushCall

LEMMA TypeTask ==
    ASSUME TypeInv, NEW c \in Clients, TaskCall(c)
    PROVE  TypeInv'
<1> USE ConstantsAssumption
    DEF TypeInv, TypeOK, HasTask, queueVars, lifeVars, taskVars, workerVars,
        InHandPc, WorkerPc, ReturnCode
<1>1. SUFFICES TaskTypeOK' /\ ClientTypeOK'
  <2>1. UNCHANGED <<mutex, queueVars, lifeVars, workerVars>>
    BY DEF TaskCall, TaskNew, TaskDelete, NotPushed, DetachCall, JoinCall, JoinLock, ZeroLock,
           TimedLock, HugeLock, Timeout, TimedExpired, DetachLock, DetachDelete, CollectOrWait
  <2> QED BY <2>1 DEF TaskTypeOK, ClientTypeOK
<1>2. ASSUME NEW t \in Tasks, TaskNew(c, t)
      PROVE  TaskTypeOK' /\ ClientTypeOK'
  BY <1>2, BlankType, CallType DEF TaskNew
<1>3. ASSUME NEW t \in Tasks, TaskDelete(c, t)
      PROVE  TaskTypeOK' /\ ClientTypeOK'
  BY <1>3, DeleteType, CallType DEF TaskDelete
<1>4. ASSUME NEW t \in Tasks, NotPushed(c, t)
      PROVE  TaskTypeOK' /\ ClientTypeOK'
  BY <1>4, CallType DEF NotPushed, TaskTypeOK
<1>5. ASSUME NEW t \in Tasks, DetachCall(c, t)
      PROVE  TaskTypeOK' /\ ClientTypeOK'
  BY <1>5, CallType DEF DetachCall, TaskTypeOK, DetachPc
<1>6. ASSUME NEW t \in Tasks, NEW pc \in JoinEntry,
             JoinCall(c, t, pc)
      PROVE  TaskTypeOK' /\ ClientTypeOK'
  BY <1>6, CallType DEF JoinCall, TaskTypeOK, JoinPc, JoinEntry
<1>7. ASSUME Collect(c), cpc[c] \in JoinPc
      PROVE  TaskTypeOK' /\ ClientTypeOK'
  BY <1>7, CallType DEF Collect, TaskTypeOK
<1>8. CASE JoinLock(c)
  BY <1>7, <1>8, GoOnType
  DEF JoinLock, CollectOrWait, TaskTypeOK, ClientPc, JoinPc, JoinEntry
<1>9. CASE TimedLock(c)
  BY <1>7, <1>9, GoOnType
  DEF TimedLock, CollectOrWait, TaskTypeOK, ClientPc, JoinPc, JoinEntry
<1>10. CASE ZeroLock(c)
  BY <1>7, <1>10, CallType DEF ZeroLock, TaskTypeOK, JoinPc, JoinEntry
<1>h. CASE HugeLock(c)
  BY <1>7, <1>h, GoOnType
  DEF HugeLock, TaskTypeOK, ClientPc, JoinPc, JoinEntry
<1>11. CASE Timeout(c)
  BY <1>11, GoOnType DEF Timeout, TaskTypeOK, ClientPc, JoinPc, JoinEntry
<1>12. CASE TimedExpired(c)
  BY <1>12, CallType DEF TimedExpired, TaskTypeOK
<1>13. CASE DetachLock(c)
  <2>1. ctask[c] \in Tasks
    BY <1>13 DEF DetachLock, DetachPc
  <2>2. ClientTypeOK'
    BY <1>13, CallType, GoOnType DEF DetachLock, ClientPc, DetachPc
  <2> QED BY <1>13, <2>1, <2>2 DEF DetachLock, OutOfPool, TaskTypeOK
<1>14. CASE DetachDelete(c)
  <2>1. ctask[c] \in Tasks
    BY <1>14 DEF DetachDelete, DetachPc
  <2> QED BY <1>14, <2>1, DeleteType, CallType DEF DetachDelete
<1> QED BY <1>2, <1>3, <1>4, <1>5, <1>6, <1>8, <1>9, <1>10, <1>h, <1>11, <1>12, <1>13,
           <1>14 DEF TaskCall

LEMMA TypeSpurious ==
    ASSUME TypeInv, Spurious
    PROVE  TypeInv'
<1> USE ConstantsAssumption
    DEF TypeInv, TypeOK, HasTask, queueVars, lifeVars, taskVars, workerVars,
        clientVars, InHandPc, WorkerPc
<1>1. ASSUME NEW w \in Workers, SpuriousWorker(w)
      PROVE  TypeInv'
  <2>1. WorkersWoken
    <3>1. PICK S \in SUBSET Waiting : wpc' = Wake(wpc, S)
      BY <1>1 DEF SpuriousWorker
    <3> QED BY <3>1, WorkersSignalled
  <2> QED BY <1>1, <2>1 DEF SpuriousWorker, WorkersWoken
<1>2. ASSUME NEW c \in Clients, SpuriousClient(c)
      PROVE  TypeInv'
  <2>1. ClientsWoken
    <3>1. /\ {c} \in SUBSET Clients /\ cpc' = Wake(cpc, {c})
          /\ \A d \in {c} : cpc[d] \in {"push_wait", "join_wait", "timed_wait"}
      BY <1>2 DEF SpuriousClient
    <3> QED BY <3>1, WakeClients
  <2> QED BY <1>2, <2>1 DEF SpuriousClient, ClientsWoken, PushPc, JoinPc, JoinEntry, DetachPc
<1> QED BY <1>1, <1>2 DEF Spurious

(* The steps of Next, grouped as the lemmas are. *)
LEMMA TypeStep ==
    TypeInv /\ [Next]_vars => TypeInv'
<1> SUFFICES ASSUME TypeInv, [Next]_vars PROVE TypeInv'
  OBVIOUS
<1>1. CASE UNCHANGED vars
  BY <1>1 DEF TypeInv, TypeOK, HasTask, vars, queueVars, lifeVars, taskVars,
              workerVars, clientVars
<1>2. ASSUME NEW w \in Workers, WorkerStep(w) PROVE TypeInv'
  BY <1>2, TypeWorkers
<1>3. ASSUME NEW c \in Clients, PoolCall(c) \/ PushCall(c) \/ TaskCall(c)
      PROVE  TypeInv'
  BY <1>3, TypePool, TypePush, TypeTask
<1>4. CASE Spurious
  BY <1>4, TypeSpurious
<1> QED BY <1>1, <1>2, <1>3, <1>4, NextSteps DEF Moves

LEMMA TypeInit ==
    Init => TypeInv
<1> SUFFICES ASSUME Init PROVE TypeInv
  OBVIOUS
<1>1. 0 \in 0 .. Gens - 1 /\ 1 \in 1 .. MaxThreads
  BY ConstantsAssumption
<1>2. TypeOK
  <2>1. /\ wpc \in [Workers -> WorkerPc] /\ cpc \in [Clients -> ClientPc]
        /\ rc \in [Clients -> ReturnCode \cup {None}]
    BY DEF Init, WorkerPc, ClientPc
  <2>2. /\ result \in [Tasks -> 0 .. Gens - 1] /\ gen \in [Tasks -> 0 .. Gens - 1]
        /\ wresult \in [Workers -> 0 .. Gens - 1]
    BY <1>1 DEF Init
  <2>3. /\ widx \in [Workers -> Nat] /\ wtask \in [Workers -> Tasks \cup {None}]
        /\ cint \in [Clients -> Nat] /\ ctask \in [Clients -> Tasks \cup {None}]
    BY DEF Init
  <2> QED BY <2>1, <2>2, <2>3, EmptyPoolType DEF Init, TypeOK
<1>3. HasTask
  BY ConstantsAssumption DEF Init, HasTask, InHandPc, PushPc, JoinPc, JoinEntry, DetachPc
<1> QED BY <1>2, <1>3 DEF TypeInv

(* In every state the variables have their types, and a thread that works on *)
(* a task has one.                                                           *)
THEOREM TypeCorrect == Spec => [](TypeOK /\ HasTask)
<1>1. Spec => []TypeInv
  BY TypeInit, TypeStep, PTL DEF Spec
<1> QED BY <1>1, PTL DEF TypeInv

-----------------------------------------------------------------------------
(* Mutual exclusion and wake-ups *)

HoldsMutex == {"check", "lock_task", "unlock_task"}

LEMMA MutexWorkers ==
    ASSUME TypeInv, MutexOwners, NEW w \in Workers, WorkerStep(w)
    PROVE  MutexOwners'
<1> USE ConstantsAssumption
    DEF TypeInv, TypeOK, MutexOwners, WorkerAt, WorkerPc, clientVars, ClientsWoken
<1>1. CASE WorkerStart(w)
  <2>1. ClientsWoken
    BY <1>1, SpawnSignalled DEF WorkerStart
  <2>2. mutex = None /\ mutex' = w /\ wpc' = [wpc EXCEPT ![w] = "check"]
    BY <1>1 DEF WorkerStart
  <2>3. \A c \in Clients : cpc'[c] # "push_spawn"
    <3>1. \A c \in Clients : cpc[c] # "push_spawn"
      BY <2>2
    <3> QED BY <2>1, <3>1
  <2> QED BY <2>2, <2>3
<1>2. CASE WorkerWait(w)
  BY <1>2 DEF WorkerWait
<1>3. CASE WorkerWake(w)
  BY <1>3 DEF WorkerWake
<1>4. CASE WorkerExit(w)
  BY <1>4 DEF WorkerExit
<1>5. CASE WorkerTake(w)
  BY <1>5 DEF WorkerTake
<1>6. CASE WorkerRun(w)
  BY <1>6 DEF WorkerRun
<1>7. CASE WorkerReturn(w)
  BY <1>7 DEF WorkerReturn
<1>8. CASE WorkerFinish(w)
  <2>1. ClientsWoken \/ UNCHANGED cpc
    BY <1>8, JoinersSignalled DEF WorkerFinish
  <2> QED BY <1>8, <2>1 DEF WorkerFinish
<1>9. CASE WorkerUnlock(w)
  BY <1>9 DEF WorkerUnlock
<1> QED BY <1>1, <1>2, <1>3, <1>4, <1>5, <1>6, <1>7, <1>8, <1>9 DEF WorkerStep

(* What a client's step that leaves the mutex and the workers alone does to *)
(* its program counter keeps the owners, if it is not a step of a push.     *)
LEMMA MutexUntouched ==
    ASSUME TypeInv, MutexOwners, NEW c \in Clients, cpc[c] # "push_spawn",
           UNCHANGED <<mutex, wpc>>,
           NEW pc \in ClientPc \ {"push_spawn"}, cpc' = [cpc EXCEPT ![c] = pc]
    PROVE  MutexOwners'
BY DEF TypeInv, TypeOK, MutexOwners

LEMMA MutexPool ==
    ASSUME TypeInv, PoolPhases, MutexOwners, NEW c \in Clients, PoolCall(c)
    PROVE  MutexOwners'
<1> USE DEF workerVars
<1>1. ASSUME NEW i, StopThread(c, i) \/ FreePool(c), UNCHANGED mutex,
             cpc[c] # "push_spawn"
      PROVE  MutexOwners'
  <2>1. PICK pc \in {"delete_join", "idle"} : cpc' = [cpc EXCEPT ![c] = pc]
    BY <1>1 DEF StopThread, FreePool, Enter, Return
  <2>2. \A w \in Workers : wpc'[w] = wpc[w] \/ (wpc[w] = "wait" /\ wpc'[w] = "wake")
    <3>1. CASE wpc' = Wake(wpc, Waiting)
      <4>1. \A w \in Workers : wpc'[w] = IF w \in Waiting THEN "wake" ELSE wpc[w]
        BY <3>1, WakeWorkers DEF TypeInv, TypeOK
      <4> QED BY <4>1 DEF Waiting
    <3> QED BY <1>1, <3>1 DEF StopThread, FreePool
  <2> QED BY <1>1, <2>1, <2>2 DEF TypeInv, TypeOK, MutexOwners
<1>2. ASSUME NEW max \in 0 .. MaxThreads + 1, PoolNew(c, max)
      PROVE  MutexOwners'
  BY <1>2, ConstantsAssumption
  DEF PoolNew, Return, PoolPhases, Pushing, PushPc, TypeInv, TypeOK, MutexOwners
<1>3. ASSUME NEW max \in 0 .. MaxThreads + 1, PoolNewRefused(c, max)
      PROVE  MutexOwners'
  BY <1>3, MutexUntouched DEF PoolNewRefused, Return, ClientPc
<1>4. CASE PoolDelete(c)
  BY <1>4, <1>1 DEF PoolDelete, MayDeletePool
<1>5. CASE PoolDeleteRefused(c)
  BY <1>5, MutexUntouched DEF PoolDeleteRefused, Return, ClientPc, MayDeletePool
<1>6. CASE PoolDeleteJoin(c)
  BY <1>6, MutexUntouched DEF PoolDeleteJoin, ClientAt, ClientPc, DeletePoolPc
<1>7. CASE PoolDeleteLock(c)
  BY <1>7, <1>1 DEF PoolDeleteLock
<1> QED BY <1>2, <1>3, <1>4, <1>5, <1>6, <1>7 DEF PoolCall

LEMMA MutexPush ==
    ASSUME TypeInv, MutexOwners, NEW c \in Clients, PushCall(c)
    PROVE  MutexOwners'
<1> USE ConstantsAssumption DEF TypeInv, TypeOK, MutexOwners, workerVars
<1>1. ASSUME NEW t \in Tasks, PushBegin(c, t)
      PROVE  MutexOwners'
  <2>1. cpc' = [cpc EXCEPT ![c] = "push_spawn"] /\ mutex = None /\ mutex' = c
    BY <1>1 DEF PushBegin, Enter
  <2>2. \A w \in Workers : wpc'[w] = wpc[w] \/ (wpc[w] = "none" /\ wpc'[w] = "create")
    BY <1>1 DEF PushBegin, Spawn, WorkerAt
  <2>3. cpc[c] # "push_spawn" /\ \A w \in Workers : wpc[w] \notin HoldsMutex
    BY <2>1 DEF HoldsMutex
  <2>4. \A w \in Workers : wpc'[w] \notin HoldsMutex /\ mutex' # w
    BY <2>1, <2>2, <2>3 DEF HoldsMutex
  <2>5. \A d \in Clients : cpc'[d] = "push_spawn" <=> mutex' = d
    BY <2>1
  <2> QED BY <2>4, <2>5 DEF HoldsMutex
<1>2. ASSUME NEW t \in Tasks, PushTooMany(c, t)
      PROVE  MutexOwners'
  BY <1>2, MutexUntouched DEF PushTooMany, Return, ClientPc, MayPush, MayCall
<1>3. CASE PushWait(c)
  BY <1>3 DEF PushWait, ClientAt
<1>4. CASE PushWake(c)
  BY <1>4 DEF PushWake, ClientAt
<1>5. CASE PushEnqueue(c)
  <2>1. WorkersWoken
    <3>1. PICK S \in SUBSET Waiting : wpc' = Wake(wpc, S)
      BY <1>5, SignalOne DEF PushEnqueue, PushWakes
    <3> QED BY <3>1, WorkersSignalled
  <2>2. cpc' = [cpc EXCEPT ![c] = "idle"] /\ mutex' = None /\ mutex = c
    BY <1>5 DEF PushEnqueue, Return
  <2> QED BY SMTT(30), <2>1, <2>2 DEF WorkersWoken
<1> QED BY <1>1, <1>2, <1>3, <1>4, <1>5 DEF PushCall

(* What the calls on a task alone leave alone. *)
TaskCallPc == {"idle"} \cup JoinPc \cup DetachPc

LEMMA TaskCallFrame ==
    ASSUME NEW c \in Clients, TaskCall(c)
    PROVE  /\ UNCHANGED <<mutex, queueVars, lifeVars, workerVars>>
           /\ cpc[c] \in TaskCallPc
           /\ \E pc \in TaskCallPc : cpc' = [cpc EXCEPT ![c] = pc]
<1>1. UNCHANGED <<mutex, queueVars, lifeVars, workerVars>>
  BY DEF TaskCall, TaskNew, TaskDelete, NotPushed, DetachCall, JoinCall, JoinLock,
         ZeroLock, TimedLock, HugeLock, Timeout, TimedExpired, DetachLock, DetachDelete,
         CollectOrWait
<1>2. cpc[c] \in TaskCallPc
  BY DEF TaskCall, TaskNew, TaskDelete, NotPushed, DetachCall, JoinCall, JoinLock,
         ZeroLock, TimedLock, HugeLock, Timeout, TimedExpired, DetachLock, DetachDelete,
         CollectOrWait, MayCall, MayJoin, TaskCallPc, JoinPc, JoinEntry, DetachPc
<1>3. \E pc \in TaskCallPc : cpc' = [cpc EXCEPT ![c] = pc]
  BY DEF TaskCall, TaskNew, TaskDelete, NotPushed, DetachCall, JoinCall, JoinLock,
         ZeroLock, TimedLock, HugeLock, Timeout, TimedExpired, DetachLock, DetachDelete,
         CollectOrWait, Collect, Enter, Return, ClientAt, TaskCallPc, JoinPc, JoinEntry, DetachPc
<1> QED BY <1>1, <1>2, <1>3

LEMMA MutexTask ==
    ASSUME TypeInv, MutexOwners, NEW c \in Clients, TaskCall(c)
    PROVE  MutexOwners'
<1>1. UNCHANGED <<mutex, wpc>> /\ cpc[c] # "push_spawn"
  BY TaskCallFrame DEF workerVars, TaskCallPc, JoinPc, JoinEntry, DetachPc
<1>2. PICK pc \in ClientPc \ {"push_spawn"} : cpc' = [cpc EXCEPT ![c] = pc]
  BY TaskCallFrame DEF TaskCallPc, ClientPc, JoinPc, JoinEntry, DetachPc
<1> QED BY <1>1, <1>2, MutexUntouched

LEMMA SpuriousFrame ==
    ASSUME TypeInv, Spurious
    PROVE  /\ UNCHANGED <<mutex, queueVars, lifeVars, taskVars, widx, wtask, wresult,
                          ctask, cint, rc>>
           /\ UNCHANGED wpc \/ UNCHANGED cpc
           /\ \A w \in Workers : wpc'[w] = wpc[w] \/ (wpc[w] = "wait" /\ wpc'[w] = "wake")
           /\ ClientsWoken
<1>1. ASSUME NEW w \in Workers, SpuriousWorker(w)
      PROVE  /\ UNCHANGED cpc
             /\ \A v \in Workers : wpc'[v] = wpc[v] \/ (wpc[v] = "wait" /\ wpc'[v] = "wake")
  <2>1. PICK S \in SUBSET Waiting : wpc' = Wake(wpc, S)
    BY <1>1 DEF SpuriousWorker
  <2>2. \A v \in Workers : wpc'[v] = IF v \in S THEN "wake" ELSE wpc[v]
    BY <2>1, WakeWorkers DEF TypeInv, TypeOK
  <2> QED BY <1>1, <2>1, <2>2 DEF SpuriousWorker, Waiting, clientVars
<1>2. ASSUME NEW c \in Clients, SpuriousClient(c)
      PROVE  UNCHANGED wpc /\ ClientsWoken
  <2>1. /\ {c} \in SUBSET Clients /\ cpc' = Wake(cpc, {c})
        /\ \A d \in {c} : cpc[d] \in {"push_wait", "join_wait", "timed_wait"}
    BY <1>2 DEF SpuriousClient
  <2>2. ClientsWoken
    BY <2>1, WakeClients DEF TypeInv, TypeOK
  <2> QED BY <1>2, <2>2 DEF SpuriousClient, workerVars
<1>3. UNCHANGED cpc => ClientsWoken
  BY DEF ClientsWoken, TypeInv, TypeOK
<1>4. UNCHANGED <<mutex, queueVars, lifeVars, taskVars, widx, wtask, wresult,
                  ctask, cint, rc>>
  BY DEF Spurious, SpuriousWorker, SpuriousClient, workerVars, clientVars
<1> QED BY <1>1, <1>2, <1>3, <1>4 DEF Spurious

LEMMA MutexSpurious ==
    ASSUME TypeInv, MutexOwners, Spurious
    PROVE  MutexOwners'
<1>1. \A c \in Clients : cpc'[c] = "push_spawn" <=> cpc[c] = "push_spawn"
  BY SpuriousFrame DEF ClientsWoken
<1>2. \A w \in Workers : wpc'[w] \in {"check", "lock_task", "unlock_task"}
                         <=> wpc[w] \in {"check", "lock_task", "unlock_task"}
  BY SpuriousFrame
<1>3. UNCHANGED mutex
  BY SpuriousFrame
<1> QED BY <1>1, <1>2, <1>3 DEF MutexOwners

-----------------------------------------------------------------------------
(* The phases of the pool. *)

Alive == WorkerPc \ {"none", "exited"}

(* A step that leaves the pool's fields alone, keeps the living workers alive *)
(* and moves clients neither into nor out of pushes and deletes.              *)
SamePhase ==
    /\ UNCHANGED <<live, threads, pending_task_list, pending_task_count,
                   thread_idx_that_should_exit>>
    /\ \A c \in Clients : /\ cpc'[c] \in PushPc <=> cpc[c] \in PushPc
                          /\ cpc'[c] \in DeletePoolPc <=> cpc[c] \in DeletePoolPc
    /\ \A w \in Workers : wpc[w] \in Alive => wpc'[w] \in Alive

LEMMA PhaseFrame ==
    ASSUME PoolPhases, SamePhase
    PROVE  PoolPhases'
<1>1. (Pushing' <=> Pushing) /\ (Deleting' <=> Deleting)
  BY DEF SamePhase, Pushing, Deleting
<1>2. At(Alive) # {} => At(Alive)' # {}
  BY DEF SamePhase, At
<1>3. \A c, d \in Clients : {cpc'[c], cpc'[d]} \subseteq DeletePoolPc => c = d
  BY DEF SamePhase, PoolPhases
<1>4. UNCHANGED <<live, threads, pending_task_list, pending_task_count,
                  thread_idx_that_should_exit>>
  BY DEF SamePhase
<1> QED BY <1>1, <1>2, <1>3, <1>4, Zenon DEF PoolPhases, Alive

LEMMA WokenSamePhase ==
    ASSUME ClientsWoken, NEW c \in Clients
    PROVE  /\ cpc'[c] \in PushPc <=> cpc[c] \in PushPc
           /\ cpc'[c] \in DeletePoolPc <=> cpc[c] \in DeletePoolPc
BY DEF ClientsWoken, PushPc, DeletePoolPc

(* What a worker's step other than taking a task and exiting does. *)
LEMMA WorkerFrame ==
    ASSUME TypeInv, NEW w \in Workers, WorkerStep(w), ~WorkerTake(w), ~WorkerExit(w)
    PROVE  /\ SamePhase
           /\ \E pc \in Alive :
                /\ wpc' = [wpc EXCEPT ![w] = pc]
                /\ pc = "wait" => pending_task_count < 1
<1>1. \E pc \in Alive : /\ wpc' = [wpc EXCEPT ![w] = pc]
                        /\ pc = "wait" => pending_task_count < 1
  BY DEF WorkerStep, WorkerStart, WorkerWait, WorkerWake, WorkerRun, WorkerReturn,
         WorkerFinish, WorkerUnlock, WorkerAt, Alive, WorkerPc
<1>2. UNCHANGED <<live, threads, pending_task_list, pending_task_count,
                  thread_idx_that_should_exit>>
  BY DEF WorkerStep, WorkerStart, WorkerWait, WorkerWake, WorkerRun, WorkerReturn,
         WorkerFinish, WorkerUnlock, queueVars, lifeVars
<1>3. ClientsWoken
  <2>1. UNCHANGED cpc => ClientsWoken
    BY DEF ClientsWoken, TypeInv, TypeOK
  <2>2. CASE WorkerStart(w)
    BY <2>2, SpawnSignalled DEF WorkerStart, TypeInv, TypeOK
  <2>3. CASE WorkerFinish(w)
    BY <2>1, <2>3, JoinersSignalled DEF WorkerFinish, TypeInv, TypeOK
  <2> QED BY <2>1, <2>2, <2>3
          DEF WorkerStep, WorkerWait, WorkerWake, WorkerRun, WorkerReturn,
              WorkerUnlock, clientVars
<1>4. \A v \in Workers : wpc[v] \in Alive => wpc'[v] \in Alive
  BY <1>1 DEF TypeInv, TypeOK
<1> QED BY <1>1, <1>2, <1>3, <1>4, WokenSamePhase DEF SamePhase

LEMMA PhaseWorkers ==
    ASSUME TypeInv, PoolPhases, NEW w \in Workers, WorkerStep(w)
    PROVE  PoolPhases'
<1>1. CASE WorkerExit(w)
  <2>1. widx[w] # -1
    BY DEF TypeInv, TypeOK
  <2>2. Deleting
    BY <1>1, <2>1 DEF WorkerExit, PoolPhases
  <2>3. UNCHANGED <<live, threads, pending_task_list, pending_task_count,
                    thread_idx_that_should_exit, cpc>>
    BY <1>1 DEF WorkerExit, queueVars, lifeVars, clientVars
  <2>4. (Pushing' <=> Pushing) /\ Deleting'
    BY <2>2, <2>3 DEF Pushing, Deleting
  <2>5. \A c, d \in Clients : {cpc'[c], cpc'[d]} \subseteq DeletePoolPc => c = d
    BY <2>3 DEF PoolPhases
  <2> QED BY <2>2, <2>3, <2>4, <2>5, Zenon DEF PoolPhases
<1>2. CASE WorkerTake(w)
  <2>1. /\ pending_task_list # <<>> /\ pending_task_list' = Tail(pending_task_list)
        /\ pending_task_count' = pending_task_count - 1
        /\ UNCHANGED <<live, threads, thread_idx_that_should_exit, cpc>>
        /\ wpc' = [wpc EXCEPT ![w] = "start_task"]
    BY <1>2 DEF WorkerTake, CountTaken, WorkerAt, lifeVars, clientVars
  <2>2. pending_task_count' = Len(pending_task_list')
    BY <2>1 DEF PoolPhases, TypeInv, TypeOK
  <2>3. ~Deleting /\ live /\ (Pushing' <=> Pushing) /\ (Deleting' <=> Deleting)
    BY <2>1 DEF PoolPhases, Pushing, Deleting
  <2>4. At(WorkerPc \ {"none", "exited"})' # {}
    BY <2>1 DEF At, TypeInv, TypeOK, WorkerPc
  <2>5. \A c, d \in Clients : {cpc'[c], cpc'[d]} \subseteq DeletePoolPc => c = d
    BY <2>1 DEF PoolPhases
  <2>6. UNCHANGED <<live, threads, thread_idx_that_should_exit>>
    BY <2>1
  <2> QED BY <2>2, <2>3, <2>4, <2>5, <2>6, Zenon DEF PoolPhases
<1>3. CASE ~WorkerExit(w) /\ ~WorkerTake(w)
  BY <1>3, WorkerFrame, PhaseFrame
<1> QED BY <1>1, <1>2, <1>3

LEMMA PhasePool ==
    ASSUME TypeInv, PoolPhases, NEW c \in Clients, PoolCall(c)
    PROVE  PoolPhases'
<1>1. ASSUME NEW pc \in {"idle"} \cup DeletePoolPc,
             cpc' = [cpc EXCEPT ![c] = pc],
             cpc[c] = "idle" <=> pc = "idle", cpc[c] \in {"idle"} \cup DeletePoolPc,
             UNCHANGED <<queueVars, lifeVars, workerVars>>
      PROVE  PoolPhases'
  <2>1. SamePhase
    BY <1>1 DEF SamePhase, queueVars, lifeVars, workerVars, PushPc, DeletePoolPc,
                TypeInv, TypeOK
  <2> QED BY <2>1, PhaseFrame
<1>2. ASSUME NEW i \in Nat, StopThread(c, i), pending_task_list = <<>>, live, ~Pushing,
             ~Deleting \/ cpc[c] \in DeletePoolPc
      PROVE  PoolPhases'
  <2>1. /\ cpc' = [cpc EXCEPT ![c] = "delete_join"]
        /\ UNCHANGED <<live, threads, pending_task_list, pending_task_count>>
    BY <1>2 DEF StopThread, Enter, queueVars
  <2>2. Deleting' /\ ~Pushing'
    BY <1>2, <2>1 DEF Deleting, Pushing, DeletePoolPc, PushPc, TypeInv, TypeOK
  <2>3. \A d, e \in Clients : {cpc'[d], cpc'[e]} \subseteq DeletePoolPc => d = e
    <3>1. \A d \in Clients : cpc[d] \in DeletePoolPc => d = c
      BY <1>2 DEF PoolPhases, Deleting
    <3>2. \A d \in Clients : cpc'[d] \in DeletePoolPc => d = c
      BY <2>1, <3>1 DEF TypeInv, TypeOK
    <3> QED BY <3>2
  <2> QED BY <1>2, <2>1, <2>2, <2>3, Zenon DEF PoolPhases
<1>3. ASSUME FreePool(c), ~Pushing, ~Deleting \/ cpc[c] \in DeletePoolPc
      PROVE  PoolPhases'
  <2>1. /\ cpc' = [cpc EXCEPT ![c] = "idle"]
        /\ threads' = <<>> /\ pending_task_list' = <<>> /\ pending_task_count' = 0
        /\ thread_idx_that_should_exit' = -1
    BY <1>3 DEF FreePool, Return
  <2>2. \A d \in Clients : cpc'[d] \notin DeletePoolPc \cup PushPc
    <3>1. \A d \in Clients : cpc[d] \in DeletePoolPc => d = c
      BY <1>3 DEF PoolPhases, Deleting
    <3> QED BY <1>3, <2>1, <3>1 DEF TypeInv, TypeOK, Pushing, PushPc, DeletePoolPc
  <2>3. ~Deleting' /\ ~Pushing'
    BY <2>2 DEF Deleting, Pushing
  <2>4. Len(pending_task_list') = 0
    BY <2>1
  <2> QED BY <2>1, <2>2, <2>3, <2>4 DEF PoolPhases
<1>4. ASSUME NEW max \in 0 .. MaxThreads + 1, PoolNew(c, max)
      PROVE  PoolPhases'
  <2>1. /\ cpc' = [cpc EXCEPT ![c] = "idle"] /\ ~Pushing /\ ~Deleting /\ live'
        /\ threads' = <<>> /\ pending_task_list' = <<>> /\ pending_task_count' = 0
        /\ thread_idx_that_should_exit' = -1
    BY <1>4 DEF PoolNew, Return, PoolPhases
  <2>2. \A d \in Clients : cpc'[d] \notin DeletePoolPc \cup PushPc
    BY <2>1 DEF TypeInv, TypeOK, Pushing, Deleting, PushPc, DeletePoolPc
  <2>3. ~Deleting' /\ ~Pushing'
    BY <2>2 DEF Deleting, Pushing
  <2>4. Len(pending_task_list') = 0
    BY <2>1
  <2> QED BY <2>1, <2>2, <2>3, <2>4 DEF PoolPhases
<1>5. ASSUME NEW max \in 0 .. MaxThreads + 1, PoolNewRefused(c, max)
      PROVE  PoolPhases'
  BY <1>5, <1>1 DEF PoolNewRefused, Return
<1>6. CASE PoolDelete(c)
  <2>1. live /\ ~Pushing /\ ~Deleting
    BY <1>6 DEF PoolDelete, MayDeletePool
  <2>2. pending_task_list = <<>>
    BY <1>6 DEF PoolDelete, HasTasks, PoolPhases, TypeInv, TypeOK
  <2> QED BY <1>6, <1>2, <1>3, <2>1, <2>2 DEF PoolDelete
<1>7. CASE PoolDeleteRefused(c)
  BY <1>7, <1>1 DEF PoolDeleteRefused, Return, MayDeletePool
<1>8. CASE PoolDeleteJoin(c)
  BY <1>8, <1>1 DEF PoolDeleteJoin, ClientAt, DeletePoolPc
<1>9. CASE PoolDeleteLock(c)
  <2>1. Deleting /\ cpc[c] \in DeletePoolPc
    BY <1>9 DEF PoolDeleteLock, Deleting, DeletePoolPc
  <2>2. live /\ ~Pushing /\ pending_task_list = <<>>
    BY <2>1 DEF PoolPhases
  <2>3. cint[c] + 1 \in Nat
    BY DEF TypeInv, TypeOK
  <2> QED BY <1>9, <1>2, <1>3, <2>1, <2>2, <2>3 DEF PoolDeleteLock
<1> QED BY <1>4, <1>5, <1>6, <1>7, <1>8, <1>9 DEF PoolCall

(* A push finds a worker alive, or creates one. *)
LEMMA PushBeginFrame ==
    ASSUME TypeInv, PoolPhases, NEW c \in Clients, NEW t \in Tasks, PushBegin(c, t)
    PROVE  /\ threads' # <<>> /\ live /\ ~Deleting
           /\ cpc' = [cpc EXCEPT ![c] = "push_spawn"]
           /\ UNCHANGED <<live, pending_task_list, pending_task_count,
                          thread_idx_that_should_exit>>
           /\ At(Alive)' # {}
           /\ \A v \in Workers : wpc'[v] = wpc[v] \/ (wpc[v] = "none" /\ wpc'[v] = "create")
<1> DEFINE idx == IF threads = <<>> THEN 0 ELSE thread_count
<1> USE DEF TypeInv, TypeOK
<1>1. /\ live /\ ~Deleting
      /\ cpc' = [cpc EXCEPT ![c] = "push_spawn"]
      /\ UNCHANGED <<live, pending_task_list, pending_task_count,
                     thread_idx_that_should_exit>>
  BY DEF PushBegin, Enter, MayPush, queueVars
<1>2. CASE NeedsThread
  <2>1. PICK w \in Workers : Spawn(w, idx)
    BY <1>2 DEF PushBegin
  <2>2. threads' # <<>>
    <3>1. threads' = ThreadsWith(w, idx) /\ idx + 1 \in Nat /\ 1 \in 1 .. idx + 1
      BY <2>1 DEF Spawn
    <3>2. 1 \in DOMAIN ThreadsWith(w, idx)
      BY <3>1 DEF ThreadsWith
    <3> QED BY <3>1, <3>2
  <2>3. wpc[w] = "none" /\ wpc' = [wpc EXCEPT ![w] = "create"]
    BY <2>1 DEF Spawn, WorkerAt
  <2>4. w \in At(Alive)'
    BY <2>3 DEF At, Alive, WorkerPc
  <2> QED BY <1>1, <2>2, <2>3, <2>4
<1>3. CASE ~NeedsThread
  <2>1. threads # <<>> /\ UNCHANGED <<threads, wpc>>
    BY <1>3 DEF PushBegin, NeedsThread
  <2>2. At(Alive) # {}
    BY <1>1, <2>1 DEF PoolPhases, Alive
  <2>3. At(Alive)' # {}
    BY <2>1, <2>2 DEF At
  <2> QED BY <1>1, <2>1, <2>3
<1> QED BY <1>2, <1>3

(* A push ends while the pool is in use, and wakes a waiting worker. *)
LEMMA PushEnqueueFrame ==
    ASSUME TypeInv, PoolPhases, NEW c \in Clients, PushEnqueue(c)
    PROVE  /\ threads # <<>> /\ live /\ ~Deleting
           /\ cpc[c] = "push_spawn" /\ cpc' = [cpc EXCEPT ![c] = "idle"]
           /\ UNCHANGED <<live, threads, thread_idx_that_should_exit>>
           /\ Len(pending_task_list') = Len(pending_task_list) + 1
           /\ pending_task_count' = pending_task_count + 1
           /\ \A w \in Workers : wpc'[w] = wpc[w] \/ (wpc[w] = "wait" /\ wpc'[w] = "wake")
           /\ Waiting # {} => \E w \in Workers : wpc'[w] = "wake"
<1>1. /\ cpc[c] = "push_spawn" /\ cpc' = [cpc EXCEPT ![c] = "idle"]
      /\ UNCHANGED <<live, threads, thread_idx_that_should_exit>>
      /\ pending_task_count' = pending_task_count + 1
  BY DEF PushEnqueue, Return, lifeVars
<1>2. Pushing
  BY <1>1 DEF Pushing, PushPc
<1>3. threads # <<>> /\ live /\ ~Deleting
  BY <1>2 DEF PoolPhases
<1>4. ctask[c] \in Tasks
  BY <1>1 DEF TypeInv, HasTask, PushPc
<1>5. Len(pending_task_list') = Len(pending_task_list) + 1
  BY <1>4 DEF PushEnqueue, TypeInv, TypeOK
<1>6. PICK S \in Signal(Waiting) : wpc' = Wake(wpc, S)
  BY DEF PushEnqueue, PushWakes
<1>7. S \subseteq Waiting /\ (Waiting # {} => \E x \in Waiting : S = {x})
  BY SignalOne
<1>8. \A w \in Workers : wpc'[w] = IF w \in S THEN "wake" ELSE wpc[w]
  BY <1>6, <1>7, WakeWorkers DEF TypeInv, TypeOK
<1>9. \A w \in Workers : wpc'[w] = wpc[w] \/ (wpc[w] = "wait" /\ wpc'[w] = "wake")
  BY <1>7, <1>8 DEF Waiting
<1>10. Waiting # {} => \E w \in Workers : wpc'[w] = "wake"
  BY <1>7, <1>8 DEF Waiting
<1> QED BY <1>1, <1>3, <1>5, <1>9, <1>10

LEMMA PhasePush ==
    ASSUME TypeInv, PoolPhases, NEW c \in Clients, PushCall(c)
    PROVE  PoolPhases'
<1>1. ASSUME NEW t \in Tasks, PushBegin(c, t)
      PROVE  PoolPhases'
  <2>1. /\ threads' # <<>> /\ live /\ ~Deleting
        /\ cpc' = [cpc EXCEPT ![c] = "push_spawn"]
        /\ UNCHANGED <<live, pending_task_list, pending_task_count,
                       thread_idx_that_should_exit>>
        /\ At(Alive)' # {}
    BY <1>1, PushBeginFrame
  <2>2. \A d \in Clients : cpc'[d] \notin DeletePoolPc
    BY <2>1 DEF Deleting, DeletePoolPc, TypeInv, TypeOK
  <2>3. ~Deleting'
    BY <2>2 DEF Deleting
  <2> QED BY <2>1, <2>2, <2>3 DEF PoolPhases, Alive
<1>2. ASSUME NEW t \in Tasks, PushTooMany(c, t)
      PROVE  PoolPhases'
  <2>1. SamePhase
    BY <1>2 DEF PushTooMany, MayPush, MayCall, Return, SamePhase, queueVars, lifeVars,
                workerVars, PushPc, DeletePoolPc, TypeInv, TypeOK
  <2> QED BY <2>1, PhaseFrame
<1>3. CASE PushWait(c)
  <2>1. SamePhase
    BY <1>3 DEF PushWait, ClientAt, SamePhase, queueVars, lifeVars, workerVars,
                PushPc, DeletePoolPc, TypeInv, TypeOK
  <2> QED BY <2>1, PhaseFrame
<1>4. CASE PushWake(c)
  <2>1. SamePhase
    BY <1>4 DEF PushWake, ClientAt, SamePhase, queueVars, lifeVars, workerVars,
                PushPc, DeletePoolPc, TypeInv, TypeOK
  <2> QED BY <2>1, PhaseFrame
<1>5. CASE PushEnqueue(c)
  <2>1. /\ threads # <<>> /\ live /\ ~Deleting
        /\ cpc' = [cpc EXCEPT ![c] = "idle"]
        /\ UNCHANGED <<live, threads, thread_idx_that_should_exit>>
        /\ Len(pending_task_list') = Len(pending_task_list) + 1
        /\ pending_task_count' = pending_task_count + 1
        /\ \A w \in Workers : wpc'[w] = wpc[w] \/ (wpc[w] = "wait" /\ wpc'[w] = "wake")
    BY <1>5, PushEnqueueFrame
  <2>2. \A d \in Clients : cpc'[d] \notin DeletePoolPc
    BY <2>1 DEF Deleting, DeletePoolPc, TypeInv, TypeOK
  <2>3. ~Deleting'
    BY <2>2 DEF Deleting
  <2>4. At(Alive)' # {}
    <3>1. At(Alive) # {}
      BY <2>1 DEF PoolPhases, Alive
    <3> QED BY <2>1, <3>1 DEF At, Alive, WorkerPc
  <2>5. pending_task_count' = Len(pending_task_list')
    BY <2>1 DEF PoolPhases
  <2> QED BY <2>1, <2>2, <2>3, <2>4, <2>5 DEF PoolPhases, Alive
<1> QED BY <1>1, <1>2, <1>3, <1>4, <1>5 DEF PushCall

(* The calls on a task, and spurious wake-ups. *)
LEMMA OtherSamePhase ==
    ASSUME TypeInv, Spurious \/ \E c \in Clients : TaskCall(c)
    PROVE  SamePhase
<1>1. CASE Spurious
  <2>1. \A w \in Workers : wpc[w] \in Alive => wpc'[w] \in Alive
    BY <1>1, SpuriousFrame DEF Alive, WorkerPc
  <2>2. ClientsWoken /\ UNCHANGED <<live, threads, pending_task_list,
                                    pending_task_count, thread_idx_that_should_exit>>
    BY <1>1, SpuriousFrame DEF queueVars, lifeVars
  <2> QED BY <2>1, <2>2, WokenSamePhase DEF SamePhase
<1>2. ASSUME NEW c \in Clients, TaskCall(c)
      PROVE  SamePhase
  <2>1. UNCHANGED <<live, threads, pending_task_list, pending_task_count,
                    thread_idx_that_should_exit, wpc>>
    BY <1>2, TaskCallFrame DEF queueVars, lifeVars, workerVars
  <2>2. PICK pc \in TaskCallPc : cpc' = [cpc EXCEPT ![c] = pc]
    BY <1>2, TaskCallFrame
  <2>3. cpc[c] \in TaskCallPc
    BY <1>2, TaskCallFrame
  <2> QED BY <2>1, <2>2, <2>3
          DEF SamePhase, TaskCallPc, PushPc, JoinPc, JoinEntry, DetachPc, DeletePoolPc, TypeInv, TypeOK
<1> QED BY <1>1, <1>2

LEMMA PhaseOther ==
    ASSUME TypeInv, PoolPhases, Spurious \/ \E c \in Clients : TaskCall(c)
    PROVE  PoolPhases'
BY OtherSamePhase, PhaseFrame

-----------------------------------------------------------------------------
(* No wake-up of a push is lost. *)

Awake == WorkerPc \ {"none", "wait", "exited"}

LEMMA WakeupWorkers ==
    ASSUME TypeInv, PoolPhases, NoLostWakeup, NEW w \in Workers, WorkerStep(w)
    PROVE  NoLostWakeup'
<1> SUFFICES ASSUME pending_task_list' # <<>> PROVE At(Awake)' # {}
  BY DEF NoLostWakeup, Awake
<1> USE DEF TypeInv, TypeOK
<1>1. CASE WorkerExit(w)
  <2>1. Deleting
    BY <1>1 DEF WorkerExit, PoolPhases
  <2> QED BY <1>1, <2>1 DEF WorkerExit, PoolPhases, queueVars
<1>2. CASE WorkerTake(w)
  BY <1>2 DEF WorkerTake, WorkerAt, At, Awake, WorkerPc
<1>3. CASE ~WorkerExit(w) /\ ~WorkerTake(w)
  <2>1. PICK pc \in Alive : /\ wpc' = [wpc EXCEPT ![w] = pc]
                            /\ pc = "wait" => pending_task_count < 1
    BY <1>3, WorkerFrame
  <2>2. pending_task_list # <<>> /\ pending_task_count >= 1
    BY <1>3, WorkerFrame DEF SamePhase, PoolPhases
  <2> QED BY <2>1, <2>2 DEF At, Awake, Alive
<1> QED BY <1>1, <1>2, <1>3

LEMMA WakeupStep ==
    ASSUME TypeInv, PoolPhases, NoLostWakeup, Moves
    PROVE  NoLostWakeup'
<1>1. ASSUME UNCHANGED pending_task_list,
             \A w \in Workers : wpc[w] \in Awake => wpc'[w] \in Awake
      PROVE  NoLostWakeup'
  BY <1>1 DEF NoLostWakeup, At, Awake
<1>2. ASSUME pending_task_list' = <<>> PROVE NoLostWakeup'
  BY <1>2 DEF NoLostWakeup
<1>3. ASSUME NEW w \in Workers, WorkerStep(w)
      PROVE  NoLostWakeup'
  BY <1>3, WakeupWorkers
<1>4. ASSUME NEW c \in Clients, PoolCall(c)
      PROVE  NoLostWakeup'
  <2>1. ASSUME NEW max, PoolNew(c, max) \/ PoolNewRefused(c, max)
        PROVE  NoLostWakeup'
    BY <1>1, <1>2, <2>1 DEF PoolNew, PoolNewRefused, queueVars, workerVars
  <2>2. CASE PoolDelete(c) \/ PoolDeleteLock(c)
    <3>1. PICK i : StopThread(c, i) \/ FreePool(c)
      BY <2>2 DEF PoolDelete, PoolDeleteLock
    <3>2. CASE FreePool(c)
      BY <3>2, <1>2 DEF FreePool
    <3>3. CASE StopThread(c, i)
      <4>1. WorkersWoken /\ UNCHANGED pending_task_list
        BY <3>3, WorkersSignalled DEF StopThread, queueVars, TypeInv, TypeOK
      <4> QED BY <4>1, <1>1 DEF WorkersWoken, Awake, WorkerPc
    <3> QED BY <3>1, <3>2, <3>3
  <2>3. CASE PoolDeleteRefused(c) \/ PoolDeleteJoin(c)
    BY <1>1, <2>3 DEF PoolDeleteRefused, PoolDeleteJoin, queueVars, workerVars
  <2> QED BY <1>4, <2>1, <2>2, <2>3 DEF PoolCall
<1>5. ASSUME NEW c \in Clients, PushCall(c)
      PROVE  NoLostWakeup'
  <2>1. ASSUME NEW t \in Tasks, PushBegin(c, t) PROVE NoLostWakeup'
    <3>1. UNCHANGED pending_task_list
      BY <2>1 DEF PushBegin, queueVars
    <3>2. \A w \in Workers : wpc[w] \in Awake => wpc'[w] \in Awake
      BY <2>1, PushBeginFrame DEF Awake
    <3> QED BY <1>1, <3>1, <3>2
  <2>2. CASE PushEnqueue(c)
    <3>1. At(Alive) # {}
      BY <2>2, PushEnqueueFrame DEF PoolPhases, Alive
    <3>2. /\ \A w \in Workers : wpc'[w] = wpc[w] \/ wpc'[w] = "wake"
          /\ Waiting # {} => \E w \in Workers : wpc'[w] = "wake"
      BY <2>2, PushEnqueueFrame
    <3>3. At(Awake)' # {}
      BY <3>1, <3>2 DEF At, Alive, Awake, Waiting, WorkerPc
    <3> QED BY <3>3 DEF NoLostWakeup, Awake
  <2>3. ASSUME NEW t \in Tasks, PushTooMany(c, t) PROVE NoLostWakeup'
    BY <1>1, <2>3 DEF PushTooMany, queueVars, workerVars
  <2>4. CASE PushWait(c) \/ PushWake(c)
    BY <1>1, <2>4 DEF PushWait, PushWake, queueVars, workerVars
  <2> QED BY <1>5, <2>1, <2>2, <2>3, <2>4 DEF PushCall
<1>6. ASSUME NEW c \in Clients, TaskCall(c)
      PROVE  NoLostWakeup'
  BY <1>1, <1>6, TaskCallFrame DEF queueVars, workerVars
<1>7. CASE Spurious
  <2>1. \A w \in Workers : wpc[w] \in Awake => wpc'[w] \in Awake
    BY <1>7, SpuriousFrame DEF Awake
  <2> QED BY <1>1, <1>7, <2>1, SpuriousFrame DEF queueVars
<1> QED BY <1>3, <1>4, <1>5, <1>6, <1>7 DEF Moves

-----------------------------------------------------------------------------
PoolInv == TypeInv /\ PoolPhases /\ MutexOwners /\ NoLostWakeup

LEMMA PoolInit ==
    Init => PoolInv
<1> SUFFICES ASSUME Init PROVE PoolInv
  OBVIOUS
<1>1. PoolPhases
  <2>1. ~Pushing /\ ~Deleting
    BY DEF Init, Pushing, Deleting, PushPc, DeletePoolPc
  <2>2. \A c, d \in Clients : {cpc[c], cpc[d]} \subseteq DeletePoolPc => c = d
    BY DEF Init, DeletePoolPc
  <2> QED BY <2>1, <2>2 DEF Init, PoolPhases
<1>2. MutexOwners /\ NoLostWakeup
  BY ConstantsAssumption DEF Init, MutexOwners, NoLostWakeup
<1> QED BY <1>1, <1>2, TypeInit DEF PoolInv

LEMMA PoolStep ==
    PoolInv /\ [Next]_vars => PoolInv'
<1> SUFFICES ASSUME PoolInv, [Next]_vars PROVE PoolInv'
  OBVIOUS
<1> USE DEF PoolInv
<1>1. TypeInv'
  BY TypeStep
<1>2. CASE UNCHANGED vars
  <2> USE <1>2 DEF vars, queueVars, lifeVars, workerVars, clientVars
  <2>1. SamePhase
    BY DEF SamePhase
  <2>2. MutexOwners'
    BY DEF MutexOwners
  <2>3. NoLostWakeup'
    BY DEF NoLostWakeup, At
  <2> QED BY <1>1, <2>1, <2>2, <2>3, PhaseFrame
<1>3. CASE Moves
  <2>1. PoolPhases'
    BY <1>3, PhaseWorkers, PhasePool, PhasePush, PhaseOther DEF Moves
  <2>2. MutexOwners'
    BY <1>3, MutexWorkers, MutexPool, MutexPush, MutexTask, MutexSpurious DEF Moves
  <2> QED BY <1>1, <1>3, <2>1, <2>2, WakeupStep
<1> QED BY <1>2, <1>3, NextSteps

(* pool->mutex has one owner, and each section of thread_pool.c that runs    *)
(* under it runs in the thread that owns it.                                 *)
THEOREM MutualExclusion == Spec => []MutexOwners
<1>1. Spec => []PoolInv
  BY PoolInit, PoolStep, PTL DEF Spec
<1> QED BY <1>1, PTL DEF PoolInv

(* The signal of thread_pool_push_task (line 264) is never lost: as long as  *)
(* a task is pending, a worker is awake that will look at the list.          *)
THEOREM WakeupsNotLost == Spec => []NoLostWakeup
<1>1. Spec => []PoolInv
  BY PoolInit, PoolStep, PTL DEF Spec
<1> QED BY <1>1, PTL DEF PoolInv

-----------------------------------------------------------------------------
(* How the number of workers at some program points changes. *)

Moved(S, from, to) == (IF to \in S THEN 1 ELSE 0) - (IF from \in S THEN 1 ELSE 0)

LEMMA AtStays ==
    ASSUME NEW S, \A w \in Workers : wpc'[w] \in S <=> wpc[w] \in S
    PROVE  At(S)' = At(S)
BY DEF At

LEMMA AtSubset ==
    ASSUME NEW S, NEW T, S \subseteq T, IsFiniteSet(At(T))
    PROVE  IsFiniteSet(At(S)) /\ Cardinality(At(S)) <= Cardinality(At(T))
<1>1. At(S) \in SUBSET At(T)
  BY DEF At
<1> QED BY <1>1, FS_Subset

LEMMA AtMoves ==
    ASSUME TypeInv, NEW w \in Workers, NEW pc, wpc' = [wpc EXCEPT ![w] = pc],
           NEW S, IsFiniteSet(At(S))
    PROVE  /\ IsFiniteSet(At(S)')
           /\ Cardinality(At(S)') = Cardinality(At(S)) + Moved(S, wpc[w], pc)
<1>1. \A v \in Workers : wpc'[v] = IF v = w THEN pc ELSE wpc[v]
  BY DEF TypeInv, TypeOK
<1>2. Cardinality(At(S)) \in Nat
  BY FS_CardinalityType
<1>3. CASE pc \in S
  <2>1. At(S)' = At(S) \cup {w}
    BY <1>1, <1>3 DEF At
  <2>2. w \in At(S) <=> wpc[w] \in S
    BY DEF At
  <2> QED BY <1>2, <1>3, <2>1, <2>2, FS_AddElement DEF Moved
<1>4. CASE pc \notin S
  <2>1. At(S)' = At(S) \ {w}
    BY <1>1, <1>4 DEF At
  <2>2. w \in At(S) <=> wpc[w] \in S
    BY DEF At
  <2> QED BY <1>2, <1>4, <2>1, <2>2, FS_RemoveElement DEF Moved
<1> QED BY <1>3, <1>4

-----------------------------------------------------------------------------
(* The counters, whoever pushes. *)

Created == WorkerPc \ {"none"}
Started == WorkerPc \ {"none", "create"}
Idle == {"check", "wait", "wake", "exited"}

(* The three counters that workers change. *)
Counted ==
    /\ IsFiniteSet(At(Created))
    /\ live => /\ thread_count = Cardinality(At(Started))
               /\ idle_thread_count = Cardinality(At(Idle))
               /\ running_task_count = Cardinality(At(InHandPc))

(* A pool that is being deleted or freed has no worker on a task. *)
HandsEmpty == ~live \/ Deleting => At(InHandPc) = {}

LEMMA ClassesFinite ==
    ASSUME Counted
    PROVE  \A S \in {Created, Started, Idle, InHandPc, {"check", "wake"}} :
             S \subseteq Created /\ IsFiniteSet(At(S))
<1>1. \A S \in {Created, Started, Idle, InHandPc, {"check", "wake"}} : S \subseteq Created
  BY DEF Created, Started, Idle, InHandPc, WorkerPc
<1>2. ASSUME NEW S, S \subseteq Created PROVE IsFiniteSet(At(S))
  BY <1>2, AtSubset DEF Counted
<1> QED BY <1>1, <1>2

(* What a worker's step does to its program counter and to the counters. *)
LEMMA WorkerCounts ==
    ASSUME TypeInv, NEW w \in Workers, WorkerStep(w)
    PROVE  \E pc \in WorkerPc :
             /\ wpc' = [wpc EXCEPT ![w] = pc]
             /\ pc # "none" /\ wpc[w] # "none"
             /\ thread_count' = thread_count + Moved(Started, wpc[w], pc)
             /\ idle_thread_count' = idle_thread_count + Moved(Idle, wpc[w], pc)
             /\ running_task_count' = running_task_count + Moved(InHandPc, wpc[w], pc)
<1> USE DEF TypeInv, TypeOK, WorkerAt, Moved, Started, Idle, InHandPc, WorkerPc, queueVars
<1>1. CASE WorkerStart(w)
  BY <1>1 DEF WorkerStart
<1>2. CASE WorkerWait(w)
  BY <1>2 DEF WorkerWait
<1>3. CASE WorkerWake(w)
  BY <1>3 DEF WorkerWake
<1>4. CASE WorkerExit(w)
  BY <1>4 DEF WorkerExit
<1>5. CASE WorkerTake(w)
  BY <1>5 DEF WorkerTake, CountTaken
<1>6. CASE WorkerRun(w)
  BY <1>6 DEF WorkerRun
<1>7. CASE WorkerReturn(w)
  BY <1>7 DEF WorkerReturn
<1>8. CASE WorkerFinish(w)
  BY <1>8 DEF WorkerFinish
<1>9. CASE WorkerUnlock(w)
  BY <1>9 DEF WorkerUnlock
<1> QED BY <1>1, <1>2, <1>3, <1>4, <1>5, <1>6, <1>7, <1>8, <1>9 DEF WorkerStep

(* Steps that leave the counters alone and no worker's class changes. *)
LEMMA CountedStays ==
    ASSUME Counted, UNCHANGED <<live, thread_count, idle_thread_count, running_task_count>>,
           \A w \in Workers : wpc'[w] = wpc[w] \/ (wpc[w] = "wait" /\ wpc'[w] = "wake")
    PROVE  Counted'
<1>1. \A S \in {Created, Started, Idle, InHandPc} : At(S)' = At(S)
  <2>1. ASSUME NEW S, "wait" \in S <=> "wake" \in S PROVE At(S)' = At(S)
    BY <2>1, AtStays
  <2> QED BY <2>1 DEF Created, Started, Idle, InHandPc, WorkerPc
<1> QED BY <1>1 DEF Counted

LEMMA CountedWorkers ==
    ASSUME TypeInv, Counted, NEW w \in Workers, WorkerStep(w)
    PROVE  Counted'
<1>1. PICK pc \in WorkerPc :
        /\ wpc' = [wpc EXCEPT ![w] = pc]
        /\ pc # "none" /\ wpc[w] # "none"
        /\ thread_count' = thread_count + Moved(Started, wpc[w], pc)
        /\ idle_thread_count' = idle_thread_count + Moved(Idle, wpc[w], pc)
        /\ running_task_count' = running_task_count + Moved(InHandPc, wpc[w], pc)
  BY WorkerCounts
<1>2. \A S \in {Created, Started, Idle, InHandPc} :
        /\ IsFiniteSet(At(S)')
        /\ Cardinality(At(S)') = Cardinality(At(S)) + Moved(S, wpc[w], pc)
  BY <1>1, ClassesFinite, AtMoves
<1>3. UNCHANGED live
  BY DEF WorkerStep, WorkerStart, WorkerWait, WorkerWake, WorkerExit, WorkerTake,
         WorkerRun, WorkerReturn, WorkerFinish, WorkerUnlock, lifeVars
<1> QED BY <1>1, <1>2, <1>3 DEF Counted

(* A push adds a thread that has not started, or none. *)
LEMMA CountedPushBegin ==
    ASSUME TypeInv, Counted, NEW c \in Clients, NEW t \in Tasks, PushBegin(c, t)
    PROVE  Counted'
<1>1. UNCHANGED <<live, thread_count, idle_thread_count, running_task_count>>
  BY DEF PushBegin, queueVars
<1>2. CASE UNCHANGED wpc
  BY <1>1, <1>2, CountedStays
<1>3. ASSUME NEW w \in Workers, NEW i, Spawn(w, i) PROVE Counted'
  <2>1. wpc[w] = "none" /\ wpc' = [wpc EXCEPT ![w] = "create"]
    BY <1>3 DEF Spawn, WorkerAt
  <2>2. \A S \in {Started, Idle, InHandPc} : At(S)' = At(S)
    <3>1. ASSUME NEW S, "none" \notin S, "create" \notin S PROVE At(S)' = At(S)
      BY <2>1, <3>1, AtStays DEF TypeInv, TypeOK
    <3> QED BY <3>1 DEF Started, Idle, InHandPc
  <2>3. IsFiniteSet(At(Created)')
    BY <2>1, AtMoves DEF Counted
  <2> QED BY <1>1, <2>2, <2>3 DEF Counted
<1> QED BY <1>2, <1>3 DEF PushBegin

LEMMA EmptyCounted ==
    ASSUME \A w \in Workers : wpc'[w] = "none"
    PROVE  \A S \in {Created, Started, Idle, InHandPc} :
             At(S)' = {} /\ IsFiniteSet(At(S)') /\ Cardinality(At(S)') = 0
<1>1. \A S : "none" \notin S => At(S)' = {}
  BY DEF At
<1>2. \A S \in {Created, Started, Idle, InHandPc} : "none" \notin S
  BY DEF Created, Started, Idle, InHandPc
<1> QED BY <1>1, <1>2, FS_EmptySet

(* Frames of the steps of clients that create no thread. *)
LEMMA PoolCallFrame ==
    ASSUME TypeInv, NEW c \in Clients, PoolCall(c)
    PROVE  \/ live' = FALSE /\ UNCHANGED wpc /\ FreePool(c)
           \/ /\ ~live /\ live' /\ \A w \in Workers : wpc'[w] = "none"
              /\ thread_count' = 0 /\ idle_thread_count' = 0 /\ running_task_count' = 0
              /\ \E max \in 1 .. MaxThreads : PoolNew(c, max)
           \/ /\ UNCHANGED <<live, queueVars, threads, max_thread_count>>
              /\ \E i \in Nat : StopThread(c, i)
              /\ WorkersWoken /\ \A w \in Workers : wpc'[w] # "wait"
           \/ UNCHANGED <<queueVars, lifeVars, workerVars>>
<1>1. ASSUME NEW i \in Nat, StopThread(c, i)
      PROVE  /\ UNCHANGED <<live, queueVars, threads, max_thread_count>>
             /\ WorkersWoken /\ \A w \in Workers : wpc'[w] # "wait"
  <2>1. wpc' = Wake(wpc, Waiting) /\ Waiting \in SUBSET Waiting
    BY <1>1 DEF StopThread
  <2>2. \A w \in Workers : wpc'[w] = IF w \in Waiting THEN "wake" ELSE wpc[w]
    BY <2>1, WakeWorkers DEF TypeInv, TypeOK
  <2> QED BY <1>1, <2>1, <2>2, WorkersSignalled DEF StopThread, Waiting, TypeInv, TypeOK
<1>2. CASE FreePool(c)
  BY <1>2 DEF FreePool
<1>3. ASSUME NEW max \in 0 .. MaxThreads + 1, PoolNew(c, max)
      PROVE  /\ ~live /\ live' /\ \A w \in Workers : wpc'[w] = "none"
             /\ thread_count' = 0 /\ idle_thread_count' = 0 /\ running_task_count' = 0
             /\ max \in 1 .. MaxThreads
  BY <1>3 DEF PoolNew
<1>4. ASSUME NEW max \in 0 .. MaxThreads + 1, PoolNewRefused(c, max)
      PROVE  UNCHANGED <<queueVars, lifeVars, workerVars>>
  BY <1>4 DEF PoolNewRefused
<1>5. CASE PoolDeleteRefused(c) \/ PoolDeleteJoin(c)
  BY <1>5 DEF PoolDeleteRefused, PoolDeleteJoin
<1>6. CASE PoolDelete(c)
  BY <1>1, <1>2, <1>6 DEF PoolDelete
<1>7. CASE PoolDeleteLock(c)
  <2>1. cint[c] + 1 \in Nat
    BY DEF TypeInv, TypeOK
  <2> QED BY <1>1, <1>2, <1>7, <2>1 DEF PoolDeleteLock
<1> QED BY <1>3, <1>4, <1>5, <1>6, <1>7 DEF PoolCall

LEMMA CountedStep ==
    ASSUME TypeInv, PoolPhases, Counted, Moves
    PROVE  Counted'
<1> USE DEF queueVars, lifeVars, workerVars
<1>1. ASSUME NEW w \in Workers, WorkerStep(w) PROVE Counted'
  BY <1>1, CountedWorkers
<1>2. ASSUME NEW c \in Clients, PoolCall(c) PROVE Counted'
  <2>1. CASE live' = FALSE /\ UNCHANGED wpc
    <3>1. At(Created)' = At(Created)
      BY <2>1, AtStays
    <3> QED BY <2>1, <3>1 DEF Counted
  <2>2. CASE /\ \A w \in Workers : wpc'[w] = "none"
             /\ thread_count' = 0 /\ idle_thread_count' = 0 /\ running_task_count' = 0
    BY <2>2, EmptyCounted DEF Counted
  <2>3. CASE UNCHANGED <<live, queueVars>> /\ WorkersWoken
    BY <2>3, CountedStays DEF WorkersWoken
  <2>4. CASE UNCHANGED <<queueVars, lifeVars, workerVars>>
    BY <2>4, CountedStays
  <2> QED BY <1>2, <2>1, <2>2, <2>3, <2>4, PoolCallFrame
<1>3. ASSUME NEW c \in Clients, PushCall(c) PROVE Counted'
  <2>1. ASSUME NEW t \in Tasks, PushBegin(c, t) PROVE Counted'
    BY <2>1, CountedPushBegin
  <2>2. CASE PushEnqueue(c)
    BY <2>2, PushEnqueueFrame, CountedStays DEF PushEnqueue
  <2>3. ASSUME NEW t \in Tasks, PushTooMany(c, t) PROVE Counted'
    BY <2>3, CountedStays DEF PushTooMany
  <2>4. CASE PushWait(c) \/ PushWake(c)
    BY <2>4, CountedStays DEF PushWait, PushWake
  <2> QED BY <1>3, <2>1, <2>2, <2>3, <2>4 DEF PushCall
<1>4. ASSUME NEW c \in Clients, TaskCall(c) PROVE Counted'
  BY <1>4, TaskCallFrame, CountedStays
<1>5. CASE Spurious
  BY <1>5, SpuriousFrame, CountedStays
<1> QED BY <1>1, <1>2, <1>3, <1>4, <1>5 DEF Moves

(* No worker takes a task from a pool that is being deleted or freed, and    *)
(* thread_pool_delete refuses while one has a task.                          *)
LEMMA HandsStep ==
    ASSUME TypeInv, PoolPhases, Counted, HandsEmpty, Moves
    PROVE  HandsEmpty'
<1> USE DEF queueVars, lifeVars, workerVars
<1>1. ASSUME \A w \in Workers : wpc'[w] \in InHandPc => wpc[w] \in InHandPc,
             ~live' \/ Deleting' => ~live \/ Deleting
      PROVE  HandsEmpty'
  BY <1>1 DEF HandsEmpty, At
<1>2. ASSUME NEW w \in Workers, WorkerStep(w) PROVE HandsEmpty'
  <2>1. ~live' \/ Deleting' => ~live \/ Deleting
    <3>1. UNCHANGED live
      BY <1>2 DEF WorkerStep, WorkerStart, WorkerWait, WorkerWake, WorkerExit, WorkerTake,
         WorkerRun, WorkerReturn, WorkerFinish, WorkerUnlock
    <3>2. CASE WorkerTake(w) \/ WorkerExit(w)
      BY <3>1, <3>2 DEF WorkerTake, WorkerExit, clientVars, Deleting
    <3>3. CASE ~WorkerTake(w) /\ ~WorkerExit(w)
      BY <1>2, <3>1, <3>3, WorkerFrame DEF SamePhase, Deleting
    <3> QED BY <3>2, <3>3
  <2>2. CASE WorkerTake(w)
    <3>1. live /\ ~Deleting
      BY <2>2 DEF WorkerTake, PoolPhases
    <3> QED BY <2>1, <3>1 DEF HandsEmpty
  <2>3. CASE ~WorkerTake(w)
    <3>1. \A v \in Workers : wpc'[v] \in InHandPc => wpc[v] \in InHandPc
      BY <1>2, <2>3 DEF WorkerStep, WorkerStart, WorkerWait, WorkerWake, WorkerExit,
         WorkerRun, WorkerReturn, WorkerFinish, WorkerUnlock, WorkerAt, InHandPc,
         TypeInv, TypeOK
    <3> QED BY <1>1, <2>1, <3>1
  <2> QED BY <2>2, <2>3
<1>3. ASSUME NEW c \in Clients, PoolCall(c) PROVE HandsEmpty'
  <2>1. CASE PoolDelete(c)
    <3>1. live /\ running_task_count <= 0
      BY <2>1 DEF PoolDelete, MayDeletePool, HasTasks, TypeInv, TypeOK
    <3>2. At(InHandPc) = {}
      <4>1. IsFiniteSet(At(InHandPc))
        BY ClassesFinite
      <4>2. Cardinality(At(InHandPc)) \in Nat /\ Cardinality(At(InHandPc)) <= 0
        BY <3>1, <4>1, FS_CardinalityType DEF Counted
      <4> QED BY <4>1, <4>2, FS_EmptySet
    <3>3. \A w \in Workers : wpc'[w] \in InHandPc => wpc[w] \in InHandPc
      BY <1>3, PoolCallFrame DEF WorkersWoken, InHandPc
    <3> QED BY <3>2, <3>3 DEF HandsEmpty, At
  <2>2. ASSUME NEW max, PoolNew(c, max) PROVE HandsEmpty'
    BY <2>2 DEF PoolNew, HandsEmpty, At, InHandPc
  <2>3. CASE PoolDeleteJoin(c) \/ PoolDeleteLock(c)
    <3>1. \A w \in Workers : wpc'[w] \in InHandPc => wpc[w] \in InHandPc
      BY <1>3, PoolCallFrame DEF WorkersWoken, InHandPc
    <3>2. Deleting
      BY <2>3 DEF PoolDeleteJoin, PoolDeleteLock, Deleting, DeletePoolPc
    <3> QED BY <1>1, <3>1, <3>2
  <2>4. ASSUME NEW max, PoolNewRefused(c, max) \/ PoolDeleteRefused(c) PROVE HandsEmpty'
    <3>1. UNCHANGED <<live, wpc>>
      BY <2>4 DEF PoolNewRefused, PoolDeleteRefused
    <3>2. Deleting' => Deleting
      BY <2>4 DEF PoolNewRefused, PoolDeleteRefused, Return, Deleting, DeletePoolPc, TypeInv, TypeOK
    <3> QED BY <1>1, <3>1, <3>2
  <2> QED BY <1>3, <2>1, <2>2, <2>3, <2>4 DEF PoolCall
<1>4. ASSUME NEW c \in Clients, PushCall(c) PROVE HandsEmpty'
  <2>1. \A w \in Workers : wpc'[w] \in InHandPc => wpc[w] \in InHandPc
    <3>1. ASSUME NEW t \in Tasks, PushBegin(c, t)
          PROVE  \A w \in Workers : wpc'[w] \in InHandPc => wpc[w] \in InHandPc
      BY <3>1, PushBeginFrame DEF InHandPc
    <3>2. CASE PushEnqueue(c)
      BY <3>2, PushEnqueueFrame DEF InHandPc
    <3> QED BY <1>4, <3>1, <3>2 DEF PushCall, PushTooMany, PushWait, PushWake
  <2>2. UNCHANGED live
    BY <1>4 DEF PushCall, PushBegin, PushTooMany, PushWait, PushWake, PushEnqueue
  <2>3. Deleting' => Deleting
    <3>1. \E pc \in PushPc \cup {"idle"} : cpc' = [cpc EXCEPT ![c] = pc]
      BY <1>4 DEF PushCall, PushBegin, PushTooMany, PushWait, PushWake, PushEnqueue,
           Return, Enter, ClientAt, PushPc
    <3> QED BY <3>1 DEF Deleting, DeletePoolPc, PushPc, TypeInv, TypeOK
  <2> QED BY <1>1, <2>1, <2>2, <2>3
<1>5. CASE Spurious \/ \E c \in Clients : TaskCall(c)
  <2>1. SamePhase
    BY <1>5, OtherSamePhase
  <2>2. \A w \in Workers : wpc'[w] \in InHandPc => wpc[w] \in InHandPc
    BY <1>5, TaskCallFrame, SpuriousFrame DEF InHandPc
  <2> QED BY <1>1, <2>1, <2>2 DEF SamePhase, Deleting
<1> QED BY <1>2, <1>3, <1>4, <1>5 DEF Moves

-----------------------------------------------------------------------------
(* The list is not left to sleeping workers. *)

ComingPc == {"check", "wake"}

LEMMA ConservingFrame ==
    ASSUME WorkConserving, UNCHANGED pending_task_list, At(ComingPc)' = At(ComingPc),
           Waiting' \subseteq Waiting
    PROVE  WorkConserving'
BY DEF WorkConserving, ComingPc

LEMMA ConservingWorkers ==
    ASSUME TypeInv, PoolPhases, Counted, WorkConserving, NEW w \in Workers, WorkerStep(w)
    PROVE  WorkConserving'
<1>1. PICK pc \in WorkerPc : wpc' = [wpc EXCEPT ![w] = pc]
  BY WorkerCounts
<1>2. /\ Cardinality(At(ComingPc)') = Cardinality(At(ComingPc)) + Moved(ComingPc, wpc[w], pc)
      /\ Cardinality(At(ComingPc)) \in Nat /\ Cardinality(At(ComingPc)') \in Nat
  <2>1. IsFiniteSet(At(ComingPc))
    BY ClassesFinite DEF ComingPc
  <2> QED BY <1>1, <2>1, AtMoves, FS_CardinalityType
<1>3. pending_task_count = Len(pending_task_list) /\ pending_task_list \in Seq(Tasks)
      /\ Len(pending_task_list) \in Nat
  BY DEF PoolPhases, TypeInv, TypeOK
<1>4. ASSUME UNCHANGED pending_task_list, pc # "wait",
             wpc[w] \in ComingPc => pc \in ComingPc
      PROVE  WorkConserving'
  <2>1. Cardinality(At(ComingPc)) <= Cardinality(At(ComingPc)')
    BY <1>2, <1>4 DEF Moved
  <2>2. Waiting' \subseteq Waiting
    BY <1>1, <1>4 DEF Waiting, TypeInv, TypeOK
  <2> QED BY <1>2, <1>3, <1>4, <2>1, <2>2 DEF WorkConserving, ComingPc
<1>5. ASSUME pending_task_list' = <<>> PROVE WorkConserving'
  BY <1>2, <1>5 DEF WorkConserving, ComingPc
<1>6. CASE WorkerWait(w)
  BY <1>3, <1>5, <1>6 DEF WorkerWait, queueVars
<1>7. CASE WorkerExit(w)
  <2>1. Deleting
    BY <1>7 DEF WorkerExit, PoolPhases, TypeInv, TypeOK
  <2> QED BY <1>5, <1>7, <2>1 DEF WorkerExit, PoolPhases, queueVars
<1>8. CASE WorkerTake(w)
  <2>1. wpc[w] = "check" /\ pc = "start_task"
    BY <1>1, <1>8 DEF WorkerTake, WorkerAt, TypeInv, TypeOK
  <2>2. Cardinality(At(ComingPc)') = Cardinality(At(ComingPc)) - 1
    BY <1>2, <2>1 DEF Moved, ComingPc
  <2>3. Len(pending_task_list') = Len(pending_task_list) - 1
    BY <1>3, <1>8 DEF WorkerTake
  <2>4. Waiting' \subseteq Waiting
    BY <1>1, <2>1 DEF Waiting, TypeInv, TypeOK
  <2> QED BY <1>2, <1>3, <2>2, <2>3, <2>4 DEF WorkConserving, ComingPc
<1>9. CASE ~WorkerWait(w) /\ ~WorkerExit(w) /\ ~WorkerTake(w)
  <2>1. UNCHANGED pending_task_list
    BY <1>9 DEF WorkerStep, WorkerStart, WorkerWake, WorkerRun, WorkerReturn,
         WorkerFinish, WorkerUnlock, queueVars
  <2>2. pc # "wait" /\ (wpc[w] \in ComingPc => pc \in ComingPc)
    BY <1>1, <1>9 DEF WorkerStep, WorkerStart, WorkerWake, WorkerRun, WorkerReturn,
         WorkerFinish, WorkerUnlock, WorkerAt, ComingPc, TypeInv, TypeOK
  <2> QED BY <1>4, <2>1, <2>2
<1> QED BY <1>6, <1>7, <1>8, <1>9

(* More workers on their way, no more that wait. *)
LEMMA ConservingGrows ==
    ASSUME TypeInv, WorkConserving, Counted, Counted', UNCHANGED pending_task_list,
           \A w \in Workers : /\ wpc[w] \in ComingPc => wpc'[w] \in ComingPc
                              /\ wpc'[w] = "wait" => wpc[w] = "wait"
    PROVE  WorkConserving'
<1>1. IsFiniteSet(At(ComingPc)) /\ IsFiniteSet(At(ComingPc)')
  <2>1. ComingPc \subseteq Created
    BY DEF ComingPc, Created, WorkerPc
  <2>2. At(ComingPc) \in SUBSET At(Created) /\ At(ComingPc)' \in SUBSET At(Created)'
    BY <2>1 DEF At
  <2> QED BY <2>2, FS_Subset DEF Counted
<1>2. At(ComingPc) \in SUBSET At(ComingPc)'
  BY DEF At
<1>3. Cardinality(At(ComingPc)) <= Cardinality(At(ComingPc)')
  BY <1>1, <1>2, FS_Subset
<1>4. Cardinality(At(ComingPc)) \in Nat /\ Cardinality(At(ComingPc)') \in Nat
  BY <1>1, FS_CardinalityType
<1>5. Waiting' \subseteq Waiting
  BY DEF Waiting
<1>6. Len(pending_task_list) \in Nat
  BY DEF TypeInv, TypeOK
<1> QED BY <1>3, <1>4, <1>5, <1>6 DEF WorkConserving, ComingPc

LEMMA ConservingEnqueue ==
    ASSUME TypeInv, PoolPhases, Counted, WorkConserving, NEW c \in Clients, PushEnqueue(c)
    PROVE  WorkConserving'
<1>1. PICK S \in Signal(Waiting) : wpc' = Wake(wpc, S)
  BY DEF PushEnqueue, PushWakes
<1>2. S \subseteq Waiting /\ (Waiting # {} => \E x \in Waiting : S = {x})
  BY <1>1, SignalOne
<1>3. \A w \in Workers : wpc'[w] = IF w \in S THEN "wake" ELSE wpc[w]
  BY <1>1, <1>2, WakeWorkers DEF TypeInv, TypeOK
<1>4. CASE Waiting = {}
  <2>1. Waiting' = {}
    BY <1>2, <1>3, <1>4 DEF Waiting
  <2> QED BY <2>1 DEF WorkConserving
<1>5. CASE Waiting # {}
  <2>1. PICK x \in Waiting : S = {x}
    BY <1>2, <1>5
  <2>2. At(ComingPc)' = At(ComingPc) \cup {x} /\ x \notin At(ComingPc)
    BY <1>3, <2>1 DEF At, ComingPc, Waiting
  <2>3. IsFiniteSet(At(ComingPc))
    BY ClassesFinite DEF ComingPc
  <2>4. Cardinality(At(ComingPc)') = Cardinality(At(ComingPc)) + 1
        /\ Cardinality(At(ComingPc)) \in Nat
    BY <2>2, <2>3, FS_AddElement, FS_CardinalityType
  <2>5. Len(pending_task_list') = Len(pending_task_list) + 1 /\ Len(pending_task_list) \in Nat
    BY PushEnqueueFrame DEF TypeInv, TypeOK
  <2> QED BY <1>5, <2>4, <2>5 DEF WorkConserving, ComingPc
<1> QED BY <1>4, <1>5

LEMMA ConservingStep ==
    ASSUME TypeInv, PoolPhases, Counted, Counted', WorkConserving, Moves
    PROVE  WorkConserving'
<1> USE DEF queueVars, workerVars, ComingPc
<1>1. ASSUME NEW w \in Workers, WorkerStep(w) PROVE WorkConserving'
  BY <1>1, ConservingWorkers
<1>2. ASSUME NEW c \in Clients, PoolCall(c) PROVE WorkConserving'
  <2>1. CASE \A w \in Workers : wpc'[w] # "wait"
    BY <2>1 DEF WorkConserving, Waiting
  <2>2. CASE FreePool(c)
    <3>1. pending_task_list' = <<>> /\ UNCHANGED wpc
      BY <2>2 DEF FreePool
    <3>2. Len(pending_task_list') = 0 /\ At(ComingPc)' = At(ComingPc)
      BY <3>1 DEF At
    <3>3. Cardinality(At(ComingPc)) \in Nat
      <4>1. IsFiniteSet(At(ComingPc))
        BY ClassesFinite
      <4> QED BY <4>1, FS_CardinalityType
    <3> QED BY <3>2, <3>3 DEF WorkConserving
  <2>3. CASE UNCHANGED <<queueVars, workerVars>>
    BY <2>3, ConservingGrows
  <2> QED BY <1>2, <2>1, <2>2, <2>3, PoolCallFrame
<1>3. ASSUME NEW c \in Clients, PushCall(c) PROVE WorkConserving'
  <2>1. ASSUME NEW t \in Tasks, PushBegin(c, t) PROVE WorkConserving'
    <3>1. /\ UNCHANGED pending_task_list
          /\ \A v \in Workers : wpc'[v] = wpc[v] \/ (wpc[v] = "none" /\ wpc'[v] = "create")
      BY <2>1, PushBeginFrame
    <3> QED BY <3>1, ConservingGrows
  <2>2. CASE PushEnqueue(c)
    BY <2>2, ConservingEnqueue
  <2>3. ASSUME NEW t \in Tasks, PushTooMany(c, t) PROVE WorkConserving'
    BY <2>3, ConservingGrows DEF PushTooMany
  <2>4. CASE PushWait(c) \/ PushWake(c)
    BY <2>4, ConservingGrows DEF PushWait, PushWake
  <2> QED BY <1>3, <2>1, <2>2, <2>3, <2>4 DEF PushCall
<1>4. ASSUME NEW c \in Clients, TaskCall(c) PROVE WorkConserving'
  BY <1>4, TaskCallFrame, ConservingGrows
<1>5. CASE Spurious
  BY <1>5, SpuriousFrame, ConservingGrows
<1> QED BY <1>1, <1>2, <1>3, <1>4, <1>5 DEF Moves

-----------------------------------------------------------------------------
CountInv == TypeInv /\ PoolPhases /\ Counted /\ HandsEmpty /\ WorkConserving

LEMMA PhaseStep ==
    ASSUME TypeInv, PoolPhases, Moves
    PROVE  PoolPhases'
BY PhaseWorkers, PhasePool, PhasePush, PhaseOther DEF Moves

LEMMA CountInit ==
    Init => CountInv
<1> SUFFICES ASSUME Init PROVE CountInv
  OBVIOUS
<1>1. TypeInv /\ PoolPhases
  BY PoolInit DEF PoolInv
<1>2. At(Created) = {} /\ At(InHandPc) = {} /\ Waiting = {}
  BY DEF Init, At, Created, InHandPc, Waiting
<1>3. Counted
  BY <1>2, FS_EmptySet DEF Init, Counted
<1>4. HandsEmpty /\ WorkConserving
  BY <1>2 DEF HandsEmpty, WorkConserving
<1> QED BY <1>1, <1>3, <1>4 DEF CountInv

LEMMA CountStep ==
    CountInv /\ [Next]_vars => CountInv'
<1> SUFFICES ASSUME CountInv, [Next]_vars PROVE CountInv'
  OBVIOUS
<1> USE DEF CountInv
<1>1. CASE Moves
  <2>1. TypeInv' /\ PoolPhases' /\ Counted'
    BY <1>1, TypeStep, PhaseStep, CountedStep
  <2> QED BY <1>1, <2>1, HandsStep, ConservingStep
<1>2. CASE UNCHANGED vars
  <2> USE <1>2 DEF vars, queueVars, lifeVars, workerVars, clientVars
  <2>1. TypeInv' /\ SamePhase
    BY TypeStep DEF SamePhase
  <2>2. PoolPhases'
    BY <2>1, PhaseFrame
  <2>3. Counted'
    BY CountedStays
  <2>4. HandsEmpty' /\ WorkConserving'
    BY DEF HandsEmpty, WorkConserving, At, Deleting, Waiting
  <2> QED BY <2>1, <2>2, <2>3, <2>4
<1> QED BY <1>1, <1>2, NextSteps

(* No pending task is left to sleeping workers: whoever pushes, each push    *)
(* wakes a worker of its own as long as one waits (line 264).                *)
THEOREM ListServed == Spec => []WorkConserving
<1>1. Spec => []CountInv
  BY CountInit, CountStep, PTL DEF Spec
<1> QED BY <1>1, PTL DEF CountInv

-----------------------------------------------------------------------------
(* A step that creates no worker and brings none to life, begins and ends no *)
(* push, and leaves who deletes the pool where it is.                        *)
Steady ==
    /\ \A w \in Workers : /\ wpc'[w] \in Alive => wpc[w] \in Alive /\ widx'[w] = widx[w]
                          /\ wpc'[w] = "create" => wpc[w] = "create"
                          /\ wpc'[w] \in Created <=> wpc[w] \in Created
    /\ \A c \in Clients : /\ cpc'[c] \in PushPc <=> cpc[c] \in PushPc
                          /\ cpc'[c] \in PushPc => cint'[c] = cint[c]
                          /\ cpc'[c] \in DeletePoolPc =>
                               cpc'[c] = cpc[c] /\ cint'[c] = cint[c]

LEMMA WorkerSteady ==
    ASSUME TypeInv, NEW w \in Workers, WorkerStep(w)
    PROVE  /\ Steady /\ UNCHANGED <<live, threads, max_thread_count>>
           /\ Len(pending_task_list') <= Len(pending_task_list)
           /\ pending_task_count' <= pending_task_count
<1>1. PICK pc \in WorkerPc : /\ wpc' = [wpc EXCEPT ![w] = pc]
                             /\ pc # "none" /\ wpc[w] # "none"
  BY WorkerCounts
<1>2. /\ UNCHANGED <<live, threads, max_thread_count, cint>>
      /\ wpc[w] \in Alive /\ pc # "create"
      /\ \A v \in Workers : v # w => widx'[v] = widx[v]
      /\ pc = "exited" \/ widx'[w] = widx[w]
  BY <1>1 DEF WorkerStep, WorkerStart, WorkerWait, WorkerWake, WorkerExit, WorkerTake,
         WorkerRun, WorkerReturn, WorkerFinish, WorkerUnlock, WorkerAt, lifeVars, clientVars,
         Alive, WorkerPc, TypeInv, TypeOK
<1>3. \A v \in Workers : /\ wpc'[v] \in Alive => wpc[v] \in Alive /\ widx'[v] = widx[v]
                         /\ wpc'[v] = "create" => wpc[v] = "create"
                         /\ wpc'[v] \in Created <=> wpc[v] \in Created
  BY <1>1, <1>2 DEF Alive, Created, TypeInv, TypeOK
<1>4. /\ Len(pending_task_list') <= Len(pending_task_list)
      /\ pending_task_count' <= pending_task_count
  <2>1. CASE WorkerTake(w)
    BY <2>1 DEF WorkerTake, CountTaken, TypeInv, TypeOK
  <2>2. CASE ~WorkerTake(w)
    <3>1. UNCHANGED <<pending_task_list, pending_task_count>>
      BY <2>2 DEF WorkerStep, WorkerStart, WorkerWait, WorkerWake, WorkerExit,
         WorkerRun, WorkerReturn, WorkerFinish, WorkerUnlock, queueVars
    <3> QED BY <3>1 DEF TypeInv, TypeOK
  <2> QED BY <2>1, <2>2
<1>5. ClientsWoken
  <2>1. UNCHANGED cpc => ClientsWoken
    BY DEF ClientsWoken, TypeInv, TypeOK
  <2>2. CASE WorkerStart(w)
    BY <2>2, SpawnSignalled DEF WorkerStart, TypeInv, TypeOK
  <2>3. CASE WorkerFinish(w)
    BY <2>1, <2>3, JoinersSignalled DEF WorkerFinish, TypeInv, TypeOK
  <2> QED BY <2>1, <2>2, <2>3
          DEF WorkerStep, WorkerWait, WorkerWake, WorkerExit, WorkerTake, WorkerRun,
              WorkerReturn, WorkerUnlock, clientVars
<1>6. \A c \in Clients : /\ cpc'[c] \in PushPc <=> cpc[c] \in PushPc
                         /\ cpc'[c] \in DeletePoolPc => cpc'[c] = cpc[c]
  BY <1>5 DEF ClientsWoken, PushPc, DeletePoolPc
<1> QED BY <1>2, <1>3, <1>4, <1>6 DEF Steady

LEMMA PushSteady ==
    ASSUME TypeInv, NEW c \in Clients, PushCall(c)
    PROVE  \/ Steady /\ UNCHANGED <<queueVars, lifeVars>>
           \/ \E t \in Tasks : PushBegin(c, t)
           \/ PushEnqueue(c)
<1> USE DEF queueVars, lifeVars, workerVars
<1>1. ASSUME NEW pc \in PushPc \cup {"idle"}, cpc' = [cpc EXCEPT ![c] = pc],
             pc = "idle" <=> cpc[c] = "idle", cpc[c] \in PushPc \cup {"idle"},
             pc # "idle" => UNCHANGED cint, cint' = [cint EXCEPT ![c] = 0] \/ UNCHANGED cint,
             UNCHANGED <<queueVars, lifeVars, workerVars>>
      PROVE  Steady /\ UNCHANGED <<queueVars, lifeVars>>
  <2>1. \A d \in Clients : /\ cpc'[d] \in PushPc <=> cpc[d] \in PushPc
                           /\ cpc'[d] \in PushPc => cint'[d] = cint[d]
                           /\ cpc'[d] \in DeletePoolPc => cpc'[d] = cpc[d] /\ cint'[d] = cint[d]
    BY <1>1 DEF PushPc, DeletePoolPc, TypeInv, TypeOK
  <2>2. \A v \in Workers : wpc'[v] = wpc[v] /\ widx'[v] = widx[v]
    BY <1>1
  <2> QED BY <1>1, <2>1, <2>2 DEF Steady
<1>2. ASSUME NEW t \in Tasks, PushTooMany(c, t) PROVE Steady /\ UNCHANGED <<queueVars, lifeVars>>
  BY <1>1, <1>2 DEF PushTooMany, MayPush, MayCall, Return, PushPc
<1>3. CASE PushWait(c)
  BY <1>1, <1>3 DEF PushWait, ClientAt, PushPc
<1>4. CASE PushWake(c)
  BY <1>1, <1>4 DEF PushWake, ClientAt, PushPc
<1> QED BY <1>2, <1>3, <1>4 DEF PushCall

LEMMA TaskSteady ==
    ASSUME TypeInv, NEW c \in Clients, TaskCall(c)
    PROVE  Steady /\ UNCHANGED <<queueVars, lifeVars>>
<1> USE DEF workerVars
<1>1. \A d \in Clients : d # c => cint'[d] = cint[d] /\ cpc'[d] = cpc[d]
  BY DEF TaskCall, TaskNew, TaskDelete, NotPushed, DetachCall, JoinCall, JoinLock,
         ZeroLock, TimedLock, HugeLock, Timeout, TimedExpired, DetachLock, DetachDelete,
         CollectOrWait, Collect, Enter, Return, ClientAt, TypeInv, TypeOK
<1>2. cpc[c] \in TaskCallPc /\ cpc'[c] \in TaskCallPc
  BY TaskCallFrame DEF TypeInv, TypeOK
<1>3. \A d \in Clients : /\ cpc'[d] \in PushPc <=> cpc[d] \in PushPc
                         /\ cpc'[d] \in PushPc => cint'[d] = cint[d]
                         /\ cpc'[d] \in DeletePoolPc => cpc'[d] = cpc[d] /\ cint'[d] = cint[d]
  BY <1>1, <1>2 DEF TaskCallPc, PushPc, JoinPc, JoinEntry, DetachPc, DeletePoolPc
<1>4. \A v \in Workers : wpc'[v] = wpc[v] /\ widx'[v] = widx[v]
  BY TaskCallFrame
<1> QED BY <1>3, <1>4, TaskCallFrame DEF Steady

LEMMA SpuriousSteady ==
    ASSUME TypeInv, Spurious
    PROVE  Steady /\ UNCHANGED <<queueVars, lifeVars>>
<1>1. \A d \in Clients : /\ cpc'[d] \in PushPc <=> cpc[d] \in PushPc
                         /\ cpc'[d] \in PushPc => cint'[d] = cint[d]
                         /\ cpc'[d] \in DeletePoolPc => cpc'[d] = cpc[d] /\ cint'[d] = cint[d]
  BY SpuriousFrame DEF ClientsWoken, PushPc, DeletePoolPc
<1>2. \A v \in Workers : /\ wpc'[v] \in Alive => wpc[v] \in Alive /\ widx'[v] = widx[v]
                         /\ wpc'[v] = "create" => wpc[v] = "create"
                         /\ wpc'[v] \in Created <=> wpc[v] \in Created
  BY SpuriousFrame DEF Alive, Created, WorkerPc
<1> QED BY <1>1, <1>2, SpuriousFrame DEF Steady

-----------------------------------------------------------------------------
(* The limits, however many pushes overlap.                                  *)

(* The pushes that wait for the next thread that starts. *)
Ahead == {c \in InPush : cint[c] = thread_count + 1}

(* Each thread that has not started is one that a push has created since the *)
(* last one started, or one of those that were left over from then.          *)
ThreadsLimited ==
    live => /\ threads = <<>> => At(Created) = {}
            /\ Cardinality(At(Created))
                 <= Cardinality(Pushers) * thread_count + Cardinality(Ahead)
            /\ Cardinality(At(Created)) <= Cardinality(Pushers) * max_thread_count

TasksLimited ==
    Len(pending_task_list) + Cardinality(InPush) < MaxTasks + Cardinality(Pushers)

Limited == InPush \subseteq Pushers /\ ThreadsLimited /\ TasksLimited

LEMMA PushersFinite ==
    ASSUME InPush \subseteq Pushers
    PROVE  /\ Cardinality(Pushers) \in Nat
           /\ IsFiniteSet(InPush) /\ Cardinality(InPush) \in Nat
           /\ Cardinality(InPush) <= Cardinality(Pushers)
           /\ IsFiniteSet(Ahead) /\ Cardinality(Ahead) \in Nat
           /\ Cardinality(Ahead) <= Cardinality(Pushers)
<1>1. IsFiniteSet(Pushers)
  BY ConstantsAssumption
<1>2. \A S \in SUBSET Pushers : IsFiniteSet(S) /\ Cardinality(S) <= Cardinality(Pushers)
  BY <1>1, FS_Subset
<1>3. InPush \in SUBSET Pushers /\ Ahead \in SUBSET Pushers
  BY DEF Ahead
<1> QED BY <1>1, <1>2, <1>3, FS_CardinalityType

LEMMA AheadNext ==
    ASSUME InPush' \subseteq Pushers
    PROVE  Cardinality(Ahead') \in Nat
<1>1. \A S \in SUBSET Pushers : IsFiniteSet(S)
  BY ConstantsAssumption, FS_Subset
<1>2. Ahead' \in SUBSET Pushers
  BY DEF Ahead
<1> QED BY <1>1, <1>2, FS_CardinalityType

(* A push begins: it is one more, and ahead if it has created a thread. *)
LEMMA PushAdds ==
    ASSUME InPush \subseteq Pushers, InPush' \subseteq Pushers,
           NEW c \in Pushers, c \notin InPush, InPush' = InPush \cup {c}
    PROVE  /\ Cardinality(InPush') = Cardinality(InPush) + 1
           /\ Cardinality(InPush) < Cardinality(Pushers)
           /\ Ahead' = Ahead \cup {c} => Cardinality(Ahead') = Cardinality(Ahead) + 1
           /\ Cardinality(Ahead) < Cardinality(Pushers)
<1>1. IsFiniteSet(Pushers)
  BY ConstantsAssumption
<1>2. /\ IsFiniteSet(Pushers \ {c}) /\ Cardinality(Pushers \ {c}) = Cardinality(Pushers) - 1
      /\ Cardinality(Pushers) \in Nat
  BY <1>1, FS_RemoveElement, FS_CardinalityType
<1>3. InPush \in SUBSET (Pushers \ {c}) /\ Ahead \in SUBSET (Pushers \ {c})
  BY DEF Ahead
<1>4. /\ Cardinality(InPush) <= Cardinality(Pushers \ {c})
      /\ Cardinality(Ahead) <= Cardinality(Pushers \ {c})
  BY <1>2, <1>3, FS_Subset
<1>5. c \notin Ahead
  BY DEF Ahead
<1>6. Cardinality(InPush \cup {c}) = Cardinality(InPush) + 1
  BY PushersFinite, FS_AddElement
<1>7. Cardinality(Ahead \cup {c}) = Cardinality(Ahead) + 1
  BY <1>5, PushersFinite, FS_AddElement
<1>8. Cardinality(InPush) \in Nat /\ Cardinality(Ahead) \in Nat
  BY PushersFinite
<1>9. Cardinality(InPush) < Cardinality(Pushers) /\ Cardinality(Ahead) < Cardinality(Pushers)
  BY <1>2, <1>4, <1>8
<1> QED BY <1>6, <1>7, <1>9

LEMMA CreatedSame ==
    ASSUME \A w \in Workers : wpc'[w] \in Created <=> wpc[w] \in Created
    PROVE  At(Created)' = At(Created)
BY AtStays

LEMMA SteadyPushes ==
    ASSUME Steady
    PROVE  /\ InPush' = InPush /\ At(Created)' = At(Created)
           /\ UNCHANGED thread_count => Ahead' = Ahead
<1>1. InPush' = InPush
  BY DEF Steady, InPush
<1>2. At(Created)' = At(Created)
  BY CreatedSame DEF Steady
<1>3. \A c \in InPush : cint'[c] = cint[c]
  BY DEF Steady, InPush
<1>4. ASSUME UNCHANGED thread_count PROVE Ahead' = Ahead
  BY <1>1, <1>3, <1>4 DEF Ahead
<1> QED BY <1>1, <1>2, <1>4

LEMMA LimitedStays ==
    ASSUME TypeInv, TypeInv', Limited, Steady,
           UNCHANGED <<live, threads, max_thread_count, thread_count>>,
           Len(pending_task_list') <= Len(pending_task_list)
    PROVE  Limited'
<1>1. InPush' = InPush /\ At(Created)' = At(Created) /\ Ahead' = Ahead
  BY SteadyPushes
<1>2. ThreadsLimited'
  BY <1>1 DEF Limited, ThreadsLimited
<1>3. TasksLimited'
  <2>1. Len(pending_task_list) \in Nat /\ Len(pending_task_list') \in Nat
    BY DEF TypeInv, TypeOK
  <2>2. Cardinality(InPush) \in Nat /\ Cardinality(Pushers) \in Nat
    BY PushersFinite DEF Limited
  <2> QED BY <1>1, <2>1, <2>2, ConstantsAssumption DEF Limited, TasksLimited
<1> QED BY <1>1, <1>2, <1>3 DEF Limited

LEMMA LimitedSame ==
    ASSUME TypeInv, TypeInv', Limited, Steady, UNCHANGED <<queueVars, lifeVars>>
    PROVE  Limited'
<1>1. UNCHANGED <<live, threads, max_thread_count, thread_count, pending_task_list>>
  BY DEF queueVars, lifeVars
<1>2. Len(pending_task_list') <= Len(pending_task_list)
  BY <1>1 DEF TypeInv, TypeOK
<1> QED BY <1>1, <1>2, LimitedStays

(* One thread more that has started makes room for one more of each pusher. *)
LEMMA OneMoreThread ==
    ASSUME NEW p \in Nat, NEW n \in Nat, NEW a \in Nat, NEW b \in Nat, NEW k \in Nat,
           k <= p * n + a, a <= p
    PROVE  k <= p * (n + 1) + b
<1>1. p * (n + 1) = p * n + p /\ p * n \in Nat /\ p * (n + 1) \in Nat
  OBVIOUS
<1> DEFINE x == p * n
           y == p * (n + 1)
<1>2. x \in Nat /\ y \in Nat /\ y = x + p /\ k <= x + a
  BY <1>1
<1> HIDE DEF x, y
<1>3. k <= y + b
  BY <1>2
<1> QED BY <1>3 DEF y

LEMMA LimitedWorkers ==
    ASSUME TypeInv, TypeInv', Counted, Limited, NEW w \in Workers, WorkerStep(w)
    PROVE  Limited'
<1>1. /\ Steady /\ UNCHANGED <<live, threads, max_thread_count>>
      /\ Len(pending_task_list') <= Len(pending_task_list)
  BY WorkerSteady
<1>2. CASE UNCHANGED thread_count
  BY <1>1, <1>2, LimitedStays
<1>3. CASE WorkerStart(w)
  <2>1. thread_count' = thread_count + 1 /\ thread_count \in Nat /\ UNCHANGED pending_task_list
    BY <1>3 DEF WorkerStart, TypeInv, TypeOK
  <2>2. InPush' = InPush /\ At(Created)' = At(Created)
    BY <1>1, SteadyPushes
  <2>3. /\ Cardinality(Pushers) \in Nat
        /\ Cardinality(Ahead) \in Nat /\ Cardinality(Ahead) <= Cardinality(Pushers)
    BY PushersFinite DEF Limited
  <2>4. Cardinality(Ahead') \in Nat
    BY <2>2, AheadNext DEF Limited
  <2>5. ASSUME live PROVE Cardinality(At(Created))
                            <= Cardinality(Pushers) * thread_count' + Cardinality(Ahead')
    <3>1. Cardinality(At(Created)) <= Cardinality(Pushers) * thread_count + Cardinality(Ahead)
      BY <2>5 DEF Limited, ThreadsLimited
    <3>2. Cardinality(At(Created)) \in Nat
      BY FS_CardinalityType DEF Counted
    <3> QED BY <2>1, <2>3, <2>4, <3>1, <3>2, OneMoreThread
  <2>6. ThreadsLimited'
    BY <1>1, <2>2, <2>5 DEF Limited, ThreadsLimited
  <2>7. TasksLimited'
    BY <2>1, <2>2 DEF Limited, TasksLimited
  <2> QED BY <2>2, <2>6, <2>7 DEF Limited
<1> QED BY <1>2, <1>3 DEF WorkerStep, WorkerWait, WorkerWake, WorkerExit, WorkerTake,
                          WorkerRun, WorkerReturn, WorkerFinish, WorkerUnlock, queueVars

LEMMA OneMoreCreated ==
    ASSUME NEW p \in Nat, NEW n \in Nat, NEW m \in Nat, NEW a \in Nat, NEW k \in Nat,
           k <= p * n + a, n < m, a < p
    PROVE  k + 1 <= p * m
<1>1. PICK d \in Nat : m = n + 1 + d
  <2>1. m - n - 1 \in Nat /\ m = n + 1 + (m - n - 1)
    OBVIOUS
  <2> QED BY <2>1
<1>2. p * m = p * n + p + p * d /\ p * n \in Nat /\ p * d \in Nat /\ p * m \in Nat
  BY <1>1
<1> DEFINE x == p * n
           y == p * m
           z == p * d
<1>3. x \in Nat /\ z \in Nat /\ y = x + p + z /\ k <= x + a
  BY <1>2
<1> HIDE DEF x, y, z
<1>4. k + 1 <= y
  BY <1>3
<1> QED BY <1>4 DEF y

LEMMA SomeLimit ==
    ASSUME NEW p \in Nat, NEW m \in Nat, p >= 1, m >= 1
    PROVE  1 <= p * m
<1>1. PICK e \in Nat : p = 1 + e
  <2>1. p - 1 \in Nat /\ p = 1 + (p - 1)
    OBVIOUS
  <2> QED BY <2>1
<1>2. p * m = m + e * m /\ e * m \in Nat
  BY <1>1
<1> QED BY <1>2

LEMMA LimitedPushBegin ==
    ASSUME TypeInv, TypeInv', PoolPhases, Counted, Limited,
           NEW c \in Clients, NEW t \in Tasks, PushBegin(c, t)
    PROVE  Limited'
<1> DEFINE idx == IF threads = <<>> THEN 0 ELSE thread_count
<1>1. /\ c \in Pushers /\ cpc[c] = "idle" /\ live /\ ~QueueFull
      /\ UNCHANGED <<queueVars, live, max_thread_count>>
      /\ cpc' = [cpc EXCEPT ![c] = "push_spawn"]
  BY PushBeginFrame DEF PushBegin, MayPush, MayCall
<1>2. InPush' = InPush \cup {c} /\ c \notin InPush /\ InPush' \subseteq Pushers
  <2>1. "idle" \notin PushPc /\ "push_spawn" \in PushPc
    BY DEF PushPc
  <2>2. cpc'[c] = "push_spawn" /\ \A d \in Clients \ {c} : cpc'[d] = cpc[d]
    BY <1>1 DEF TypeInv, TypeOK
  <2>3. c \notin InPush /\ InPush' = InPush \cup {c}
    BY <1>1, <2>1, <2>2 DEF InPush
  <2> QED BY <1>1, <2>3 DEF Limited
<1>3. /\ Cardinality(InPush') = Cardinality(InPush) + 1
      /\ Cardinality(InPush) < Cardinality(Pushers)
      /\ Ahead' = Ahead \cup {c} => Cardinality(Ahead') = Cardinality(Ahead) + 1
      /\ Cardinality(Ahead) < Cardinality(Pushers)
  BY <1>1, <1>2, PushAdds
<1>4. /\ Cardinality(Pushers) \in Nat /\ Cardinality(InPush) \in Nat
      /\ Cardinality(Ahead) \in Nat
  BY PushersFinite DEF Limited
<1>5. TasksLimited'
  <2>1. Len(pending_task_list) < MaxTasks /\ Len(pending_task_list) \in Nat
    <3>1. Len(pending_task_list) \in Nat /\ MaxTasks \in Nat
      BY ConstantsAssumption DEF TypeInv, TypeOK
    <3>2. ~(Len(pending_task_list) >= MaxTasks)
      <4>1. pending_task_count = Len(pending_task_list)
        BY <1>1 DEF PoolPhases
      <4> QED BY <1>1, <4>1 DEF QueueFull
    <3> QED BY <3>1, <3>2
  <2>2. pending_task_list' = pending_task_list
    BY <1>1 DEF queueVars
  <2> QED BY <1>3, <1>4, <2>1, <2>2, ConstantsAssumption DEF TasksLimited
<1>6. /\ thread_count' = thread_count /\ thread_count \in Nat /\ max_thread_count \in Nat
      /\ max_thread_count >= 1 /\ live'
  BY <1>1, ConstantsAssumption DEF queueVars, TypeInv, TypeOK
<1>7. IsFiniteSet(At(Created)) /\ Cardinality(At(Created)) \in Nat
  BY FS_CardinalityType DEF Counted
<1>8. /\ threads = <<>> => At(Created) = {}
      /\ Cardinality(At(Created))
           <= Cardinality(Pushers) * thread_count + Cardinality(Ahead)
      /\ Cardinality(At(Created)) <= Cardinality(Pushers) * max_thread_count
  BY <1>1 DEF Limited, ThreadsLimited
<1>9. CASE ~NeedsThread
  <2>1. UNCHANGED <<threads, wpc, widx>> /\ cint' = [cint EXCEPT ![c] = thread_count]
    BY <1>9 DEF PushBegin, NeedsThread, Enter
  <2>2. At(Created)' = At(Created)
    BY <2>1 DEF At
  <2>3. Ahead' = Ahead
    <3>1. cint'[c] = thread_count /\ \A d \in Clients \ {c} : cint'[d] = cint[d]
      BY <2>1 DEF TypeInv, TypeOK
    <3>2. cint'[c] # thread_count' + 1
      BY <1>6, <3>1
    <3> QED BY <1>2, <1>6, <3>1, <3>2 DEF Ahead, InPush
  <2>4. ThreadsLimited'
    BY <1>1, <1>6, <1>8, <2>1, <2>2, <2>3 DEF ThreadsLimited
  <2> QED BY <1>2, <1>5, <2>4 DEF Limited
<1>10. CASE NeedsThread
  <2>1. idx = thread_count
    <3>1. ASSUME threads = <<>> PROVE thread_count = 0
      <4>1. At(Started) = {}
        BY <1>8, <3>1 DEF At, Created, Started
      <4> QED BY <1>1, <4>1, FS_EmptySet DEF Counted
    <3> QED BY <3>1
  <2>2. PICK w \in Workers : Spawn(w, thread_count)
    BY <1>10, <2>1 DEF PushBegin
  <2>3. cint' = [cint EXCEPT ![c] = thread_count + 1]
    BY <1>10, <2>1 DEF PushBegin, Enter
  <2>4. wpc[w] = "none" /\ wpc' = [wpc EXCEPT ![w] = "create"] /\ threads' # <<>>
    BY <2>2, PushBeginFrame DEF Spawn, WorkerAt
  <2>5. Cardinality(At(Created)') = Cardinality(At(Created)) + 1
    <3>1. Cardinality(At(Created)') = Cardinality(At(Created)) + Moved(Created, "none", "create")
      BY <2>4, AtMoves DEF Counted
    <3>2. Moved(Created, "none", "create") = 1
      BY DEF Moved, Created, WorkerPc
    <3> QED BY <3>1, <3>2
  <2>6. Cardinality(Ahead') = Cardinality(Ahead) + 1
    <3>1. cint'[c] = thread_count' + 1 /\ \A d \in Clients \ {c} : cint'[d] = cint[d]
      BY <1>6, <2>3 DEF TypeInv, TypeOK
    <3>2. Ahead' = Ahead \cup {c}
      BY <1>2, <1>6, <3>1 DEF Ahead, InPush
    <3> QED BY <1>3, <3>2
  <2>7. Cardinality(At(Created)) + 1 <= Cardinality(Pushers) * max_thread_count
    <3>1. CASE threads = <<>>
      <4>1. Cardinality(At(Created)) = 0
        BY <1>8, <3>1, FS_EmptySet
      <4>2. Cardinality(Pushers) >= 1
        BY <1>3, <1>4
      <4> QED BY <1>4, <1>6, <4>1, <4>2, SomeLimit
    <3>2. CASE thread_count < max_thread_count
      BY <1>3, <1>4, <1>6, <1>7, <1>8, <3>2, OneMoreCreated
    <3> QED BY <1>10, <3>1, <3>2 DEF NeedsThread
  <2>8. Cardinality(At(Created)) + 1
          <= Cardinality(Pushers) * thread_count + (Cardinality(Ahead) + 1)
    <3>1. Cardinality(Pushers) * thread_count \in Nat
      BY <1>4, <1>6
    <3> DEFINE x == Cardinality(Pushers) * thread_count
    <3>2. x \in Nat /\ Cardinality(At(Created)) <= x + Cardinality(Ahead)
      BY <1>8, <3>1
    <3> HIDE DEF x
    <3>3. Cardinality(At(Created)) + 1 <= x + (Cardinality(Ahead) + 1)
      BY <1>4, <1>7, <3>2
    <3> QED BY <3>3 DEF x
  <2>9. ThreadsLimited'
    BY <1>1, <1>6, <2>4, <2>5, <2>6, <2>7, <2>8 DEF ThreadsLimited
  <2> QED BY <1>2, <1>5, <2>9 DEF Limited
<1> QED BY <1>9, <1>10

(* A push ends: one task more in the list, and one less on its way. *)
LEMMA LimitedEnqueue ==
    ASSUME TypeInv, TypeInv', PoolPhases, Limited, NEW c \in Clients, PushEnqueue(c)
    PROVE  Limited'
<1>1. /\ cpc[c] = "push_spawn" /\ cpc' = [cpc EXCEPT ![c] = "idle"]
      /\ UNCHANGED <<live, threads>>
      /\ Len(pending_task_list') = Len(pending_task_list) + 1
      /\ \A w \in Workers : wpc'[w] = wpc[w] \/ (wpc[w] = "wait" /\ wpc'[w] = "wake")
  BY PushEnqueueFrame
<1>2. /\ UNCHANGED <<max_thread_count, thread_count>> /\ thread_count = cint[c]
      /\ cint' = [cint EXCEPT ![c] = 0]
  BY DEF PushEnqueue, Return, lifeVars
<1>3. InPush' = InPush \ {c} /\ c \in InPush
  BY <1>1 DEF InPush, PushPc, TypeInv, TypeOK
<1>4. At(Created)' = At(Created)
  BY <1>1, CreatedSame DEF Created, WorkerPc
<1>5. Ahead' = Ahead
  <2>1. c \notin Ahead /\ \A d \in Clients \ {c} : cint'[d] = cint[d]
    BY <1>2 DEF Ahead, TypeInv, TypeOK
  <2> QED BY <1>2, <1>3, <2>1 DEF Ahead, InPush
<1>6. TasksLimited'
  <2>1. Cardinality(InPush') = Cardinality(InPush) - 1
    BY <1>3, PushersFinite, FS_RemoveElement DEF Limited
  <2>2. /\ Cardinality(InPush) \in Nat /\ Cardinality(Pushers) \in Nat
        /\ Len(pending_task_list) \in Nat
    BY PushersFinite DEF Limited, TypeInv, TypeOK
  <2> QED BY <1>1, <2>1, <2>2, ConstantsAssumption DEF Limited, TasksLimited
<1> QED BY <1>1, <1>2, <1>3, <1>4, <1>5, <1>6 DEF Limited, ThreadsLimited

(* A pool begins without threads; until it is freed, deleting it leaves the  *)
(* threads as they are.                                                      *)
LEMMA LimitedPool ==
    ASSUME TypeInv, TypeInv', PoolPhases, PoolPhases', Limited, NEW c \in Clients, PoolCall(c)
    PROVE  Limited'
<1> USE DEF queueVars, lifeVars, workerVars
<1>1. ASSUME ~live' \/ At(Created)' = {}, InPush' = {}, Len(pending_task_list') = 0
      PROVE  Limited'
  <2>1. Cardinality(InPush') = 0 /\ InPush' \subseteq Pushers
    BY <1>1, FS_EmptySet
  <2>2. Cardinality(Pushers) \in Nat /\ Cardinality(Ahead') \in Nat
    BY <2>1, AheadNext, ConstantsAssumption, FS_CardinalityType
  <2>3. TasksLimited'
    BY <1>1, <2>1, <2>2, ConstantsAssumption DEF TasksLimited
  <2>4. ASSUME live' PROVE ThreadsLimited'
    <3>1. At(Created)' = {} /\ Cardinality(At(Created)') = 0
      BY <1>1, <2>4, FS_EmptySet
    <3>2. /\ thread_count' \in Nat /\ max_thread_count' \in Nat
      BY DEF TypeInv, TypeOK
    <3>3. /\ Cardinality(Pushers) * thread_count' \in Nat
          /\ Cardinality(Pushers) * max_thread_count' \in Nat
      BY <2>2, <3>2
    <3> QED BY <2>2, <3>1, <3>3 DEF ThreadsLimited
  <2> QED BY <2>1, <2>3, <2>4 DEF Limited, ThreadsLimited
<1>2. CASE live' = FALSE
  <2>1. InPush' = {} /\ Len(pending_task_list') = 0
    BY <1>2 DEF PoolPhases, Pushing, InPush
  <2> QED BY <1>1, <1>2, <2>1
<1>3. ASSUME ~live, \E max \in 1 .. MaxThreads : PoolNew(c, max),
             \A w \in Workers : wpc'[w] = "none"
      PROVE  Limited'
  <2>1. At(Created)' = {}
    BY <1>3, EmptyCounted
  <2>2. InPush' = {} /\ Len(pending_task_list') = 0
    BY <1>3 DEF PoolNew, Return, PoolPhases, Pushing, InPush, PushPc, TypeInv, TypeOK
  <2> QED BY <1>1, <2>1, <2>2
<1>4. ASSUME UNCHANGED <<live, queueVars, threads, max_thread_count>>,
             \A w \in Workers : wpc'[w] \in Created <=> wpc[w] \in Created,
             \E pc \in ClientPc \ PushPc : cpc' = [cpc EXCEPT ![c] = pc],
             cpc[c] \notin PushPc,
             \A d \in Clients \ {c} : cint'[d] = cint[d]
      PROVE  Limited'
  <2>1. InPush' = InPush /\ c \notin InPush
    BY <1>4 DEF InPush, TypeInv, TypeOK
  <2>2. At(Created)' = At(Created)
    BY <1>4, CreatedSame
  <2>3. Ahead' = Ahead
    BY <1>4, <2>1 DEF Ahead, InPush
  <2> QED BY <1>4, <2>1, <2>2, <2>3 DEF Limited, ThreadsLimited, TasksLimited
<1>5. /\ cpc[c] \notin PushPc
      /\ \A d \in Clients \ {c} : cint'[d] = cint[d]
      /\ \E pc \in ClientPc \ PushPc : cpc' = [cpc EXCEPT ![c] = pc]
  BY DEF PoolCall, PoolNew, PoolNewRefused, PoolDelete, PoolDeleteRefused, PoolDeleteJoin,
         PoolDeleteLock, MayDeletePool, StopThread, FreePool, Enter, Return, ClientAt,
         ClientPc, DeletePoolPc, PushPc, TypeInv, TypeOK
<1>6. CASE UNCHANGED <<queueVars, lifeVars, workerVars>>
  BY <1>4, <1>5, <1>6
<1>7. ASSUME UNCHANGED <<live, queueVars, threads, max_thread_count>>, WorkersWoken
      PROVE  Limited'
  <2>1. \A w \in Workers : wpc'[w] \in Created <=> wpc[w] \in Created
    BY <1>7 DEF WorkersWoken, Created, WorkerPc
  <2> QED BY <1>4, <1>5, <1>7, <2>1
<1> QED BY <1>2, <1>3, <1>6, <1>7, PoolCallFrame

LEMMA LimitedStep ==
    ASSUME TypeInv, TypeInv', PoolPhases, PoolPhases', Counted, Limited, Moves
    PROVE  Limited'
<1>1. ASSUME NEW w \in Workers, WorkerStep(w) PROVE Limited'
  BY <1>1, LimitedWorkers
<1>2. ASSUME NEW c \in Clients, PoolCall(c) PROVE Limited'
  BY <1>2, LimitedPool
<1>3. ASSUME NEW c \in Clients, PushCall(c) PROVE Limited'
  BY <1>3, PushSteady, LimitedSame, LimitedPushBegin, LimitedEnqueue
<1>4. ASSUME NEW c \in Clients, TaskCall(c) PROVE Limited'
  BY <1>4, TaskSteady, LimitedSame
<1>5. CASE Spurious
  BY <1>5, SpuriousSteady, LimitedSame
<1> QED BY <1>1, <1>2, <1>3, <1>4, <1>5 DEF Moves

LimitInv == CountInv /\ Limited

LEMMA LimitInit ==
    Init => Limited
<1> SUFFICES ASSUME Init PROVE Limited
  OBVIOUS
<1>1. InPush = {}
  BY DEF Init, InPush, PushPc
<1>2. Cardinality(InPush) = 0 /\ Cardinality(Pushers) \in Nat
  BY <1>1, FS_EmptySet, PushersFinite
<1>3. TasksLimited
  BY <1>2, ConstantsAssumption DEF Init, TasksLimited
<1>4. ThreadsLimited
  BY DEF Init, ThreadsLimited
<1> QED BY <1>1, <1>3, <1>4 DEF Limited

LEMMA LimitInvStep ==
    LimitInv /\ [Next]_vars => LimitInv'
<1> SUFFICES ASSUME LimitInv, [Next]_vars PROVE LimitInv'
  OBVIOUS
<1>1. CountInv'
  BY CountStep DEF LimitInv
<1>2. CASE Moves
  <2>1. Limited'
    BY <1>1, <1>2, LimitedStep DEF LimitInv, CountInv
  <2> QED BY <1>1, <2>1 DEF LimitInv
<1>3. CASE UNCHANGED vars
  <2> USE <1>3 DEF vars, queueVars, lifeVars, workerVars, clientVars
  <2>1. Limited'
    BY <1>1, LimitedSame DEF LimitInv, CountInv, Steady
  <2> QED BY <1>1, <2>1 DEF LimitInv
<1> QED BY <1>2, <1>3, NextSteps

(* idle_thread_count, thread_count and running_task_count count the threads  *)
(* their names say, however many clients push at a time (lines 62, 66,       *)
(* 83-85 and 98); with n of them there are at most n times max_thread_count  *)
(* threads and fewer than TPOOL_MAX_TASKS + n tasks in the list, where       *)
(* thread_pool.h:42 and line 224 would have max_thread_count and             *)
(* TPOOL_MAX_TASKS: line 255 lets the mutex go before thread_count and       *)
(* pending_task_count are raised.                                            *)
THEOREM CountersExact == Spec => []CountersAgree
<1>1. Init => LimitInv
  BY CountInit, LimitInit DEF LimitInv
<1>2. Spec => []LimitInv
  BY <1>1, LimitInvStep, PTL DEF Spec
<1>3. LimitInv => CountersAgree
  BY DEF LimitInv, Limited, ThreadsLimited, TasksLimited, CountInv, Counted, PoolPhases,
         CountersAgree, InPush, Started, Created, Idle
<1> QED BY <1>2, <1>3, PTL

-----------------------------------------------------------------------------
(* The array of threads, as long as no two pushes overlap.                   *)

PushesApart == \A c, d \in Clients : cpc[c] \in PushPc /\ cpc[d] \in PushPc => c = d

(* Only pushers push; the pusher waits for as many threads as the array has, *)
(* and found a place in the list.                                            *)
PushUnderWay ==
    \A c \in Clients : cpc[c] \in PushPc =>
      c \in Pushers /\ cint[c] = Len(threads) /\ pending_task_count < MaxTasks

(* The array has a slot for each thread, of which it knows the index. *)
SlotsKnown ==
    /\ live => /\ Len(threads) = Cardinality(At(Created))
               /\ Len(threads) <= max_thread_count
               /\ Len(pending_task_list) <= MaxTasks
    /\ \A w \in At(Alive) : widx[w] < Len(threads) /\ threads[widx[w] + 1] = w
    /\ ~Pushing => At({"create"}) = {}

(* Who deletes the pool has joined the threads up to its index; nobody is    *)
(* left in a pool that is freed.                                             *)
DeleteUnderWay ==
    /\ ~live => At(Alive) = {}
    /\ \A c \in Clients : /\ cpc[c] = "delete_join" => \A w \in At(Alive) : widx[w] >= cint[c]
                          /\ cpc[c] = "delete_lock" => \A w \in At(Alive) : widx[w] > cint[c]

Table == PushUnderWay /\ SlotsKnown /\ DeleteUnderWay

(* A step that adds neither threads nor tasks and keeps the pushes and       *)
(* deletes in progress where they are.                                       *)
LEMMA TableStays ==
    ASSUME TypeInv, Table, TypeInv', UNCHANGED <<live, threads, max_thread_count>>,
           Len(pending_task_list') <= Len(pending_task_list),
           pending_task_count' <= pending_task_count,
           Steady
    PROVE  Table'
<1> USE DEF Steady
<1>1. Pushing' <=> Pushing
  BY DEF Pushing
<1>2. /\ At(Alive)' \subseteq At(Alive) /\ At({"create"})' \subseteq At({"create"})
      /\ At(Created)' = At(Created) /\ \A w \in At(Alive)' : widx'[w] = widx[w]
  BY DEF At
<1>3. /\ pending_task_count \in Int /\ pending_task_count' \in Int
      /\ Len(pending_task_list) \in Nat /\ Len(pending_task_list') \in Nat
  BY DEF TypeInv, TypeOK
<1>4. PushUnderWay'
  BY <1>3, ConstantsAssumption DEF Table, PushUnderWay
<1>5. SlotsKnown'
  <2>1. live' => /\ Len(threads') = Cardinality(At(Created)')
                 /\ Len(threads') <= max_thread_count'
                 /\ Len(pending_task_list') <= MaxTasks
    BY <1>2, <1>3, ConstantsAssumption DEF Table, SlotsKnown
  <2>2. \A w \in At(Alive)' : widx'[w] < Len(threads') /\ threads'[widx'[w] + 1] = w
    BY <1>2 DEF Table, SlotsKnown
  <2>3. ~Pushing' => At({"create"})' = {}
    BY <1>1, <1>2 DEF Table, SlotsKnown
  <2> QED BY <2>1, <2>2, <2>3 DEF SlotsKnown
<1>6. DeleteUnderWay'
  <2>1. ~live' => At(Alive)' = {}
    BY <1>2 DEF Table, DeleteUnderWay
  <2>2. \A c \in Clients : cpc'[c] = "delete_join" => \A w \in At(Alive)' : widx'[w] >= cint'[c]
    BY <1>2 DEF Table, DeleteUnderWay, DeletePoolPc
  <2>3. \A c \in Clients : cpc'[c] = "delete_lock" => \A w \in At(Alive)' : widx'[w] > cint'[c]
    BY <1>2 DEF Table, DeleteUnderWay, DeletePoolPc
  <2> QED BY <2>1, <2>2, <2>3 DEF DeleteUnderWay
<1> QED BY <1>4, <1>5, <1>6 DEF Table

(* What leaves the list, the array and the pool alone leaves the table. *)
LEMMA TableSame ==
    ASSUME TypeInv, Table, TypeInv', UNCHANGED <<queueVars, lifeVars>>,
           Steady
    PROVE  Table'
<1>1. UNCHANGED <<live, threads, max_thread_count>>
  BY DEF lifeVars
<1>2. UNCHANGED pending_task_list /\ UNCHANGED pending_task_count
  BY DEF queueVars
<1>3. Len(pending_task_list) \in Nat /\ pending_task_count \in Int
  BY DEF TypeInv, TypeOK
<1>4. Len(pending_task_list') <= Len(pending_task_list)
      /\ pending_task_count' <= pending_task_count
  BY <1>2, <1>3
<1> QED BY <1>1, <1>4, TableStays

LEMMA TableWorkers ==
    ASSUME TypeInv, TypeInv', Table, NEW w \in Workers, WorkerStep(w)
    PROVE  Table'
BY WorkerSteady, TableStays

(* All threads have started when nobody pushes: the array and thread_count   *)
(* agree.                                                                    *)
LEMMA AllStarted ==
    ASSUME Counted, Table, live, ~Pushing
    PROVE  thread_count = Len(threads)
<1>1. At({"create"}) = {}
  BY DEF Table, SlotsKnown
<1>2. At(Started) = At(Created)
  BY <1>1 DEF At, Started, Created
<1> QED BY <1>2 DEF Counted, Table, SlotsKnown

LEMMA TablePool ==
    ASSUME TypeInv, TypeInv', PoolPhases, PoolPhases', Counted, Table,
           NEW c \in Clients, PoolCall(c)
    PROVE  Table'
<1> USE DEF queueVars, lifeVars, workerVars
<1>1. ASSUME UNCHANGED <<queueVars, lifeVars, workerVars>>, NEW code, Return(c, code),
             cpc[c] = "idle"
      PROVE  Table'
  <2>1. \A d \in Clients : /\ cpc'[d] \in PushPc <=> cpc[d] \in PushPc
                           /\ cpc'[d] \in PushPc => cint'[d] = cint[d]
                           /\ cpc'[d] \in DeletePoolPc => cpc'[d] = cpc[d] /\ cint'[d] = cint[d]
    BY <1>1 DEF Return, PushPc, DeletePoolPc, TypeInv, TypeOK
  <2>2. \A v \in Workers : wpc'[v] = wpc[v] /\ widx'[v] = widx[v]
    BY <1>1
  <2> QED BY <1>1, <2>1, <2>2, TableSame DEF Steady
<1>2. ASSUME NEW i \in Nat, StopThread(c, i), live, ~Pushing,
             ~Deleting \/ cpc[c] \in DeletePoolPc,
             \A w \in At(Alive) : widx[w] >= i,
             UNCHANGED widx
      PROVE  Table'
  <2>1. /\ UNCHANGED <<live, queueVars, threads, max_thread_count, widx>> /\ live
        /\ WorkersWoken
    BY <1>2, WorkersSignalled DEF StopThread, TypeInv, TypeOK
  <2>2. At(Alive)' = At(Alive) /\ At(Created)' = At(Created) /\ At({"create"})' = At({"create"})
    BY <2>1 DEF At, WorkersWoken, Alive, Created, WorkerPc
  <2>3. ~Pushing'
    BY <1>2 DEF StopThread, Enter, Pushing, PushPc, TypeInv, TypeOK
  <2>4. SlotsKnown'
    BY <1>2, <2>1, <2>2 DEF Table, SlotsKnown
  <2>5. PushUnderWay'
    BY <2>3 DEF PushUnderWay, Pushing
  <2>6. \A d \in Clients : cpc'[d] \in DeletePoolPc => d = c
    <3>1. \A d \in Clients : cpc[d] \in DeletePoolPc => d = c
      BY <1>2 DEF PoolPhases, Deleting
    <3> QED BY <1>2, <3>1 DEF StopThread, Enter, TypeInv, TypeOK
  <2>7. cpc'[c] = "delete_join" /\ cint'[c] = i
    BY <1>2 DEF StopThread, Enter, TypeInv, TypeOK
  <2>8. DeleteUnderWay'
    BY <1>2, <2>1, <2>2, <2>6, <2>7 DEF DeleteUnderWay, DeletePoolPc
  <2> QED BY <2>4, <2>5, <2>8 DEF Table
<1>3. ASSUME FreePool(c), At(Alive) = {}
      PROVE  Table'
  <2>1. live' = FALSE /\ At(Alive)' = {} /\ ~Pushing' /\ ~Deleting'
    BY <1>3 DEF FreePool, At, PoolPhases
  <2>2. At({"create"})' = {}
    BY <2>1 DEF At, Alive, WorkerPc
  <2>3. SlotsKnown'
    BY <2>1, <2>2 DEF SlotsKnown
  <2>4. PushUnderWay' /\ DeleteUnderWay'
    BY <2>1 DEF PushUnderWay, DeleteUnderWay, Pushing, Deleting, DeletePoolPc
  <2> QED BY <2>3, <2>4 DEF Table
<1>4. ASSUME NEW max \in 0 .. MaxThreads + 1, PoolNew(c, max) PROVE Table'
  <2>1. /\ \A w \in Workers : wpc'[w] = "none"
        /\ threads' = <<>> /\ pending_task_list' = <<>> /\ live' /\ max_thread_count' = max
        /\ max >= 1
    BY <1>4 DEF PoolNew
  <2>2. At(Alive)' = {} /\ At({"create"})' = {} /\ Cardinality(At(Created)') = 0
    BY <2>1, EmptyCounted DEF At, Alive
  <2>3. ~Pushing' /\ ~Deleting'
    <3>1. ~Pushing /\ ~Deleting /\ \E code : Return(c, code)
      BY <1>4 DEF PoolPhases, PoolNew
    <3> QED BY <3>1 DEF Return, Pushing, Deleting, PushPc, DeletePoolPc, TypeInv, TypeOK
  <2>4. SlotsKnown'
    BY <2>1, <2>2, ConstantsAssumption DEF SlotsKnown
  <2>5. PushUnderWay' /\ DeleteUnderWay'
    BY <2>1, <2>3 DEF PushUnderWay, DeleteUnderWay, Pushing, Deleting, DeletePoolPc
  <2> QED BY <2>4, <2>5 DEF Table
<1>5. ASSUME NEW max \in 0 .. MaxThreads + 1, PoolNewRefused(c, max) PROVE Table'
  BY <1>1, <1>5 DEF PoolNewRefused
<1>6. CASE PoolDeleteRefused(c)
  BY <1>1, <1>6 DEF PoolDeleteRefused, MayDeletePool
<1>7. CASE PoolDelete(c)
  <2>1. live /\ ~Pushing /\ ~Deleting /\ UNCHANGED widx
    BY <1>7 DEF PoolDelete, MayDeletePool
  <2>2. thread_count = Len(threads)
    BY <2>1, AllStarted
  <2>3. \A w \in At(Alive) : widx[w] \in Nat /\ widx[w] < Len(threads)
    BY DEF Table, SlotsKnown, At, TypeInv, TypeOK
  <2>4. CASE StopThread(c, 0)
    BY <1>2, <2>1, <2>3, <2>4
  <2>5. CASE threads = <<>> \/ ~(0 < thread_count)
    <3>1. Len(threads) = 0
      BY <2>2, <2>5 DEF TypeInv, TypeOK
    <3>2. At(Alive) = {}
      BY <2>3, <3>1
    <3> QED BY <1>3, <1>7, <2>5, <3>2 DEF PoolDelete
  <2> QED BY <1>7, <2>4, <2>5 DEF PoolDelete
<1>8. CASE PoolDeleteJoin(c)
  <2>1. /\ cpc[c] = "delete_join" /\ cpc' = [cpc EXCEPT ![c] = "delete_lock"]
        /\ UNCHANGED <<queueVars, lifeVars, workerVars, cint>>
        /\ wpc[threads[cint[c] + 1]] = "exited"
    BY <1>8 DEF PoolDeleteJoin, ClientAt
  <2>2. ~Pushing' /\ ~Pushing
    BY <2>1 DEF PoolPhases, Deleting, DeletePoolPc, Pushing, PushPc, TypeInv, TypeOK
  <2>3. At(Alive)' = At(Alive) /\ At(Created)' = At(Created) /\ At({"create"})' = At({"create"})
    BY <2>1 DEF At
  <2>4. SlotsKnown'
    BY <2>1, <2>2, <2>3 DEF Table, SlotsKnown
  <2>5. \A w \in At(Alive) : widx[w] > cint[c]
    <3>1. SUFFICES ASSUME NEW w \in At(Alive) PROVE widx[w] > cint[c]
      OBVIOUS
    <3>2. threads[widx[w] + 1] = w /\ widx[w] >= cint[c] /\ wpc[w] # "exited"
      BY <2>1 DEF Table, SlotsKnown, DeleteUnderWay, At, Alive
    <3>3. widx[w] # cint[c]
      BY <2>1, <3>2
    <3>4. widx[w] \in Nat /\ cint[c] \in Nat
      BY DEF At, TypeInv, TypeOK
    <3> QED BY <3>2, <3>3, <3>4
  <2>6. DeleteUnderWay'
    BY <2>1, <2>3, <2>5 DEF Table, DeleteUnderWay, TypeInv, TypeOK
  <2>7. PushUnderWay'
    BY <2>2 DEF PushUnderWay, Pushing
  <2> QED BY <2>4, <2>6, <2>7 DEF Table
<1>9. CASE PoolDeleteLock(c)
  <2>1. Deleting /\ cpc[c] = "delete_lock" /\ UNCHANGED widx
    BY <1>9 DEF PoolDeleteLock, Deleting, DeletePoolPc
  <2>2. live /\ ~Pushing
    BY <2>1 DEF PoolPhases
  <2>3. thread_count = Len(threads)
    BY <2>2, AllStarted
  <2>4. \A w \in At(Alive) : /\ widx[w] \in Nat /\ cint[c] \in Nat
                             /\ widx[w] >= cint[c] + 1 /\ widx[w] < Len(threads)
    BY <2>1, SMTT(40) DEF Table, SlotsKnown, DeleteUnderWay, At, TypeInv, TypeOK
  <2>5. CASE cint[c] + 1 < thread_count
    <3>1. StopThread(c, cint[c] + 1) /\ cint[c] + 1 \in Nat
      BY <1>9, <2>5 DEF PoolDeleteLock, TypeInv, TypeOK
    <3> QED BY <1>2, <2>1, <2>2, <2>4, <3>1 DEF DeletePoolPc
  <2>6. CASE ~(cint[c] + 1 < thread_count)
    <3>1. ASSUME NEW w \in At(Alive) PROVE FALSE
      <4>1. cint[c] \in Nat /\ Len(threads) \in Nat /\ cint[c] + 1 >= Len(threads)
        BY <2>3, <2>6 DEF TypeInv, TypeOK
      <4> QED BY <2>4, <3>1, <4>1
    <3> QED BY <1>3, <1>9, <2>6, <3>1 DEF PoolDeleteLock
  <2> QED BY <2>5, <2>6
<1> QED BY <1>4, <1>5, <1>6, <1>7, <1>8, <1>9 DEF PoolCall

(* The pusher finds every thread started, and fills the next slot. *)
LEMMA TablePushBegin ==
    ASSUME PushesApart', TypeInv, TypeInv', PoolPhases, PoolPhases', Counted, Counted', Table,
           NEW c \in Clients, NEW t \in Tasks, PushBegin(c, t)
    PROVE  Table'
<1> DEFINE n == Len(threads)
<1>1. /\ c \in Pushers /\ cpc[c] = "idle" /\ live /\ ~QueueFull
      /\ UNCHANGED <<queueVars, live, max_thread_count>>
  BY DEF PushBegin, MayPush, MayCall
<1>2. ~Pushing
  <2>1. cpc' = [cpc EXCEPT ![c] = "push_spawn"]
    BY PushBeginFrame
  <2> QED BY <1>1, <2>1 DEF PushesApart, Pushing, PushPc, TypeInv, TypeOK
<1>3. thread_count = n /\ n \in Nat /\ n <= max_thread_count /\ n = Cardinality(At(Created))
  BY <1>1, <1>2, AllStarted DEF Table, SlotsKnown, TypeInv, TypeOK
<1>4. /\ cpc' = [cpc EXCEPT ![c] = "push_spawn"] /\ live' /\ ~Deleting'
      /\ \A v \in Workers : wpc'[v] = wpc[v] \/ (wpc[v] = "none" /\ wpc'[v] = "create")
  <2>1. Pushing'
    BY PushBeginFrame DEF Pushing, PushPc, TypeInv, TypeOK
  <2> QED BY <2>1, PushBeginFrame DEF PoolPhases
<1>5. \A d \in Clients : cpc'[d] \in PushPc <=> d = c
  BY <1>2, <1>4 DEF Pushing, PushPc, TypeInv, TypeOK
<1>6. Pushing'
  BY <1>5 DEF Pushing
<1>7. DeleteUnderWay'
  BY <1>4 DEF DeleteUnderWay, Deleting, DeletePoolPc
<1>8. pending_task_count < MaxTasks /\ Len(pending_task_list) <= MaxTasks
  BY <1>1, ConstantsAssumption DEF QueueFull, Table, SlotsKnown, TypeInv, TypeOK
<1>9. ASSUME cint'[c] = Len(threads'), Len(threads') = Cardinality(At(Created)'),
             Len(threads') <= max_thread_count,
             \A w \in At(Alive)' : widx'[w] < Len(threads') /\ threads'[widx'[w] + 1] = w
      PROVE  Table'
  <2>1. PushUnderWay'
    BY <1>1, <1>5, <1>8, <1>9 DEF PushUnderWay, queueVars
  <2>2. SlotsKnown'
    BY <1>1, <1>6, <1>8, <1>9 DEF SlotsKnown, queueVars
  <2> QED BY <1>7, <2>1, <2>2 DEF Table
<1>10. CASE ~NeedsThread
  <2>1. UNCHANGED <<threads, wpc, widx>> /\ cint' = [cint EXCEPT ![c] = thread_count]
    BY <1>10 DEF PushBegin, NeedsThread, Enter
  <2>2. At(Alive)' = At(Alive) /\ At(Created)' = At(Created)
    BY <2>1 DEF At
  <2> QED BY <1>3, <1>9, <2>1, <2>2 DEF Table, SlotsKnown, TypeInv, TypeOK
<1>11. CASE NeedsThread
  <2>1. PICK w \in Workers : Spawn(w, n)
    <3>1. (IF threads = <<>> THEN 0 ELSE thread_count) = n
      BY <1>3
    <3> QED BY <1>11, <3>1 DEF PushBegin
  <2>2. cint' = [cint EXCEPT ![c] = n + 1]
    <3>1. (IF threads = <<>> THEN 0 ELSE thread_count) = n
      BY <1>3
    <3> QED BY <1>11, <3>1 DEF PushBegin, Enter
  <2>3. /\ wpc[w] = "none" /\ wpc' = [wpc EXCEPT ![w] = "create"]
        /\ widx' = [widx EXCEPT ![w] = n]
        /\ threads' = [i \in 1 .. n + 1 |-> IF i = n + 1 THEN w
                         ELSE IF i <= n THEN threads[i] ELSE None]
    BY <2>1 DEF Spawn, WorkerAt, ThreadsWith
  <2>4. Len(threads') = n + 1
    <3>1. n + 1 \in Nat /\ DOMAIN threads' = 1 .. n + 1
      BY <1>3, <2>3
    <3>2. Len(threads') \in Nat /\ DOMAIN threads' = 1 .. Len(threads')
      BY DEF TypeInv, TypeOK
    <3> QED BY <3>1, <3>2
  <2>5. Cardinality(At(Created)') = n + 1
    <3>1. Cardinality(At(Created)') = Cardinality(At(Created)) + Moved(Created, "none", "create")
      BY <2>3, AtMoves DEF Counted
    <3>2. Moved(Created, "none", "create") = 1
      BY DEF Moved, Created, WorkerPc
    <3> QED BY <1>3, <3>1, <3>2
  <2>6. n + 1 <= max_thread_count
    <3>1. CASE threads = <<>>
      BY <3>1 DEF TypeInv, TypeOK
    <3>2. CASE thread_count < max_thread_count
      BY <1>3, <3>2 DEF TypeInv, TypeOK
    <3> QED BY <1>11, <3>1, <3>2 DEF NeedsThread
  <2>7. ASSUME NEW v \in At(Alive)'
        PROVE  widx'[v] < Len(threads') /\ threads'[widx'[v] + 1] = v
    <3>1. CASE v = w
      <4>1. widx'[v] = n
        BY <2>3, <3>1 DEF TypeInv, TypeOK
      <4>2. n + 1 \in 1 .. n + 1 /\ n < n + 1
        BY <1>3
      <4>3. threads'[n + 1] = w
        BY <2>3, <4>2
      <4> QED BY <2>4, <3>1, <4>1, <4>2, <4>3
    <3>2. CASE v # w
      <4>1. v \in At(Alive) /\ widx'[v] = widx[v]
        BY <2>3, <2>7, <3>2 DEF At, TypeInv, TypeOK
      <4>2. widx[v] \in Nat /\ widx[v] < n /\ threads[widx[v] + 1] = v
        BY <4>1 DEF Table, SlotsKnown, At, TypeInv, TypeOK
      <4>3. widx[v] + 1 \in 1 .. n + 1 /\ widx[v] + 1 # n + 1 /\ widx[v] + 1 <= n
        BY <1>3, <4>2
      <4> QED BY <1>3, <2>3, <2>4, <4>1, <4>2, <4>3
    <3> QED BY <3>1, <3>2
  <2>8. cint'[c] = n + 1
    BY <2>2 DEF TypeInv, TypeOK
  <2> QED BY <1>9, <2>4, <2>5, <2>6, <2>7, <2>8
<1> QED BY <1>10, <1>11

(* The pusher has waited for the last thread to start. *)
LEMMA TableEnqueue ==
    ASSUME PushesApart, TypeInv, TypeInv', PoolPhases, PoolPhases', Counted, Counted', Table,
           NEW c \in Clients, PushEnqueue(c)
    PROVE  Table'
<1>1. /\ live /\ ~Deleting /\ cpc[c] = "push_spawn" /\ cpc' = [cpc EXCEPT ![c] = "idle"]
      /\ UNCHANGED <<live, threads, thread_idx_that_should_exit, max_thread_count, widx>>
      /\ Len(pending_task_list') = Len(pending_task_list) + 1
      /\ pending_task_count' = pending_task_count + 1
      /\ \A w \in Workers : wpc'[w] = wpc[w] \/ (wpc[w] = "wait" /\ wpc'[w] = "wake")
      /\ thread_count = cint[c]
  BY PushEnqueueFrame DEF PushEnqueue, lifeVars
<1>2. c \in Pushers /\ cint[c] = Len(threads) /\ pending_task_count < MaxTasks
  BY <1>1 DEF Table, PushUnderWay, PushPc
<1>3. ~Pushing'
  BY <1>1, <1>2 DEF PushesApart, Pushing, PushPc, TypeInv, TypeOK
<1>4. At({"create"}) = {}
  <2>1. At(Started) \in SUBSET At(Created) /\ Cardinality(At(Started)) = Cardinality(At(Created))
    BY <1>1, <1>2 DEF At, Started, Created, Counted, Table, SlotsKnown
  <2>2. At(Started) = At(Created)
    BY <2>1, FS_Subset DEF Counted
  <2> QED BY <2>2 DEF At, Started, Created, WorkerPc
<1>5. /\ At(Alive)' = At(Alive) /\ At(Created)' = At(Created) /\ At({"create"})' = {}
  BY <1>1, <1>4 DEF At, Alive, Created, WorkerPc
<1>6. Len(pending_task_list') <= MaxTasks
  BY <1>1, <1>2, ConstantsAssumption DEF PoolPhases, TypeInv, TypeOK
<1>7. SlotsKnown'
  BY <1>1, <1>5, <1>6 DEF Table, SlotsKnown
<1>8. PushUnderWay'
  BY <1>3 DEF PushUnderWay, Pushing
<1>9. DeleteUnderWay'
  <2>1. live' /\ ~Deleting'
    BY <1>1 DEF Deleting, DeletePoolPc, TypeInv, TypeOK
  <2> QED BY <2>1 DEF DeleteUnderWay, Deleting, DeletePoolPc
<1> QED BY <1>7, <1>8, <1>9 DEF Table

LEMMA TableStep ==
    ASSUME PushesApart, PushesApart', TypeInv, TypeInv', PoolPhases, PoolPhases',
           Counted, Counted', Table, Moves
    PROVE  Table'
<1> USE DEF queueVars, lifeVars, workerVars
<1>1. ASSUME NEW w \in Workers, WorkerStep(w) PROVE Table'
  BY <1>1, TableWorkers
<1>2. ASSUME NEW c \in Clients, PoolCall(c) PROVE Table'
  BY <1>2, TablePool
<1>3. ASSUME NEW c \in Clients, PushCall(c) PROVE Table'
  BY <1>3, PushSteady, TableSame, TablePushBegin, TableEnqueue
<1>4. ASSUME NEW c \in Clients, TaskCall(c) PROVE Table'
  BY <1>4, TaskSteady, TableSame
<1>5. CASE Spurious
  BY <1>5, SpuriousSteady, TableSame
<1> QED BY <1>1, <1>2, <1>3, <1>4, <1>5 DEF Moves

TableInv == CountInv /\ Table

LEMMA TableInit ==
    Init => Table
<1> SUFFICES ASSUME Init PROVE Table
  OBVIOUS
<1>1. At(Alive) = {} /\ At({"create"}) = {} /\ ~Pushing
  BY DEF Init, At, Alive, Pushing, PushPc
<1>2. SlotsKnown
  BY <1>1 DEF Init, SlotsKnown
<1> QED BY <1>1, <1>2 DEF Init, Table, PushUnderWay, DeleteUnderWay, PushPc

LEMMA TableInvStep ==
    TableInv /\ PushesApart /\ PushesApart' /\ [Next]_vars => TableInv'
<1> SUFFICES ASSUME TableInv, PushesApart, PushesApart', [Next]_vars PROVE TableInv'
  OBVIOUS
<1>1. CountInv'
  BY CountStep DEF TableInv
<1>2. CASE Moves
  <2>1. Table'
    BY <1>1, <1>2, TableStep DEF TableInv, CountInv
  <2> QED BY <1>1, <2>1 DEF TableInv
<1>3. CASE UNCHANGED vars
  <2> USE <1>3 DEF vars, queueVars, lifeVars, workerVars, clientVars
  <2>1. Table'
    BY <1>1, TableSame DEF TableInv, CountInv, Steady
  <2> QED BY <1>1, <2>1 DEF TableInv
<1> QED BY <1>2, <1>3, NextSteps

(* thread_pool_delete joins each thread it has told to exit, since the slots *)
(* of the array and the indices of the threads agree (lines 187-191), and    *)
(* nobody uses the pool after it is freed: whatever the clients do, as long  *)
(* as no push begins while another waits at line 255.  Only then can two     *)
(* pushes take the same slot.                                                *)
THEOREM PoolMemory == Spec /\ []PushesApart => []PoolMemorySafe
<1>1. Init => TableInv
  BY CountInit, TableInit DEF TableInv
<1>2. Spec /\ []PushesApart => []TableInv
  BY <1>1, TableInvStep, PTL DEF Spec
<1>3. TableInv => PoolMemorySafe
  BY DEF TableInv, Table, SlotsKnown, DeleteUnderWay, CountInv, PoolPhases, PoolMemorySafe, Alive
<1> QED BY <1>2, <1>3, PTL
=============================================================================
