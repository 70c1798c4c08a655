-------------------------- MODULE ThreadPoolMemory --------------------------
(***************************************************************************)
(* The tasks of hw4/thread_pool.c, for any number of threads, clients and  *)
(* tasks.                                                                  *)
(*                                                                         *)
(* Memory: nobody frees a task that another thread still uses.  A task in  *)
(* the pool's custody (pending list or a worker's hands) is unfinished,    *)
(* and a client frees only tasks that are not; a worker frees only         *)
(* detached tasks, and no client has one of those.                         *)
(*                                                                         *)
(* Life: each step moves one task at most, in one of eight ways (OneMove), *)
(* and as TaskLifecycle allows.  Custody says that what the pool has is    *)
(* there once; NoneLost, that what it should have is there; Results, that  *)
(* nobody pushes, frees or finishes a task while a worker runs it.         *)
(***************************************************************************)
EXTENDS ThreadPoolSafety, ThreadPoolRefinement

(* Tasks that are unfinished stay allocated and unfinished. *)
UnfinishedKept ==
    \A t \in Tasks : t \in alloc /\ Unfinished(t) => t \in alloc' /\ Unfinished(t)'

SameHands == \A w \in Workers : wpc'[w] \in InHandPc <=> wpc[w] \in InHandPc

LEMMA PoolCustodyFrame ==
    ASSUME TypeInv, ListCustody, HandCustody, UnfinishedKept, SameHands,
           UNCHANGED <<pending_task_list, wtask>>
    PROVE  ListCustody' /\ HandCustody'
<1>1. \A i \in DOMAIN pending_task_list : pending_task_list[i] \in Tasks
  BY DEF TypeInv, TypeOK
<1>2. \A w \in Workers : wpc[w] \in InHandPc => wtask[w] \in Tasks
  BY DEF TypeInv, HasTask
<1>3. ListCustody'
  BY <1>1 DEF ListCustody, UnfinishedKept, Unfinished
<1>4. HandCustody'
  BY <1>2 DEF HandCustody, UnfinishedKept, Unfinished, SameHands
<1> QED BY <1>3, <1>4

(* No thread's hands and no list hold a task that is not unfinished. *)
LEMMA Free ==
    ASSUME ListCustody, HandCustody, NEW t \in Tasks, ~Unfinished(t)
    PROVE  /\ \A i \in DOMAIN pending_task_list : pending_task_list[i] # t
           /\ \A w \in Workers : wpc[w] \in InHandPc => wtask[w] # t
BY DEF ListCustody, HandCustody

(* A step that keeps the clients in their calls. *)
LEMMA CallsGoOn ==
    ASSUME TypeInv, ClientCustody, UNCHANGED ctask,
           \A d \in Clients : \A S \in {PushPc, JoinPc, {"detach_lock"}, {"detach_delete"}} :
             cpc'[d] \in S <=> cpc[d] \in S,
           \A d \in Clients : ctask[d] \in Tasks =>
             /\ ctask[d] \in alloc' \ is_detached'
             /\ ctask[d] \in in_pool' <=> ctask[d] \in in_pool
             /\ ctask[d] \in is_finished => ctask[d] \in is_finished'
    PROVE  ClientCustody'
<1>1. \A d \in Clients : /\ cpc'[d] \in PushPc <=> cpc[d] \in PushPc
                         /\ cpc'[d] \in JoinPc <=> cpc[d] \in JoinPc
                         /\ cpc'[d] = "detach_lock" <=> cpc[d] = "detach_lock"
                         /\ cpc'[d] = "detach_delete" <=> cpc[d] = "detach_delete"
  OBVIOUS
<1> QED BY <1>1 DEF ClientCustody

(* A client returns from its call; it may have changed the state of tasks    *)
(* that are no other client's.                                               *)
LEMMA CallEnds ==
    ASSUME TypeInv, ClientCustody, NEW c \in Clients, NEW code, Return(c, code),
           \A d \in Clients \ {c} : ctask[d] \in Tasks =>
             /\ ctask[d] \in alloc' \ is_detached'
             /\ cpc[d] \notin JoinPc => /\ ctask[d] \in in_pool' <=> ctask[d] \in in_pool
                                        /\ ctask[d] \in is_finished => ctask[d] \in is_finished'
    PROVE  ClientCustody'
<1>1. /\ \A d \in Clients \ {c} : ctask'[d] = ctask[d] /\ cpc'[d] = cpc[d]
      /\ ctask'[c] \notin Tasks
  BY ConstantsAssumption DEF Return, TypeInv, TypeOK
<1>2. \A d \in Clients : cpc[d] \in PushPc \cup {"detach_lock", "detach_delete"} => cpc[d] \notin JoinPc
  BY DEF PushPc, JoinPc, JoinEntry
<1> QED BY <1>1, <1>2 DEF ClientCustody

(* A client begins a call on a task. *)
LEMMA CallBegins ==
    ASSUME TypeInv, ClientCustody, NEW c \in Clients, NEW t \in Tasks,
           NEW pc \in PushPc \cup JoinPc \cup {"detach_lock"}, NEW i, Enter(c, t, pc, i),
           cpc[c] = "idle", UNCHANGED taskVars, Accessible(t),
           pc \in PushPc => t \notin in_pool, pc = "detach_lock" => t \in in_pool,
           \A d \in Busy(t) : cpc[d] \in JoinPc, pc \notin JoinPc => Busy(t) = {}
    PROVE  ClientCustody'
<1>1. /\ \A d \in Clients \ {c} : ctask'[d] = ctask[d] /\ cpc'[d] = cpc[d]
      /\ ctask'[c] = t /\ cpc'[c] = pc
  BY DEF Enter, TypeInv, TypeOK
<1>2. /\ pc # "detach_delete"
      /\ UNCHANGED <<alloc, in_pool, is_detached, is_finished>> /\ t \in alloc \ is_detached
  BY DEF PushPc, JoinPc, JoinEntry, taskVars, Accessible
<1>3. \A d \in Clients : ctask[d] = t => cpc[d] \in JoinPc /\ pc \in JoinPc
  BY DEF Busy
<1> QED BY <1>1, <1>2, <1>3 DEF ClientCustody

-----------------------------------------------------------------------------
Custody == ListCustody /\ HandCustody /\ ClientCustody

statusVars == <<alloc, in_pool, is_detached, is_finished>>

LEMMA SameStatus ==
    ASSUME UNCHANGED statusVars
    PROVE  UnfinishedKept
BY DEF UnfinishedKept, Unfinished, statusVars

LEMMA WokenGoOn ==
    ASSUME TypeInv, ClientCustody, ClientsWoken, UNCHANGED <<ctask, statusVars>>
    PROVE  ClientCustody'
<1>1. \A d \in Clients : \A S \in {PushPc, JoinPc, {"detach_lock"}, {"detach_delete"}} :
        cpc'[d] \in S <=> cpc[d] \in S
  BY DEF ClientsWoken, PushPc, JoinPc, JoinEntry
<1>2. \A d \in Clients : ctask[d] \in Tasks => ctask[d] \in alloc' \ is_detached'
  BY DEF ClientCustody, statusVars
<1> QED BY <1>1, <1>2, CallsGoOn DEF statusVars

(* Steps of a worker that concern no task, or only one it keeps in hand. *)
LEMMA CustodyWorkerAlone ==
    ASSUME TypeInv, Custody, NEW w \in Workers, WorkerStep(w),
           ~WorkerTake(w), ~WorkerFinish(w)
    PROVE  Custody'
<1>1. UNCHANGED statusVars
  BY DEF WorkerStep, WorkerStart, WorkerWait, WorkerWake, WorkerExit, WorkerRun,
         WorkerReturn, WorkerUnlock, taskVars, statusVars
<1>2. UNCHANGED <<pending_task_list, ctask>>
  BY DEF WorkerStep, WorkerStart, WorkerWait, WorkerWake, WorkerExit, WorkerRun,
         WorkerReturn, WorkerUnlock, queueVars, clientVars
<1>3. ClientsWoken
  <2>1. UNCHANGED cpc => ClientsWoken
    BY DEF ClientsWoken, TypeInv, TypeOK
  <2>2. CASE WorkerStart(w)
    BY <2>2, SpawnSignalled DEF WorkerStart, TypeInv, TypeOK
  <2> QED BY <2>1, <2>2
          DEF WorkerStep, WorkerWait, WorkerWake, WorkerExit, WorkerRun, WorkerReturn,
              WorkerUnlock, clientVars
<1>4. SameHands
  BY DEF WorkerStep, WorkerStart, WorkerWait, WorkerWake, WorkerExit, WorkerRun,
         WorkerReturn, WorkerUnlock, WorkerAt, SameHands, InHandPc, TypeInv, TypeOK
<1>5. CASE UNCHANGED wtask
  BY <1>1, <1>2, <1>3, <1>4, <1>5, SameStatus, PoolCustodyFrame, WokenGoOn DEF Custody
<1>6. CASE WorkerUnlock(w)
  <2>1. wpc[w] = "unlock_task" /\ \A v \in Workers \ {w} : wtask'[v] = wtask[v]
    BY <1>6 DEF WorkerUnlock, TypeInv, TypeOK
  <2>2. ListCustody'
    BY <1>1, <1>2 DEF Custody, ListCustody, Unfinished, statusVars
  <2>3. HandCustody'
    BY <1>1, <1>2, <1>4, <2>1
    DEF Custody, HandCustody, Unfinished, statusVars, SameHands, InHandPc
  <2> QED BY <1>1, <1>2, <1>3, <2>2, <2>3, WokenGoOn DEF Custody
<1> QED BY <1>5, <1>6
        DEF WorkerStep, WorkerStart, WorkerWait, WorkerWake, WorkerExit, WorkerRun,
            WorkerReturn, workerVars

(* The task a worker takes leaves the list for its hands. *)
LEMMA CustodyTake ==
    ASSUME TypeInv, Custody, NEW w \in Workers, WorkerTake(w)
    PROVE  Custody'
<1> DEFINE L == pending_task_list
<1> DEFINE h == Head(L)
<1>1. /\ L \in Seq(Tasks) /\ L # <<>> /\ L' = Tail(L) /\ wpc[w] = "check"
      /\ wtask' = [wtask EXCEPT ![w] = h] /\ wpc' = [wpc EXCEPT ![w] = "start_task"]
      /\ UNCHANGED <<statusVars, cpc, ctask>>
  BY DEF WorkerTake, WorkerAt, TypeInv, TypeOK, taskVars, clientVars, statusVars
<1>2. /\ h = L[1] /\ 1 \in DOMAIN L
      /\ \A i \in DOMAIN Tail(L) : i + 1 \in DOMAIN L /\ Tail(L)[i] = L[i + 1]
      /\ DOMAIN Tail(L) \subseteq Nat \ {0}
  BY <1>1
<1>3. h \in alloc /\ Unfinished(h) /\ \A i \in DOMAIN L' : L'[i] # h
  <2>1. h \in alloc /\ Unfinished(h)
    BY <1>2 DEF Custody, ListCustody
  <2>2. ASSUME NEW i \in DOMAIN Tail(L), Tail(L)[i] = h PROVE FALSE
    <3>1. i + 1 \in DOMAIN L /\ L[i + 1] = L[1] /\ i \in Nat \ {0}
      BY <1>2, <2>2
    <3>2. i + 1 = 1
      BY <1>2, <3>1 DEF Custody, ListCustody
    <3> QED BY <3>1, <3>2
  <2> QED BY <1>1, <2>1, <2>2
<1>4. \A v \in Workers : wpc[v] \in InHandPc => wtask[v] # h
  BY <1>2 DEF Custody, HandCustody
<1>5. ListCustody'
  <2>1. \A i \in DOMAIN L' : \E k \in DOMAIN L : k = i + 1 /\ L'[i] = L[k]
    BY <1>1, <1>2
  <2>2. \A i \in DOMAIN L' : L'[i] \in alloc /\ Unfinished(L'[i])
    BY <2>1 DEF Custody, ListCustody
  <2>3. \A i, j \in DOMAIN L' : L'[i] = L'[j] => i = j
    <3>1. SUFFICES ASSUME NEW i \in DOMAIN L', NEW j \in DOMAIN L', L'[i] = L'[j]
                   PROVE  i = j
      OBVIOUS
    <3>2. i \in Nat /\ j \in Nat /\ i + 1 \in DOMAIN L /\ j + 1 \in DOMAIN L
          /\ L[i + 1] = L[j + 1]
      BY <1>1, <1>2, <3>1
    <3>3. i + 1 = j + 1
      BY <3>2 DEF Custody, ListCustody
    <3> QED BY <3>2, <3>3
  <2> QED BY <1>1, <2>2, <2>3 DEF ListCustody, Unfinished, statusVars
<1>6. HandCustody'
  <2>1. /\ wtask'[w] = h
        /\ \A v \in Workers : wpc'[v] \in InHandPc =>
             \/ v = w
             \/ v # w /\ wpc[v] \in InHandPc /\ wtask'[v] = wtask[v]
    <3>1. wtask \in [Workers -> Tasks \cup {None}] /\ wpc \in [Workers -> WorkerPc]
      BY DEF TypeInv, TypeOK
    <3> QED BY <1>1, <3>1
  <2>2. \A v \in Workers : wpc[v] \in InHandPc =>
          /\ wtask[v] \in alloc /\ Unfinished(wtask[v])
          /\ \A i \in DOMAIN L' : L'[i] # wtask[v]
    BY <1>1, <1>2 DEF Custody, HandCustody
  <2>3. \A v \in Workers : wpc'[v] \in InHandPc =>
          /\ wtask'[v] \in alloc /\ Unfinished(wtask'[v])
          /\ \A i \in DOMAIN L' : L'[i] # wtask'[v]
    BY <1>3, <2>1, <2>2
  <2>4. \A u, v \in Workers :
          wpc'[u] \in InHandPc /\ wpc'[v] \in InHandPc /\ wtask'[v] = wtask'[u] => v = u
    BY <1>4, <2>1 DEF Custody, HandCustody
  <2> QED BY <1>1, <2>3, <2>4 DEF HandCustody, Unfinished, statusVars
<1>7. ClientCustody'
  BY <1>1 DEF Custody, ClientCustody, statusVars
<1> QED BY <1>5, <1>6, <1>7 DEF Custody

(* A step that concerns the task t alone. *)
OnlyTask(t) ==
    \A u \in Tasks \ {t} : /\ u \in alloc' <=> u \in alloc
                           /\ u \in in_pool' <=> u \in in_pool
                           /\ u \in is_detached' <=> u \in is_detached
                           /\ u \in is_finished' <=> u \in is_finished

LEMMA DeleteOnly ==
    ASSUME NEW t \in Tasks, Delete(t) \/ (Blank(t) /\ alloc' = alloc \cup {t})
    PROVE  OnlyTask(t)
BY DEF Delete, Blank, OnlyTask, taskVars

(* The task a worker finishes leaves its hands; a detached one is freed. *)
LEMMA CustodyFinish ==
    ASSUME TypeInv, Custody, NEW w \in Workers, WorkerFinish(w)
    PROVE  Custody'
<1>1. /\ wpc[w] \in InHandPc /\ wpc' = [wpc EXCEPT ![w] = "unlock_task"]
      /\ UNCHANGED <<pending_task_list, wtask, ctask>>
  BY DEF WorkerFinish, WorkerAt, InHandPc
<1>t. PICK t \in Tasks : t = wtask[w]
  BY <1>1 DEF TypeInv, HasTask
<1>2. OnlyTask(t)
  <2>1. CASE Delete(t)
    BY <2>1, DeleteOnly
  <2>2. CASE Publish(t, wresult[w])
    BY <2>2 DEF Publish, OnlyTask
  <2> QED BY <1>t, <2>1, <2>2 DEF WorkerFinish
<1>3. /\ \A i \in DOMAIN pending_task_list : pending_task_list[i] # t
      /\ \A v \in Workers : wpc'[v] \in InHandPc => wpc[v] \in InHandPc /\ wtask[v] # t
  <2>1. \A v \in Workers : wpc'[v] \in InHandPc => wpc[v] \in InHandPc /\ v # w
    BY <1>1 DEF InHandPc, TypeInv, TypeOK
  <2> QED BY <1>t, <1>1, <2>1 DEF Custody, HandCustody
<1>4. \A u \in Tasks : u # t /\ u \in alloc /\ Unfinished(u) => u \in alloc' /\ Unfinished(u)'
  BY <1>2 DEF OnlyTask, Unfinished
<1>5. ListCustody'
  <2>1. \A i \in DOMAIN pending_task_list : pending_task_list[i] \in Tasks
    BY DEF TypeInv, TypeOK
  <2>2. \A i \in DOMAIN pending_task_list :
          pending_task_list[i] \in alloc' /\ Unfinished(pending_task_list[i])'
    BY <1>1, <1>3, <1>4, <2>1 DEF Custody, ListCustody
  <2> QED BY <1>1, <2>2 DEF Custody, ListCustody, Unfinished
<1>6. HandCustody'
  <2>1. \A v \in Workers : wpc[v] \in InHandPc => wtask[v] \in Tasks
    BY DEF TypeInv, HasTask
  <2>2. \A v \in Workers : wpc'[v] \in InHandPc =>
          wtask[v] \in alloc' /\ Unfinished(wtask[v])'
    BY <1>1, <1>3, <1>4, <2>1 DEF Custody, HandCustody
  <2> QED BY <1>1, <1>3, <2>2 DEF Custody, HandCustody, Unfinished
<1>7. ClientCustody'
  <2>1. ClientsWoken
    <3>1. UNCHANGED cpc => ClientsWoken
      BY DEF ClientsWoken, TypeInv, TypeOK
    <3> QED BY <3>1, JoinersSignalled DEF WorkerFinish, TypeInv, TypeOK
  <2>2. \A d \in Clients : \A S \in {PushPc, JoinPc, {"detach_lock"}, {"detach_delete"}} :
          cpc'[d] \in S <=> cpc[d] \in S
    BY <2>1 DEF ClientsWoken, PushPc, JoinPc, JoinEntry
  <2>3. ASSUME NEW d \in Clients, ctask[d] \in Tasks
        PROVE  /\ ctask[d] \in alloc' \ is_detached'
               /\ ctask[d] \in in_pool' <=> ctask[d] \in in_pool
               /\ ctask[d] \in is_finished => ctask[d] \in is_finished'
    <3>1. ctask[d] \in alloc \ is_detached
      BY <2>3 DEF Custody, ClientCustody
    <3>2. CASE t \in is_detached
      BY <1>2, <2>3, <3>1, <3>2 DEF OnlyTask
    <3>3. CASE Publish(t, wresult[w])
      BY <3>1, <3>3 DEF Publish
    <3> QED BY <1>t, <3>2, <3>3 DEF WorkerFinish
  <2> QED BY <1>1, <2>2, <2>3, CallsGoOn DEF Custody
<1> QED BY <1>5, <1>6, <1>7 DEF Custody

LEMMA CustodyPool ==
    ASSUME TypeInv, Custody, NEW c \in Clients, PoolCall(c)
    PROVE  Custody'
<1> USE DEF taskVars, statusVars
<1>1. UNCHANGED statusVars
  BY DEF PoolCall, PoolNew, PoolNewRefused, PoolDelete, PoolDeleteRefused,
         PoolDeleteJoin, PoolDeleteLock
<1>2. UNCHANGED wtask
  BY DEF PoolCall, PoolNew, PoolNewRefused, PoolDelete, PoolDeleteRefused,
         PoolDeleteJoin, PoolDeleteLock, workerVars
<1>3. \A d \in Clients : ctask[d] \in Tasks => ctask[d] \in alloc' \ is_detached'
  BY <1>1 DEF Custody, ClientCustody
<1>4. ClientCustody'
  <2>1. ASSUME NEW code, Return(c, code) PROVE ClientCustody'
    BY <1>1, <1>3, <2>1, CallEnds DEF Custody
  <2>2. ASSUME NEW i, Enter(c, None, "delete_join", i) PROVE ClientCustody'
    <3>1. /\ \A d \in Clients \ {c} : ctask'[d] = ctask[d] /\ cpc'[d] = cpc[d]
          /\ ctask'[c] \notin Tasks
      BY <2>2, ConstantsAssumption DEF Enter, TypeInv, TypeOK
    <3> QED BY <1>1, <3>1 DEF Custody, ClientCustody
  <2>3. CASE PoolDeleteJoin(c)
    <3>1. \A d \in Clients : \A S \in {PushPc, JoinPc, {"detach_lock"}, {"detach_delete"}} :
            cpc'[d] \in S <=> cpc[d] \in S
      BY <2>3 DEF PoolDeleteJoin, ClientAt, PushPc, JoinPc, JoinEntry, TypeInv, TypeOK
    <3>2. UNCHANGED ctask
      BY <2>3 DEF PoolDeleteJoin, ClientAt
    <3> QED BY <1>1, <1>3, <3>1, <3>2, CallsGoOn DEF Custody
  <2> QED BY <2>1, <2>2, <2>3
          DEF PoolCall, PoolNew, PoolNewRefused, PoolDelete, PoolDeleteRefused,
              PoolDeleteLock, StopThread, FreePool
<1>5. ASSUME NEW max, PoolNew(c, max) PROVE ListCustody' /\ HandCustody'
  BY <1>5 DEF PoolNew, ListCustody, HandCustody, InHandPc
<1>6. CASE FreePool(c)
  <2>1. pending_task_list' = <<>> /\ UNCHANGED wpc
    BY <1>6 DEF FreePool
  <2>2. ListCustody'
    BY <2>1 DEF ListCustody
  <2>3. HandCustody'
    BY <1>1, <1>2, <2>1 DEF Custody, HandCustody, Unfinished
  <2> QED BY <1>4, <2>2, <2>3 DEF Custody
<1>7. ASSUME UNCHANGED pending_task_list, SameHands PROVE ListCustody' /\ HandCustody'
  BY <1>1, <1>2, <1>7, SameStatus, PoolCustodyFrame DEF Custody
<1>8. ASSUME NEW i, StopThread(c, i) PROVE ListCustody' /\ HandCustody'
  <2>1. WorkersWoken /\ UNCHANGED pending_task_list
    BY <1>8, WorkersSignalled DEF StopThread, queueVars, TypeInv, TypeOK
  <2>2. SameHands
    BY <2>1 DEF WorkersWoken, SameHands, InHandPc
  <2> QED BY <1>7, <2>1, <2>2
<1>9. ASSUME UNCHANGED <<queueVars, workerVars>> PROVE ListCustody' /\ HandCustody'
  BY <1>7, <1>9 DEF queueVars, workerVars, SameHands
<1> QED BY <1>4, <1>5, <1>6, <1>8, <1>9
        DEF Custody, PoolCall, PoolNewRefused, PoolDelete, PoolDeleteRefused,
            PoolDeleteJoin, PoolDeleteLock

(* A pushed task was in nobody's custody before. *)
LEMMA CustodyEnqueue ==
    ASSUME TypeInv, Custody, NEW c \in Clients, PushEnqueue(c)
    PROVE  Custody'
<1> DEFINE L == pending_task_list
<1>t. PICK t \in Tasks : t = ctask[c]
  BY DEF PushEnqueue, TypeInv, HasTask, PushPc
<1>1. /\ L \in Seq(Tasks) /\ L' = <<t>> \o L /\ UNCHANGED <<wtask, alloc, is_detached>>
      /\ in_pool' = in_pool \cup {t} /\ is_finished' = is_finished \ {t}
      /\ Return(c, "OK") /\ cpc[c] = "push_spawn"
  BY <1>t DEF PushEnqueue, NoLongerFinished, TypeInv, TypeOK
<1>2. t \in alloc /\ ~Unfinished(t) /\ Unfinished(t)'
  BY <1>t, <1>1 DEF Custody, ClientCustody, Unfinished, PushPc
<1>3. /\ \A i \in DOMAIN L : L[i] # t
      /\ \A w \in Workers : wpc[w] \in InHandPc => wtask[w] # t
  BY <1>2, Free DEF Custody
<1>4. \A u \in Tasks : u \in alloc /\ Unfinished(u) => u \in alloc' /\ Unfinished(u)'
  BY <1>1 DEF Unfinished
<1>5. /\ DOMAIN L \subseteq Nat \ {0}
      /\ \A i \in DOMAIN L' : \/ i = 1 /\ L'[i] = t
                              \/ i - 1 \in DOMAIN L /\ L'[i] = L[i - 1]
      /\ DOMAIN L' \subseteq Nat \ {0}
  BY <1>1
<1>6. ListCustody'
  <2>1. \A i \in DOMAIN L : L[i] \in Tasks /\ L[i] \in alloc /\ Unfinished(L[i])
    BY <1>1 DEF Custody, ListCustody
  <2>2. \A u \in Tasks : u = t \/ (u \in alloc /\ Unfinished(u)) => u \in alloc' /\ Unfinished(u)'
    BY <1>1, <1>2, <1>4
  <2>3. \A i \in DOMAIN L' : L'[i] \in Tasks
                             /\ (L'[i] = t \/ (L'[i] \in alloc /\ Unfinished(L'[i])))
    BY <1>5, <2>1
  <2>4. \A i \in DOMAIN L' : L'[i] \in alloc' /\ L'[i] \in is_detached' \cup (in_pool' \ is_finished')
    BY <2>2, <2>3 DEF Unfinished
  <2>5. \A i, j \in DOMAIN L' : L'[i] = L'[j] => i = j
    <3>1. SUFFICES ASSUME NEW i \in DOMAIN L', NEW j \in DOMAIN L', L'[i] = L'[j]
                   PROVE  i = j
      OBVIOUS
    <3>2. i \in Nat /\ j \in Nat
      BY <1>5
    <3>3. CASE i - 1 \in DOMAIN L /\ j - 1 \in DOMAIN L /\ L'[i] = L[i - 1] /\ L'[j] = L[j - 1]
      <4>1. i - 1 = j - 1
        BY <3>1, <3>3 DEF Custody, ListCustody
      <4> QED BY <3>2, <4>1
    <3> QED BY <1>3, <1>5, <3>1, <3>2, <3>3
  <2> QED BY <2>4, <2>5 DEF ListCustody, Unfinished
<1>7. SameHands
  <2>1. WorkersWoken
    <3>1. PICK S \in SUBSET Waiting : wpc' = Wake(wpc, S)
      BY SignalOne DEF PushEnqueue, PushWakes
    <3> QED BY <3>1, WorkersSignalled DEF TypeInv, TypeOK
  <2> QED BY <2>1 DEF WorkersWoken, SameHands, InHandPc
<1>8. HandCustody'
  <2>1. \A w \in Workers : wpc[w] \in InHandPc =>
          wtask[w] \in Tasks /\ wtask[w] \in alloc /\ Unfinished(wtask[w])
    BY DEF Custody, HandCustody, TypeInv, HasTask
  <2>2. \A w \in Workers : wpc[w] \in InHandPc =>
          wtask[w] \in alloc' /\ wtask[w] \in is_detached' \cup (in_pool' \ is_finished')
    BY <1>4, <2>1 DEF Unfinished
  <2>3. \A w \in Workers : wpc[w] \in InHandPc => \A i \in DOMAIN L' : L'[i] # wtask[w]
    BY <1>3, <1>5 DEF Custody, HandCustody
  <2>4. \A w, v \in Workers : wpc[w] \in InHandPc /\ wpc[v] \in InHandPc
                              /\ wtask[v] = wtask[w] => v = w
    BY DEF Custody, HandCustody
  <2> QED BY <1>1, <1>7, <2>2, <2>3, <2>4 DEF HandCustody, Unfinished, SameHands
<1>9. ClientCustody'
  <2>1. \A d \in Clients \ {c} : ctask[d] \in Tasks => ctask[d] \in alloc \ is_detached /\ ctask[d] # t
    BY <1>t, <1>1 DEF Custody, ClientCustody, JoinPc, JoinEntry
  <2> QED BY <1>1, <2>1, CallEnds DEF Custody
<1> QED BY <1>6, <1>8, <1>9 DEF Custody

LEMMA CustodyPush ==
    ASSUME TypeInv, Custody, NEW c \in Clients, PushCall(c)
    PROVE  Custody'
<1> USE DEF taskVars, statusVars
<1>1. ASSUME UNCHANGED <<statusVars, pending_task_list, wtask>>, SameHands
      PROVE  ListCustody' /\ HandCustody'
  BY <1>1, SameStatus, PoolCustodyFrame DEF Custody
<1>2. \A d \in Clients : ctask[d] \in Tasks => ctask[d] \in alloc \ is_detached
  BY DEF Custody, ClientCustody
<1>3. ASSUME NEW t \in Tasks, PushBegin(c, t) PROVE Custody'
  <2>1. /\ UNCHANGED <<taskVars, pending_task_list, wtask>>
        /\ cpc[c] = "idle" /\ Accessible(t) /\ t \notin in_pool /\ Busy(t) = {}
    BY <1>3 DEF PushBegin, MayPush, MayCall, queueVars
  <2>2. SameHands
    BY <1>3 DEF PushBegin, Spawn, WorkerAt, SameHands, InHandPc, TypeInv, TypeOK
  <2>3. PICK i : Enter(c, t, "push_spawn", i)
    BY <1>3 DEF PushBegin
  <2>4. ClientCustody'
    BY <2>1, <2>3, CallBegins DEF Custody, PushPc
  <2> QED BY <1>1, <2>1, <2>2, <2>4 DEF Custody
<1>4. ASSUME NEW t \in Tasks, PushTooMany(c, t) PROVE Custody'
  <2>1. UNCHANGED <<taskVars, pending_task_list, wtask, wpc>> /\ Return(c, "TOO_MANY_TASKS")
    BY <1>4 DEF PushTooMany, queueVars, workerVars
  <2>2. ClientCustody'
    BY <1>2, <2>1, CallEnds DEF Custody
  <2> QED BY <1>1, <2>1, <2>2 DEF Custody, SameHands
<1>5. CASE PushWait(c) \/ PushWake(c)
  <2>1. UNCHANGED <<taskVars, pending_task_list, wtask, wpc, ctask>>
    BY <1>5 DEF PushWait, PushWake, ClientAt, queueVars, workerVars
  <2>2. \A d \in Clients : \A S \in {PushPc, JoinPc, {"detach_lock"}, {"detach_delete"}} :
          cpc'[d] \in S <=> cpc[d] \in S
    BY <1>5 DEF PushWait, PushWake, ClientAt, PushPc, JoinPc, JoinEntry, TypeInv, TypeOK
  <2>3. ClientCustody'
    BY <1>2, <2>1, <2>2, CallsGoOn DEF Custody
  <2> QED BY <1>1, <2>1, <2>3 DEF Custody, SameHands
<1> QED BY <1>3, <1>4, <1>5, CustodyEnqueue DEF PushCall

(* A call on the task t ends; t is no other client's, or it stays allocated  *)
(* and accessible and the others only join it.                               *)
LEMMA TaskCallEnds ==
    ASSUME TypeInv, Custody, NEW c \in Clients, NEW t \in Tasks, OnlyTask(t),
           NEW code, Return(c, code), UNCHANGED <<pending_task_list, wtask, wpc>>,
           t \in alloc /\ Unfinished(t) => t \in alloc' /\ Unfinished(t)',
           \A d \in Clients \ {c} : ctask[d] = t =>
             cpc[d] \in JoinPc /\ t \in alloc' \ is_detached'
    PROVE  Custody'
<1>1. UnfinishedKept
  BY DEF UnfinishedKept, OnlyTask, Unfinished
<1>2. ListCustody' /\ HandCustody'
  BY <1>1, PoolCustodyFrame DEF Custody, SameHands
<1>3. \A d \in Clients \ {c} : ctask[d] \in Tasks =>
        /\ ctask[d] \in alloc' \ is_detached'
        /\ cpc[d] \notin JoinPc => /\ ctask[d] \in in_pool' <=> ctask[d] \in in_pool
                                   /\ ctask[d] \in is_finished => ctask[d] \in is_finished'
  <2>1. \A d \in Clients : ctask[d] \in Tasks => ctask[d] \in alloc \ is_detached
    BY DEF Custody, ClientCustody
  <2> QED BY <2>1 DEF OnlyTask
<1>4. ClientCustody'
  BY <1>3, CallEnds DEF Custody
<1> QED BY <1>2, <1>4 DEF Custody

(* A joiner that collects a finished task. *)
LEMMA CustodyCollect ==
    ASSUME TypeInv, Custody, NEW c \in Clients, cpc[c] \in JoinPc,
           ctask[c] \in is_finished, Collect(c),
           UNCHANGED <<pending_task_list, wtask, wpc>>
    PROVE  Custody'
<1>t. PICK t \in Tasks : t = ctask[c]
  BY DEF TypeInv, HasTask
<1>1. /\ in_pool' = in_pool \ {t} /\ UNCHANGED <<alloc, is_detached, is_finished>>
      /\ Return(c, "OK")
  BY <1>t DEF Collect
<1>2. OnlyTask(t)
  BY <1>1 DEF OnlyTask
<1>3. t \in alloc \ is_detached
  BY <1>t DEF Custody, ClientCustody
<1>4. ~Unfinished(t)
  BY <1>t, <1>3 DEF Unfinished
<1>5. \A d \in Clients \ {c} : ctask[d] = t => cpc[d] \in JoinPc
  BY <1>t DEF Custody, ClientCustody
<1> QED BY <1>1, <1>2, <1>3, <1>4, <1>5, TaskCallEnds

LEMMA CustodyTask ==
    ASSUME TypeInv, Custody, NEW c \in Clients, TaskCall(c)
    PROVE  Custody'
<1>1. UNCHANGED <<pending_task_list, wtask, wpc>>
  BY TaskCallFrame DEF queueVars, workerVars
<1>2. UNCHANGED taskVars => UNCHANGED statusVars
  BY DEF taskVars, statusVars
<1>3. ASSUME UNCHANGED statusVars, ClientCustody' PROVE Custody'
  BY <1>1, <1>3, SameStatus, PoolCustodyFrame DEF Custody, SameHands
<1>4. \A d \in Clients : ctask[d] \in Tasks => ctask[d] \in alloc \ is_detached
  BY DEF Custody, ClientCustody
<1>5. ASSUME UNCHANGED taskVars, NEW code, Return(c, code) PROVE Custody'
  <2>1. ClientCustody'
    BY <1>2, <1>4, <1>5, CallEnds DEF Custody, statusVars
  <2> QED BY <1>2, <1>3, <1>5, <2>1
<1>6. ASSUME UNCHANGED statusVars, NEW pc \in JoinPc, cpc[c] \in JoinPc, ClientAt(c, pc)
      PROVE  Custody'
  <2>1. \A d \in Clients : \A S \in {PushPc, JoinPc, {"detach_lock"}, {"detach_delete"}} :
          cpc'[d] \in S <=> cpc[d] \in S
    BY <1>6 DEF ClientAt, PushPc, JoinPc, JoinEntry, TypeInv, TypeOK
  <2>2. ClientCustody'
    BY <1>4, <1>6, <2>1, CallsGoOn DEF Custody, ClientAt, statusVars
  <2> QED BY <1>3, <1>6, <2>2
<1>7. ASSUME NEW t \in Tasks, TaskNew(c, t) PROVE Custody'
  <2>1. t \notin alloc /\ Return(c, "OK") /\ OnlyTask(t)
    BY <1>7, DeleteOnly DEF TaskNew
  <2>2. \A d \in Clients : ctask[d] # t
    BY <1>4, <2>1
  <2> QED BY <1>1, <2>1, <2>2, TaskCallEnds
<1>8. ASSUME NEW t \in Tasks, TaskDelete(c, t) PROVE Custody'
  <2>1. PICK code : Return(c, code)
    BY <1>8 DEF TaskDelete
  <2>2. t \notin is_detached /\ \A d \in Clients : ctask[d] # t
    BY <1>8 DEF TaskDelete, MayCall, Accessible, Busy
  <2>3. OnlyTask(t)
    BY <1>8, DeleteOnly DEF TaskDelete
  <2>4. t \in alloc /\ Unfinished(t) => t \in alloc' /\ Unfinished(t)'
    BY <1>8, <2>2 DEF TaskDelete, Delete, Unfinished, taskVars
  <2> QED BY <1>1, <2>1, <2>2, <2>3, <2>4, TaskCallEnds
<1>9. ASSUME NEW t \in Tasks, NotPushed(c, t) PROVE Custody'
  BY <1>5, <1>9 DEF NotPushed
<1>10. ASSUME NEW t \in Tasks, DetachCall(c, t) PROVE Custody'
  <2>1. ClientCustody'
    BY <1>10, CallBegins DEF DetachCall, MayCall, Custody, PushPc, JoinPc, JoinEntry
  <2> QED BY <1>2, <1>3, <1>10, <2>1 DEF DetachCall
<1>11. ASSUME NEW t \in Tasks, NEW pc \in JoinEntry,
              JoinCall(c, t, pc)
       PROVE  Custody'
  <2>1. pc \in JoinPc /\ pc \notin PushPc /\ pc # "detach_lock"
    BY DEF JoinPc, JoinEntry, PushPc
  <2>2. ClientCustody'
    BY <1>11, <2>1, CallBegins DEF JoinCall, MayJoin, Custody
  <2> QED BY <1>2, <1>3, <1>11, <2>2 DEF JoinCall
<1>12. CASE JoinLock(c) \/ TimedLock(c) \/ ZeroLock(c)
  <2>1. cpc[c] \in JoinPc
    BY <1>12 DEF JoinLock, TimedLock, ZeroLock, CollectOrWait, JoinPc, JoinEntry
  <2>2. CASE ctask[c] \in is_finished
    BY <1>1, <1>12, <2>1, <2>2, CustodyCollect DEF JoinLock, TimedLock, ZeroLock, CollectOrWait
  <2>3. CASE ctask[c] \notin is_finished
    BY <1>2, <1>5, <1>6, <1>12, <2>1, <2>3
    DEF JoinLock, TimedLock, ZeroLock, CollectOrWait, JoinPc, JoinEntry
  <2> QED BY <2>2, <2>3
<1>h. CASE HugeLock(c)
  <2>1. cpc[c] \in JoinPc
    BY <1>h DEF HugeLock, JoinPc, JoinEntry
  <2>2. CASE ctask[c] \in is_finished
    BY <1>1, <1>h, <2>1, <2>2, CustodyCollect DEF HugeLock
  <2>3. CASE ctask[c] \notin is_finished
    <3>1. UNCHANGED statusVars /\ ClientAt(c, "timed_spin")
      BY <1>h, <2>3 DEF HugeLock, statusVars
    <3> QED BY <1>6, <2>1, <3>1 DEF JoinPc
  <2> QED BY <2>2, <2>3
<1>13. CASE Timeout(c) \/ TimedExpired(c)
  BY <1>2, <1>5, <1>6, <1>13 DEF Timeout, TimedExpired, JoinPc, JoinEntry
<1>14. CASE DetachLock(c)
  <2>t. PICK t \in Tasks : t = ctask[c]
    BY <1>14 DEF DetachLock, TypeInv, HasTask, DetachPc
  <2>1. /\ t \in in_pool /\ t \in alloc \ is_detached
        /\ \A d \in Clients \ {c} : ctask[d] # t
    BY <1>14, <2>t DEF DetachLock, Custody, ClientCustody, JoinPc, JoinEntry
  <2>2. in_pool' = in_pool \ {t} /\ UNCHANGED <<alloc, is_finished>>
    BY <1>14, <2>t DEF DetachLock, OutOfPool
  <2>3. CASE t \in is_finished
    <3>1. UNCHANGED is_detached /\ ClientAt(c, "detach_delete")
      BY <1>14, <2>t, <2>3 DEF DetachLock
    <3>2. OnlyTask(t) /\ ~Unfinished(t)
      BY <2>1, <2>2, <2>3, <3>1 DEF OnlyTask, Unfinished
    <3>3. UnfinishedKept
      BY <3>2 DEF UnfinishedKept, OnlyTask, Unfinished
    <3>4. /\ \A d \in Clients \ {c} : ctask'[d] = ctask[d] /\ cpc'[d] = cpc[d]
          /\ ctask'[c] = t /\ cpc'[c] = "detach_delete"
      BY <2>t, <3>1 DEF ClientAt, TypeInv, TypeOK
    <3>5. ClientCustody'
      BY <2>1, <2>2, <2>3, <3>1, <3>4 DEF Custody, ClientCustody, PushPc
    <3> QED BY <1>1, <3>3, <3>5, PoolCustodyFrame DEF Custody, SameHands
  <2>4. CASE t \notin is_finished
    <3>1. is_detached' = is_detached \cup {t} /\ Return(c, "OK")
      BY <1>14, <2>t, <2>4 DEF DetachLock
    <3>2. OnlyTask(t) /\ t \in alloc' /\ Unfinished(t)'
      BY <2>1, <2>2, <3>1 DEF OnlyTask, Unfinished
    <3> QED BY <1>1, <2>1, <3>1, <3>2, TaskCallEnds
  <2> QED BY <2>3, <2>4
<1>15. CASE DetachDelete(c)
  <2>t. PICK t \in Tasks : t = ctask[c]
    BY <1>15 DEF DetachDelete, TypeInv, HasTask, DetachPc
  <2>1. /\ t \in is_finished \ is_detached
        /\ \A d \in Clients \ {c} : ctask[d] # t
    BY <1>15, <2>t DEF DetachDelete, Custody, ClientCustody, JoinPc, JoinEntry
  <2>2. ~Unfinished(t)
    BY <2>1 DEF Unfinished
  <2>3. OnlyTask(t) /\ Return(c, "OK")
    BY <1>15, <2>t, DeleteOnly DEF DetachDelete
  <2> QED BY <1>1, <2>1, <2>2, <2>3, TaskCallEnds
<1> QED BY <1>7, <1>8, <1>9, <1>10, <1>11, <1>12, <1>13, <1>14, <1>15, <1>h DEF TaskCall

LEMMA CustodySpurious ==
    ASSUME TypeInv, Custody, Spurious
    PROVE  Custody'
<1>1. SameHands
  BY SpuriousFrame DEF SameHands, InHandPc
<1>2. UNCHANGED <<statusVars, pending_task_list, wtask, ctask>> /\ ClientsWoken
  BY SpuriousFrame DEF taskVars, statusVars, queueVars
<1> QED BY <1>1, <1>2, SameStatus, PoolCustodyFrame, WokenGoOn DEF Custody

-----------------------------------------------------------------------------
CustodyInv == TypeInv /\ Custody

LEMMA CustodyInit ==
    Init => CustodyInv
<1> SUFFICES ASSUME Init PROVE CustodyInv
  OBVIOUS
<1>1. ListCustody
  BY DEF Init, ListCustody
<1>2. HandCustody
  BY DEF Init, HandCustody, InHandPc
<1>3. ClientCustody
  BY ConstantsAssumption DEF Init, ClientCustody
<1> QED BY <1>1, <1>2, <1>3, TypeInit DEF CustodyInv, Custody

LEMMA CustodyStep ==
    CustodyInv /\ [Next]_vars => CustodyInv'
<1> SUFFICES ASSUME CustodyInv, [Next]_vars PROVE CustodyInv'
  OBVIOUS
<1>1. TypeInv /\ TypeInv' /\ Custody
  BY TypeStep DEF CustodyInv
<1>2. CASE UNCHANGED vars
  <2>1. UNCHANGED <<statusVars, pending_task_list, wtask, wpc, ctask, cpc>>
    BY <1>2 DEF vars, queueVars, taskVars, workerVars, clientVars, statusVars
  <2>2. ClientsWoken
    BY <1>1, <2>1 DEF ClientsWoken, TypeInv, TypeOK
  <2>3. Custody'
    BY <1>1, <2>1, <2>2, SameStatus, PoolCustodyFrame, WokenGoOn DEF Custody, SameHands
  <2> QED BY <1>1, <2>3 DEF CustodyInv
<1>3. CASE Moves
  <2>1. ASSUME NEW w \in Workers, WorkerStep(w) PROVE Custody'
    BY <1>1, <2>1, CustodyWorkerAlone, CustodyTake, CustodyFinish
  <2>2. ASSUME NEW c \in Clients, PoolCall(c) \/ PushCall(c) \/ TaskCall(c) PROVE Custody'
    BY <1>1, <2>2, CustodyPool, CustodyPush, CustodyTask
  <2>3. ASSUME Spurious PROVE Custody'
    BY <1>1, <2>3, CustodySpurious
  <2>4. Custody'
    BY <1>3, <2>1, <2>2, <2>3 DEF Moves
  <2> QED BY <1>1, <2>4 DEF CustodyInv
<1> QED BY <1>2, <1>3, NextSteps

(* No task is freed under a thread that will still use it: not by            *)
(* thread_task_delete, nor by the delete of a detached task in the worker    *)
(* (line 99) or in thread_task_detach (line 393).                            *)
THEOREM TaskMemory == Spec => []TaskMemorySafe
<1>1. Spec => []CustodyInv
  BY CustodyInit, CustodyStep, PTL DEF Spec
<1>2. CustodyInv => TaskMemorySafe
  <2>1. SUFFICES ASSUME CustodyInv PROVE TaskMemorySafe
    OBVIOUS
  <2>2. \A i \in DOMAIN pending_task_list : pending_task_list[i] \in alloc
    BY <2>1 DEF CustodyInv, Custody, ListCustody
  <2>3. \A w \in At(InHandPc) : wtask[w] \in alloc
    BY <2>1 DEF CustodyInv, Custody, HandCustody, At
  <2>4. \A c \in Clients : ctask[c] # None => ctask[c] \in alloc
    BY <2>1 DEF CustodyInv, Custody, ClientCustody, TypeInv, TypeOK
  <2> QED BY <2>2, <2>3, <2>4 DEF TaskMemorySafe
<1> QED BY <1>1, <1>2, PTL

-----------------------------------------------------------------------------
(* The life of a task. *)

InList(t) == \E i \in DOMAIN pending_task_list : pending_task_list[i] = t
Taken(t) == \E w \in Workers : wpc[w] \in InHandPc /\ wtask[w] = t

(* A task that was pushed is in the list or in hand; a detached one has left *)
(* the pool's books.                                                         *)
NoneLost == \A t \in Tasks : Unfinished(t) => InList(t) \/ Taken(t)
DetachedOut == is_detached \cap in_pool = {}

TasksInv == CountInv /\ Custody /\ NoneLost /\ DetachedOut

-----------------------------------------------------------------------------
(* The moves of one task. *)

SameFlags(t) == /\ t \in alloc' <=> t \in alloc
                /\ t \in in_pool' <=> t \in in_pool
                /\ t \in is_detached' <=> t \in is_detached
                /\ t \in is_finished' <=> t \in is_finished

SamePlace(t) == (InList(t)' <=> InList(t)) /\ (Taken(t)' <=> Taken(t))

Kept(t) == SameFlags(t) /\ SamePlace(t)

Taking(t) ==
    /\ SameFlags(t) /\ t \in alloc /\ Unfinished(t)
    /\ ~Taken(t) /\ Taken(t)'

Dropping(t) ==
    /\ t \in alloc \cap is_detached /\ Taken(t)
    /\ t \notin alloc' \cup is_detached' \cup in_pool' /\ ~Taken(t)'

Publishing(t) ==
    /\ t \in (alloc \cap in_pool) \ (is_finished \cup is_detached) /\ Taken(t)
    /\ t \in (alloc' \cap in_pool' \cap is_finished') \ is_detached'

Queueing(t) ==
    /\ t \in alloc \ (in_pool \cup is_detached)
    /\ t \in (alloc' \cap in_pool') \ (is_finished' \cup is_detached')
    /\ InList(t)' /\ ~Taken(t)'

Creating(t) ==
    /\ t \notin alloc /\ t \in alloc' \ (in_pool' \cup is_detached')

Freeing(t) ==
    /\ t \in alloc \ (in_pool \cup is_detached)
    /\ t \notin alloc' \cup in_pool' \cup is_detached'

Collecting(t) ==
    /\ t \in (alloc \cap in_pool \cap is_finished) \ is_detached
    /\ t \in alloc' \ (in_pool' \cup is_detached')

Detaching(t) ==
    /\ t \in (alloc \cap in_pool) \ (is_finished \cup is_detached)
    /\ t \in (alloc' \cap is_detached') \ in_pool' /\ SamePlace(t)

MoveOf(t) == \/ Taking(t) \/ Dropping(t) \/ Publishing(t) \/ Queueing(t)
             \/ Creating(t) \/ Freeing(t) \/ Collecting(t) \/ Detaching(t)

OnlyMove(t) == (MoveOf(t) \/ Kept(t)) /\ \A u \in Tasks \ {t} : Kept(u)

OneMove == (\A t \in Tasks : Kept(t)) \/ \E t \in Tasks : OnlyMove(t)

SamePlaces == \A t \in Tasks : SamePlace(t)

LEMMA PlacesFrame ==
    ASSUME UNCHANGED pending_task_list, SameHands,
           \A w \in Workers : wpc[w] \in InHandPc => wtask'[w] = wtask[w]
    PROVE  SamePlaces
BY DEF SamePlaces, SamePlace, InList, Taken, SameHands

LEMMA MoveFrame ==
    ASSUME SamePlaces, UNCHANGED statusVars
    PROVE  OneMove
BY DEF OneMove, Kept, SamePlaces, SameFlags, statusVars

LEMMA MoveTake ==
    ASSUME TypeInv, Custody, NEW w \in Workers, WorkerTake(w)
    PROVE  OneMove
<1> DEFINE L == pending_task_list
<1>h. PICK h \in Tasks : h = Head(L)
  <2>1. L \in Seq(Tasks) /\ L # <<>>
    BY DEF WorkerTake, TypeInv, TypeOK
  <2> QED BY <2>1
<1>1. /\ L \in Seq(Tasks) /\ L # <<>> /\ L' = Tail(L) /\ wpc[w] = "check"
      /\ wtask' = [wtask EXCEPT ![w] = h] /\ wpc' = [wpc EXCEPT ![w] = "start_task"]
      /\ UNCHANGED statusVars
  BY <1>h DEF WorkerTake, WorkerAt, TypeInv, TypeOK, taskVars, statusVars
<1>2. /\ h = L[1] /\ 1 \in DOMAIN L /\ h \in Tasks
      /\ \A i \in DOMAIN Tail(L) : i + 1 \in DOMAIN L /\ Tail(L)[i] = L[i + 1]
      /\ \A i \in DOMAIN L : i = 1 \/ (i - 1 \in DOMAIN Tail(L) /\ Tail(L)[i - 1] = L[i])
  BY <1>h, <1>1
<1>3. h \in alloc /\ Unfinished(h)
  BY <1>2 DEF Custody, ListCustody
<1>4. ~Taken(h)
  BY <1>2 DEF Custody, HandCustody, Taken
<1>5. /\ wtask'[w] = h /\ wpc'[w] \in InHandPc /\ wpc[w] \notin InHandPc
      /\ \A v \in Workers \ {w} : wpc'[v] = wpc[v] /\ wtask'[v] = wtask[v]
  BY <1>1 DEF InHandPc, TypeInv, TypeOK
<1>6. Taken(h)'
  BY <1>5 DEF Taken
<1>7. ASSUME NEW u \in Tasks \ {h} PROVE InList(u)' <=> InList(u)
  <2>1. ASSUME NEW i \in DOMAIN L, L[i] = u PROVE InList(u)'
    <3>1. i - 1 \in DOMAIN L' /\ L'[i - 1] = u
      BY <1>1, <1>2, <2>1
    <3> QED BY <3>1 DEF InList
  <2>2. ASSUME NEW i \in DOMAIN L', L'[i] = u PROVE InList(u)
    <3>1. i + 1 \in DOMAIN L /\ L[i + 1] = u
      BY <1>1, <1>2, <2>2
    <3> QED BY <3>1 DEF InList
  <2> QED BY <2>1, <2>2 DEF InList
<1>8. ASSUME NEW u \in Tasks \ {h} PROVE Taken(u)' <=> Taken(u)
  <2>1. \A v \in Workers : wpc'[v] \in InHandPc /\ wtask'[v] = u
                            <=> wpc[v] \in InHandPc /\ wtask[v] = u
    BY <1>5, u # h
  <2> QED BY <2>1 DEF Taken
<1>9. \A u \in Tasks : SameFlags(u)
  BY <1>1 DEF SameFlags, statusVars
<1>10. Taking(h)
  BY <1>2, <1>3, <1>4, <1>6, <1>9 DEF Taking
<1>11. \A u \in Tasks \ {h} : Kept(u)
  BY <1>7, <1>8, <1>9 DEF Kept, SamePlace
<1> QED BY <1>2, <1>10, <1>11 DEF OneMove, OnlyMove, MoveOf

LEMMA MoveFinish ==
    ASSUME TypeInv, Custody, DetachedOut, NEW w \in Workers, WorkerFinish(w)
    PROVE  OneMove
<1>1. /\ wpc[w] \in InHandPc /\ wpc' = [wpc EXCEPT ![w] = "unlock_task"]
      /\ UNCHANGED <<pending_task_list, wtask>>
  BY DEF WorkerFinish, WorkerAt, InHandPc
<1>t. PICK t \in Tasks : t = wtask[w]
  BY <1>1 DEF TypeInv, HasTask
<1>2. t \in alloc /\ Unfinished(t) /\ Taken(t)
  BY <1>t, <1>1 DEF Custody, HandCustody, Taken
<1>3. \A v \in Workers : wpc'[v] \in InHandPc <=> wpc[v] \in InHandPc /\ v # w
  BY <1>1 DEF InHandPc, TypeInv, TypeOK
<1>4. ~Taken(t)'
  BY <1>t, <1>1, <1>3 DEF Custody, HandCustody, Taken
<1>5. \A u \in Tasks \ {t} : SamePlace(u)
  BY <1>t, <1>1, <1>3 DEF SamePlace, InList, Taken
<1>6. CASE t \in is_detached
  <2>1. Delete(t) /\ t \notin in_pool
    BY <1>t, <1>6 DEF WorkerFinish, DetachedOut
  <2>2. t \notin alloc' \cup is_detached' \cup in_pool'
    BY <2>1 DEF Delete, Blank
  <2>3. \A u \in Tasks \ {t} : SameFlags(u)
    BY <2>1 DEF Delete, Blank, SameFlags
  <2>4. Dropping(t)
    BY <1>2, <1>4, <1>6, <2>2 DEF Dropping
  <2> QED BY <1>5, <2>3, <2>4 DEF OneMove, OnlyMove, MoveOf, Kept
<1>7. CASE t \notin is_detached
  <2>1. Publish(t, wresult[w]) /\ t \in in_pool \ is_finished
    BY <1>t, <1>2, <1>7 DEF WorkerFinish, Unfinished
  <2>2. Publishing(t)
    BY <1>2, <1>7, <2>1 DEF Publishing, Publish
  <2>3. \A u \in Tasks \ {t} : SameFlags(u)
    BY <2>1 DEF Publish, SameFlags
  <2> QED BY <1>5, <2>2, <2>3 DEF OneMove, OnlyMove, MoveOf, Kept
<1> QED BY <1>6, <1>7

LEMMA MoveWorkers ==
    ASSUME TypeInv, Custody, DetachedOut, NEW w \in Workers, WorkerStep(w)
    PROVE  OneMove
<1>1. CASE ~WorkerTake(w) /\ ~WorkerFinish(w)
  <2>1. /\ UNCHANGED statusVars /\ UNCHANGED pending_task_list
        /\ UNCHANGED wtask \/ (wpc[w] = "unlock_task"
                               /\ wtask' = [wtask EXCEPT ![w] = None])
    BY <1>1 DEF WorkerStep, WorkerStart, WorkerWait, WorkerWake, WorkerExit, WorkerRun,
         WorkerReturn, WorkerUnlock, taskVars, statusVars, queueVars
  <2>2. SameHands
    BY <1>1 DEF WorkerStep, WorkerStart, WorkerWait, WorkerWake, WorkerExit, WorkerRun,
         WorkerReturn, WorkerUnlock, WorkerAt, SameHands, InHandPc, TypeInv, TypeOK
  <2>3. \A v \in Workers : wpc[v] \in InHandPc => wtask'[v] = wtask[v]
    BY <2>1 DEF InHandPc, TypeInv, TypeOK
  <2> QED BY <2>1, <2>2, <2>3, PlacesFrame, MoveFrame
<1> QED BY <1>1, MoveTake, MoveFinish

LEMMA MovePool ==
    ASSUME TypeInv, PoolPhases, Counted, HandsEmpty, HandsEmpty', Custody,
           NEW c \in Clients, PoolCall(c)
    PROVE  OneMove
<1>1. UNCHANGED <<statusVars, wtask>>
  BY DEF PoolCall, PoolNew, PoolNewRefused, PoolDelete, PoolDeleteRefused,
         PoolDeleteJoin, PoolDeleteLock, taskVars, statusVars, workerVars
<1>2. ASSUME UNCHANGED pending_task_list, SameHands PROVE OneMove
  BY <1>1, <1>2, PlacesFrame, MoveFrame
<1>3. CASE ~live /\ live' /\ \E max \in 1 .. MaxThreads : PoolNew(c, max)
  <2>1. pending_task_list = <<>> /\ pending_task_list' = <<>>
    BY <1>3 DEF PoolNew, PoolPhases
  <2>2. \A w \in Workers : wpc[w] \notin InHandPc /\ wpc'[w] \notin InHandPc
    BY <1>3 DEF PoolNew, HandsEmpty, At, InHandPc
  <2> QED BY <1>2, <2>1, <2>2 DEF SameHands
<1>4. CASE FreePool(c)
  <2>1. pending_task_list' = <<>> /\ UNCHANGED wpc
    BY <1>4 DEF FreePool
  <2>2. pending_task_list = <<>>
    <3>1. CASE PoolDelete(c)
      <4>1. Len(pending_task_list) = 0
        BY <3>1 DEF PoolDelete, HasTasks, PoolPhases, TypeInv, TypeOK
      <4> QED BY <4>1 DEF TypeInv, TypeOK
    <3>2. CASE PoolDeleteLock(c)
      BY <3>2 DEF PoolDeleteLock, PoolPhases, Deleting, DeletePoolPc
    <3>3. CASE PoolDeleteJoin(c)
      BY <3>3 DEF PoolDeleteJoin, PoolPhases, Deleting, DeletePoolPc
    <3>4. ASSUME NEW max, PoolNew(c, max) \/ PoolNewRefused(c, max)
          PROVE  pending_task_list = <<>>
      BY <3>4 DEF PoolNew, PoolNewRefused, PoolPhases
    <3>5. CASE PoolDeleteRefused(c)
      BY <1>4, <3>5 DEF PoolDeleteRefused, MayDeletePool, FreePool, lifeVars
    <3> QED BY <3>1, <3>2, <3>3, <3>4, <3>5 DEF PoolCall
  <2> QED BY <1>2, <2>1, <2>2 DEF SameHands
<1>5. ASSUME UNCHANGED queueVars, WorkersWoken PROVE OneMove
  BY <1>2, <1>5 DEF WorkersWoken, SameHands, InHandPc, queueVars
<1>6. ASSUME UNCHANGED queueVars, UNCHANGED workerVars PROVE OneMove
  BY <1>2, <1>6 DEF SameHands, queueVars, workerVars
<1> QED BY <1>3, <1>4, <1>5, <1>6, PoolCallFrame

LEMMA MoveEnqueue ==
    ASSUME TypeInv, PoolPhases, Custody, NEW c \in Clients, PushEnqueue(c)
    PROVE  OneMove
<1> DEFINE L == pending_task_list
<1>t. PICK t \in Tasks : t = ctask[c]
  BY DEF PushEnqueue, TypeInv, HasTask, PushPc
<1>1. /\ L \in Seq(Tasks) /\ L' = <<t>> \o L /\ UNCHANGED <<wtask, alloc, is_detached>>
      /\ in_pool' = in_pool \cup {t} /\ is_finished' = is_finished \ {t}
      /\ cpc[c] = "push_spawn"
  BY <1>t DEF PushEnqueue, NoLongerFinished, TypeInv, TypeOK
<1>2. t \in alloc \ (in_pool \cup is_detached)
  BY <1>t, <1>1 DEF Custody, ClientCustody, PushPc
<1>3. ~Taken(t)
  BY <1>2, Free DEF Custody, Unfinished, Taken
<1>4. \A w \in Workers : wpc'[w] \in InHandPc <=> wpc[w] \in InHandPc
  BY PushEnqueueFrame DEF InHandPc
<1>5. \A u \in Tasks : Taken(u)' <=> Taken(u)
  BY <1>1, <1>4 DEF Taken
<1>6. /\ 1 \in DOMAIN L' /\ L'[1] = t
      /\ \A i \in DOMAIN L : i + 1 \in DOMAIN L' /\ L'[i + 1] = L[i]
      /\ \A i \in DOMAIN L' : L'[i] = t \/ (i - 1 \in DOMAIN L /\ L'[i] = L[i - 1])
  BY <1>1
<1>7. InList(t)' /\ \A u \in Tasks \ {t} : InList(u)' <=> InList(u)
  BY <1>6 DEF InList
<1>8. \A u \in Tasks \ {t} : SameFlags(u)
  BY <1>1 DEF SameFlags
<1>9. Queueing(t)
  BY <1>1, <1>2, <1>3, <1>5, <1>7 DEF Queueing
<1> QED BY <1>5, <1>7, <1>8, <1>9 DEF OneMove, OnlyMove, MoveOf, Kept, SamePlace

LEMMA MovePush ==
    ASSUME TypeInv, PoolPhases, Custody, NEW c \in Clients, PushCall(c)
    PROVE  OneMove
<1>1. ASSUME NEW t \in Tasks, PushBegin(c, t) PROVE OneMove
  <2>1. UNCHANGED statusVars /\ UNCHANGED pending_task_list /\ UNCHANGED wtask
    BY <1>1 DEF PushBegin, taskVars, statusVars, queueVars
  <2>2. SameHands
    BY <1>1, PushBeginFrame DEF SameHands, InHandPc
  <2> QED BY <2>1, <2>2, PlacesFrame, MoveFrame
<1>2. ASSUME NEW t \in Tasks, PushTooMany(c, t) \/ PushWait(c) \/ PushWake(c) PROVE OneMove
  <2>1. /\ UNCHANGED statusVars /\ UNCHANGED pending_task_list
        /\ UNCHANGED wtask /\ UNCHANGED wpc
    BY <1>2 DEF PushTooMany, PushWait, PushWake, taskVars, statusVars, queueVars, workerVars
  <2> QED BY <2>1, PlacesFrame, MoveFrame DEF SameHands
<1>3. CASE PushWait(c) \/ PushWake(c)
  <2>1. ctask[c] \in Tasks
    BY <1>3 DEF PushWait, PushWake, TypeInv, HasTask, PushPc
  <2> QED BY <1>2, <1>3, <2>1
<1> QED BY <1>1, <1>2, <1>3, MoveEnqueue DEF PushCall

LEMMA MoveTask ==
    ASSUME TypeInv, Custody, NEW c \in Clients, TaskCall(c)
    PROVE  OneMove
<1>1. UNCHANGED pending_task_list /\ UNCHANGED wtask /\ UNCHANGED wpc
  BY TaskCallFrame DEF queueVars, workerVars
<1>2. SamePlaces
  BY <1>1, PlacesFrame DEF SameHands
<1>h. ASSUME UNCHANGED statusVars PROVE OneMove
  BY <1>2, <1>h, MoveFrame DEF statusVars
<1>3. ASSUME UNCHANGED taskVars PROVE OneMove
  BY <1>3, <1>h DEF taskVars, statusVars
<1>4. ASSUME NEW t \in Tasks, \A u \in Tasks \ {t} : SameFlags(u),
             SameFlags(t) \/ MoveOf(t)
      PROVE  OneMove
  BY <1>2, <1>4 DEF OneMove, OnlyMove, Kept, SamePlaces
<1>5. ASSUME NEW t \in Tasks, TaskNew(c, t) PROVE OneMove
  <2>1. Creating(t) /\ \A u \in Tasks \ {t} : SameFlags(u)
    BY <1>5 DEF TaskNew, Blank, Creating, SameFlags
  <2> QED BY <1>4, <2>1 DEF MoveOf
<1>6. ASSUME NEW t \in Tasks, Delete(t), t \in alloc \ is_detached PROVE OneMove
  <2>1. CASE t \in in_pool
    BY <1>3, <1>6, <2>1 DEF Delete
  <2>2. CASE t \notin in_pool
    <3>1. Freeing(t) /\ \A u \in Tasks \ {t} : SameFlags(u)
      BY <1>6, <2>2 DEF Delete, Blank, Freeing, SameFlags
    <3> QED BY <1>4, <3>1 DEF MoveOf
  <2> QED BY <2>1, <2>2
<1>7. ASSUME NEW t \in Tasks, TaskDelete(c, t) PROVE OneMove
  BY <1>6, <1>7 DEF TaskDelete, MayCall, Accessible
<1>8. ASSUME NEW t \in Tasks, NotPushed(c, t) \/ DetachCall(c, t) PROVE OneMove
  BY <1>3, <1>8 DEF NotPushed, DetachCall
<1>9. ASSUME NEW t \in Tasks, NEW pc, JoinCall(c, t, pc) PROVE OneMove
  BY <1>3, <1>9 DEF JoinCall
<1>10. ASSUME cpc[c] \in JoinPc, ctask[c] \in is_finished, Collect(c) PROVE OneMove
  <2>t. PICK t \in Tasks : t = ctask[c]
    BY <1>10 DEF TypeInv, HasTask
  <2>1. t \in alloc \ is_detached
    BY <2>t DEF Custody, ClientCustody
  <2>2. in_pool' = in_pool \ {t} /\ UNCHANGED <<alloc, is_detached, is_finished>>
    BY <1>10, <2>t DEF Collect
  <2>3. (t \in in_pool => Collecting(t)) /\ (t \notin in_pool => SameFlags(t))
    BY <1>10, <2>t, <2>1, <2>2 DEF Collecting, SameFlags
  <2>4. \A u \in Tasks \ {t} : SameFlags(u)
    BY <2>2 DEF SameFlags
  <2> QED BY <1>4, <2>3, <2>4 DEF MoveOf
<1>11. CASE JoinLock(c) \/ TimedLock(c) \/ ZeroLock(c)
  <2>1. cpc[c] \in JoinPc
    BY <1>11 DEF JoinLock, TimedLock, ZeroLock, CollectOrWait, JoinPc, JoinEntry
  <2>2. (ctask[c] \in is_finished /\ Collect(c)) \/ UNCHANGED taskVars
    BY <1>11 DEF JoinLock, TimedLock, ZeroLock, CollectOrWait
  <2> QED BY <1>3, <1>10, <2>1, <2>2
<1>16. CASE HugeLock(c)
  <2>1. cpc[c] \in JoinPc
    BY <1>16 DEF HugeLock, JoinPc, JoinEntry
  <2>2. (ctask[c] \in is_finished /\ Collect(c)) \/ UNCHANGED statusVars
    BY <1>16 DEF HugeLock, statusVars
  <2> QED BY <1>h, <1>10, <2>1, <2>2
<1>12. CASE Timeout(c) \/ TimedExpired(c)
  BY <1>3, <1>12 DEF Timeout, TimedExpired
<1>13. CASE DetachLock(c)
  <2>t. PICK t \in Tasks : t = ctask[c]
    BY <1>13 DEF DetachLock, TypeInv, HasTask, DetachPc
  <2>1. t \in in_pool /\ t \in alloc \ is_detached
    BY <1>13, <2>t DEF DetachLock, Custody, ClientCustody
  <2>2. /\ in_pool' = in_pool \ {t} /\ UNCHANGED <<alloc, is_finished>>
        /\ is_detached' = IF t \in is_finished THEN is_detached ELSE is_detached \cup {t}
    BY <1>13, <2>t DEF DetachLock, OutOfPool
  <2>3. \A u \in Tasks \ {t} : SameFlags(u)
    BY <2>2 DEF SameFlags
  <2>4. SamePlace(t)
    BY <1>2 DEF SamePlaces
  <2>5. (t \in is_finished => Collecting(t)) /\ (t \notin is_finished => Detaching(t))
    BY <2>1, <2>2, <2>4 DEF Collecting, Detaching
  <2> QED BY <1>4, <2>3, <2>5 DEF MoveOf
<1>14. CASE DetachDelete(c)
  <2>t. PICK t \in Tasks : t = ctask[c]
    BY <1>14 DEF DetachDelete, TypeInv, HasTask, DetachPc
  <2>1. t \in alloc \ is_detached /\ Delete(t)
    BY <1>14, <2>t DEF DetachDelete, Custody, ClientCustody
  <2> QED BY <1>6, <2>1
<1> QED BY <1>5, <1>7, <1>8, <1>9, <1>11, <1>12, <1>13, <1>14, <1>16 DEF TaskCall

(* Every step moves one task at most, and in one of eight ways. *)
LEMMA StepMoves ==
    ASSUME TasksInv, HandsEmpty', Moves
    PROVE  OneMove
<1> USE DEF TasksInv, CountInv
<1>1. CASE Spurious
  <2>1. SameHands
    BY <1>1, SpuriousFrame DEF SameHands, InHandPc
  <2>2. UNCHANGED statusVars /\ UNCHANGED pending_task_list /\ UNCHANGED wtask
    BY <1>1, SpuriousFrame DEF taskVars, statusVars, queueVars
  <2> QED BY <2>1, <2>2, PlacesFrame, MoveFrame
<1> QED BY <1>1, MoveWorkers, MovePool, MovePush, MoveTask DEF Moves

LEMMA PlacedStep ==
    ASSUME NoneLost, DetachedOut, OneMove, is_detached' \subseteq Tasks
    PROVE  NoneLost' /\ DetachedOut'
<1>1. \A t \in Tasks : Unfinished(t)' <=> t \in is_detached' \cup (in_pool' \ is_finished')
  BY DEF Unfinished
<1>2. \A t \in Tasks : Unfinished(t) <=> t \in is_detached \cup (in_pool \ is_finished)
  BY DEF Unfinished
<1>3. ASSUME NEW t \in Tasks, Kept(t)
      PROVE  /\ Unfinished(t)' => InList(t)' \/ Taken(t)'
             /\ ~(t \in is_detached' /\ t \in in_pool')
  BY <1>1, <1>2, <1>3 DEF NoneLost, DetachedOut, Kept, SameFlags, SamePlace
<1>4. ASSUME NEW t \in Tasks, MoveOf(t)
      PROVE  /\ Unfinished(t)' => InList(t)' \/ Taken(t)'
             /\ ~(t \in is_detached' /\ t \in in_pool')
  <2>1. CASE Taking(t)
    BY <2>1 DEF Taking, SameFlags, DetachedOut
  <2>2. CASE Detaching(t)
    BY <1>1, <1>2, <2>2 DEF Detaching, SamePlace, NoneLost
  <2>3. CASE Queueing(t)
    BY <2>3 DEF Queueing
  <2>4. CASE Dropping(t) \/ Publishing(t) \/ Creating(t) \/ Freeing(t) \/ Collecting(t)
    BY <1>1, <2>4 DEF Dropping, Publishing, Creating, Freeing, Collecting
  <2> QED BY <1>4, <2>1, <2>2, <2>3, <2>4 DEF MoveOf
<1>5. \A t \in Tasks : Kept(t) \/ MoveOf(t)
  BY DEF OneMove, OnlyMove
<1>6. NoneLost'
  BY <1>3, <1>4, <1>5 DEF NoneLost
<1>7. DetachedOut'
  BY <1>3, <1>4, <1>5 DEF DetachedOut
<1> QED BY <1>6, <1>7

LEMMA TasksInit ==
    Init => TasksInv
<1> SUFFICES ASSUME Init PROVE TasksInv
  OBVIOUS
<1>1. NoneLost /\ DetachedOut
  BY DEF Init, NoneLost, Unfinished, DetachedOut
<1> QED BY <1>1, CountInit, CustodyInit DEF TasksInv, CustodyInv

LEMMA TasksStep ==
    TasksInv /\ [Next]_vars => TasksInv' /\ OneMove
<1> SUFFICES ASSUME TasksInv, [Next]_vars PROVE TasksInv' /\ OneMove
  OBVIOUS
<1>1. CountInv' /\ Custody'
  BY CountStep, CustodyStep DEF TasksInv, CountInv, CustodyInv
<1>2. OneMove
  <2>1. CASE Moves
    BY <1>1, <2>1, StepMoves DEF CountInv
  <2>2. CASE UNCHANGED vars
    <3>1. UNCHANGED statusVars /\ UNCHANGED pending_task_list /\ UNCHANGED wtask /\ SameHands
      BY <2>2 DEF vars, taskVars, queueVars, workerVars, statusVars, SameHands
    <3> QED BY <3>1, PlacesFrame, MoveFrame
  <2> QED BY <2>1, <2>2, NextSteps
<1>3. is_detached' \subseteq Tasks
  BY <1>1 DEF CountInv, TypeInv, TypeOK
<1>4. NoneLost' /\ DetachedOut'
  BY <1>2, <1>3, PlacedStep DEF TasksInv
<1> QED BY <1>1, <1>2, <1>4 DEF TasksInv

LEMMA OnePlace ==
    ASSUME TasksInv
    PROVE  TaskPlacement
<1> USE DEF TasksInv, Custody
<1> SUFFICES ASSUME NEW t \in Tasks
             PROVE  Cardinality(Places(t)) = IF Unfinished(t) THEN 1 ELSE 0
  BY DEF TaskPlacement
<1>1. CASE ~Unfinished(t)
  <2>1. Listed(t) = {} /\ InHand(t) = {}
    BY <1>1, Free DEF Listed, InHand, At
  <2>2. Places(t) = {}
    BY <2>1 DEF Places
  <2> QED BY <1>1, <2>2, FS_EmptySet
<1>2. CASE Unfinished(t)
  <2>1. ASSUME NEW i \in DOMAIN pending_task_list, pending_task_list[i] = t
        PROVE  \E x : Places(t) = {x}
    <3>1. Listed(t) = {i} /\ InHand(t) = {}
      BY <2>1 DEF Listed, InHand, At, ListCustody, HandCustody
    <3>2. Places(t) = {<<"list", i>>}
      BY <3>1 DEF Places
    <3> QED BY <3>2
  <2>2. ASSUME NEW w \in Workers, wpc[w] \in InHandPc, wtask[w] = t
        PROVE  \E x : Places(t) = {x}
    <3>1. Listed(t) = {} /\ InHand(t) = {w}
      BY <2>2 DEF Listed, InHand, At, HandCustody
    <3>2. Places(t) = {<<"hand", w>>}
      BY <3>1 DEF Places
    <3> QED BY <3>2
  <2>3. PICK x : Places(t) = {x}
    BY <1>2, <2>1, <2>2 DEF NoneLost, InList, Taken
  <2> QED BY <1>2, <2>3, FS_Singleton
<1> QED BY <1>1, <1>2

(* No push is lost and none is run twice (lines 78-87 and 258-262): a task   *)
(* is in the list or in one worker's hands exactly as long as it is pushed   *)
(* and unfinished.                                                           *)
THEOREM PushedOnce == Spec => []TaskPlacement
<1>1. Spec => []TasksInv
  BY TasksInit, TasksStep, PTL DEF Spec
<1>2. TasksInv => TaskPlacement
  BY OnePlace
<1> QED BY <1>1, <1>2, PTL

-----------------------------------------------------------------------------
(* The pool implements the life of a task that thread_pool.h promises. *)

LEMMA TakenInHand ==
    ASSUME NEW t
    PROVE  (InHand(t) # {} <=> Taken(t)) /\ (InHand(t)' # {} <=> Taken(t)')
BY DEF InHand, At, Taken

LEMMA StatusCases ==
    ASSUME NEW t
    PROVE  /\ StatusOf(t) =
                IF t \notin alloc THEN "free"
                ELSE IF t \in is_detached
                     THEN IF Taken(t) THEN "detached_running" ELSE "detached_queued"
                ELSE IF t \notin in_pool THEN "new"
                ELSE IF t \in is_finished THEN "done"
                ELSE IF Taken(t) THEN "running" ELSE "queued"
           /\ StatusOf(t)' =
                IF t \notin alloc' THEN "free"
                ELSE IF t \in is_detached'
                     THEN IF Taken(t)' THEN "detached_running" ELSE "detached_queued"
                ELSE IF t \notin in_pool' THEN "new"
                ELSE IF t \in is_finished' THEN "done"
                ELSE IF Taken(t)' THEN "running" ELSE "queued"
BY TakenInHand DEF StatusOf

LEMMA StatusKept ==
    ASSUME NEW t \in Tasks, Kept(t)
    PROVE  StatusOf(t)' = StatusOf(t)
BY StatusCases DEF Kept, SameFlags, SamePlace

(* Each of the eight moves is one of thread_pool.h. *)
LEMMA MoveAllowed ==
    ASSUME NEW t \in Tasks, MoveOf(t), DetachedOut
    PROVE  /\ StatusOf(t)' \in Lifecycle!Status
           /\ <<StatusOf(t), StatusOf(t)'>> \in Lifecycle!Move
<1> USE DEF Lifecycle!Status, Lifecycle!Move
<1>1. CASE Taking(t)
  BY <1>1, StatusCases DEF Taking, SameFlags, Unfinished
<1>2. CASE Dropping(t)
  BY <1>2, StatusCases DEF Dropping
<1>3. CASE Publishing(t)
  BY <1>3, StatusCases DEF Publishing
<1>4. CASE Queueing(t)
  BY <1>4, StatusCases DEF Queueing
<1>5. CASE Creating(t)
  BY <1>5, StatusCases DEF Creating
<1>6. CASE Freeing(t)
  BY <1>6, StatusCases DEF Freeing
<1>7. CASE Collecting(t)
  BY <1>7, StatusCases DEF Collecting
<1>8. CASE Detaching(t)
  BY <1>8, StatusCases DEF Detaching, SamePlace
<1> QED BY <1>1, <1>2, <1>3, <1>4, <1>5, <1>6, <1>7, <1>8 DEF MoveOf

LEMMA LifecycleInit ==
    Init => Lifecycle!Init
<1> SUFFICES ASSUME Init PROVE Lifecycle!Init
  OBVIOUS
<1>1. \A t \in Tasks : StatusOf(t) = "free"
  BY StatusCases DEF Init
<1> QED BY <1>1 DEF Lifecycle!Init

LEMMA LifecycleStep ==
    TasksInv /\ OneMove => [Lifecycle!Next]_[t \in Tasks |-> StatusOf(t)]
<1> DEFINE status == [t \in Tasks |-> StatusOf(t)]
<1> SUFFICES ASSUME TasksInv, OneMove, status' # status PROVE Lifecycle!Next
  OBVIOUS
<1>1. PICK t \in Tasks : OnlyMove(t)
  <2>1. CASE \A t \in Tasks : Kept(t)
    BY <2>1, StatusKept
  <2> QED BY <2>1 DEF OneMove
<1>2. \A u \in Tasks \ {t} : StatusOf(u)' = StatusOf(u)
  BY <1>1, StatusKept DEF OnlyMove
<1>3. MoveOf(t)
  <2>1. CASE Kept(t)
    BY <1>2, <2>1, StatusKept
  <2> QED BY <1>1, <2>1 DEF OnlyMove
<1>4. /\ StatusOf(t)' \in Lifecycle!Status
      /\ <<status[t], StatusOf(t)'>> \in Lifecycle!Move
  BY <1>3, MoveAllowed DEF TasksInv
<1>5. status' = [status EXCEPT ![t] = StatusOf(t)']
  BY <1>2
<1>6. Lifecycle!Step(t)
  BY <1>4, <1>5 DEF Lifecycle!Step
<1> QED BY <1>6 DEF Lifecycle!Next

(* thread_pool.c implements the life of a task that thread_pool.h promises:  *)
(* each step of a worker or of a client is one legal move of one task, or    *)
(* none.                                                                     *)
THEOREM LifecycleRefined == Spec => ImplementsLifecycle
<1>1. Init => Lifecycle!Init
  BY LifecycleInit
<1>2. TasksInv /\ [Next]_vars => [Lifecycle!Next]_[t \in Tasks |-> StatusOf(t)]
  BY TasksStep, LifecycleStep
<1>3. Spec => []TasksInv
  BY TasksInit, TasksStep, PTL DEF Spec
<1> QED BY <1>1, <1>2, <1>3, PTL DEF Spec, ImplementsLifecycle, Lifecycle!Spec

-----------------------------------------------------------------------------
(* Results.  A worker that has run a task holds the result of its last push, *)
(* as long as it has not published it; the flag is_running is up while the   *)
(* task is in its hands.                                                     *)

Ran(t) == \E w \in Workers : wpc[w] \in {"run", "lock_task"} /\ wtask[w] = t

Results ==
    /\ \A w \in Workers : wpc[w] = "lock_task" => wresult[w] = gen[wtask[w]]
    /\ \A t \in in_pool \cap is_finished : result[t] = gen[t]
    /\ \A t \in Tasks : t \in is_running <=> Ran(t)

SameRuns ==
    \A w \in Workers :
      /\ wpc'[w] = "run" <=> wpc[w] = "run"
      /\ wpc'[w] = "lock_task" <=> wpc[w] = "lock_task"
      /\ wpc[w] \in {"run", "lock_task"} => wtask'[w] = wtask[w] /\ wresult'[w] = wresult[w]

(* A step that changes the results of a task that no worker has, which is    *)
(* neither running nor finished afterwards, or of no task at all.            *)
LEMMA ResultsFrame ==
    ASSUME TypeInv, Results, SameRuns, NEW T \in SUBSET Tasks,
           \A t \in T : /\ t \notin is_running' /\ t \notin in_pool' \cap is_finished'
                        /\ \A w \in Workers : wpc[w] \in InHandPc => wtask[w] # t,
           \A u \in Tasks \ T : /\ u \in is_running' <=> u \in is_running
                                /\ result'[u] = result[u] /\ gen'[u] = gen[u]
                                /\ u \in in_pool' \cap is_finished'
                                     => u \in in_pool \cap is_finished,
           in_pool' \subseteq Tasks
    PROVE  Results'
<1>1. \A w \in Workers : wpc[w] \in {"run", "lock_task"} => wtask[w] \in Tasks \ T
  BY DEF TypeInv, HasTask, InHandPc
<1>2. \A t \in Tasks : Ran(t)' <=> Ran(t)
  BY DEF Ran, SameRuns
<1>3. \A t \in T : ~Ran(t)
  BY DEF Ran, InHandPc
<1>4. \A w \in Workers : wpc'[w] = "lock_task" => wresult'[w] = gen'[wtask'[w]]
  BY <1>1 DEF Results, SameRuns
<1>5. \A t \in in_pool' \cap is_finished' : result'[t] = gen'[t]
  BY DEF Results
<1>6. \A t \in Tasks : t \in is_running' <=> Ran(t)'
  BY <1>2, <1>3 DEF Results
<1> QED BY <1>4, <1>5, <1>6 DEF Results

LEMMA ResultsSame ==
    ASSUME TypeInv, Results, SameRuns, in_pool' \cap is_finished' \subseteq in_pool \cap is_finished,
           UNCHANGED <<is_running, result, gen>>, in_pool' \subseteq Tasks
    PROVE  Results'
<1>1. {} \in SUBSET Tasks
  OBVIOUS
<1>2. \A u \in Tasks \ {} : /\ u \in is_running' <=> u \in is_running
                            /\ result'[u] = result[u] /\ gen'[u] = gen[u]
                            /\ u \in in_pool' \cap is_finished'
                                 => u \in in_pool \cap is_finished
  OBVIOUS
<1> QED BY <1>1, <1>2, ResultsFrame

LEMMA ResultsWorkers ==
    ASSUME TypeInv, TypeInv', Custody, DetachedOut, Results, NEW w \in Workers, WorkerStep(w)
    PROVE  Results'
<1> USE DEF taskVars
<1>0. in_pool' \subseteq Tasks /\ in_pool \subseteq Tasks
  BY DEF TypeInv, TypeOK
<1>1. CASE WorkerStart(w) \/ WorkerWait(w) \/ WorkerWake(w) \/ WorkerExit(w)
           \/ WorkerTake(w) \/ WorkerUnlock(w)
  <2>1. UNCHANGED <<in_pool, is_finished, is_running, result, gen>>
    BY <1>1 DEF WorkerStart, WorkerWait, WorkerWake, WorkerExit, WorkerTake, WorkerUnlock
  <2>2. /\ wpc[w] \in {"create", "check", "wake", "unlock_task"}
        /\ \E pc \in {"check", "wait", "exited", "start_task"} : wpc' = [wpc EXCEPT ![w] = pc]
        /\ \A v \in Workers \ {w} : wtask'[v] = wtask[v] /\ wresult'[v] = wresult[v]
    BY <1>1 DEF WorkerStart, WorkerWait, WorkerWake, WorkerExit, WorkerTake, WorkerUnlock,
         WorkerAt, TypeInv, TypeOK
  <2>3. SameRuns
    BY <2>2 DEF SameRuns, TypeInv, TypeOK
  <2> QED BY <1>0, <2>1, <2>3, ResultsSame
<1>2. CASE WorkerRun(w)
  <2>1. /\ wpc[w] = "start_task" /\ wpc' = [wpc EXCEPT ![w] = "run"]
        /\ is_running' = is_running \cup {wtask[w]}
        /\ UNCHANGED <<in_pool, is_finished, result, gen, wtask, wresult>>
    BY <1>2 DEF WorkerRun, WorkerAt
  <2>2. \A t \in Tasks : Ran(t)' <=> Ran(t) \/ t = wtask[w]
    BY <2>1 DEF Ran, TypeInv, TypeOK
  <2>3. \A v \in Workers : wpc'[v] = "lock_task" => wpc[v] = "lock_task"
    BY <2>1 DEF TypeInv, TypeOK
  <2> QED BY <2>1, <2>2, <2>3 DEF Results
<1>3. CASE WorkerReturn(w)
  <2>1. /\ wpc[w] = "run" /\ wpc' = [wpc EXCEPT ![w] = "lock_task"]
        /\ wresult' = [wresult EXCEPT ![w] = gen[wtask[w]]]
        /\ UNCHANGED <<in_pool, is_finished, is_running, result, gen, wtask>>
    BY <1>3 DEF WorkerReturn, WorkerAt
  <2>2. \A t \in Tasks : Ran(t)' <=> Ran(t)
    BY <2>1 DEF Ran, TypeInv, TypeOK
  <2>3. \A v \in Workers : wpc'[v] = "lock_task" =>
          \/ v = w /\ wresult'[v] = gen[wtask[v]]
          \/ wpc[v] = "lock_task" /\ wresult'[v] = wresult[v]
    BY <2>1 DEF TypeInv, TypeOK
  <2> QED BY <2>1, <2>2, <2>3 DEF Results
<1>4. CASE WorkerFinish(w)
  <2>1. /\ wpc[w] = "lock_task" /\ wpc' = [wpc EXCEPT ![w] = "unlock_task"]
        /\ UNCHANGED <<wtask, wresult>>
    BY <1>4 DEF WorkerFinish, WorkerAt
  <2>t. PICK t \in Tasks : t = wtask[w]
    BY <2>1 DEF TypeInv, HasTask, InHandPc
  <2>2. /\ \A v \in Workers \ {w} : wpc[v] \in InHandPc => wtask[v] # t
        /\ wresult[w] = gen[t]
    BY <2>t, <2>1 DEF Custody, HandCustody, Results, InHandPc
  <2>3. /\ t \notin is_running'
        /\ t \in in_pool' \cap is_finished' => result'[t] = gen'[t]
        /\ \A u \in Tasks \ {t} : /\ u \in is_running' <=> u \in is_running
                                  /\ result'[u] = result[u] /\ gen'[u] = gen[u]
                                  /\ u \in in_pool' <=> u \in in_pool
                                  /\ u \in is_finished' <=> u \in is_finished
    <3>1. CASE t \in is_detached
      <4>1. Blank(t)
        BY <1>4, <2>t, <3>1 DEF WorkerFinish, Delete, DetachedOut
      <4> QED BY <4>1 DEF Blank, TypeInv, TypeOK
    <3>2. CASE Publish(t, wresult[w])
      BY <2>2, <3>2 DEF Publish, TypeInv, TypeOK
    <3> QED BY <1>4, <2>t, <3>1, <3>2 DEF WorkerFinish
  <2>4. \A v \in Workers : /\ wpc'[v] \in {"run", "lock_task"}
                               <=> v # w /\ wpc[v] \in {"run", "lock_task"}
                           /\ wpc'[v] = "lock_task" => wpc[v] = "lock_task"
    BY <2>1 DEF TypeInv, TypeOK
  <2>5. /\ ~Ran(t)' /\ \A u \in Tasks \ {t} : Ran(u)' <=> Ran(u)
    BY <2>t, <2>1, <2>2, <2>4 DEF Ran, InHandPc
  <2>6. \A v \in Workers : wpc'[v] = "lock_task" => wresult'[v] = gen'[wtask'[v]]
    <3>1. \A v \in Workers : wpc'[v] = "lock_task" =>
            wpc[v] = "lock_task" /\ wtask[v] \in Tasks \ {t}
      BY <2>2, <2>4 DEF TypeInv, HasTask, InHandPc
    <3> QED BY <2>1, <2>3, <3>1 DEF Results
  <2>7. \A u \in in_pool' \cap is_finished' : result'[u] = gen'[u]
    BY <1>0, <2>3 DEF Results
  <2>8. \A u \in Tasks : u \in is_running' <=> Ran(u)'
    BY <2>3, <2>5 DEF Results
  <2> QED BY <2>6, <2>7, <2>8 DEF Results
<1> QED BY <1>1, <1>2, <1>3, <1>4 DEF WorkerStep

LEMMA ResultsPool ==
    ASSUME TypeInv, HandsEmpty, Results, NEW c \in Clients, PoolCall(c)
    PROVE  Results'
<1>1. UNCHANGED <<taskVars, wtask, wresult>>
  BY DEF PoolCall, PoolNew, PoolNewRefused, PoolDelete, PoolDeleteRefused,
         PoolDeleteJoin, PoolDeleteLock, workerVars
<1>2. SameRuns
  <2>1. CASE ~live /\ \A w \in Workers : wpc'[w] = "none"
    BY <2>1 DEF HandsEmpty, At, InHandPc, SameRuns
  <2>2. CASE WorkersWoken
    BY <1>1, <2>2 DEF WorkersWoken, SameRuns
  <2>3. CASE UNCHANGED wpc
    BY <1>1, <2>3 DEF SameRuns
  <2> QED BY <2>1, <2>2, <2>3, PoolCallFrame DEF workerVars
<1> QED BY <1>1, <1>2, ResultsSame DEF taskVars, TypeInv, TypeOK

(* What the calls do to a task that is in no worker's hands. *)
LEMMA ResultsFree ==
    ASSUME TypeInv, TypeInv', Custody, Results, SameRuns, NEW t \in Tasks,
           ~Unfinished(t) \/ t \notin alloc,
           t \notin is_running', t \notin in_pool' \cap is_finished',
           \A u \in Tasks \ {t} : /\ u \in is_running' <=> u \in is_running
                                  /\ result'[u] = result[u] /\ gen'[u] = gen[u]
                                  /\ u \in in_pool' <=> u \in in_pool
                                  /\ u \in is_finished' <=> u \in is_finished
    PROVE  Results'
<1>1. \A w \in Workers : wpc[w] \in InHandPc => wtask[w] # t
  BY DEF Custody, HandCustody
<1>2. {t} \in SUBSET Tasks /\ in_pool' \subseteq Tasks
  BY DEF TypeInv, TypeOK
<1> QED BY <1>1, <1>2, ResultsFrame

LEMMA BlankResult ==
    ASSUME TypeInv, NEW t \in Tasks, Blank(t)
    PROVE  /\ t \notin is_running' /\ t \notin in_pool' \cap is_finished'
           /\ \A u \in Tasks \ {t} : /\ u \in is_running' <=> u \in is_running
                                     /\ result'[u] = result[u] /\ gen'[u] = gen[u]
                                     /\ u \in in_pool' <=> u \in in_pool
                                     /\ u \in is_finished' <=> u \in is_finished
BY DEF Blank, TypeInv, TypeOK

LEMMA ResultsPush ==
    ASSUME TypeInv, TypeInv', PoolPhases, Custody, Results, NEW c \in Clients, PushCall(c)
    PROVE  Results'
<1>1. CASE UNCHANGED <<taskVars, wtask, wresult>>
           /\ \A w \in Workers : wpc'[w] = wpc[w] \/ (wpc[w] = "none" /\ wpc'[w] = "create")
  <2>1. SameRuns
    BY <1>1 DEF SameRuns
  <2> QED BY <1>1, <2>1, ResultsSame DEF taskVars, TypeInv, TypeOK
<1>2. CASE PushEnqueue(c)
  <2>t. PICK t \in Tasks : t = ctask[c]
    BY <1>2 DEF PushEnqueue, TypeInv, HasTask, PushPc
  <2>1. ~Unfinished(t)
    BY <1>2, <2>t DEF PushEnqueue, Custody, ClientCustody, Unfinished, PushPc
  <2>2. /\ in_pool' = in_pool \cup {t} /\ is_finished' = is_finished \ {t}
        /\ is_running' = is_running \ {t} /\ UNCHANGED <<result, wtask, wresult>>
        /\ \A u \in Tasks \ {t} : gen'[u] = gen[u]
    BY <1>2, <2>t DEF PushEnqueue, NoLongerFinished, TypeInv, TypeOK
  <2>3. SameRuns
    BY <1>2, <2>2, PushEnqueueFrame DEF SameRuns
  <2> QED BY <2>1, <2>2, <2>3, ResultsFree
<1>3. CASE ~PushEnqueue(c)
  <2>1. UNCHANGED <<taskVars, wtask, wresult>>
    BY <1>3 DEF PushCall, PushBegin, PushTooMany, PushWait, PushWake, workerVars
  <2>2. \A w \in Workers : wpc'[w] = wpc[w] \/ (wpc[w] = "none" /\ wpc'[w] = "create")
    <3>1. ASSUME NEW t \in Tasks, PushBegin(c, t)
          PROVE  \A w \in Workers : wpc'[w] = wpc[w] \/ (wpc[w] = "none" /\ wpc'[w] = "create")
      BY <3>1, PushBeginFrame
    <3>2. (\E t \in Tasks : PushTooMany(c, t)) \/ PushWait(c) \/ PushWake(c) => UNCHANGED wpc
      BY DEF PushTooMany, PushWait, PushWake, workerVars
    <3> QED BY <1>3, <3>1, <3>2 DEF PushCall
  <2> QED BY <1>1, <2>1, <2>2
<1> QED BY <1>2, <1>3

LEMMA ResultsTask ==
    ASSUME TypeInv, TypeInv', Custody, Results, NEW c \in Clients, TaskCall(c)
    PROVE  Results'
<1>1. SameRuns
  BY TaskCallFrame DEF SameRuns, workerVars
<1>2. ASSUME UNCHANGED <<is_finished, is_running, result, gen>>, in_pool' \subseteq in_pool
      PROVE  Results'
  BY <1>1, <1>2, ResultsSame DEF TypeInv, TypeOK
<1>3. ASSUME UNCHANGED taskVars PROVE Results'
  BY <1>2, <1>3 DEF taskVars
<1>4. ASSUME NEW t \in Tasks, Blank(t), ~Unfinished(t) \/ t \notin alloc PROVE Results'
  BY <1>1, <1>4, BlankResult, ResultsFree
<1>5. ASSUME NEW t \in Tasks, t \in alloc \ is_detached, Delete(t) PROVE Results'
  <2>1. CASE t \notin in_pool
    BY <1>4, <1>5, <2>1 DEF Delete, Unfinished
  <2> QED BY <1>3, <1>5, <2>1 DEF Delete
<1>6. ASSUME NEW t \in Tasks, TaskNew(c, t) PROVE Results'
  BY <1>4, <1>6 DEF TaskNew
<1>7. ASSUME NEW t \in Tasks, TaskDelete(c, t) PROVE Results'
  BY <1>5, <1>7 DEF TaskDelete, MayCall, Accessible
<1>8. ASSUME NEW t \in Tasks, NotPushed(c, t) \/ DetachCall(c, t) PROVE Results'
  BY <1>3, <1>8 DEF NotPushed, DetachCall
<1>9. ASSUME NEW t \in Tasks, NEW pc, JoinCall(c, t, pc) PROVE Results'
  BY <1>3, <1>9 DEF JoinCall
<1>10. CASE JoinLock(c) \/ TimedLock(c) \/ ZeroLock(c)
  <2>1. Collect(c) \/ UNCHANGED taskVars
    BY <1>10 DEF JoinLock, TimedLock, ZeroLock, CollectOrWait
  <2> QED BY <1>2, <1>3, <2>1 DEF Collect
<1>15. CASE HugeLock(c)
  BY <1>2, <1>15 DEF HugeLock, Collect
<1>11. CASE Timeout(c) \/ TimedExpired(c)
  BY <1>3, <1>11 DEF Timeout, TimedExpired
<1>12. CASE DetachLock(c)
  BY <1>2, <1>12 DEF DetachLock, OutOfPool
<1>13. CASE DetachDelete(c)
  <2>t. PICK t \in Tasks : t = ctask[c]
    BY <1>13 DEF DetachDelete, TypeInv, HasTask, DetachPc
  <2>1. t \in alloc \ is_detached /\ Delete(t)
    BY <1>13, <2>t DEF DetachDelete, Custody, ClientCustody
  <2> QED BY <1>5, <2>1
<1> QED BY <1>6, <1>7, <1>8, <1>9, <1>10, <1>11, <1>12, <1>13, <1>15 DEF TaskCall

ResultsInv == TasksInv /\ Results

LEMMA ResultsInit ==
    Init => Results
BY DEF Init, Results, Ran

LEMMA ResultsStep ==
    ResultsInv /\ [Next]_vars => ResultsInv'
<1> SUFFICES ASSUME ResultsInv, [Next]_vars PROVE ResultsInv'
  OBVIOUS
<1> USE DEF ResultsInv, TasksInv, CountInv
<1>1. TasksInv'
  BY TasksStep
<1>2. CASE UNCHANGED vars \/ Spurious
  <2>1. UNCHANGED <<taskVars, wtask, wresult>> /\ SameRuns
    BY <1>2, SpuriousFrame DEF vars, workerVars, SameRuns
  <2> QED BY <1>1, <2>1, ResultsSame DEF taskVars, TypeInv, TypeOK
<1>3. CASE Moves
  <2>1. TypeInv' /\ HandsEmpty'
    BY <1>1
  <2> QED BY <1>1, <1>2, <1>3, <2>1, ResultsWorkers, ResultsPool, ResultsPush, ResultsTask DEF Moves
<1> QED BY <1>2, <1>3, NextSteps

(* A join returns the result of the last push of the task (lines 101-103 and *)
(* 312-316), and thread_task_is_running is true exactly while a worker is in *)
(* the task's function or publishes its result (lines 89 and 101).           *)
THEOREM ResultsExact == Spec => []ResultIsThisRun
<1>1. Init => ResultsInv
  BY TasksInit, ResultsInit DEF ResultsInv
<1>2. Spec => []ResultsInv
  BY <1>1, ResultsStep, PTL DEF Spec
<1>3. ResultsInv => ResultIsThisRun
  BY DEF ResultsInv, Results, ResultIsThisRun, Ran, InHand, At, InHandPc
<1> QED BY <1>2, <1>3, PTL
=============================================================================
