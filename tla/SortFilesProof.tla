--------------------------- MODULE SortFilesProof ---------------------------
(***************************************************************************)
(* Proofs about SortFiles, for every number of coroutines and files and    *)
(* any contents: control goes to coroutines that are alive, turns are      *)
(* fair, every file is sorted in its slot, and the merge is the sorted     *)
(* union.                                                                  *)
(***************************************************************************)
EXTENDS SortFilesProps, FunctionTheorems, FiniteSetTheorems, SequenceTheorems, TLAPS

-----------------------------------------------------------------------------
(* The list of coroutines *)

(* Who is in the list: nobody twice, and just the coroutines that are        *)
(* allocated; one that was created and is gone has finished.                 *)
Linked ==
    /\ coro_list \in Seq(Coros) /\ Len(coro_list) \in Nat
    /\ \A i, k \in 1 .. Len(coro_list) : coro_list[i] = coro_list[k] => i = k
    /\ \A c \in Coros : c \in allocated <=> \E i \in 1 .. Len(coro_list) : coro_list[i] = c
    /\ allocated \subseteq Coros
    /\ \A c \in allocated : c < created
    /\ \A c \in Coros : c < created /\ c \notin allocated => is_finished[c]

(* Who has the control, by what main does.                                   *)
Phases ==
    /\ main = "start" <=> coro_this_ptr = Null
    /\ main = "start" => created = 0
    /\ main \in {"start", "create"} =>
        /\ cur_unsorted = 0
        /\ \A c \in Coros : ~is_finished[c] /\ switch_count[c] = 0
    /\ main # "wait" => coro_this_ptr \notin Coros
    /\ main \in {"merge", "done", "underflow"} => coro_list = <<>>
    /\ created <= Lesser(coroutines_num, FileCount)
    /\ main \notin {"start", "create"} => created = Lesser(coroutines_num, FileCount)

(* Whoever has the control can take it, and the scheduler finds at most one  *)
(* finished coroutine.                                                       *)
Alive ==
    /\ coro_this_ptr \in Coros =>
        /\ coro_this_ptr \in allocated /\ is_sched_waiting
        /\ \A c \in allocated : ~is_finished[c]
    /\ \A c, d \in allocated : is_finished[c] /\ is_finished[d] => c = d
    /\ exited => \E i \in FileSet : content[i] = Missing

(* TypeOK, without what Linked says better.                                  *)
Types ==
    /\ coro_this_ptr \in Coros \cup {Sched, Null}
    /\ is_sched_waiting \in BOOLEAN /\ exited \in BOOLEAN
    /\ is_finished \in [Coros -> BOOLEAN]
    /\ switch_count \in [Coros \cup {Sched} -> Nat]
    /\ cur_unsorted \in 0 .. FileCount /\ created \in Nat
    /\ slot \in [Coros -> FileSet \cup {Null}]
    /\ main \in {"start", "create", "wait", "merge", "done", "underflow"}
    /\ indices \in [FileSet -> Nat]
    /\ content \in [FileSet -> Contents]

(* How many more turns than the k-th the i-th coroutine of the list had, how *)
(* many have finished, and whether the turn in progress is past the i-th but *)
(* not past the k-th.                                                        *)
Ahead(i, k) == switch_count[coro_list[i]] - switch_count[coro_list[k]]
Gone == Cardinality({c \in 0 .. created - 1 : is_finished[c]})
Between(i, k) == \E p \in 1 .. Len(coro_list) : coro_list[p] = coro_this_ptr /\ i < p /\ p <= k

(* TurnsFair, with the turn in progress told apart.                          *)
Turns ==
    main = "wait" =>
        \A i, k \in 1 .. Len(coro_list) : i < k =>
            IF Between(i, k) THEN Ahead(i, k) >= 1 /\ Ahead(i, k) <= 1 + Gone
                             ELSE Ahead(i, k) >= 0 /\ Ahead(i, k) <= Gone

Control == Types /\ Linked /\ Phases /\ Alive /\ Turns

(* What the constants are.                                                   *)
LEMMA Constants ==
  /\ IsFiniteSet(Coros) /\ coroutines_num \in Nat \ {0} /\ Coros = 0 .. coroutines_num - 1
  /\ FileCount \in Nat \ {0} /\ Null \notin Int /\ Null \notin Coros /\ Sched \notin Coros
  /\ Sched # Null /\ Null \notin FileSet /\ Null \notin Contents
  /\ Lesser(coroutines_num, FileCount) \in Nat \ {0}
  /\ Lesser(coroutines_num, FileCount) <= coroutines_num
<1>1. /\ IsFiniteSet(Coros) /\ Coros # {} /\ Coros = 0 .. Cardinality(Coros) - 1
      /\ Null \notin Int \cup Contents /\ FileCount \in Nat \ {0}
  BY SortAssumption
<1>2. Cardinality(Coros) \in Nat /\ Cardinality(Coros) # 0
  BY <1>1, FS_CardinalityType, FS_EmptySet
<1>3. Null \notin Coros /\ Sched \notin Coros /\ Sched # Null
  BY CoroAssumption
<1> QED BY <1>1, <1>2, <1>3 DEF coroutines_num, Lesser, FileSet

(* A sequence without the element at place i.                                *)
LEMMA RemoveAtProperties ==
  ASSUME NEW S, NEW s \in Seq(S), NEW i \in 1 .. Len(s)
  PROVE  /\ RemoveAt(s, i) \in Seq(S) /\ Len(RemoveAt(s, i)) = Len(s) - 1
         /\ \A k \in 1 .. Len(s) - 1 : RemoveAt(s, i)[k] = IF k < i THEN s[k] ELSE s[k + 1]
<1> DEFINE a == SubSeq(s, 1, i - 1)
           b == SubSeq(s, i + 1, Len(s))
<1>1. Len(s) \in Nat
  BY LenProperties
<1>2. /\ a \in Seq(S) /\ Len(a) = i - 1 /\ \A k \in 1 .. i - 1 : a[k] = s[k]
  BY <1>1, SubSeqProperties
<1>3. /\ b \in Seq(S) /\ Len(b) = Len(s) - i /\ \A k \in 1 .. Len(s) - i : b[k] = s[i + k]
  <2>1. i + 1 \in 1 .. Len(s) + 1
    BY <1>1
  <2>2. \A k \in i + 1 .. Len(s) : s[k] \in S
    BY <1>1, ElementOfSeq
  <2>3. /\ b \in Seq(S) /\ Len(b) = IF i + 1 <= Len(s) THEN Len(s) - (i + 1) + 1 ELSE 0
        /\ \A k \in 1 .. Len(s) - (i + 1) + 1 : b[k] = s[(i + 1) + k - 1]
    BY <2>1, <2>2, <1>1, SubSeqProperties
  <2> QED BY <2>3, <1>1
<1> HIDE DEF a, b
<1>4. /\ a \o b \in Seq(S) /\ Len(a \o b) = Len(a) + Len(b)
      /\ \A k \in 1 .. Len(a) + Len(b) : (a \o b)[k] = IF k <= Len(a) THEN a[k] ELSE b[k - Len(a)]
  BY <1>2, <1>3, ConcatProperties
<1>5. RemoveAt(s, i) = a \o b
  BY DEF RemoveAt, a, b
<1>6. ASSUME NEW k \in 1 .. Len(s) - 1
      PROVE  (a \o b)[k] = IF k < i THEN s[k] ELSE s[k + 1]
  <2>1. CASE k < i
    BY <2>1, <1>1, <1>2, <1>3, <1>4
  <2>2. CASE ~ (k < i)
    <3>1. k - Len(a) = k - i + 1 /\ k - i + 1 \in 1 .. Len(s) - i /\ i + (k - i + 1) = k + 1
      BY <2>2, <1>1, <1>2
    <3>2. (a \o b)[k] = b[k - i + 1]
      BY <2>2, <3>1, <1>1, <1>2, <1>3, <1>4
    <3> QED BY <3>1, <3>2, <2>2, <1>3
  <2> QED BY <2>1, <2>2
<1> QED BY <1>1, <1>2, <1>3, <1>4, <1>5, <1>6

(* A sequence with a new head.                                               *)
LEMMA Prepended ==
  ASSUME NEW S, NEW s \in Seq(S), NEW c \in S
  PROVE  /\ <<c>> \o s \in Seq(S) /\ Len(<<c>> \o s) = Len(s) + 1 /\ (<<c>> \o s)[1] = c
         /\ \A k \in 2 .. Len(s) + 1 : (<<c>> \o s)[k] = s[k - 1]
<1>1. <<c>> \in Seq(S) /\ Len(<<c>>) = 1 /\ <<c>>[1] = c /\ Len(s) \in Nat
  BY LenProperties
<1> QED BY <1>1, ConcatProperties

(* Lines 112-121: control goes to the next in the list, or back to the       *)
(* scheduler.                                                                *)
LEMMA SuccessorIs ==
  ASSUME Linked, NEW p \in 1 .. Len(coro_list)
  PROVE  Successor(coro_list[p]) = IF p < Len(coro_list) THEN coro_list[p + 1] ELSE Sched
<1> DEFINE later == {i \in DOMAIN coro_list : i > 1 /\ coro_list[i - 1] = coro_list[p]}
<1>1. DOMAIN coro_list = 1 .. Len(coro_list) /\ Len(coro_list) \in Nat
  BY LenProperties DEF Linked
<1>2. later = IF p < Len(coro_list) THEN {p + 1} ELSE {}
  <2>1. ASSUME NEW i \in later PROVE i = p + 1 /\ p < Len(coro_list)
    <3>1. i \in 1 .. Len(coro_list) /\ i > 1 /\ coro_list[i - 1] = coro_list[p]
      BY <1>1
    <3>2. i - 1 \in 1 .. Len(coro_list)
      BY <3>1, <1>1
    <3>3. i - 1 = p
      BY <3>1, <3>2 DEF Linked
    <3> QED BY <3>1, <3>3, <1>1
  <2>2. ASSUME p < Len(coro_list) PROVE p + 1 \in later
    <3>1. p + 1 \in 1 .. Len(coro_list) /\ p + 1 > 1 /\ (p + 1) - 1 = p
      BY <2>2, <1>1
    <3> QED BY <3>1, <1>1
  <2> QED BY <2>1, <2>2
<1>3. Successor(coro_list[p]) = IF later = {} THEN Sched ELSE coro_list[CHOOSE i \in later : TRUE]
  BY DEF Successor
<1> HIDE DEF later
<1>4. CASE p < Len(coro_list)
  <2>1. later = {p + 1}
    BY <1>2, <1>4
  <2>2. (CHOOSE i \in later : TRUE) = p + 1
    BY <2>1
  <2> QED BY <1>3, <1>4, <2>1, <2>2
<1>5. CASE ~ (p < Len(coro_list))
  BY <1>2, <1>3, <1>5
<1> QED BY <1>4, <1>5

(* The finished are finitely many.                                           *)
LEMMA GoneType ==
  ASSUME Types
  PROVE  Gone \in Nat /\ IsFiniteSet({c \in 0 .. created - 1 : is_finished[c]})
<1>1. created - 1 \in Int
  BY DEF Types
<1>2. IsFiniteSet(0 .. created - 1)
  BY <1>1, FS_Interval
<1>3. IsFiniteSet({c \in 0 .. created - 1 : is_finished[c]})
  BY <1>2, FS_Subset
<1> QED BY <1>3, FS_CardinalityType DEF Gone

(* Steps outside of the library.                                             *)
LEMMA StayControl ==
  ASSUME Control, Types', Phases', main' = "wait" => main = "wait",
         UNCHANGED <<coro_list, coro_this_ptr, is_sched_waiting, is_finished, switch_count,
                     allocated, created, content>>,
         exited' = exited \/ \E i \in FileSet : content[i] = Missing
  PROVE  Control'
<1>1. Linked'
  BY DEF Control, Linked
<1>2. Alive'
  BY DEF Control, Alive
<1>3. Turns'
  BY DEF Control, Turns, Ahead, Gone, Between
<1> QED BY <1>1, <1>2, <1>3 DEF Control

(* Lines 123-128, 376-405: main has the control.                             *)
LEMMA StartControl ==
  ASSUME Control, Start
  PROVE  Control'
<1>1. /\ main = "start" /\ main' = "create" /\ coro_this_ptr' = Sched
      /\ switch_count' = [switch_count EXCEPT ![Sched] = 0]
      /\ UNCHANGED <<coro_list, is_sched_waiting, is_finished, allocated, exited, sortVars,
                     created, indices, output>>
  BY DEF Start, SchedInit
<1>2. Sched \notin Coros /\ Sched # Null
  BY Constants
<1>3. Types'
  BY <1>1 DEF Control, Types, sortVars
<1>4. \A c \in Coros : switch_count'[c] = switch_count[c]
  BY <1>1, <1>2 DEF Control, Types
<1>5. Phases'
  BY <1>1, <1>2, <1>4 DEF Control, Phases, sortVars
<1>6. Linked'
  BY <1>1 DEF Control, Linked
<1>7. Alive'
  BY <1>1, <1>2 DEF Control, Alive, sortVars
<1>8. Turns'
  BY <1>1 DEF Turns
<1> QED BY <1>3, <1>5, <1>6, <1>7, <1>8 DEF Control

(* Lines 409-420: one coroutine more, at the head of the list.               *)
LEMMA CreateControl ==
  ASSUME Control, Create
  PROVE  Control'
<1>1. /\ main = "create" /\ main' = "create" /\ created < Lesser(coroutines_num, FileCount)
      /\ created \notin allocated /\ allocated' = allocated \cup {created}
      /\ is_finished' = [is_finished EXCEPT ![created] = FALSE]
      /\ switch_count' = [switch_count EXCEPT ![created] = 0]
      /\ coro_list' = <<created>> \o coro_list /\ created' = created + 1
      /\ UNCHANGED <<coro_this_ptr, is_sched_waiting, exited, sortVars, indices, output>>
  BY DEF Create, New
<1>2. created \in Coros /\ created \in Nat /\ created + 1 <= Lesser(coroutines_num, FileCount)
  BY <1>1, Constants DEF Control, Types
<1>3. /\ coro_list' \in Seq(Coros) /\ Len(coro_list') = Len(coro_list) + 1
      /\ coro_list'[1] = created /\ Len(coro_list) \in Nat
      /\ \A k \in 2 .. Len(coro_list) + 1 : coro_list'[k] = coro_list[k - 1]
  BY <1>1, <1>2, Prepended DEF Control, Linked
<1>4. Types'
  BY <1>1, <1>2 DEF Control, Types, sortVars
<1>5. Linked'
  <2>1. ASSUME NEW i \in 1 .. Len(coro_list'), NEW k \in 1 .. Len(coro_list'),
               coro_list'[i] = coro_list'[k]
        PROVE  i = k
    <3>1. \A j \in 2 .. Len(coro_list) + 1 : coro_list'[j] # created
      BY <1>1, <1>2, <1>3 DEF Control, Linked
    <3>2. CASE i = 1 \/ k = 1
      BY <3>1, <3>2, <2>1, <1>3
    <3>3. CASE i # 1 /\ k # 1
      <4>1. i - 1 \in 1 .. Len(coro_list) /\ k - 1 \in 1 .. Len(coro_list)
        BY <3>3, <1>3
      <4>2. coro_list[i - 1] = coro_list[k - 1]
        BY <3>3, <2>1, <1>3
      <4>3. i - 1 = k - 1
        BY <4>1, <4>2 DEF Control, Linked
      <4> QED BY <4>3, <1>3
    <3> QED BY <3>2, <3>3
  <2>2. ASSUME NEW c \in Coros
        PROVE  c \in allocated' <=> \E i \in 1 .. Len(coro_list') : coro_list'[i] = c
    <3>1. ASSUME c \in allocated' PROVE \E i \in 1 .. Len(coro_list') : coro_list'[i] = c
      <4>1. CASE c = created
        <5>1. 1 \in 1 .. Len(coro_list')
          BY <1>3
        <5> QED BY <5>1, <4>1, <1>3
      <4>2. CASE c \in allocated
        <5>1. PICK i \in 1 .. Len(coro_list) : coro_list[i] = c
          BY <4>2 DEF Control, Linked
        <5>2. i + 1 \in 2 .. Len(coro_list) + 1 /\ i + 1 \in 1 .. Len(coro_list') /\ (i + 1) - 1 = i
          BY <1>3
        <5> QED BY <5>1, <5>2, <1>3
      <4> QED BY <3>1, <4>1, <4>2, <1>1
    <3>2. ASSUME NEW i \in 1 .. Len(coro_list'), coro_list'[i] = c PROVE c \in allocated'
      <4>1. CASE i = 1
        BY <4>1, <3>2, <1>3, <1>1
      <4>2. CASE i # 1
        <5>1. i - 1 \in 1 .. Len(coro_list) /\ coro_list[i - 1] = c
          BY <4>2, <3>2, <1>3
        <5> QED BY <5>1, <1>1 DEF Control, Linked
      <4> QED BY <4>1, <4>2
    <3> QED BY <3>1, <3>2
  <2>3. /\ allocated' \subseteq Coros
        /\ \A c \in allocated' : c < created'
        /\ \A c \in Coros : c < created' /\ c \notin allocated' => is_finished'[c]
    <3>1. allocated' \subseteq Coros
      BY <1>1, <1>2 DEF Control, Linked
    <3>2. \A c \in Coros : c \in Nat
      BY Constants
    <3>3. \A c \in allocated' : c < created'
      BY <3>1, <3>2, <1>1, <1>2 DEF Control, Linked
    <3>4. ASSUME NEW c \in Coros, c < created', c \notin allocated' PROVE is_finished'[c]
      <4>1. c # created /\ c < created /\ c \notin allocated
        BY <3>4, <3>2, <1>1, <1>2
      <4>2. is_finished[c]
        BY <4>1 DEF Control, Linked
      <4> QED BY <4>1, <4>2, <1>1 DEF Control, Types
    <3> QED BY <3>1, <3>3, <3>4
  <2> QED BY <1>3, <2>1, <2>2, <2>3 DEF Linked
<1>6. Phases'
  <2>1. \A c \in Coros : ~is_finished'[c] /\ switch_count'[c] = 0
    BY <1>1 DEF Control, Phases, Types
  <2>2. cur_unsorted' = 0 /\ coro_this_ptr' # Null /\ coro_this_ptr' \notin Coros
    BY <1>1 DEF Control, Phases, sortVars
  <2> QED BY <1>1, <1>2, <2>1, <2>2 DEF Phases
<1>7. Alive'
  <2>1. \A c \in Coros : ~is_finished'[c]
    BY <1>1 DEF Control, Phases, Types
  <2>2. coro_this_ptr' \notin Coros /\ allocated' \subseteq Coros
    BY <1>1, <1>2 DEF Control, Phases, Linked
  <2> QED BY <2>1, <2>2, <1>1 DEF Control, Alive, sortVars
<1>8. Turns'
  BY <1>1 DEF Turns
<1> QED BY <1>4, <1>5, <1>6, <1>7, <1>8 DEF Control

(* Line 420: nobody has had a turn.                                          *)
LEMMA CreateEndsControl ==
  ASSUME Control, CreateEnds
  PROVE  Control'
<1>1. /\ main = "create" /\ main' = "wait" /\ created = Lesser(coroutines_num, FileCount)
      /\ UNCHANGED <<coroVars, sortVars, created, indices, output>>
  BY DEF CreateEnds
<1>2. Types'
  BY <1>1 DEF Control, Types, coroVars, sortVars
<1>3. Phases'
  BY <1>1 DEF Control, Phases, coroVars, sortVars
<1>4. Linked' /\ Alive'
  BY <1>1 DEF Control, Linked, Alive, coroVars, sortVars
<1>5. Gone \in Nat
  BY GoneType DEF Control
<1>6. \A i, k \in 1 .. Len(coro_list) : Ahead(i, k) = 0 /\ ~ Between(i, k)
  <2>1. ASSUME NEW i \in 1 .. Len(coro_list) PROVE coro_list[i] \in Coros /\ switch_count[coro_list[i]] = 0
    <3>1. coro_list[i] \in Coros
      BY ElementOfSeq DEF Control, Linked
    <3> QED BY <3>1, <1>1 DEF Control, Phases
  <2> QED BY <2>1, <1>1 DEF Ahead, Between, Control, Phases
<1>7. Turns'
  <2>1. \A i, k \in 1 .. Len(coro_list') : Ahead(i, k)' = 0 /\ ~ Between(i, k)'
    BY <1>1, <1>6 DEF Ahead, Between, coroVars
  <2>2. Gone' = Gone
    BY <1>1 DEF Gone, coroVars
  <2> QED BY <2>1, <2>2, <1>5 DEF Turns
<1> QED BY <1>2, <1>3, <1>4, <1>7 DEF Control

(* Lines 101-121: the coroutine at place p has had its turn.                 *)
LEMMA YieldTurns ==
  ASSUME Types, Linked, Turns, main = "wait", NEW p \in 1 .. Len(coro_list), coro_this_ptr = coro_list[p],
         switch_count' = [switch_count EXCEPT ![coro_list[p]] = @ + 1],
         coro_this_ptr' = IF p < Len(coro_list) THEN coro_list[p + 1] ELSE Sched,
         UNCHANGED <<coro_list, main, created, is_finished>>
  PROVE  Turns'
<1>1. Len(coro_list) \in Nat /\ Gone \in Nat /\ Gone' = Gone
  BY GoneType DEF Linked, Gone
<1>2. ASSUME NEW i \in 1 .. Len(coro_list)
      PROVE  /\ coro_list[i] \in Coros /\ switch_count[coro_list[i]] \in Nat
             /\ switch_count'[coro_list[i]] = IF i = p THEN switch_count[coro_list[i]] + 1
                                                       ELSE switch_count[coro_list[i]]
  <2>1. coro_list[i] \in Coros /\ coro_list[p] \in Coros
    BY ElementOfSeq DEF Linked
  <2>2. coro_list[i] = coro_list[p] => i = p
    BY DEF Linked
  <2> QED BY <2>1, <2>2 DEF Types
<1>3. ASSUME NEW i \in 1 .. Len(coro_list), NEW k \in 1 .. Len(coro_list), i < k
      PROVE  /\ Between(i, k) <=> i < p /\ p <= k
             /\ Between(i, k)' <=> i < p + 1 /\ p + 1 <= k
  <2>1. Between(i, k) <=> i < p /\ p <= k
    BY DEF Between, Linked
  <2>2. CASE p < Len(coro_list)
    <3>1. p + 1 \in 1 .. Len(coro_list)
      BY <2>2, <1>1
    <3>2. coro_this_ptr' = coro_list[p + 1]
      BY <2>2
    <3>3. Between(i, k)' <=> i < p + 1 /\ p + 1 <= k
      BY <3>1, <3>2 DEF Between, Linked
    <3> QED BY <2>1, <3>3
  <2>3. CASE ~ (p < Len(coro_list))
    <3>1. coro_this_ptr' = Sched /\ Sched \notin Coros
      BY <2>3, Constants
    <3>2. ~ Between(i, k)'
      BY <3>1, <1>2 DEF Between
    <3>3. ~ (p + 1 <= k)
      BY <2>3, <1>1
    <3> QED BY <2>1, <3>2, <3>3
  <2> QED BY <2>2, <2>3
<1>4. ASSUME NEW i \in 1 .. Len(coro_list), NEW k \in 1 .. Len(coro_list), i < k
      PROVE  IF Between(i, k)' THEN Ahead(i, k)' >= 1 /\ Ahead(i, k)' <= 1 + Gone
                               ELSE Ahead(i, k)' >= 0 /\ Ahead(i, k)' <= Gone
  <2>1. IF i < p /\ p <= k THEN Ahead(i, k) >= 1 /\ Ahead(i, k) <= 1 + Gone
                           ELSE Ahead(i, k) >= 0 /\ Ahead(i, k) <= Gone
    BY <1>3, <1>4 DEF Turns
  <2>2. /\ Ahead(i, k) \in Int
        /\ Ahead(i, k)' = Ahead(i, k) + (IF i = p THEN 1 ELSE 0) - (IF k = p THEN 1 ELSE 0)
    <3> DEFINE a == switch_count[coro_list[i]]
               b == switch_count[coro_list[k]]
    <3>1. a \in Nat /\ b \in Nat /\ Ahead(i, k) = a - b
      BY <1>2 DEF Ahead
    <3>2. Ahead(i, k)' = (IF i = p THEN a + 1 ELSE a) - (IF k = p THEN b + 1 ELSE b)
      BY <1>2 DEF Ahead
    <3> HIDE DEF a, b, Ahead
    <3> QED BY <3>1, <3>2
  <2>3. IF i < p + 1 /\ p + 1 <= k THEN Ahead(i, k)' >= 1 /\ Ahead(i, k)' <= 1 + Gone
                                   ELSE Ahead(i, k)' >= 0 /\ Ahead(i, k)' <= Gone
    <3> HIDE DEF Ahead, Gone, Between
    <3> QED BY <2>1, <2>2, <1>1, <1>4
  <2> QED BY <2>3, <1>3, <1>4
<1> QED BY <1>1, <1>4 DEF Turns

(* The coroutine that has the control is somewhere in the list, and main     *)
(* waits for it.                                                             *)
LEMMA InControl ==
  ASSUME Control, NEW c \in Coros, coro_this_ptr = c
  PROVE  /\ main = "wait" /\ is_sched_waiting /\ c \in allocated
         /\ \A d \in allocated : ~is_finished[d]
         /\ \E p \in 1 .. Len(coro_list) : coro_list[p] = c
BY DEF Control, Phases, Alive, Linked

(* Lines 112-121: whoever gets the control is in the list.                   *)
LEMMA YieldControl ==
  ASSUME Control, NEW c \in Coros, Yield(c), Types',
         UNCHANGED <<main, created, content, cur_unsorted>>
  PROVE  Control'
<1>1. PICK p \in 1 .. Len(coro_list) : coro_list[p] = c
  BY InControl DEF Yield
<1>2. /\ main = "wait" /\ is_sched_waiting /\ c \in allocated
      /\ \A d \in allocated : ~is_finished[d]
  BY InControl DEF Yield
<1>3. /\ switch_count' = [switch_count EXCEPT ![coro_list[p]] = @ + 1]
      /\ coro_this_ptr = coro_list[p]
      /\ coro_this_ptr' = IF p < Len(coro_list) THEN coro_list[p + 1] ELSE Sched
      /\ is_sched_waiting' = (is_sched_waiting /\ coro_this_ptr' # Sched)
      /\ UNCHANGED <<coro_list, is_finished, allocated, exited>>
  BY <1>1, SuccessorIs DEF Yield, YieldTo, Control
<1>4. Len(coro_list) \in Nat /\ \A i \in 1 .. Len(coro_list) : coro_list[i] \in Coros
  BY ElementOfSeq DEF Control, Linked
<1>5. \/ coro_this_ptr' = Sched
      \/ coro_this_ptr' \in Coros /\ \E i \in 1 .. Len(coro_list) : coro_list[i] = coro_this_ptr'
  <2>1. CASE p < Len(coro_list)
    <3>1. p + 1 \in 1 .. Len(coro_list) /\ coro_this_ptr' = coro_list[p + 1]
      BY <2>1, <1>3, <1>4
    <3> QED BY <3>1, <1>4
  <2>2. CASE ~ (p < Len(coro_list))
    BY <2>2, <1>3
  <2> QED BY <2>1, <2>2
<1>6. Sched \notin Coros /\ Sched # Null /\ Null \notin Coros
  BY Constants
<1>7. Linked'
  BY <1>3 DEF Control, Linked
<1>8. Phases'
  BY <1>2, <1>3, <1>5, <1>6 DEF Control, Phases
<1>9. Alive'
  BY <1>2, <1>3, <1>5, <1>6 DEF Control, Alive, Linked
<1>10. Turns'
  BY <1>2, <1>3, YieldTurns DEF Control
<1> QED BY <1>7, <1>8, <1>9, <1>10 DEF Control

(* Lines 175-183: back to the scheduler, which goes on at the head: one more *)
(* turn for those that were before the one that has finished.                *)
LEMMA ReturnControl ==
  ASSUME Control, NEW c \in Coros, Return(c),
         UNCHANGED <<main, created, content, cur_unsorted, slot, indices>>
  PROVE  Control'
<1>1. /\ main = "wait" /\ is_sched_waiting /\ c \in allocated /\ c \in Nat
      /\ \A d \in allocated : ~is_finished[d]
  BY InControl, Constants DEF Return
<1>2. /\ is_finished' = [is_finished EXCEPT ![c] = TRUE] /\ exited' = FALSE
      /\ coro_this_ptr = c /\ coro_this_ptr' = Sched /\ is_sched_waiting' = FALSE
      /\ UNCHANGED <<coro_list, switch_count, allocated>>
  BY <1>1 DEF Return
<1>3. Sched \notin Coros /\ Sched # Null /\ Null \notin Coros
  BY Constants
<1>4. Types'
  BY <1>2 DEF Control, Types
<1>5. Linked'
  BY <1>2 DEF Control, Linked, Types
<1>6. Phases'
  BY <1>1, <1>2, <1>3 DEF Control, Phases
<1>7. Alive'
  BY <1>1, <1>2, <1>3 DEF Control, Alive, Types, Linked
<1>8. Gone \in Nat /\ Gone' = Gone + 1
  <2> DEFINE F == {d \in 0 .. created - 1 : is_finished[d]}
             G == {d \in 0 .. created - 1 : is_finished'[d]}
  <2>1. c < created /\ created \in Nat /\ created - 1 < coroutines_num /\ ~is_finished[c]
    BY <1>1, Constants DEF Control, Linked, Phases, Types
  <2>2. \A d \in 0 .. created - 1 : d \in Coros
    BY <2>1, Constants
  <2>3. c \in 0 .. created - 1
    BY <2>1, <1>1
  <2>4. G = F \cup {c} /\ c \notin F
    BY <2>1, <2>2, <2>3, <1>2 DEF Control, Types
  <2>5. IsFiniteSet(F) /\ Cardinality(F) \in Nat
    BY GoneType, FS_CardinalityType DEF Control
  <2>6. Cardinality(G) = Cardinality(F) + 1
    BY <2>4, <2>5, FS_AddElement
  <2>7. Gone = Cardinality(F) /\ Gone' = Cardinality(G)
    BY DEF Gone
  <2> QED BY <2>5, <2>6, <2>7
<1>9. Turns'
  <2>1. ASSUME NEW i \in 1 .. Len(coro_list), NEW k \in 1 .. Len(coro_list), i < k
        PROVE  /\ ~ Between(i, k)'
               /\ Ahead(i, k)' >= 0 /\ Ahead(i, k)' <= Gone'
    <3>1. coro_list[i] \in Coros /\ coro_list[k] \in Coros
      BY ElementOfSeq DEF Control, Linked
    <3>2. Ahead(i, k) \in Int /\ Ahead(i, k)' = Ahead(i, k)
      BY <3>1, <1>2 DEF Ahead, Control, Types
    <3>3. ~ Between(i, k)'
      <4>1. \A q \in 1 .. Len(coro_list) : coro_list[q] \in Coros
        BY ElementOfSeq DEF Control, Linked
      <4> QED BY <4>1, <1>2, <1>3 DEF Between
    <3>4. Ahead(i, k) >= 0 /\ Ahead(i, k) <= 1 + Gone
      <4>1. IF Between(i, k) THEN Ahead(i, k) >= 1 /\ Ahead(i, k) <= 1 + Gone
                             ELSE Ahead(i, k) >= 0 /\ Ahead(i, k) <= Gone
        BY <2>1, <1>1 DEF Control, Turns
      <4> HIDE DEF Ahead, Gone
      <4> QED BY <4>1, <3>2, <1>8
    <3> QED BY <3>2, <3>3, <3>4, <1>8
  <2> QED BY <2>1, <1>2 DEF Turns
<1> QED BY <1>4, <1>5, <1>6, <1>7, <1>9 DEF Control

(* Lines 134-138: the one that has finished leaves the list.                 *)
LEMMA ReapControl ==
  ASSUME Control, NEW c \in Coros, Reap(c)
  PROVE  Control'
<1>1. PICK p \in 1 .. Len(coro_list) :
        /\ coro_list[p] = c /\ is_finished[c] /\ coro_list' = RemoveAt(coro_list, p)
  BY LenProperties DEF Reap, WaitReturns, FirstFinished, Control, Linked
<1>2. /\ main = "wait" /\ coro_this_ptr = Sched /\ allocated' = allocated \ {c}
      /\ UNCHANGED <<coro_this_ptr, is_sched_waiting, is_finished, switch_count, exited,
                     sortVars, mainVars>>
  BY DEF Reap, WaitReturns, Delete
<1>3. Len(coro_list) \in Nat /\ coro_list \in Seq(Coros)
  BY DEF Control, Linked
<1>4. /\ coro_list' \in Seq(Coros) /\ Len(coro_list') = Len(coro_list) - 1
      /\ \A k \in 1 .. Len(coro_list) - 1 : coro_list'[k] = IF k < p THEN coro_list[k] ELSE coro_list[k + 1]
  BY <1>1, <1>3, RemoveAtProperties
<1> DEFINE at(k) == IF k < p THEN k ELSE k + 1
<1>5. ASSUME NEW k \in 1 .. Len(coro_list')
      PROVE  at(k) \in 1 .. Len(coro_list) /\ at(k) # p /\ coro_list'[k] = coro_list[at(k)]
  BY <1>3, <1>4
<1>6. \A j, k \in 1 .. Len(coro_list') : (at(j) = at(k) => j = k) /\ (j < k => at(j) < at(k))
  BY <1>3, <1>4
<1>7. \A k \in 1 .. Len(coro_list) : k # p => \E j \in 1 .. Len(coro_list') : at(j) = k
  <2> SUFFICES ASSUME NEW k \in 1 .. Len(coro_list), k # p
               PROVE  \E j \in 1 .. Len(coro_list') : at(j) = k
    OBVIOUS
  <2>1. CASE k < p
    <3>1. k \in 1 .. Len(coro_list') /\ at(k) = k
      BY <2>1, <1>3, <1>4
    <3> QED BY <3>1
  <2>2. CASE ~ (k < p)
    <3>1. k - 1 \in 1 .. Len(coro_list') /\ at(k - 1) = k
      BY <2>2, <1>3, <1>4
    <3> QED BY <3>1
  <2> QED BY <2>1, <2>2
<1> HIDE DEF at
<1>8. Types'
  BY <1>2 DEF Control, Types, sortVars, mainVars
<1>9. Linked'
  <2>1. \A i, k \in 1 .. Len(coro_list') : coro_list'[i] = coro_list'[k] => i = k
    <3> SUFFICES ASSUME NEW i \in 1 .. Len(coro_list'), NEW k \in 1 .. Len(coro_list'),
                        coro_list'[i] = coro_list'[k]
                 PROVE  i = k
      OBVIOUS
    <3>1. coro_list[at(i)] = coro_list[at(k)]
      BY <1>5
    <3>2. at(i) = at(k)
      BY <3>1, <1>5 DEF Control, Linked
    <3> QED BY <3>2, <1>6
  <2>2. ASSUME NEW d \in Coros
        PROVE  d \in allocated' <=> \E i \in 1 .. Len(coro_list') : coro_list'[i] = d
    <3>1. ASSUME d \in allocated' PROVE \E i \in 1 .. Len(coro_list') : coro_list'[i] = d
      <4>1. d \in allocated /\ d # c
        BY <3>1, <1>2
      <4>2. PICK k \in 1 .. Len(coro_list) : coro_list[k] = d
        BY <4>1 DEF Control, Linked
      <4>3. PICK j \in 1 .. Len(coro_list') : at(j) = k
        BY <4>1, <4>2, <1>1, <1>7
      <4> QED BY <4>2, <4>3, <1>5
    <3>2. ASSUME NEW i \in 1 .. Len(coro_list'), coro_list'[i] = d PROVE d \in allocated'
      <4>1. coro_list[at(i)] = d /\ at(i) # p /\ at(i) \in 1 .. Len(coro_list)
        BY <3>2, <1>5
      <4>2. d # c /\ d \in allocated
        BY <4>1, <1>1 DEF Control, Linked
      <4> QED BY <4>2, <1>2
    <3> QED BY <3>1, <3>2
  <2>3. /\ allocated' \subseteq Coros
        /\ \A d \in allocated' : d < created'
        /\ \A d \in Coros : d < created' /\ d \notin allocated' => is_finished'[d]
    BY <1>1, <1>2 DEF Control, Linked, mainVars
  <2>4. Len(coro_list') \in Nat
    BY <1>3, <1>4
  <2> QED BY <1>4, <2>1, <2>2, <2>3, <2>4 DEF Linked
<1>10. Phases'
  BY <1>2 DEF Control, Phases, sortVars, mainVars
<1>11. Alive'
  BY <1>2, Constants DEF Control, Alive, sortVars
<1>12. Turns'
  <2>1. Gone' = Gone
    BY <1>2 DEF Gone, mainVars
  <2>2. ASSUME NEW i \in 1 .. Len(coro_list'), NEW k \in 1 .. Len(coro_list'), i < k
        PROVE  ~ Between(i, k)' /\ Ahead(i, k)' >= 0 /\ Ahead(i, k)' <= Gone
    <3>1. Ahead(i, k)' = Ahead(at(i), at(k))
      BY <1>2, <1>5 DEF Ahead
    <3>2. at(i) < at(k) /\ at(i) \in 1 .. Len(coro_list) /\ at(k) \in 1 .. Len(coro_list)
      BY <2>2, <1>5, <1>6
    <3>3. /\ ~ Between(at(i), at(k))
          /\ ~ Between(i, k)'
      <4>1. \A q \in 1 .. Len(coro_list) : coro_list[q] \in Coros
        BY ElementOfSeq, <1>3
      <4>2. \A q \in 1 .. Len(coro_list') : coro_list'[q] \in Coros
        BY ElementOfSeq, <1>4
      <4>3. Sched \notin Coros
        BY Constants
      <4> QED BY <4>1, <4>2, <4>3, <1>2 DEF Between
    <3> QED BY <3>1, <3>2, <3>3, <1>2 DEF Control, Turns
  <2> QED BY <2>1, <2>2 DEF Turns
<1> QED BY <1>8, <1>9, <1>10, <1>11, <1>12 DEF Control

(* Lines 140-141: the head of the list gets the control.                     *)
LEMMA SwitchControl ==
  ASSUME Control, Switch
  PROVE  Control'
<1>1. /\ main = "wait" /\ coro_this_ptr = Sched /\ coro_list # <<>>
      /\ \A c \in ToSet(coro_list) : ~is_finished[c]
      /\ is_sched_waiting' = TRUE /\ coro_this_ptr' = Head(coro_list)
      /\ switch_count' = [switch_count EXCEPT ![Sched] = @ + 1]
      /\ UNCHANGED <<coro_list, is_finished, allocated, exited, sortVars, mainVars>>
  BY DEF Switch, WaitSwitches, YieldTo
<1>2. 1 \in 1 .. Len(coro_list) /\ coro_this_ptr' = coro_list[1] /\ coro_list[1] \in Coros
  <2>1. coro_list \in Seq(Coros)
    BY DEF Control, Linked
  <2>2. Len(coro_list) \in Nat \ {0} /\ Head(coro_list) = coro_list[1]
    BY <2>1, <1>1, EmptySeq, HeadTailProperties, LenProperties
  <2>3. 1 \in 1 .. Len(coro_list)
    BY <2>2
  <2> QED BY <2>1, <2>2, <2>3, <1>1, ElementOfSeq
<1>3. Sched \notin Coros /\ Null \notin Coros
  BY Constants
<1>4. \A c \in allocated : ~is_finished[c]
  <2> SUFFICES ASSUME NEW c \in allocated PROVE ~is_finished[c]
    OBVIOUS
  <2>1. PICK i \in 1 .. Len(coro_list) : coro_list[i] = c
    BY DEF Control, Linked
  <2>2. c \in ToSet(coro_list)
    BY <2>1, LenProperties DEF ToSet, Control, Linked
  <2> QED BY <2>2, <1>1
<1>5. Types'
  BY <1>1, <1>2 DEF Control, Types, sortVars, mainVars
<1>6. Linked'
  BY <1>1 DEF Control, Linked, mainVars
<1>7. Phases'
  BY <1>1, <1>2, <1>3 DEF Control, Phases, sortVars, mainVars
<1>8. Alive'
  <2>1. coro_this_ptr' \in allocated
    BY <1>2 DEF Control, Linked
  <2> QED BY <2>1, <1>1, <1>2, <1>4 DEF Control, Alive, sortVars
<1>9. Turns'
  <2>1. Gone' = Gone
    BY <1>1 DEF Gone, mainVars
  <2>2. ASSUME NEW i \in 1 .. Len(coro_list), NEW k \in 1 .. Len(coro_list), i < k
        PROVE  ~ Between(i, k) /\ ~ Between(i, k)' /\ Ahead(i, k)' = Ahead(i, k)
    <3>1. \A q \in 1 .. Len(coro_list) : coro_list[q] \in Coros
      BY ElementOfSeq DEF Control, Linked
    <3>2. Ahead(i, k)' = Ahead(i, k)
      BY <3>1, <1>1, <1>3 DEF Ahead, Control, Types
    <3>3. ~ Between(i, k)
      BY <3>1, <1>1, <1>3 DEF Between
    <3>4. ~ Between(i, k)'
      <4>1. ASSUME NEW q \in 1 .. Len(coro_list), coro_list[q] = coro_this_ptr', i < q PROVE FALSE
        <5>1. q = 1
          BY <4>1, <1>2 DEF Control, Linked
        <5> QED BY <5>1, <4>1
      <4> QED BY <4>1, <1>1 DEF Between
    <3> QED BY <3>2, <3>3, <3>4
  <2> QED BY <2>1, <2>2, <1>1 DEF Control, Turns, mainVars
<1> QED BY <1>5, <1>6, <1>7, <1>8, <1>9 DEF Control

(* Line 101-107: the next slot is one that nobody has taken.                 *)
LEMMA NextSlot ==
  ASSUME Types
  PROVE  /\ haveFiles # Null <=> cur_unsorted < FileCount
         /\ cur_unsorted < FileCount => haveFiles = cur_unsorted + 1 /\ haveFiles \in FileSet
<1>1. cur_unsorted \in 0 .. FileCount /\ FileCount \in Nat /\ Null \notin Int
  BY Constants DEF Types
<1>2. cur_unsorted + 1 \in Int /\ cur_unsorted + 1 # Null
  BY <1>1
<1>3. cur_unsorted < FileCount => cur_unsorted + 1 \in 1 .. FileCount
  BY <1>1
<1> QED BY <1>2, <1>3 DEF haveFiles, FileSet

(* Lines 331-363: taking a file, sorting and finishing.                      *)
LEMMA SorterControl ==
  ASSUME Control, NEW c \in Coros, TakeFile(c) \/ Iterate(c) \/ EndPartition(c) \/ Finish(c)
  PROVE  Control'
<1>1. CASE TakeFile(c)
  <2>1. /\ coro_this_ptr = c /\ haveFiles # Null /\ cur_unsorted' = cur_unsorted + 1
        /\ \/ content[cur_unsorted + 1] = Missing /\ exited' = TRUE /\ UNCHANGED slot
           \/ slot' = [slot EXCEPT ![c] = haveFiles] /\ UNCHANGED exited
        /\ UNCHANGED <<coro_list, coro_this_ptr, is_sched_waiting, is_finished, switch_count,
                       allocated, content, mainVars>>
    BY <1>1 DEF TakeFile
  <2>2. cur_unsorted + 1 \in FileSet /\ haveFiles \in FileSet /\ cur_unsorted + 1 \in 0 .. FileCount
    BY <2>1, NextSlot, Constants DEF Control, Types, FileSet
  <2>3. Types'
    BY <2>1, <2>2 DEF Control, Types, mainVars
  <2>4. main = "wait"
    BY <2>1, InControl
  <2>5. Phases'
    BY <2>1, <2>4 DEF Control, Phases, mainVars
  <2>6. exited' = exited \/ \E i \in FileSet : content[i] = Missing
    BY <2>1, <2>2
  <2> QED BY <2>1, <2>3, <2>5, <2>6, StayControl DEF mainVars
<1>2. CASE Iterate(c)
  <2>1. /\ coro_this_ptr = c
        /\ Yield(c) \/ UNCHANGED coroVars
        /\ UNCHANGED <<content, cur_unsorted, slot, mainVars>>
    BY <1>2 DEF Iterate
  <2>2. CASE Yield(c)
    <3>1. Types'
      <4>1. PICK p \in 1 .. Len(coro_list) : coro_list[p] = c
        BY <2>1, InControl
      <4>2. coro_this_ptr' = IF p < Len(coro_list) THEN coro_list[p + 1] ELSE Sched
        BY <2>2, <4>1, SuccessorIs DEF Yield, YieldTo, Control
      <4>3. coro_this_ptr' \in Coros \cup {Sched}
        <5>1. CASE p < Len(coro_list)
          <6>1. p + 1 \in 1 .. Len(coro_list)
            BY <5>1 DEF Control, Linked
          <6> QED BY <6>1, <5>1, <4>2, ElementOfSeq DEF Control, Linked
        <5>2. CASE ~ (p < Len(coro_list))
          BY <5>2, <4>2
        <5> QED BY <5>1, <5>2
      <4>4. is_sched_waiting' \in BOOLEAN
        BY <2>2 DEF Yield, Control, Types
      <4> QED BY <4>3, <4>4, <2>1, <2>2 DEF Yield, YieldTo, Control, Types, mainVars
    <3> QED BY <3>1, <2>1, <2>2, YieldControl DEF mainVars
  <2>3. CASE UNCHANGED coroVars
    <3>1. Types'
      BY <2>1, <2>3 DEF Control, Types, coroVars, mainVars
    <3>2. Phases'
      BY <2>1, <2>3 DEF Control, Phases, coroVars, mainVars
    <3> QED BY <3>1, <3>2, <2>1, <2>3, StayControl DEF coroVars, mainVars
  <2> QED BY <2>1, <2>2, <2>3
<1>3. CASE EndPartition(c)
  <2>1. UNCHANGED <<coroVars, content, cur_unsorted, slot, mainVars>>
    BY <1>3 DEF EndPartition
  <2>2. Types'
    BY <2>1 DEF Control, Types, coroVars, mainVars
  <2>3. Phases'
    BY <2>1 DEF Control, Phases, coroVars, mainVars
  <2> QED BY <2>1, <2>2, <2>3, StayControl DEF coroVars, mainVars
<1>4. CASE Finish(c)
  BY <1>4, ReturnControl DEF Finish, sortVars, mainVars
<1> QED BY <1>1, <1>2, <1>3, <1>4

(* main, once it has created the coroutines.                                 *)
LEMMA MainControl ==
  ASSUME Control, WaitEnds \/ MergeStep \/ MergeUnderflow \/ MergeEnds
  PROVE  Control'
<1>1. UNCHANGED <<coroVars, sortVars, created>>
  BY DEF WaitEnds, MergeStep, MergeUnderflow, MergeEnds
<1>2. /\ main' \in {"merge", "underflow", "done"} /\ main \in {"wait", "merge"}
      /\ coro_list = <<>>
  BY DEF WaitEnds, WaitEmpty, MergeStep, MergeUnderflow, MergeEnds, Control, Phases
<1>3. main = "wait" => coro_this_ptr = Sched
  BY <1>2 DEF WaitEnds, WaitEmpty, MergeStep, MergeUnderflow, MergeEnds
<1>4. indices' \in [FileSet -> Nat]
  <2>1. CASE MergeStep
    <3>1. PICK i \in FileSet : indices' = [indices EXCEPT ![i] = @ + 1]
      BY <2>1 DEF MergeStep
    <3>2. indices \in [FileSet -> Nat]
      BY DEF Control, Types
    <3> QED BY <3>1, <3>2
  <2>2. CASE ~ MergeStep
    <3>1. UNCHANGED indices
      BY <2>2 DEF WaitEnds, MergeUnderflow, MergeEnds
    <3> QED BY <3>1 DEF Control, Types
  <2> QED BY <2>1, <2>2
<1>5. Types'
  BY <1>1, <1>2, <1>4 DEF Control, Types, coroVars, sortVars
<1>6. Phases'
  BY <1>1, <1>2, <1>3, Constants DEF Control, Phases, coroVars, sortVars
<1> QED BY <1>1, <1>2, <1>5, <1>6, StayControl DEF coroVars, sortVars

(* A step is one of these.                                                   *)
LEMMA ControlStep ==
  ASSUME Control, [Next]_vars
  PROVE  Control'
<1>1. CASE Start
  BY <1>1, StartControl
<1>2. CASE Create
  BY <1>2, CreateControl
<1>3. CASE CreateEnds
  BY <1>3, CreateEndsControl
<1>4. CASE Switch
  BY <1>4, SwitchControl
<1>5. CASE WaitEnds \/ MergeStep \/ MergeUnderflow \/ MergeEnds
  BY <1>5, MainControl
<1>6. ASSUME NEW c \in Coros, TakeFile(c) \/ Iterate(c) \/ EndPartition(c) \/ Finish(c)
      PROVE  Control'
  BY <1>6, SorterControl
<1>7. ASSUME NEW c \in Coros, Reap(c) PROVE Control'
  BY <1>7, ReapControl
<1>8. CASE UNCHANGED vars
  <2>1. Types' /\ Phases'
    BY <1>8 DEF Control, Types, Phases, vars, coroVars, sortVars, mainVars
  <2> QED BY <1>8, <2>1, StayControl DEF vars, coroVars, sortVars, mainVars
<1> QED BY <1>1, <1>2, <1>3, <1>4, <1>5, <1>6, <1>7, <1>8 DEF Next, Step, MergeLoops

(* The library is empty and main has not begun.                              *)
LEMMA InitControl == Init => Control
<1> SUFFICES ASSUME Init PROVE Control
  OBVIOUS
<1>1. /\ coro_list = <<>> /\ coro_this_ptr = Null /\ is_sched_waiting = FALSE
      /\ is_finished = [c \in Coros |-> FALSE]
      /\ switch_count = [c \in Coros \cup {Sched} |-> 0]
      /\ allocated = {} /\ exited = FALSE
      /\ content \in [FileSet -> Contents] /\ cur_unsorted = 0
      /\ slot = [c \in Coros |-> Null] /\ main = "start" /\ created = 0
      /\ indices = [i \in FileSet |-> 0]
  BY DEF Init, CoroInit
<1>2. Types
  BY <1>1, Constants DEF Types
<1>3. Linked
  <2>1. coro_list \in Seq(Coros) /\ Len(coro_list) = 0
    BY <1>1, EmptySeq
  <2>2. \A c \in Coros : ~ (c < created)
    BY <1>1, Constants
  <2> QED BY <2>1, <2>2, <1>1 DEF Linked
<1>4. Phases
  BY <1>1, Constants DEF Phases
<1>5. Alive
  BY <1>1, Constants DEF Alive
<1>6. Turns
  BY <1>1 DEF Turns
<1> QED BY <1>2, <1>3, <1>4, <1>5, <1>6 DEF Control

(* Control is only ever handed to a coroutine that is allocated, in the list *)
(* and not finished (libcoro.c:101-145, 175-183): however many coroutines    *)
(* there are and wherever they yield.                                        *)
THEOREM ControlAlive == Spec => []ControlIsAlive
<1>1. Control => ControlIsAlive
  <2> SUFFICES ASSUME Control PROVE ControlIsAlive
    OBVIOUS
  <2>1. \A c : c \in ToSet(coro_list) <=> \E i \in 1 .. Len(coro_list) : coro_list[i] = c
    BY LenProperties DEF Control, Linked, ToSet
  <2>2. \A i \in 1 .. Len(coro_list) : coro_list[i] \in Coros
    BY ElementOfSeq DEF Control, Linked
  <2>3. ToSet(coro_list) = allocated
    BY <2>1, <2>2 DEF Control, Linked
  <2>4. coro_list \in Seq(allocated)
    <3>1. \A i \in 1 .. Len(coro_list) : coro_list[i] \in allocated
      BY <2>2 DEF Control, Linked
    <3>2. coro_list = [i \in 1 .. Len(coro_list) |-> coro_list[i]] /\ Len(coro_list) \in Nat
      BY IsASeq, LenProperties DEF Control, Linked
    <3> QED BY <3>1, <3>2, SeqDef
  <2>5. TypeOK
    <3>1. created \in 0 .. Cardinality(Coros)
      BY Constants DEF Control, Types, Phases, coroutines_num
    <3> QED BY <2>4, <3>1 DEF TypeOK, Control, Types, Linked
  <2>6. Cardinality({c \in ToSet(coro_list) : is_finished[c]}) <= 1
    <3> DEFINE F == {c \in ToSet(coro_list) : is_finished[c]}
    <3>1. \A c, d \in F : c = d
      BY <2>3 DEF Control, Alive
    <3>2. CASE F = {}
      BY <3>2, FS_EmptySet
    <3>3. CASE F # {}
      <4>1. PICK c : F = {c}
        BY <3>1, <3>3
      <4>2. Cardinality({c}) = 1
        BY FS_Singleton
      <4>3. Cardinality(F) = 1
        BY <4>1, <4>2
      <4> QED BY <4>3
    <3> QED BY <3>2, <3>3
  <2> QED BY <2>3, <2>5, <2>6 DEF ControlIsAlive, Control, Alive
<1>2. Init => Control
  BY InitControl
<1>3. Control /\ [Next]_vars => Control'
  BY ControlStep
<1> QED BY <1>1, <1>2, <1>3, PTL DEF Spec

(* No coroutine is overtaken, but by the turn in progress and by one for     *)
(* every coroutine that has finished (libcoro.c:112-145).                    *)
THEOREM FairTurns == Spec => []TurnsFair
<1>1. Control => TurnsFair
  <2> SUFFICES ASSUME Control, main = "wait",
                      NEW i \in DOMAIN coro_list, NEW k \in DOMAIN coro_list, i < k
               PROVE  Ahead(i, k) \in 0 .. 1 + Gone
    BY DEF TurnsFair, Ahead, Gone
  <2>1. i \in 1 .. Len(coro_list) /\ k \in 1 .. Len(coro_list)
    BY LenProperties DEF Control, Linked
  <2>2. IF Between(i, k) THEN Ahead(i, k) >= 1 /\ Ahead(i, k) <= 1 + Gone
                         ELSE Ahead(i, k) >= 0 /\ Ahead(i, k) <= Gone
    BY <2>1 DEF Control, Turns
  <2>3. Ahead(i, k) \in Int /\ Gone \in Nat
    <3>1. coro_list[i] \in Coros /\ coro_list[k] \in Coros
      BY <2>1, ElementOfSeq DEF Control, Linked
    <3> QED BY <3>1, GoneType DEF Ahead, Control, Types
  <2> HIDE DEF Ahead, Gone
  <2> QED BY <2>2, <2>3
<1>2. Init => Control
  BY InitControl
<1>3. Control /\ [Next]_vars => Control'
  BY ControlStep
<1> QED BY <1>1, <1>2, <1>3, PTL DEF Spec

-----------------------------------------------------------------------------
(* Quicksort *)

Frame == [low : Int, high : Int, i : Int, j : Int]
Ordered(s) == \A a, b \in 1 .. Len(s) : a < b => s[a] <= s[b]

(* A frame of quicksort in the middle of its partition loop: what is before  *)
(* i is less than the pivot, what is between i and j is not.                 *)
Good(arr, f) ==
    /\ 1 <= f.low /\ f.low < f.high /\ f.high <= Len(arr)
    /\ f.low - 1 <= f.i /\ f.i < f.j /\ f.j <= f.high
    /\ \A a \in f.low .. f.i : arr[a] < arr[f.high]
    /\ \A a \in f.i + 1 .. f.j - 1 : arr[f.high] <= arr[a]

Within(f, a) == f.low <= a /\ a <= f.high

(* Two numbers are in order, or in one of the frames still to be worked on,  *)
(* which do not overlap.                                                     *)
Partial(arr, F) ==
    /\ \A m \in 1 .. Len(F) : Good(arr, F[m])
    /\ \A m, n \in 1 .. Len(F) : m < n => F[m].high < F[n].low
    /\ \A a, b \in 1 .. Len(arr) :
         a < b => arr[a] <= arr[b] \/ \E m \in 1 .. Len(F) : Within(F[m], a) /\ Within(F[m], b)

(* Lines 215-219.                                                            *)
LEMMA SwapIs ==
  ASSUME NEW arr \in Seq(Int), NEW a \in 1 .. Len(arr), NEW b \in 1 .. Len(arr)
  PROVE  /\ Swap(arr, a, b) \in Seq(Int) /\ Len(Swap(arr, a, b)) = Len(arr)
         /\ Swap(arr, a, b)[a] = arr[b] /\ Swap(arr, a, b)[b] = arr[a]
         /\ \A k \in 1 .. Len(arr) : k # a /\ k # b => Swap(arr, a, b)[k] = arr[k]
<1>1. arr[a] \in Int /\ arr[b] \in Int
  BY ElementOfSeq
<1>2. DOMAIN arr = 1 .. Len(arr)
  BY LenProperties
<1> DEFINE one == [arr EXCEPT ![a] = arr[b]]
<1>3. one \in Seq(Int) /\ Len(one) = Len(arr)
  BY <1>1, ExceptSeq
<1>4. /\ [one EXCEPT ![b] = arr[a]] \in Seq(Int) /\ Len([one EXCEPT ![b] = arr[a]]) = Len(arr)
  BY <1>1, <1>3, ExceptSeq
<1>5. Swap(arr, a, b) = [one EXCEPT ![b] = arr[a]]
  BY DEF Swap
<1> QED BY <1>1, <1>2, <1>4, <1>5

(* The head of a sequence is replaced by the sequence H.                     *)
LEMMA Replaced ==
  ASSUME NEW S, NEW F \in Seq(S), F # <<>>, NEW H \in Seq(S), NEW R, R = H \o Tail(F)
  PROVE  /\ R \in Seq(S) /\ Len(F) \in Nat /\ Len(H) \in Nat /\ Len(R) = Len(H) + Len(F) - 1
         /\ \A m \in 1 .. Len(H) : m \in 1 .. Len(R) /\ R[m] = H[m]
         /\ \A m \in 1 .. Len(R) : m > Len(H) => m - Len(H) + 1 \in 2 .. Len(F) /\ R[m] = F[m - Len(H) + 1]
         /\ \A n \in 2 .. Len(F) : n - 1 + Len(H) \in 1 .. Len(R) /\ R[n - 1 + Len(H)] = F[n]
<1>1. Len(F) \in Nat /\ Len(H) \in Nat /\ Len(F) # 0
  BY LenProperties, EmptySeq
<1>2. /\ Tail(F) \in Seq(S) /\ Len(Tail(F)) = Len(F) - 1
      /\ \A k \in 1 .. Len(F) - 1 : Tail(F)[k] = F[k + 1]
  BY HeadTailProperties
<1>3. /\ R \in Seq(S) /\ Len(R) = Len(H) + Len(Tail(F))
      /\ \A k \in 1 .. Len(H) + Len(Tail(F)) : R[k] = IF k <= Len(H) THEN H[k] ELSE Tail(F)[k - Len(H)]
  BY <1>2, ConcatProperties
<1>4. Len(R) = Len(H) + Len(F) - 1
  BY <1>1, <1>2, <1>3
<1>5. ASSUME NEW m \in 1 .. Len(H) PROVE m \in 1 .. Len(R) /\ R[m] = H[m]
  BY <1>1, <1>2, <1>3
<1>6. ASSUME NEW m \in 1 .. Len(R), m > Len(H)
      PROVE  m - Len(H) + 1 \in 2 .. Len(F) /\ R[m] = F[m - Len(H) + 1]
  <2>1. m - Len(H) \in 1 .. Len(F) - 1 /\ (m - Len(H)) + 1 = m - Len(H) + 1
    BY <1>1, <1>4, <1>6
  <2>2. R[m] = Tail(F)[m - Len(H)]
    BY <1>1, <1>2, <1>3, <1>6
  <2>3. R[m] = F[m - Len(H) + 1]
    BY <2>1, <2>2, <1>2
  <2> QED BY <2>1, <2>3, <1>1
<1>7. ASSUME NEW n \in 2 .. Len(F)
      PROVE  n - 1 + Len(H) \in 1 .. Len(R) /\ R[n - 1 + Len(H)] = F[n]
  <2>1. /\ n - 1 + Len(H) \in 1 .. Len(R) /\ n - 1 + Len(H) > Len(H)
        /\ (n - 1 + Len(H)) - Len(H) + 1 = n
    BY <1>1, <1>4
  <2> QED BY <2>1, <1>6
<1> QED BY <1>1, <1>3, <1>4, <1>5, <1>6, <1>7

(* What a turn of the loop or the end of one has to do with the frame at the *)
(* head: move numbers inside of it, and leave frames inside of it for what   *)
(* is not in order.                                                          *)
Works(arr, f, new, H) ==
    /\ Len(new) = Len(arr)
    /\ \A a \in 1 .. Len(arr) : ~ Within(f, a) => new[a] = arr[a]
    /\ \A a \in 1 .. Len(arr) : Within(f, a) =>
         \E b \in 1 .. Len(arr) : Within(f, b) /\ new[a] = arr[b]
    /\ \A m \in 1 .. Len(H) : Good(new, H[m]) /\ f.low <= H[m].low /\ H[m].high <= f.high
    /\ \A m, n \in 1 .. Len(H) : m < n => H[m].high < H[n].low
    /\ \A a, b \in 1 .. Len(arr) : Within(f, a) /\ Within(f, b) /\ a < b =>
         new[a] <= new[b] \/ \E m \in 1 .. Len(H) : Within(H[m], a) /\ Within(H[m], b)

(* Then everything else stays as it should be.                               *)
LEMMA Refined ==
  ASSUME NEW arr \in Seq(Int), NEW F \in Seq(Frame), F # <<>>, Partial(arr, F),
         NEW new \in Seq(Int), NEW H \in Seq(Frame), Works(arr, F[1], new, H)
  PROVE  Partial(new, H \o Tail(F)) /\ H \o Tail(F) \in Seq(Frame)
<1> DEFINE R == H \o Tail(F)
           f == F[1]
<1>1. /\ R \in Seq(Frame) /\ Len(F) \in Nat /\ Len(H) \in Nat /\ Len(R) = Len(H) + Len(F) - 1
      /\ \A m \in 1 .. Len(H) : m \in 1 .. Len(R) /\ R[m] = H[m]
      /\ \A m \in 1 .. Len(R) : m > Len(H) => m - Len(H) + 1 \in 2 .. Len(F) /\ R[m] = F[m - Len(H) + 1]
      /\ \A n \in 2 .. Len(F) : n - 1 + Len(H) \in 1 .. Len(R) /\ R[n - 1 + Len(H)] = F[n]
  BY Replaced
<1> HIDE DEF R
<1>20. /\ Len(new) = Len(arr)
       /\ \A a \in 1 .. Len(arr) : ~ Within(f, a) => new[a] = arr[a]
       /\ \A a \in 1 .. Len(arr) : Within(f, a) =>
            \E b \in 1 .. Len(arr) : Within(f, b) /\ new[a] = arr[b]
  BY DEF Works
<1>21. /\ \A m \in 1 .. Len(H) : Good(new, H[m]) /\ f.low <= H[m].low /\ H[m].high <= f.high
       /\ \A m, n \in 1 .. Len(H) : m < n => H[m].high < H[n].low
       /\ \A a, b \in 1 .. Len(arr) : Within(f, a) /\ Within(f, b) /\ a < b =>
            new[a] <= new[b] \/ \E m \in 1 .. Len(H) : Within(H[m], a) /\ Within(H[m], b)
  BY DEF Works
<1>2. 1 \in 1 .. Len(F)
  <2>1. Len(F) # 0
    BY EmptySeq
  <2> QED BY <2>1, <1>1
<1>3. /\ \A m \in 1 .. Len(F) : Good(arr, F[m])
      /\ \A m, n \in 1 .. Len(F) : m < n => F[m].high < F[n].low
      /\ \A a, b \in 1 .. Len(arr) :
           a < b => arr[a] <= arr[b] \/ \E m \in 1 .. Len(F) : Within(F[m], a) /\ Within(F[m], b)
  BY DEF Partial
<1>4. ASSUME NEW m \in 1 .. Len(F)
      PROVE  F[m].low \in Int /\ F[m].high \in Int /\ F[m].i \in Int /\ F[m].j \in Int
  <2>1. F[m] \in Frame
    BY ElementOfSeq
  <2> QED BY <2>1 DEF Frame
<1>5. ASSUME NEW m \in 1 .. Len(H) PROVE H[m].low \in Int /\ H[m].high \in Int
  <2>1. H[m] \in Frame
    BY ElementOfSeq
  <2> QED BY <2>1 DEF Frame
<1>6. Len(arr) \in Nat /\ \A a \in 1 .. Len(arr) : arr[a] \in Int /\ new[a] \in Int
  BY ElementOfSeq, LenProperties, <1>20
<1>7. ASSUME NEW n \in 2 .. Len(F) PROVE Good(new, F[n])
  <2>1. n \in 1 .. Len(F) /\ f.high < F[n].low /\ Good(arr, F[n])
    BY <1>1, <1>2, <1>3
  <2> DEFINE g == F[n]
  <2>5. /\ g.low \in Int /\ g.high \in Int /\ g.i \in Int /\ g.j \in Int /\ f.high \in Int
        /\ 1 <= g.low /\ g.low < g.high /\ g.high <= Len(arr) /\ g.low - 1 <= g.i /\ g.i < g.j
        /\ g.j <= g.high /\ f.high < g.low
    BY <2>1, <1>2, <1>4 DEF Good
  <2>2. \A a \in 1 .. Len(arr) : F[n].low <= a => new[a] = arr[a]
    <3> SUFFICES ASSUME NEW a \in 1 .. Len(arr), F[n].low <= a PROVE ~ Within(F[1], a)
      BY <1>20
    <3>1. a \in Int /\ ~ (a <= f.high)
      BY <2>5
    <3> QED BY <3>1 DEF Within
  <2>3. \A a \in F[n].low .. F[n].high : a \in 1 .. Len(arr) /\ new[a] = arr[a]
    <3> SUFFICES ASSUME NEW a \in g.low .. g.high PROVE a \in 1 .. Len(arr) /\ new[a] = arr[a]
      OBVIOUS
    <3>1. a \in 1 .. Len(arr) /\ g.low <= a
      BY <2>5, <1>6
    <3> QED BY <3>1, <2>2
  <2>4. /\ F[n].high \in F[n].low .. F[n].high
        /\ \A a \in F[n].low .. F[n].i : a \in F[n].low .. F[n].high
        /\ \A a \in F[n].i + 1 .. F[n].j - 1 : a \in F[n].low .. F[n].high
    <3>1. \A a \in g.low .. g.i : a \in g.low .. g.high
      BY <2>5
    <3>2. \A a \in g.i + 1 .. g.j - 1 : a \in g.low .. g.high
      <4> SUFFICES ASSUME NEW a \in g.i + 1 .. g.j - 1 PROVE a \in g.low .. g.high
        OBVIOUS
      <4>1. a \in Int /\ g.i + 1 <= a /\ a <= g.j - 1
        BY <2>5
      <4> DEFINE low == g.low
                 high == g.high
                 i == g.i
                 j == g.j
      <4>2. /\ low \in Int /\ high \in Int /\ i \in Int /\ j \in Int
            /\ low - 1 <= i /\ j <= high /\ i + 1 <= a /\ a <= j - 1
        BY <4>1, <2>5
      <4> HIDE DEF low, high, i, j
      <4>3. low <= a /\ a <= high
        BY <4>1, <4>2
      <4>4. a \in low .. high
        BY <4>1, <4>2, <4>3
      <4> QED BY <4>4 DEF low, high
    <3>3. g.high \in g.low .. g.high
      BY <2>5
    <3> QED BY <3>1, <3>2, <3>3
  <2> QED BY <2>1, <2>3, <2>4, <1>20 DEF Good
<1>8. \A m \in 1 .. Len(R) : Good(new, R[m])
  <2> SUFFICES ASSUME NEW m \in 1 .. Len(R) PROVE Good(new, R[m])
    OBVIOUS
  <2>1. CASE m <= Len(H)
    <3>1. m \in 1 .. Len(H)
      BY <2>1, <1>1
    <3> QED BY <3>1, <1>1, <1>21
  <2>2. CASE m > Len(H)
    BY <2>2, <1>1, <1>7
  <2> QED BY <2>1, <2>2, <1>1
<1>9. \A m, n \in 1 .. Len(R) : m < n => R[m].high < R[n].low
  <2> SUFFICES ASSUME NEW m \in 1 .. Len(R), NEW n \in 1 .. Len(R), m < n
               PROVE  R[m].high < R[n].low
    OBVIOUS
  <2>1. CASE n <= Len(H)
    <3>1. m \in 1 .. Len(H) /\ n \in 1 .. Len(H)
      BY <2>1, <1>1
    <3> QED BY <3>1, <1>1, <1>21
  <2>2. CASE m <= Len(H) /\ n > Len(H)
    <3>1. m \in 1 .. Len(H) /\ R[m] = H[m] /\ H[m].high <= f.high
      BY <2>2, <1>1, <1>21
    <3> DEFINE k == n - Len(H) + 1
    <3>2. k \in 2 .. Len(F) /\ R[n] = F[k]
      BY <2>2, <1>1
    <3> HIDE DEF k
    <3>3. f.high < F[k].low /\ k \in 1 .. Len(F)
      BY <3>2, <1>1, <1>2, <1>3, <1>21
    <3> QED BY <3>1, <3>2, <3>3, <1>2, <1>4, <1>5
  <2>3. CASE m > Len(H)
    <3> DEFINE k == m - Len(H) + 1
               l == n - Len(H) + 1
    <3>1. k \in 2 .. Len(F) /\ l \in 2 .. Len(F) /\ k < l /\ R[m] = F[k] /\ R[n] = F[l]
      BY <2>3, <1>1
    <3> HIDE DEF k, l
    <3>2. k \in 1 .. Len(F) /\ l \in 1 .. Len(F)
      BY <3>1, <1>1
    <3> QED BY <3>1, <3>2, <1>3
  <2> QED BY <2>1, <2>2, <2>3, <1>1
<1>10. ASSUME NEW a \in 1 .. Len(arr), NEW b \in 1 .. Len(arr), a < b, ~ (new[a] <= new[b])
       PROVE  \E m \in 1 .. Len(R) : Within(R[m], a) /\ Within(R[m], b)
  <2>1. CASE Within(f, a) /\ Within(f, b)
    <3>1. PICK m \in 1 .. Len(H) : Within(H[m], a) /\ Within(H[m], b)
      BY <2>1, <1>10, <1>21
    <3> QED BY <3>1, <1>1
  <2>2. CASE ~ Within(f, a) /\ ~ Within(f, b)
    <3>1. ~ (arr[a] <= arr[b])
      BY <2>2, <1>10, <1>20
    <3>2. PICK n \in 1 .. Len(F) : Within(F[n], a) /\ Within(F[n], b)
      BY <3>1, <1>3, <1>10
    <3>3. n # 1
      BY <3>2, <2>2
    <3>4. n \in 2 .. Len(F)
      BY <3>3, <1>1
    <3> QED BY <3>2, <3>4, <1>1
  <2>3. CASE Within(f, a) /\ ~ Within(f, b)
    <3>1. PICK c \in 1 .. Len(arr) : Within(f, c) /\ new[a] = arr[c]
      BY <2>3, <1>20
    <3>2. new[b] = arr[b]
      BY <2>3, <1>20
    <3>3. c < b
      <4>1. f.low <= a /\ a <= f.high /\ c <= f.high /\ ~ (f.low <= b /\ b <= f.high)
        BY <2>3, <3>1 DEF Within
      <4>2. f.low \in Int /\ f.high \in Int /\ a < b
        BY <1>2, <1>4, <1>10
      <4> HIDE DEF f
      <4> QED BY <4>1, <4>2
    <3>4. ~ (arr[c] <= arr[b])
      BY <3>1, <3>2, <1>10
    <3>5. PICK n \in 1 .. Len(F) : Within(F[n], c) /\ Within(F[n], b)
      BY <3>3, <3>4, <1>3
    <3>6. n # 1
      BY <3>5, <2>3
    <3>7. f.high < F[n].low
      BY <3>6, <1>1, <1>2, <1>3
    <3>8. F[n].low <= c /\ c <= f.high
      BY <3>1, <3>5 DEF Within
    <3>9. F[n].low \in Int /\ f.high \in Int
      BY <1>2, <1>4
    <3>10. FALSE
      BY <3>7, <3>8, <3>9, <1>6
    <3> QED BY <3>10
  <2>4. CASE ~ Within(f, a) /\ Within(f, b)
    <3>1. PICK c \in 1 .. Len(arr) : Within(f, c) /\ new[b] = arr[c]
      BY <2>4, <1>20
    <3>2. new[a] = arr[a]
      BY <2>4, <1>20
    <3>3. a < c
      <4>1. f.low <= b /\ b <= f.high /\ f.low <= c /\ ~ (f.low <= a /\ a <= f.high)
        BY <2>4, <3>1 DEF Within
      <4>2. f.low \in Int /\ f.high \in Int /\ a < b
        BY <1>2, <1>4, <1>10
      <4> HIDE DEF f
      <4> QED BY <4>1, <4>2
    <3>4. ~ (arr[a] <= arr[c])
      BY <3>1, <3>2, <1>10
    <3>5. PICK n \in 1 .. Len(F) : Within(F[n], a) /\ Within(F[n], c)
      BY <3>3, <3>4, <1>3
    <3>6. n # 1
      BY <3>5, <2>4
    <3>7. f.high < F[n].low
      BY <3>6, <1>1, <1>2, <1>3
    <3>8. F[n].low <= c /\ c <= f.high
      BY <3>1, <3>5 DEF Within
    <3>9. F[n].low \in Int /\ f.high \in Int
      BY <1>2, <1>4
    <3>10. FALSE
      BY <3>7, <3>8, <3>9, <1>6, SMTT(40)
    <3> QED BY <3>10
  <2> QED BY <2>1, <2>2, <2>3, <2>4
<1>11. Partial(new, R)
  BY <1>8, <1>9, <1>10, <1>20 DEF Partial
<1> QED BY <1>1, <1>11 DEF R

(* Lines 270-272: a call works on a frame if there are two numbers.          *)
LEMMA CallsAre ==
  ASSUME NEW low \in Int, NEW high \in Int
  PROVE  /\ Calls(low, high) \in Seq(Frame)
         /\ Len(Calls(low, high)) = IF low < high THEN 1 ELSE 0
         /\ \A m \in 1 .. Len(Calls(low, high)) :
              /\ low < high /\ m = 1
              /\ Calls(low, high)[m] = [low |-> low, high |-> high, i |-> low - 1, j |-> low]
<1> DEFINE f == [low |-> low, high |-> high, i |-> low - 1, j |-> low]
<1>1. f \in Frame
  BY DEF Frame
<1>2. CASE low < high
  <2>1. Calls(low, high) = <<f>>
    BY <1>2 DEF Calls
  <2> HIDE DEF f
  <2>2. <<f>> \in Seq(Frame) /\ Len(<<f>>) = 1 /\ <<f>>[1] = f
    BY <1>1
  <2> QED BY <2>1, <2>2, <1>2 DEF f
<1>3. CASE ~ (low < high)
  <2>1. Calls(low, high) = <<>>
    BY <1>3 DEF Calls
  <2> QED BY <2>1, <1>3, EmptySeq
<1> QED BY <1>2, <1>3

(* A new frame has nothing before i and nothing between i and j.             *)
LEMMA FreshFrame ==
  ASSUME NEW arr \in Seq(Int), NEW low \in Int, NEW high \in Int, 1 <= low, low < high, high <= Len(arr)
  PROVE  Good(arr, [low |-> low, high |-> high, i |-> low - 1, j |-> low])
BY DEF Good

(* Lines 335-348: at first all of a file is one frame.                       *)
LEMMA BeginsPartial ==
  ASSUME NEW arr \in Seq(Int)
  PROVE  Calls(1, Len(arr)) \in Seq(Frame) /\ Partial(arr, Calls(1, Len(arr)))
<1> DEFINE F == Calls(1, Len(arr))
<1>1. Len(arr) \in Nat
  BY LenProperties
<1>2. /\ F \in Seq(Frame) /\ Len(F) = IF 1 < Len(arr) THEN 1 ELSE 0
      /\ \A m \in 1 .. Len(F) :
           /\ 1 < Len(arr) /\ m = 1
           /\ F[m] = [low |-> 1, high |-> Len(arr), i |-> 1 - 1, j |-> 1]
  BY <1>1, CallsAre
<1> HIDE DEF F
<1>3. ASSUME NEW m \in 1 .. Len(F) PROVE Good(arr, F[m])
  <2>1. Good(arr, [low |-> 1, high |-> Len(arr), i |-> 1 - 1, j |-> 1])
    BY <1>1, <1>2, FreshFrame
  <2> QED BY <2>1, <1>2
<1>4. \A m, n \in 1 .. Len(F) : ~ (m < n)
  BY <1>2
<1>5. ASSUME NEW a \in 1 .. Len(arr), NEW b \in 1 .. Len(arr), a < b
      PROVE  \E m \in 1 .. Len(F) : Within(F[m], a) /\ Within(F[m], b)
  <2>1. 1 < Len(arr) /\ 1 \in 1 .. Len(F)
    BY <1>1, <1>2, <1>5
  <2>2. F[1].low = 1 /\ F[1].high = Len(arr)
    BY <2>1, <1>2
  <2>3. Within(F[1], a) /\ Within(F[1], b)
    BY <2>2, <1>1 DEF Within
  <2> QED BY <2>1, <2>3
<1>6. Partial(arr, F)
  BY <1>3, <1>4, <1>5 DEF Partial
<1> QED BY <1>2, <1>6 DEF F

(* What a good frame says of its numbers.                                    *)
LEMMA FrameFacts ==
  ASSUME NEW arr \in Seq(Int), NEW f \in Frame, Good(arr, f)
  PROVE  /\ f.low \in Nat /\ f.high \in Nat /\ f.i \in Int /\ f.j \in Nat /\ Len(arr) \in Nat
         /\ 1 <= f.low /\ f.low < f.high /\ f.high <= Len(arr)
         /\ f.low - 1 <= f.i /\ f.i < f.j /\ f.j <= f.high
         /\ f.low \in 1 .. Len(arr) /\ f.high \in 1 .. Len(arr) /\ f.j \in 1 .. Len(arr)
         /\ f.i + 1 \in 1 .. Len(arr) /\ f.low <= f.i + 1 /\ f.i + 1 <= f.j
<1> DEFINE low == f.low
           high == f.high
           i == f.i
           j == f.j
           N == Len(arr)
<1>1. low \in Int /\ high \in Int /\ i \in Int /\ j \in Int /\ N \in Nat
  BY LenProperties DEF Frame
<1>2. 1 <= low /\ low < high /\ high <= N /\ low - 1 <= i /\ i < j /\ j <= high
  BY DEF Good
<1> HIDE DEF low, high, i, j, N
<1>3. /\ low \in Nat /\ high \in Nat /\ j \in Nat /\ low \in 1 .. N /\ high \in 1 .. N /\ j \in 1 .. N
      /\ i + 1 \in 1 .. N /\ low <= i + 1 /\ i + 1 <= j
  BY <1>1, <1>2
<1> QED BY <1>1, <1>2, <1>3 DEF low, high, i, j, N

(* Lines 228-241 and 249-256: one turn of the partition loop.                *)
LEMMA IteratesPartial ==
  ASSUME NEW arr \in Seq(Int), NEW F \in Seq(Frame), F # <<>>, Partial(arr, F), F[1].j < F[1].high,
         NEW moved, moved = IF arr[F[1].j] < arr[F[1].high] THEN 1 ELSE 0
  PROVE  /\ Compare(arr, F[1]) \in Seq(Int)
         /\ <<[F[1] EXCEPT !.i = @ + moved, !.j = @ + 1]>> \o Tail(F) \in Seq(Frame)
         /\ Partial(Compare(arr, F[1]), <<[F[1] EXCEPT !.i = @ + moved, !.j = @ + 1]>> \o Tail(F))
<1> DEFINE f == F[1]
           g == [f EXCEPT !.i = @ + moved, !.j = @ + 1]
           new == Compare(arr, f)
           low == f.low
           high == f.high
           i == f.i
           j == f.j
           N == Len(arr)
<1>1. f \in Frame /\ Good(arr, f)
  <2>1. Len(F) \in Nat \ {0}
    BY LenProperties, EmptySeq
  <2>2. 1 \in 1 .. Len(F)
    BY <2>1
  <2> QED BY <2>2, ElementOfSeq DEF Partial
<1>2. /\ low \in Nat /\ high \in Nat /\ i \in Int /\ j \in Nat /\ N \in Nat
      /\ 1 <= low /\ low < high /\ high <= N /\ low - 1 <= i /\ i < j /\ j < high
      /\ high \in 1 .. N /\ j \in 1 .. N /\ i + 1 \in 1 .. N /\ low <= i + 1 /\ i + 1 <= j
  BY <1>1, FrameFacts
<1>3. \A a \in 1 .. N : arr[a] \in Int
  BY ElementOfSeq
<1>4. /\ \A a \in low .. i : arr[a] < arr[high]
      /\ \A a \in i + 1 .. j - 1 : arr[high] <= arr[a]
  BY <1>1 DEF Good
<1>5. moved \in {0, 1}
  OBVIOUS
<1>6. g \in Frame /\ g.low = low /\ g.high = high /\ g.i = i + moved /\ g.j = j + 1
  <2>1. f \in [low : Int, high : Int, i : Int, j : Int]
    BY <1>1 DEF Frame
  <2>2. i + moved \in Int /\ j + 1 \in Int
    BY <1>2, <1>5, SMTT(40)
  <2>3. g = [f EXCEPT !.i = i + moved, !.j = j + 1]
    OBVIOUS
  <2> HIDE DEF g, f
  <2> QED BY <2>1, <2>2, <2>3 DEF Frame
<1>7. moved = 1 => arr[j] < arr[high] /\ new = Swap(arr, i + 1, j)
  BY DEF Compare
<1>8. moved = 0 => ~ (arr[j] < arr[high]) /\ new = arr
  BY DEF Compare
<1> HIDE DEF f, g, new, low, high, i, j, N
<1>9. /\ new \in Seq(Int) /\ Len(new) = N
      /\ \A a \in 1 .. N : ~ (low <= a /\ a <= high) => new[a] = arr[a]
      /\ \A a \in 1 .. N : low <= a /\ a <= high =>
            \E b \in 1 .. N : low <= b /\ b <= high /\ new[a] = arr[b]
      /\ 1 <= low /\ low < high /\ high <= N /\ low - 1 <= i + moved /\ i + moved < j + 1 /\ j + 1 <= high
      /\ \A a \in low .. i + moved : new[a] < new[high]
      /\ \A a \in i + moved + 1 .. j : new[high] <= new[a]
  <2>1. CASE moved = 1
    <3>0. /\ new = Swap(arr, i + 1, j) /\ arr[j] < arr[high]
          /\ i + 1 \in 1 .. Len(arr) /\ j \in 1 .. Len(arr)
      BY <2>1, <1>2, <1>7 DEF N
    <3>1. /\ new \in Seq(Int) /\ Len(new) = N /\ new[i + 1] = arr[j] /\ new[j] = arr[i + 1]
          /\ \A k \in 1 .. N : k # i + 1 /\ k # j => new[k] = arr[k]
      BY <3>0, SwapIs DEF N
    <3>2. arr[j] < arr[high] /\ new[high] = arr[high]
      <4>1. high \in 1 .. N /\ high # i + 1 /\ high # j
        BY <1>2
      <4> QED BY <4>1, <3>0, <3>1
    <3>3. ASSUME NEW a \in low .. i + 1 PROVE new[a] < new[high]
      <4>1. CASE a = i + 1
        BY <4>1, <3>1, <3>2
      <4>2. CASE a # i + 1
        <5>1. a \in low .. i /\ a \in 1 .. N /\ a # j
          BY <4>2, <1>2
        <5> QED BY <5>1, <4>2, <3>1, <3>2, <1>4
      <4> QED BY <4>1, <4>2
    <3>4. ASSUME NEW a \in i + 1 + 1 .. j PROVE new[high] <= new[a]
      <4>1. CASE a = j
        <5>1. i + 1 \in i + 1 .. j - 1
          BY <4>1, <1>2
        <5> QED BY <5>1, <4>1, <3>1, <3>2, <1>4
      <4>2. CASE a # j
        <5>1. a \in i + 1 .. j - 1 /\ a \in 1 .. N /\ a # i + 1
          BY <4>2, <1>2
        <5> QED BY <5>1, <4>2, <3>1, <3>2, <1>4
      <4> QED BY <4>1, <4>2
    <3>5. ASSUME NEW a \in 1 .. N, ~ (low <= a /\ a <= high) PROVE new[a] = arr[a]
      <4>1. a # i + 1 /\ a # j
        BY <3>5, <1>2
      <4> QED BY <4>1, <3>1
    <3>6. ASSUME NEW a \in 1 .. N, low <= a, a <= high
          PROVE  \E b \in 1 .. N : low <= b /\ b <= high /\ new[a] = arr[b]
      <4>1. CASE a = i + 1
        BY <4>1, <3>1, <1>2
      <4>2. CASE a = j
        <5>1. i + 1 \in 1 .. N /\ low <= i + 1 /\ i + 1 <= high /\ new[a] = arr[i + 1]
          BY <4>2, <3>1, <1>2
        <5> QED BY <5>1
      <4>3. CASE a # i + 1 /\ a # j
        BY <4>3, <3>1, <3>6
      <4> QED BY <4>1, <4>2, <4>3
    <3>7. low - 1 <= i + 1 /\ i + 1 < j + 1 /\ j + 1 <= high
      BY <1>2
    <3> QED BY <2>1, <3>1, <3>3, <3>4, <3>5, <3>6, <3>7, <1>2
  <2>2. CASE moved = 0
    <3>1. new = arr /\ arr[high] <= arr[j]
      BY <2>2, <1>2, <1>3, <1>8, SMTT(40)
    <3>2. i + moved = i
      BY <2>2, <1>2
    <3>3. ASSUME NEW a \in i + 1 .. j PROVE new[high] <= new[a]
      <4>1. CASE a = j
        BY <4>1, <3>1
      <4>2. CASE a # j
        <5>1. a \in i + 1 .. j - 1
          BY <4>2, <1>2
        <5> QED BY <5>1, <3>1, <1>4
      <4> QED BY <4>1, <4>2
    <3>4. i < j + 1 /\ j + 1 <= high
      BY <1>2
    <3> QED BY <3>1, <3>2, <3>3, <3>4, <1>2, <1>4 DEF N
  <2> QED BY <2>1, <2>2, <1>5
<1>10. Good(new, g)
  <2>1. (j + 1) - 1 = j
    BY <1>2
  <2> QED BY <2>1, <1>6, <1>9 DEF Good, N
<1>11. <<g>> \in Seq(Frame) /\ Len(<<g>>) = 1 /\ <<g>>[1] = g
  BY <1>6
<1>12. Works(arr, f, new, <<g>>)
  <2>1. \A a : Within(f, a) <=> low <= a /\ a <= high
    BY DEF Within, low, high
  <2>2. \A a : Within(g, a) <=> low <= a /\ a <= high
    BY <1>6 DEF Within
  <2>3. \A m \in 1 .. 1 : m = 1
    OBVIOUS
  <2>4. \A m \in 1 .. Len(<<g>>) : Good(new, <<g>>[m]) /\ f.low <= <<g>>[m].low /\ <<g>>[m].high <= f.high
    BY <2>3, <1>2, <1>6, <1>10, <1>11, SMTT(40) DEF low, high
  <2>5. \A m, n \in 1 .. Len(<<g>>) : m < n => <<g>>[m].high < <<g>>[n].low
    BY <1>11
  <2>6. \A a, b \in 1 .. N : Within(f, a) /\ Within(f, b) =>
           \E m \in 1 .. Len(<<g>>) : Within(<<g>>[m], a) /\ Within(<<g>>[m], b)
    BY <2>1, <2>2, <1>11
  <2> QED BY <2>1, <2>4, <2>5, <2>6, <1>9 DEF Works, N
<1>13. Partial(new, <<g>> \o Tail(F)) /\ <<g>> \o Tail(F) \in Seq(Frame)
  BY <1>9, <1>11, <1>12, Refined DEF f
<1> QED BY <1>9, <1>13 DEF f, g, new

(* Lines 273-274: of the two calls any may have nothing to do.               *)
TwoCalls(low, mid, next, high, H) ==
    /\ H \in Seq(Frame) /\ Len(H) \in Nat
    /\ \A m \in 1 .. Len(H) :
         \/ low < mid /\ m = 1 /\ H[m] = [low |-> low, high |-> mid, i |-> low - 1, j |-> low]
         \/ next < high /\ m = Len(H) /\ H[m] = [low |-> next, high |-> high, i |-> next - 1, j |-> next]
    /\ low < mid => \E m \in 1 .. Len(H) : H[m].low = low /\ H[m].high = mid
    /\ next < high => \E m \in 1 .. Len(H) : H[m].low = next /\ H[m].high = high

(* Lines 273-274.                                                            *)
LEMMA HalvesAre ==
  ASSUME NEW low \in Int, NEW mid \in Int, NEW next \in Int, NEW high \in Int, NEW H,
         H = Calls(low, mid) \o Calls(next, high)
  PROVE  TwoCalls(low, mid, next, high, H)
<1> DEFINE A == Calls(low, mid)
           B == Calls(next, high)
           fA == [low |-> low, high |-> mid, i |-> low - 1, j |-> low]
           fB == [low |-> next, high |-> high, i |-> next - 1, j |-> next]
<1>1. /\ A \in Seq(Frame) /\ Len(A) = IF low < mid THEN 1 ELSE 0
      /\ \A m \in 1 .. Len(A) : low < mid /\ m = 1 /\ A[m] = fA
  BY CallsAre
<1>2. /\ B \in Seq(Frame) /\ Len(B) = IF next < high THEN 1 ELSE 0
      /\ \A m \in 1 .. Len(B) : next < high /\ m = 1 /\ B[m] = fB
  BY CallsAre
<1>3. fA.low = low /\ fA.high = mid /\ fB.low = next /\ fB.high = high
  OBVIOUS
<1> HIDE DEF A, B, fA, fB
<1>4. /\ A \o B \in Seq(Frame) /\ Len(A \o B) = Len(A) + Len(B)
      /\ \A k \in 1 .. Len(A) + Len(B) : (A \o B)[k] = IF k <= Len(A) THEN A[k] ELSE B[k - Len(A)]
  <2>1. A \in Seq(Frame) /\ B \in Seq(Frame)
    BY <1>1, <1>2
  <2> QED BY <2>1, ConcatProperties
<1>5. H = A \o B
  BY DEF A, B
<1>6. ASSUME NEW m \in 1 .. Len(H)
      PROVE  \/ low < mid /\ m = 1 /\ H[m] = fA
             \/ next < high /\ m = Len(H) /\ H[m] = fB
  <2>1. CASE m <= Len(A)
    <3>1. m \in 1 .. Len(A) /\ H[m] = A[m]
      BY <2>1, <1>1, <1>2, <1>4, <1>5
    <3> QED BY <3>1, <1>1
  <2>2. CASE m > Len(A)
    <3>1. m - Len(A) \in 1 .. Len(B) /\ H[m] = B[m - Len(A)]
      BY <2>2, <1>1, <1>2, <1>4, <1>5
    <3>2. next < high /\ m - Len(A) = 1 /\ H[m] = fB
      BY <3>1, <1>2
    <3>3. m = Len(H)
      BY <3>2, <1>1, <1>2, <1>4, <1>5
    <3> QED BY <3>2, <3>3
  <2> QED BY <2>1, <2>2, <1>1
<1>7. low < mid => \E m \in 1 .. Len(H) : H[m].low = low /\ H[m].high = mid
  <2> SUFFICES ASSUME low < mid PROVE \E m \in 1 .. Len(H) : H[m].low = low /\ H[m].high = mid
    OBVIOUS
  <2>1. 1 \in 1 .. Len(A) /\ 1 \in 1 .. Len(H) /\ H[1] = A[1]
    BY <1>1, <1>2, <1>4, <1>5
  <2>2. H[1] = fA
    BY <2>1, <1>1
  <2> QED BY <2>1, <2>2, <1>3
<1>8. next < high => \E m \in 1 .. Len(H) : H[m].low = next /\ H[m].high = high
  <2> SUFFICES ASSUME next < high PROVE \E m \in 1 .. Len(H) : H[m].low = next /\ H[m].high = high
    OBVIOUS
  <2> DEFINE m == Len(A) + 1
  <2>1. m \in 1 .. Len(H) /\ m - Len(A) = 1 /\ ~ (m <= Len(A)) /\ 1 \in 1 .. Len(B)
    BY <1>1, <1>2, <1>4, <1>5
  <2> HIDE DEF m
  <2>2. H[m] = B[1]
    BY <2>1, <1>4, <1>5
  <2>3. H[m] = fB
    BY <2>1, <2>2, <1>2
  <2> QED BY <2>1, <2>3, <1>3
<1>9. H \in Seq(Frame) /\ Len(H) \in Nat
  BY <1>4, <1>5, LenProperties
<1> QED BY <1>6, <1>7, <1>8, <1>9 DEF fA, fB, TwoCalls

(* Lines 257-258 and 273-274: the pivot gets to its place, and what is       *)
(* before and after it becomes frames of its own.                            *)
LEMMA EndsPartial ==
  ASSUME NEW arr \in Seq(Int), NEW F \in Seq(Frame), F # <<>>, Partial(arr, F), F[1].j = F[1].high
  PROVE  /\ F[1].i + 1 \in 1 .. Len(arr) /\ F[1].high \in 1 .. Len(arr)
         /\ Swap(arr, F[1].i + 1, F[1].high) \in Seq(Int)
         /\ Halves(F[1], F[1].i + 1) \o Tail(F) \in Seq(Frame)
         /\ Partial(Swap(arr, F[1].i + 1, F[1].high), Halves(F[1], F[1].i + 1) \o Tail(F))
<1> DEFINE f == F[1]
           new == Swap(arr, f.i + 1, f.high)
           H == Halves(f, f.i + 1)
           low == f.low
           high == f.high
           i == f.i
           N == Len(arr)
<1>1. f \in Frame /\ Good(arr, f)
  <2>1. Len(F) \in Nat \ {0}
    BY LenProperties, EmptySeq
  <2>2. 1 \in 1 .. Len(F)
    BY <2>1
  <2> QED BY <2>2, ElementOfSeq DEF Partial
<1>2. /\ low \in Nat /\ high \in Nat /\ i \in Int /\ N \in Nat
      /\ 1 <= low /\ low < high /\ high <= N /\ low - 1 <= i /\ i < high
      /\ high \in 1 .. N /\ i + 1 \in 1 .. N /\ low <= i + 1 /\ i + 1 <= high
  BY <1>1, FrameFacts
<1>3. \A a \in 1 .. N : arr[a] \in Int
  BY ElementOfSeq
<1>4. /\ \A a \in low .. i : arr[a] < arr[high]
      /\ \A a \in i + 1 .. high - 1 : arr[high] <= arr[a]
  BY <1>1 DEF Good
<1>5. /\ new \in Seq(Int) /\ Len(new) = N /\ new[i + 1] = arr[high] /\ new[high] = arr[i + 1]
      /\ \A k \in 1 .. N : k # i + 1 /\ k # high => new[k] = arr[k]
  <2>1. i + 1 \in 1 .. Len(arr) /\ high \in 1 .. Len(arr)
    BY <1>2
  <2> HIDE DEF low, high, i
  <2> QED BY <2>1, SwapIs DEF low, high, i
<1>6. H = Calls(low, i) \o Calls(i + 2, high)
  <2>1. (i + 1) - 1 = i /\ (i + 1) + 1 = i + 2
    BY <1>2, SMTT(40)
  <2> QED BY <2>1 DEF Halves
<1>15. \A a : Within(f, a) <=> low <= a /\ a <= high
  BY DEF Within
<1> HIDE DEF f, new, H, low, high, i, N
<1>7. /\ H \in Seq(Frame) /\ Len(H) \in Nat
      /\ \A m \in 1 .. Len(H) :
           \/ low < i /\ m = 1 /\ H[m] = [low |-> low, high |-> i, i |-> low - 1, j |-> low]
           \/ i + 2 < high /\ m = Len(H) /\ H[m] = [low |-> i + 2, high |-> high, i |-> (i + 2) - 1, j |-> i + 2]
      /\ low < i => \E m \in 1 .. Len(H) : H[m].low = low /\ H[m].high = i
      /\ i + 2 < high => \E m \in 1 .. Len(H) : H[m].low = i + 2 /\ H[m].high = high
  <2> DEFINE next == i + 2
  <2>1. low \in Int /\ next \in Int /\ high \in Int /\ i \in Int /\ H = Calls(low, i) \o Calls(next, high)
    BY <1>2, <1>6
  <2> HIDE DEF next
  <2>2. TwoCalls(low, i, next, high, H)
    BY <2>1, HalvesAre
  <2> QED BY <2>2 DEF next, TwoCalls
<1>8. ASSUME NEW a \in low .. i PROVE new[a] <= new[i + 1]
  <2>1. a \in 1 .. N /\ a # i + 1 /\ a # high
    BY <1>2
  <2>2. new[a] = arr[a] /\ new[i + 1] = arr[high] /\ arr[a] < arr[high]
    BY <2>1, <1>4, <1>5
  <2> QED BY <2>1, <2>2, <1>2, <1>3, SMTT(40)
<1>9. ASSUME NEW a \in i + 2 .. high PROVE new[i + 1] <= new[a]
  <2>1. a \in 1 .. N /\ a # i + 1
    BY <1>2
  <2>2. CASE a = high
    <3>1. i + 1 \in i + 1 .. high - 1
      BY <2>1, <2>2, <1>2
    <3> QED BY <3>1, <2>2, <1>4, <1>5
  <2>3. CASE a # high
    <3>1. a \in i + 1 .. high - 1
      BY <2>1, <2>3, <1>2
    <3>2. new[a] = arr[a] /\ new[i + 1] = arr[high]
      BY <2>1, <2>3, <1>5
    <3> QED BY <3>1, <3>2, <1>4
  <2> QED BY <2>2, <2>3
<1>10. ASSUME NEW a \in 1 .. N, low <= a, a <= high
       PROVE  \E b \in 1 .. N : low <= b /\ b <= high /\ new[a] = arr[b]
  <2>1. CASE a = i + 1
    <3>1. new[a] = arr[high] /\ low <= high /\ high <= high
      BY <2>1, <1>2, <1>5
    <3> QED BY <3>1, <1>2
  <2>2. CASE a = high
    <3>1. new[a] = arr[i + 1]
      BY <2>2, <1>5
    <3> QED BY <3>1, <1>2
  <2>3. CASE a # i + 1 /\ a # high
    BY <2>3, <1>5, <1>10
  <2> QED BY <2>1, <2>2, <2>3
<1>11. ASSUME NEW a \in 1 .. N, ~ (low <= a /\ a <= high) PROVE new[a] = arr[a]
  <2>1. a # i + 1 /\ a # high
    BY <1>11, <1>2
  <2> QED BY <2>1, <1>5
<1>12. ASSUME NEW m \in 1 .. Len(H) PROVE Good(new, H[m]) /\ low <= H[m].low /\ H[m].high <= high
  <2>1. CASE low < i /\ H[m] = [low |-> low, high |-> i, i |-> low - 1, j |-> low]
    <3>1. Good(new, H[m])
      <4>1. i <= Len(new) /\ i \in Int /\ low \in Int /\ 1 <= low
        BY <1>2, <1>5
      <4> QED BY <4>1, <2>1, <1>5, FreshFrame
    <3>2. H[m].low = low /\ H[m].high = i
      BY <2>1
    <3> QED BY <3>1, <3>2, <1>2
  <2>2. CASE i + 2 < high /\ H[m] = [low |-> i + 2, high |-> high, i |-> (i + 2) - 1, j |-> i + 2]
    <3>1. Good(new, H[m])
      <4>1. high <= Len(new) /\ high \in Int /\ i + 2 \in Int /\ 1 <= i + 2
        BY <1>2, <1>5
      <4> QED BY <4>1, <2>2, <1>5, FreshFrame
    <3>2. H[m].low = i + 2 /\ H[m].high = high
      BY <2>2
    <3>3. low <= i + 2 /\ high <= high
      BY <1>2
    <3> QED BY <3>1, <3>2, <3>3
  <2> QED BY <2>1, <2>2, <1>7
<1>13. ASSUME NEW m \in 1 .. Len(H), NEW n \in 1 .. Len(H), m < n PROVE H[m].high < H[n].low
  <2>1. H[m].high = i /\ H[n].low = i + 2
    <3>1. m # Len(H) /\ n # 1
      BY <1>7, <1>13
    <3>2. H[m] = [low |-> low, high |-> i, i |-> low - 1, j |-> low]
      BY <3>1, <1>7
    <3>3. H[n] = [low |-> i + 2, high |-> high, i |-> (i + 2) - 1, j |-> i + 2]
      BY <3>1, <1>7
    <3> QED BY <3>2, <3>3
  <2> QED BY <2>1, <1>2
<1>14. ASSUME NEW a \in 1 .. N, NEW b \in 1 .. N, low <= a, a <= high, low <= b, b <= high, a < b
       PROVE  new[a] <= new[b] \/ \E m \in 1 .. Len(H) : Within(H[m], a) /\ Within(H[m], b)
  <2>0. new[a] \in Int /\ new[b] \in Int /\ new[i + 1] \in Int
    BY <1>2, <1>5, ElementOfSeq
  <2>1. CASE b <= i
    <3>1. low < i
      BY <2>1, <1>14, <1>2
    <3>2. PICK m \in 1 .. Len(H) : H[m].low = low /\ H[m].high = i
      BY <3>1, <1>7
    <3>3. a <= i
      BY <2>1, <1>14, <1>2
    <3>4. Within(H[m], a) /\ Within(H[m], b)
      BY <3>2, <3>3, <2>1, <1>14 DEF Within
    <3> QED BY <3>4
  <2>2. CASE a >= i + 2
    <3>1. i + 2 < high
      BY <2>2, <1>14, <1>2
    <3>2. PICK m \in 1 .. Len(H) : H[m].low = i + 2 /\ H[m].high = high
      BY <3>1, <1>7
    <3>3. i + 2 <= a /\ i + 2 <= b
      BY <2>2, <1>14, <1>2
    <3>4. Within(H[m], a) /\ Within(H[m], b)
      BY <3>2, <3>3, <1>14 DEF Within
    <3> QED BY <3>4
  <2>3. CASE a <= i + 1 /\ b >= i + 1
    <3>1. new[a] <= new[i + 1]
      <4>1. CASE a = i + 1
        BY <4>1, <2>0
      <4>2. CASE a # i + 1
        <5>1. a \in low .. i
          BY <4>2, <2>3, <1>14, <1>2
        <5> QED BY <5>1, <1>8
      <4> QED BY <4>1, <4>2
    <3>2. new[i + 1] <= new[b]
      <4>1. CASE b = i + 1
        BY <4>1, <2>0
      <4>2. CASE b # i + 1
        <5>1. b \in i + 2 .. high
          BY <4>2, <2>3, <1>14, <1>2
        <5> QED BY <5>1, <1>9
      <4> QED BY <4>1, <4>2
    <3> QED BY <3>1, <3>2, <2>0
  <2>4. b <= i \/ a >= i + 2 \/ (a <= i + 1 /\ b >= i + 1)
    BY <1>2, <1>14
  <2> QED BY <2>1, <2>2, <2>3, <2>4
<1>16. Works(arr, f, new, H)
  <2>1. \A m \in 1 .. Len(H) : Good(new, H[m]) /\ f.low <= H[m].low /\ H[m].high <= f.high
    BY <1>12 DEF low, high
  <2> QED BY <2>1, <1>5, <1>10, <1>11, <1>13, <1>14, <1>15 DEF Works, N
<1>17. Partial(new, H \o Tail(F)) /\ H \o Tail(F) \in Seq(Frame)
  BY <1>5, <1>7, <1>16, Refined DEF f
<1> QED BY <1>2, <1>5, <1>17 DEF f, new, H, i, high, N

(* Nothing left to do: the numbers are in order.                             *)
LEMMA DonePartial ==
  ASSUME NEW arr \in Seq(Int), Partial(arr, <<>>)
  PROVE  Ordered(arr)
<1>1. Len(<<>>) = 0 /\ 1 .. 0 = {}
  OBVIOUS
<1> QED BY <1>1 DEF Partial, Ordered

LEMMA OrderedSorted ==
  ASSUME NEW arr \in Seq(Int), Ordered(arr)
  PROVE  Sorted(arr)
<1>1. Len(arr) \in Nat
  BY LenProperties
<1>2. ASSUME NEW k \in 2 .. Len(arr) PROVE k - 1 \in 1 .. Len(arr) /\ k \in 1 .. Len(arr) /\ k - 1 < k
  BY <1>1
<1> QED BY <1>2 DEF Ordered, Sorted

-----------------------------------------------------------------------------
(* The files and their slots *)

(* Every coroutine has a file of its own, and the frames that say what is    *)
(* still to be done with it; one that has finished left no file behind.      *)
Owners ==
    /\ filesData \in [FileSet -> Seq(Int) \cup {Null}] /\ frames \in [Coros -> Seq(Frame)]
    /\ \A c, d \in Coros : slot[c] # Null /\ slot[c] = slot[d] => c = d
    /\ \A c \in Coros : slot[c] = Null => frames[c] = <<>>
    /\ \A c \in Coros : slot[c] # Null =>
         slot[c] <= cur_unsorted /\ filesData[slot[c]] # Null /\ Partial(filesData[slot[c]], frames[c])
    /\ \A c \in Coros : is_finished[c] => frames[c] = <<>> /\ cur_unsorted = FileCount
    /\ \A c \in Coros : frames[c] # <<>> => c < created

(* What is in slot i: the numbers of the i-th file, in order unless someone  *)
(* still sorts them.                                                         *)
SlotHolds(i) ==
    /\ i <= cur_unsorted /\ content[i] # Missing
    /\ Len(filesData[i]) = Len(content[i]) /\ SameValues(filesData[i], content[i])
    /\ Ordered(filesData[i]) \/ \E c \in Coros : slot[c] = i /\ frames[c] # <<>>

Filled ==
    /\ \A i \in FileSet : filesData[i] # Null => SlotHolds(i)
    /\ ~exited => \A i \in FileSet : i <= cur_unsorted => filesData[i] # Null
    /\ main \in {"merge", "done", "underflow"} => ~exited

Files == Owners /\ Filled

(* Swapping two numbers leaves as many of each.                              *)
LEMMA SwapKeeps ==
  ASSUME NEW arr \in Seq(Int), NEW a \in 1 .. Len(arr), NEW b \in 1 .. Len(arr), NEW v
  PROVE  Occurrences(Swap(arr, a, b), v) = Occurrences(arr, v)
<1> DEFINE new == Swap(arr, a, b)
           N == Len(arr)
           S == {k \in 1 .. N : arr[k] = v}
           T == {k \in 1 .. N : new[k] = v}
           other(k) == IF k = a THEN b ELSE IF k = b THEN a ELSE k
           f == [k \in S |-> other(k)]
<1>1. /\ new \in Seq(Int) /\ Len(new) = N /\ new[a] = arr[b] /\ new[b] = arr[a]
      /\ \A k \in 1 .. N : k # a /\ k # b => new[k] = arr[k]
  BY SwapIs
<1>2. N \in Nat /\ DOMAIN arr = 1 .. N /\ DOMAIN new = 1 .. N
  BY <1>1, LenProperties
<1>3. IsFiniteSet(S)
  <2>1. IsFiniteSet(1 .. N)
    BY <1>2, FS_Interval
  <2> QED BY <2>1, FS_Subset
<1> HIDE DEF new, N
<1>4. \A k \in 1 .. N : other(k) \in 1 .. N /\ new[other(k)] = arr[k] /\ other(other(k)) = k
  BY <1>1 DEF N
<1>5. f \in Bijection(S, T)
  <2>1. \A k \in S : other(k) \in T
    BY <1>4
  <2>2. \A k, l \in S : other(k) = other(l) => k = l
    BY <1>4
  <2>3. \A k \in T : other(k) \in S
    <3> SUFFICES ASSUME NEW k \in T PROVE other(k) \in S
      OBVIOUS
    <3>1. other(k) \in 1 .. N /\ other(other(k)) = k
      BY <1>4
    <3>2. arr[other(k)] = new[other(other(k))]
      BY <3>1, <1>4
    <3> QED BY <3>1, <3>2
  <2>4. \A k \in T : \E l \in S : f[l] = k
    <3> SUFFICES ASSUME NEW k \in T PROVE \E l \in S : f[l] = k
      OBVIOUS
    <3>1. f[other(k)] = other(other(k)) /\ other(other(k)) = k
      BY <2>3, <1>4
    <3> QED BY <3>1, <2>3
  <2>5. f \in [S -> T]
    BY <2>1
  <2>6. \A k, l \in S : f[k] = f[l] => k = l
    BY <2>2
  <2> HIDE DEF f, S, T, other
  <2> QED BY <2>4, <2>5, <2>6, Fun_IsBij
<1>6. Cardinality(T) = Cardinality(S)
  BY <1>3, <1>5, FS_Bijection DEF ExistsBijection
<1> QED BY <1>2, <1>6 DEF Occurrences, new

(* A file in which some numbers are swapped still has the same ones.         *)
LEMMA SameAgain ==
  ASSUME NEW s, NEW t, NEW u, SameValues(s, t), \A v : Occurrences(u, v) = Occurrences(s, v)
  PROVE  SameValues(u, t)
BY DEF SameValues

(* A step that leaves the files and who sorts them alone, creates coroutines *)
(* or ends one that has nothing left to do.                                  *)
LEMMA StayFiles ==
  ASSUME Files, Control, UNCHANGED sortVars, created' \in Nat, created <= created',
         \A c \in Coros : is_finished'[c] => is_finished[c] \/ (frames[c] = <<>> /\ cur_unsorted = FileCount),
         exited' <=> exited, main' \in {"merge", "done", "underflow"} => ~exited
  PROVE  Files'
<1>1. Owners'
  <2>1. /\ filesData \in [FileSet -> Seq(Int) \cup {Null}] /\ frames \in [Coros -> Seq(Frame)]
        /\ \A c, d \in Coros : slot[c] # Null /\ slot[c] = slot[d] => c = d
        /\ \A c \in Coros : slot[c] = Null => frames[c] = <<>>
        /\ \A c \in Coros : slot[c] # Null =>
             slot[c] <= cur_unsorted /\ filesData[slot[c]] # Null /\ Partial(filesData[slot[c]], frames[c])
        /\ \A c \in Coros : is_finished[c] => frames[c] = <<>> /\ cur_unsorted = FileCount
        /\ \A c \in Coros : frames[c] # <<>> => c < created
    BY DEF Files, Owners
  <2>2. \A c \in Coros : frames[c] # <<>> => c < created'
    <3>1. Coros \subseteq Int /\ created \in Nat
      BY Constants DEF Control, Types
    <3> QED BY <2>1, <3>1
  <2> QED BY <2>1, <2>2 DEF Owners, sortVars
<1>2. \A i : SlotHolds(i)' <=> SlotHolds(i)
  BY DEF SlotHolds, SameValues, Values, sortVars
<1>3. Filled'
  BY <1>2 DEF Files, Filled, sortVars
<1> QED BY <1>1, <1>3 DEF Files

(* The work of a coroutine on its own file.                                  *)
LEMMA WorkFiles ==
  ASSUME Files, Control, NEW c \in Coros, frames[c] # <<>>,
         NEW new \in Seq(Int), Len(new) = Len(filesData[slot[c]]),
         \A v : Occurrences(new, v) = Occurrences(filesData[slot[c]], v),
         NEW F \in Seq(Frame), Partial(new, F),
         filesData' = [filesData EXCEPT ![slot[c]] = new], frames' = [frames EXCEPT ![c] = F],
         UNCHANGED <<content, cur_unsorted, slot, is_finished, created, exited, main>>,
         ~ is_finished[c]
  PROVE  Files'
<1>1. /\ filesData \in [FileSet -> Seq(Int) \cup {Null}] /\ frames \in [Coros -> Seq(Frame)]
      /\ \A a, b \in Coros : slot[a] # Null /\ slot[a] = slot[b] => a = b
      /\ \A a \in Coros : slot[a] = Null => frames[a] = <<>>
      /\ \A a \in Coros : slot[a] # Null =>
           slot[a] <= cur_unsorted /\ filesData[slot[a]] # Null /\ Partial(filesData[slot[a]], frames[a])
      /\ \A a \in Coros : is_finished[a] => frames[a] = <<>> /\ cur_unsorted = FileCount
      /\ \A a \in Coros : frames[a] # <<>> => a < created
  BY DEF Files, Owners
<1>2. slot[c] # Null /\ slot[c] \in FileSet
  BY <1>1 DEF Control, Types
<1> DEFINE s == slot[c]
<1>3. new # Null
  BY SortAssumption
<1>4. /\ filesData'[s] = new /\ \A i \in FileSet : i # s => filesData'[i] = filesData[i]
      /\ frames'[c] = F /\ \A a \in Coros : a # c => frames'[a] = frames[a]
      /\ filesData' \in [FileSet -> Seq(Int) \cup {Null}] /\ frames' \in [Coros -> Seq(Frame)]
  BY <1>1, <1>2
<1>5. Owners'
  <2>1. \A a \in Coros : slot[a] = Null => frames'[a] = <<>>
    BY <1>1, <1>2, <1>4
  <2>2. ASSUME NEW a \in Coros, slot[a] # Null
        PROVE  slot[a] <= cur_unsorted /\ filesData'[slot[a]] # Null /\ Partial(filesData'[slot[a]], frames'[a])
    <3>1. CASE a = c
      BY <3>1, <2>2, <1>1, <1>3, <1>4
    <3>2. CASE a # c
      <4>1. slot[a] # s /\ slot[a] \in FileSet
        BY <3>2, <2>2, <1>1, <1>2 DEF Control, Types
      <4>2. filesData'[slot[a]] = filesData[slot[a]] /\ frames'[a] = frames[a]
        BY <4>1, <3>2, <1>4
      <4> QED BY <4>2, <2>2, <1>1
    <3> QED BY <3>1, <3>2
  <2>3. \A a \in Coros : is_finished[a] => frames'[a] = <<>> /\ cur_unsorted = FileCount
    BY <1>1, <1>4
  <2>4. \A a \in Coros : frames'[a] # <<>> => a < created
    BY <1>1, <1>4
  <2> QED BY <1>1, <1>4, <2>1, <2>2, <2>3, <2>4 DEF Owners
<1>6. ASSUME NEW i \in FileSet, filesData'[i] # Null PROVE SlotHolds(i)'
  <2>1. filesData[i] # Null
    BY <1>1, <1>2, <1>4, <1>6
  <2>2. SlotHolds(i)
    BY <2>1 DEF Files, Filled
  <2>3. i <= cur_unsorted /\ content[i] # Missing /\ Len(filesData[i]) = Len(content[i])
        /\ SameValues(filesData[i], content[i])
        /\ (Ordered(filesData[i]) \/ \E a \in Coros : slot[a] = i /\ frames[a] # <<>>)
    BY <2>2 DEF SlotHolds
  <2>4. Len(filesData'[i]) = Len(content[i]) /\ SameValues(filesData'[i], content[i])
    <3>1. CASE i = s
      BY <3>1, <2>3, <1>4, SameAgain
    <3>2. CASE i # s
      BY <3>2, <2>3, <1>4
    <3> QED BY <3>1, <3>2
  <2>5. Ordered(filesData'[i]) \/ \E a \in Coros : slot[a] = i /\ frames'[a] # <<>>
    <3>1. CASE i = s /\ F = <<>>
      BY <3>1, <1>4, DonePartial
    <3>2. CASE i = s /\ F # <<>>
      BY <3>2, <1>4
    <3>3. CASE i # s
      <4>1. \A a \in Coros : slot[a] = i => frames'[a] = frames[a]
        BY <3>3, <1>4
      <4> QED BY <4>1, <3>3, <2>3, <1>4
    <3> QED BY <3>1, <3>2, <3>3
  <2>6. SameValues(filesData[i], content[i])' <=> SameValues(filesData'[i], content[i])
    BY DEF SameValues, Values
  <2> QED BY <2>3, <2>4, <2>5, <2>6 DEF SlotHolds
<1>7. Filled'
  <2>1. \A i \in FileSet : filesData[i] # Null => filesData'[i] # Null
    BY <1>3, <1>4
  <2> QED BY <2>1, <1>6 DEF Files, Filled
<1> QED BY <1>5, <1>7 DEF Files

(* Lines 111-114, 183-212 and 335-348.                                       *)
LEMMA TakeFiles ==
  ASSUME Files, Control, NEW c \in Coros, TakeFile(c)
  PROVE  Files'
<1>1. /\ filesData \in [FileSet -> Seq(Int) \cup {Null}] /\ frames \in [Coros -> Seq(Frame)]
      /\ \A a, b \in Coros : slot[a] # Null /\ slot[a] = slot[b] => a = b
      /\ \A a \in Coros : slot[a] = Null => frames[a] = <<>>
      /\ \A a \in Coros : slot[a] # Null =>
           slot[a] <= cur_unsorted /\ filesData[slot[a]] # Null /\ Partial(filesData[slot[a]], frames[a])
      /\ \A a \in Coros : is_finished[a] => frames[a] = <<>> /\ cur_unsorted = FileCount
      /\ \A a \in Coros : frames[a] # <<>> => a < created
  BY DEF Files, Owners
<1>2. /\ \A i \in FileSet : filesData[i] # Null => SlotHolds(i)
      /\ ~exited => \A i \in FileSet : i <= cur_unsorted => filesData[i] # Null
      /\ main \in {"merge", "done", "underflow"} => ~exited
  BY DEF Files, Filled
<1> DEFINE n == cur_unsorted + 1
           data == content[n]
<1>3. /\ coro_this_ptr = c /\ frames[c] = <<>> /\ haveFiles # Null /\ cur_unsorted' = n
      /\ UNCHANGED <<coro_list, is_finished, content, main, created>>
  BY DEF TakeFile, mainVars
<1>4. /\ cur_unsorted \in Nat /\ cur_unsorted < FileCount /\ haveFiles = n /\ n \in FileSet
      /\ n # Null /\ FileCount \in Nat
  <2>1. cur_unsorted \in Nat /\ FileCount \in Nat
    BY Constants DEF Control, Types
  <2>2. cur_unsorted < FileCount /\ haveFiles = n
    BY <1>3 DEF haveFiles
  <2>3. n \in FileSet
    BY <2>1, <2>2 DEF FileSet
  <2> QED BY <2>1, <2>2, <2>3, Constants
<1>5. main = "wait" /\ c \in allocated /\ c < created
  BY <1>3 DEF Control, Phases, Alive, Linked
<1>6. slot \in [Coros -> FileSet \cup {Null}] /\ content \in [FileSet -> Contents]
  BY DEF Control, Types
<1>7. \A a \in Coros : ~ is_finished[a]
  BY <1>1, <1>4
<1>8. filesData[n] = Null
  <2>1. ~ (n <= cur_unsorted)
    BY <1>4
  <2> QED BY <2>1, <1>2, <1>4 DEF SlotHolds
<1>9. \A a \in Coros : slot[a] # n
  BY <1>1, <1>4, <1>8
<1>10. \A i \in FileSet : i <= cur_unsorted => i <= n
  BY <1>4 DEF FileSet
<1>11. \A i \in FileSet : i <= n => i <= cur_unsorted \/ i = n
  BY <1>4 DEF FileSet
<1>12. \A s, t : SameValues(s, t)' <=> SameValues(s, t)
  BY <1>3 DEF SameValues, Values
<1>13. CASE data = Missing
  <2>1. exited' = TRUE /\ UNCHANGED <<filesData, slot, frames>>
    BY <1>13 DEF TakeFile
  <2>2. Owners'
    <3>1. \A a \in Coros : slot[a] # Null => slot[a] <= n
      BY <1>1, <1>6, <1>10
    <3>2. \A a \in Coros : ~ is_finished'[a]
      BY <1>3, <1>7
    <3> QED BY <1>1, <1>3, <2>1, <3>1, <3>2 DEF Owners
  <2>3. \A i \in FileSet : filesData[i] # Null => SlotHolds(i)'
    BY <1>2, <1>3, <1>10, <1>12, <2>1 DEF SlotHolds
  <2>4. Filled'
    BY <1>3, <1>5, <2>1, <2>3 DEF Filled
  <2> QED BY <2>2, <2>4 DEF Files
<1>14. CASE data # Missing
  <2> DEFINE F == Calls(1, Len(data))
  <2>1. /\ filesData' = [filesData EXCEPT ![n] = data] /\ slot' = [slot EXCEPT ![c] = n]
        /\ frames' = [frames EXCEPT ![c] = F] /\ UNCHANGED exited
    BY <1>4, <1>14 DEF TakeFile
  <2>2. data \in Seq(Int) /\ data # Null
    BY <1>4, <1>6, <1>14, SortAssumption
  <2>3. F \in Seq(Frame) /\ Partial(data, F)
    BY <2>2, BeginsPartial
  <2> HIDE DEF data, F
  <2>4. /\ filesData'[n] = data /\ \A i \in FileSet : i # n => filesData'[i] = filesData[i]
        /\ slot'[c] = n /\ \A a \in Coros : a # c => slot'[a] = slot[a]
        /\ frames'[c] = F /\ \A a \in Coros : a # c => frames'[a] = frames[a]
        /\ filesData' \in [FileSet -> Seq(Int) \cup {Null}] /\ frames' \in [Coros -> Seq(Frame)]
    BY <1>1, <1>4, <1>6, <2>1, <2>2, <2>3
  <2>5. Owners'
    <3>1. \A a, b \in Coros : slot'[a] # Null /\ slot'[a] = slot'[b] => a = b
      BY <1>1, <1>9, <2>4
    <3>2. \A a \in Coros : slot'[a] = Null => frames'[a] = <<>>
      BY <1>1, <1>4, <2>4
    <3>3. ASSUME NEW a \in Coros, slot'[a] # Null
          PROVE  slot'[a] <= n /\ filesData'[slot'[a]] # Null /\ Partial(filesData'[slot'[a]], frames'[a])
      <4>1. CASE a = c
        BY <4>1, <1>4, <2>2, <2>3, <2>4
      <4>2. CASE a # c
        <5>1. slot'[a] = slot[a] /\ slot[a] \in FileSet /\ slot[a] # n /\ frames'[a] = frames[a]
          BY <4>2, <3>3, <1>6, <1>9, <2>4
        <5> QED BY <5>1, <3>3, <1>1, <1>10, <2>4
      <4> QED BY <4>1, <4>2
    <3>4. \A a \in Coros : ~ is_finished'[a]
      BY <1>3, <1>7
    <3>5. \A a \in Coros : frames'[a] # <<>> => a < created
      BY <1>1, <1>5, <2>4
    <3> QED BY <1>3, <2>4, <3>1, <3>2, <3>3, <3>4, <3>5 DEF Owners
  <2>6. ASSUME NEW i \in FileSet, filesData'[i] # Null PROVE SlotHolds(i)'
    <3>1. CASE i = n
      <4>1. filesData'[i] = content[i] /\ i <= n /\ content[i] # Missing
        BY <3>1, <1>4, <1>14, <2>4 DEF data
      <4>2. Len(filesData'[i]) = Len(content[i]) /\ SameValues(filesData'[i], content[i])
        BY <4>1 DEF SameValues
      <4>3. Ordered(filesData'[i]) \/ \E a \in Coros : slot'[a] = i /\ frames'[a] # <<>>
        <5>1. CASE F = <<>>
          BY <5>1, <3>1, <2>2, <2>3, <2>4, DonePartial
        <5>2. CASE F # <<>>
          BY <5>2, <3>1, <2>4
        <5> QED BY <5>1, <5>2
      <4> QED BY <4>1, <4>2, <4>3, <1>3, <1>12 DEF SlotHolds
    <3>2. CASE i # n
      <4>1. filesData'[i] = filesData[i] /\ filesData[i] # Null
        BY <3>2, <2>4, <2>6
      <4>2. /\ i <= cur_unsorted /\ content[i] # Missing /\ Len(filesData[i]) = Len(content[i])
            /\ SameValues(filesData[i], content[i])
            /\ Ordered(filesData[i]) \/ \E a \in Coros : slot[a] = i /\ frames[a] # <<>>
        BY <4>1, <1>2 DEF SlotHolds
      <4>3. i <= n
        BY <4>2, <1>10
      <4>4. \A a \in Coros : slot[a] = i /\ frames[a] # <<>> => slot'[a] = i /\ frames'[a] # <<>>
        BY <1>3, <2>4
      <4>5. Ordered(filesData'[i]) \/ \E a \in Coros : slot'[a] = i /\ frames'[a] # <<>>
        BY <4>1, <4>2, <4>4
      <4> QED BY <4>1, <4>2, <4>3, <4>5, <1>3, <1>12 DEF SlotHolds
    <3> QED BY <3>1, <3>2
  <2>7. Filled'
    <3>1. exited' <=> exited
      BY <2>1
    <3>2. ~exited => \A i \in FileSet : i <= n => filesData'[i] # Null
      BY <1>2, <1>11, <2>2, <2>4
    <3> QED BY <1>3, <1>5, <2>6, <3>1, <3>2 DEF Filled
  <2> QED BY <2>5, <2>7 DEF Files
<1> QED BY <1>13, <1>14

(* What a coroutine that is sorting works on.                                *)
LEMMA WorkIs ==
  ASSUME Files, Control, NEW c \in Coros, frames[c] # <<>>, coro_this_ptr = c
  PROVE  /\ slot[c] \in FileSet /\ filesData[slot[c]] \in Seq(Int) /\ frames[c] \in Seq(Frame)
         /\ Partial(filesData[slot[c]], frames[c]) /\ ~ is_finished[c] /\ Head(frames[c]) = frames[c][1]
         /\ filesData \in [FileSet -> Seq(Int) \cup {Null}] /\ frames \in [Coros -> Seq(Frame)]
<1>1. slot[c] # Null /\ slot[c] \in FileSet
  BY DEF Files, Owners, Control, Types
<1>2. ~ is_finished[c]
  BY DEF Control, Alive
<1>3. frames[c] \in Seq(Frame)
  BY DEF Files, Owners
<1> QED BY <1>1, <1>2, <1>3, HeadTailProperties DEF Files, Owners

(* Lines 228-241 and 249-256.                                                *)
LEMMA IterateFiles ==
  ASSUME Files, Control, NEW c \in Coros, Iterate(c)
  PROVE  Files'
<1> DEFINE arr == filesData[slot[c]]
           F == frames[c]
           f == F[1]
           moved == IF arr[f.j] < arr[f.high] THEN 1 ELSE 0
           new == Compare(arr, f)
           G == <<[f EXCEPT !.i = @ + moved, !.j = @ + 1]>> \o Tail(F)
<1>1. /\ coro_this_ptr = c /\ frames[c] # <<>>
      /\ UNCHANGED <<content, cur_unsorted, slot, main, created, is_finished, exited>>
  BY DEF Iterate, Yield, coroVars, mainVars
<1>2. /\ slot[c] \in FileSet /\ arr \in Seq(Int) /\ F \in Seq(Frame) /\ Partial(arr, F)
      /\ ~ is_finished[c] /\ Head(F) = f
      /\ filesData \in [FileSet -> Seq(Int) \cup {Null}] /\ frames \in [Coros -> Seq(Frame)]
  BY <1>1, WorkIs
<1>3. /\ f.j < f.high /\ filesData' = [filesData EXCEPT ![slot[c]] = new]
      /\ frames' = [frames EXCEPT ![c] = G]
  BY <1>2 DEF Iterate
<1>4. new \in Seq(Int) /\ G \in Seq(Frame) /\ Partial(new, G)
  <2>1. moved = IF arr[F[1].j] < arr[F[1].high] THEN 1 ELSE 0
    OBVIOUS
  <2> HIDE DEF moved, arr, F
  <2> QED BY <2>1, <1>1, <1>2, <1>3, IteratesPartial DEF F
<1>5. f \in Frame /\ Good(arr, f)
  <2>1. Len(F) \in Nat \ {0}
    BY <1>1, <1>2, LenProperties, EmptySeq
  <2>2. 1 \in 1 .. Len(F)
    BY <2>1
  <2> QED BY <2>2, <1>2, ElementOfSeq DEF Partial
<1>6. f.j \in 1 .. Len(arr) /\ f.i + 1 \in 1 .. Len(arr)
  BY <1>2, <1>5, FrameFacts
<1>7. new = arr \/ new = Swap(arr, f.i + 1, f.j)
  BY DEF Compare
<1> HIDE DEF arr, f, new, G
<1>8. Len(new) = Len(arr) /\ \A v : Occurrences(new, v) = Occurrences(arr, v)
  <2>1. CASE new = arr
    BY <2>1
  <2>2. CASE new = Swap(arr, f.i + 1, f.j)
    BY <2>2, <1>2, <1>6, SwapIs, SwapKeeps
  <2> QED BY <2>1, <2>2, <1>7
<1> QED BY <1>1, <1>2, <1>3, <1>4, <1>8, WorkFiles DEF arr

(* Lines 257-258 and 273-274.                                                *)
LEMMA EndFiles ==
  ASSUME Files, Control, NEW c \in Coros, EndPartition(c)
  PROVE  Files'
<1> DEFINE arr == filesData[slot[c]]
           F == frames[c]
           f == F[1]
           new == Swap(arr, f.i + 1, f.high)
           G == Halves(f, f.i + 1) \o Tail(F)
<1>1. /\ coro_this_ptr = c /\ frames[c] # <<>>
      /\ UNCHANGED <<content, cur_unsorted, slot, main, created, is_finished, exited>>
  BY DEF EndPartition, coroVars, mainVars
<1>2. /\ slot[c] \in FileSet /\ arr \in Seq(Int) /\ F \in Seq(Frame) /\ Partial(arr, F)
      /\ ~ is_finished[c] /\ Head(F) = f
      /\ filesData \in [FileSet -> Seq(Int) \cup {Null}] /\ frames \in [Coros -> Seq(Frame)]
  BY <1>1, WorkIs
<1>3. /\ f.j = f.high /\ filesData' = [filesData EXCEPT ![slot[c]] = new]
      /\ frames' = [frames EXCEPT ![c] = G]
  BY <1>2 DEF EndPartition
<1>4. /\ f.i + 1 \in 1 .. Len(arr) /\ f.high \in 1 .. Len(arr)
      /\ new \in Seq(Int) /\ G \in Seq(Frame) /\ Partial(new, G)
  <2> HIDE DEF arr, F
  <2> QED BY <1>1, <1>2, <1>3, EndsPartial DEF F
<1>5. Len(new) = Len(arr) /\ \A v : Occurrences(new, v) = Occurrences(arr, v)
  <2> HIDE DEF arr, f
  <2> QED BY <1>2, <1>4, SwapIs, SwapKeeps
<1> HIDE DEF arr, f, new, G
<1> QED BY <1>1, <1>2, <1>3, <1>4, <1>5, WorkFiles DEF arr

(* A step of the program keeps the files as they should be.                  *)
LEMMA FilesStep ==
  ASSUME Files, Control, [Next]_vars
  PROVE  Files'
<1>1. created \in Nat
  BY DEF Control, Types
<1>2. CASE UNCHANGED vars
  BY <1>1, <1>2, StayFiles DEF vars, coroVars, sortVars, mainVars, Files, Filled
<1>3. CASE ~ exited /\ Step
  <2>1. CASE Start \/ CreateEnds \/ Switch \/ WaitEnds \/ MergeStep \/ MergeUnderflow \/ MergeEnds
    <3>1. UNCHANGED <<sortVars, created, exited, is_finished>>
      BY <2>1 DEF Start, SchedInit, CreateEnds, Switch, WaitSwitches, WaitEnds, MergeStep, MergeUnderflow,
                  MergeEnds, coroVars, mainVars
    <3> QED BY <3>1, <1>1, <1>3, StayFiles
  <2>2. CASE Create
    <3>1. /\ UNCHANGED <<sortVars, main, exited>> /\ created' = created + 1
          /\ is_finished' = [is_finished EXCEPT ![created] = FALSE]
      BY <2>2 DEF Create, New
    <3>2. \A c \in Coros : is_finished'[c] => is_finished[c]
      BY <3>1 DEF Control, Types
    <3> QED BY <3>1, <3>2, <1>1, <1>3, StayFiles
  <2>3. ASSUME NEW c \in Coros, TakeFile(c) PROVE Files'
    BY <2>3, TakeFiles
  <2>4. ASSUME NEW c \in Coros, Iterate(c) PROVE Files'
    BY <2>4, IterateFiles
  <2>5. ASSUME NEW c \in Coros, EndPartition(c) PROVE Files'
    BY <2>5, EndFiles
  <2>6. ASSUME NEW c \in Coros, Finish(c) PROVE Files'
    <3>1. /\ coro_this_ptr = c /\ frames[c] = <<>> /\ haveFiles = Null
          /\ is_finished' = [is_finished EXCEPT ![c] = TRUE] /\ exited' = ~ is_sched_waiting
          /\ UNCHANGED <<sortVars, main, created>>
      BY <2>6 DEF Finish, Return, mainVars
    <3>2. exited' <=> exited
      BY <3>1, <1>3 DEF Control, Alive
    <3>3. cur_unsorted = FileCount
      <4>1. cur_unsorted \in 0 .. FileCount /\ FileCount \in Nat
        BY Constants DEF Control, Types
      <4>2. ~ (cur_unsorted < FileCount)
        <5>1. CASE cur_unsorted < FileCount
          <6>1. cur_unsorted + 1 \in Int
            BY <4>1
          <6> QED BY <3>1, <5>1, <6>1, Constants DEF haveFiles
        <5> QED BY <5>1
      <4> QED BY <4>1, <4>2
    <3>4. \A d \in Coros : is_finished'[d] => is_finished[d] \/ (frames[d] = <<>> /\ cur_unsorted = FileCount)
      BY <3>1, <3>3 DEF Control, Types
    <3> QED BY <3>1, <3>2, <3>4, <1>1, <1>3, StayFiles
  <2>7. ASSUME NEW c \in Coros, Reap(c) PROVE Files'
    <3>1. UNCHANGED <<sortVars, main, created, exited, is_finished>>
      BY <2>7 DEF Reap, WaitReturns, mainVars
    <3> QED BY <3>1, <1>1, <1>3, StayFiles
  <2> QED BY <1>2, <1>3, <2>1, <2>2, <2>3, <2>4, <2>5, <2>6, <2>7 DEF Step, MergeLoops
<1> QED BY <1>2, <1>3 DEF Next

(* At first no file is taken.                                                *)
LEMMA InitFiles == Init => Files
<1> SUFFICES ASSUME Init PROVE Files
  OBVIOUS
<1>1. /\ is_finished = [c \in Coros |-> FALSE] /\ exited = FALSE
      /\ cur_unsorted = 0 /\ filesData = [i \in FileSet |-> Null] /\ main = "start"
      /\ slot = [c \in Coros |-> Null] /\ frames = [c \in Coros |-> <<>>]
  BY DEF Init, CoroInit
<1>2. Owners
  <2>1. frames \in [Coros -> Seq(Frame)]
    BY <1>1, EmptySeq
  <2> QED BY <1>1, <2>1 DEF Owners
<1>3. Filled
  <2>1. \A i \in FileSet : ~ (i <= 0)
    BY Constants DEF FileSet
  <2> QED BY <1>1, <2>1 DEF Filled
<1> QED BY <1>2, <1>3 DEF Files

(* When nobody is left in the list, every file is in order.                  *)
LEMMA WaitedSorted ==
  ASSUME Files, Control, ~ exited, coro_list = <<>>, main \notin {"start", "create"}
  PROVE  \A i \in FileSet : filesData[i] \in Seq(Int) /\ filesData[i] # Null /\ Ordered(filesData[i])
<1>1. created = Lesser(coroutines_num, FileCount)
  BY DEF Control, Phases
<1>2. \A c \in Coros : c \notin allocated
  <2>1. 1 .. Len(coro_list) = {}
    OBVIOUS
  <2> QED BY <2>1 DEF Control, Linked
<1>3. \A c \in Coros : c < created => is_finished[c]
  BY <1>2 DEF Control, Linked
<1>4. 0 \in Coros /\ 0 < created
  BY <1>1, Constants
<1>5. cur_unsorted = FileCount /\ \A c \in Coros : frames[c] = <<>>
  BY <1>3, <1>4 DEF Files, Owners
<1>6. \A i \in FileSet : i <= cur_unsorted
  BY <1>5, Constants DEF FileSet
<1>7. \A i \in FileSet : filesData[i] # Null /\ Ordered(filesData[i])
  BY <1>5, <1>6 DEF Files, Filled, SlotHolds
<1> QED BY <1>7 DEF Files, Owners

(* So it is when main merges.                                                *)
LEMMA AllSorted ==
  ASSUME Files, Control, main \in {"merge", "done", "underflow"}
  PROVE  \A i \in FileSet : filesData[i] \in Seq(Int) /\ filesData[i] # Null /\ Ordered(filesData[i])
<1>1. coro_list = <<>> /\ ~ exited
  BY DEF Files, Filled, Control, Phases
<1> QED BY <1>1, WaitedSorted

(* Every file is sorted in a slot of its own, whoever sorts it and wherever  *)
(* that one yields (solution.c:228-277 and 331-363), and the merge finds all *)
(* of them sorted.                                                           *)
THEOREM FilesSorted == Spec => []SlotsPaired
<1>1. Control /\ Files => SlotsPaired
  <2> SUFFICES ASSUME Control, Files PROVE SlotsPaired
    OBVIOUS
  <2>1. \A i \in FileSet : filesData[i] # Null => filesData[i] \in Seq(Int)
    BY DEF Files, Owners
  <2>2. ASSUME NEW i \in FileSet, filesData[i] # Null
        PROVE  /\ i <= cur_unsorted
               /\ Len(filesData[i]) = Len(content[i]) /\ SameValues(filesData[i], content[i])
               /\ Sorted(filesData[i]) \/ \E c \in Coros : slot[c] = i /\ frames[c] # <<>>
    BY <2>1, <2>2, OrderedSorted DEF Files, Filled, SlotHolds
  <2>3. \A c, d \in Coros : c # d /\ slot[c] = slot[d] => slot[c] = Null
    BY DEF Files, Owners
  <2>4. main \in {"merge", "done", "underflow"} =>
          \A i \in FileSet : filesData[i] # Null /\ Sorted(filesData[i])
    BY AllSorted, OrderedSorted
  <2> QED BY <2>2, <2>3, <2>4 DEF SlotsPaired
<1>2. Init => Control /\ Files
  BY InitControl, InitFiles
<1>3. Control /\ Files /\ [Next]_vars => (Control /\ Files)'
  BY ControlStep, FilesStep
<1> QED BY <1>1, <1>2, <1>3, PTL DEF Spec

-----------------------------------------------------------------------------
(* The merge *)

(* The places of the files that hold v and have been merged.                 *)
Taken(v) ==
    {p \in FileSet \X (1 .. Len(output)) : p[2] <= indices[p[1]] /\ filesData[p[1]][p[2]] = v}

(* What has been merged is in order and below what has not, and is what the  *)
(* indices say.                                                              *)
Merged ==
    /\ output \in Seq(Int) /\ Ordered(output)
    /\ main \in {"start", "create", "wait"} => output = <<>> /\ indices = [i \in FileSet |-> 0]
    /\ main \in {"merge", "done"} =>
        /\ \A i \in FileSet : indices[i] <= Len(filesData[i]) /\ indices[i] <= Len(output)
        /\ \A v : Occurrences(output, v) = Cardinality(Taken(v))
        /\ \A i \in Left : \A a \in 1 .. Len(output) : output[a] <= Next1(i)
        /\ \A a \in 1 .. Len(output) : output[a] <= INT_MAX
    /\ main = "done" => Left = {}

(* A sequence with one more number at its end.                               *)
LEMMA Appended ==
  ASSUME NEW s \in Seq(Int), NEW x \in Int
  PROVE  /\ Append(s, x) \in Seq(Int) /\ Len(Append(s, x)) = Len(s) + 1 /\ Append(s, x)[Len(s) + 1] = x
         /\ \A a \in 1 .. Len(s) : Append(s, x)[a] = s[a]
         /\ \A v : Occurrences(Append(s, x), v) = Occurrences(s, v) + IF x = v THEN 1 ELSE 0
<1> DEFINE t == Append(s, x)
           N == Len(s)
<1>1. N \in Nat /\ DOMAIN s = 1 .. N
  BY LenProperties
<1>2. /\ t \in Seq(Int) /\ Len(t) = N + 1 /\ t[N + 1] = x /\ \A a \in 1 .. N : t[a] = s[a]
  BY AppendProperties
<1>3. DOMAIN t = 1 .. N + 1
  BY <1>2, LenProperties
<1>4. IsFiniteSet(1 .. N)
  BY <1>1, FS_Interval
<1> HIDE DEF t, N
<1>5. ASSUME NEW v PROVE Occurrences(t, v) = Occurrences(s, v) + IF x = v THEN 1 ELSE 0
  <2> DEFINE S == {k \in 1 .. N : s[k] = v}
             T == {k \in 1 .. N + 1 : t[k] = v}
  <2>1. IsFiniteSet(S) /\ Cardinality(S) \in Nat
    BY <1>4, FS_Subset, FS_CardinalityType
  <2>2. N + 1 \notin S /\ \A k \in 1 .. N + 1 : k \in 1 .. N \/ k = N + 1
    BY <1>1
  <2>3. \A k \in 1 .. N : k \in 1 .. N + 1
    BY <1>1
  <2>4. N + 1 \in 1 .. N + 1
    BY <1>1
  <2>5. CASE x = v
    <3>1. T = S \cup {N + 1}
      BY <2>2, <2>3, <2>4, <2>5, <1>2
    <3>2. Cardinality(S \cup {N + 1}) = Cardinality(S) + 1
      BY <2>1, <2>2, FS_AddElement
    <3> QED BY <3>1, <3>2, <2>5, <1>1, <1>3 DEF Occurrences
  <2>6. CASE x # v
    <3>1. T = S
      BY <2>2, <2>3, <2>6, <1>2
    <3> HIDE DEF S
    <3>2. Cardinality(S) = Cardinality(S) + 0
      BY <2>1
    <3>3. Cardinality(T) = Cardinality(S) + 0
      BY <3>1, <3>2
    <3> QED BY <3>3, <2>6, <1>1, <1>3 DEF Occurrences, S
  <2> QED BY <2>5, <2>6
<1> QED BY <1>2, <1>5 DEF t, N

(* What is next of a file that has numbers left.                             *)
LEMMA NextIs ==
  ASSUME Files, Control, Merged, main = "merge", NEW i \in Left
  PROVE  /\ i \in FileSet /\ filesData[i] \in Seq(Int) /\ Ordered(filesData[i])
         /\ indices[i] \in Nat /\ Len(filesData[i]) \in Nat /\ indices[i] + 1 \in 1 .. Len(filesData[i])
         /\ Next1(i) = filesData[i][indices[i] + 1] /\ Next1(i) \in Int
<1>1. i \in FileSet /\ indices[i] < Len(filesData[i])
  BY DEF Left
<1>2. filesData[i] \in Seq(Int) /\ Ordered(filesData[i])
  BY <1>1, AllSorted
<1>3. indices[i] \in Nat
  BY <1>1 DEF Control, Types
<1>4. Len(filesData[i]) \in Nat
  BY <1>2, LenProperties
<1>5. indices[i] + 1 \in 1 .. Len(filesData[i])
  BY <1>1, <1>3, <1>4
<1>6. filesData[i][indices[i] + 1] \in Int
  BY <1>2, <1>5, ElementOfSeq
<1> QED BY <1>1, <1>2, <1>3, <1>4, <1>5, <1>6 DEF Next1

(* One more number, not less than any of before.                             *)
LEMMA StaysOrdered ==
  ASSUME NEW s \in Seq(Int), NEW x \in Int, Ordered(s), \A a \in 1 .. Len(s) : s[a] <= x
  PROVE  Ordered(Append(s, x))
<1> DEFINE t == Append(s, x)
           N == Len(s)
<1>1. N \in Nat /\ Len(t) = N + 1 /\ t[N + 1] = x /\ \A a \in 1 .. N : t[a] = s[a]
  BY Appended, LenProperties
<1>2. \A a, b \in 1 .. N : a < b => s[a] <= s[b]
  BY DEF Ordered
<1>3. \A a \in 1 .. N : s[a] <= x
  OBVIOUS
<1> HIDE DEF t, N
<1>4. ASSUME NEW a \in 1 .. N + 1, NEW b \in 1 .. N + 1, a < b PROVE t[a] <= t[b]
  <2>1. a \in 1 .. N /\ (b \in 1 .. N \/ b = N + 1)
    BY <1>1, <1>4
  <2> QED BY <2>1, <1>1, <1>2, <1>3, <1>4
<1> QED BY <1>1, <1>4 DEF Ordered, t

(* One more number of file i has been merged.                                *)
LEMMA TakenMore ==
  ASSUME NEW i \in FileSet, NEW x, indices \in [FileSet -> Nat], output \in Seq(Int),
         indices[i] <= Len(output), x = filesData[i][indices[i] + 1],
         \A k \in FileSet : indices[k] <= Len(output),
         indices' = [indices EXCEPT ![i] = @ + 1], Len(output') = Len(output) + 1,
         filesData' = filesData, NEW v
  PROVE  Cardinality(Taken(v)') = Cardinality(Taken(v)) + IF x = v THEN 1 ELSE 0
<1> DEFINE N == Len(output)
           n == indices[i] + 1
           T == Taken(v)
           U == {p \in FileSet \X (1 .. N + 1) : p[2] <= indices'[p[1]] /\ filesData[p[1]][p[2]] = v}
<1>1. N \in Nat /\ n \in 1 .. N + 1 /\ indices[i] \in Nat
  BY LenProperties
<1>2. Taken(v)' = U
  BY DEF Taken
<1>3. IsFiniteSet(T) /\ Cardinality(T) \in Nat
  <2>1. IsFiniteSet(FileSet) /\ IsFiniteSet(1 .. N)
    BY <1>1, Constants, FS_Interval DEF FileSet
  <2>2. IsFiniteSet(FileSet \X (1 .. N))
    BY <2>1, FS_Product
  <2>3. T \in SUBSET (FileSet \X (1 .. N))
    BY DEF Taken
  <2> QED BY <2>2, <2>3, FS_Subset, FS_CardinalityType
<1>4. \A k \in FileSet, a \in 1 .. N + 1 :
        a <= indices'[k] <=> (a \in 1 .. N /\ a <= indices[k]) \/ (k = i /\ a = n)
  <2> SUFFICES ASSUME NEW k \in FileSet, NEW a \in 1 .. N + 1
               PROVE  a <= indices'[k] <=> (a \in 1 .. N /\ a <= indices[k]) \/ (k = i /\ a = n)
    OBVIOUS
  <2>1. indices[k] \in Nat /\ indices[k] <= N
    OBVIOUS
  <2>2. CASE k = i
    <3>1. indices'[k] = indices[i] + 1
      BY <2>2
    <3> HIDE DEF N
    <3> QED BY <3>1, <2>1, <2>2, <1>1
  <2>3. CASE k # i
    <3>1. indices'[k] = indices[k]
      BY <2>3
    <3> HIDE DEF N
    <3> QED BY <3>1, <2>1, <2>3, <1>1
  <2> QED BY <2>2, <2>3
<1>5. <<i, n>> \notin T
  <2>1. ~ (n <= indices[i])
    BY <1>1
  <2> QED BY <2>1 DEF Taken
<1>6. ASSUME NEW k, NEW a
      PROVE  <<k, a>> \in U <=> <<k, a>> \in T \/ (x = v /\ k = i /\ a = n)
  <2>1. <<k, a>> \in U <=> k \in FileSet /\ a \in 1 .. N + 1 /\ a <= indices'[k] /\ filesData[k][a] = v
    OBVIOUS
  <2>2. <<k, a>> \in T <=> k \in FileSet /\ a \in 1 .. N /\ a <= indices[k] /\ filesData[k][a] = v
    BY DEF Taken
  <2>3. a \in 1 .. N => a \in 1 .. N + 1
    BY <1>1
  <2> HIDE DEF T, U, N, n
  <2> QED BY <2>1, <2>2, <2>3, <1>1, <1>4 DEF n
<1>7. \A p \in U : p = <<p[1], p[2]>>
  OBVIOUS
<1>8. \A p \in T : p = <<p[1], p[2]>>
  BY DEF Taken
<1> HIDE DEF T, U, n
<1>9. CASE x = v
  <2>1. U = T \cup {<<i, n>>}
    <3>1. \A p \in U : p \in T \cup {<<i, n>>}
      <4> SUFFICES ASSUME NEW p \in U PROVE p \in T \/ p = <<i, n>>
        OBVIOUS
      <4>1. p = <<p[1], p[2]>>
        BY <1>7
      <4>2. <<p[1], p[2]>> \in U
        BY <4>1
      <4>3. <<p[1], p[2]>> \in T \/ (p[1] = i /\ p[2] = n)
        BY <4>2, <1>6
      <4> QED BY <4>1, <4>3
    <3>2. \A p \in T : p \in U
      <4> SUFFICES ASSUME NEW p \in T PROVE p \in U
        OBVIOUS
      <4>1. p = <<p[1], p[2]>>
        BY <1>8
      <4>2. <<p[1], p[2]>> \in T
        BY <4>1
      <4>3. <<p[1], p[2]>> \in U
        BY <4>2, <1>6
      <4> QED BY <4>1, <4>3
    <3>3. <<i, n>> \in U
      BY <1>6, <1>9
    <3> QED BY <3>1, <3>2, <3>3
  <2>2. Cardinality(T \cup {<<i, n>>}) = Cardinality(T) + 1
    BY <1>3, <1>5, FS_AddElement
  <2>3. Cardinality(U) = Cardinality(T) + 1
    BY <2>1, <2>2
  <2> QED BY <2>3, <1>2, <1>9 DEF T
<1>10. CASE x # v
  <2>1. U = T
    <3>1. \A p \in U : p \in T
      <4> SUFFICES ASSUME NEW p \in U PROVE p \in T
        OBVIOUS
      <4>1. p = <<p[1], p[2]>>
        BY <1>7
      <4>2. <<p[1], p[2]>> \in U
        BY <4>1
      <4>3. <<p[1], p[2]>> \in T
        BY <4>2, <1>6, <1>10
      <4> QED BY <4>1, <4>3
    <3>2. \A p \in T : p \in U
      <4> SUFFICES ASSUME NEW p \in T PROVE p \in U
        OBVIOUS
      <4>1. p = <<p[1], p[2]>>
        BY <1>8
      <4>2. <<p[1], p[2]>> \in T
        BY <4>1
      <4>3. <<p[1], p[2]>> \in U
        BY <4>2, <1>6
      <4> QED BY <4>1, <4>3
    <3> QED BY <3>1, <3>2
  <2>2. Cardinality(T) = Cardinality(T) + 0
    BY <1>3
  <2>3. Cardinality(U) = Cardinality(T) + 0
    BY <2>1, <2>2
  <2> QED BY <2>3, <1>2, <1>10 DEF T
<1> QED BY <1>9, <1>10

(* Lines 303-318.                                                            *)
LEMMA StepMerged ==
  ASSUME Files, Control, Merged, MergeStep
  PROVE  Merged'
<1>1. PICK i \in FileSet :
        Chosen(i) /\ output' = Append(output, Next1(i)) /\ indices' = [indices EXCEPT ![i] = @ + 1]
  BY DEF MergeStep
<1> DEFINE x == Next1(i)
           N == Len(output)
           data == filesData[i]
           n == indices[i]
<1>2. main = "merge" /\ main' = "merge" /\ filesData' = filesData
  BY DEF MergeStep, sortVars
<1>3. i \in Left /\ x < INT_MAX /\ \A k \in Left : x <= Next1(k)
  BY <1>1 DEF Chosen, Smallest
<1>4. /\ data \in Seq(Int) /\ Ordered(data) /\ n \in Nat /\ Len(data) \in Nat /\ n + 1 \in 1 .. Len(data)
      /\ x = data[n + 1] /\ x \in Int
  BY <1>2, <1>3, NextIs
<1>5. /\ output \in Seq(Int) /\ Ordered(output)
      /\ \A k \in FileSet : indices[k] <= Len(filesData[k]) /\ indices[k] <= N
      /\ \A v : Occurrences(output, v) = Cardinality(Taken(v))
      /\ \A k \in Left : \A a \in 1 .. N : output[a] <= Next1(k)
      /\ \A a \in 1 .. N : output[a] <= INT_MAX
  BY <1>2 DEF Merged
<1>6. indices \in [FileSet -> Nat] /\ INT_MAX \in Int
  BY SortAssumption DEF Control, Types
<1>7. /\ output' \in Seq(Int) /\ Len(output') = N + 1 /\ output'[N + 1] = x
      /\ \A a \in 1 .. N : output'[a] = output[a]
      /\ \A v : Occurrences(output', v) = Occurrences(output, v) + IF x = v THEN 1 ELSE 0
  BY <1>1, <1>4, <1>5, Appended
<1>8. Ordered(output')
  BY <1>1, <1>3, <1>4, <1>5, StaysOrdered
<1>9. indices'[i] = n + 1 /\ \A k \in FileSet : k # i => indices'[k] = indices[k]
  BY <1>1, <1>6
<1>10. N \in Nat
  BY <1>5, LenProperties
<1>11. ASSUME NEW k \in FileSet PROVE indices'[k] <= Len(filesData[k]) /\ indices'[k] <= Len(output')
  <2>1. indices[k] \in Nat /\ indices[k] <= Len(filesData[k]) /\ indices[k] <= N
    BY <1>5, <1>6
  <2>2. CASE k = i
    <3> HIDE DEF N, data, n
    <3>1. n + 1 <= Len(data) /\ n + 1 <= N + 1
      BY <2>1, <2>2, <1>4, <1>10 DEF n
    <3> QED BY <3>1, <2>2, <1>7, <1>9 DEF data
  <2>3. CASE k # i
    <3> HIDE DEF N, data, n
    <3>1. indices[k] <= N + 1
      BY <2>1, <1>10
    <3> QED BY <3>1, <2>1, <2>3, <1>7, <1>9
  <2> QED BY <2>2, <2>3
<1>12. ASSUME NEW v PROVE Occurrences(output', v) = Cardinality(Taken(v)')
  <2>1. Cardinality(Taken(v)') = Cardinality(Taken(v)) + IF x = v THEN 1 ELSE 0
    <3>1. /\ indices \in [FileSet -> Nat] /\ output \in Seq(Int)
          /\ indices[i] <= Len(output) /\ x = filesData[i][indices[i] + 1]
          /\ \A k \in FileSet : indices[k] <= Len(output)
          /\ indices' = [indices EXCEPT ![i] = @ + 1] /\ Len(output') = Len(output) + 1
          /\ filesData' = filesData
      BY <1>1, <1>2, <1>4, <1>5, <1>6, <1>7
    <3> HIDE DEF x
    <3> QED BY <3>1, TakenMore
  <2>2. Occurrences(output', v) = Cardinality(Taken(v)) + IF x = v THEN 1 ELSE 0
    BY <1>5, <1>7
  <2> HIDE DEF x
  <2> QED BY <2>1, <2>2
<1>13. \A a \in 1 .. N + 1 : output'[a] <= x /\ output'[a] \in Int
  <2> SUFFICES ASSUME NEW a \in 1 .. N + 1 PROVE output'[a] <= x /\ output'[a] \in Int
    OBVIOUS
  <2>1. CASE a = N + 1
    BY <2>1, <1>4, <1>7
  <2>2. CASE a # N + 1
    <3>1. a \in 1 .. N
      BY <2>2, <1>10
    <3> QED BY <3>1, <1>3, <1>5, <1>7, ElementOfSeq
  <2> QED BY <2>1, <2>2
<1>14. ASSUME NEW k \in FileSet, indices'[k] < Len(filesData[k])
       PROVE  x <= filesData[k][indices'[k] + 1] /\ filesData[k][indices'[k] + 1] \in Int
  <2>1. CASE k = i
    <3>1. (n + 1) + 1 \in 1 .. Len(data) /\ n + 1 < (n + 1) + 1
      BY <2>1, <1>4, <1>9, <1>14
    <3>2. data[n + 1] <= data[(n + 1) + 1] /\ data[(n + 1) + 1] \in Int
      BY <3>1, <1>4, ElementOfSeq DEF Ordered
    <3> QED BY <3>2, <2>1, <1>4, <1>9
  <2>2. CASE k # i
    <3>1. k \in Left /\ indices'[k] = indices[k]
      BY <2>2, <1>9, <1>14 DEF Left
    <3>2. x <= Next1(k) /\ Next1(k) \in Int /\ Next1(k) = filesData[k][indices[k] + 1]
      BY <3>1, <1>2, <1>3, NextIs
    <3> QED BY <3>1, <3>2
  <2> QED BY <2>1, <2>2
<1>15. ASSUME NEW k \in Left', NEW a \in 1 .. N + 1 PROVE output'[a] <= Next1(k)'
  <2>1. k \in FileSet /\ indices'[k] < Len(filesData[k])
    BY <1>2 DEF Left
  <2>2. Next1(k)' = filesData[k][indices'[k] + 1]
    BY <1>2 DEF Next1
  <2>3. output'[a] <= x /\ x <= Next1(k)' /\ output'[a] \in Int /\ Next1(k)' \in Int
    BY <2>1, <2>2, <1>13, <1>14
  <2> HIDE DEF x
  <2> QED BY <2>3, <1>4, SMTT(40)
<1>16. \A a \in 1 .. N + 1 : output'[a] <= INT_MAX
  <2> SUFFICES ASSUME NEW a \in 1 .. N + 1 PROVE output'[a] <= INT_MAX
    OBVIOUS
  <2>1. output'[a] <= x /\ output'[a] \in Int /\ x < INT_MAX /\ x \in Int
    BY <1>3, <1>4, <1>13
  <2> HIDE DEF x
  <2> QED BY <2>1, <1>6
<1> QED BY <1>2, <1>7, <1>8, <1>11, <1>12, <1>15, <1>16 DEF Merged

(* A step of the program keeps the merge as it should be.                    *)
LEMMA MergedStep ==
  ASSUME Files, Control, Merged, [Next]_vars
  PROVE  Merged'
<1>1. CASE UNCHANGED vars
  <2>1. UNCHANGED <<main, indices, output, filesData>>
    BY <1>1 DEF vars, mainVars, sortVars
  <2>2. \A v : Taken(v)' = Taken(v)
    BY <2>1 DEF Taken
  <2>3. Left' = Left /\ \A i : Next1(i)' = Next1(i)
    BY <2>1 DEF Left, Next1
  <2> QED BY <2>1, <2>2, <2>3 DEF Merged
<1>2. ASSUME UNCHANGED <<indices, output>>, main \in {"start", "create", "wait"},
             main' \in {"start", "create", "wait"}
      PROVE  Merged'
  BY <1>2 DEF Merged
<1>3. CASE Start \/ Create \/ CreateEnds \/ Switch
  BY <1>2, <1>3 DEF Start, Create, CreateEnds, Switch, mainVars
<1>4. ASSUME NEW c \in Coros, TakeFile(c) \/ Iterate(c) \/ EndPartition(c) \/ Finish(c) \/ Reap(c)
      PROVE  Merged'
  <2>1. UNCHANGED <<indices, output, main>>
    BY <1>4 DEF TakeFile, Iterate, EndPartition, Finish, Reap, mainVars
  <2>2. coro_this_ptr = c \/ main = "wait"
    BY <1>4 DEF TakeFile, Iterate, EndPartition, Finish, Reap
  <2>3. main = "wait"
    BY <2>2 DEF Control, Phases
  <2> QED BY <1>2, <2>1, <2>3, SMTT(40)
<1>5. CASE ~ exited /\ WaitEnds
  <2>1. /\ main = "wait" /\ main' = "merge" /\ UNCHANGED <<indices, output, filesData>>
    BY <1>5 DEF WaitEnds, sortVars
  <2>2. output = <<>> /\ indices = [i \in FileSet |-> 0]
    BY <2>1 DEF Merged
  <2>3. output' = <<>> /\ 1 .. Len(output') = {} /\ Len(output') = 0 /\ DOMAIN output' = {}
    BY <2>1, <2>2
  <2>4. \A i \in FileSet : indices'[i] <= Len(filesData'[i]) /\ indices'[i] <= Len(output')
    <3>1. \A i \in FileSet : filesData'[i] \in Seq(Int)
      <4>1. coro_list = <<>>
        BY <1>5 DEF WaitEnds, WaitEmpty
      <4> QED BY <1>5, <2>1, <4>1, WaitedSorted
    <3>2. \A i \in FileSet : Len(filesData'[i]) \in Nat /\ indices'[i] = 0
      BY <3>1, <2>1, <2>2, LenProperties
    <3> QED BY <3>2, <2>3
  <2>5. ASSUME NEW v PROVE Occurrences(output', v) = Cardinality(Taken(v)')
    <3>1. {k \in DOMAIN output' : output'[k] = v} = {}
      BY <2>3
    <3>2. Taken(v)' = {}
      BY <2>3 DEF Taken
    <3> QED BY <3>1, <3>2 DEF Occurrences
  <2> QED BY <2>1, <2>3, <2>4, <2>5 DEF Merged
<1>6. CASE MergeStep
  BY <1>6, StepMerged
<1>7. CASE MergeUnderflow
  <2>1. main = "merge" /\ main' = "underflow" /\ output' = Append(output, INT_MAX)
    BY <1>7 DEF MergeUnderflow
  <2>2. INT_MAX \in Int
    BY SortAssumption
  <2>3. output' \in Seq(Int) /\ Ordered(output')
    BY <2>1, <2>2, Appended, StaysOrdered DEF Merged
  <2> QED BY <2>1, <2>3 DEF Merged
<1>8. CASE MergeEnds
  <2>1. main = "merge" /\ main' = "done" /\ Left = {} /\ UNCHANGED <<indices, output, filesData>>
    BY <1>8 DEF MergeEnds, sortVars
  <2>2. \A v : Taken(v)' = Taken(v)
    BY <2>1 DEF Taken
  <2>3. Left' = Left /\ \A i : Next1(i)' = Next1(i)
    BY <2>1 DEF Left, Next1
  <2> QED BY <2>1, <2>2, <2>3 DEF Merged
<1> QED BY <1>1, <1>3, <1>4, <1>5, <1>6, <1>7, <1>8 DEF Next, Step, MergeLoops

(* Nothing is merged before all files are sorted.                            *)
LEMMA InitMerged == Init => Merged
<1> SUFFICES ASSUME Init PROVE Merged
  OBVIOUS
<1>1. output = <<>> /\ indices = [i \in FileSet |-> 0] /\ main = "start"
  BY DEF Init
<1>2. output \in Seq(Int) /\ Ordered(output)
  BY <1>1, EmptySeq DEF Ordered
<1> QED BY <1>1, <1>2 DEF Merged

(* When all the files are merged, there are as many places with v in the     *)
(* files as in their slots.                                                  *)
LEMMA TakenAll ==
  ASSUME Files, Control, Merged, main = "done", NEW v \in Values
  PROVE  Cardinality(Taken(v)) =
           Cardinality({p \in FileSet \X (1 .. Len(output)) :
                          p[2] <= Len(content[p[1]]) /\ content[p[1]][p[2]] = v})
<1> DEFINE T == Taken(v)
           D == {p \in FileSet \X (1 .. Len(output)) :
                   p[2] <= Len(content[p[1]]) /\ content[p[1]][p[2]] = v}
           A(i) == {k \in DOMAIN filesData[i] : filesData[i][k] = v}
           B(i) == {k \in DOMAIN content[i] : content[i][k] = v}
           b == [i \in FileSet |-> CHOOSE g : g \in Bijection(A(i), B(i))]
           f == [p \in T |-> <<p[1], b[p[1]][p[2]]>>]
           N == Len(output)
<1>1. N \in Nat
  BY LenProperties DEF Merged
<1>2. ASSUME NEW i \in FileSet
      PROVE  /\ filesData[i] \in Seq(Int) /\ content[i] \in Seq(Int)
             /\ Len(content[i]) = Len(filesData[i]) /\ Len(filesData[i]) \in Nat /\ Len(filesData[i]) <= N
             /\ indices[i] = Len(filesData[i]) /\ Cardinality(A(i)) = Cardinality(B(i))
  <2>1. filesData[i] \in Seq(Int) /\ filesData[i] # Null
    BY AllSorted
  <2>2. SlotHolds(i)
    BY <2>1 DEF Files, Filled
  <2>3. content[i] \in Seq(Int)
    BY <2>2, SortAssumption DEF SlotHolds, Control, Types
  <2>4. Cardinality(A(i)) = Cardinality(B(i))
    BY <2>2 DEF SlotHolds, SameValues, Occurrences
  <2>5. indices[i] <= Len(filesData[i]) /\ indices[i] <= N /\ ~ (indices[i] < Len(filesData[i]))
    BY DEF Merged, Left
  <2>6. indices[i] \in Nat /\ Len(filesData[i]) \in Nat
    BY <2>1, LenProperties DEF Control, Types
  <2>7. indices[i] = Len(filesData[i])
    BY <2>5, <2>6
  <2> QED BY <2>1, <2>2, <2>3, <2>4, <2>5, <2>6, <2>7 DEF SlotHolds
<1>3. ASSUME NEW i \in FileSet, NEW k
      PROVE  /\ <<i, k>> \in T <=> k \in A(i)
             /\ <<i, k>> \in D <=> k \in B(i)
  <2>1. DOMAIN filesData[i] = 1 .. Len(filesData[i]) /\ DOMAIN content[i] = 1 .. Len(filesData[i])
    BY <1>2, LenProperties
  <2> DEFINE L == Len(filesData[i])
  <2>2. L \in Nat /\ L <= N /\ indices[i] = L /\ Len(content[i]) = L
    BY <1>2
  <2>3. <<i, k>> \in T <=> k \in 1 .. N /\ k <= L /\ filesData[i][k] = v
    BY <2>2 DEF Taken
  <2>4. <<i, k>> \in D <=> k \in 1 .. N /\ k <= L /\ content[i][k] = v
    BY <2>2
  <2> HIDE DEF L, N
  <2>5. k \in 1 .. N /\ k <= L <=> k \in 1 .. L
    BY <2>2, <1>1
  <2> HIDE DEF T, D
  <2> QED BY <2>1, <2>3, <2>4, <2>5 DEF L
<1>4. ASSUME NEW i \in FileSet PROVE IsFiniteSet(A(i)) /\ IsFiniteSet(B(i))
  <2>1. /\ DOMAIN filesData[i] = 1 .. Len(filesData[i]) /\ DOMAIN content[i] = 1 .. Len(filesData[i])
        /\ Len(filesData[i]) \in Nat
    BY <1>2, LenProperties
  <2>2. IsFiniteSet(1 .. Len(filesData[i]))
    BY <2>1, FS_Interval
  <2>3. A(i) \in SUBSET (1 .. Len(filesData[i])) /\ B(i) \in SUBSET (1 .. Len(filesData[i]))
    BY <2>1
  <2> HIDE DEF A, B
  <2> QED BY <2>2, <2>3, FS_Subset
<1>5. ASSUME NEW i \in FileSet
      PROVE  /\ b[i] \in [A(i) -> B(i)] /\ \A k, l \in A(i) : b[i][k] = b[i][l] => k = l
             /\ \A l \in B(i) : \E k \in A(i) : b[i][k] = l
  <2>1. ExistsBijection(A(i), B(i))
    <3>1. Cardinality(A(i)) = Cardinality(B(i)) /\ IsFiniteSet(A(i)) /\ IsFiniteSet(B(i))
      BY <1>2, <1>4
    <3> HIDE DEF A, B
    <3> QED BY <3>1, FS_SameCardinalityBij
  <2> HIDE DEF A, B
  <2>2. b[i] \in Bijection(A(i), B(i))
    BY <2>1 DEF ExistsBijection
  <2> DEFINE g == b[i]
  <2> HIDE DEF b, g
  <2>3. g \in Injection(A(i), B(i)) /\ g \in Surjection(A(i), B(i))
    BY <2>2 DEF Bijection, g
  <2>4. g \in [A(i) -> B(i)] /\ \A k, l \in A(i) : g[k] = g[l] => k = l
    BY <2>3 DEF Injection, IsInjective
  <2>5. \A l \in B(i) : \E k \in A(i) : g[k] = l
    BY <2>3 DEF Surjection
  <2> QED BY <2>4, <2>5 DEF g
<1>6. \A p \in T : p[1] \in FileSet /\ p = <<p[1], p[2]>>
  BY DEF Taken
<1>7. \A p \in D : p[1] \in FileSet /\ p = <<p[1], p[2]>>
  OBVIOUS
<1>8. IsFiniteSet(T)
  <2>1. IsFiniteSet(FileSet) /\ IsFiniteSet(1 .. N)
    BY <1>1, Constants, FS_Interval DEF FileSet
  <2>2. IsFiniteSet(FileSet \X (1 .. N))
    BY <2>1, FS_Product
  <2>3. T \in SUBSET (FileSet \X (1 .. N))
    BY DEF Taken
  <2> QED BY <2>2, <2>3, FS_Subset
<1> HIDE DEF T, D, A, B, b
<1>9. ASSUME NEW p \in T PROVE f[p] \in D /\ f[p] = <<p[1], b[p[1]][p[2]]>> /\ p[2] \in A(p[1])
  <2>1. p[1] \in FileSet /\ <<p[1], p[2]>> \in T
    BY <1>6
  <2>2. p[2] \in A(p[1])
    BY <2>1, <1>3
  <2>3. b[p[1]][p[2]] \in B(p[1])
    BY <2>1, <2>2, <1>5
  <2>4. <<p[1], b[p[1]][p[2]]>> \in D
    BY <2>1, <2>3, <1>3
  <2> QED BY <2>2, <2>4
<1>10. ASSUME NEW p \in T, NEW q \in T, f[p] = f[q] PROVE p = q
  <2>1. p[1] = q[1] /\ b[p[1]][p[2]] = b[q[1]][q[2]]
    BY <1>9, <1>10
  <2>2. p[1] \in FileSet /\ p[2] \in A(p[1]) /\ q[2] \in A(p[1])
    BY <2>1, <1>6, <1>9
  <2>3. p[2] = q[2]
    BY <2>1, <2>2, <1>5
  <2> QED BY <2>1, <2>3, <1>6
<1>11. ASSUME NEW d \in D PROVE \E p \in T : f[p] = d
  <2>1. d[1] \in FileSet /\ d = <<d[1], d[2]>>
    BY <1>7
  <2>2. d[2] \in B(d[1])
    BY <2>1, <1>3
  <2>3. PICK k \in A(d[1]) : b[d[1]][k] = d[2]
    BY <2>1, <2>2, <1>5
  <2>4. <<d[1], k>> \in T
    BY <2>1, <1>3
  <2>5. f[<<d[1], k>>] = <<d[1], b[d[1]][k]>>
    BY <2>4
  <2> QED BY <2>1, <2>3, <2>4, <2>5
<1>12. f \in [T -> D]
  BY <1>9
<1> HIDE DEF f
<1>13. f \in Bijection(T, D)
  BY <1>10, <1>11, <1>12, Fun_IsBij
<1>14. Cardinality(D) = Cardinality(T)
  BY <1>8, <1>13, FS_Bijection DEF ExistsBijection
<1> QED BY <1>14 DEF T, D

(* The output is the numbers of all the files in order                       *)
(* (solution.c:281-324).                                                     *)
THEOREM MergeSorted == Spec => []OutputSorted
<1>1. Control /\ Files /\ Merged => OutputSorted
  <2> SUFFICES ASSUME Control, Files, Merged PROVE OutputSorted
    OBVIOUS
  <2>1. Sorted(output)
    BY OrderedSorted DEF Merged
  <2>2. ASSUME main = "done", NEW v \in Values
        PROVE  Occurrences(output, v) =
                 Cardinality({p \in FileSet \X (1 .. Len(output)) :
                                p[2] <= Len(content[p[1]]) /\ content[p[1]][p[2]] = v})
    <3>1. Occurrences(output, v) = Cardinality(Taken(v))
      BY <2>2 DEF Merged
    <3> QED BY <3>1, <2>2, TakenAll
  <2> QED BY <2>1, <2>2 DEF OutputSorted
<1>2. Init => Control /\ Files /\ Merged
  BY InitControl, InitFiles, InitMerged
<1>3. Control /\ Files /\ Merged /\ [Next]_vars => (Control /\ Files /\ Merged)'
  BY ControlStep, FilesStep, MergedStep
<1> QED BY <1>1, <1>2, <1>3, PTL DEF Spec
=============================================================================
