---------------------------- MODULE UserFSProof -----------------------------
(***************************************************************************)
(* Proofs about UserFS, for every number of files, names and descriptors   *)
(* and every size of blocks: the descriptors and the counters of           *)
(* references agree, no walk along a chain leaves it, and as long as no    *)
(* full block is written into, a chain is exactly as long as the file and  *)
(* each call is one of FileStore.                                          *)
(***************************************************************************)
EXTENDS UserFSRefinement, FiniteSetTheorems, SequenceTheorems, TLAPS

-----------------------------------------------------------------------------
(* Minima, iteration *)

(* A nonempty set of numbers has a least element.                            *)
LEMMA Least ==
  ASSUME NEW T, T \subseteq Nat, T # {}
  PROVE  \E x \in T : \A y \in T : x <= y
<1>1. IsWellFoundedOn(OpToRel(<, Nat), Nat)
  BY NatLessThanWellFounded
<1>2. PICK x \in T : \A y \in T : ~ (<<y, x>> \in OpToRel(<, Nat))
  BY <1>1, WFMin, Zenon
<1>3. \A y \in T : <<y, x>> \in Nat \X Nat /\ ~ (y < x)
  BY <1>2, Zenon DEF OpToRel
<1>4. ASSUME NEW y \in T PROVE x <= y
  <2>1. x \in Nat /\ y \in Nat
    OBVIOUS
  <2>2. ~ (y < x)
    BY <1>3
  <2> QED BY <2>1, <2>2
<1> QED BY <1>4

(* A set of numbers with 0 and all successors of its members is Nat: the     *)
(* induction that the proofs about the loop of ufs_read need.                *)
LEMMA Induction ==
  ASSUME NEW T, T \subseteq Nat, 0 \in T, \A n \in T : n + 1 \in T
  PROVE  T = Nat
<1> SUFFICES ASSUME Nat \ T # {} PROVE FALSE
  OBVIOUS
<1>1. PICK x \in Nat \ T : \A y \in Nat \ T : x <= y
  BY Least
<1>2. x # 0 /\ x - 1 \in Nat
  BY <1>1
<1>3. x - 1 \in T
  BY <1>1, <1>2
<1>4. (x - 1) + 1 = x
  BY <1>1
<1> QED BY <1>1, <1>3, <1>4

(* A set of numbers with a bound and a member has a greatest one.            *)
LEMMA Greatest ==
  ASSUME NEW T, NEW n \in Nat, T \subseteq 0 .. n, T # {}
  PROVE  \E x \in T : \A y \in T : y <= x
<1> DEFINE D == {d \in 0 .. n : n - d \in T}
<1>1. ASSUME NEW y \in T PROVE n - y \in D /\ y \in 0 .. n
  <2>1. y \in 0 .. n
    OBVIOUS
  <2>2. n - (n - y) = y /\ n - y \in 0 .. n
    BY <2>1
  <2> QED BY <2>1, <2>2
<1>2. D \subseteq Nat /\ D # {}
  <2>1. PICK y \in T : TRUE
    OBVIOUS
  <2>2. n - y \in D
    BY <1>1, <2>1
  <2>3. \A d \in D : d \in 0 .. n
    OBVIOUS
  <2> HIDE DEF D
  <2> QED BY <2>2, <2>3
<1>3. PICK d \in D : \A e \in D : d <= e
  <2> HIDE DEF D
  <2> QED BY <1>2, Least
<1>4. n - d \in T /\ d \in 0 .. n
  OBVIOUS
<1>5. ASSUME NEW y \in T PROVE y <= n - d
  <2>1. d <= n - y
    BY <1>1, <1>3
  <2> QED BY <2>1, <1>1, <1>4
<1> QED BY <1>4, <1>5

(* s[j] is what j steps make of first.                                       *)
Repeats(s, first, step) == s = [j \in Nat |-> IF j = 0 THEN first ELSE step[s[j - 1]]]

(* Repeating a step is a function: what a loop's state is after j turns.     *)
LEMMA Iteration ==
  ASSUME NEW S, NEW first \in S, NEW step \in [S -> S]
  PROVE  \E s \in [Nat -> S] : Repeats(s, first, step)
<1> DEFINE Is(h, n) == /\ h \in [0 .. n -> S] /\ h[0] = first
                       /\ \A j \in 1 .. n : h[j] = step[h[j - 1]]
           Reach == {n \in Nat : \E h \in [0 .. n -> S] : Is(h, n)}
<1>1. 0 \in Reach
  <2>1. Is([j \in 0 .. 0 |-> first], 0)
    OBVIOUS
  <2> QED BY <2>1
<1>2. ASSUME NEW n \in Reach PROVE n + 1 \in Reach
  <2>1. PICK h \in [0 .. n -> S] : Is(h, n)
    OBVIOUS
  <2> DEFINE g == [j \in 0 .. n + 1 |-> IF j <= n THEN h[j] ELSE step[h[n]]]
  <2>2. g \in [0 .. n + 1 -> S] /\ g[0] = first
    BY <2>1
  <2>3. ASSUME NEW j \in 1 .. n + 1 PROVE g[j] = step[g[j - 1]]
    BY <2>1
  <2>4. Is(g, n + 1)
    BY <2>2, <2>3
  <2>5. n + 1 \in Nat
    OBVIOUS
  <2> HIDE DEF Is, g
  <2> QED BY <2>2, <2>4, <2>5
<1>3. Reach = Nat
  <2> HIDE DEF Reach
  <2>1. Reach \subseteq Nat
    BY DEF Reach
  <2> QED BY <1>1, <1>2, <2>1, Induction
<1>4. ASSUME NEW m \in Nat, NEW n \in Nat, m <= n, NEW g, Is(g, m), NEW h, Is(h, n)
      PROVE  g[m] = h[m]
  <2> DEFINE Same == {j \in Nat : j <= m => g[j] = h[j]}
  <2>1. 0 \in Same
    BY <1>4
  <2>2. ASSUME NEW j \in Same PROVE j + 1 \in Same
    <3>1. CASE j + 1 <= m
      <4>1. g[j] = h[j] /\ j + 1 \in 1 .. m /\ j + 1 \in 1 .. n
        BY <3>1, <1>4
      <4>2. g[j + 1] = step[g[(j + 1) - 1]] /\ h[j + 1] = step[h[(j + 1) - 1]]
        BY <4>1, <1>4
      <4>3. (j + 1) - 1 = j
        OBVIOUS
      <4> QED BY <4>1, <4>2, <4>3
    <3>2. CASE ~ (j + 1 <= m)
      BY <3>2
    <3> QED BY <3>1, <3>2
  <2>3. Same = Nat
    <3> HIDE DEF Same
    <3>1. Same \subseteq Nat
      BY DEF Same
    <3> QED BY <2>1, <2>2, <3>1, Induction
  <2> QED BY <2>3
<1> DEFINE s == [n \in Nat |-> (CHOOSE h \in [0 .. n -> S] : Is(h, n))[n]]
<1>5. \A n \in Nat : \E h \in [0 .. n -> S] : Is(h, n) /\ s[n] = h[n]
  <2> SUFFICES ASSUME NEW n \in Nat PROVE \E h \in [0 .. n -> S] : Is(h, n) /\ s[n] = h[n]
    OBVIOUS
  <2>1. \E h \in [0 .. n -> S] : Is(h, n)
    BY <1>3
  <2> DEFINE c == CHOOSE h \in [0 .. n -> S] : Is(h, n)
  <2>2. c \in [0 .. n -> S] /\ Is(c, n)
    <3> HIDE DEF Is
    <3> QED BY <2>1, Zenon
  <2>3. s[n] = c[n]
    <3> HIDE DEF Is
    <3> QED OBVIOUS
  <2> HIDE DEF Is, c, s
  <2> QED BY <2>2, <2>3
<1>6. s \in [Nat -> S]
  <2>1. s = [n \in Nat |-> s[n]]
    <3> HIDE DEF Is
    <3> QED OBVIOUS
  <2> HIDE DEF Is, s
  <2>2. \A n \in Nat : s[n] \in S
    BY <1>5
  <2> QED BY <2>1, <2>2
<1> HIDE DEF s
<1>7. s[0] = first
  BY <1>5
<1>8. ASSUME NEW j \in Nat \ {0} PROVE s[j] = step[s[j - 1]]
  <2>1. PICK h \in [0 .. j -> S] : Is(h, j) /\ s[j] = h[j]
    BY <1>5
  <2>2. PICK g \in [0 .. j - 1 -> S] : Is(g, j - 1) /\ s[j - 1] = g[j - 1]
    <3> HIDE DEF Is
    <3>1. j - 1 \in Nat
      OBVIOUS
    <3> QED BY <3>1, <1>5
  <2>3. g[j - 1] = h[j - 1]
    <3> HIDE DEF Is
    <3>1. j - 1 \in Nat /\ j - 1 <= j
      OBVIOUS
    <3> QED BY <3>1, <2>1, <2>2, <1>4
  <2>4. j \in 1 .. j
    OBVIOUS
  <2> QED BY <2>1, <2>2, <2>3, <2>4
<1>9. s = [j \in Nat |-> IF j = 0 THEN first ELSE step[s[j - 1]]]
  BY <1>6, <1>7, <1>8
<1>10. Repeats(s, first, step)
  BY <1>9, Zenon DEF Repeats
<1> QED BY <1>6, <1>10

-----------------------------------------------------------------------------
(* Descriptors and references *)

Busy == {i \in Slots : dfile[i] # None}

TableType ==
    /\ file_list \subseteq Files /\ is_ghost \subseteq file_list
    /\ refs \in [Files -> Nat]
    /\ capacity \in 0 .. MaxCapacity /\ used \in Nat
    /\ dfile \in [Slots -> Files \cup {None}]

(* used counts the busy descriptors, and none is behind the end of the       *)
(* table: the lowest free one is found, or the table is full.                *)
TableFits ==
    /\ used = Cardinality(Busy)
    /\ used <= capacity
    /\ \A i \in Slots : dfile[i] # None => i < capacity

(* What open, close, delete and destroy need of each other.                  *)
Table == TableType /\ TableFits /\ FilesLive

tableVars == <<file_list, is_ghost, refs, capacity, used, dfile>>

(* The descriptors are finitely many.                                        *)
LEMMA SlotsFinite ==
  /\ IsFiniteSet(Slots)
  /\ \A S \in SUBSET Slots : IsFiniteSet(S) /\ Cardinality(S) \in Nat
<1>1. MaxCapacity - 1 \in Int /\ 0 \in Int
  BY ConstantsAssumption
<1>2. IsFiniteSet(Slots)
  BY <1>1, FS_Interval DEF Slots
<1>3. ASSUME NEW S \in SUBSET Slots PROVE IsFiniteSet(S) /\ Cardinality(S) \in Nat
  <2>1. IsFiniteSet(S)
    BY <1>2, FS_Subset
  <2> QED BY <2>1, FS_CardinalityType
<1> QED BY <1>2, <1>3

(* The empty table is right.                                                 *)
LEMMA EmptyTable ==
  ASSUME file_list = {}, is_ghost = {}, refs = [f \in Files |-> 0],
         capacity = 0, used = 0, dfile = [i \in Slots |-> None]
  PROVE  Table
<1>1. Busy = {} /\ \A f \in Files : OpenOn(f) = {}
  BY ConstantsAssumption DEF Busy, OpenOn
<1>2. Cardinality({}) = 0
  BY FS_EmptySet
<1>3. TableType
  BY ConstantsAssumption DEF TableType
<1>4. TableFits
  BY <1>1, <1>2 DEF TableFits
<1>5. FilesLive
  BY <1>1, <1>2 DEF FilesLive
<1> QED BY <1>3, <1>4, <1>5 DEF Table

(* ufs_destroy leaves an empty table.                                        *)
LEMMA DestroyedTable ==
  ASSUME Destroy
  PROVE  Table'
<1> USE DEF Destroy
<1>1. Busy' = {} /\ \A f \in Files : OpenOn(f)' = {}
  BY ConstantsAssumption DEF Busy, OpenOn
<1>2. Cardinality({}) = 0
  BY FS_EmptySet
<1>3. TableType'
  BY ConstantsAssumption DEF TableType
<1>4. TableFits'
  BY <1>1, <1>2 DEF TableFits
<1>5. FilesLive'
  BY <1>1, <1>2 DEF FilesLive
<1> QED BY <1>3, <1>4, <1>5 DEF Table

(* A call that leaves the lists alone leaves them right.                     *)
LEMMA TableSame ==
  ASSUME Table, UNCHANGED tableVars
  PROVE  Table'
<1>1. Busy' = Busy /\ \A f \in Files : OpenOn(f)' = OpenOn(f)
  BY DEF tableVars, Busy, OpenOn
<1> QED BY <1>1 DEF tableVars, Table, TableType, TableFits, FilesLive

(* Lines 150-193 of ufs_open: the descriptor that is found is free, and it   *)
(* is in the table.                                                          *)
LEMMA FreeSlotIsFree ==
  ASSUME Table, NEW i \in Slots, FreeSlot(i), capacity' <= MaxCapacity
  PROVE  /\ dfile[i] = None /\ i < capacity'
         /\ capacity' \in 0 .. MaxCapacity /\ capacity <= capacity' /\ used + 1 <= capacity'
<1> DEFINE cap == IF capacity <= 0 THEN FirstCapacity ELSE capacity
<1>1. /\ capacity \in Nat /\ used \in Nat /\ used <= capacity /\ FirstCapacity \in Nat \ {0}
      /\ i \in Nat /\ MaxCapacity \in Nat
  BY ConstantsAssumption DEF Table, TableType, TableFits, Slots
<1>2. cap \in Nat \ {0} /\ capacity <= cap
  BY <1>1
<1>3. CASE used < cap /\ i \in 0 .. cap - 1 /\ dfile[i] = None /\ capacity' = cap
  <2> HIDE DEF cap
  <2> QED BY <1>1, <1>2, <1>3
<1>4. CASE used >= cap /\ i = used /\ capacity' = 2 * cap
  <2>1. capacity = cap /\ used = cap
    BY <1>1, <1>2, <1>4
  <2>2. dfile[i] = None
    BY <2>1, <1>1, <1>4 DEF Table, TableFits
  <2> HIDE DEF cap
  <2> QED BY <2>1, <2>2, <1>1, <1>2, <1>4
<1> QED BY <1>3, <1>4 DEF FreeSlot

(* ufs_open takes a free descriptor and one more reference.                  *)
LEMMA OpenTable ==
  ASSUME Table, NEW n, NEW flags, NEW f \in Files, NEW i \in Slots, Open(n, flags, f, i)
  PROVE  Table'
<1>1. /\ dfile[i] = None /\ i < capacity'
      /\ capacity' \in 0 .. MaxCapacity /\ capacity <= capacity' /\ used + 1 <= capacity'
  BY FreeSlotIsFree DEF Open
<1>2. /\ used' = used + 1
      /\ dfile' = [dfile EXCEPT ![i] = f]
      /\ refs' = [refs EXCEPT ![f] = IF f \in file_list THEN @ + 1 ELSE 1]
  BY DEF Open
<1>3. /\ file_list' = file_list \cup {f}
      /\ is_ghost' = is_ghost \/ is_ghost' = is_ghost \ {f}
      /\ f \notin is_ghost'
  BY DEF Open, Lookup, Create, Table, TableType
<1>4. None \notin Files /\ f # None
  BY ConstantsAssumption
<1>5. TableType'
  BY <1>1, <1>2, <1>3 DEF Table, TableType
<1>6. Busy' = Busy \cup {i} /\ i \notin Busy /\ Busy \subseteq Slots
  BY <1>1, <1>2, <1>4 DEF Busy, Table, TableType
<1>7. Cardinality(Busy') = Cardinality(Busy) + 1
  BY <1>6, SlotsFinite, FS_AddElement
<1>8. TableFits'
  <2>1. used' = Cardinality(Busy') /\ used' <= capacity'
    BY <1>1, <1>2, <1>7 DEF Table, TableFits
  <2>2. ASSUME NEW j \in Slots, dfile'[j] # None PROVE j < capacity'
    <3>1. CASE j = i
      BY <3>1, <1>1
    <3>2. CASE j # i
      <4>1. dfile[j] # None /\ j < capacity
        BY <3>2, <2>2, <1>2 DEF Table, TableType, TableFits
      <4> QED BY <4>1, <1>1, ConstantsAssumption DEF Slots, Table, TableType
    <3> QED BY <3>1, <3>2
  <2> QED BY <2>1, <2>2 DEF TableFits
<1>9. ASSUME NEW g \in Files
      PROVE  /\ refs'[g] = Cardinality(OpenOn(g)')
             /\ OpenOn(g)' # {} => g \in file_list'
             /\ g \in is_ghost' => OpenOn(g)' # {}
  <2>0. /\ refs[g] = Cardinality(OpenOn(g)) /\ refs[g] \in Nat
        /\ OpenOn(g) # {} => g \in file_list
        /\ g \in is_ghost => OpenOn(g) # {}
    BY DEF Table, TableType, FilesLive
  <2>1. CASE g = f
    <3>1. OpenOn(f)' = OpenOn(f) \cup {i} /\ i \notin OpenOn(f) /\ OpenOn(f) \subseteq Slots
      BY <1>1, <1>2, <1>4 DEF OpenOn, Table, TableType
    <3>2. Cardinality(OpenOn(f)') = Cardinality(OpenOn(f)) + 1
      BY <3>1, SlotsFinite, FS_AddElement
    <3>3. refs'[f] = refs[f] + 1
      <4>1. CASE f \in file_list
        BY <4>1, <1>2 DEF Table, TableType
      <4>2. CASE f \notin file_list
        <5>1. OpenOn(f) = {}
          BY <4>2, <2>0, <2>1
        <5>2. refs[f] = 0
          BY <5>1, <2>0, <2>1, FS_EmptySet
        <5> QED BY <5>2, <4>2, <1>2 DEF Table, TableType
      <4> QED BY <4>1, <4>2
    <3> QED BY <3>1, <3>2, <3>3, <2>0, <2>1, <1>3
  <2>2. CASE g # f
    <3>1. OpenOn(g)' = OpenOn(g)
      BY <2>2, <1>1, <1>2, <1>4 DEF OpenOn, Table, TableType
    <3>2. refs'[g] = refs[g] /\ (g \in file_list <=> g \in file_list') /\ (g \in is_ghost' => g \in is_ghost)
      BY <2>2, <1>2, <1>3 DEF Table, TableType
    <3> QED BY <3>1, <3>2, <2>0
  <2> QED BY <2>1, <2>2
<1>10. FilesLive'
  BY <1>9 DEF FilesLive
<1> QED BY <1>5, <1>8, <1>10 DEF Table

(* ufs_close gives back a descriptor and a reference; it frees the file of   *)
(* the last one if that was deleted.                                         *)
LEMMA CloseTable ==
  ASSUME Table, NEW fd \in Descriptors, Close(fd)
  PROVE  Table'
<1> DEFINE i == fd - 1
<1>1. PICK f \in Files : f = dfile[i] /\ i \in Slots
  BY ConstantsAssumption DEF Close, IsOpen, Table, TableType, Slots, Descriptors
<1> DEFINE last == refs[f] - 1 <= 0 /\ f \in is_ghost
<1> HIDE DEF i
<1>2. /\ refs' = [refs EXCEPT ![f] = @ - 1]
      /\ dfile' = [dfile EXCEPT ![i] = None]
      /\ used' = used - 1 /\ capacity' = capacity
      /\ file_list' = IF last THEN file_list \ {f} ELSE file_list
      /\ is_ghost' = IF last THEN is_ghost \ {f} ELSE is_ghost
  BY <1>1 DEF Close, Free, LastReference, i
<1> HIDE DEF last
<1>3. None \notin Files /\ f # None
  BY ConstantsAssumption
<1>4. OpenOn(f)' = OpenOn(f) \ {i} /\ i \in OpenOn(f) /\ OpenOn(f) \subseteq Slots
  BY <1>1, <1>2, <1>3 DEF OpenOn, Table, TableType
<1>5. refs[f] = Cardinality(OpenOn(f)) /\ refs[f] \in Nat
  BY DEF Table, FilesLive, TableType
<1>6. Cardinality(OpenOn(f)') = refs[f] - 1 /\ refs[f] - 1 \in Nat
  <2>1. Cardinality(OpenOn(f) \ {i}) = Cardinality(OpenOn(f)) - 1
    BY <1>4, SlotsFinite, FS_RemoveElement
  <2>2. Cardinality(OpenOn(f) \ {i}) \in Nat
    BY <1>4, SlotsFinite
  <2> QED BY <2>1, <2>2, <1>4, <1>5
<1>7. OpenOn(f)' = {} <=> refs[f] - 1 = 0
  <2>1. IsFiniteSet(OpenOn(f)')
    BY <1>4, SlotsFinite, FS_RemoveElement
  <2> QED BY <2>1, <1>6, FS_EmptySet
<1>8. TableType'
  <2>1. used - 1 \in Nat
    <3>1. i \in Busy /\ Busy \subseteq Slots
      BY <1>1, <1>3 DEF Busy
    <3>2. Cardinality(Busy \ {i}) = Cardinality(Busy) - 1 /\ Cardinality(Busy \ {i}) \in Nat
      BY <3>1, SlotsFinite, FS_RemoveElement
    <3> QED BY <3>2 DEF Table, TableFits
  <2> QED BY <2>1, <1>2, <1>6 DEF Table, TableType
<1>9. TableFits'
  <2>1. Busy' = Busy \ {i} /\ i \in Busy /\ Busy \subseteq Slots
    BY <1>1, <1>2, <1>3 DEF Busy, Table, TableType
  <2>2. Cardinality(Busy') = Cardinality(Busy) - 1
    BY <2>1, SlotsFinite, FS_RemoveElement
  <2>3. used' = Cardinality(Busy') /\ used' <= capacity'
    BY <2>2, <1>2 DEF Table, TableFits, TableType
  <2>4. \A j \in Slots : dfile'[j] # None => j < capacity'
    BY <1>2 DEF Table, TableFits, TableType
  <2> QED BY <2>3, <2>4 DEF TableFits
<1>10. ASSUME NEW g \in Files
       PROVE  /\ refs'[g] = Cardinality(OpenOn(g)')
              /\ OpenOn(g)' # {} => g \in file_list'
              /\ g \in is_ghost' => OpenOn(g)' # {}
  <2>0. /\ refs[g] = Cardinality(OpenOn(g)) /\ refs[g] \in Nat
        /\ OpenOn(g) # {} => g \in file_list
        /\ g \in is_ghost => OpenOn(g) # {}
    BY DEF Table, TableType, FilesLive
  <2>1. CASE g = f
    <3>1. refs'[f] = refs[f] - 1
      BY <1>2 DEF Table, TableType
    <3>2. CASE last
      <4>1. f \notin is_ghost'
        BY <3>2, <1>2
      <4>2. refs[f] - 1 = 0
        BY <3>2, <1>5, <1>6 DEF last
      <4>3. OpenOn(f)' = {}
        BY <4>2, <1>7
      <4> QED BY <4>1, <4>3, <3>1, <2>1, <1>6
    <3>3. CASE ~ last
      <4>1. f \in file_list' /\ (f \in is_ghost' => refs[f] - 1 # 0)
        BY <3>3, <2>0, <2>1, <1>2, <1>4, <1>6 DEF last
      <4> QED BY <4>1, <3>1, <2>1, <1>6, <1>7
    <3> QED BY <3>2, <3>3
  <2>2. CASE g # f
    <3>1. OpenOn(g)' = OpenOn(g)
      BY <2>2, <1>1, <1>2, <1>3 DEF OpenOn, Table, TableType
    <3>2. refs'[g] = refs[g] /\ (g \in file_list <=> g \in file_list') /\ (g \in is_ghost' => g \in is_ghost)
      BY <2>2, <1>2 DEF Table, TableType
    <3> QED BY <3>1, <3>2, <2>0
  <2> QED BY <2>1, <2>2
<1>11. FilesLive'
  BY <1>10 DEF FilesLive
<1> QED BY <1>8, <1>9, <1>11 DEF Table

(* ufs_delete frees a file that nothing refers to, and hides any other.      *)
LEMMA DeleteTable ==
  ASSUME Table, NEW n, Delete(n)
  PROVE  Table'
<1>1. PICK f \in Lookup(n) :
        /\ UNCHANGED <<refs, descVars>>
        /\ \/ refs[f] <= 0 /\ Free(f)
           \/ refs[f] > 0 /\ is_ghost' = is_ghost \cup {f} /\ file_list' = file_list
  BY DEF Delete, Table, TableType, Lookup
<1>2. f \in Files /\ f \in file_list
  BY DEF Lookup, Table, TableType
<1>3. UNCHANGED <<refs, capacity, used, dfile>>
  BY <1>1 DEF descVars
<1>4. Busy' = Busy /\ \A g \in Files : OpenOn(g)' = OpenOn(g)
  BY <1>3 DEF Busy, OpenOn
<1>5. refs[f] \in Nat /\ (refs[f] <= 0 <=> OpenOn(f) = {})
  <2>1. IsFiniteSet(OpenOn(f))
    BY SlotsFinite DEF OpenOn
  <2>2. Cardinality(OpenOn(f)) = 0 <=> OpenOn(f) = {}
    BY <2>1, FS_EmptySet
  <2> QED BY <2>2, <1>2 DEF Table, TableType, FilesLive
<1>6. TableType'
  BY <1>1, <1>2, <1>3 DEF Table, TableType, Free
<1>7. TableFits'
  BY <1>3, <1>4 DEF Table, TableFits
<1>8. FilesLive'
  BY <1>1, <1>2, <1>3, <1>4, <1>5 DEF Table, FilesLive, Free
<1> QED BY <1>6, <1>7, <1>8 DEF Table

(* Every other call leaves the lists alone.                                  *)
LEMMA TableStep ==
  ASSUME Table, [Next]_vars
  PROVE  Table'
<1>1. ASSUME UNCHANGED tableVars PROVE Table'
  BY <1>1, TableSame
<1>2. ASSUME NEW n \in Names, NameCall(n) PROVE Table'
  <2>1. CASE \E flags \in OpenFlags, f \in Files, i \in Slots : Open(n, flags, f, i)
    BY <2>1, OpenTable
  <2>2. CASE NoSuchFile(n)
    BY <2>2, <1>1 DEF NoSuchFile, fileVars, descVars, tableVars
  <2>3. CASE Delete(n)
    BY <2>3, DeleteTable
  <2> QED BY <1>2, <2>1, <2>2, <2>3 DEF NameCall
<1>3. ASSUME NEW fd \in Descriptors, DescriptorCall(fd) PROVE Table'
  <2>1. CASE Close(fd)
    BY <2>1, CloseTable
  <2>2. CASE BadDescriptor(fd) \/ NoPermission(fd) \/ WriteNothing(fd) \/ ResizeSame(fd)
    BY <2>2, <1>1 DEF BadDescriptor, NoPermission, WriteNothing, ResizeSame, fileVars, descVars, tableVars
  <2>3. CASE \E n \in 0 .. MaxRequest : WriteNoMem(fd, n) \/ Read(fd, n)
    BY <2>3, <1>1 DEF WriteNoMem, Read, fileVars, descVars, tableVars
  <2>4. CASE \E data \in Buffers : Write(fd, data)
    BY <2>4, <1>1 DEF Write, tableVars
  <2>5. CASE \E new \in 0 .. MAX_FILE_SIZE + 1 : Shrink(fd, new) \/ GrowNoMem(fd, new) \/ Grow(fd, new)
    BY <2>5, <1>1 DEF Shrink, GrowNoMem, Grow, fileVars, descVars, tableVars
  <2> QED BY <1>3, <2>1, <2>2, <2>3, <2>4, <2>5 DEF DescriptorCall
<1>4. CASE Destroy
  BY <1>4, DestroyedTable
<1>5. CASE UNCHANGED vars
  BY <1>5, <1>1 DEF vars, fileVars, descVars, tableVars
<1> QED BY <1>2, <1>3, <1>4, <1>5 DEF Next

(* A descriptor leads to a file that exists, refs counts the descriptors of  *)
(* a file, and a deleted file exists just as long as it has one: what        *)
(* ufs_open, ufs_close and ufs_delete (lines 105-202 and 357-406) keep up    *)
(* between them, over any number of files and descriptors.                   *)
THEOREM ReferencesExact == Spec => []FilesLive
<1>1. Init => Table
  BY EmptyTable DEF Init
<1>2. Table /\ [Next]_vars => Table'
  BY TableStep
<1>3. Table => FilesLive
  BY DEF Table
<1> QED BY <1>1, <1>2, <1>3, PTL DEF Spec
-----------------------------------------------------------------------------
(* Blocks and bytes *)

(* A position is in a block and at a place of it.                            *)
LEMMA Division ==
  ASSUME NEW p \in Nat
  PROVE  /\ p \div BLOCK_SIZE \in Nat /\ p % BLOCK_SIZE \in 0 .. BLOCK_SIZE - 1
         /\ p = BLOCK_SIZE * (p \div BLOCK_SIZE) + (p % BLOCK_SIZE)
BY ConstantsAssumption

(* The blocks of q and of r and of q + r.                                    *)
LEMMA Blocks ==
  ASSUME NEW q \in Nat, NEW r \in Nat
  PROVE  /\ BLOCK_SIZE * q \in Nat
         /\ BLOCK_SIZE * (q + r) = BLOCK_SIZE * q + BLOCK_SIZE * r
         /\ BLOCK_SIZE * (q + 1) = BLOCK_SIZE * q + BLOCK_SIZE
         /\ q <= r <=> BLOCK_SIZE * q <= BLOCK_SIZE * r
         /\ q < r <=> BLOCK_SIZE * q + BLOCK_SIZE <= BLOCK_SIZE * r
<1>1. BLOCK_SIZE \in Nat /\ BLOCK_SIZE > 0
  BY ConstantsAssumption
<1>2. BLOCK_SIZE * q \in Nat /\ BLOCK_SIZE * r \in Nat
  BY <1>1
<1>3. BLOCK_SIZE * (q + r) = BLOCK_SIZE * q + BLOCK_SIZE * r
  BY <1>1
<1>4. BLOCK_SIZE * (q + 1) = BLOCK_SIZE * q + BLOCK_SIZE
  BY <1>1
<1>5. q < r => BLOCK_SIZE * q + BLOCK_SIZE <= BLOCK_SIZE * r
  BY <1>1
<1>6. r < q => BLOCK_SIZE * r + BLOCK_SIZE <= BLOCK_SIZE * q
  BY <1>1
<1>7. q = r => BLOCK_SIZE * q = BLOCK_SIZE * r
  OBVIOUS
<1>8. q < r \/ r < q \/ q = r
  OBVIOUS
<1> HIDE DEF BlockCount
<1> QED BY <1>1, <1>2, <1>3, <1>4, <1>5, <1>6, <1>7, <1>8

(* The quotient, as a bound.                                                 *)
LEMMA Quotient ==
  ASSUME NEW p \in Nat, NEW q \in Nat
  PROVE  /\ p \div BLOCK_SIZE < q <=> p < BLOCK_SIZE * q
         /\ q <= p \div BLOCK_SIZE <=> BLOCK_SIZE * q <= p
<1>1. BLOCK_SIZE \in Nat /\ BLOCK_SIZE > 0
  BY ConstantsAssumption
<1> DEFINE d == p \div BLOCK_SIZE
           m == p % BLOCK_SIZE
<1>2. d \in Nat /\ m \in 0 .. BLOCK_SIZE - 1 /\ p = BLOCK_SIZE * d + m
  BY Division
<1> HIDE DEF d, m
<1>3. /\ BLOCK_SIZE * q \in Nat /\ BLOCK_SIZE * d \in Nat
      /\ d < q <=> BLOCK_SIZE * d + BLOCK_SIZE <= BLOCK_SIZE * q
      /\ q <= d <=> BLOCK_SIZE * q <= BLOCK_SIZE * d
      /\ q < d <=> BLOCK_SIZE * q + BLOCK_SIZE <= BLOCK_SIZE * d
  BY <1>2, Blocks
<1>4. (d < q <=> p < BLOCK_SIZE * q) /\ (q <= d <=> BLOCK_SIZE * q <= p)
  BY <1>1, <1>2, <1>3
<1> QED BY <1>4 DEF d

(* The blocks that p bytes need, and what is in the last one.                *)
LEMMA Counting ==
  ASSUME NEW p \in Nat
  PROVE  /\ BlockCount(p) \in Nat /\ (BlockCount(p) = 0 <=> p = 0)
         /\ \A q \in Nat : BlockCount(p) <= q <=> p <= BLOCK_SIZE * q
         /\ LastOccupied(p) \in 1 .. BLOCK_SIZE
         /\ p > 0 => p = BLOCK_SIZE * (BlockCount(p) - 1) + LastOccupied(p)
<1>1. BLOCK_SIZE \in Nat /\ BLOCK_SIZE > 0 /\ BLOCK_SIZE - 1 \in Nat
  BY ConstantsAssumption
<1>2. p + BLOCK_SIZE - 1 \in Nat
  BY <1>1
<1>3. BlockCount(p) \in Nat
  BY <1>2, Division DEF BlockCount
<1>4. ASSUME NEW q \in Nat PROVE BlockCount(p) <= q <=> p <= BLOCK_SIZE * q
  <2>1. (p + BLOCK_SIZE - 1) \div BLOCK_SIZE < q + 1 <=> p + BLOCK_SIZE - 1 < BLOCK_SIZE * (q + 1)
    BY <1>2, Quotient
  <2>2. BLOCK_SIZE * (q + 1) = BLOCK_SIZE * q + BLOCK_SIZE /\ BLOCK_SIZE * q \in Nat
    BY Blocks
  <2>3. BlockCount(p) < q + 1 <=> p + BLOCK_SIZE - 1 < BLOCK_SIZE * (q + 1)
    BY <2>1 DEF BlockCount
  <2> QED BY <2>2, <2>3, <1>1, <1>3
<1>5. BlockCount(p) = 0 <=> p = 0
  <2>1. BlockCount(p) <= 0 <=> p <= BLOCK_SIZE * 0
    BY <1>4
  <2>2. BLOCK_SIZE * 0 = 0
    BY <1>1
  <2> QED BY <2>1, <2>2, <1>3
<1>6. p % BLOCK_SIZE \in 0 .. BLOCK_SIZE - 1
  BY Division
<1>7. LastOccupied(p) \in 1 .. BLOCK_SIZE
  BY <1>1, <1>6 DEF LastOccupied
<1>8. ASSUME p > 0 PROVE p = BLOCK_SIZE * (BlockCount(p) - 1) + LastOccupied(p)
  <2> DEFINE d == p \div BLOCK_SIZE
             m == p % BLOCK_SIZE
             b == BlockCount(p)
  <2>1. d \in Nat /\ m \in 0 .. BLOCK_SIZE - 1 /\ p = BLOCK_SIZE * d + m
    BY Division
  <2>2. LastOccupied(p) = IF m = 0 THEN BLOCK_SIZE ELSE m
    BY DEF LastOccupied
  <2>3. b \in Nat \ {0} /\ (\A q \in Nat : b <= q <=> p <= BLOCK_SIZE * q)
    BY <1>3, <1>4, <1>5, <1>8
  <2> HIDE DEF d, m, b
  <2>4. BLOCK_SIZE * (d + 1) = BLOCK_SIZE * d + BLOCK_SIZE /\ BLOCK_SIZE * d \in Nat
    BY <2>1, Blocks
  <2>5. CASE m = 0
    <3>1. b <= d
      BY <2>1, <2>3, <2>5, <2>4
    <3>2. d > 0
      BY <3>1, <2>3, <2>1
    <3>3. BLOCK_SIZE * ((d - 1) + 1) = BLOCK_SIZE * (d - 1) + BLOCK_SIZE /\ (d - 1) + 1 = d /\ BLOCK_SIZE * (d - 1) \in Nat
      <4>1. d - 1 \in Nat /\ (d - 1) + 1 = d
        BY <3>2, <2>1
      <4> QED BY <4>1, Blocks
    <3>4. ~ (b <= d - 1)
      BY <3>2, <3>3, <2>1, <2>3, <2>5, <1>1
    <3>5. b = d
      BY <3>1, <3>4, <2>1, <2>3
    <3> QED BY <3>3, <3>5, <2>1, <2>2, <2>5, <1>1 DEF b
  <2>6. CASE m # 0
    <3>1. b <= d + 1 /\ ~ (b <= d)
      BY <2>1, <2>3, <2>4, <2>6, <1>1
    <3>2. b - 1 = d
      BY <3>1, <2>1, <2>3
    <3> QED BY <3>2, <2>1, <2>2, <2>6 DEF b
  <2> QED BY <2>5, <2>6
<1> QED BY <1>3, <1>4, <1>5, <1>7, <1>8

(* Byte e of block q + 1, and only that, is at the position after q blocks   *)
(* and e bytes.                                                              *)
LEMMA Placing ==
  ASSUME NEW q \in Nat, NEW e \in 1 .. BLOCK_SIZE
  PROVE  /\ BLOCK_SIZE * q + e \in Nat \ {0}
         /\ BlockCount(BLOCK_SIZE * q + e) = q + 1
         /\ LastOccupied(BLOCK_SIZE * q + e) = e
<1>1. BLOCK_SIZE \in Nat /\ BLOCK_SIZE > 0 /\ BLOCK_SIZE * q \in Nat
  BY ConstantsAssumption, Blocks
<1>2. PICK p \in Nat : p = BLOCK_SIZE * q + e
  BY <1>1
<1>3. p > 0 /\ BLOCK_SIZE * q < p /\ p <= BLOCK_SIZE * q + BLOCK_SIZE
  BY <1>1, <1>2
<1>4. /\ BlockCount(p) \in Nat /\ BlockCount(p) <= q + 1 /\ ~ (BlockCount(p) <= q)
      /\ p = BLOCK_SIZE * (BlockCount(p) - 1) + LastOccupied(p)
  <2>1. BLOCK_SIZE * (q + 1) = BLOCK_SIZE * q + BLOCK_SIZE
    BY Blocks
  <2> QED BY <1>1, <1>3, <2>1, Counting
<1>5. BlockCount(p) = q + 1 /\ BlockCount(p) - 1 = q
  BY <1>4
<1>6. p = BLOCK_SIZE * q + LastOccupied(p) /\ LastOccupied(p) \in 1 .. BLOCK_SIZE
  BY <1>4, <1>5, Counting
<1> QED BY <1>1, <1>2, <1>3, <1>5, <1>6
-----------------------------------------------------------------------------
(* Chains *)

(* The contents of the files and what the descriptors hold.                  *)
Contents ==
    /\ name \in [Files -> Names \cup {None}] /\ size \in [Files -> Nat]
    /\ memory \in [Files -> Seq(Block)] /\ occupied \in [Files -> Seq(1 .. BLOCK_SIZE)]
    /\ \A f \in Files : Len(memory[f]) = Len(occupied[f])
    /\ open_flags \in [Slots -> SUBSET Flags] /\ offset \in [Slots -> Nat]
    /\ ufs_error_code \in ErrorCode /\ ret \in Int
    /\ asked \in Requests /\ got \in Seq(AnyByte)

(* A chain of n blocks, each given by a formula, is a sequence.              *)
LEMMA Chains ==
  ASSUME NEW S, NEW n \in Nat, NEW s, s = [b \in 1 .. n |-> s[b]], \A b \in 1 .. n : s[b] \in S
  PROVE  s \in Seq(S) /\ Len(s) = n
<1>1. s \in [1 .. n -> S]
  OBVIOUS
<1>2. s \in Seq(S)
  BY <1>1, SeqDef
<1>3. DOMAIN s = 1 .. n /\ DOMAIN s = 1 .. Len(s) /\ Len(s) \in Nat
  BY <1>1, <1>2, LenProperties
<1>4. Len(s) = n
  BY <1>3
<1> QED BY <1>2, <1>4

(* Lines 239-248 of ufs_write: where a write begins.                         *)
LEMMA WriteBegins ==
  ASSUME Contents, NEW i \in Slots, NEW f \in Files, dfile[i] = f, NEW n \in Nat \ {0}
  PROVE  /\ Len(occupied[f]) \in Nat
         /\ Current(i) \in Nat \ {0} /\ offset[i] % BLOCK_SIZE \in 0 .. BLOCK_SIZE - 1
         /\ offset[i] = BLOCK_SIZE * (Current(i) - 1) + (offset[i] % BLOCK_SIZE)
         /\ First(i, n) \in 1 .. BLOCK_SIZE - (offset[i] % BLOCK_SIZE)
         /\ First(i, n) <= n
         /\ First(i, n) < n => First(i, n) = BLOCK_SIZE - (offset[i] % BLOCK_SIZE)
         /\ StartBlock(i) = IF InPlace(i) THEN Current(i) ELSE Len(occupied[f]) + 1
         /\ StartBlock(i) \in 1 .. Len(occupied[f]) + 1
         /\ Kept(i) = IF StartBlock(i) <= Len(occupied[f]) THEN Len(occupied[f]) ELSE StartBlock(i)
<1>1. BLOCK_SIZE \in Nat /\ BLOCK_SIZE > 0
  BY ConstantsAssumption
<1>2. offset[i] \in Nat /\ Len(occupied[f]) \in Nat
  BY LenProperties DEF Contents
<1>3. /\ Current(i) \in Nat \ {0} /\ offset[i] % BLOCK_SIZE \in 0 .. BLOCK_SIZE - 1
      /\ offset[i] = BLOCK_SIZE * (Current(i) - 1) + (offset[i] % BLOCK_SIZE)
  <2>1. /\ offset[i] \div BLOCK_SIZE \in Nat /\ offset[i] % BLOCK_SIZE \in 0 .. BLOCK_SIZE - 1
        /\ offset[i] = BLOCK_SIZE * (offset[i] \div BLOCK_SIZE) + (offset[i] % BLOCK_SIZE)
    BY <1>2, Division
  <2>2. Current(i) - 1 = offset[i] \div BLOCK_SIZE /\ Current(i) \in Nat \ {0}
    BY <2>1 DEF Current
  <2> QED BY <2>1, <2>2
<1>4. /\ First(i, n) \in 1 .. BLOCK_SIZE - (offset[i] % BLOCK_SIZE)
      /\ First(i, n) <= n
      /\ First(i, n) < n => First(i, n) = BLOCK_SIZE - (offset[i] % BLOCK_SIZE)
  BY <1>1, <1>3 DEF First, Lesser
<1>5. InPlace(i) => Current(i) <= Len(occupied[f])
  BY DEF InPlace
<1>6. /\ StartBlock(i) = IF InPlace(i) THEN Current(i) ELSE Len(occupied[f]) + 1
      /\ StartBlock(i) \in 1 .. Len(occupied[f]) + 1
  BY <1>2, <1>3, <1>5 DEF StartBlock
<1>7. Kept(i) = IF StartBlock(i) <= Len(occupied[f]) THEN Len(occupied[f]) ELSE StartBlock(i)
  BY <1>2, <1>6 DEF Kept, Greater
<1> QED BY <1>2, <1>3, <1>4, <1>6, <1>7

(* How long the chain gets.                                                  *)
BlocksAfter(i, n) == Greater(Kept(i), In(i, n, n))

(* Lines 244-282 of ufs_write: every byte has a place in the chain, and      *)
(* every block that is added gets a byte.                                    *)
LEMMA WritePlaces ==
  ASSUME Contents, NEW i \in Slots, NEW f \in Files, dfile[i] = f, NEW n \in Nat \ {0}
  PROVE  /\ BlocksAfter(i, n) = IF First(i, n) = n THEN Kept(i) ELSE Kept(i) + BlockCount(n - First(i, n))
         /\ BlocksAfter(i, n) \in Nat /\ Len(occupied[f]) <= BlocksAfter(i, n)
         /\ \A k \in 1 .. n : At(i, n, k) \in 1 .. BLOCK_SIZE
         /\ \A b \in 1 .. BlocksAfter(i, n) : b > Len(occupied[f]) => \E k \in 1 .. n : In(i, n, k) = b
<1> DEFINE w == offset[i] % BLOCK_SIZE
           last == Len(occupied[f])
           head == First(i, n)
           start == StartBlock(i)
           kept == Kept(i)
           count == BlocksAfter(i, n)
<1>1. BLOCK_SIZE \in Nat /\ BLOCK_SIZE > 0
  BY ConstantsAssumption
<1>2. /\ last \in Nat /\ w \in 0 .. BLOCK_SIZE - 1
      /\ head \in 1 .. BLOCK_SIZE - w /\ head <= n
      /\ head < n => head = BLOCK_SIZE - w
      /\ start \in 1 .. last + 1
      /\ kept = IF start <= last THEN last ELSE start
  BY WriteBegins
<1>3. ASSUME NEW k \in 1 .. n
      PROVE  /\ In(i, n, k) = IF k <= head THEN start ELSE kept + BlockCount(k - head)
             /\ At(i, n, k) = IF k <= head THEN w + k ELSE LastOccupied(k - head)
  BY DEF In, At
<1> HIDE DEF w, last, head, start, kept
<1>4. kept \in Nat /\ last <= kept /\ start <= kept /\ kept <= last + 1
  BY <1>2
<1>5. ASSUME NEW k \in 1 .. n, k > head
      PROVE  k - head \in Nat \ {0} /\ BlockCount(k - head) \in Nat \ {0}
  <2>1. k - head \in Nat \ {0}
    BY <1>2, <1>5
  <2> QED BY <2>1, Counting
<1>6. /\ count = IF head = n THEN kept ELSE kept + BlockCount(n - head)
      /\ count \in Nat /\ last <= count
  <2>1. count = IF kept < In(i, n, n) THEN In(i, n, n) ELSE kept
    BY DEF BlocksAfter, Greater, kept
  <2>2. CASE head = n
    <3>1. In(i, n, n) = start
      BY <2>2, <1>2, <1>3
    <3> HIDE DEF count
    <3> QED BY <2>1, <2>2, <3>1, <1>2, <1>4
  <2>3. CASE head # n
    <3>1. n > head /\ n \in 1 .. n
      BY <2>3, <1>2
    <3>2. In(i, n, n) = kept + BlockCount(n - head) /\ BlockCount(n - head) \in Nat \ {0}
      BY <3>1, <1>2, <1>3, <1>5
    <3> HIDE DEF count
    <3> QED BY <2>1, <2>3, <3>2, <1>2, <1>4
  <2> QED BY <2>2, <2>3
<1>7. ASSUME NEW k \in 1 .. n PROVE At(i, n, k) \in 1 .. BLOCK_SIZE
  <2>1. CASE k <= head
    BY <2>1, <1>1, <1>2, <1>3
  <2>2. CASE k > head
    <3>1. LastOccupied(k - head) \in 1 .. BLOCK_SIZE
      BY <2>2, <1>5, Counting
    <3> QED BY <3>1, <2>2, <1>2, <1>3
  <2> QED BY <2>1, <2>2, <1>2
<1> HIDE DEF count
<1>8. ASSUME NEW b \in 1 .. count, b > last
      PROVE  \E k \in 1 .. n : In(i, n, k) = b
  <2>1. CASE b <= kept
    <3>1. b = start
      BY <2>1, <1>2, <1>4, <1>8
    <3>2. 1 \in 1 .. n /\ 1 <= head
      BY <1>2
    <3> QED BY <3>1, <3>2, <1>3
  <2>2. CASE b > kept
    <3>1. head # n /\ b <= kept + BlockCount(n - head) /\ n > head /\ n - head \in Nat
      BY <2>2, <1>2, <1>4, <1>6
    <3>2. PICK q \in Nat : b = kept + q + 1
      <4>1. b - kept - 1 \in Nat /\ b = kept + (b - kept - 1) + 1
        BY <2>2, <1>4
      <4> QED BY <4>1
    <3>3. BlockCount(n - head) \in Nat /\ ~ (BlockCount(n - head) <= q)
      BY <3>1, <3>2, <1>4, Counting
    <3>4. BLOCK_SIZE * q \in Nat /\ BLOCK_SIZE * q < n - head
      <4>1. BLOCK_SIZE * q \in Nat
        BY Blocks
      <4>2. BlockCount(n - head) <= q <=> n - head <= BLOCK_SIZE * q
        BY <3>1, Counting
      <4> QED BY <4>1, <4>2, <3>1, <3>3
    <3> DEFINE k == head + (BLOCK_SIZE * q + 1)
    <3>5. k \in 1 .. n /\ k > head /\ k - head = BLOCK_SIZE * q + 1
      BY <3>1, <3>4, <1>2
    <3>6. BlockCount(BLOCK_SIZE * q + 1) = q + 1
      BY <1>1, Placing
    <3> HIDE DEF k
    <3>7. In(i, n, k) = kept + BlockCount(k - head)
      BY <3>5, <1>2, <1>3
    <3>8. In(i, n, k) = b
      BY <3>2, <3>5, <3>6, <3>7, <1>4
    <3> QED BY <3>5, <3>8
  <2> QED BY <2>1, <2>2, <1>4
<1> QED BY <1>6, <1>7, <1>8 DEF w, last, head, start, kept, count

(* What ufs_write makes of the chain is a chain: bytes in every place, and a *)
(* number of bytes from 1 to BLOCK_SIZE in every block.                      *)
LEMMA WriteChain ==
  ASSUME Contents, NEW i \in Slots, NEW f \in Files, dfile[i] = f,
         NEW data, NEW n \in Nat \ {0}, data \in [1 .. n -> Bytes]
  PROVE  /\ Written(i, data) \in Seq(Block) /\ Occupied(i, n) \in Seq(1 .. BLOCK_SIZE)
         /\ Len(Written(i, data)) = BlocksAfter(i, n) /\ Len(Occupied(i, n)) = BlocksAfter(i, n)
         /\ \A b \in 1 .. BlocksAfter(i, n) :
              LET ends == {At(i, n, k) : k \in {l \in 1 .. n : In(i, n, l) = b}}
                          \cup {IF b <= Len(occupied[f]) THEN occupied[f][b] ELSE 0}
              IN  Occupied(i, n)[b] \in ends /\ \A d \in ends : d <= Occupied(i, n)[b]
<1> DEFINE count == BlocksAfter(i, n)
           old(b) == IF b <= Len(occupied[f]) THEN occupied[f][b] ELSE 0
           at(b) == {At(i, n, k) : k \in {l \in 1 .. n : In(i, n, l) = b}}
           ends(b) == at(b) \cup {old(b)}
<1>1. BLOCK_SIZE \in Nat /\ BLOCK_SIZE > 0
  BY ConstantsAssumption
<1>2. /\ count \in Nat
      /\ \A k \in 1 .. n : At(i, n, k) \in 1 .. BLOCK_SIZE
      /\ \A b \in 1 .. count : b > Len(occupied[f]) => \E k \in 1 .. n : In(i, n, k) = b
  BY WritePlaces
<1>3. Len(data) = n
  <2>1. data \in Seq(Bytes)
    BY SeqDef
  <2> QED BY <2>1, LenProperties
<1>4. /\ Len(memory[f]) = Len(occupied[f]) /\ Len(occupied[f]) \in Nat
      /\ \A b \in 1 .. Len(occupied[f]) : occupied[f][b] \in 1 .. BLOCK_SIZE
      /\ \A b \in 1 .. Len(memory[f]) : memory[f][b] \in Block
  BY LenProperties, ElementOfSeq DEF Contents
<1> HIDE DEF count
<1>5. Written(i, data) \in Seq(Block) /\ Len(Written(i, data)) = count
  <2> DEFINE here(b, j) == {k \in 1 .. n : In(i, n, k) = b /\ At(i, n, k) = j}
             kept(b, j) == IF b <= Len(memory[f]) THEN memory[f][b][j] ELSE Garbage
             s == [b \in 1 .. count |-> [j \in 1 .. BLOCK_SIZE |->
                    IF here(b, j) = {} THEN kept(b, j) ELSE data[CHOOSE k \in here(b, j) : TRUE]]]
  <2>1. Written(i, data) = s
    BY <1>3 DEF Written, count, BlocksAfter
  <2>2. ASSUME NEW b \in 1 .. count, NEW j \in 1 .. BLOCK_SIZE
        PROVE  (IF here(b, j) = {} THEN kept(b, j) ELSE data[CHOOSE k \in here(b, j) : TRUE]) \in AnyByte
    <3>1. kept(b, j) \in AnyByte
      <4>1. ASSUME b <= Len(memory[f]) PROVE memory[f][b][j] \in AnyByte
        <5>1. b \in 1 .. Len(memory[f])
          BY <4>1, <1>2, <1>4
        <5> QED BY <5>1, <1>4 DEF Block
      <4>2. Garbage \in AnyByte
        BY DEF AnyByte
      <4> QED BY <4>1, <4>2
    <3>2. here(b, j) # {} => (CHOOSE k \in here(b, j) : TRUE) \in here(b, j)
      <4> HIDE DEF here
      <4> QED BY Zenon
    <3>3. here(b, j) # {} => (CHOOSE k \in here(b, j) : TRUE) \in 1 .. n
      BY <3>2
    <3> HIDE DEF here, kept
    <3> QED BY <3>1, <3>3 DEF AnyByte
  <2> HIDE DEF here, kept
  <2>3. \A b \in 1 .. count : s[b] \in Block
    BY <2>2 DEF Block
  <2>4. s = [b \in 1 .. count |-> s[b]]
    OBVIOUS
  <2> HIDE DEF s
  <2> QED BY <2>1, <2>3, <2>4, <1>2, Chains, SMTT(40)
<1>6. ASSUME NEW b \in 1 .. count
      PROVE  \E e \in ends(b) : e \in 1 .. BLOCK_SIZE /\ \A d \in ends(b) : d <= e
  <2>1. at(b) \subseteq 1 .. BLOCK_SIZE
    BY <1>2
  <2>2. old(b) \in 0 .. BLOCK_SIZE /\ (b <= Len(occupied[f]) => old(b) \in 1 .. BLOCK_SIZE)
    BY <1>1, <1>2, <1>4
  <2>3. b > Len(occupied[f]) => at(b) # {}
    <3>1. ASSUME b > Len(occupied[f]) PROVE at(b) # {}
      <4>1. PICK k \in 1 .. n : In(i, n, k) = b
        BY <1>2, <3>1
      <4> QED BY <4>1
    <3> QED BY <3>1
  <2> HIDE DEF at, old
  <2>4. ends(b) \subseteq 0 .. BLOCK_SIZE /\ ends(b) # {}
    BY <2>1, <2>2, <1>1
  <2>5. \E d \in ends(b) : d \in 1 .. BLOCK_SIZE
    BY <2>1, <2>2, <2>3, <1>2, <1>4
  <2> HIDE DEF ends
  <2>6. PICK e \in ends(b) : \A d \in ends(b) : d <= e
    BY <2>4, <1>1, Greatest
  <2> QED BY <2>4, <2>5, <2>6, <1>1
<1> DEFINE s == [b \in 1 .. count |-> CHOOSE e \in ends(b) : \A d \in ends(b) : d <= e]
<1>7. Occupied(i, n) = s
  BY DEF Occupied, count, BlocksAfter
<1>8. ASSUME NEW b \in 1 .. count
      PROVE  s[b] \in ends(b) /\ (\A d \in ends(b) : d <= s[b]) /\ s[b] \in 1 .. BLOCK_SIZE
  <2> DEFINE c == CHOOSE e \in ends(b) : \A d \in ends(b) : d <= e
  <2>1. s[b] = c
    <3> HIDE DEF ends
    <3> QED OBVIOUS
  <2>2. PICK e \in ends(b) : e \in 1 .. BLOCK_SIZE /\ \A d \in ends(b) : d <= e
    BY <1>6
  <2>3. c \in ends(b) /\ \A d \in ends(b) : d <= c
    <3> HIDE DEF ends
    <3> QED BY <2>2, Zenon
  <2>4. ends(b) \subseteq 0 .. BLOCK_SIZE
    BY <1>1, <1>2, <1>4
  <2>5. e <= c /\ c \in 0 .. BLOCK_SIZE
    <3> HIDE DEF ends, c
    <3> QED BY <2>2, <2>3, <2>4
  <2> HIDE DEF ends, c, s
  <2> QED BY <2>1, <2>2, <2>3, <2>5, <1>1
<1>9. s = [b \in 1 .. count |-> s[b]]
  <2> HIDE DEF ends
  <2> QED OBVIOUS
<1>10. s \in Seq(1 .. BLOCK_SIZE) /\ Len(s) = count
  <2> HIDE DEF s
  <2> QED BY <1>2, <1>8, <1>9, Chains
<1>11. \A b \in 1 .. count : Occupied(i, n)[b] \in ends(b) /\ \A d \in ends(b) : d <= Occupied(i, n)[b]
  <2> HIDE DEF s, ends
  <2> QED BY <1>7, <1>8
<1> QED BY <1>5, <1>7, <1>10, <1>11 DEF count

(* Where the loop of ufs_read stands: a block, a position, what it has got.  *)
Reader(most) ==
    {s \in [block : Nat \ {0}, pos : Nat, bytes : Seq(AnyByte)] : Len(s.bytes) <= most}

(* k bytes of its block, from where it stands on.                            *)
Piece(f, s, k) ==
    SubSeq(memory[f][s.block], (s.pos % BLOCK_SIZE) + 1, (s.pos % BLOCK_SIZE) + k)

(* The reader has gone from s to t over k bytes.                             *)
Advances(f, most, s, k, t) ==
    /\ t.block = s.block + 1 /\ t.pos = s.pos + k
    /\ Len(t.bytes) = Len(s.bytes) + k
    /\ t.bytes = s.bytes \o Piece(f, s, k)
    /\ (s.pos % BLOCK_SIZE) + k <= occupied[f][s.block]
    /\ (s.pos % BLOCK_SIZE) + k = occupied[f][s.block] \/ Len(t.bytes) = most

(* Lines 329-347: a turn that copies goes on to the next block, and stays    *)
(* within what is occupied of the one it leaves.                             *)
LEMMA TurnCopies ==
  ASSUME Contents, NEW f \in Files, NEW most \in Nat, NEW s \in Reader(most)
  PROVE  \/ Turn(f, most, s) = s
         \/ /\ s.block <= Len(occupied[f]) /\ Len(s.bytes) # most
            /\ s.pos % BLOCK_SIZE < occupied[f][s.block]
            /\ \E k \in 1 .. BLOCK_SIZE, t \in Reader(most) :
                 t = Turn(f, most, s) /\ Advances(f, most, s, k, t)
<1> DEFINE from == s.pos % BLOCK_SIZE
           occ == occupied[f][s.block]
           k == Lesser(occ - from, most - Len(s.bytes))
           new == SubSeq(memory[f][s.block], from + 1, from + k)
           t == [block |-> s.block + 1, pos |-> s.pos + k, bytes |-> s.bytes \o new]
<1>1. /\ s.block \in Nat \ {0} /\ s.pos \in Nat /\ s.bytes \in Seq(AnyByte)
      /\ Len(s.bytes) <= most /\ Len(s.bytes) \in Nat
  BY LenProperties DEF Reader
<1>2. CASE s.block > Len(occupied[f]) \/ Len(s.bytes) = most
  BY <1>2 DEF Turn
<1>3. CASE ~ (s.block > Len(occupied[f]) \/ Len(s.bytes) = most) /\ from >= occ
  BY <1>3 DEF Turn
<1>4. CASE ~ (s.block > Len(occupied[f]) \/ Len(s.bytes) = most) /\ ~ (from >= occ)
  <2>1. BLOCK_SIZE \in Nat /\ BLOCK_SIZE > 0 /\ from \in 0 .. BLOCK_SIZE - 1
    <3>1. from \in 0 .. BLOCK_SIZE - 1
      BY <1>1, Division
    <3> HIDE DEF from
    <3> QED BY <3>1, ConstantsAssumption
  <2>2. Len(occupied[f]) \in Nat /\ Len(occupied[f]) = Len(memory[f])
    BY LenProperties DEF Contents
  <2>3. s.block \in 1 .. Len(occupied[f]) /\ s.block \in 1 .. Len(memory[f])
    BY <1>1, <1>4, <2>2
  <2>4. occ \in 1 .. BLOCK_SIZE /\ memory[f][s.block] \in Block
    BY <2>3, ElementOfSeq DEF Contents
  <2>5. Turn(f, most, s) = t
    BY <1>4 DEF Turn, Copied
  <2> HIDE DEF from, occ
  <2>6. /\ k \in 1 .. BLOCK_SIZE /\ from + k <= occ /\ Len(s.bytes) + k <= most
        /\ from + k = occ \/ Len(s.bytes) + k = most
    <3>1. occ \in Nat /\ from \in Nat /\ from < occ /\ occ <= BLOCK_SIZE
      BY <1>4, <2>1, <2>4
    <3>2. most - Len(s.bytes) \in Nat \ {0}
      BY <1>1, <1>4
    <3>3. k = IF occ - from < most - Len(s.bytes) THEN occ - from ELSE most - Len(s.bytes)
      BY DEF Lesser
    <3> HIDE DEF k
    <3>4. PICK had, m \in Nat : had = Len(s.bytes) /\ m = most - had /\ m > 0
      BY <3>2, <1>1
    <3>5. k = IF occ - from < m THEN occ - from ELSE m
      BY <3>3, <3>4
    <3>6. /\ k \in 1 .. BLOCK_SIZE /\ from + k <= occ /\ had + k <= most
          /\ from + k = occ \/ had + k = most
      <4>1. CASE occ - from < m
        <5>1. k = occ - from
          BY <4>1, <3>5
        <5>2. k \in Nat \ {0} /\ from + k = occ /\ k < m
          BY <5>1, <4>1, <3>1
        <5> QED BY <5>2, <3>1, <3>4, <2>1
      <4>2. CASE ~ (occ - from < m)
        <5>1. k = m
          BY <4>2, <3>5
        <5>2. k \in Nat \ {0} /\ from + k <= occ /\ had + k = most
          BY <5>1, <4>2, <3>1, <3>4
        <5> QED BY <5>2, <3>1, <3>4, <2>1
      <4> QED BY <4>1, <4>2
    <3> QED BY <3>4, <3>6
  <2> HIDE DEF k
  <2>7. new \in Seq(AnyByte) /\ Len(new) = k
    <3>1. \A j \in from + 1 .. from + k : memory[f][s.block][j] \in AnyByte
      BY <2>1, <2>4, <2>6 DEF Block
    <3>2. from + 1 \in Int /\ from + k \in Int
      BY <2>1, <2>6
    <3>3. /\ new \in Seq(AnyByte)
          /\ Len(new) = IF from + 1 <= from + k THEN (from + k) - (from + 1) + 1 ELSE 0
      BY <3>1, <3>2, SubSeqProperties
    <3> HIDE DEF new
    <3> QED BY <3>3, <2>1, <2>6
  <2> HIDE DEF new
  <2>8. s.bytes \o new \in Seq(AnyByte) /\ Len(s.bytes \o new) = Len(s.bytes) + k
    BY <1>1, <2>7, ConcatProperties
  <2>9. /\ t \in Reader(most) /\ t.block = s.block + 1 /\ t.pos = s.pos + k
        /\ Len(t.bytes) = Len(s.bytes) + k
    BY <1>1, <2>6, <2>8 DEF Reader
  <2>13. t.bytes = s.bytes \o new
    OBVIOUS
  <2> HIDE DEF t
  <2>10. s.block <= Len(occupied[f]) /\ Len(s.bytes) # most /\ from < occ
    BY <1>4, <2>1, <2>4, <2>3
  <2>11. Len(t.bytes) = most \/ from + k = occ
    BY <2>6, <2>9
  <2>12. t = Turn(f, most, s)
    BY <2>5
  <2>14. Advances(f, most, s, k, t)
    BY <2>6, <2>9, <2>11, <2>13 DEF Advances, Piece, from, occ, new
  <2>15. s.pos % BLOCK_SIZE < occupied[f][s.block]
    BY <2>10 DEF from, occ
  <2> QED BY <2>6, <2>9, <2>10, <2>12, <2>14, <2>15
<1> QED BY <1>2, <1>3, <1>4

(* The reader's state after the loop satisfies whatever the turns keep, and  *)
(* it has come to its end: most turns are enough.                            *)
LEMMA ReadLoop ==
  ASSUME Contents, NEW f \in Files, NEW most \in Nat, NEW first \in Nat \ {0}, NEW start \in Nat,
         NEW I, I \subseteq Reader(most),
         [block |-> first, pos |-> start, bytes |-> <<>>] \in I,
         \A s \in I : Turn(f, most, s) \in I
  PROVE  \E s \in I : /\ ReadFrom(f, first, start, most) = s.bytes
                      /\ Len(s.bytes) = most \/ Turn(f, most, s) = s
<1> DEFINE begin == [block |-> first, pos |-> start, bytes |-> <<>>]
           step == [s \in I |-> Turn(f, most, s)]
<1>1. step \in [I -> I] /\ begin \in I
  OBVIOUS
<1>2. \A s \in I : step[s] = Turn(f, most, s)
  OBVIOUS
<1> HIDE DEF begin, step
<1>3. PICK g \in [Nat -> I] : g = [j \in Nat |-> IF j = 0 THEN begin ELSE step[g[j - 1]]]
  <2>1. PICK g \in [Nat -> I] : Repeats(g, begin, step)
    BY <1>1, Iteration, Zenon
  <2> QED BY <2>1, Zenon DEF Repeats
<1>4. \A j \in Nat : j # 0 => step[g[j - 1]] = Turn(f, most, g[j - 1])
  <2> SUFFICES ASSUME NEW j \in Nat, j # 0 PROVE step[g[j - 1]] = Turn(f, most, g[j - 1])
    OBVIOUS
  <2>1. j - 1 \in Nat
    OBVIOUS
  <2>2. g[j - 1] \in I
    BY <1>3, <2>1
  <2> QED BY <2>2, <1>2
<1>5. g = [j \in Nat |-> IF j = 0 THEN begin ELSE Turn(f, most, g[j - 1])]
  BY <1>3, <1>4
<1> DEFINE run == Turns(f, first, start, most)
<1>6. run = CHOOSE s : s = [j \in Nat |-> IF j = 0 THEN begin ELSE Turn(f, most, s[j - 1])]
  BY DEF Turns, begin
<1>7. run = [j \in Nat |-> IF j = 0 THEN begin ELSE Turn(f, most, run[j - 1])]
  <2> HIDE DEF run
  <2> QED BY <1>5, <1>6, Zenon
<1> DEFINE Good == {j \in Nat : /\ run[j] \in I
                                /\ Len(run[j].bytes) >= j \/ Turn(f, most, run[j]) = run[j]}
<1> HIDE DEF run
<1>8. 0 \in Good
  <2>1. run[0] = begin
    BY <1>7
  <2>2. run[0].bytes = <<>>
    BY <2>1 DEF begin
  <2>3. Len(run[0].bytes) >= 0
    BY <2>2
  <2> QED BY <2>1, <2>3, <1>1
<1>9. ASSUME NEW j \in Good PROVE j + 1 \in Good
  <2>1. j + 1 \in Nat /\ j + 1 # 0 /\ (j + 1) - 1 = j
    OBVIOUS
  <2>2. run[j + 1] = Turn(f, most, run[j])
    BY <1>7, <2>1
  <2> DEFINE s == run[j]
             t == run[j + 1]
  <2>3. s \in I /\ t \in I /\ t = Turn(f, most, s) /\ (Len(s.bytes) >= j \/ t = s)
    BY <2>2
  <2> HIDE DEF s, t
  <2>4. CASE t = s
    <3>1. Turn(f, most, t) = t
      BY <2>3, <2>4
    <3> QED BY <3>1, <2>1, <2>3 DEF t
  <2>5. CASE t # s
    <3>1. s \in Reader(most)
      BY <2>3
    <3>5. PICK k \in 1 .. BLOCK_SIZE : Advances(f, most, s, k, t)
      BY <3>1, <2>3, <2>5, TurnCopies
    <3>2. Len(t.bytes) = Len(s.bytes) + k
      BY <3>5 DEF Advances
    <3>3. Len(s.bytes) \in Nat /\ Len(s.bytes) >= j /\ k \in Nat \ {0}
      BY <3>1, <2>3, <2>5, LenProperties, ConstantsAssumption DEF Reader
    <3>4. Len(t.bytes) >= j + 1
      BY <3>2, <3>3, <2>1
    <3> QED BY <3>4, <2>1, <2>3 DEF t
  <2> QED BY <2>4, <2>5
<1>10. Good = Nat
  <2> HIDE DEF Good
  <2>1. Good \subseteq Nat
    BY DEF Good
  <2> QED BY <1>8, <1>9, <2>1, Induction
<1>11. run[most] \in I /\ (Len(run[most].bytes) >= most \/ Turn(f, most, run[most]) = run[most])
  <2>1. most \in Good
    <3> HIDE DEF Good
    <3> QED BY <1>10
  <2> QED BY <2>1
<1>12. Len(run[most].bytes) \in Nat /\ Len(run[most].bytes) <= most
  <2>1. run[most] \in Reader(most)
    BY <1>11
  <2> QED BY <2>1, LenProperties DEF Reader
<1>13. Len(run[most].bytes) = most \/ Turn(f, most, run[most]) = run[most]
  BY <1>11, <1>12
<1> QED BY <1>11, <1>13 DEF ReadFrom, run

(* More bytes need no fewer blocks, and reach no earlier one.                *)
LEMMA Monotone ==
  ASSUME NEW m \in Nat, NEW n \in Nat, m <= n
  PROVE  /\ BlockCount(m) \in Nat /\ BlockCount(n) \in Nat /\ BlockCount(m) <= BlockCount(n)
         /\ m \div BLOCK_SIZE \in Nat /\ n \div BLOCK_SIZE \in Nat
         /\ m \div BLOCK_SIZE <= n \div BLOCK_SIZE /\ n \div BLOCK_SIZE <= BlockCount(n)
<1> DEFINE b == BlockCount(n)
           d == m \div BLOCK_SIZE
           e == n \div BLOCK_SIZE
<1>1. BlockCount(m) \in Nat /\ b \in Nat /\ d \in Nat /\ e \in Nat
  BY Counting, Division
<1> HIDE DEF b, d, e
<1>2. BLOCK_SIZE * b \in Nat /\ BLOCK_SIZE * d \in Nat /\ BLOCK_SIZE * e \in Nat
  BY <1>1, Blocks
<1>3. n <= BLOCK_SIZE * b
  BY <1>1, Counting DEF b
<1>4. BlockCount(m) <= b
  <2>1. m <= BLOCK_SIZE * b
    BY <1>2, <1>3
  <2> QED BY <1>1, <2>1, Counting
<1>5. d <= e
  <2>1. BLOCK_SIZE * d <= m
    BY <1>1, Quotient DEF d
  <2>2. BLOCK_SIZE * d <= n
    BY <1>2, <2>1
  <2> QED BY <1>1, <2>2, Quotient DEF e
<1>6. e <= b
  <2>1. BLOCK_SIZE * e <= n
    BY <1>1, Quotient DEF e
  <2>2. BLOCK_SIZE * e <= BLOCK_SIZE * b
    BY <1>2, <1>3, <2>1
  <2> QED BY <1>1, <2>2, Blocks
<1> QED BY <1>1, <1>4, <1>5, <1>6 DEF b, d, e

-----------------------------------------------------------------------------
(* What the calls do to a file *)

(* The open descriptor of a call, and its file.                              *)
LEMMA OpenDescriptor ==
  ASSUME Table, NEW fd, fd \in Descriptors, IsOpen(fd)
  PROVE  fd - 1 \in Slots /\ dfile[fd - 1] \in Files
BY ConstantsAssumption DEF IsOpen, Table, TableType, Slots, Descriptors

(* A write of n bytes through descriptor i makes m and o of the file f.      *)
Writes(i, f, n, m, o) ==
    /\ dfile[i] = f
    /\ Len(m) = Len(o) /\ o = Occupied(i, n) /\ Len(o) = BlocksAfter(i, n)
    /\ \A b \in 1 .. Len(o) :
         LET ends == {At(i, n, k) : k \in {l \in 1 .. n : In(i, n, l) = b}}
                     \cup {IF b <= Len(occupied[f]) THEN occupied[f][b] ELSE 0}
         IN  o[b] \in ends /\ \A d \in ends : d <= o[b]
    /\ memory' = [memory EXCEPT ![f] = m] /\ occupied' = [occupied EXCEPT ![f] = o]
    /\ offset' = [offset EXCEPT ![i] = offset[i] + n]
    /\ size' = [size EXCEPT ![f] = Greater(size[f], offset[i] + n)]
    /\ ~ TooBig(f, n) /\ (Overwriting \/ InPlace(i) \/ Current(i) > Len(occupied[f]))
    /\ Replies(<<"write", n>>, n) /\ UNCHANGED <<name, dfile, open_flags>>

(* Lines 239-289, ufs_write.                                                 *)
LEMMA WriteEffect ==
  ASSUME Table, Contents, NEW fd \in Descriptors, NEW data \in Buffers, Write(fd, data)
  PROVE  \E i \in Slots, f \in Files, n \in Nat \ {0}, m \in Seq(Block), o \in Seq(1 .. BLOCK_SIZE) :
           Writes(i, f, n, m, o)
<1> DEFINE i == fd - 1
           f == dfile[i]
<1>1. i \in Slots /\ f \in Files
  BY OpenDescriptor DEF Write
<1>2. PICK n \in Nat \ {0} : data \in [1 .. n -> Bytes]
  BY ConstantsAssumption DEF Buffers
<1>3. Len(data) = n
  <2>1. data \in Seq(Bytes)
    BY <1>2, SeqDef
  <2> QED BY <1>2, <2>1, LenProperties
<1>4. /\ ~ TooBig(f, n) /\ (Overwriting \/ InPlace(i) \/ Current(i) > Len(occupied[f]))
      /\ memory' = [memory EXCEPT ![f] = Written(i, data)]
      /\ occupied' = [occupied EXCEPT ![f] = Occupied(i, n)]
      /\ offset' = [offset EXCEPT ![i] = @ + n]
      /\ size' = [size EXCEPT ![f] = SizeAfter(f, offset[i] + n)]
      /\ Replies(<<"write", n>>, n) /\ UNCHANGED <<name, dfile, open_flags>>
  BY <1>3 DEF Write
<1>5. /\ Written(i, data) \in Seq(Block) /\ Occupied(i, n) \in Seq(1 .. BLOCK_SIZE)
      /\ Len(Written(i, data)) = BlocksAfter(i, n) /\ Len(Occupied(i, n)) = BlocksAfter(i, n)
      /\ \A b \in 1 .. BlocksAfter(i, n) :
           LET ends == {At(i, n, k) : k \in {l \in 1 .. n : In(i, n, l) = b}}
                       \cup {IF b <= Len(occupied[f]) THEN occupied[f][b] ELSE 0}
           IN  Occupied(i, n)[b] \in ends /\ \A d \in ends : d <= Occupied(i, n)[b]
  <2> HIDE DEF i
  <2> QED BY <1>1, <1>2, WriteChain
<1>6. /\ offset' = [offset EXCEPT ![i] = offset[i] + n]
      /\ size' = [size EXCEPT ![f] = Greater(size[f], offset[i] + n)]
  BY <1>4 DEF SizeAfter
<1> HIDE DEF i
<1>7. PICK m \in Seq(Block), o \in Seq(1 .. BLOCK_SIZE) : m = Written(i, data) /\ o = Occupied(i, n)
  BY <1>5
<1>8. Writes(i, f, n, m, o)
  BY <1>4, <1>5, <1>6, <1>7 DEF Writes
<1> HIDE DEF f
<1> QED BY <1>1, <1>8

(* Lines 427-466, ufs_resize when the file gets shorter.                     *)
LEMMA ShrinkEffect ==
  ASSUME Table, Contents, NEW fd \in Descriptors, NEW new \in Nat, Shrink(fd, new)
  PROVE  \E f \in Files, kept \in Nat, m \in Seq(Block), o \in Seq(1 .. BLOCK_SIZE) :
           /\ new < size[f] /\ kept <= Len(occupied[f])
           /\ kept = Len(occupied[f]) - (BlockCount(size[f]) - BlockCount(new))
           /\ Len(m) = kept /\ Len(o) = kept
           /\ \A b \in 1 .. kept : o[b] = IF b = kept THEN LastOccupied(new) ELSE occupied[f][b]
           /\ memory' = [memory EXCEPT ![f] = m] /\ occupied' = [occupied EXCEPT ![f] = o]
           /\ size' = [size EXCEPT ![f] = IF kept = 0 THEN 0 ELSE new]
           /\ offset' = Clamped(f, new)
           /\ UNCHANGED <<name, dfile, open_flags>>
<1> DEFINE f == dfile[fd - 1]
           kept == Len(occupied[f]) - (BlockCount(size[f]) - BlockCount(new))
           m == SubSeq(memory[f], 1, kept)
           o == [b \in 1 .. kept |-> IF b = kept THEN LastOccupied(new) ELSE occupied[f][b]]
<1>1. f \in Files
  BY OpenDescriptor DEF Shrink, MayResize
<1>2. /\ new < size[f] /\ kept >= 0
      /\ memory' = [memory EXCEPT ![f] = m] /\ occupied' = [occupied EXCEPT ![f] = o]
      /\ size' = [size EXCEPT ![f] = IF kept = 0 THEN 0 ELSE new]
      /\ offset' = Clamped(f, new)
      /\ UNCHANGED <<name, dfile, open_flags>>
  BY DEF Shrink
<1> HIDE DEF f
<1>3. /\ Len(occupied[f]) \in Nat /\ Len(memory[f]) = Len(occupied[f]) /\ size[f] \in Nat
      /\ \A b \in 1 .. Len(occupied[f]) : occupied[f][b] \in 1 .. BLOCK_SIZE
      /\ \A b \in 1 .. Len(memory[f]) : memory[f][b] \in Block
  BY <1>1, LenProperties, ElementOfSeq DEF Contents
<1>4. BlockCount(new) <= BlockCount(size[f])
  <2>1. new <= size[f] /\ size[f] \in Nat
    BY <1>2, <1>3
  <2> QED BY <2>1, Monotone
<1>5. kept \in Nat /\ kept <= Len(occupied[f])
  <2>1. BlockCount(new) \in Nat /\ BlockCount(size[f]) \in Nat
    BY <1>3, Counting
  <2> QED BY <2>1, <1>2, <1>3, <1>4
<1>6. m \in Seq(Block) /\ Len(m) = kept
  <2> HIDE DEF kept
  <2>1. \A b \in 1 .. kept : memory[f][b] \in Block
    BY <1>3, <1>5
  <2>2. m \in Seq(Block) /\ Len(m) = IF 1 <= kept THEN kept - 1 + 1 ELSE 0
    BY <2>1, <1>5, SubSeqProperties
  <2> HIDE DEF m
  <2> QED BY <2>2, <1>5
<1>7. o \in Seq(1 .. BLOCK_SIZE) /\ Len(o) = kept
  <2> HIDE DEF kept
  <2>1. \A b \in 1 .. kept : o[b] \in 1 .. BLOCK_SIZE
    <3>1. LastOccupied(new) \in 1 .. BLOCK_SIZE
      BY Counting
    <3> QED BY <3>1, <1>3, <1>5
  <2>2. o = [b \in 1 .. kept |-> o[b]]
    OBVIOUS
  <2> HIDE DEF o
  <2> QED BY <2>1, <2>2, <1>5, Chains
<1>8. \A b \in 1 .. kept : o[b] = IF b = kept THEN LastOccupied(new) ELSE occupied[f][b]
  <2> HIDE DEF kept
  <2> QED OBVIOUS
<1>9. kept = Len(occupied[f]) - (BlockCount(size[f]) - BlockCount(new))
  OBVIOUS
<1> HIDE DEF kept, m, o
<1> QED BY <1>1, <1>2, <1>5, <1>6, <1>7, <1>8, <1>9

(* Lines 474-499, ufs_resize when the file gets longer.                      *)
LEMMA GrowEffect ==
  ASSUME Table, Contents, NEW fd \in Descriptors, NEW new \in Nat, Grow(fd, new)
  PROVE  \E f \in Files, count \in Nat, m \in Seq(Block), o \in Seq(1 .. BLOCK_SIZE) :
           /\ new > size[f] /\ new <= MAX_FILE_SIZE /\ count >= Len(occupied[f]) /\ count > 0
           /\ count = Len(occupied[f]) + BlockCount(new) - BlockCount(size[f])
           /\ Len(m) = count /\ Len(o) = count
           /\ \A b \in 1 .. count : o[b] = IF b = count THEN LastOccupied(new)
                                           ELSE IF b >= Len(occupied[f]) THEN BLOCK_SIZE
                                           ELSE occupied[f][b]
           /\ memory' = [memory EXCEPT ![f] = m] /\ occupied' = [occupied EXCEPT ![f] = o]
           /\ size' = [size EXCEPT ![f] = new]
           /\ UNCHANGED <<name, dfile, open_flags, offset>>
<1> DEFINE f == dfile[fd - 1]
           old == Len(occupied[f])
           count == old + BlockCount(new) - BlockCount(size[f])
           m == [b \in 1 .. count |-> IF b <= old THEN memory[f][b] ELSE [j \in 1 .. BLOCK_SIZE |-> Zero]]
           o == [b \in 1 .. count |-> IF b = count THEN LastOccupied(new)
                                      ELSE IF b >= old THEN BLOCK_SIZE ELSE occupied[f][b]]
<1>1. f \in Files
  BY OpenDescriptor DEF Grow, MayResize
<1>2. /\ new > size[f] /\ new <= MAX_FILE_SIZE /\ count > 0
      /\ memory' = [memory EXCEPT ![f] = m] /\ occupied' = [occupied EXCEPT ![f] = o]
      /\ size' = [size EXCEPT ![f] = new]
      /\ UNCHANGED <<name, dfile, open_flags, offset>>
  BY DEF Grow, descVars
<1> HIDE DEF f
<1>3. /\ old \in Nat /\ Len(memory[f]) = old /\ size[f] \in Nat
      /\ \A b \in 1 .. old : occupied[f][b] \in 1 .. BLOCK_SIZE
      /\ \A b \in 1 .. Len(memory[f]) : memory[f][b] \in Block
  BY <1>1, LenProperties, ElementOfSeq DEF Contents
<1>4. BlockCount(size[f]) <= BlockCount(new) /\ BlockCount(new) \in Nat /\ BlockCount(size[f]) \in Nat
  BY <1>2, <1>3, Monotone
<1>5. count \in Nat /\ count >= old
  BY <1>3, <1>4
<1>6. m \in Seq(Block) /\ Len(m) = count
  <2> HIDE DEF count
  <2>1. [j \in 1 .. BLOCK_SIZE |-> Zero] \in Block
    BY DEF Block, AnyByte
  <2>2. \A b \in 1 .. count : m[b] \in Block
    BY <2>1, <1>3, <1>5
  <2>3. m = [b \in 1 .. count |-> m[b]]
    OBVIOUS
  <2> HIDE DEF m
  <2> QED BY <2>2, <2>3, <1>5, Chains
<1>7. o \in Seq(1 .. BLOCK_SIZE) /\ Len(o) = count
  <2> HIDE DEF count
  <2>1. LastOccupied(new) \in 1 .. BLOCK_SIZE /\ BLOCK_SIZE \in 1 .. BLOCK_SIZE
    BY Counting, ConstantsAssumption
  <2>2. \A b \in 1 .. count : o[b] \in 1 .. BLOCK_SIZE
    BY <2>1, <1>3, <1>5
  <2>3. o = [b \in 1 .. count |-> o[b]]
    OBVIOUS
  <2> HIDE DEF o
  <2> QED BY <2>2, <2>3, <1>5, Chains
<1>8. \A b \in 1 .. count : o[b] = IF b = count THEN LastOccupied(new)
                                   ELSE IF b >= old THEN BLOCK_SIZE ELSE occupied[f][b]
  <2> HIDE DEF count
  <2> QED OBVIOUS
<1>9. count = old + BlockCount(new) - BlockCount(size[f])
  OBVIOUS
<1> HIDE DEF count, m, o
<1> QED BY <1>1, <1>2, <1>5, <1>6, <1>7, <1>8, <1>9

(* Lines 315-349, ufs_read.                                                  *)
LEMMA ReadEffect ==
  ASSUME Table, Contents, NEW fd \in Descriptors, NEW n \in 0 .. MaxRequest, Read(fd, n)
  PROVE  \E i \in Slots, f \in Files, g \in Seq(AnyByte) :
           /\ dfile[i] = f /\ got' = g /\ Len(g) \in Nat /\ ret' = Len(g) /\ asked' = <<"read", n>>
           /\ offset' = [offset EXCEPT ![i] = offset[i] + Len(g)]
           /\ \/ AtEnd(i) /\ g = <<>>
              \/ /\ offset[i] < size[f] /\ Current(i) <= Len(occupied[f])
                 /\ g = ReadFrom(f, Current(i), offset[i], n)
           /\ UNCHANGED <<fileVars, capacity, used, dfile, open_flags, ufs_error_code>>
<1> DEFINE i == fd - 1
           f == dfile[i]
           g == IF AtEnd(i) THEN <<>> ELSE ReadFrom(f, Current(i), offset[i], n)
<1>1. i \in Slots /\ f \in Files
  BY OpenDescriptor DEF Read
<1>2. /\ got' = g /\ ret' = Len(got') /\ asked' = <<"read", n>>
      /\ offset' = [offset EXCEPT ![i] = @ + Len(got')]
      /\ UNCHANGED <<fileVars, capacity, used, dfile, open_flags, ufs_error_code>>
  BY DEF Read
<1> HIDE DEF i
<1>3. CASE AtEnd(i)
  <2>1. g = <<>> /\ Len(<<>>) = 0 /\ <<>> \in Seq(AnyByte)
    BY <1>3
  <2> HIDE DEF g
  <2> QED BY <1>1, <1>2, <1>3, <2>1
<1>4. CASE ~ AtEnd(i)
  <2>1. offset[i] \in Nat /\ size[f] \in Nat /\ Len(occupied[f]) \in Nat
    BY <1>1, LenProperties DEF Contents
  <2>2. Current(i) \in Nat \ {0}
    <3>1. offset[i] \div BLOCK_SIZE \in Nat
      BY <2>1, Division
    <3> QED BY <3>1 DEF Current
  <2>3. offset[i] < size[f] /\ Current(i) <= Len(occupied[f])
    BY <1>4, <2>1, <2>2 DEF AtEnd
  <2>4. n \in Nat
    BY ConstantsAssumption
  <2>5. /\ [block |-> Current(i), pos |-> offset[i], bytes |-> <<>>] \in Reader(n)
        /\ \A s \in Reader(n) : Turn(f, n, s) \in Reader(n)
    <3>1. Len(<<>>) = 0 /\ <<>> \in Seq(AnyByte)
      BY EmptySeq
    <3>2. [block |-> Current(i), pos |-> offset[i], bytes |-> <<>>] \in Reader(n)
      BY <2>1, <2>2, <2>4, <3>1 DEF Reader
    <3>3. ASSUME NEW s \in Reader(n) PROVE Turn(f, n, s) \in Reader(n)
      BY <1>1, <2>4, TurnCopies
    <3> QED BY <3>2, <3>3
  <2>6. PICK s \in Reader(n) : ReadFrom(f, Current(i), offset[i], n) = s.bytes
    BY <1>1, <2>1, <2>2, <2>4, <2>5, ReadLoop
  <2>7. g = s.bytes /\ s.bytes \in Seq(AnyByte) /\ g = ReadFrom(f, Current(i), offset[i], n)
    BY <1>4, <2>6 DEF Reader
  <2>8. Len(g) \in Nat
    BY <2>7, LenProperties
  <2> HIDE DEF g
  <2> QED BY <1>1, <1>2, <2>3, <2>7, <2>8
<1> QED BY <1>3, <1>4

(* The memory of a file is given back, or taken for a new one.               *)
Emptied(f) ==
    /\ size' = [size EXCEPT ![f] = 0]
    /\ memory' = [memory EXCEPT ![f] = <<>>] /\ occupied' = [occupied EXCEPT ![f] = <<>>]

(* Nobody stands in an emptied file: a descriptor is new, or it stays where  *)
(* it was, in another file.                                                  *)
Settled(f) ==
    /\ UNCHANGED <<size, memory, occupied>> \/ Emptied(f)
    /\ offset' \in [Slots -> Nat]
    /\ \A j \in Slots : dfile'[j] # None =>
         \/ offset'[j] = 0 /\ dfile'[j] \in Files
         \/ /\ dfile'[j] = dfile[j] /\ offset'[j] = offset[j]
            /\ UNCHANGED <<size, memory, occupied>> \/ dfile[j] # f

(* ufs_open, ufs_close and ufs_delete.                                       *)
LEMMA OpenEffect ==
  ASSUME Table, Contents, NEW n \in Names, NEW flags \in OpenFlags,
         NEW f \in Files, NEW i \in Slots, Open(n, flags, f, i)
  PROVE  Settled(f)
<1>1. dfile[i] = None
  BY FreeSlotIsFree DEF Open
<1>2. dfile' = [dfile EXCEPT ![i] = f] /\ offset' = [offset EXCEPT ![i] = 0]
  BY DEF Open
<1>3. \/ UNCHANGED <<size, memory, occupied>>
      \/ Emptied(f) /\ f \notin file_list
  BY DEF Open, Create, Emptied
<1>4. f \notin file_list => \A j \in Slots : dfile[j] # f
  BY DEF Table, FilesLive, OpenOn
<1>5. offset \in [Slots -> Nat] /\ dfile \in [Slots -> Files \cup {None}]
  BY DEF Contents, Table, TableType
<1>6. offset' \in [Slots -> Nat]
  BY <1>2, <1>5
<1>7. ASSUME NEW j \in Slots, dfile'[j] # None
      PROVE  \/ offset'[j] = 0 /\ dfile'[j] \in Files
             \/ /\ dfile'[j] = dfile[j] /\ offset'[j] = offset[j]
                /\ UNCHANGED <<size, memory, occupied>> \/ dfile[j] # f
  <2>1. CASE j = i
    BY <2>1, <1>2, <1>5
  <2>2. CASE j # i
    BY <2>2, <1>2, <1>3, <1>4, <1>5
  <2> QED BY <2>1, <2>2
<1> QED BY <1>3, <1>6, <1>7 DEF Settled

(* Lines 368-377, ufs_close: the descriptor is free again, and the file that *)
(* nobody has a name or a descriptor for gives its memory back.              *)
LEMMA CloseEffect ==
  ASSUME Table, Contents, NEW fd \in Descriptors, Close(fd)
  PROVE  \E f \in Files : Settled(f)
<1> DEFINE i == fd - 1
           f == dfile[i]
<1>1. i \in Slots /\ f \in Files
  BY OpenDescriptor DEF Close
<1>2. /\ dfile' = [dfile EXCEPT ![i] = None] /\ offset' = [offset EXCEPT ![i] = 0]
      /\ \/ UNCHANGED <<size, memory, occupied>>
         \/ Emptied(f) /\ refs[f] - 1 <= 0
  BY DEF Close, Free, Emptied, LastReference
<1> HIDE DEF i
<1>3. refs[f] - 1 <= 0 => \A j \in Slots : j # i => dfile[j] # f
  <2>1. OpenOn(f) \subseteq Slots /\ i \in OpenOn(f)
    BY <1>1 DEF OpenOn
  <2>2. /\ IsFiniteSet(OpenOn(f) \ {i})
        /\ Cardinality(OpenOn(f) \ {i}) = Cardinality(OpenOn(f)) - 1
        /\ Cardinality(OpenOn(f) \ {i}) \in Nat
    BY <2>1, SlotsFinite, FS_RemoveElement
  <2>3. refs[f] = Cardinality(OpenOn(f)) /\ refs[f] \in Nat
    BY <1>1 DEF Table, TableType, FilesLive
  <2>4. refs[f] - 1 <= 0 => Cardinality(OpenOn(f) \ {i}) = 0
    BY <2>2, <2>3
  <2>5. refs[f] - 1 <= 0 => OpenOn(f) \ {i} = {}
    BY <2>2, <2>4, FS_EmptySet
  <2> QED BY <2>5 DEF OpenOn
<1>4. offset \in [Slots -> Nat] /\ dfile \in [Slots -> Files \cup {None}]
  BY DEF Contents, Table, TableType
<1> HIDE DEF f
<1>5. offset' \in [Slots -> Nat]
  BY <1>2, <1>4
<1>6. ASSUME NEW j \in Slots, dfile'[j] # None
      PROVE  \/ offset'[j] = 0 /\ dfile'[j] \in Files
             \/ /\ dfile'[j] = dfile[j] /\ offset'[j] = offset[j]
                /\ UNCHANGED <<size, memory, occupied>> \/ dfile[j] # f
  BY <1>1, <1>2, <1>3, <1>4, <1>6
<1>7. Settled(f)
  BY <1>2, <1>5, <1>6 DEF Settled
<1> QED BY <1>1, <1>7

(* Lines 398-403, ufs_delete: a file that is still open keeps its memory.    *)
LEMMA DeleteEffect ==
  ASSUME Table, Contents, NEW n \in Names, Delete(n)
  PROVE  \E f \in Files : Settled(f)
<1>1. PICK f \in Lookup(n) :
        /\ UNCHANGED <<refs, descVars>>
        /\ \/ refs[f] <= 0 /\ Emptied(f)
           \/ UNCHANGED <<size, memory, occupied>>
  BY DEF Delete, Free, Emptied
<1>2. f \in Files
  BY DEF Lookup, Table, TableType
<1>3. refs[f] <= 0 => \A j \in Slots : dfile[j] # f
  <2>1. IsFiniteSet(OpenOn(f)) /\ refs[f] \in Nat /\ refs[f] = Cardinality(OpenOn(f))
    BY <1>2, SlotsFinite DEF OpenOn, Table, TableType, FilesLive
  <2>2. refs[f] <= 0 => OpenOn(f) = {}
    BY <2>1, FS_EmptySet
  <2> QED BY <2>2 DEF OpenOn
<1>4. offset \in [Slots -> Nat] /\ dfile \in [Slots -> Files \cup {None}]
  BY DEF Contents, Table, TableType
<1>5. Settled(f)
  BY <1>1, <1>3, <1>4 DEF Settled, descVars
<1> QED BY <1>2, <1>5

-----------------------------------------------------------------------------
(* Every call leaves chains *)

(* What a call answers.                                                      *)
LEMMA Answers ==
  /\ \A r \in Int, call \in Requests : Replies(call, r) /\ Contents =>
       /\ ufs_error_code' \in ErrorCode /\ ret' \in Int
       /\ asked' \in Requests /\ got' \in Seq(AnyByte)
  /\ \A r \in Int : Returns(r) /\ Contents =>
       /\ ufs_error_code' \in ErrorCode /\ ret' \in Int
       /\ asked' \in Requests /\ got' \in Seq(AnyByte)
  /\ \A code \in ErrorCode : Fails(code) =>
       /\ ufs_error_code' \in ErrorCode /\ ret' \in Int
       /\ asked' \in Requests /\ got' \in Seq(AnyByte)
<1>1. <<>> \in Seq(AnyByte) /\ -1 \in Int /\ None \in Requests
  BY EmptySeq DEF Requests
<1>2. \A r \in Int, call \in Requests : Replies(call, r) /\ Contents =>
        /\ ufs_error_code' \in ErrorCode /\ ret' \in Int
        /\ asked' \in Requests /\ got' \in Seq(AnyByte)
  BY <1>1 DEF Replies, Contents
<1> QED BY <1>1, <1>2 DEF Returns, Fails

(* A call that fails, or has nothing to do.                                  *)
Idle == /\ UNCHANGED <<fileVars, descVars>>
        /\ \/ \E fd \in Descriptors : WriteNothing(fd) \/ ResizeSame(fd)
           \/ \E code \in ErrorCode : Fails(code)

LEMMA IdleContents ==
  ASSUME Table, Contents, Idle
  PROVE  Contents'
<1>1. UNCHANGED <<name, size, memory, occupied, open_flags, offset>>
  BY DEF Idle, fileVars, descVars
<1>2. /\ ufs_error_code' \in ErrorCode /\ ret' \in Int
      /\ asked' \in Requests /\ got' \in Seq(AnyByte)
  <2>1. CASE \E code \in ErrorCode : Fails(code)
    BY <2>1, Answers
  <2>2. ASSUME NEW fd \in Descriptors, WriteNothing(fd) \/ ResizeSame(fd)
        PROVE  \E call \in Requests : Replies(call, 0)
    <3>1. CASE WriteNothing(fd)
      BY <3>1 DEF WriteNothing, Requests
    <3>2. CASE ResizeSame(fd)
      <4>1. size[dfile[fd - 1]] \in Nat
        BY <3>2, OpenDescriptor DEF ResizeSame, MayResize, Contents
      <4> QED BY <3>2, <4>1 DEF ResizeSame, Requests
    <3> QED BY <2>2, <3>1, <3>2
  <2> QED BY <2>1, <2>2, Answers DEF Idle
<1> QED BY <1>1, <1>2 DEF Contents

(* A chain that is replaced by another.                                      *)
LEMMA ReplacedChain ==
  ASSUME Contents, NEW f \in Files, NEW m \in Seq(Block), NEW o \in Seq(1 .. BLOCK_SIZE), Len(m) = Len(o),
         memory' = [memory EXCEPT ![f] = m], occupied' = [occupied EXCEPT ![f] = o]
  PROVE  /\ memory' \in [Files -> Seq(Block)] /\ occupied' \in [Files -> Seq(1 .. BLOCK_SIZE)]
         /\ \A g \in Files : Len(memory'[g]) = Len(occupied'[g])
         /\ occupied'[f] = o /\ \A g \in Files : g # f => occupied'[g] = occupied[g]
<1>1. /\ memory \in [Files -> Seq(Block)] /\ occupied \in [Files -> Seq(1 .. BLOCK_SIZE)]
      /\ \A g \in Files : Len(memory[g]) = Len(occupied[g])
  BY DEF Contents
<1>2. /\ memory' \in [Files -> Seq(Block)] /\ occupied' \in [Files -> Seq(1 .. BLOCK_SIZE)]
      /\ memory'[f] = m /\ occupied'[f] = o
      /\ \A g \in Files : g # f => memory'[g] = memory[g] /\ occupied'[g] = occupied[g]
  BY <1>1
<1>3. ASSUME NEW g \in Files PROVE Len(memory'[g]) = Len(occupied'[g])
  <2>1. CASE g = f
    BY <2>1, <1>2
  <2>2. CASE g # f
    BY <2>2, <1>1, <1>2
  <2> QED BY <2>1, <2>2
<1> QED BY <1>2, <1>3

(* The contents after open, close and delete.                                *)
LEMMA SettledContents ==
  ASSUME Contents, NEW f \in Files, Settled(f), \E r \in Int : Returns(r),
         name' \in [Files -> Names \cup {None}], open_flags' \in [Slots -> SUBSET Flags]
  PROVE  Contents'
<1>1. /\ ufs_error_code' \in ErrorCode /\ ret' \in Int
      /\ asked' \in Requests /\ got' \in Seq(AnyByte)
  BY Answers
<1>2. /\ size' \in [Files -> Nat]
      /\ memory' \in [Files -> Seq(Block)] /\ occupied' \in [Files -> Seq(1 .. BLOCK_SIZE)]
      /\ \A g \in Files : Len(memory'[g]) = Len(occupied'[g])
  <2>1. CASE UNCHANGED <<size, memory, occupied>>
    BY <2>1 DEF Contents
  <2>2. CASE Emptied(f)
    <3>1. <<>> \in Seq(Block) /\ <<>> \in Seq(1 .. BLOCK_SIZE)
      BY EmptySeq
    <3>2. size' \in [Files -> Nat]
      BY <2>2 DEF Emptied, Contents
    <3> QED BY <2>2, <3>1, <3>2, ReplacedChain DEF Emptied
  <2> QED BY <2>1, <2>2 DEF Settled
<1>3. offset' \in [Slots -> Nat]
  BY DEF Settled
<1> QED BY <1>1, <1>2, <1>3 DEF Contents

(* A call with a name leaves chains: opening and deleting change no bytes.   *)
LEMMA NameContents ==
  ASSUME Table, Contents, NEW n \in Names, NameCall(n)
  PROVE  Contents'
<1>1. CASE \E flags \in OpenFlags, f \in Files, i \in Slots : Open(n, flags, f, i)
  <2>1. PICK flags \in OpenFlags, f \in Files, i \in Slots : Open(n, flags, f, i)
    BY <1>1
  <2>2. Settled(f)
    BY <2>1, OpenEffect
  <2>3. Returns(i + 1) /\ i + 1 \in Int
    BY <2>1 DEF Open, Slots
  <2>4. name' \in [Files -> Names \cup {None}]
    BY <2>1 DEF Open, Create, Contents
  <2>5. open_flags' \in [Slots -> SUBSET Flags]
    <3>1. flags \in SUBSET Flags
      BY ConstantsAssumption DEF Flags
    <3>2. Normal(flags) \in SUBSET Flags
      BY <3>1 DEF Normal, Flags
    <3> QED BY <2>1, <3>2 DEF Open, Contents
  <2> QED BY <2>2, <2>3, <2>4, <2>5, SettledContents
<1>2. CASE NoSuchFile(n)
  <2>1. Idle
    BY <1>2 DEF Idle, NoSuchFile, ErrorCode
  <2> QED BY <2>1, IdleContents
<1>3. CASE Delete(n)
  <2>1. PICK f \in Files : Settled(f)
    BY <1>3, DeleteEffect
  <2>2. Returns(0) /\ 0 \in Int
    BY <1>3 DEF Delete
  <2>3. name' \in [Files -> Names \cup {None}] /\ open_flags' \in [Slots -> SUBSET Flags]
    BY <1>3 DEF Delete, Free, Contents, descVars
  <2> QED BY <2>1, <2>2, <2>3, SettledContents
<1> QED BY <1>1, <1>2, <1>3 DEF NameCall

(* ufs_close changes no bytes of a file that is still there.                 *)
LEMMA CloseContents ==
  ASSUME Table, Contents, NEW fd \in Descriptors, Close(fd)
  PROVE  Contents'
<1>1. PICK f \in Files : Settled(f)
  BY CloseEffect
<1>2. Returns(0) /\ 0 \in Int
  BY DEF Close
<1>3. name' \in [Files -> Names \cup {None}]
  BY DEF Close, Free, Contents
<1>4. open_flags' \in [Slots -> SUBSET Flags]
  BY DEF Close, Contents, Flags
<1> QED BY <1>1, <1>2, <1>3, <1>4, SettledContents

(* After ufs_destroy every chain is empty.                                   *)
LEMMA DestroyContents ==
  ASSUME Contents, Destroy
  PROVE  Contents'
<1>1. <<>> \in Seq(Block) /\ <<>> \in Seq(1 .. BLOCK_SIZE)
  BY EmptySeq
<1>2. /\ ufs_error_code' \in ErrorCode /\ ret' \in Int
      /\ asked' \in Requests /\ got' \in Seq(AnyByte)
  BY Answers DEF Destroy
<1>3. /\ memory' \in [Files -> Seq(Block)] /\ occupied' \in [Files -> Seq(1 .. BLOCK_SIZE)]
      /\ \A g \in Files : Len(memory'[g]) = Len(occupied'[g])
  BY <1>1 DEF Destroy
<1> QED BY <1>2, <1>3 DEF Destroy, Contents, Flags

(* ufs_write leaves chains.                                                  *)
LEMMA WriteContents ==
  ASSUME Table, Contents, NEW fd \in Descriptors, NEW data \in Buffers, Write(fd, data)
  PROVE  Contents'
<1>1. PICK i \in Slots, f \in Files, n \in Nat \ {0}, m \in Seq(Block), o \in Seq(1 .. BLOCK_SIZE) :
        Writes(i, f, n, m, o)
  BY WriteEffect
<1>2. offset' \in [Slots -> Nat] /\ size' \in [Files -> Nat]
  BY <1>1 DEF Writes, Contents, Greater
<1>3. /\ memory' \in [Files -> Seq(Block)] /\ occupied' \in [Files -> Seq(1 .. BLOCK_SIZE)]
      /\ \A g \in Files : Len(memory'[g]) = Len(occupied'[g])
  BY <1>1, ReplacedChain DEF Writes
<1>4. /\ ufs_error_code' \in ErrorCode /\ ret' \in Int
      /\ asked' \in Requests /\ got' \in Seq(AnyByte)
  <2>1. Replies(<<"write", n>>, n) /\ <<"write", n>> \in Requests /\ n \in Int
    BY <1>1 DEF Writes, Requests
  <2> QED BY <2>1, Answers
<1> QED BY <1>1, <1>2, <1>3, <1>4 DEF Writes, Contents

(* ufs_read leaves chains: it moves one offset.                              *)
LEMMA ReadContents ==
  ASSUME Table, Contents, NEW fd \in Descriptors, NEW n \in 0 .. MaxRequest, Read(fd, n)
  PROVE  Contents'
<1>1. PICK i \in Slots, f \in Files, g \in Seq(AnyByte) :
        /\ got' = g /\ Len(g) \in Nat /\ ret' = Len(g) /\ asked' = <<"read", n>>
        /\ offset' = [offset EXCEPT ![i] = offset[i] + Len(g)]
        /\ UNCHANGED <<fileVars, open_flags, ufs_error_code>>
  BY ReadEffect
<1>2. offset' \in [Slots -> Nat]
  BY <1>1 DEF Contents
<1>3. asked' \in Requests
  BY <1>1 DEF Requests
<1> QED BY <1>1, <1>2, <1>3 DEF Contents, fileVars

(* ufs_resize leaves chains, and an offset is never negative.                *)
LEMMA ResizeContents ==
  ASSUME Table, Contents, NEW fd \in Descriptors, NEW new \in Nat, Shrink(fd, new) \/ Grow(fd, new)
  PROVE  Contents'
<1>1. /\ ufs_error_code' \in ErrorCode /\ ret' \in Int
      /\ asked' \in Requests /\ got' \in Seq(AnyByte)
  <2>1. Replies(<<"resize", new>>, 0) /\ <<"resize", new>> \in Requests /\ 0 \in Int
    BY DEF Shrink, Grow, Requests
  <2> QED BY <2>1, Answers
<1>2. CASE Shrink(fd, new)
  <2>1. PICK f \in Files, m \in Seq(Block), o \in Seq(1 .. BLOCK_SIZE), s \in Nat :
          /\ Len(m) = Len(o)
          /\ memory' = [memory EXCEPT ![f] = m] /\ occupied' = [occupied EXCEPT ![f] = o]
          /\ size' = [size EXCEPT ![f] = s]
          /\ offset' = Clamped(f, new)
          /\ UNCHANGED <<name, open_flags>>
    <3>1. PICK f \in Files, kept \in Nat, m \in Seq(Block), o \in Seq(1 .. BLOCK_SIZE) :
            /\ Len(m) = kept /\ Len(o) = kept
            /\ memory' = [memory EXCEPT ![f] = m] /\ occupied' = [occupied EXCEPT ![f] = o]
            /\ size' = [size EXCEPT ![f] = IF kept = 0 THEN 0 ELSE new]
            /\ offset' = Clamped(f, new)
            /\ UNCHANGED <<name, open_flags>>
      BY <1>2, ShrinkEffect
    <3>2. (IF kept = 0 THEN 0 ELSE new) \in Nat
      OBVIOUS
    <3> QED BY <3>1, <3>2
  <2>2. offset' \in [Slots -> Nat]
    BY <2>1 DEF Clamped, Lesser, Contents
  <2>3. size' \in [Files -> Nat]
    BY <2>1 DEF Contents
  <2>4. /\ memory' \in [Files -> Seq(Block)] /\ occupied' \in [Files -> Seq(1 .. BLOCK_SIZE)]
        /\ \A g \in Files : Len(memory'[g]) = Len(occupied'[g])
    BY <2>1, ReplacedChain
  <2> QED BY <1>1, <2>1, <2>2, <2>3, <2>4 DEF Contents
<1>3. CASE Grow(fd, new)
  <2>1. PICK f \in Files, m \in Seq(Block), o \in Seq(1 .. BLOCK_SIZE) :
          /\ Len(m) = Len(o)
          /\ memory' = [memory EXCEPT ![f] = m] /\ occupied' = [occupied EXCEPT ![f] = o]
          /\ size' = [size EXCEPT ![f] = new]
          /\ UNCHANGED <<name, open_flags, offset>>
    BY <1>3, GrowEffect
  <2>2. size' \in [Files -> Nat]
    BY <2>1 DEF Contents
  <2>3. /\ memory' \in [Files -> Seq(Block)] /\ occupied' \in [Files -> Seq(1 .. BLOCK_SIZE)]
        /\ \A g \in Files : Len(memory'[g]) = Len(occupied'[g])
    BY <2>1, ReplacedChain
  <2> QED BY <1>1, <2>1, <2>2, <2>3 DEF Contents
<1> QED BY <1>2, <1>3

(* The chains are empty at first.                                            *)
LEMMA InitContents == Init => Contents
<1>1. <<>> \in Seq(Block) /\ <<>> \in Seq(1 .. BLOCK_SIZE) /\ <<>> \in Seq(AnyByte)
  BY EmptySeq
<1> QED BY <1>1 DEF Init, Contents, Flags, ErrorCode, Requests

(* A call is one of these: it opens, closes, deletes or destroys; it writes, *)
(* reads or resizes; or it does nothing to the files.                        *)
LEMMA CallsSplit ==
  ASSUME [Next]_vars
  PROVE  \/ \E n \in Names : NameCall(n)
         \/ \E fd \in Descriptors : Close(fd)
         \/ Destroy
         \/ \E fd \in Descriptors, data \in Buffers : Write(fd, data)
         \/ \E fd \in Descriptors, n \in 0 .. MaxRequest : Read(fd, n)
         \/ \E fd \in Descriptors, new \in Nat : Shrink(fd, new) \/ Grow(fd, new)
         \/ Idle
         \/ UNCHANGED vars
<1>1. MAX_FILE_SIZE \in Nat /\ 0 .. MAX_FILE_SIZE + 1 \subseteq Nat
  BY ConstantsAssumption
<1>2. ASSUME NEW fd \in Descriptors, DescriptorCall(fd)
      PROVE  \/ Close(fd) \/ \E data \in Buffers : Write(fd, data)
             \/ \E n \in 0 .. MaxRequest : Read(fd, n)
             \/ \E new \in Nat : Shrink(fd, new) \/ Grow(fd, new)
             \/ Idle
  <2>1. CASE BadDescriptor(fd) \/ NoPermission(fd) \/ WriteNothing(fd) \/ ResizeSame(fd)
    BY <1>2, <2>1 DEF Idle, BadDescriptor, NoPermission, WriteNothing, ResizeSame, ErrorCode
  <2>2. CASE \E n \in 0 .. MaxRequest : WriteNoMem(fd, n)
    BY <2>2 DEF Idle, WriteNoMem, ErrorCode
  <2>3. CASE \E new \in 0 .. MAX_FILE_SIZE + 1 : Shrink(fd, new) \/ Grow(fd, new)
    BY <2>3, <1>1
  <2>4. CASE \E new \in 0 .. MAX_FILE_SIZE + 1 : GrowNoMem(fd, new)
    BY <2>4 DEF Idle, GrowNoMem, ErrorCode
  <2> QED BY <1>2, <2>1, <2>2, <2>3, <2>4 DEF DescriptorCall
<1> QED BY <1>2 DEF Next

(* Every call leaves chains of blocks, with an occupied count for each.      *)
LEMMA ContentsStep ==
  ASSUME Table, Contents, [Next]_vars
  PROVE  Contents'
<1>1. CASE \E n \in Names : NameCall(n)
  BY <1>1, NameContents
<1>2. CASE \E fd \in Descriptors : Close(fd)
  BY <1>2, CloseContents
<1>3. CASE Destroy
  BY <1>3, DestroyContents
<1>4. CASE \E fd \in Descriptors, data \in Buffers : Write(fd, data)
  BY <1>4, WriteContents
<1>5. CASE \E fd \in Descriptors, n \in 0 .. MaxRequest : Read(fd, n)
  BY <1>5, ReadContents
<1>6. CASE \E fd \in Descriptors, new \in Nat : Shrink(fd, new) \/ Grow(fd, new)
  BY <1>6, ResizeContents
<1>7. CASE Idle
  BY <1>7, IdleContents
<1>8. CASE UNCHANGED vars
  BY <1>8 DEF vars, fileVars, descVars, Contents
<1> QED BY <1>1, <1>2, <1>3, <1>4, <1>5, <1>6, <1>7, <1>8, CallsSplit

-----------------------------------------------------------------------------
(* No walk leaves a chain *)

(* Everything up to the end of q blocks is reached with q blocks.            *)
LEMMA Reaches ==
  ASSUME NEW p \in Nat, NEW q \in Nat, p <= BLOCK_SIZE * q
  PROVE  p \div BLOCK_SIZE <= q /\ BlockCount(p) <= q
<1>1. BlockCount(p) <= q /\ BlockCount(p) \in Nat
  BY Counting
<1>2. p \div BLOCK_SIZE \in Nat /\ p \div BLOCK_SIZE <= BlockCount(p)
  <2>1. p <= p
    OBVIOUS
  <2> QED BY <2>1, Monotone
<1> QED BY <1>1, <1>2

(* A file without bytes needs no block.                                      *)
LEMMA Zeros == 0 \div BLOCK_SIZE = 0 /\ BlockCount(0) = 0
<1>1. BlockCount(0) = 0
  BY Counting
<1>2. 0 <= BLOCK_SIZE * 0
  BY ConstantsAssumption
<1>3. 0 \div BLOCK_SIZE <= 0 /\ 0 \div BLOCK_SIZE \in Nat
  BY <1>2, Reaches, Division
<1> QED BY <1>1, <1>3

(* A write ends inside of the chain that it makes.                           *)
LEMMA WriteReaches ==
  ASSUME Contents, NEW i \in Slots, NEW f \in Files, dfile[i] = f, NEW n \in Nat \ {0},
         offset[i] \div BLOCK_SIZE <= Len(occupied[f])
  PROVE  offset[i] + n <= BLOCK_SIZE * BlocksAfter(i, n)
<1> DEFINE w == offset[i] % BLOCK_SIZE
           last == Len(occupied[f])
           head == First(i, n)
           start == StartBlock(i)
           kept == Kept(i)
           count == BlocksAfter(i, n)
           c == Current(i)
           off == offset[i]
<1>1. BLOCK_SIZE \in Nat /\ BLOCK_SIZE > 0 /\ off \in Nat
  BY ConstantsAssumption DEF Contents
<1>2. /\ last \in Nat /\ w \in 0 .. BLOCK_SIZE - 1
      /\ c \in Nat \ {0} /\ off = BLOCK_SIZE * (c - 1) + w
      /\ head \in 1 .. BLOCK_SIZE - w /\ head <= n
      /\ head < n => head = BLOCK_SIZE - w
      /\ start = IF InPlace(i) THEN c ELSE last + 1
      /\ kept = IF start <= last THEN last ELSE start
  BY WriteBegins
<1>3. count = IF head = n THEN kept ELSE kept + BlockCount(n - head)
  BY WritePlaces
<1>4. off \div BLOCK_SIZE + 1 = c /\ off \div BLOCK_SIZE <= last
  BY DEF Current
<1>5. off \div BLOCK_SIZE \in Nat
  BY <1>1, Division
<1> HIDE DEF w, last, head, start, kept, count, c
<1>6. c <= start /\ start \in Nat /\ start <= kept /\ kept \in Nat
  BY <1>2, <1>4, <1>5
<1>7. /\ BLOCK_SIZE * c \in Nat /\ BLOCK_SIZE * kept \in Nat /\ BLOCK_SIZE * c <= BLOCK_SIZE * kept
      /\ BLOCK_SIZE * (c - 1) \in Nat /\ BLOCK_SIZE * c = BLOCK_SIZE * (c - 1) + BLOCK_SIZE
  <2>1. c \in Nat /\ c <= kept /\ c - 1 \in Nat /\ (c - 1) + 1 = c
    BY <1>2, <1>6
  <2> QED BY <2>1, <1>6, Blocks
<1> HIDE DEF off
<1>8. ASSUME head = n PROVE off + n <= BLOCK_SIZE * count
  <2>1. count = kept /\ n <= BLOCK_SIZE - w
    BY <1>2, <1>3, <1>8
  <2>2. off + n <= BLOCK_SIZE * c
    BY <1>1, <1>2, <1>7, <2>1
  <2>3. off + n <= BLOCK_SIZE * kept
    BY <1>1, <1>7, <2>2
  <2> QED BY <2>1, <2>3
<1>9. ASSUME head # n PROVE off + n <= BLOCK_SIZE * count
  <2>1. n - head \in Nat /\ off + n = BLOCK_SIZE * c + (n - head)
    BY <1>1, <1>2, <1>7, <1>9
  <2>2. BlockCount(n - head) \in Nat
    BY <2>1, Counting
  <2>3. n - head <= BLOCK_SIZE * BlockCount(n - head) /\ BLOCK_SIZE * BlockCount(n - head) \in Nat
    <3>1. BLOCK_SIZE * BlockCount(n - head) \in Nat
      BY <2>2, Blocks
    <3>2. n - head <= BLOCK_SIZE * BlockCount(n - head)
      BY <2>1, <2>2, Counting
    <3> QED BY <3>1, <3>2
  <2>4. BLOCK_SIZE * (kept + BlockCount(n - head)) = BLOCK_SIZE * kept + BLOCK_SIZE * BlockCount(n - head)
    BY <1>6, <2>2, Blocks
  <2>5. off + n <= BLOCK_SIZE * kept + BLOCK_SIZE * BlockCount(n - head)
    BY <1>7, <2>1, <2>3
  <2>6. count = kept + BlockCount(n - head)
    BY <1>3, <1>9
  <2> QED BY <2>4, <2>5, <2>6
<1> QED BY <1>8, <1>9 DEF off, count

(* A descriptor that is new, or of a file left alone, is inside its chain.   *)
LEMMA SettledWalks ==
  ASSUME Table, Contents, WalksInside, NEW f \in Files, Settled(f)
  PROVE  WalksInside'
<1>1. /\ size \in [Files -> Nat] /\ occupied \in [Files -> Seq(1 .. BLOCK_SIZE)]
      /\ \A g \in Files : Len(occupied[g]) \in Nat
  BY LenProperties DEF Contents
<1>2. Len(<<>>) = 0
  OBVIOUS
<1>3. \A g \in Files : /\ Len(occupied'[g]) \in Nat /\ BlockCount(size'[g]) <= Len(occupied'[g])
                       /\ (UNCHANGED <<size, memory, occupied>> \/ g # f) => occupied'[g] = occupied[g]
  <2>1. CASE UNCHANGED <<size, memory, occupied>>
    BY <2>1, <1>1 DEF WalksInside
  <2>2. CASE Emptied(f)
    BY <2>2, <1>1, <1>2, Zeros DEF Emptied, WalksInside
  <2> QED BY <2>1, <2>2 DEF Settled
<1>4. ASSUME NEW j \in Slots, dfile'[j] # None
      PROVE  offset'[j] \div BLOCK_SIZE <= Len(occupied'[dfile'[j]])
  <2>1. CASE offset'[j] = 0 /\ dfile'[j] \in Files
    BY <2>1, <1>3, Zeros
  <2>2. CASE /\ dfile'[j] = dfile[j] /\ offset'[j] = offset[j]
             /\ UNCHANGED <<size, memory, occupied>> \/ dfile[j] # f
    <3>1. dfile[j] \in Files
      BY <2>2, <1>4 DEF Table, TableType
    <3>2. occupied'[dfile[j]] = occupied[dfile[j]]
      BY <2>2, <3>1, <1>3
    <3>3. offset[j] \div BLOCK_SIZE <= Len(occupied[dfile[j]])
      BY <2>2, <1>4 DEF WalksInside
    <3> QED BY <2>2, <3>2, <3>3
  <2> QED BY <2>1, <2>2, <1>4 DEF Settled
<1> QED BY <1>3, <1>4 DEF WalksInside, BlockCount

(* After ufs_write the writer stands in the chain, and a longer chain        *)
(* carries the other descriptors of the file as before.                      *)
LEMMA WriteWalks ==
  ASSUME Table, Contents, WalksInside, NEW fd \in Descriptors, NEW data \in Buffers, Write(fd, data)
  PROVE  WalksInside'
<1>1. PICK i \in Slots, f \in Files, n \in Nat \ {0}, m \in Seq(Block), o \in Seq(1 .. BLOCK_SIZE) :
        Writes(i, f, n, m, o)
  BY WriteEffect
<1>2. /\ size \in [Files -> Nat] /\ offset \in [Slots -> Nat]
      /\ \A g \in Files : Len(occupied[g]) \in Nat
  BY LenProperties DEF Contents
<1>3. /\ occupied'[f] = o /\ \A g \in Files : g # f => occupied'[g] = occupied[g]
  BY <1>1 DEF Writes, Contents
<1>4. dfile[i] = f /\ Len(o) = BlocksAfter(i, n) /\ Len(o) \in Nat /\ Len(occupied[f]) <= Len(o)
  BY <1>1, WritePlaces, LenProperties DEF Writes
<1>5. offset[i] + n <= BLOCK_SIZE * Len(o)
  <2>1. offset[i] \div BLOCK_SIZE <= Len(occupied[f])
    BY <1>4, ConstantsAssumption DEF WalksInside
  <2> QED BY <1>4, <2>1, WriteReaches
<1>6. (offset[i] + n) \div BLOCK_SIZE <= Len(o) /\ BlockCount(offset[i] + n) <= Len(o)
  BY <1>2, <1>4, <1>5, Reaches
<1>7. ASSUME NEW j \in Slots, dfile'[j] # None
      PROVE  offset'[j] \div BLOCK_SIZE <= Len(occupied'[dfile'[j]])
  <2>1. dfile'[j] = dfile[j] /\ dfile[j] \in Files
    BY <1>1, <1>7 DEF Writes, Table, TableType
  <2>2. CASE j = i
    BY <2>1, <2>2, <1>1, <1>2, <1>3, <1>4, <1>6 DEF Writes
  <2>3. CASE j # i
    <3>1. offset'[j] = offset[j]
      BY <2>3, <1>1, <1>2 DEF Writes
    <3>2. offset[j] \div BLOCK_SIZE <= Len(occupied[dfile[j]]) /\ offset[j] \div BLOCK_SIZE \in Nat
      BY <2>1, <1>2, <1>7, Division DEF WalksInside
    <3>3. Len(occupied[dfile[j]]) <= Len(occupied'[dfile[j]]) /\ Len(occupied'[dfile[j]]) \in Nat
      <4>1. CASE dfile[j] = f
        BY <4>1, <2>1, <1>3, <1>4
      <4>2. CASE dfile[j] # f
        BY <4>2, <2>1, <1>2, <1>3
      <4> QED BY <4>1, <4>2
    <3> QED BY <2>1, <3>1, <3>2, <3>3, <1>2
  <2> QED BY <2>2, <2>3
<1>8. ASSUME NEW g \in Files PROVE BlockCount(size'[g]) <= Len(occupied'[g])
  <2>1. BlockCount(size[g]) <= Len(occupied[g]) /\ BlockCount(size[g]) \in Nat
    BY <1>2, Counting DEF WalksInside
  <2>2. CASE g = f
    <3>1. size'[g] = Greater(size[f], offset[i] + n)
      BY <2>2, <1>1, <1>2 DEF Writes
    <3>2. size'[g] = size[f] \/ size'[g] = offset[i] + n
      BY <3>1 DEF Greater
    <3>3. BlockCount(size[f]) <= Len(o)
      BY <2>1, <2>2, <1>2, <1>4
    <3> QED BY <2>2, <3>2, <3>3, <1>3, <1>6
  <2>3. CASE g # f
    BY <2>1, <2>3, <1>1, <1>2, <1>3 DEF Writes
  <2> QED BY <2>2, <2>3
<1> QED BY <1>7, <1>8 DEF WalksInside, BlockCount

(* Lines 329-347: a reader that starts in the chain stops in the chain.      *)
LEMMA ReadReaches ==
  ASSUME Contents, NEW f \in Files, NEW n \in Nat, NEW first \in Nat \ {0}, NEW start \in Nat,
         start \div BLOCK_SIZE + 1 = first, first <= Len(occupied[f]),
         NEW g, g = ReadFrom(f, first, start, n)
  PROVE  Len(g) \in Nat /\ (start + Len(g)) \div BLOCK_SIZE <= Len(occupied[f])
<1> DEFINE I == {s \in Reader(n) : /\ s.pos = start + Len(s.bytes)
                                   /\ s.pos \div BLOCK_SIZE <= s.block - 1
                                   /\ s.block <= Len(occupied[f]) + 1}
<1>1. /\ Len(occupied[f]) \in Nat
      /\ \A b \in 1 .. Len(occupied[f]) : occupied[f][b] \in 1 .. BLOCK_SIZE
  BY LenProperties, ElementOfSeq DEF Contents
<1>2. [block |-> first, pos |-> start, bytes |-> <<>>] \in I
  <2>1. Len(<<>>) = 0 /\ <<>> \in Seq(AnyByte)
    BY EmptySeq
  <2>2. [block |-> first, pos |-> start, bytes |-> <<>>] \in Reader(n)
    BY <2>1 DEF Reader
  <2>3. start \div BLOCK_SIZE \in Nat
    BY Division
  <2> QED BY <2>1, <2>2, <2>3, <1>1
<1>3. ASSUME NEW s \in I PROVE Turn(f, n, s) \in I
  <2>1. /\ s \in Reader(n) /\ s.block \in Nat \ {0} /\ s.pos \in Nat /\ Len(s.bytes) \in Nat
        /\ s.pos = start + Len(s.bytes)
        /\ s.pos \div BLOCK_SIZE <= s.block - 1 /\ s.block <= Len(occupied[f]) + 1
    BY LenProperties DEF Reader
  <2>2. CASE Turn(f, n, s) = s
    BY <2>2
  <2>3. ASSUME s.block <= Len(occupied[f]),
               NEW k \in 1 .. BLOCK_SIZE, NEW t \in Reader(n), t = Turn(f, n, s),
               t.block = s.block + 1, t.pos = s.pos + k, Len(t.bytes) = Len(s.bytes) + k,
               (s.pos % BLOCK_SIZE) + k <= occupied[f][s.block]
        PROVE  t \in I
    <3> DEFINE d == s.pos \div BLOCK_SIZE
               w == s.pos % BLOCK_SIZE
    <3>1. d \in Nat /\ w \in 0 .. BLOCK_SIZE - 1 /\ s.pos = BLOCK_SIZE * d + w
      BY <2>1, Division
    <3>2. w + k <= BLOCK_SIZE /\ k \in Nat /\ BLOCK_SIZE \in Nat
      <4>1. BLOCK_SIZE \in Nat /\ occupied[f][s.block] \in 1 .. BLOCK_SIZE
        <5>1. s.block \in 1 .. Len(occupied[f])
          BY <1>1, <2>1, <2>3
        <5> QED BY <5>1, <1>1, ConstantsAssumption
      <4>2. w \in Nat /\ k \in Nat /\ w + k <= occupied[f][s.block]
        BY <2>3, <3>1, <4>1
      <4> HIDE DEF w
      <4> QED BY <4>1, <4>2
    <3>3. d + 1 <= s.block
      BY <2>1, <3>1
    <3> HIDE DEF d, w
    <3>4. BLOCK_SIZE * (d + 1) = BLOCK_SIZE * d + BLOCK_SIZE /\ BLOCK_SIZE * d \in Nat
      BY <3>1, Blocks
    <3>5. BLOCK_SIZE * (d + 1) <= BLOCK_SIZE * s.block /\ BLOCK_SIZE * s.block \in Nat
      <4>1. d + 1 \in Nat /\ s.block \in Nat
        BY <2>1, <3>1
      <4> QED BY <4>1, <3>3, Blocks
    <3>6. t.pos <= BLOCK_SIZE * s.block /\ t.pos \in Nat
      <4>1. s.pos + k \in Nat /\ s.pos + k <= BLOCK_SIZE * d + BLOCK_SIZE
        BY <2>1, <3>1, <3>2, <3>4, SMTT(40)
      <4>2. t.pos \in Nat /\ t.pos <= BLOCK_SIZE * (d + 1)
        BY <4>1, <2>3, <3>4
      <4> QED BY <4>2, <3>4, <3>5, <3>2
    <3>7. t.pos \div BLOCK_SIZE <= t.block - 1
      <4>1. t.pos \div BLOCK_SIZE <= s.block
        BY <2>1, <3>6, Reaches
      <4>2. t.block - 1 = s.block
        BY <2>1, <2>3
      <4> QED BY <4>1, <4>2
    <3>8. t.pos = start + Len(t.bytes) /\ t.block <= Len(occupied[f]) + 1
      BY <2>1, <2>3, <3>2, <1>1
    <3> QED BY <3>7, <3>8
  <2> HIDE DEF I
  <2>4. CASE Turn(f, n, s) # s
    <3>1. PICK k \in 1 .. BLOCK_SIZE, t \in Reader(n) :
            /\ s.block <= Len(occupied[f]) /\ t = Turn(f, n, s) /\ Advances(f, n, s, k, t)
      BY <2>1, <2>4, TurnCopies
    <3> QED BY <3>1, <2>3 DEF Advances
  <2> QED BY <2>2, <2>4
<1>4. I \subseteq Reader(n)
  OBVIOUS
<1> HIDE DEF I
<1>5. PICK s \in I : g = s.bytes
  <2>1. \E s \in I : ReadFrom(f, first, start, n) = s.bytes
    BY <1>2, <1>3, <1>4, ReadLoop
  <2> QED BY <2>1
<1>6. /\ Len(g) \in Nat /\ s.pos = start + Len(g) /\ s.pos \in Nat /\ s.block \in Nat
      /\ s.pos \div BLOCK_SIZE <= s.block - 1 /\ s.block <= Len(occupied[f]) + 1
  BY <1>5, LenProperties DEF I, Reader
<1>7. s.pos \div BLOCK_SIZE \in Nat
  BY <1>6, Division
<1>8. s.pos \div BLOCK_SIZE <= Len(occupied[f])
  <2> DEFINE d == s.pos \div BLOCK_SIZE
  <2>1. d \in Nat /\ d <= s.block - 1
    BY <1>6, <1>7
  <2> HIDE DEF d
  <2>2. d <= Len(occupied[f])
    BY <2>1, <1>1, <1>6
  <2> QED BY <2>2 DEF d
<1> QED BY <1>6, <1>8

(* After ufs_read the reader stands in the chain.                            *)
LEMMA ReadWalks ==
  ASSUME Table, Contents, WalksInside, NEW fd \in Descriptors, NEW n \in 0 .. MaxRequest, Read(fd, n)
  PROVE  WalksInside'
<1>1. PICK i \in Slots, f \in Files, g \in Seq(AnyByte) :
        /\ dfile[i] = f /\ Len(g) \in Nat
        /\ offset' = [offset EXCEPT ![i] = offset[i] + Len(g)]
        /\ \/ g = <<>>
           \/ /\ Current(i) <= Len(occupied[f])
              /\ g = ReadFrom(f, Current(i), offset[i], n)
        /\ UNCHANGED <<fileVars, dfile>>
  BY ReadEffect
<1>2. offset \in [Slots -> Nat] /\ f # None
  BY ConstantsAssumption DEF Contents
<1>3. offset[i] \div BLOCK_SIZE <= Len(occupied[f])
  BY <1>1, <1>2 DEF WalksInside
<1>4. (offset[i] + Len(g)) \div BLOCK_SIZE <= Len(occupied[f])
  <2>1. CASE g = <<>>
    <3>1. offset[i] + Len(g) = offset[i]
      BY <2>1, <1>2
    <3> QED BY <3>1, <1>3
  <2>2. CASE Current(i) <= Len(occupied[f]) /\ g = ReadFrom(f, Current(i), offset[i], n)
    <3>1. offset[i] \in Nat /\ offset[i] \div BLOCK_SIZE \in Nat /\ n \in Nat
      BY <1>2, Division, ConstantsAssumption, SMTT(40)
    <3>2. offset[i] \div BLOCK_SIZE + 1 = Current(i)
      BY DEF Current
    <3>3. Current(i) \in Nat \ {0}
      BY <3>1, <3>2
    <3> QED BY <2>2, <3>1, <3>2, <3>3, ReadReaches
  <2> QED BY <1>1, <2>1, <2>2
<1>5. ASSUME NEW j \in Slots, dfile[j] # None
      PROVE  offset'[j] \div BLOCK_SIZE <= Len(occupied[dfile[j]])
  <2>1. CASE j = i
    BY <2>1, <1>1, <1>2, <1>4
  <2>2. CASE j # i
    BY <2>2, <1>1, <1>2, <1>5 DEF WalksInside
  <2> QED BY <2>1, <2>2
<1>6. UNCHANGED <<size, occupied, dfile>>
  BY <1>1 DEF fileVars
<1> QED BY <1>5, <1>6 DEF WalksInside, BlockCount

(* After ufs_resize the descriptors of a file that got shorter are pulled    *)
(* back (lines 460-464), and a longer chain carries them as before.          *)
LEMMA ResizeWalks ==
  ASSUME Table, Contents, WalksInside, NEW fd \in Descriptors, NEW new \in Nat,
         Shrink(fd, new) \/ Grow(fd, new)
  PROVE  WalksInside'
<1>1. /\ size \in [Files -> Nat] /\ offset \in [Slots -> Nat]
      /\ \A g \in Files : Len(occupied[g]) \in Nat /\ BlockCount(size[g]) \in Nat
      /\ BlockCount(new) \in Nat
  BY LenProperties, Counting DEF Contents
<1>2. CASE Shrink(fd, new)
  <2>1. PICK f \in Files, kept \in Nat, m \in Seq(Block), o \in Seq(1 .. BLOCK_SIZE) :
          /\ new < size[f]
          /\ kept = Len(occupied[f]) - (BlockCount(size[f]) - BlockCount(new))
          /\ Len(o) = kept
          /\ occupied' = [occupied EXCEPT ![f] = o]
          /\ size' = [size EXCEPT ![f] = IF kept = 0 THEN 0 ELSE new]
          /\ offset' = Clamped(f, new) /\ UNCHANGED dfile
    BY <1>2, ShrinkEffect
  <2>2. BlockCount(new) <= kept
    BY <1>1, <2>1 DEF WalksInside
  <2>3. /\ occupied'[f] = o /\ \A g \in Files : g # f => occupied'[g] = occupied[g]
    BY <2>1 DEF Contents
  <2>4. ASSUME NEW j \in Slots, dfile'[j] # None
        PROVE  offset'[j] \div BLOCK_SIZE <= Len(occupied'[dfile'[j]])
    <3>1. dfile'[j] = dfile[j] /\ dfile[j] \in Files
      BY <2>1, <2>4 DEF Table, TableType
    <3>2. CASE dfile[j] = f
      <4>1. offset'[j] = Lesser(offset[j], new)
        BY <2>1, <3>2 DEF Clamped
      <4>2. offset'[j] \in Nat /\ offset'[j] <= new
        BY <4>1, <1>1 DEF Lesser
      <4>3. /\ offset'[j] \div BLOCK_SIZE \in Nat /\ new \div BLOCK_SIZE \in Nat
            /\ offset'[j] \div BLOCK_SIZE <= new \div BLOCK_SIZE
            /\ new \div BLOCK_SIZE <= BlockCount(new)
        BY <4>2, Monotone
      <4> DEFINE d == offset'[j] \div BLOCK_SIZE
                 e == new \div BLOCK_SIZE
      <4>4. d \in Nat /\ e \in Nat /\ d <= e /\ e <= BlockCount(new)
        BY <4>3
      <4> HIDE DEF d, e
      <4>5. d <= kept
        BY <4>4, <2>2, <1>1
      <4> QED BY <4>5, <3>1, <3>2, <2>1, <2>3 DEF d
    <3>3. CASE dfile[j] # f
      <4>1. offset'[j] = offset[j]
        BY <2>1, <3>3 DEF Clamped
      <4> QED BY <4>1, <3>1, <3>3, <2>3, <2>4 DEF WalksInside
    <3> QED BY <3>2, <3>3
  <2>5. ASSUME NEW g \in Files PROVE BlockCount(size'[g]) <= Len(occupied'[g])
    <3>1. CASE g = f
      <4>1. size'[g] = IF kept = 0 THEN 0 ELSE new
        BY <3>1, <2>1, <1>1
      <4>2. BlockCount(size'[g]) <= kept
        BY <4>1, <2>2, Zeros
      <4> QED BY <4>2, <3>1, <2>1, <2>3
    <3>2. CASE g # f
      BY <3>2, <2>1, <2>3, <1>1 DEF WalksInside
    <3> QED BY <3>1, <3>2
  <2> QED BY <2>4, <2>5 DEF WalksInside, BlockCount
<1>3. CASE Grow(fd, new)
  <2>1. PICK f \in Files, count \in Nat, m \in Seq(Block), o \in Seq(1 .. BLOCK_SIZE) :
          /\ count >= Len(occupied[f])
          /\ count = Len(occupied[f]) + BlockCount(new) - BlockCount(size[f])
          /\ Len(o) = count
          /\ occupied' = [occupied EXCEPT ![f] = o]
          /\ size' = [size EXCEPT ![f] = new]
          /\ UNCHANGED <<dfile, offset>>
    BY <1>3, GrowEffect
  <2>2. BlockCount(new) <= count
    BY <1>1, <2>1 DEF WalksInside
  <2>3. /\ occupied'[f] = o /\ \A g \in Files : g # f => occupied'[g] = occupied[g]
    BY <2>1 DEF Contents
  <2>4. ASSUME NEW j \in Slots, dfile'[j] # None
        PROVE  offset'[j] \div BLOCK_SIZE <= Len(occupied'[dfile'[j]])
    <3>1. dfile'[j] = dfile[j] /\ dfile[j] \in Files /\ offset'[j] = offset[j]
      BY <2>1, <2>4 DEF Table, TableType
    <3>2. offset[j] \div BLOCK_SIZE <= Len(occupied[dfile[j]]) /\ offset[j] \div BLOCK_SIZE \in Nat
      BY <3>1, <2>4, <1>1, <2>1, Division DEF WalksInside
    <3>3. Len(occupied[dfile[j]]) <= Len(occupied'[dfile[j]]) /\ Len(occupied'[dfile[j]]) \in Nat
      <4>1. CASE dfile[j] = f
        BY <4>1, <2>1, <2>3
      <4>2. CASE dfile[j] # f
        BY <4>2, <3>1, <1>1, <2>3, SMTT(40)
      <4> QED BY <4>1, <4>2
    <3> QED BY <3>1, <3>2, <3>3, <1>1
  <2>5. ASSUME NEW g \in Files PROVE BlockCount(size'[g]) <= Len(occupied'[g])
    <3>1. CASE g = f
      BY <3>1, <2>1, <2>2, <2>3, <1>1
    <3>2. CASE g # f
      BY <3>2, <2>1, <2>3, <1>1 DEF WalksInside
    <3> QED BY <3>1, <3>2
  <2> QED BY <2>4, <2>5 DEF WalksInside, BlockCount
<1> QED BY <1>2, <1>3

(* Every call leaves every descriptor inside of its chain.                   *)
LEMMA WalksStep ==
  ASSUME Table, Contents, WalksInside, [Next]_vars
  PROVE  WalksInside'
<1>1. CASE \E n \in Names : NameCall(n)
  <2>1. PICK n \in Names : NameCall(n)
    BY <1>1
  <2>2. CASE \E flags \in OpenFlags, f \in Files, i \in Slots : Open(n, flags, f, i)
    BY <2>2, OpenEffect, SettledWalks
  <2>3. CASE NoSuchFile(n)
    BY <2>3 DEF NoSuchFile, fileVars, descVars, WalksInside, BlockCount
  <2>4. CASE Delete(n)
    BY <2>4, DeleteEffect, SettledWalks
  <2> QED BY <2>1, <2>2, <2>3, <2>4 DEF NameCall
<1>2. CASE \E fd \in Descriptors : Close(fd)
  BY <1>2, CloseEffect, SettledWalks
<1>3. CASE Destroy
  BY <1>3, Zeros DEF Destroy, WalksInside, BlockCount
<1>4. CASE \E fd \in Descriptors, data \in Buffers : Write(fd, data)
  BY <1>4, WriteWalks
<1>5. CASE \E fd \in Descriptors, n \in 0 .. MaxRequest : Read(fd, n)
  BY <1>5, ReadWalks
<1>6. CASE \E fd \in Descriptors, new \in Nat : Shrink(fd, new) \/ Grow(fd, new)
  BY <1>6, ResizeWalks
<1>7. CASE UNCHANGED <<fileVars, descVars>>
  BY <1>7 DEF fileVars, descVars, WalksInside, BlockCount
<1>8. CASE UNCHANGED vars
  BY <1>8, <1>7 DEF vars
<1> QED BY <1>1, <1>2, <1>3, <1>4, <1>5, <1>6, <1>7, <1>8, CallsSplit DEF Idle

(* ufs_write goes to the block of its descriptor without looking for the end *)
(* of the chain (line 241), and ufs_resize frees as many blocks as the size  *)
(* of the file asks for (line 436): the chain is long enough for both, after *)
(* any calls on any number of descriptors, also those that write into full   *)
(* blocks and leave the chain longer than the file.                          *)
THEOREM WalksStayInside == Spec => []WalksInside
<1>1. Init => Table /\ Contents /\ WalksInside
  BY EmptyTable, InitContents, Zeros DEF Init, WalksInside
<1>2. Table /\ Contents /\ WalksInside /\ [Next]_vars => (Table /\ Contents /\ WalksInside)'
  BY TableStep, ContentsStep, WalksStep
<1> QED BY <1>1, <1>2, PTL DEF Spec

-----------------------------------------------------------------------------
(* The bytes of a file *)

(* The bytes that the blocks m hold, o of each.                              *)
Joined(m, o) == FlattenSeq([b \in DOMAIN o |-> SubSeq(m[b], 1, o[b])])

(* All blocks are full but the last.                                         *)
Filled(o, s) ==
    /\ Len(o) = BlockCount(s)
    /\ \A b \in 1 .. Len(o) : o[b] = IF b = Len(o) THEN LastOccupied(s) ELSE BLOCK_SIZE

(* The first s bytes of the blocks m.                                        *)
Flat(m, s) == [k \in 1 .. s |-> m[BlockCount(k)][LastOccupied(k)]]

(* Flattening a sequence adds one of its members after the other.            *)
LEMMA Flattening ==
  ASSUME NEW n \in Nat \ {0}, NEW s, Len(s) = n, NEW g,
         g = [i \in 1 .. n |-> IF i = 1 THEN s[i] ELSE g[i - 1] \o s[i]]
  PROVE  FlattenSeq(s) = g[n]
<1> DEFINE Is(h) == h = [i \in 1 .. n |-> IF i = 1 THEN s[i] ELSE h[i - 1] \o s[i]]
           h == CHOOSE h : Is(h)
<1>1. Is(g)
  OBVIOUS
<1>2. Is(h)
  <2> HIDE DEF Is
  <2> QED BY <1>1, Zenon
<1>3. FlattenSeq(s) = h[n]
  BY DEF FlattenSeq
<1> HIDE DEF h
<1> DEFINE Same == {j \in Nat : j + 1 <= n => h[j + 1] = g[j + 1]}
<1>4. 0 \in Same
  <2>1. 1 \in 1 .. n
    OBVIOUS
  <2>2. h[1] = s[1] /\ g[1] = s[1]
    BY <1>1, <1>2, <2>1
  <2> QED BY <2>2
<1>5. ASSUME NEW j \in Same PROVE j + 1 \in Same
  <2> SUFFICES ASSUME (j + 1) + 1 <= n PROVE h[(j + 1) + 1] = g[(j + 1) + 1]
    BY SMTT(40)
  <2>1. (j + 1) + 1 \in 1 .. n /\ ((j + 1) + 1) - 1 = j + 1 /\ (j + 1) + 1 # 1
    OBVIOUS
  <2>2. h[j + 1] = g[j + 1]
    OBVIOUS
  <2>3. /\ h[(j + 1) + 1] = h[j + 1] \o s[(j + 1) + 1]
        /\ g[(j + 1) + 1] = g[j + 1] \o s[(j + 1) + 1]
    BY <1>1, <1>2, <2>1
  <2> QED BY <2>2, <2>3
<1>6. Same = Nat
  <2> HIDE DEF Same
  <2>1. Same \subseteq Nat
    BY DEF Same
  <2> QED BY <1>4, <1>5, <2>1, Induction
<1>7. h[(n - 1) + 1] = g[(n - 1) + 1] /\ (n - 1) + 1 = n
  <2>1. n - 1 \in Nat /\ (n - 1) + 1 = n
    OBVIOUS
  <2>2. n - 1 \in Same
    <3> HIDE DEF Same
    <3> QED BY <2>1, <1>6
  <2> QED BY <2>1, <2>2
<1> QED BY <1>3, <1>7

(* They are bytes.                                                           *)
LEMMA FlatBytes ==
  ASSUME NEW m \in Seq(Block), NEW s \in Nat, BlockCount(s) <= Len(m)
  PROVE  /\ \A k \in 1 .. s : m[BlockCount(k)][LastOccupied(k)] \in AnyByte
         /\ Flat(m, s) \in Seq(AnyByte) /\ Len(Flat(m, s)) = s
         /\ \A k \in 1 .. s : Flat(m, s)[k] = m[BlockCount(k)][LastOccupied(k)]
<1>1. ASSUME NEW k \in 1 .. s
      PROVE  BlockCount(k) \in 1 .. Len(m) /\ LastOccupied(k) \in 1 .. BLOCK_SIZE
  <2>1. k \in Nat /\ k > 0 /\ k <= s /\ Len(m) \in Nat
    BY LenProperties
  <2>2. /\ BlockCount(k) \in Nat /\ BlockCount(k) # 0 /\ LastOccupied(k) \in 1 .. BLOCK_SIZE
        /\ BlockCount(k) <= BlockCount(s) /\ BlockCount(s) \in Nat
    <3>1. BlockCount(k) \in Nat /\ BlockCount(k) # 0 /\ LastOccupied(k) \in 1 .. BLOCK_SIZE
      <4>1. k \in Nat /\ k # 0
        BY <2>1
      <4> QED BY <4>1, Counting, Zenon
    <3> QED BY <2>1, <3>1, Monotone
  <2> QED BY <2>1, <2>2
<1>2. ASSUME NEW k \in 1 .. s PROVE m[BlockCount(k)][LastOccupied(k)] \in AnyByte
  <2>1. m[BlockCount(k)] \in Block
    BY <1>1, ElementOfSeq
  <2> QED BY <1>1, <2>1 DEF Block
<1>3. /\ Flat(m, s) = [k \in 1 .. s |-> Flat(m, s)[k]]
      /\ \A k \in 1 .. s : Flat(m, s)[k] = m[BlockCount(k)][LastOccupied(k)]
  BY DEF Flat
<1>4. \A k \in 1 .. s : Flat(m, s)[k] \in AnyByte
  BY <1>2, <1>3
<1> QED BY <1>2, <1>3, <1>4, Chains

(* Some more of them.                                                        *)
LEMMA FlatMore ==
  ASSUME NEW m \in Seq(Block), NEW s \in Nat, NEW p \in Nat, BlockCount(s + p) <= Len(m),
         NEW more \in Seq(AnyByte), Len(more) = p,
         \A j \in 1 .. p : more[j] = m[BlockCount(s + j)][LastOccupied(s + j)]
  PROVE  Flat(m, s) \o more = Flat(m, s + p)
<1>1. s + p \in Nat /\ BlockCount(s) <= Len(m)
  <2>1. s + p \in Nat /\ s <= s + p /\ Len(m) \in Nat
    BY LenProperties
  <2> QED BY <2>1, Monotone
<1>2. /\ Flat(m, s) \in Seq(AnyByte) /\ Len(Flat(m, s)) = s
      /\ \A k \in 1 .. s : Flat(m, s)[k] = m[BlockCount(k)][LastOccupied(k)]
  BY <1>1, FlatBytes
<1>3. /\ Flat(m, s + p) \in Seq(AnyByte) /\ Len(Flat(m, s + p)) = s + p
      /\ \A k \in 1 .. s + p : Flat(m, s + p)[k] = m[BlockCount(k)][LastOccupied(k)]
  BY <1>1, FlatBytes
<1> DEFINE a == Flat(m, s)
           b == Flat(m, s + p)
<1> HIDE DEF a, b
<1>4. a \in Seq(AnyByte) /\ Len(a) = s /\ b \in Seq(AnyByte) /\ Len(b) = s + p
  BY <1>2, <1>3 DEF a, b
<1>5. /\ a \o more \in Seq(AnyByte) /\ Len(a \o more) = s + p
      /\ \A k \in 1 .. s + p : (a \o more)[k] = IF k <= s THEN a[k] ELSE more[k - s]
  BY <1>4, ConcatProperties
<1>6. ASSUME NEW k \in 1 .. s + p PROVE (a \o more)[k] = b[k]
  <2>1. b[k] = m[BlockCount(k)][LastOccupied(k)]
    BY <1>3 DEF b
  <2>2. CASE k <= s
    <3>1. k \in 1 .. s
      BY <2>2
    <3> QED BY <3>1, <2>1, <2>2, <1>2, <1>5 DEF a
  <2>3. CASE ~ (k <= s)
    <3>1. k - s \in 1 .. p /\ s + (k - s) = k
      BY <2>3
    <3>2. more[k - s] = m[BlockCount(k)][LastOccupied(k)]
      BY <3>1
    <3> QED BY <3>2, <2>1, <2>3, <1>5
  <2> QED BY <2>2, <2>3
<1>7. a \o more = b
  BY <1>4, <1>5, <1>6, SeqEqual
<1> QED BY <1>7 DEF a, b

(* What the blocks of an exact file hold, one after the other.               *)
LEMMA JoinedFlat ==
  ASSUME NEW m \in Seq(Block), NEW o \in Seq(1 .. BLOCK_SIZE), Len(m) = Len(o),
         NEW s \in Nat, Filled(o, s)
  PROVE  Joined(m, o) = Flat(m, s)
<1> DEFINE n == Len(o)
           parts == [b \in DOMAIN o |-> SubSeq(m[b], 1, o[b])]
           top(i) == IF i = n THEN s ELSE BLOCK_SIZE * i
           g == [i \in 1 .. n |-> Flat(m, top(i))]
<1>1. /\ n \in Nat /\ DOMAIN o = 1 .. n /\ n = BlockCount(s) /\ Len(m) = n
      /\ \A b \in 1 .. n : o[b] = IF b = n THEN LastOccupied(s) ELSE BLOCK_SIZE
      /\ BLOCK_SIZE \in Nat /\ BLOCK_SIZE > 0
  BY LenProperties, ConstantsAssumption DEF Filled
<1>2. parts = [b \in 1 .. n |-> SubSeq(m[b], 1, o[b])]
  BY <1>1
<1>3. ASSUME NEW b \in 1 .. n
      PROVE  /\ o[b] \in 1 .. BLOCK_SIZE
             /\ parts[b] \in Seq(AnyByte) /\ Len(parts[b]) = o[b]
             /\ \A j \in 1 .. o[b] : parts[b][j] = m[b][j]
  <2>1. o[b] \in 1 .. BLOCK_SIZE /\ m[b] \in Block
    BY <1>1, ElementOfSeq
  <2> DEFINE e == o[b]
             p == SubSeq(m[b], 1, e)
  <2>2. \A j \in 1 .. e : m[b][j] \in AnyByte
    BY <2>1, <1>1 DEF Block
  <2>3. e \in 1 .. BLOCK_SIZE
    BY <2>1
  <2>4. parts[b] = p
    BY <1>2
  <2> HIDE DEF e, parts
  <2>5. p \in Seq(AnyByte) /\ Len(p) = e /\ \A j \in 1 .. e : p[j] = m[b][j]
    <3>1. /\ p \in Seq(AnyByte) /\ Len(p) = (IF 1 <= e THEN e - 1 + 1 ELSE 0)
          /\ \A j \in 1 .. e - 1 + 1 : p[j] = m[b][1 + j - 1]
      BY <2>2, <2>3, <1>1, SubSeqProperties
    <3> HIDE DEF p
    <3> QED BY <3>1, <2>3, <1>1
  <2> HIDE DEF p
  <2> QED BY <2>3, <2>4, <2>5 DEF e
<1>4. parts \in Seq(Seq(AnyByte)) /\ Len(parts) = n
  <2>1. parts = [b \in 1 .. n |-> parts[b]]
    BY <1>2
  <2> HIDE DEF parts
  <2> QED BY <2>1, <1>1, <1>3, Chains
<1> HIDE DEF n, parts
<1>5. CASE n = 0
  <2>1. s = 0
    BY <1>1, <1>5, Counting
  <2>2. Flat(m, s) = [k \in 1 .. 0 |-> m[BlockCount(k)][LastOccupied(k)]]
    BY <2>1 DEF Flat
  <2>3. FlattenSeq(parts) = parts
    BY <1>4, <1>5 DEF FlattenSeq
  <2>4. Flat(m, s) = <<>>
    <3>1. Flat(m, s) \in Seq(AnyByte) /\ Len(Flat(m, s)) = 0
      BY <2>1, <1>1, <1>5, FlatBytes
    <3> QED BY <3>1, EmptySeq
  <2>5. parts = <<>>
    BY <1>4, <1>5, EmptySeq
  <2> QED BY <2>3, <2>4, <2>5 DEF Joined, parts
<1>6. CASE n # 0
  <2>1. s > 0 /\ s = BLOCK_SIZE * (n - 1) + LastOccupied(s)
    BY <1>1, <1>6, Counting
  <2>2. ASSUME NEW i \in 1 .. n
        PROVE  /\ i - 1 \in Nat /\ BLOCK_SIZE * (i - 1) \in Nat
               /\ top(i) = BLOCK_SIZE * (i - 1) + o[i] /\ BlockCount(top(i)) = i
               /\ Flat(m, BLOCK_SIZE * (i - 1)) \o parts[i] = Flat(m, top(i))
    <3> DEFINE q == i - 1
               below == BLOCK_SIZE * q
               e == o[i]
    <3>1. q \in Nat /\ q + 1 = i /\ e \in 1 .. BLOCK_SIZE
      BY <1>1, <1>3
    <3>2. o[i] = IF i = n THEN LastOccupied(s) ELSE BLOCK_SIZE
      BY <1>1
    <3> HIDE DEF q, e
    <3>3. below \in Nat /\ BLOCK_SIZE * (q + 1) = below + BLOCK_SIZE
      BY <3>1, Blocks
    <3>4. top(i) = below + e
      <4>1. CASE i = n
        <5>1. n - 1 = q
          BY <4>1 DEF q
        <5> QED BY <5>1, <4>1, <2>1, <3>2 DEF e
      <4>2. CASE i # n
        BY <4>2, <3>1, <3>2, <3>3 DEF e
      <4> QED BY <4>1, <4>2
    <3>5. \A j \in 1 .. BLOCK_SIZE : BlockCount(below + j) = i /\ LastOccupied(below + j) = j
      BY <3>1, Placing
    <3>6. e \in 1 .. BLOCK_SIZE /\ e \in Nat /\ Len(parts[i]) = e /\ parts[i] \in Seq(AnyByte)
      BY <3>1, <1>1, <1>3 DEF e
    <3>7. \A j \in 1 .. e : parts[i][j] = m[BlockCount(below + j)][LastOccupied(below + j)]
      <4> SUFFICES ASSUME NEW j \in 1 .. e
                   PROVE  parts[i][j] = m[BlockCount(below + j)][LastOccupied(below + j)]
        OBVIOUS
      <4>1. j \in 1 .. BLOCK_SIZE
        BY <3>6, <1>1
      <4>2. BlockCount(below + j) = i /\ LastOccupied(below + j) = j
        BY <4>1, <3>5
      <4>3. parts[i][j] = m[i][j]
        BY <1>3 DEF e
      <4> QED BY <4>2, <4>3
    <3>8. BlockCount(below + e) = i /\ i <= Len(m)
      BY <3>5, <3>6, <1>1
    <3> HIDE DEF below
    <3>9. Flat(m, below) \o parts[i] = Flat(m, below + e)
      BY <3>3, <3>6, <3>7, <3>8, FlatMore
    <3> HIDE DEF top
    <3> QED BY <3>1, <3>3, <3>4, <3>8, <3>9 DEF below, q, e
  <2>3. ASSUME NEW i \in 1 .. n PROVE g[i] = IF i = 1 THEN parts[i] ELSE g[i - 1] \o parts[i]
    <3>1. g[i] = Flat(m, BLOCK_SIZE * (i - 1)) \o parts[i]
      BY <2>2
    <3>2. CASE i = 1
      <4>1. BLOCK_SIZE * (i - 1) = 0
        BY <3>2, <1>1
      <4>2. Flat(m, 0) = <<>>
        <5>1. 0 \in Nat /\ BlockCount(0) <= Len(m)
          BY <1>1, Zeros
        <5>2. Flat(m, 0) \in Seq(AnyByte) /\ Len(Flat(m, 0)) = 0
          BY <5>1, FlatBytes
        <5> QED BY <5>2, EmptySeq
      <4>3. <<>> \o parts[i] = parts[i]
        BY <1>3, ConcatEmptySeq
      <4> HIDE DEF g
      <4> QED BY <3>1, <3>2, <4>1, <4>2, <4>3
    <3>3. CASE i # 1
      <4>1. i - 1 \in 1 .. n /\ i - 1 # n
        BY <3>3, <1>1
      <4>2. g[i - 1] = Flat(m, BLOCK_SIZE * (i - 1))
        BY <4>1
      <4> HIDE DEF g
      <4> QED BY <3>1, <3>3, <4>2
    <3> QED BY <3>2, <3>3
  <2>4. g = [i \in 1 .. n |-> IF i = 1 THEN parts[i] ELSE g[i - 1] \o parts[i]]
    <3>1. g = [i \in 1 .. n |-> g[i]]
      OBVIOUS
    <3> HIDE DEF g
    <3> QED BY <3>1, <2>3
  <2>5. g[n] = Flat(m, s)
    BY <1>1, <1>6
  <2> HIDE DEF g
  <2>6. n \in Nat \ {0}
    BY <1>1, <1>6
  <2>7. FlattenSeq(parts) = g[n]
    BY <2>4, <2>6, <1>4, Flattening, ZenonT(60)
  <2> QED BY <2>5, <2>7 DEF Joined, parts
<1> QED BY <1>5, <1>6
-----------------------------------------------------------------------------
(* A chain is as long as its file, unless full blocks are written into *)

(* Lines 239-272: a write starts in the last block of the file or behind it, *)
(* and then its bytes follow each other from the offset on.                  *)
LEMMA WriteFollows ==
  ASSUME Contents, ChainMatchesSize, NEW i \in Slots, NEW f \in Files, dfile[i] = f, NEW n \in Nat \ {0},
         InPlace(i) \/ Current(i) > Len(occupied[f])
  PROVE  /\ Current(i) \in Nat \ {0}
         /\ Current(i) = Len(occupied[f]) \/ Current(i) = Len(occupied[f]) + 1
         /\ BLOCK_SIZE * (Current(i) - 1) <= offset[i]
         /\ offset[i] < BLOCK_SIZE * Current(i) /\ size[f] <= BLOCK_SIZE * Current(i)
         /\ Current(i) = Len(occupied[f]) + 1 => size[f] = BLOCK_SIZE * Len(occupied[f])
         /\ \A k \in 1 .. n : In(i, n, k) = BlockCount(offset[i] + k)
                              /\ At(i, n, k) = LastOccupied(offset[i] + k)
         /\ BlocksAfter(i, n) = BlockCount(offset[i] + n) /\ Current(i) <= BlocksAfter(i, n)
<1> DEFINE w == offset[i] % BLOCK_SIZE
           last == Len(occupied[f])
           head == First(i, n)
           start == StartBlock(i)
           kept == Kept(i)
           count == BlocksAfter(i, n)
           c == Current(i)
           off == offset[i]
           sz == size[f]
<1>1. BLOCK_SIZE \in Nat /\ BLOCK_SIZE > 0 /\ off \in Nat /\ sz \in Nat
  BY ConstantsAssumption DEF Contents
<1>2. /\ last \in Nat /\ w \in 0 .. BLOCK_SIZE - 1
      /\ c \in Nat \ {0} /\ off = BLOCK_SIZE * (c - 1) + w
      /\ head \in 1 .. BLOCK_SIZE - w /\ head <= n
      /\ head < n => head = BLOCK_SIZE - w
      /\ start = IF InPlace(i) THEN c ELSE last + 1
      /\ kept = IF start <= last THEN last ELSE start
  BY WriteBegins
<1>3. count = IF head = n THEN kept ELSE kept + BlockCount(n - head)
  BY WritePlaces
<1>4. ASSUME NEW k \in 1 .. n
      PROVE  /\ In(i, n, k) = IF k <= head THEN start ELSE kept + BlockCount(k - head)
             /\ At(i, n, k) = IF k <= head THEN w + k ELSE LastOccupied(k - head)
  BY DEF In, At
<1>5. /\ last = BlockCount(sz) /\ off <= sz
      /\ \A b \in 1 .. last : b # last => occupied[f][b] = BLOCK_SIZE
  BY ConstantsAssumption DEF ChainMatchesSize
<1>6. InPlace(i) \/ c > last
  OBVIOUS
<1>7. InPlace(i) => c <= last /\ occupied[f][c] # BLOCK_SIZE
  BY DEF InPlace
<1> HIDE DEF w, last, head, start, kept, count, c, off, sz
<1>8. sz <= BLOCK_SIZE * last
  BY <1>1, <1>2, <1>5, Counting
<1>9. /\ BLOCK_SIZE * last \in Nat /\ BLOCK_SIZE * c \in Nat
      /\ BLOCK_SIZE * (c - 1) \in Nat /\ BLOCK_SIZE * c = BLOCK_SIZE * (c - 1) + BLOCK_SIZE
  <2>1. c \in Nat /\ c - 1 \in Nat /\ (c - 1) + 1 = c
    BY <1>2
  <2> QED BY <2>1, <1>2, Blocks
<1>10. BLOCK_SIZE * (c - 1) <= off /\ off < BLOCK_SIZE * c
  BY <1>1, <1>2, <1>9
<1>11. /\ c = last \/ c = last + 1
       /\ sz <= BLOCK_SIZE * c /\ start = c /\ kept = c
       /\ c = last + 1 => sz = BLOCK_SIZE * last
  <2>1. CASE InPlace(i)
    <3>1. c = last
      <4>1. c \in 1 .. last
        BY <2>1, <1>2, <1>7
      <4> QED BY <4>1, <2>1, <1>5, <1>7
    <3> QED BY <3>1, <2>1, <1>2, <1>8
  <2>2. CASE ~ InPlace(i)
    <3>1. c > last /\ last <= c - 1 /\ c - 1 \in Nat
      BY <2>2, <1>2, <1>6
    <3>2. BLOCK_SIZE * last <= BLOCK_SIZE * (c - 1)
      BY <3>1, <1>2, Blocks
    <3>3. BLOCK_SIZE * (c - 1) <= BLOCK_SIZE * last /\ sz = BLOCK_SIZE * last
      BY <3>2, <1>1, <1>5, <1>8, <1>9, <1>10
    <3>4. c - 1 <= last
      BY <3>1, <3>3, <1>2, Blocks
    <3>5. c = last + 1
      BY <3>1, <3>4, <1>2
    <3> QED BY <3>3, <3>5, <2>2, <1>1, <1>2, <1>9
  <2> QED BY <2>1, <2>2
<1>12. ASSUME NEW k \in 1 .. n
       PROVE  In(i, n, k) = BlockCount(off + k) /\ At(i, n, k) = LastOccupied(off + k)
  <2>1. CASE k <= head
    <3>1. w + k \in 1 .. BLOCK_SIZE /\ off + k = BLOCK_SIZE * (c - 1) + (w + k)
      BY <2>1, <1>1, <1>2, <1>9
    <3>2. c - 1 \in Nat
      BY <1>2
    <3>3. BlockCount(off + k) = (c - 1) + 1 /\ LastOccupied(off + k) = w + k
      BY <3>1, <3>2, Placing
    <3> QED BY <3>3, <2>1, <1>2, <1>4, <1>11
  <2>2. CASE k > head
    <3> DEFINE q == BlockCount(k - head) - 1
               e == LastOccupied(k - head)
    <3>1. k - head \in Nat /\ k - head > 0 /\ head = BLOCK_SIZE - w
      BY <2>2, <1>1, <1>2
    <3>2. q \in Nat /\ e \in 1 .. BLOCK_SIZE /\ k - head = BLOCK_SIZE * q + e /\ BlockCount(k - head) = q + 1
      <4>1. BlockCount(k - head) \in Nat /\ BlockCount(k - head) # 0
        BY <3>1, Counting
      <4>2. e \in 1 .. BLOCK_SIZE /\ k - head = BLOCK_SIZE * q + e
        BY <3>1, Counting
      <4>3. q \in Nat /\ BlockCount(k - head) = q + 1
        BY <4>1
      <4> QED BY <4>2, <4>3
    <3> HIDE DEF q
    <3>3. BLOCK_SIZE * (c + q) = BLOCK_SIZE * c + BLOCK_SIZE * q /\ BLOCK_SIZE * q \in Nat
      BY <3>2, <1>2, Blocks
    <3> HIDE DEF e
    <3>4. off + k = BLOCK_SIZE * (c + q) + e
      BY <3>1, <3>2, <3>3, <1>1, <1>2, <1>9
    <3>5. c + q \in Nat
      BY <3>2, <1>2
    <3>6. BlockCount(off + k) = c + q + 1 /\ LastOccupied(off + k) = e
      BY <3>2, <3>4, <3>5, Placing, SMTT(40)
    <3>7. In(i, n, k) = c + (q + 1)
      <4>1. ~ (k <= head)
        BY <2>2, <1>2
      <4>2. In(i, n, k) = kept + BlockCount(k - head) /\ kept = c
        BY <4>1, <1>4, <1>11
      <4> QED BY <4>2, <3>2
    <3>8. At(i, n, k) = e
      BY <2>2, <1>2, <1>4 DEF e
    <3> QED BY <3>2, <3>6, <3>7, <3>8, <1>2
  <2> QED BY <2>1, <2>2, <1>2
<1>13. count = BlockCount(off + n) /\ c <= count
  <2>1. n \in 1 .. n /\ In(i, n, n) = BlockCount(off + n)
    BY <1>12
  <2>2. CASE head = n
    <3>1. In(i, n, n) = c
      BY <2>1, <2>2, <1>2, <1>4, <1>11
    <3> QED BY <3>1, <2>1, <2>2, <1>2, <1>3, <1>11
  <2>3. CASE head # n
    <3>1. n > head /\ n - head \in Nat
      BY <2>3, <1>2
    <3>2. In(i, n, n) = kept + BlockCount(n - head)
      BY <3>1, <2>1, <1>2, <1>4
    <3>3. BlockCount(n - head) \in Nat
      BY <3>1, Counting
    <3> QED BY <3>2, <3>3, <2>1, <2>3, <1>2, <1>3, <1>11
  <2> QED BY <2>2, <2>3
<1> QED BY <1>2, <1>10, <1>11, <1>12, <1>13 DEF w, last, head, start, kept, count, c, off, sz

(* The blocks of the file after a write: full, but the last one.             *)
LEMMA WriteFills ==
  ASSUME Contents, ChainMatchesSize, NEW i \in Slots, NEW f \in Files, NEW n \in Nat \ {0},
         NEW m \in Seq(Block), NEW o \in Seq(1 .. BLOCK_SIZE), Writes(i, f, n, m, o), ~ Overwriting,
         NEW new, new = Greater(size[f], offset[i] + n)
  PROVE  /\ Len(o) = BlockCount(new)
         /\ \A b \in 1 .. Len(o) : o[b] = IF b = Len(o) THEN LastOccupied(new) ELSE BLOCK_SIZE
<1> DEFINE last == Len(occupied[f])
           count == Len(o)
           c == Current(i)
           off == offset[i]
           sz == size[f]
           old(b) == IF b <= last THEN occupied[f][b] ELSE 0
           ends(b) == {At(i, n, k) : k \in {l \in 1 .. n : In(i, n, l) = b}} \cup {old(b)}
<1>1. BLOCK_SIZE \in Nat /\ BLOCK_SIZE > 0 /\ off \in Nat /\ sz \in Nat /\ last \in Nat /\ count \in Nat
  BY ConstantsAssumption, LenProperties DEF Contents
<1>2. /\ c \in Nat \ {0} /\ (c = last \/ c = last + 1)
      /\ BLOCK_SIZE * (c - 1) <= off /\ off < BLOCK_SIZE * c /\ sz <= BLOCK_SIZE * c
      /\ c = last + 1 => sz = BLOCK_SIZE * last
      /\ \A k \in 1 .. n : In(i, n, k) = BlockCount(off + k) /\ At(i, n, k) = LastOccupied(off + k)
      /\ count = BlockCount(off + n) /\ c <= count
  BY WriteFollows DEF Writes
<1>3. /\ last = BlockCount(sz)
      /\ \A b \in 1 .. last : occupied[f][b] = IF b = last THEN LastOccupied(sz) ELSE BLOCK_SIZE
  BY DEF ChainMatchesSize
<1>4. \A b \in 1 .. count : o[b] \in ends(b) /\ \A d \in ends(b) : d <= o[b]
  BY DEF Writes
<1>5. \A b \in 1 .. count : o[b] \in 1 .. BLOCK_SIZE
  BY ElementOfSeq
<1>6. new \in Nat /\ sz <= new /\ off + n <= new /\ (new = off + n \/ (new = sz /\ off + n < sz))
  BY <1>1 DEF Greater
<1> HIDE DEF last, count, c, off, sz
<1>7. /\ BLOCK_SIZE * c \in Nat /\ BLOCK_SIZE * count \in Nat /\ BLOCK_SIZE * last \in Nat
      /\ BLOCK_SIZE * c <= BLOCK_SIZE * count
  BY <1>1, <1>2, Blocks
<1>8. BlockCount(sz) <= count
  BY <1>1, <1>2, <1>7, Counting
<1>9. count = BlockCount(new)
  <2>1. CASE new = off + n
    BY <2>1, <1>2
  <2>2. CASE new = sz /\ off + n < sz
    <3>1. BlockCount(off + n) <= BlockCount(sz) /\ BlockCount(sz) \in Nat
      <4>1. off + n \in Nat /\ off + n <= sz
        BY <2>2, <1>1
      <4> QED BY <4>1, <1>1, Monotone
    <3> QED BY <3>1, <2>2, <1>1, <1>2, <1>8
  <2> QED BY <2>1, <2>2, <1>6
<1>10. count - 1 \in Nat /\ new > 0 /\ off + n > 0 /\ new = BLOCK_SIZE * (count - 1) + LastOccupied(new)
  <2>1. new > 0 /\ off + n > 0 /\ count - 1 \in Nat
    BY <1>1, <1>2, <1>6
  <2> QED BY <2>1, <1>6, <1>9, Counting
<1>11. ASSUME NEW b \in 1 .. count, b # count PROVE o[b] = BLOCK_SIZE
  <2>1. BLOCK_SIZE \in ends(b)
    <3>1. CASE b < c
      <4>1. b \in 1 .. last
        BY <3>1, <1>1, <1>2
      <4>2. CASE b # last
        BY <4>1, <4>2, <1>3
      <4>3. CASE b = last
        <5>1. sz = BLOCK_SIZE * last /\ last - 1 \in Nat /\ (last - 1) + 1 = last
          BY <4>1, <4>3, <3>1, <1>1, <1>2
        <5>2. BLOCK_SIZE * last = BLOCK_SIZE * (last - 1) + BLOCK_SIZE
          BY <5>1, Blocks
        <5>3. BLOCK_SIZE \in 1 .. BLOCK_SIZE
          BY <1>1
        <5>4. LastOccupied(sz) = BLOCK_SIZE
          BY <5>1, <5>2, <5>3, Placing
        <5> QED BY <5>4, <4>1, <4>3, <1>3
      <4> QED BY <4>2, <4>3
    <3>2. CASE ~ (b < c)
      <4>1. b \in Nat /\ b - 1 \in Nat /\ (b - 1) + 1 = b /\ c <= b /\ b <= count - 1
        BY <3>2, <1>1, <1>2, <1>11
      <4>2. BLOCK_SIZE * c <= BLOCK_SIZE * b /\ BLOCK_SIZE * b \in Nat
        BY <4>1, <1>2, Blocks
      <4>3. BLOCK_SIZE * b = BLOCK_SIZE * (b - 1) + BLOCK_SIZE
        BY <4>1, Blocks
      <4>4. BLOCK_SIZE * b < off + n
        <5>1. ~ (BlockCount(off + n) <= b)
          BY <4>1, <1>1, <1>2
        <5>2. off + n \in Nat
          BY <1>1
        <5> QED BY <5>1, <5>2, <4>1, <4>2, Counting, SMTT(40)
      <4> DEFINE k == BLOCK_SIZE * b - off
      <4>5. k \in 1 .. n /\ off + k = BLOCK_SIZE * b
        <5>1. off < BLOCK_SIZE * b /\ BLOCK_SIZE * b \in Nat
          <6>1. off < BLOCK_SIZE * c /\ off \in Nat /\ BLOCK_SIZE * c \in Nat
            BY <1>1, <1>2, <1>7
          <6> QED BY <6>1, <4>2
        <5>2. k \in Int /\ k >= 1 /\ k <= n /\ off + k = BLOCK_SIZE * b
          BY <5>1, <4>4, <1>1
        <5> QED BY <5>2
      <4> HIDE DEF k
      <4>6. BLOCK_SIZE \in 1 .. BLOCK_SIZE
        BY <1>1
      <4>7. BlockCount(off + k) = (b - 1) + 1 /\ LastOccupied(off + k) = BLOCK_SIZE
        BY <4>1, <4>3, <4>5, <4>6, Placing
      <4>8. In(i, n, k) = b /\ At(i, n, k) = BLOCK_SIZE
        BY <4>1, <4>5, <4>7, <1>2
      <4> HIDE DEF old
      <4> QED BY <4>5, <4>8
    <3> QED BY <3>1, <3>2
  <2> HIDE DEF ends
  <2>2. BLOCK_SIZE <= o[b] /\ o[b] \in 1 .. BLOCK_SIZE
    BY <2>1, <1>4, <1>5
  <2> QED BY <2>2, <1>1
<1>12. o[count] = LastOccupied(new)
  <2>1. LastOccupied(new) \in ends(count)
    <3>1. CASE new = off + n
      <4>1. n \in 1 .. n /\ In(i, n, n) = count /\ At(i, n, n) = LastOccupied(new)
        BY <3>1, <1>2
      <4> HIDE DEF old
      <4> QED BY <4>1
    <3>2. CASE new = sz /\ off + n < sz
      <4>1. last = count /\ last \in 1 .. last
        BY <3>2, <1>1, <1>3, <1>9, <1>10
      <4>2. old(count) = LastOccupied(new)
        BY <4>1, <3>2, <1>1, <1>3
      <4> HIDE DEF old
      <4> QED BY <4>2
    <3> QED BY <3>1, <3>2, <1>6
  <2>2. ASSUME NEW d \in ends(count) PROVE d <= LastOccupied(new)
    <3>0. LastOccupied(new) \in Nat /\ BLOCK_SIZE * (count - 1) \in Nat
      <4>1. LastOccupied(new) \in 1 .. BLOCK_SIZE
        BY <1>6, Counting
      <4>2. BLOCK_SIZE * (count - 1) \in Nat
        BY <1>10, Blocks
      <4> QED BY <4>1, <4>2, <1>1
    <3>1. ASSUME NEW k \in 1 .. n, In(i, n, k) = count, d = At(i, n, k) PROVE d <= LastOccupied(new)
      <4>1. off + k \in Nat /\ off + k > 0 /\ off + k <= new
        BY <1>1, <1>6
      <4>2. BlockCount(off + k) = count /\ LastOccupied(off + k) = d
        BY <3>1, <1>2
      <4>3. off + k = BLOCK_SIZE * (count - 1) + d /\ d \in Nat
        BY <4>1, <4>2, <1>1, Counting
      <4> QED BY <4>1, <4>3, <3>0, <1>6, <1>10
    <3>2. CASE d = old(count)
      <4>1. CASE count <= last
        <5>1. count = last /\ last \in 1 .. last
          BY <4>1, <1>1, <1>3, <1>8, <1>10
        <5>2. d = LastOccupied(sz) /\ sz > 0
          <6>1. sz # 0
            BY <5>1, <1>1, <1>3, Counting
          <6> QED BY <6>1, <5>1, <3>2, <1>1, <1>3
        <5>3. sz = BLOCK_SIZE * (count - 1) + d /\ d \in Nat
          <6>1. sz \in Nat /\ BlockCount(sz) = count
            BY <5>1, <1>1, <1>3
          <6>2. /\ sz = BLOCK_SIZE * (BlockCount(sz) - 1) + LastOccupied(sz)
                /\ LastOccupied(sz) \in 1 .. BLOCK_SIZE
            BY <6>1, <5>2, Counting
          <6>3. LastOccupied(sz) \in Nat
            BY <6>2, <1>1
          <6> QED BY <6>1, <6>2, <6>3, <5>2
        <5> QED BY <5>3, <3>0, <1>1, <1>6, <1>10
      <4>2. CASE ~ (count <= last)
        BY <4>2, <3>0, <3>2
      <4> QED BY <4>1, <4>2
    <3> HIDE DEF old
    <3> QED BY <3>1, <3>2
  <2>3. count \in 1 .. count
    BY <1>1, <1>10
  <2> HIDE DEF ends
  <2>4. o[count] <= LastOccupied(new) /\ LastOccupied(new) <= o[count] /\ o[count] \in Nat
    BY <2>1, <2>2, <2>3, <1>1, <1>4, <1>5
  <2>5. LastOccupied(new) \in Nat
    BY <1>1, <1>6, Counting, SMTT(40)
  <2> QED BY <2>4, <2>5
<1> QED BY <1>9, <1>11, <1>12 DEF count

(* The file f has what its size says in its blocks.                          *)
FileExact(f) ==
    /\ Len(occupied[f]) = BlockCount(size[f])
    /\ \A b \in 1 .. Len(occupied[f]) :
         occupied[f][b] = IF b = Len(occupied[f]) THEN LastOccupied(size[f]) ELSE BLOCK_SIZE

Bounded == \A f \in Files : size[f] <= MAX_FILE_SIZE

Exact == Table /\ Contents /\ ChainMatchesSize /\ Bounded

(* A chain that is replaced for one that is exact.                           *)
LEMMA StaysExact ==
  ASSUME Exact, NEW f \in Files, NEW o, NEW s \in Nat,
         occupied' = [occupied EXCEPT ![f] = o], size' = [size EXCEPT ![f] = s],
         Len(o) = BlockCount(s), s <= MAX_FILE_SIZE,
         \A b \in 1 .. Len(o) : o[b] = IF b = Len(o) THEN LastOccupied(s) ELSE BLOCK_SIZE,
         \A j \in Slots : dfile'[j] # None => /\ dfile'[j] \in Files
                                              /\ offset'[j] <= size'[dfile'[j]]
  PROVE  ChainMatchesSize' /\ Bounded'
<1>1. /\ size'[f] = s /\ occupied'[f] = o
      /\ \A g \in Files : g # f => size'[g] = size[g] /\ occupied'[g] = occupied[g]
  BY DEF Exact, Contents
<1>2. Bounded'
  BY <1>1 DEF Exact, Bounded
<1>3. ASSUME NEW g \in Files
      PROVE  /\ Len(occupied'[g]) = BlockCount(size'[g])
             /\ \A b \in 1 .. Len(occupied'[g]) :
                  occupied'[g][b] = IF b = Len(occupied'[g]) THEN LastOccupied(size'[g]) ELSE BLOCK_SIZE
  <2>1. CASE g = f
    BY <2>1, <1>1
  <2>2. CASE g # f
    BY <2>2, <1>1 DEF Exact, ChainMatchesSize
  <2> QED BY <2>1, <2>2
<1> QED BY <1>2, <1>3 DEF ChainMatchesSize, BlockCount, LastOccupied

(* A call that leaves the files alone.                                       *)
LEMMA SameExact ==
  ASSUME Exact, UNCHANGED <<size, occupied>>,
         \A j \in Slots : dfile'[j] # None => /\ dfile'[j] \in Files
                                              /\ offset'[j] <= size[dfile'[j]]
  PROVE  ChainMatchesSize' /\ Bounded'
BY DEF Exact, ChainMatchesSize, Bounded, BlockCount, LastOccupied

(* Opening, closing and deleting leave every size and chain in step.         *)
LEMMA SettledExact ==
  ASSUME Exact, NEW f \in Files, Settled(f)
  PROVE  ChainMatchesSize' /\ Bounded'
<1>1. size \in [Files -> Nat] /\ dfile \in [Slots -> Files \cup {None}]
  BY DEF Exact, Contents, Table, TableType
<1>2. CASE UNCHANGED <<size, memory, occupied>>
  <2>1. ASSUME NEW j \in Slots, dfile'[j] # None
        PROVE  dfile'[j] \in Files /\ offset'[j] <= size[dfile'[j]]
    <3>1. CASE offset'[j] = 0 /\ dfile'[j] \in Files
      BY <3>1, <1>1
    <3>2. CASE dfile'[j] = dfile[j] /\ offset'[j] = offset[j]
      BY <2>1, <3>2, <1>1 DEF Exact, ChainMatchesSize
    <3> QED BY <2>1, <3>1, <3>2 DEF Settled
  <2> QED BY <1>2, <2>1, SameExact
<1>3. CASE Emptied(f)
  <2>1. /\ size' = [size EXCEPT ![f] = 0] /\ occupied' = [occupied EXCEPT ![f] = <<>>]
        /\ Len(<<>>) = BlockCount(0) /\ Len(<<>>) = 0
    BY <1>3, Zeros DEF Emptied
  <2>2. ASSUME NEW j \in Slots, dfile'[j] # None
        PROVE  dfile'[j] \in Files /\ offset'[j] <= size'[dfile'[j]]
    <3>1. CASE offset'[j] = 0 /\ dfile'[j] \in Files
      BY <3>1, <2>1, <1>1
    <3>2. CASE /\ dfile'[j] = dfile[j] /\ offset'[j] = offset[j]
               /\ UNCHANGED <<size, memory, occupied>> \/ dfile[j] # f
      <4>1. size'[dfile[j]] = size[dfile[j]] /\ dfile[j] \in Files
        BY <2>1, <2>2, <3>2, <1>1
      <4> QED BY <2>2, <3>2, <4>1 DEF Exact, ChainMatchesSize
    <3> QED BY <2>2, <3>1, <3>2 DEF Settled
  <2>3. \A b \in 1 .. Len(<<>>) : <<>>[b] = IF b = Len(<<>>) THEN LastOccupied(0) ELSE BLOCK_SIZE
    BY <2>1
  <2>4. 0 <= MAX_FILE_SIZE
    BY ConstantsAssumption
  <2> QED BY <2>1, <2>2, <2>3, <2>4, StaysExact
<1> QED BY <1>2, <1>3 DEF Settled

(* So does a write into a block that is not full.                            *)
LEMMA WriteExact ==
  ASSUME Exact, ~ Overwriting, NEW fd \in Descriptors, NEW data \in Buffers, Write(fd, data)
  PROVE  ChainMatchesSize' /\ Bounded'
<1>1. PICK i \in Slots, f \in Files, n \in Nat \ {0}, m \in Seq(Block), o \in Seq(1 .. BLOCK_SIZE) :
        Writes(i, f, n, m, o)
  BY WriteEffect DEF Exact
<1>2. /\ size \in [Files -> Nat] /\ offset \in [Slots -> Nat] /\ dfile \in [Slots -> Files \cup {None}]
      /\ MAX_FILE_SIZE \in Nat
  BY ConstantsAssumption DEF Exact, Contents, Table, TableType
<1>3. PICK new \in Nat : new = Greater(size[f], offset[i] + n)
  BY <1>2 DEF Greater
<1>4. size[f] <= new /\ offset[i] + n <= new /\ (new = size[f] \/ new = offset[i] + n)
  BY <1>2, <1>3 DEF Greater
<1>5. /\ dfile[i] = f /\ occupied' = [occupied EXCEPT ![f] = o] /\ size' = [size EXCEPT ![f] = new]
      /\ offset' = [offset EXCEPT ![i] = offset[i] + n] /\ dfile' = dfile
      /\ ~ (size[f] + n > MAX_FILE_SIZE)
  BY <1>1, <1>3 DEF Writes, TooBig
<1>6. /\ Len(o) = BlockCount(new)
      /\ \A b \in 1 .. Len(o) : o[b] = IF b = Len(o) THEN LastOccupied(new) ELSE BLOCK_SIZE
  BY <1>1, <1>3, WriteFills DEF Exact
<1>7. new <= MAX_FILE_SIZE
  <2>1. offset[i] <= size[f]
    BY <1>5, ConstantsAssumption DEF Exact, ChainMatchesSize
  <2> QED BY <2>1, <1>2, <1>4, <1>5
<1>8. ASSUME NEW j \in Slots, dfile'[j] # None
      PROVE  dfile'[j] \in Files /\ offset'[j] <= size'[dfile'[j]]
  <2>1. dfile'[j] = dfile[j] /\ dfile[j] \in Files /\ offset[j] <= size[dfile[j]]
    BY <1>8, <1>2, <1>5 DEF Exact, ChainMatchesSize
  <2>2. size[dfile[j]] <= size'[dfile[j]] /\ size'[dfile[j]] \in Nat /\ size'[f] = new
    <3>1. CASE dfile[j] = f
      BY <3>1, <1>2, <1>4, <1>5
    <3>2. CASE dfile[j] # f
      BY <3>2, <2>1, <1>2, <1>5
    <3> QED BY <3>1, <3>2, <1>2, <1>5
  <2>3. CASE j = i
    BY <2>1, <2>2, <2>3, <1>2, <1>4, <1>5
  <2>4. CASE j # i
    <3>1. offset'[j] = offset[j] /\ offset[j] \in Nat /\ size[dfile[j]] \in Nat
      BY <2>1, <2>4, <1>2, <1>5
    <3> QED BY <3>1, <2>1, <2>2
  <2> QED BY <2>3, <2>4
<1> QED BY <1>5, <1>6, <1>7, <1>8, StaysExact

(* The bytes b are those of the file f from start on.                        *)
BytesFrom(f, start, b) ==
    \A j \in 1 .. Len(b) : b[j] = Flat(memory[f], size[f])[start + j]

(* Lines 316-347: a reader stops at the end of the file or when its buffer   *)
(* is full, and what it has got are the bytes from where it stood on.        *)
LEMMA ReadStops ==
  ASSUME Contents, NEW f \in Files, FileExact(f),
         NEW n \in Nat, NEW first \in Nat \ {0}, NEW start \in Nat,
         start \div BLOCK_SIZE + 1 = first, first <= Len(occupied[f]), start <= size[f],
         NEW g, g = ReadFrom(f, first, start, n)
  PROVE  /\ Len(g) \in Nat /\ Len(g) <= n /\ start + Len(g) <= size[f]
         /\ (n <= Len(g) \/ size[f] <= start + Len(g))
         /\ BytesFrom(f, start, g)
<1> DEFINE last == Len(occupied[f])
           sz == size[f]
           flat == Flat(memory[f], sz)
           Right(b) == \A j \in 1 .. Len(b) : b[j] = flat[start + j]
           I == {s \in Reader(n) : /\ s.pos = start + Len(s.bytes) /\ s.pos <= sz
                                   /\ \/ Len(s.bytes) = n \/ (s.block > last /\ s.pos = sz)
                                      \/ s.pos \div BLOCK_SIZE + 1 = s.block
                                   /\ Right(s.bytes)}
<1>1. /\ BLOCK_SIZE \in Nat /\ BLOCK_SIZE > 0 /\ last \in Nat /\ sz \in Nat /\ last = BlockCount(sz)
      /\ \A b \in 1 .. last : occupied[f][b] = IF b = last THEN LastOccupied(sz) ELSE BLOCK_SIZE
  BY ConstantsAssumption, LenProperties DEF Contents, FileExact
<1>9. \A k \in 1 .. sz : flat[k] = memory[f][BlockCount(k)][LastOccupied(k)]
  <2>1. memory[f] \in Seq(Block) /\ BlockCount(sz) <= Len(memory[f])
    BY <1>1 DEF Contents
  <2> HIDE DEF sz
  <2> QED BY <2>1, <1>1, FlatBytes
<1> HIDE DEF last, sz, flat
<1>2. [block |-> first, pos |-> start, bytes |-> <<>>] \in I
  <2>1. Len(<<>>) = 0 /\ <<>> \in Seq(AnyByte)
    BY EmptySeq
  <2>2. [block |-> first, pos |-> start, bytes |-> <<>>] \in Reader(n)
    BY <2>1 DEF Reader
  <2>3. start <= sz
    BY DEF sz
  <2>4. Right(<<>>)
    BY <2>1
  <2> HIDE DEF Right
  <2> QED BY <2>1, <2>2, <2>3, <2>4
<1> HIDE DEF Right
<1>3. \A s \in I : /\ s \in Reader(n) /\ s.pos = start + Len(s.bytes) /\ s.pos <= sz
                    /\ \/ Len(s.bytes) = n \/ (s.block > last /\ s.pos = sz)
                       \/ s.pos \div BLOCK_SIZE + 1 = s.block
                    /\ Right(s.bytes)
  OBVIOUS
<1>4. \A s \in Reader(n) : s.pos = start + Len(s.bytes) /\ s.pos <= sz /\ Right(s.bytes)
                          /\ \/ Len(s.bytes) = n \/ (s.block > last /\ s.pos = sz)
                             \/ s.pos \div BLOCK_SIZE + 1 = s.block
        => s \in I
  OBVIOUS
<1> HIDE DEF I
<1>5. ASSUME NEW s \in I PROVE Turn(f, n, s) \in I
  <2>1. /\ s \in Reader(n) /\ s.block \in Nat \ {0} /\ s.pos \in Nat /\ Len(s.bytes) \in Nat
        /\ s.pos = start + Len(s.bytes) /\ s.pos <= sz
        /\ Len(s.bytes) = n \/ (s.block > last /\ s.pos = sz) \/ s.pos \div BLOCK_SIZE + 1 = s.block
        /\ Right(s.bytes)
    BY <1>3, LenProperties DEF Reader
  <2>2. CASE Turn(f, n, s) = s
    BY <2>2
  <2>3. ASSUME s.block <= last, Len(s.bytes) # n,
               NEW k \in 1 .. BLOCK_SIZE, NEW t \in Reader(n), t = Turn(f, n, s),
               t.block = s.block + 1, t.pos = s.pos + k, Len(t.bytes) = Len(s.bytes) + k,
               t.bytes = s.bytes \o Piece(f, s, k),
               (s.pos % BLOCK_SIZE) + k <= occupied[f][s.block],
               (s.pos % BLOCK_SIZE) + k = occupied[f][s.block] \/ Len(t.bytes) = n
        PROVE  t \in I
    <3>3. s.block \in 1 .. last
      <4>1. s.block \in Nat /\ s.block >= 1 /\ s.block <= last
        BY <2>1, <2>3
      <4> QED BY <4>1, <1>1
    <3> DEFINE d == s.pos \div BLOCK_SIZE
               w == s.pos % BLOCK_SIZE
               occ == occupied[f][s.block]
               end == BLOCK_SIZE * d
    <3>1. d \in Nat /\ w \in 0 .. BLOCK_SIZE - 1 /\ s.pos = end + w /\ end \in Nat
      BY <2>1, Division, Blocks
    <3>2. d + 1 = s.block /\ k \in Nat
      <4>1. d + 1 = s.block
        <5>1. ~ (s.block > last)
          BY <3>3, <1>1
        <5>2. s.pos \div BLOCK_SIZE + 1 = s.block
          BY <5>1, <2>1, <2>3, Zenon
        <5> QED BY <5>2
      <4>2. k \in Nat
        BY <1>1
      <4> QED BY <4>1, <4>2
    <3>4. occ = IF s.block = last THEN LastOccupied(sz) ELSE BLOCK_SIZE
      BY <3>3, <1>1
    <3>5. w + k <= occ /\ (w + k = occ \/ Len(t.bytes) = n)
      BY <2>3
    <3>6. sz > 0 /\ sz = BLOCK_SIZE * (last - 1) + LastOccupied(sz) /\ LastOccupied(sz) \in 1 .. BLOCK_SIZE
      <4>1. sz # 0
        <5>1. last # 0 /\ last = BlockCount(sz)
          BY <3>3, <1>1
        <5>2. BlockCount(sz) = 0 <=> sz = 0
          BY <1>1, Counting
        <5> QED BY <5>1, <5>2
      <4>2. sz > 0 /\ LastOccupied(sz) \in 1 .. BLOCK_SIZE
        BY <4>1, <1>1, Counting
      <4>3. sz = BLOCK_SIZE * (BlockCount(sz) - 1) + LastOccupied(sz)
        BY <4>2, <1>1, Counting
      <4> QED BY <4>2, <4>3, <1>1
    <3>7. BLOCK_SIZE * (d + 1) = end + BLOCK_SIZE
      BY <3>1, Blocks
    <3>11. t.bytes = s.bytes \o SubSeq(memory[f][s.block], w + 1, w + k)
      BY <2>3 DEF Piece
    <3> HIDE DEF d, w, occ, end
    <3>8. t.pos = end + (w + k) /\ t.pos \in Nat /\ w + k \in Nat /\ t.pos = start + Len(t.bytes)
      <4>1. t.pos = s.pos + k /\ s.pos = end + w /\ w \in Nat
        BY <2>3, <3>1, <1>1
      <4>2. t.pos = end + (w + k) /\ t.pos \in Nat /\ w + k \in Nat
        BY <4>1, <3>1, <3>2
      <4>3. t.pos = start + Len(t.bytes)
        BY <2>1, <2>3, <3>2
      <4> QED BY <4>2, <4>3
    <3>12. ASSUME t.pos <= sz PROVE Right(t.bytes)
      <4> DEFINE new == SubSeq(memory[f][s.block], w + 1, w + k)
                 had == Len(s.bytes)
                 old == s.bytes
                 block == memory[f][s.block]
      <4>1. /\ w \in Nat /\ w + k \in Nat /\ w + k <= BLOCK_SIZE /\ k \in Nat \ {0} /\ had \in Nat
        <5>1. had \in Nat
          BY <2>1
        <5>2. k \in Nat \ {0}
          BY <1>1
        <5>3. occ \in 1 .. BLOCK_SIZE
          BY <3>4, <3>6, <1>1
        <5> HIDE DEF had
        <5> QED BY <5>1, <5>2, <5>3, <3>1, <3>5, <1>1, SMTT(40)
      <4>2. block \in Block
        <5>1. s.block \in 1 .. Len(memory[f]) /\ memory[f] \in Seq(Block)
          BY <3>3 DEF Contents, last
        <5> QED BY <5>1, ElementOfSeq
      <4>9. old \in Seq(AnyByte) /\ t.bytes = old \o new /\ Len(old) = had
        BY <2>1, <3>11 DEF Reader
      <4>10. Right(old)
        BY <2>1
      <4> HIDE DEF block, had, old
      <4>3. \A j \in w + 1 .. w + k : block[j] \in AnyByte
        <5> SUFFICES ASSUME NEW j \in w + 1 .. w + k PROVE block[j] \in AnyByte
          OBVIOUS
        <5>1. j \in 1 .. BLOCK_SIZE
          BY <4>1, <1>1
        <5> QED BY <4>2, <5>1 DEF Block
      <4>4. /\ new \in Seq(AnyByte) /\ Len(new) = k
            /\ \A j \in 1 .. k : new[j] = block[w + j]
        <5>1. w + 1 \in Int /\ w + k \in Int
          BY <4>1
        <5>5. new = SubSeq(block, w + 1, w + k)
          BY DEF block
        <5>2. /\ new \in Seq(AnyByte)
              /\ Len(new) = IF w + 1 <= w + k THEN (w + k) - (w + 1) + 1 ELSE 0
              /\ \A j \in 1 .. (w + k) - (w + 1) + 1 : new[j] = block[(w + 1) + j - 1]
          <6> HIDE DEF new
          <6> QED BY <4>3, <5>1, <5>5, SubSeqProperties
        <5> HIDE DEF new
        <5>3. \A j \in 1 .. k : (w + 1) + j - 1 = w + j
          BY <4>1
        <5>4. (w + k) - (w + 1) + 1 = k /\ w + 1 <= w + k
          BY <4>1
        <5> QED BY <5>2, <5>3, <5>4
      <4> HIDE DEF new
      <4>6. /\ Len(t.bytes) = had + k
            /\ \A j \in 1 .. had + k : t.bytes[j] = IF j <= had THEN old[j] ELSE new[j - had]
        <5>1. \A j \in 1 .. Len(old) + Len(new) :
                (old \o new)[j] = IF j <= Len(old) THEN old[j] ELSE new[j - Len(old)]
          <6>1. old \in Seq(AnyByte) /\ new \in Seq(AnyByte)
            BY <4>4, <4>9
          <6> QED BY <6>1, ConcatProperties, Zenon
        <5>2. Len(old \o new) = Len(old) + Len(new)
          <6>1. old \in Seq(AnyByte) /\ new \in Seq(AnyByte)
            BY <4>4, <4>9
          <6> QED BY <6>1, ConcatProperties, Zenon
        <5> QED BY <5>1, <5>2, <4>4, <4>9
      <4>7. \A e \in 1 .. k : flat[end + (w + e)] = block[w + e]
        <5> SUFFICES ASSUME NEW e \in 1 .. k PROVE flat[end + (w + e)] = block[w + e]
          OBVIOUS
        <5>1. w + e \in 1 .. BLOCK_SIZE /\ end + (w + e) <= end + (w + k)
          BY <4>1, <3>1, <1>1
        <5>2. /\ end + (w + e) \in Nat \ {0} /\ BlockCount(end + (w + e)) = s.block
              /\ LastOccupied(end + (w + e)) = w + e
          BY <5>1, <3>1, <3>2, Placing DEF end
        <5>3. end + (w + e) \in 1 .. sz
          BY <5>1, <5>2, <3>8, <3>12, <1>1
        <5> QED BY <5>2, <5>3, <1>9 DEF block
      <4>8. ASSUME NEW j \in 1 .. had + k PROVE t.bytes[j] = flat[start + j]
        <5>1. CASE j <= had
          <6>1. j \in 1 .. had
            BY <5>1, <4>1
          <6>2. old[j] = flat[start + j]
            BY <6>1, <4>9, <4>10 DEF Right
          <6> QED BY <6>2, <5>1, <4>6
        <5>2. CASE ~ (j <= had)
          <6>1. j - had \in 1 .. k
            BY <5>2, <4>1
          <6>2. start + j = end + (w + (j - had))
            <7>1. s.pos = start + had /\ s.pos = end + w
              BY <2>1, <3>1 DEF had
            <7> HIDE DEF had
            <7> QED BY <7>1, <4>1, <3>1
          <6>3. t.bytes[j] = block[w + (j - had)]
            BY <6>1, <5>2, <4>4, <4>6
          <6>4. flat[end + (w + (j - had))] = block[w + (j - had)]
            BY <6>1, <4>7
          <6> QED BY <6>2, <6>3, <6>4
        <5> QED BY <5>1, <5>2
      <4> QED BY <4>6, <4>8 DEF Right
    <3>9. CASE s.block = last
      <4>1. last - 1 = d /\ BLOCK_SIZE * (last - 1) = end
        BY <3>1, <3>2, <3>9 DEF end
      <4>2. t.pos <= sz
        BY <4>1, <3>1, <3>4, <3>5, <3>6, <3>8, <3>9
      <4>3. t.block > last
        BY <2>1, <2>3, <3>9, <1>1
      <4>4. w + k = occ => t.pos = sz
        BY <4>1, <3>1, <3>4, <3>6, <3>8, <3>9
      <4>5. Right(t.bytes)
        BY <4>2, <3>12
      <4>6. Len(t.bytes) = n \/ (t.block > last /\ t.pos = sz)
        BY <4>3, <4>4, <3>5
      <4>7. /\ t.pos = start + Len(t.bytes) /\ t.pos <= sz /\ Right(t.bytes)
            /\ \/ Len(t.bytes) = n \/ (t.block > last /\ t.pos = sz)
               \/ t.pos \div BLOCK_SIZE + 1 = t.block
        BY <4>2, <4>5, <4>6, <3>8, Zenon
      <4> QED BY <4>7, <1>4, Zenon
    <3>10. CASE s.block # last
      <4>1. d + 1 <= last - 1 /\ last - 1 \in Nat /\ d + 1 \in Nat
        BY <3>1, <3>2, <3>3, <3>10, <1>1, SMTT(40)
      <4>2. BLOCK_SIZE * (d + 1) <= BLOCK_SIZE * (last - 1) /\ BLOCK_SIZE * (last - 1) \in Nat
        BY <4>1, Blocks
      <4>3. occ = BLOCK_SIZE
        BY <3>4, <3>10
      <4>4. t.pos <= sz
        BY <4>2, <4>3, <3>1, <3>5, <3>6, <3>7, <3>8, <1>1, SMTT(40)
      <4>5. ASSUME w + k = occ PROVE t.pos \div BLOCK_SIZE + 1 = t.block
        <5>1. t.pos = BLOCK_SIZE * (d + 1)
          BY <4>3, <4>5, <3>7, <3>8
        <5>2. BLOCK_SIZE * ((d + 1) + 1) = BLOCK_SIZE * (d + 1) + BLOCK_SIZE
          BY <4>1, Blocks
        <5>3. t.pos < BLOCK_SIZE * ((d + 1) + 1) /\ BLOCK_SIZE * (d + 1) <= t.pos
          BY <5>1, <5>2, <3>8, <1>1, SMTT(40)
        <5>4. (d + 1) + 1 \in Nat
          BY <4>1
        <5>5. t.pos \div BLOCK_SIZE < (d + 1) + 1 /\ d + 1 <= t.pos \div BLOCK_SIZE
          BY <5>3, <5>4, <4>1, <3>8, Quotient
        <5>6. t.pos \div BLOCK_SIZE \in Nat
          BY <3>8, Division
        <5> DEFINE e == t.pos \div BLOCK_SIZE
        <5>7. e \in Nat /\ e < (d + 1) + 1 /\ d + 1 <= e
          BY <5>5, <5>6
        <5> HIDE DEF e
        <5>8. e + 1 = t.block
          BY <5>7, <4>1, <2>1, <2>3, <3>2
        <5> QED BY <5>8 DEF e
      <4>6. Right(t.bytes)
        BY <4>4, <3>12
      <4>7. /\ t.pos = start + Len(t.bytes) /\ t.pos <= sz /\ Right(t.bytes)
            /\ \/ Len(t.bytes) = n \/ (t.block > last /\ t.pos = sz)
               \/ t.pos \div BLOCK_SIZE + 1 = t.block
        BY <4>4, <4>5, <4>6, <3>5, <3>8, Zenon
      <4> QED BY <4>7, <1>4, Zenon
    <3> QED BY <3>9, <3>10
  <2>4. CASE Turn(f, n, s) # s
    <3>1. PICK k \in 1 .. BLOCK_SIZE, t \in Reader(n) :
            /\ s.block <= Len(occupied[f]) /\ Len(s.bytes) # n
            /\ t = Turn(f, n, s) /\ Advances(f, n, s, k, t)
      <4>1. s \in Reader(n)
        BY <2>1
      <4> QED BY <4>1, <2>4, TurnCopies
    <3>2. s.block <= last
      BY <3>1 DEF last
    <3> QED BY <3>1, <3>2, <2>3, Zenon DEF Advances
  <2> QED BY <2>2, <2>4
<1>6. I \subseteq Reader(n)
  BY <1>3
<1>7. PICK s \in I : g = s.bytes /\ (Len(s.bytes) = n \/ Turn(f, n, s) = s)
  <2>1. \E s \in I : ReadFrom(f, first, start, n) = s.bytes /\ (Len(s.bytes) = n \/ Turn(f, n, s) = s)
    BY <1>2, <1>5, <1>6, ReadLoop
  <2> QED BY <2>1
<1>10. /\ s \in Reader(n) /\ s.pos = start + Len(s.bytes) /\ s.pos <= sz /\ Right(s.bytes)
       /\ s.block \in Nat \ {0} /\ s.pos \in Nat /\ Len(s.bytes) \in Nat /\ Len(s.bytes) <= n
       /\ \/ Len(s.bytes) = n \/ (s.block > last /\ s.pos = sz)
          \/ s.pos \div BLOCK_SIZE + 1 = s.block
  BY <1>3, LenProperties DEF Reader
<1>8. Len(s.bytes) = n \/ s.pos = sz
  <2> SUFFICES ASSUME Len(s.bytes) # n, s.pos # sz PROVE FALSE
    OBVIOUS
  <2> DEFINE d == s.pos \div BLOCK_SIZE
             w == s.pos % BLOCK_SIZE
             occ == occupied[f][s.block]
  <2>1. Turn(f, n, s) = s /\ d + 1 = s.block
    BY <1>7, <1>10
  <2>2. d \in Nat /\ w \in 0 .. BLOCK_SIZE - 1 /\ s.pos = BLOCK_SIZE * d + w /\ BLOCK_SIZE * d \in Nat
    BY <1>10, Division, Blocks
  <2>3. s.block \in 1 .. last
    <3>1. s.pos < sz
      <4> DEFINE pos == s.pos
      <4>1. pos \in Nat /\ pos <= sz /\ pos # sz
        BY <1>10
      <4> HIDE DEF pos, d, w, occ
      <4>2. pos < sz
        BY <4>1, <1>1
      <4> QED BY <4>2 DEF pos
    <3>2. ~ (last <= d)
      <4>1. last <= d => sz <= BLOCK_SIZE * d
        <5>1. d \in Nat
          BY <2>2
        <5> HIDE DEF d
        <5>2. BlockCount(sz) <= d <=> sz <= BLOCK_SIZE * d
          BY <5>1, <1>1, Counting
        <5> QED BY <5>2, <1>1
      <4> HIDE DEF d, w
      <4> QED BY <4>1, <3>1, <2>2, <1>1, <1>10
    <3>3. d \in Nat /\ d + 1 = s.block /\ last \in Nat
      BY <2>1, <2>2, <1>1
    <3> HIDE DEF d
    <3> QED BY <3>2, <3>3
  <2>4. w >= occ
    <3>1. ASSUME ~ (w >= occ) PROVE FALSE
      <4>1. ~ (s.block > Len(occupied[f]) \/ Len(s.bytes) = n)
        BY <2>3, <1>1 DEF last
      <4>2. Turn(f, n, s) = Copied(f, n, s)
        BY <3>1, <4>1 DEF Turn
      <4>3. Copied(f, n, s).block = s.block + 1
        BY SMTT(40) DEF Copied
      <4>4. s.block + 1 = s.block
        BY <2>1, <4>2, <4>3
      <4> QED BY <4>4, <1>10
    <3> QED BY <3>1
  <2>5. occ = IF s.block = last THEN LastOccupied(sz) ELSE BLOCK_SIZE
    BY <2>3, <1>1
  <2> HIDE DEF d, w, occ
  <2>6. s.block = last
    BY <2>2, <2>4, <2>5, <1>1
  <2>7. sz > 0 /\ sz = BLOCK_SIZE * (last - 1) + LastOccupied(sz) /\ LastOccupied(sz) \in 1 .. BLOCK_SIZE
    <3>1. sz # 0
      BY <1>1, <1>10
    <3>2. sz > 0 /\ LastOccupied(sz) \in 1 .. BLOCK_SIZE
      BY <3>1, <1>1, Counting
    <3>3. sz = BLOCK_SIZE * (BlockCount(sz) - 1) + LastOccupied(sz)
      BY <3>2, <1>1, Counting
    <3> QED BY <3>2, <3>3, <1>1
  <2>8. last - 1 = d
    BY <2>1, <2>2, <2>6, <1>1
  <2>9. BLOCK_SIZE * (last - 1) = BLOCK_SIZE * d /\ occ = LastOccupied(sz)
    BY <2>5, <2>6, <2>8
  <2>10. s.pos <= sz
    BY <1>10
  <2>11. sz = BLOCK_SIZE * d + occ
    BY <2>7, <2>9
  <2> DEFINE end == BLOCK_SIZE * d
             pos == s.pos
  <2>12. /\ end \in Nat /\ w \in Nat /\ occ \in Nat /\ pos = end + w /\ sz = end + occ
         /\ pos <= sz /\ pos # sz /\ w >= occ
    BY <2>2, <2>4, <2>7, <2>9, <2>10, <2>11, <1>1
  <2> HIDE DEF end, pos
  <2> QED BY <2>12
<1>12. BytesFrom(f, start, g)
  <2>1. flat = Flat(memory[f], size[f]) /\ \A j \in 1 .. Len(g) : g[j] = flat[start + j]
    BY <1>7, <1>10 DEF sz, flat, Right
  <2> QED BY <2>1 DEF BytesFrom
<1> QED BY <1>7, <1>8, <1>10, <1>12 DEF sz

(* So does a read: it goes no further than the size of the file.             *)
LEMMA ReadExact ==
  ASSUME Exact, NEW fd \in Descriptors, NEW n \in 0 .. MaxRequest, Read(fd, n)
  PROVE  ChainMatchesSize' /\ Bounded'
<1>1. PICK i \in Slots, f \in Files, g \in Seq(AnyByte) :
        /\ dfile[i] = f /\ Len(g) \in Nat
        /\ offset' = [offset EXCEPT ![i] = offset[i] + Len(g)]
        /\ \/ g = <<>>
           \/ /\ Current(i) <= Len(occupied[f])
              /\ g = ReadFrom(f, Current(i), offset[i], n)
        /\ UNCHANGED <<fileVars, dfile>>
  BY ReadEffect DEF Exact
<1>2. /\ offset \in [Slots -> Nat] /\ f # None
      /\ dfile \in [Slots -> Files \cup {None}]
  BY ConstantsAssumption DEF Exact, Contents, Table, TableType
<1>3. offset[i] <= size[f]
  BY <1>1, <1>2 DEF Exact, ChainMatchesSize
<1>4. offset[i] + Len(g) <= size[f]
  <2>1. CASE g = <<>>
    <3>1. offset[i] + Len(g) = offset[i]
      BY <2>1, <1>2
    <3> QED BY <3>1, <1>3
  <2>2. CASE Current(i) <= Len(occupied[f]) /\ g = ReadFrom(f, Current(i), offset[i], n)
    <3>1. offset[i] \in Nat /\ offset[i] \div BLOCK_SIZE \in Nat /\ n \in Nat
      <4>1. offset[i] \in Nat
        BY <1>2
      <4>2. n \in Nat
        BY ConstantsAssumption
      <4>3. offset[i] \div BLOCK_SIZE \in Nat
        BY <4>1, Division, ConstantsAssumption
      <4> QED BY <4>1, <4>2, <4>3
    <3>2. offset[i] \div BLOCK_SIZE + 1 = Current(i)
      BY DEF Current
    <3>3. Current(i) \in Nat \ {0}
      BY <3>1, <3>2
    <3>4. FileExact(f) /\ Contents
      BY DEF Exact, ChainMatchesSize, FileExact
    <3> QED BY <2>2, <3>1, <3>2, <3>3, <3>4, <1>3, ReadStops
  <2> QED BY <1>1, <2>1, <2>2
<1>5. ASSUME NEW j \in Slots, dfile'[j] # None
      PROVE  dfile'[j] \in Files /\ offset'[j] <= size[dfile'[j]]
  <2>1. dfile'[j] = dfile[j] /\ dfile[j] \in Files
    BY <1>1, <1>2, <1>5
  <2>2. CASE j = i
    BY <2>1, <2>2, <1>1, <1>2, <1>4
  <2>3. CASE j # i
    BY <2>1, <2>3, <1>1, <1>2, <1>5 DEF Exact, ChainMatchesSize
  <2> QED BY <2>2, <2>3
<1>6. UNCHANGED <<size, occupied>>
  BY <1>1 DEF fileVars
<1> QED BY <1>5, <1>6, SameExact

(* So does ufs_resize, which counts blocks by the old size and the new.      *)
LEMMA ResizeExact ==
  ASSUME Exact, NEW fd \in Descriptors, NEW new \in Nat, Shrink(fd, new) \/ Grow(fd, new)
  PROVE  ChainMatchesSize' /\ Bounded'
<1>1. /\ size \in [Files -> Nat] /\ offset \in [Slots -> Nat] /\ dfile \in [Slots -> Files \cup {None}]
      /\ MAX_FILE_SIZE \in Nat
      /\ \A g \in Files : /\ Len(occupied[g]) \in Nat /\ BlockCount(size[g]) \in Nat
                          /\ FileExact(g) /\ size[g] <= MAX_FILE_SIZE
      /\ BlockCount(new) \in Nat /\ (BlockCount(new) = 0 <=> new = 0)
  BY LenProperties, Counting, ConstantsAssumption
     DEF Exact, Contents, Table, TableType, ChainMatchesSize, FileExact, Bounded
<1>2. CASE Shrink(fd, new)
  <2>1. PICK f \in Files, kept \in Nat, m \in Seq(Block), o \in Seq(1 .. BLOCK_SIZE) :
          /\ new < size[f] /\ kept <= Len(occupied[f])
          /\ kept = Len(occupied[f]) - (BlockCount(size[f]) - BlockCount(new))
          /\ Len(o) = kept
          /\ \A b \in 1 .. kept : o[b] = IF b = kept THEN LastOccupied(new) ELSE occupied[f][b]
          /\ occupied' = [occupied EXCEPT ![f] = o]
          /\ size' = [size EXCEPT ![f] = IF kept = 0 THEN 0 ELSE new]
          /\ offset' = Clamped(f, new) /\ UNCHANGED dfile
    BY <1>2, ShrinkEffect DEF Exact
  <2>2. kept = BlockCount(new)
    BY <1>1, <2>1 DEF FileExact
  <2>3. size' = [size EXCEPT ![f] = new]
    <3>1. (IF kept = 0 THEN 0 ELSE new) = new
      BY <2>2, <1>1
    <3> QED BY <3>1, <2>1
  <2>4. new <= MAX_FILE_SIZE
    BY <2>1, <1>1
  <2>5. \A b \in 1 .. Len(o) : o[b] = IF b = Len(o) THEN LastOccupied(new) ELSE BLOCK_SIZE
    <3> SUFFICES ASSUME NEW b \in 1 .. kept, b # kept PROVE occupied[f][b] = BLOCK_SIZE
      BY <2>1
    <3>1. b \in 1 .. Len(occupied[f]) /\ b # Len(occupied[f])
      BY <2>1, <1>1
    <3> QED BY <3>1, <1>1 DEF FileExact
  <2>6. ASSUME NEW j \in Slots, dfile'[j] # None
        PROVE  dfile'[j] \in Files /\ offset'[j] <= size'[dfile'[j]]
    <3>1. dfile'[j] = dfile[j] /\ dfile[j] \in Files /\ offset[j] <= size[dfile[j]]
      BY <2>1, <2>6, <1>1 DEF Exact, ChainMatchesSize
    <3>2. CASE dfile[j] = f
      <4>1. offset'[j] = Lesser(offset[j], new) /\ size'[f] = new
        BY <2>1, <2>3, <3>2, <1>1 DEF Clamped
      <4>2. offset'[j] <= new
        BY <4>1, <1>1 DEF Lesser
      <4> QED BY <4>1, <4>2, <3>1, <3>2
    <3>3. CASE dfile[j] # f
      <4>1. offset'[j] = offset[j] /\ size'[dfile[j]] = size[dfile[j]]
        BY <2>1, <2>3, <3>1, <3>3, <1>1 DEF Clamped
      <4> QED BY <4>1, <3>1
    <3> QED BY <3>2, <3>3
  <2> QED BY <2>1, <2>2, <2>3, <2>4, <2>5, <2>6, StaysExact
<1>3. CASE Grow(fd, new)
  <2>1. PICK f \in Files, count \in Nat, m \in Seq(Block), o \in Seq(1 .. BLOCK_SIZE) :
          /\ new > size[f] /\ new <= MAX_FILE_SIZE /\ count >= Len(occupied[f])
          /\ count = Len(occupied[f]) + BlockCount(new) - BlockCount(size[f])
          /\ Len(o) = count
          /\ \A b \in 1 .. count : o[b] = IF b = count THEN LastOccupied(new)
                                          ELSE IF b >= Len(occupied[f]) THEN BLOCK_SIZE
                                          ELSE occupied[f][b]
          /\ occupied' = [occupied EXCEPT ![f] = o]
          /\ size' = [size EXCEPT ![f] = new]
          /\ UNCHANGED <<dfile, offset>>
    BY <1>3, GrowEffect DEF Exact
  <2>2. count = BlockCount(new)
    BY <1>1, <2>1 DEF FileExact
  <2>3. \A b \in 1 .. Len(o) : o[b] = IF b = Len(o) THEN LastOccupied(new) ELSE BLOCK_SIZE
    <3> SUFFICES ASSUME NEW b \in 1 .. count, b # count, ~ (b >= Len(occupied[f]))
                 PROVE  occupied[f][b] = BLOCK_SIZE
      BY <2>1
    <3>1. b \in 1 .. Len(occupied[f]) /\ b # Len(occupied[f])
      BY <2>1, <1>1
    <3> QED BY <3>1, <1>1 DEF FileExact
  <2>4. ASSUME NEW j \in Slots, dfile'[j] # None
        PROVE  dfile'[j] \in Files /\ offset'[j] <= size'[dfile'[j]]
    <3>1. /\ dfile'[j] = dfile[j] /\ dfile[j] \in Files /\ offset[j] <= size[dfile[j]]
          /\ offset'[j] = offset[j]
      BY <2>1, <2>4, <1>1 DEF Exact, ChainMatchesSize
    <3>2. size[dfile[j]] <= size'[dfile[j]] /\ size'[dfile[j]] \in Nat
      BY <2>1, <3>1, <1>1
    <3> QED BY <3>1, <3>2, <1>1
  <2> QED BY <2>1, <2>2, <2>3, <2>4, StaysExact
<1> QED BY <1>2, <1>3

(* So does every call.                                                       *)
LEMMA ExactStep ==
  ASSUME Exact, ~ Overwriting, [Next]_vars
  PROVE  Exact'
<1>0. Table' /\ Contents'
  BY TableStep, ContentsStep DEF Exact
<1> SUFFICES ChainMatchesSize' /\ Bounded'
  BY <1>0 DEF Exact
<1>1. ASSUME UNCHANGED <<fileVars, descVars>> PROVE ChainMatchesSize' /\ Bounded'
  BY <1>1 DEF fileVars, descVars, Exact, ChainMatchesSize, Bounded, BlockCount, LastOccupied
<1>2. CASE \E n \in Names : NameCall(n)
  <2>1. PICK n \in Names : NameCall(n)
    BY <1>2
  <2>2. CASE \E flags \in OpenFlags, f \in Files, i \in Slots : Open(n, flags, f, i)
    BY <2>2, OpenEffect, SettledExact DEF Exact
  <2>3. CASE NoSuchFile(n)
    BY <2>3, <1>1 DEF NoSuchFile
  <2>4. CASE Delete(n)
    BY <2>4, DeleteEffect, SettledExact DEF Exact
  <2> QED BY <2>1, <2>2, <2>3, <2>4 DEF NameCall
<1>3. CASE \E fd \in Descriptors : Close(fd)
  BY <1>3, CloseEffect, SettledExact DEF Exact
<1>4. CASE Destroy
  <2>1. \A f \in Files : size'[f] = 0 /\ occupied'[f] = <<>> /\ Len(occupied'[f]) = 0
    BY <1>4 DEF Destroy
  <2>2. \A i \in Slots : dfile'[i] = None
    BY <1>4 DEF Destroy
  <2>3. BlockCount(0) = 0 /\ 0 <= MAX_FILE_SIZE
    BY Zeros, ConstantsAssumption
  <2> QED BY <2>1, <2>2, <2>3 DEF ChainMatchesSize, Bounded, BlockCount, LastOccupied
<1>5. CASE \E fd \in Descriptors, data \in Buffers : Write(fd, data)
  BY <1>5, WriteExact
<1>6. CASE \E fd \in Descriptors, n \in 0 .. MaxRequest : Read(fd, n)
  BY <1>6, ReadExact
<1>7. CASE \E fd \in Descriptors, new \in Nat : Shrink(fd, new) \/ Grow(fd, new)
  BY <1>7, ResizeExact
<1>8. CASE UNCHANGED vars
  BY <1>8, <1>1 DEF vars
<1> QED BY <1>1, <1>2, <1>3, <1>4, <1>5, <1>6, <1>7, <1>8, CallsSplit DEF Idle

(* Sizes and chains are in step at first.                                    *)
LEMMA InitExact == Init => Exact
<1> SUFFICES ASSUME Init PROVE Exact
  OBVIOUS
<1>1. Table /\ Contents
  BY EmptyTable, InitContents DEF Init
<1>2. \A f \in Files : size[f] = 0 /\ occupied[f] = <<>> /\ Len(occupied[f]) = 0
  BY DEF Init
<1>3. BlockCount(0) = 0 /\ 0 <= MAX_FILE_SIZE
  BY Zeros, ConstantsAssumption
<1>4. \A i \in Slots : dfile[i] = None
  BY DEF Init
<1> QED BY <1>1, <1>2, <1>3, <1>4 DEF Exact, ChainMatchesSize, Bounded

(* As long as clients do not write into a block that is full (ufs_write adds *)
(* a block then, lines 248-256, and the file is shorter than its chain), a   *)
(* file has as many blocks as its size needs, all full but the last, and no  *)
(* descriptor is behind its end: what ufs_write, ufs_read and ufs_resize     *)
(* each take for granted of the others.                                      *)
THEOREM ChainsExact ==
  ASSUME ~ Overwriting
  PROVE  Spec => []ChainMatchesSize
<1>1. Init => Exact
  BY InitExact
<1>2. Exact /\ [Next]_vars => Exact'
  BY ExactStep
<1>3. Exact => ChainMatchesSize
  BY DEF Exact
<1> QED BY <1>1, <1>2, <1>3, PTL DEF Spec

(* Everything has its type, no file is longer than MAX_FILE_SIZE, and used   *)
(* counts the descriptors: ufs_open finds a free one or the table is full    *)
(* (lines 150-193).  Line 233 adds the bytes of a write to the size of the   *)
(* file, not to the offset, so the bound is one on the files only as long as *)
(* no descriptor gets behind the end: again, no full block is written into.  *)
THEOREM TypesKept ==
  ASSUME ~ Overwriting
  PROVE  Spec => []TypeOK
<1>1. Init => Exact
  BY InitExact
<1>2. Exact /\ [Next]_vars => Exact'
  BY ExactStep
<1>3. Exact => TypeOK
  <2> SUFFICES ASSUME Exact PROVE TypeOK
    OBVIOUS
  <2>1. size \in [Files -> 0 .. MAX_FILE_SIZE]
    BY ConstantsAssumption DEF Exact, Contents, Bounded
  <2>2. used \in 0 .. MaxCapacity
    BY ConstantsAssumption DEF Exact, Table, TableType, TableFits
  <2>3. used = Cardinality({i \in Slots : dfile[i] # None})
    BY DEF Exact, Table, TableFits, Busy
  <2> QED BY <2>1, <2>2, <2>3 DEF Exact, Table, TableType, TableFits, Contents, TypeOK
<1> QED BY <1>1, <1>2, <1>3, PTL DEF Spec

-----------------------------------------------------------------------------
(* Files and names *)

(* A file in the list has a name, no two that can be opened have the same,   *)
(* and memory that is not in the list holds no blocks.                       *)
Listed ==
    /\ \A f \in file_list : name[f] \in Names
    /\ \A f, g \in file_list \ is_ghost : name[f] = name[g] => f = g
    /\ \A f \in Files \ file_list : memory[f] = <<>> /\ occupied[f] = <<>>

(* Every call keeps the names apart: ufs_open looks a name up before it      *)
(* makes a file (lines 113-127).                                             *)
LEMMA ListedStep ==
  ASSUME Table, Contents, Listed, [Next]_vars
  PROVE  Listed'
<1>0. /\ file_list \subseteq Files /\ is_ghost \subseteq file_list /\ name \in [Files -> Names \cup {None}]
      /\ memory = [f \in Files |-> memory[f]] /\ occupied = [f \in Files |-> occupied[f]]
  BY DEF Table, TableType, Contents
<1>1. ASSUME NEW f \in file_list, UNCHANGED <<file_list, is_ghost, name>>,
             \A g \in Files \ {f} : memory'[g] = memory[g] /\ occupied'[g] = occupied[g]
      PROVE  Listed'
  BY <1>1, <1>0 DEF Listed
<1>2. ASSUME UNCHANGED fileVars PROVE Listed'
  BY <1>2 DEF Listed, fileVars
<1>3. ASSUME NEW f \in Files, Free(f) PROVE Listed'
  <2>1. /\ file_list' = file_list \ {f} /\ is_ghost' = is_ghost \ {f}
        /\ \A g \in Files : g # f => /\ name'[g] = name[g] /\ memory'[g] = memory[g]
                                      /\ occupied'[g] = occupied[g]
        /\ memory'[f] = <<>> /\ occupied'[f] = <<>>
    BY <1>0, <1>3 DEF Free
  <2> QED BY <1>0, <2>1 DEF Listed
<1>4. ASSUME NEW fd \in Descriptors, IsOpen(fd) PROVE dfile[fd - 1] \in file_list
  <2>1. fd - 1 \in Slots /\ dfile[fd - 1] \in Files
    BY <1>4, OpenDescriptor
  <2>2. fd - 1 \in OpenOn(dfile[fd - 1])
    BY <2>1 DEF OpenOn
  <2> QED BY <2>1, <2>2 DEF Table, FilesLive
<1>5. CASE \E n \in Names : NameCall(n)
  <2>1. PICK n \in Names : NameCall(n)
    BY <1>5
  <2>2. CASE \E flags \in OpenFlags, f \in Files, i \in Slots : Open(n, flags, f, i)
    <3>1. PICK flags \in OpenFlags, f \in Files, i \in Slots : Open(n, flags, f, i)
      BY <2>2
    <3>2. CASE UNCHANGED <<file_list, name, is_ghost, memory, occupied>>
      BY <3>2 DEF Listed
    <3>3. CASE Lookup(n) = {} /\ Create(f, n)
      <4>1. /\ f \notin file_list /\ file_list' = file_list \cup {f} /\ is_ghost' = is_ghost \ {f}
            /\ \A g \in Files : g # f => /\ name'[g] = name[g] /\ memory'[g] = memory[g]
                                          /\ occupied'[g] = occupied[g]
            /\ name'[f] = n
        BY <1>0, <3>3 DEF Create
      <4>2. \A g \in file_list \ is_ghost : name[g] # n
        BY <3>3 DEF Lookup
      <4> QED BY <1>0, <4>1, <4>2 DEF Listed
    <3> QED BY <3>1, <3>2, <3>3 DEF Open
  <2>3. CASE NoSuchFile(n)
    BY <2>3, <1>2 DEF NoSuchFile
  <2>4. CASE Delete(n)
    <3>1. PICK f \in Lookup(n) :
            \/ Free(f)
            \/ is_ghost' = is_ghost \cup {f} /\ UNCHANGED <<file_list, name, memory, occupied>>
      BY <2>4 DEF Delete
    <3>2. f \in Files
      BY <1>0 DEF Lookup
    <3>3. CASE is_ghost' = is_ghost \cup {f} /\ UNCHANGED <<file_list, name, memory, occupied>>
      BY <3>3 DEF Listed
    <3> QED BY <3>1, <3>2, <3>3, <1>3
  <2> QED BY <2>1, <2>2, <2>3, <2>4 DEF NameCall
<1>6. CASE \E fd \in Descriptors : Close(fd)
  <2>1. PICK fd \in Descriptors : Close(fd)
    BY <1>6
  <2>2. Free(dfile[fd - 1]) \/ UNCHANGED fileVars \/ UNCHANGED <<file_list, name, is_ghost, memory, occupied>>
    BY <2>1 DEF Close
  <2>3. dfile[fd - 1] \in Files
    BY <2>1, OpenDescriptor DEF Close
  <2> QED BY <2>2, <2>3, <1>2, <1>3 DEF Listed
<1>7. CASE Destroy
  BY <1>7 DEF Destroy, Listed
<1>8. CASE \E fd \in Descriptors, data \in Buffers : Write(fd, data)
  <2>1. PICK fd \in Descriptors, data \in Buffers : Write(fd, data)
    BY <1>8
  <2>2. dfile[fd - 1] \in file_list
    BY <2>1, <1>4 DEF Write
  <2>3. /\ UNCHANGED <<file_list, is_ghost, name>>
        /\ \A g \in Files \ {dfile[fd - 1]} : memory'[g] = memory[g] /\ occupied'[g] = occupied[g]
    BY <1>0, <2>1 DEF Write
  <2> QED BY <2>2, <2>3, <1>1
<1>9. CASE \E fd \in Descriptors, n \in 0 .. MaxRequest : Read(fd, n)
  BY <1>9, <1>2 DEF Read
<1>10. CASE \E fd \in Descriptors, new \in Nat : Shrink(fd, new) \/ Grow(fd, new)
  <2>1. PICK fd \in Descriptors, new \in Nat : Shrink(fd, new) \/ Grow(fd, new)
    BY <1>10
  <2>2. dfile[fd - 1] \in file_list
    BY <2>1, <1>4 DEF Shrink, Grow, MayResize
  <2>3. /\ UNCHANGED <<file_list, is_ghost, name>>
        /\ \A g \in Files \ {dfile[fd - 1]} : memory'[g] = memory[g] /\ occupied'[g] = occupied[g]
    BY <1>0, <2>1 DEF Shrink, Grow
  <2> QED BY <2>2, <2>3, <1>1
<1>11. CASE Idle
  BY <1>11, <1>2 DEF Idle
<1>12. CASE UNCHANGED vars
  BY <1>12, <1>2 DEF vars
<1> QED BY <1>5, <1>6, <1>7, <1>8, <1>9, <1>10, <1>11, <1>12, CallsSplit

-----------------------------------------------------------------------------
(* What FileStore sees *)

Folder == [n \in Names |-> IF Lookup(n) = {} THEN None ELSE CHOOSE f \in Lookup(n) : TRUE]
AllContent == [f \in Files |-> Content(f)]
Led(f) == (\E n \in Names : Folder[n] = f) \/ \E i \in Slots : dfile[i] = f

Stored == Exact /\ Listed

(* The only member of a set is the one that is chosen from it.               *)
LEMMA OnlyFile ==
  ASSUME NEW S, \A f, g \in S : f = g
  PROVE  /\ S = {} => (IF S = {} THEN None ELSE CHOOSE f \in S : TRUE) = None
         /\ \A f \in S : (IF S = {} THEN None ELSE CHOOSE g \in S : TRUE) = f
<1>1. ASSUME NEW f \in S PROVE (CHOOSE g \in S : TRUE) = f
  <2>1. (CHOOSE g \in S : TRUE) \in S
    BY Zenon
  <2> QED BY <2>1
<1>2. ASSUME NEW f \in S PROVE (IF S = {} THEN None ELSE CHOOSE g \in S : TRUE) = f
  BY <1>1
<1> QED BY <1>2

(* Lines 113-118: under a name there is the file that is found.              *)
LEMMA FolderFinds ==
  ASSUME Stored, NEW n \in Names
  PROVE  /\ Lookup(n) = {} => Folder[n] = None
         /\ \A f \in Lookup(n) : Folder[n] = f
<1>1. \A f, g \in Lookup(n) : f = g
  BY DEF Stored, Listed, Lookup
<1>2. Folder[n] = IF Lookup(n) = {} THEN None ELSE CHOOSE f \in Lookup(n) : TRUE
  BY DEF Folder
<1> HIDE DEF Folder
<1> QED BY <1>1, <1>2, OnlyFile

(* The same after a call.                                                    *)
LEMMA FolderFindsNext ==
  ASSUME Stored', NEW n \in Names
  PROVE  /\ Lookup(n)' = {} => Folder'[n] = None
         /\ \A f \in Lookup(n)' : Folder'[n] = f
<1>1. \A f, g \in Lookup(n)' : f = g
  BY DEF Stored, Listed, Lookup
<1>2. Folder'[n] = IF Lookup(n)' = {} THEN None ELSE CHOOSE f \in Lookup(n)' : TRUE
  BY DEF Folder
<1> QED BY <1>1, <1>2, OnlyFile

(* A file is in the list as long as a name or a descriptor leads to it.      *)
LEMMA LedListed ==
  ASSUME Stored', NEW f \in Files
  PROVE  Led(f)' <=> f \in file_list'
<1>1. ASSUME f \in file_list' PROVE Led(f)'
  <2>1. CASE f \in is_ghost'
    BY <2>1 DEF Stored, Exact, Table, FilesLive, OpenOn, Led
  <2>2. CASE f \notin is_ghost'
    <3>1. name'[f] \in Names
      BY <1>1 DEF Stored, Listed
    <3>2. PICK n \in Names : n = name'[f]
      BY <3>1
    <3>3. f \in Lookup(n)'
      BY <1>1, <2>2, <3>2 DEF Lookup
    <3>4. Folder'[n] = f
      BY <3>3, FolderFindsNext
    <3> QED BY <3>4 DEF Led
  <2> QED BY <2>1, <2>2
<1>2. ASSUME f \notin file_list' PROVE ~ Led(f)'
  <2>1. f # None
    BY ConstantsAssumption
  <2>2. \A i \in Slots : dfile'[i] # f
    BY <1>2 DEF Stored, Exact, Table, FilesLive, OpenOn
  <2>3. ASSUME NEW n \in Names PROVE Folder'[n] # f
    <3>1. f \notin Lookup(n)'
      BY <1>2 DEF Lookup
    <3>2. Lookup(n)' = {} \/ \E g \in Lookup(n)' : Folder'[n] = g
      BY FolderFindsNext
    <3> QED BY <2>1, <3>1, <3>2, FolderFindsNext
  <2> QED BY <2>2, <2>3 DEF Led
<1> QED BY <1>1, <1>2

(* The bytes of a file are the first ones in its blocks, as many as its size.*)
LEMMA ContentFlat ==
  ASSUME Stored, NEW f \in Files
  PROVE  Content(f) = Flat(memory[f], size[f])
<1>1. /\ memory[f] \in Seq(Block) /\ occupied[f] \in Seq(1 .. BLOCK_SIZE)
      /\ Len(memory[f]) = Len(occupied[f]) /\ size[f] \in Nat /\ Filled(occupied[f], size[f])
  BY DEF Stored, Exact, Contents, ChainMatchesSize, Filled
<1>2. Joined(memory[f], occupied[f]) = Flat(memory[f], size[f])
  BY <1>1, JoinedFlat
<1> QED BY <1>2 DEF Content, Joined

(* The same after a call.                                                    *)
LEMMA ContentFlatNext ==
  ASSUME Stored', NEW f \in Files
  PROVE  Content(f)' = Flat(memory'[f], size'[f])
<1>1. /\ memory'[f] \in Seq(Block) /\ occupied'[f] \in Seq(1 .. BLOCK_SIZE)
      /\ Len(memory'[f]) = Len(occupied'[f]) /\ size'[f] \in Nat /\ Filled(occupied'[f], size'[f])
  BY DEF Stored, Exact, Contents, ChainMatchesSize, Filled, BlockCount, LastOccupied
<1>2. Joined(memory'[f], occupied'[f]) = Flat(memory'[f], size'[f])
  BY <1>1, JoinedFlat
<1> QED BY <1>2 DEF Content, Joined

(* A call that leaves the list alone.                                        *)
LEMMA SameFolder ==
  ASSUME UNCHANGED <<file_list, is_ghost, name>>
  PROVE  Folder' = Folder
BY DEF Folder, Lookup

(* A call that leaves the blocks alone.                                      *)
LEMMA SameContent ==
  ASSUME UNCHANGED <<memory, occupied>>
  PROVE  AllContent' = AllContent
BY DEF AllContent, Content

(* A call that changes the blocks of one file.                               *)
LEMMA OneContent ==
  ASSUME NEW f \in Files, NEW c, Content(f)' = c,
         \A g \in Files \ {f} : memory'[g] = memory[g] /\ occupied'[g] = occupied[g]
  PROVE  AllContent' = [AllContent EXCEPT ![f] = c]
<1>1. \A g \in Files : Content(g)' = IF g = f THEN c ELSE Content(g)
  <2> SUFFICES ASSUME NEW g \in Files \ {f} PROVE Content(g)' = Content(g)
    OBVIOUS
  <2> QED BY DEF Content
<1>2. AllContent' = [g \in Files |-> Content(g)'] /\ AllContent = [g \in Files |-> Content(g)]
  BY DEF AllContent
<1> QED BY <1>1, <1>2

(* A call after which the files in the list have the bytes that they had.    *)
LEMMA Forgotten ==
  ASSUME Stored, Stored', file_list' \subseteq Files,
         \A f \in file_list' : memory'[f] = memory[f] /\ occupied'[f] = occupied[f]
  PROVE  AllContent' = [f \in Files |-> IF Led(f)' THEN AllContent[f] ELSE <<>>]
<1>1. ASSUME NEW f \in Files PROVE Content(f)' = IF Led(f)' THEN AllContent[f] ELSE <<>>
  <2>1. CASE f \in file_list'
    <3>1. Content(f)' = Content(f)
      BY <2>1 DEF Content
    <3> QED BY <2>1, <3>1, LedListed DEF AllContent
  <2>2. CASE f \notin file_list'
    <3>1. memory'[f] = <<>> /\ occupied'[f] = <<>>
      BY <2>2 DEF Stored, Listed
    <3>2. Content(f)' = Flat(memory'[f], size'[f])
      BY ContentFlatNext
    <3>3. size'[f] \in Nat /\ Len(occupied'[f]) = BlockCount(size'[f]) /\ memory'[f] \in Seq(Block)
      BY DEF Stored, Exact, Contents, ChainMatchesSize, BlockCount
    <3>4. size'[f] = 0
      <4>1. Len(<<>>) = 0
        OBVIOUS
      <4>2. BlockCount(size'[f]) = 0
        BY <3>1, <3>3, <4>1
      <4> QED BY <3>3, <4>2, Counting
    <3>5. Flat(memory'[f], size'[f]) = <<>>
      <4>1. 0 \in Nat /\ BlockCount(0) <= Len(memory'[f])
        BY <3>3, Zeros, LenProperties
      <4>2. Flat(memory'[f], 0) \in Seq(AnyByte) /\ Len(Flat(memory'[f], 0)) = 0
        BY <3>3, <4>1, FlatBytes
      <4> QED BY <3>4, <4>2, EmptySeq
    <3> QED BY <2>2, <3>2, <3>5, LedListed
  <2> QED BY <2>1, <2>2
<1>2. AllContent' = [f \in Files |-> Content(f)']
  BY DEF AllContent
<1> QED BY <1>1, <1>2

-----------------------------------------------------------------------------
(* Each call is one of userfs.h *)

(* A descriptor may do what the checks of lines 221-226 and 308-313 let it. *)
LEMMA RightsAllow ==
  ASSUME NEW i \in Slots
  PROVE  /\ "read" \in Rights[i] <=> CanRead(i)
         /\ "write" \in Rights[i] <=> CanWrite(i)
         /\ Rights[i] = {"read", "write"} <=> CanRead(i) /\ CanWrite(i)
BY DEF Rights

LEMMA SameRights ==
  ASSUME UNCHANGED open_flags
  PROVE  Rights' = Rights
BY DEF Rights, CanRead, CanWrite

(* A call that changes the flags of one descriptor.                          *)
LEMMA OneRights ==
  ASSUME Stored, NEW i \in Slots, NEW flags, open_flags' = [open_flags EXCEPT ![i] = flags],
         NEW rights, \A r \in {"read", "write"} : r \in rights <=>
                       \/ r = "read" /\ flags \cap {"READ_ONLY", "READ_WRITE"} # {}
                       \/ r = "write" /\ flags \cap {"WRITE_ONLY", "READ_WRITE"} # {},
         rights \subseteq {"read", "write"}
  PROVE  Rights' = [Rights EXCEPT ![i] = rights]
<1>1. open_flags'[i] = flags /\ \A j \in Slots \ {i} : open_flags'[j] = open_flags[j]
  BY DEF Stored, Exact, Contents
<1>2. Rights'[i] = rights
  BY <1>1 DEF Rights, CanRead, CanWrite
<1>3. \A j \in Slots \ {i} : Rights'[j] = Rights[j]
  BY <1>1 DEF Rights, CanRead, CanWrite
<1>4. Rights' = [j \in Slots |-> Rights'[j]] /\ Rights = [j \in Slots |-> Rights[j]]
  BY DEF Rights
<1> QED BY <1>2, <1>3, <1>4

(* A name under which the same file is found.                                *)
LEMMA FolderKept ==
  ASSUME Stored, Stored', NEW n \in Names, Lookup(n)' = Lookup(n)
  PROVE  Folder'[n] = Folder[n]
<1>1. CASE Lookup(n) = {}
  BY <1>1, FolderFinds, FolderFindsNext
<1>2. CASE Lookup(n) # {}
  <2>1. PICK f \in Lookup(n) : TRUE
    BY <1>2
  <2> QED BY <2>1, FolderFinds, FolderFindsNext
<1> QED BY <1>1, <1>2

(* A call that changes nothing.                                              *)
LEMMA SameFiles ==
  ASSUME UNCHANGED <<fileVars, descVars>>
  PROVE  UNCHANGED Store!files
<1>1. UNCHANGED <<file_list, is_ghost, name, memory, occupied, dfile, open_flags, offset>>
  BY DEF fileVars, descVars
<1>2. Folder' = Folder /\ AllContent' = AllContent /\ Rights' = Rights
  BY <1>1, SameFolder, SameContent, SameRights
<1> QED BY <1>1, <1>2 DEF Store!files, Folder, AllContent

(* Each call that fails has the reason that its error code gives.            *)
Reason(code) ==
    \/ code = "NO_FILE"
    \/ /\ code = "NO_PERMISSION"
       /\ \E fd \in Descriptors : IsOpen(fd) /\ ~(CanWrite(fd - 1) /\ CanRead(fd - 1))
    \/ /\ code = "NO_MEM"
       /\ \E fd \in Descriptors : IsOpen(fd) /\ CanWrite(fd - 1)

LEMMA FailStore ==
  ASSUME Stored, UNCHANGED <<fileVars, descVars>>,
         NEW code, Fails(code), Reason(code)
  PROVE  Store!NoFile \/ Store!NoPermission \/ Store!NoMemory
<1>1. Store!Fail(code)
  BY SameFiles DEF Store!Fail, Fails
<1>2. ASSUME NEW fd \in Descriptors, IsOpen(fd) PROVE fd - 1 \in Slots /\ dfile[fd - 1] # None
  BY <1>2, OpenDescriptor DEF IsOpen, Stored, Exact
<1>3. CASE code = "NO_FILE"
  BY <1>1, <1>3 DEF Store!NoFile
<1>4. CASE /\ code = "NO_PERMISSION"
           /\ \E fd \in Descriptors : IsOpen(fd) /\ ~(CanWrite(fd - 1) /\ CanRead(fd - 1))
  <2>1. PICK i \in Slots : dfile[i] # None /\ ~(CanWrite(i) /\ CanRead(i))
    BY <1>2, <1>4
  <2>2. Rights[i] # {"read", "write"}
    BY <2>1, RightsAllow
  <2> QED BY <1>1, <1>4, <2>1, <2>2 DEF Store!NoPermission
<1>5. CASE /\ code = "NO_MEM"
           /\ \E fd \in Descriptors : IsOpen(fd) /\ CanWrite(fd - 1)
  <2>1. PICK i \in Slots : CanWrite(i)
    BY <1>2, <1>5
  <2>2. "write" \in Rights[i]
    BY <2>1, RightsAllow
  <2> QED BY <1>1, <1>5, <2>2 DEF Store!NoMemory
<1> QED BY <1>3, <1>4, <1>5 DEF Reason

(* Lines 105-205: the file of a name, or a new one, is open on a descriptor  *)
(* that was free, at its beginning.                                          *)
LEMMA OpenStore ==
  ASSUME Stored, Stored', NEW n \in Names, NEW flags \in OpenFlags,
         NEW f \in Files, NEW i \in Slots, Open(n, flags, f, i)
  PROVE  Store!Open(n, flags, i, f)
<1>0. /\ file_list \subseteq Files /\ name \in [Files -> Names \cup {None}]
      /\ memory = [g \in Files |-> memory[g]] /\ occupied = [g \in Files |-> occupied[g]]
      /\ f # None
  BY ConstantsAssumption DEF Stored, Exact, Table, TableType, Contents
<1>1. dfile[i] = None
  BY FreeSlotIsFree DEF Open, Stored, Exact
<1>2. /\ dfile' = [dfile EXCEPT ![i] = f] /\ offset' = [offset EXCEPT ![i] = 0]
      /\ Returns(i + 1)
  BY DEF Open
<1>r. Rights' = [Rights EXCEPT ![i] = Store!Granted(flags)]
  <2>1. open_flags' = [open_flags EXCEPT ![i] = Normal(flags)]
    BY DEF Open
  <2>2. flags \subseteq {"CREATE", "READ_ONLY", "WRITE_ONLY", "READ_WRITE"}
    BY ConstantsAssumption
  <2>3. /\ Store!Granted(flags) \subseteq {"read", "write"}
        /\ "read" \in Store!Granted(flags) <=> Normal(flags) \cap {"READ_ONLY", "READ_WRITE"} # {}
        /\ "write" \in Store!Granted(flags) <=> Normal(flags) \cap {"WRITE_ONLY", "READ_WRITE"} # {}
    <3>1. CASE flags \subseteq {"CREATE"}
      BY <3>1 DEF Store!Granted, Normal
    <3>2. CASE ~(flags \subseteq {"CREATE"})
      <4>1. "READ_ONLY" \in flags \/ "WRITE_ONLY" \in flags \/ "READ_WRITE" \in flags
        BY <2>2, <3>2
      <4>2. Store!Granted(flags) = {r \in {"read", "write"} :
                                      \/ "READ_WRITE" \in flags
                                      \/ r = "read" /\ "READ_ONLY" \in flags
                                      \/ r = "write" /\ "WRITE_ONLY" \in flags}
        BY <3>2 DEF Store!Granted
      <4> QED BY <4>1, <4>2 DEF Normal
    <3> QED BY <3>1, <3>2
  <2> QED BY <2>1, <2>3, OneRights
<1>3. \/ Folder[n] = f /\ Folder' = Folder /\ AllContent' = AllContent
      \/ /\ Folder[n] = None /\ ~ Led(f) /\ "CREATE" \in flags
         /\ Folder' = [Folder EXCEPT ![n] = f] /\ AllContent' = AllContent
  <2>1. CASE f \in Lookup(n) /\ UNCHANGED <<file_list, name, is_ghost, size, memory, occupied>>
    BY <2>1, FolderFinds, SameFolder, SameContent
  <2>2. CASE Lookup(n) = {} /\ "CREATE" \in flags /\ Create(f, n)
    <3>1. /\ f \notin file_list /\ file_list' = file_list \cup {f} /\ is_ghost' = is_ghost \ {f}
          /\ \A g \in Files : g # f => /\ name'[g] = name[g] /\ memory'[g] = memory[g]
                                        /\ occupied'[g] = occupied[g]
          /\ name'[f] = n /\ memory'[f] = <<>> /\ occupied'[f] = <<>>
      BY <1>0, <2>2 DEF Create
    <3>2. memory[f] = <<>> /\ occupied[f] = <<>>
      BY <3>1 DEF Stored, Listed
    <3>3. UNCHANGED <<memory, occupied>>
      <4>1. memory' = [g \in Files |-> memory'[g]] /\ occupied' = [g \in Files |-> occupied'[g]]
        BY DEF Stored, Exact, Contents
      <4> QED BY <1>0, <3>1, <3>2, <4>1
    <3>4. AllContent' = AllContent
      BY <3>3, SameContent
    <3>5. Folder[n] = None
      BY <2>2, FolderFinds
    <3>6. ~ Led(f)
      <4>1. \A j \in Slots : dfile[j] # f
        BY <3>1 DEF Stored, Exact, Table, FilesLive, OpenOn
      <4>2. ASSUME NEW k \in Names PROVE Folder[k] # f
        <5>1. f \notin Lookup(k)
          BY <3>1 DEF Lookup
        <5>2. Lookup(k) = {} \/ \E g \in Lookup(k) : Folder[k] = g
          BY FolderFinds
        <5> QED BY <1>0, <5>1, <5>2, FolderFinds
      <4> QED BY <4>1, <4>2 DEF Led
    <3>7. Lookup(n)' = {f}
      BY <1>0, <2>2, <3>1 DEF Lookup
    <3>8. \A k \in Names \ {n} : Lookup(k)' = Lookup(k)
      BY <1>0, <3>1 DEF Lookup
    <3>9. Folder' = [Folder EXCEPT ![n] = f]
      <4>1. Folder'[n] = f
        BY <3>7, FolderFindsNext
      <4>2. \A k \in Names \ {n} : Folder'[k] = Folder[k]
        BY <3>8, FolderKept
      <4>3. Folder' = [k \in Names |-> Folder'[k]] /\ Folder = [k \in Names |-> Folder[k]]
        BY DEF Folder
      <4> HIDE DEF Folder
      <4> QED BY <4>1, <4>2, <4>3
    <3> QED BY <2>2, <3>4, <3>5, <3>6, <3>9
  <2> QED BY <2>1, <2>2 DEF Open
<1>4. Led(f) <=> Store!Reached(f)
  BY DEF Led, Store!Reached, Folder
<1> QED BY <1>1, <1>2, <1>r, <1>3, <1>4
    DEF Store!Open, Store!Answer, Returns, Replies, Folder, AllContent

(* Lines 358-382: the descriptor is free again, and a file that nothing      *)
(* leads to any more is gone.                                                *)
LEMMA CloseStore ==
  ASSUME Stored, Stored', NEW fd \in Descriptors, Close(fd)
  PROVE  fd - 1 \in Slots /\ Store!Close(fd - 1)
<1> DEFINE i == fd - 1
           f == dfile[i]
<1>0. /\ file_list \subseteq Files /\ name \in [Files -> Names \cup {None}]
      /\ memory = [g \in Files |-> memory[g]] /\ occupied = [g \in Files |-> occupied[g]]
      /\ file_list' \subseteq Files
  BY DEF Stored, Exact, Table, TableType, Contents
<1>1. i \in Slots /\ f \in Files /\ dfile[i] # None
  BY OpenDescriptor DEF Close, IsOpen, Stored, Exact
<1>2. /\ dfile' = [dfile EXCEPT ![i] = None] /\ offset' = [offset EXCEPT ![i] = 0]
      /\ Returns(0)
  BY DEF Close
<1>r. Rights' = [Rights EXCEPT ![i] = {}]
  <2>1. open_flags' = [open_flags EXCEPT ![i] = {}]
    BY DEF Close
  <2> HIDE DEF i
  <2>2. i \in Slots
    BY <1>1
  <2>3. /\ {} \subseteq {"read", "write"}
        /\ \A r \in {"read", "write"} : r \in {} <=>
             \/ r = "read" /\ {} \cap {"READ_ONLY", "READ_WRITE"} # {}
             \/ r = "write" /\ {} \cap {"WRITE_ONLY", "READ_WRITE"} # {}
    OBVIOUS
  <2> QED BY <2>1, <2>2, <2>3, OneRights
<1>3. \/ f \in is_ghost /\ Free(f)
      \/ UNCHANGED <<file_list, name, is_ghost, size, memory, occupied>>
  BY DEF Close, LastReference
<1> HIDE DEF i, f
<1>4. /\ \A n \in Names : Lookup(n)' = Lookup(n)
      /\ \A g \in file_list' : memory'[g] = memory[g] /\ occupied'[g] = occupied[g]
  <2>1. CASE UNCHANGED <<file_list, name, is_ghost, size, memory, occupied>>
    BY <2>1 DEF Lookup
  <2>2. CASE f \in is_ghost /\ Free(f)
    <3>1. /\ file_list' = file_list \ {f} /\ is_ghost' = is_ghost \ {f}
          /\ \A g \in Files : g # f => /\ name'[g] = name[g] /\ memory'[g] = memory[g]
                                        /\ occupied'[g] = occupied[g]
      BY <1>0, <2>2 DEF Free
    <3> QED BY <1>0, <2>2, <3>1 DEF Lookup
  <2> QED BY <1>3, <2>1, <2>2
<1>5. Folder' = Folder
  <2>1. \A n \in Names : Folder'[n] = Folder[n]
    BY <1>4, FolderKept
  <2>2. Folder' = [n \in Names |-> Folder'[n]] /\ Folder = [n \in Names |-> Folder[n]]
    BY DEF Folder
  <2> HIDE DEF Folder
  <2> QED BY <2>1, <2>2
<1>6. AllContent' = [g \in Files |-> IF Led(g)' THEN AllContent[g] ELSE <<>>]
  BY <1>0, <1>4, Forgotten
<1>7. Store!Close(i)
  BY <1>1, <1>2, <1>r, <1>5, <1>6
     DEF Store!Close, Store!Forget, Store!Reached, Store!Answer, Returns, Replies, Folder, AllContent, Led
<1> QED BY <1>1, <1>7 DEF i

(* Lines 384-405: the name is gone, and the file with it unless a descriptor *)
(* is open on it.                                                            *)
LEMMA DeleteStore ==
  ASSUME Stored, Stored', NEW n \in Names, Delete(n)
  PROVE  Store!Delete(n)
<1>0. /\ file_list \subseteq Files /\ name \in [Files -> Names \cup {None}]
      /\ memory = [g \in Files |-> memory[g]] /\ occupied = [g \in Files |-> occupied[g]]
      /\ file_list' \subseteq Files
  BY DEF Stored, Exact, Table, TableType, Contents
<1>1. PICK f \in Lookup(n) :
        \/ Free(f)
        \/ is_ghost' = is_ghost \cup {f} /\ UNCHANGED <<file_list, name, memory, occupied>>
  BY DEF Delete
<1>2. Returns(0) /\ UNCHANGED <<dfile, offset>> /\ Rights' = Rights
  BY SameRights DEF Delete, descVars
<1>3. f \in Files /\ f # None /\ f \in file_list /\ f \notin is_ghost /\ name[f] = n
  BY <1>0, ConstantsAssumption DEF Lookup
<1>4. Folder[n] = f
  BY FolderFinds
<1>5. \A g \in Lookup(n) : g = f
  BY <1>3 DEF Lookup, Stored, Listed
<1>6. /\ Lookup(n)' = {} /\ \A k \in Names \ {n} : Lookup(k)' = Lookup(k)
      /\ \A g \in file_list' : memory'[g] = memory[g] /\ occupied'[g] = occupied[g]
  <2>1. CASE is_ghost' = is_ghost \cup {f} /\ UNCHANGED <<file_list, name, memory, occupied>>
    BY <1>3, <1>5, <2>1 DEF Lookup
  <2>2. CASE Free(f)
    <3>1. /\ file_list' = file_list \ {f} /\ is_ghost' = is_ghost \ {f}
          /\ \A g \in Files : g # f => /\ name'[g] = name[g] /\ memory'[g] = memory[g]
                                        /\ occupied'[g] = occupied[g]
      BY <1>0, <1>3, <2>2 DEF Free
    <3> QED BY <1>0, <1>3, <1>5, <3>1 DEF Lookup
  <2> QED BY <1>1, <2>1, <2>2
<1>7. Folder' = [Folder EXCEPT ![n] = None]
  <2>1. Folder'[n] = None
    BY <1>6, FolderFindsNext
  <2>2. \A k \in Names \ {n} : Folder'[k] = Folder[k]
    BY <1>6, FolderKept
  <2>3. Folder' = [k \in Names |-> Folder'[k]] /\ Folder = [k \in Names |-> Folder[k]]
    BY DEF Folder
  <2> HIDE DEF Folder
  <2> QED BY <2>1, <2>2, <2>3
<1>8. AllContent' = [g \in Files |-> IF Led(g)' THEN AllContent[g] ELSE <<>>]
  BY <1>0, <1>6, Forgotten
<1>9. Folder[n] # None
  BY <1>3, <1>4
<1> QED BY <1>2, <1>7, <1>8, <1>9
    DEF Store!Delete, Store!Forget, Store!Reached, Store!Answer, Returns, Replies, Folder, AllContent, Led

(* Lines 508-527: nothing is left.                                           *)
LEMMA DestroyStore ==
  ASSUME Stored, Stored', Destroy
  PROVE  Store!Destroy
<1>1. /\ dfile' = [i \in Slots |-> None] /\ offset' = [i \in Slots |-> 0] /\ Returns(0)
      /\ file_list' = {}
  BY DEF Destroy
<1>r. Rights' = [i \in Slots |-> {}]
  <2>1. \A i \in Slots : open_flags'[i] = {}
    BY DEF Destroy
  <2>2. \A i \in Slots : Rights'[i] = {}
    BY <2>1 DEF Rights, CanRead, CanWrite
  <2> QED BY <2>2 DEF Rights
<1>2. Folder' = [n \in Names |-> None]
  <2>1. \A n \in Names : Lookup(n)' = {}
    BY <1>1 DEF Lookup
  <2>2. \A n \in Names : Folder'[n] = None
    BY <2>1, FolderFindsNext
  <2>3. Folder' = [n \in Names |-> Folder'[n]]
    BY DEF Folder
  <2> HIDE DEF Folder
  <2> QED BY <2>2, <2>3
<1>3. AllContent' = [g \in Files |-> IF Led(g)' THEN AllContent[g] ELSE <<>>]
  BY <1>1, Forgotten
<1> QED BY <1>1, <1>r, <1>2, <1>3
    DEF Store!Destroy, Store!Forget, Store!Reached, Store!Answer, Returns, Replies, Folder, AllContent, Led

(* Two bytes of a file are not at the same place.                            *)
LEMMA Apart ==
  ASSUME NEW p \in Nat \ {0}, NEW q \in Nat \ {0},
         BlockCount(p) = BlockCount(q), LastOccupied(p) = LastOccupied(q)
  PROVE  p = q
<1>1. p > 0 /\ q > 0 /\ p \in Nat /\ q \in Nat
  OBVIOUS
<1>2. p = BLOCK_SIZE * (BlockCount(p) - 1) + LastOccupied(p)
  BY <1>1, Counting
<1>3. q = BLOCK_SIZE * (BlockCount(q) - 1) + LastOccupied(q)
  BY <1>1, Counting
<1>4. BLOCK_SIZE * (BlockCount(p) - 1) + LastOccupied(p) = BLOCK_SIZE * (BlockCount(q) - 1) + LastOccupied(q)
  OBVIOUS
<1> QED BY <1>2, <1>3, <1>4, Zenon

(* Lines 244-282: after a write the buffer is in the file from the offset    *)
(* on, and the other bytes are what they were.                               *)
LEMMA WriteBytes ==
  ASSUME Contents, ChainMatchesSize, NEW i \in Slots, NEW f \in Files, dfile[i] = f,
         NEW n \in Nat \ {0}, NEW data \in [1 .. n -> Bytes],
         InPlace(i) \/ Current(i) > Len(occupied[f]),
         NEW k \in Nat \ {0}, k <= size[f] \/ k <= offset[i] + n
  PROVE  /\ BlockCount(k) <= BlocksAfter(i, n)
         /\ Written(i, data)[BlockCount(k)][LastOccupied(k)] =
              IF k > offset[i] /\ k <= offset[i] + n THEN data[k - offset[i]]
              ELSE memory[f][BlockCount(k)][LastOccupied(k)]
<1> DEFINE b == BlockCount(k)
           j == LastOccupied(k)
           off == offset[i]
           sz == size[f]
           count == BlocksAfter(i, n)
           last == Len(memory[f])
           here == {l \in 1 .. n : In(i, n, l) = b /\ At(i, n, l) = j}
           old == IF b <= last THEN memory[f][b][j] ELSE Garbage
<1>1. off \in Nat /\ sz \in Nat /\ last \in Nat /\ last = Len(occupied[f]) /\ last = BlockCount(sz)
  BY LenProperties DEF Contents, ChainMatchesSize
<1>2. /\ \A l \in 1 .. n : In(i, n, l) = BlockCount(off + l) /\ At(i, n, l) = LastOccupied(off + l)
      /\ count = BlockCount(off + n)
  BY WriteFollows
<1>3. count \in Nat /\ last <= count
  BY WritePlaces, <1>1
<1>4. b \in Nat \ {0} /\ j \in 1 .. BLOCK_SIZE
  <2>1. k \in Nat /\ k # 0
    OBVIOUS
  <2> QED BY <2>1, Counting, Zenon
<1>5. Len(data) = n
  <2>1. data \in Seq(Bytes)
    BY SeqDef
  <2> QED BY <2>1, LenProperties
<1> HIDE DEF off, sz, last, count
<1>6. b <= count /\ (k <= sz => b <= last)
  <2>1. k <= sz => b <= last
    <3>1. k \in Nat
      OBVIOUS
    <3> QED BY <3>1, <1>1, Monotone
  <2>2. k <= off + n => b <= count
    <3>1. k \in Nat /\ off + n \in Nat
      BY <1>1
    <3> QED BY <3>1, <1>2, Monotone
  <2>3. k <= sz \/ k <= off + n
    BY DEF sz, off
  <2> HIDE DEF b
  <2> QED BY <2>1, <2>2, <2>3, <1>1, <1>3, <1>4
<1>7. Written(i, data)[b][j] = IF here = {} THEN old ELSE data[CHOOSE l \in here : TRUE]
  <2>1. b \in 1 .. Greater(Kept(i), In(i, n, n))
    BY <1>3, <1>4, <1>6 DEF BlocksAfter, count
  <2> HIDE DEF b, j
  <2> QED BY <1>4, <1>5, <2>1 DEF Written, last
<1>8. \A l \in here : off + l = k
  <2> SUFFICES ASSUME NEW l \in here PROVE off + l = k
    OBVIOUS
  <2>1. l \in 1 .. n /\ BlockCount(off + l) = b /\ LastOccupied(off + l) = j
    BY <1>2
  <2>2. off + l \in Nat \ {0} /\ k \in Nat \ {0}
    BY <2>1, <1>1
  <2> QED BY <2>1, <2>2, Apart
<1>9. CASE k > off /\ k <= off + n
  <2>1. k - off \in 1 .. n /\ off + (k - off) = k
    BY <1>1, <1>9
  <2>2. In(i, n, k - off) = b /\ At(i, n, k - off) = j
    BY <1>2, <2>1
  <2>3. k - off \in here
    BY <2>1, <2>2
  <2>4. (CHOOSE l \in here : TRUE) \in here
    <3> HIDE DEF here
    <3> QED BY <2>3, Zenon
  <2>5. (CHOOSE l \in here : TRUE) = k - off
    <3> DEFINE c == CHOOSE l \in here : TRUE
    <3>1. c \in 1 .. n /\ off + c = k
      BY <2>4, <1>8
    <3> HIDE DEF c, here
    <3>2. c = k - off
      BY <3>1, <1>1
    <3> QED BY <3>2 DEF c
  <2>6. Written(i, data)[b][j] = data[k - off]
    <3> HIDE DEF here
    <3> QED BY <1>7, <2>3, <2>5
  <2> QED BY <2>6, <1>6, <1>9 DEF off, count
<1>10. CASE ~ (k > off /\ k <= off + n)
  <2>1. here = {}
    <3> SUFFICES ASSUME NEW l \in here PROVE FALSE
      OBVIOUS
    <3>1. l \in 1 .. n /\ off + l = k
      BY <1>8
    <3> HIDE DEF here
    <3> QED BY <3>1, <1>1, <1>10
  <2>2. k <= sz
    <3>1. k <= sz \/ k <= off + n
      BY DEF sz, off
    <3>2. ~ (k > off) => k <= sz
      <4>1. dfile[i] # None
        BY ConstantsAssumption
      <4>2. off <= sz
        BY <4>1 DEF ChainMatchesSize, off, sz
      <4> QED BY <4>2, <1>1
    <3> QED BY <3>1, <3>2, <1>10, <1>1
  <2>3. old = memory[f][b][j]
    BY <2>2, <1>6
  <2>4. Written(i, data)[b][j] = memory[f][b][j]
    <3> HIDE DEF here, old
    <3> QED BY <1>7, <2>1, <2>3
  <2> QED BY <2>4, <1>6, <1>10 DEF off, count
<1> QED BY <1>9, <1>10

(* A write puts the buffer over the bytes of the file from the offset on.    *)
LEMMA WriteStore ==
  ASSUME Stored, Stored', ~ Overwriting, NEW fd \in Descriptors, NEW data \in Buffers, Write(fd, data)
  PROVE  /\ fd - 1 \in Slots
         /\ \E n \in 1 .. MaxRequest : data \in [1 .. n -> AnyByte]
         /\ Store!Write(fd - 1, data)
<1> DEFINE i == fd - 1
<1>0. i \in Slots /\ dfile[i] \in Files
  BY OpenDescriptor DEF Write, Stored, Exact
<1>f. PICK f \in Files : dfile[i] = f
  BY <1>0
<1>1. i \in Slots /\ f \in Files /\ dfile[i] = f /\ dfile[i] # None
  BY <1>0, <1>f, ConstantsAssumption
<1> DEFINE old == Flat(memory[f], size[f])
           new == Flat(memory'[f], size'[f])
           off == offset[i]
<1>2. PICK n \in 1 .. MaxRequest : data \in [1 .. n -> Bytes]
  BY DEF Buffers
<1>3. n \in Nat \ {0} /\ data \in [1 .. n -> AnyByte] /\ Len(data) = n
  <2>1. data \in Seq(Bytes)
    BY <1>2, SeqDef
  <2>2. Len(data) = n
    BY <1>2, <2>1, LenProperties
  <2> QED BY <1>2, <2>2, ConstantsAssumption DEF AnyByte
<1>4. /\ InPlace(i) \/ Current(i) > Len(occupied[f])
      /\ memory' = [memory EXCEPT ![f] = Written(i, data)]
      /\ occupied' = [occupied EXCEPT ![f] = Occupied(i, n)]
      /\ offset' = [offset EXCEPT ![i] = @ + n]
      /\ size' = [size EXCEPT ![f] = Greater(size[f], offset[i] + n)]
      /\ Replies(<<"write", n>>, n)
      /\ UNCHANGED <<file_list, name, is_ghost, dfile, open_flags>> /\ CanWrite(i)
  BY <1>1, <1>3 DEF Write, SizeAfter
<1>5. /\ memory \in [Files -> Seq(Block)] /\ occupied \in [Files -> Seq(1 .. BLOCK_SIZE)]
      /\ size \in [Files -> Nat] /\ offset \in [Slots -> Nat]
      /\ Contents /\ ChainMatchesSize
  BY DEF Stored, Exact, Contents
<1> HIDE DEF i
<1>6. /\ memory'[f] = Written(i, data) /\ size'[f] = Greater(size[f], offset[i] + n)
      /\ \A g \in Files \ {f} : memory'[g] = memory[g] /\ occupied'[g] = occupied[g]
  BY <1>1, <1>4, <1>5
<1>7. new = Store!Patched(old, off, data)
  <2> DEFINE sz == size[f]
             top == Greater(sz, off + n)
  <2>1. off \in Nat /\ sz \in Nat
    BY <1>1, <1>5
  <2>2. Len(old) = sz /\ \A k \in 1 .. sz : old[k] = memory[f][BlockCount(k)][LastOccupied(k)]
    <3>1. memory[f] \in Seq(Block) /\ BlockCount(sz) <= Len(memory[f])
      <4>1. Len(memory[f]) = Len(occupied[f]) /\ Len(occupied[f]) = BlockCount(sz)
        BY <1>1, <1>5 DEF Contents, ChainMatchesSize
      <4>2. BlockCount(sz) \in Nat
        BY <2>1, Counting
      <4> QED BY <4>1, <4>2, <1>1, <1>5
    <3> HIDE DEF sz
    <3> QED BY <3>1, <2>1, FlatBytes DEF sz
  <2>3. new = [k \in 1 .. top |-> Written(i, data)[BlockCount(k)][LastOccupied(k)]]
    BY <1>6 DEF Flat
  <2> HIDE DEF new, old
  <2>4. top = (IF off + n > sz THEN off + n ELSE sz) /\ top \in Nat
    BY <1>3, <2>1 DEF Greater
  <2>5. \A k \in 1 .. top : Written(i, data)[BlockCount(k)][LastOccupied(k)] =
          IF k > off /\ k <= off + n THEN data[k - off] ELSE old[k]
    <3> SUFFICES ASSUME NEW k \in 1 .. top
                 PROVE  Written(i, data)[BlockCount(k)][LastOccupied(k)] =
                          IF k > off /\ k <= off + n THEN data[k - off] ELSE old[k]
      OBVIOUS
    <3>1. k \in Nat \ {0} /\ (k <= sz \/ k <= off + n)
      BY <2>1, <2>4, <1>3
    <3>2. Written(i, data)[BlockCount(k)][LastOccupied(k)] =
            IF k > off /\ k <= off + n THEN data[k - off]
            ELSE memory[f][BlockCount(k)][LastOccupied(k)]
      <4>1. Contents /\ ChainMatchesSize /\ dfile[i] = f /\ n \in Nat \ {0}
            /\ i \in Slots /\ f \in Files /\ data \in [1 .. n -> Bytes]
            /\ (InPlace(i) \/ Current(i) > Len(occupied[f]))
        BY <1>1, <1>2, <1>3, <1>4, <1>5
      <4>2. k \in Nat \ {0} /\ (k <= size[f] \/ k <= offset[i] + n)
        BY <3>1
      <4> QED BY <4>1, <4>2, WriteBytes
    <3>3. ~ (k > off /\ k <= off + n) => k \in 1 .. sz
      <4>1. off <= sz
        BY <1>1, <1>5 DEF ChainMatchesSize
      <4> HIDE DEF off, sz
      <4> QED BY <4>1, <3>1, <2>1, <1>3
    <3> QED BY <3>2, <3>3, <2>2
  <2>6. Store!Patched(old, off, data) =
          [k \in 1 .. top |-> IF k > off /\ k <= off + n THEN data[k - off] ELSE old[k]]
    <3> HIDE DEF top, sz, off
    <3>1. Store!Patched(old, off, data) =
            [k \in 1 .. (IF off + n > sz THEN off + n ELSE sz) |->
               IF k > off /\ k <= off + n THEN data[k - off] ELSE old[k]]
      BY <1>3, <2>2 DEF Store!Patched
    <3> QED BY <3>1, <2>4
  <2> HIDE DEF top, off
  <2> QED BY <2>3, <2>5, <2>6
<1>8. AllContent' = [AllContent EXCEPT ![f] = Store!Patched(@, off, data)]
  <2>1. Content(f)' = new
    BY <1>1, ContentFlatNext
  <2>2. AllContent[f] = old
    BY <1>1, ContentFlat DEF AllContent
  <2> HIDE DEF old, new, off
  <2> DEFINE c == Store!Patched(old, off, data)
  <2>3. Content(f)' = c
    BY <2>1, <1>7
  <2> HIDE DEF c
  <2>4. AllContent' = [AllContent EXCEPT ![f] = c]
    BY <2>3, <1>1, <1>6, OneContent
  <2> QED BY <2>2, <2>4 DEF c
<1>9. Folder' = Folder
  BY <1>4, SameFolder
<1>r. "write" \in Rights[i] /\ Rights' = Rights
  BY <1>1, <1>4, RightsAllow, SameRights
<1>10. Store!Write(i, data)
  BY <1>1, <1>r, <1>3, <1>4, <1>8, <1>9
     DEF Store!Write, Store!Answer, Replies, Folder, AllContent, off
<1> QED BY <1>1, <1>2, <1>3, <1>10 DEF i

(* The bytes from the offset on, as many as are asked for and are there.     *)
LEMMA ReadStore ==
  ASSUME Stored, Stored', NEW fd \in Descriptors, NEW n \in 0 .. MaxRequest, Read(fd, n)
  PROVE  fd - 1 \in Slots /\ Store!Read(fd - 1, n)
<1> DEFINE i == fd - 1
<1>0. i \in Slots /\ dfile[i] \in Files
  BY OpenDescriptor DEF Read, Stored, Exact
<1>1. PICK f \in Files : dfile[i] = f
  BY <1>0
<1>2. PICK g : g = got'
  OBVIOUS
<1>3. /\ g = IF AtEnd(i) THEN <<>> ELSE ReadFrom(f, Current(i), offset[i], n)
      /\ ret' = Len(g) /\ asked' = <<"read", n>>
      /\ offset' = [offset EXCEPT ![i] = offset[i] + Len(g)]
      /\ UNCHANGED <<fileVars, dfile, open_flags, ufs_error_code>> /\ CanRead(i)
  BY <1>1, <1>2 DEF Read
<1>r. "read" \in Rights[i] /\ Rights' = Rights
  BY <1>0, <1>3, RightsAllow, SameRights
<1> HIDE DEF i
<1> DEFINE sz == size[f]
           off == offset[i]
           old == Flat(memory[f], size[f])
           end == IF off + n > Len(old) THEN Len(old) ELSE off + n
<1>4. /\ off \in Nat /\ sz \in Nat /\ off <= sz /\ n \in Nat
      /\ memory[f] \in Seq(Block) /\ Len(occupied[f]) = BlockCount(sz)
      /\ Len(memory[f]) = BlockCount(sz) /\ BlockCount(sz) \in Nat
  <2>1. f # None
    BY ConstantsAssumption
  <2>2. /\ off \in Nat /\ sz \in Nat /\ off <= sz /\ n \in Nat
        /\ memory[f] \in Seq(Block) /\ Len(occupied[f]) = BlockCount(sz)
        /\ Len(memory[f]) = BlockCount(sz)
    BY <1>0, <1>1, <2>1, ConstantsAssumption DEF Stored, Exact, Contents, ChainMatchesSize
  <2>3. BlockCount(sz) \in Nat
    BY <2>2, Counting
  <2> QED BY <2>2, <2>3
<1>5. old \in Seq(AnyByte) /\ Len(old) = sz
  <2>1. BlockCount(sz) <= Len(memory[f])
    BY <1>4
  <2> HIDE DEF sz
  <2> QED BY <1>4, <2>1, FlatBytes DEF sz
<1> DEFINE L == Len(g)
<1>6. /\ L \in Nat /\ L <= n /\ off + L <= sz
      /\ L = n \/ off + L = sz
      /\ \A j \in 1 .. L : g[j] = old[off + j]
      /\ g \in Seq(AnyByte)
  <2>1. CASE AtEnd(i)
    <3>1. g = <<>> /\ L = 0 /\ g \in Seq(AnyByte)
      BY <1>3, <2>1
    <3>2. off = sz
      <4>1. CASE off >= sz
        BY <4>1, <1>4
      <4>2. CASE Current(i) > Len(occupied[f])
        <5> DEFINE d == off \div BLOCK_SIZE
        <5>1. d \in Nat /\ d + 1 > BlockCount(sz)
          BY <4>2, <1>4, Division DEF Current
        <5> HIDE DEF d
        <5>2. BlockCount(sz) <= d
          BY <5>1, <1>4
        <5>3. sz <= BLOCK_SIZE * d /\ BLOCK_SIZE * d \in Nat
          BY <5>1, <5>2, <1>4, Counting, Blocks
        <5>4. BLOCK_SIZE * d <= off
          BY <5>1, <1>4, Quotient DEF d
        <5> QED BY <5>3, <5>4, <1>4
      <4> QED BY <4>1, <4>2, <2>1, <1>1 DEF AtEnd
    <3> HIDE DEF L, off, sz, old
    <3> QED BY <3>1, <3>2, <1>4
  <2>2. CASE ~ AtEnd(i)
    <3>1. g = ReadFrom(f, Current(i), off, n)
      BY <1>3, <2>2
    <3>2. Current(i) <= Len(occupied[f]) /\ Current(i) \in Nat \ {0} /\ off \div BLOCK_SIZE + 1 = Current(i)
      <4>1. off \div BLOCK_SIZE \in Nat
        BY <1>4, Division
      <4>2. Current(i) \in Nat \ {0} /\ off \div BLOCK_SIZE + 1 = Current(i)
        BY <4>1 DEF Current
      <4>3. ~ (Current(i) > Len(occupied[f]))
        BY <2>2, <1>1 DEF AtEnd
      <4> QED BY <4>2, <4>3, <1>4
    <3>3. Contents /\ FileExact(f)
      BY DEF Stored, Exact, ChainMatchesSize, FileExact
    <3>4. /\ L \in Nat /\ L <= n /\ off + L <= size[f]
          /\ L = n \/ off + L = size[f]
          /\ \A j \in 1 .. L : g[j] = Flat(memory[f], size[f])[off + j]
      <4>1. PICK first \in Nat \ {0}, start \in Nat : first = Current(i) /\ start = off
        BY <3>2, <1>4
      <4>2. /\ start \div BLOCK_SIZE + 1 = first /\ first <= Len(occupied[f]) /\ start <= size[f]
            /\ g = ReadFrom(f, first, start, n) /\ n \in Nat
        BY <3>1, <3>2, <4>1, <1>4
      <4> HIDE DEF off, sz, old, L
      <4>3. /\ Len(g) \in Nat /\ Len(g) <= n /\ start + Len(g) <= size[f]
            /\ (n <= Len(g) \/ size[f] <= start + Len(g))
            /\ BytesFrom(f, start, g)
        <5>1. first \in Nat \ {0} /\ start \in Nat
          OBVIOUS
        <5> QED BY <3>3, <4>2, <5>1, ReadStops
      <4>4. /\ L \in Nat /\ L <= n /\ off + L <= size[f]
            /\ (n <= L \/ size[f] <= off + L)
        BY <4>1, <4>3 DEF L
      <4>5. size[f] \in Nat /\ off \in Nat
        BY <1>4 DEF sz
      <4>6. L = n \/ off + L = size[f]
        BY <4>4, <4>5
      <4>7. \A j \in 1 .. L : g[j] = Flat(memory[f], size[f])[off + j]
        BY <4>1, <4>3 DEF L, BytesFrom
      <4> QED BY <4>4, <4>6, <4>7
    <3>5. g \in Seq(AnyByte)
      BY <1>2 DEF Stored, Exact, Contents
    <3> QED BY <3>4, <3>5
  <2> QED BY <2>1, <2>2
<1>7. end = off + L /\ end \in Nat /\ end <= sz
  <2>1. end = IF off + n > sz THEN sz ELSE off + n
    BY <1>5
  <2> HIDE DEF end, L, off, sz
  <2> QED BY <2>1, <1>4, <1>6
<1>8. g = SubSeq(old, off + 1, end)
  <2> DEFINE part == SubSeq(old, off + 1, end)
  <2> HIDE DEF end, L, off, sz, old
  <2>1. \A j \in off + 1 .. end : old[j] \in AnyByte
    <3> SUFFICES ASSUME NEW j \in off + 1 .. end PROVE old[j] \in AnyByte
      OBVIOUS
    <3>1. j \in 1 .. Len(old)
      BY <1>4, <1>5, <1>7
    <3> QED BY <3>1, <1>5, ElementOfSeq
  <2>2. off + 1 \in Int /\ end \in Int
    BY <1>4, <1>7
  <2>3. /\ part \in Seq(AnyByte)
        /\ Len(part) = IF off + 1 <= end THEN end - (off + 1) + 1 ELSE 0
        /\ \A j \in 1 .. end - (off + 1) + 1 : part[j] = old[(off + 1) + j - 1]
    BY <2>1, <2>2, SubSeqProperties
  <2> HIDE DEF part
  <2>4. end - (off + 1) + 1 = L /\ Len(part) = L
    BY <2>3, <1>4, <1>6, <1>7
  <2>5. ASSUME NEW j \in 1 .. L PROVE g[j] = part[j]
    <3>1. (off + 1) + j - 1 = off + j
      BY <1>4, <1>6
    <3> QED BY <3>1, <2>3, <2>4, <1>6
  <2>6. Len(g) = L
    BY DEF L
  <2>7. g = part
    BY <2>3, <2>4, <2>5, <2>6, <1>6, SeqEqual
  <2> QED BY <2>7 DEF part
<1>9. AllContent[f] = old
  BY ContentFlat DEF AllContent
<1>10. Folder' = Folder /\ AllContent' = AllContent
  <2>1. UNCHANGED <<file_list, is_ghost, name, memory, occupied>>
    BY <1>3 DEF fileVars
  <2> QED BY <2>1, SameFolder, SameContent
<1>11. L = end - off
  <2> HIDE DEF end, L, off, sz, old
  <2> QED BY <1>4, <1>6, <1>7
<1>12. Content(f) = old
  BY ContentFlat
<1>13. /\ dfile[i] # None /\ got' = SubSeq(old, off + 1, end) /\ ret' = end - off /\ asked' = <<"read", n>>
       /\ offset' = [offset EXCEPT ![i] = end] /\ UNCHANGED dfile
  <2>1. f # None
    BY ConstantsAssumption
  <2>2. offset' = [offset EXCEPT ![i] = off + L]
    BY <1>3
  <2> HIDE DEF end, off, old
  <2> QED BY <2>1, <2>2, <1>1, <1>2, <1>3, <1>7, <1>8, <1>11 DEF i
<1> HIDE DEF old, L
<1>14. Store!Read(i, n)
  BY <1>0, <1>1, <1>r, <1>3, <1>10, <1>12, <1>13 DEF Store!Read, Folder, AllContent
<1> QED BY <1>0, <1>14 DEF i

(* The bytes in blocks that are kept.                                        *)
LEMMA FlatSame ==
  ASSUME NEW m \in Seq(Block), NEW o \in Seq(Block), NEW s \in Nat,
         \A b \in 1 .. BlockCount(s) : o[b] = m[b]
  PROVE  Flat(o, s) = Flat(m, s)
<1>1. ASSUME NEW k \in 1 .. s PROVE o[BlockCount(k)] = m[BlockCount(k)]
  <2>1. k \in Nat /\ k # 0 /\ k <= s
    OBVIOUS
  <2>2. BlockCount(k) \in Nat /\ BlockCount(k) # 0 /\ BlockCount(k) <= BlockCount(s) /\ BlockCount(s) \in Nat
    BY <2>1, Counting, Monotone
  <2>3. BlockCount(k) \in 1 .. BlockCount(s)
    BY <2>2
  <2> QED BY <2>3
<1> QED BY <1>1 DEF Flat

(* Fewer of the bytes.                                                       *)
LEMMA FlatPart ==
  ASSUME NEW m \in Seq(Block), NEW s \in Nat, NEW t \in Nat, t <= s, BlockCount(s) <= Len(m)
  PROVE  SubSeq(Flat(m, s), 1, t) = Flat(m, t)
<1>1. BlockCount(t) <= Len(m)
  <2>1. Len(m) \in Nat
    BY LenProperties
  <2> QED BY <2>1, Monotone
<1> DEFINE a == Flat(m, s)
           b == Flat(m, t)
<1>2. /\ a \in Seq(AnyByte) /\ Len(a) = s /\ b \in Seq(AnyByte) /\ Len(b) = t
      /\ \A k \in 1 .. s : a[k] = m[BlockCount(k)][LastOccupied(k)]
      /\ \A k \in 1 .. t : b[k] = m[BlockCount(k)][LastOccupied(k)]
  BY <1>1, FlatBytes
<1> HIDE DEF a, b
<1>3. ASSUME NEW j \in 1 .. t PROVE a[j] \in AnyByte /\ a[j] = b[j]
  <2>1. j \in 1 .. Len(a)
    BY <1>2
  <2>2. a[j] \in AnyByte
    BY <2>1, <1>2, ElementOfSeq
  <2>3. j \in 1 .. s
    OBVIOUS
  <2> QED BY <2>2, <2>3, <1>2
<1> DEFINE c == SubSeq(a, 1, t)
<1>4. /\ c \in Seq(AnyByte) /\ Len(c) = IF 1 <= t THEN t - 1 + 1 ELSE 0
      /\ \A j \in 1 .. t - 1 + 1 : c[j] = a[1 + j - 1]
  <2>1. 1 \in Int /\ t \in Int
    OBVIOUS
  <2> QED BY <1>3, <2>1, SubSeqProperties
<1> HIDE DEF c
<1>5. Len(c) = t /\ t - 1 + 1 = t
  BY <1>4
<1>6. ASSUME NEW j \in 1 .. t PROVE c[j] = b[j]
  <2>1. 1 + j - 1 = j
    OBVIOUS
  <2> QED BY <2>1, <1>3, <1>4, <1>5
<1>7. c = b
  BY <1>2, <1>4, <1>5, <1>6, SeqEqual
<1> QED BY <1>7 DEF a, b, c

(* A file that gets shorter keeps the bytes up to its new end.               *)
LEMMA ShrinkStore ==
  ASSUME Stored, Stored', ~ ReadersResize,
         NEW fd \in Descriptors, NEW new \in Nat, Shrink(fd, new)
  PROVE  fd - 1 \in Slots /\ new \in 0 .. MAX_FILE_SIZE /\ Store!Resize(fd - 1, new)
<1> DEFINE i == fd - 1
<1>0. i \in Slots /\ dfile[i] \in Files
  BY OpenDescriptor DEF Shrink, MayResize, Stored, Exact
<1>1. PICK f \in Files : dfile[i] = f
  BY <1>0
<1>2. PICK kept : kept = Len(occupied[f]) - (BlockCount(size[f]) - BlockCount(new))
  OBVIOUS
<1>r. "write" \in Rights[i] /\ Rights' = Rights
  BY <1>0, RightsAllow, SameRights DEF Shrink, MayResize
<1>3. /\ new < size[f]
      /\ memory' = [memory EXCEPT ![f] = SubSeq(@, 1, kept)]
      /\ \E o : occupied' = [occupied EXCEPT ![f] = o]
      /\ size' = [size EXCEPT ![f] = IF kept = 0 THEN 0 ELSE new]
      /\ offset' = Clamped(f, new)
      /\ Replies(<<"resize", new>>, 0) /\ UNCHANGED <<file_list, is_ghost, name, dfile>>
  BY <1>1, <1>2 DEF Shrink
<1> HIDE DEF i
<1>4. /\ f # None /\ size \in [Files -> Nat] /\ offset \in [Slots -> Nat]
      /\ memory \in [Files -> Seq(Block)] /\ occupied = [g \in Files |-> occupied[g]]
      /\ Len(occupied[f]) = BlockCount(size[f]) /\ Len(memory[f]) = BlockCount(size[f])
      /\ size[f] <= MAX_FILE_SIZE /\ MAX_FILE_SIZE \in Nat
      /\ memory' \in [Files -> Seq(Block)]
  BY ConstantsAssumption DEF Stored, Exact, Contents, ChainMatchesSize, Bounded
<1>5. kept = BlockCount(new) /\ kept \in Nat /\ (kept = 0 => new = 0) /\ kept <= Len(memory[f])
  <2>1. size[f] \in Nat /\ new <= size[f]
    BY <1>3, <1>4
  <2>2. /\ BlockCount(new) \in Nat /\ BlockCount(size[f]) \in Nat
        /\ BlockCount(new) <= BlockCount(size[f])
        /\ (BlockCount(new) = 0 => new = 0)
    BY <2>1, Counting, Monotone
  <2>3. kept = BlockCount(new)
    BY <1>2, <1>4, <2>2
  <2> QED BY <1>4, <2>2, <2>3
<1>6. /\ size'[f] = new /\ memory'[f] = SubSeq(memory[f], 1, kept)
      /\ \A g \in Files \ {f} : memory'[g] = memory[g] /\ occupied'[g] = occupied[g]
  BY <1>3, <1>4, <1>5
<1>7. memory[f] \in Seq(Block) /\ memory'[f] \in Seq(Block)
  BY <1>4
<1>8. \A b \in 1 .. BlockCount(new) : memory'[f][b] = memory[f][b]
  <2>1. \A b \in 1 .. kept : memory[f][b] \in Block
    <3> SUFFICES ASSUME NEW b \in 1 .. kept PROVE memory[f][b] \in Block
      OBVIOUS
    <3>1. b \in 1 .. Len(memory[f])
      BY <1>5, <1>7, LenProperties
    <3> QED BY <3>1, <1>7, ElementOfSeq
  <2>2. 1 \in Int /\ kept \in Int
    BY <1>5
  <2>3. \A b \in 1 .. kept - 1 + 1 : SubSeq(memory[f], 1, kept)[b] = memory[f][1 + b - 1]
    BY <2>1, <2>2, SubSeqProperties
  <2>4. kept - 1 + 1 = kept /\ \A b \in 1 .. kept : 1 + b - 1 = b
    BY <1>5
  <2> QED BY <2>3, <2>4, <1>5, <1>6
<1> DEFINE old == Flat(memory[f], size[f])
<1>9. Content(f)' = SubSeq(old, 1, new)
  <2>1. Content(f)' = Flat(memory'[f], new)
    BY <1>6, ContentFlatNext
  <2>2. Flat(memory'[f], new) = Flat(memory[f], new)
    BY <1>7, <1>8, FlatSame
  <2>3. SubSeq(old, 1, new) = Flat(memory[f], new)
    <3>1. size[f] \in Nat /\ new <= size[f]
      BY <1>3, <1>4
    <3>2. BlockCount(size[f]) \in Nat
      BY <3>1, Counting
    <3>3. BlockCount(size[f]) <= Len(memory[f])
      BY <3>2, <1>4
    <3> QED BY <3>1, <3>3, <1>7, FlatPart
  <2> QED BY <2>1, <2>2, <2>3
<1>10. old = AllContent[f] /\ old = Content(f) /\ Len(old) = size[f]
  <2>1. old = Content(f)
    BY ContentFlat
  <2>2. size[f] \in Nat /\ BlockCount(size[f]) \in Nat
    BY <1>4, Counting
  <2>3. BlockCount(size[f]) <= Len(memory[f])
    BY <1>4, <2>2
  <2>4. Len(old) = size[f]
    BY <1>7, <2>2, <2>3, FlatBytes
  <2> QED BY <2>1, <2>4 DEF AllContent
<1> HIDE DEF old
<1>11. AllContent' = [AllContent EXCEPT ![f] = SubSeq(old, 1, new)]
  <2> DEFINE c == SubSeq(old, 1, new)
  <2>1. Content(f)' = c
    BY <1>9
  <2> HIDE DEF c
  <2>2. AllContent' = [AllContent EXCEPT ![f] = c]
    BY <2>1, <1>6, OneContent
  <2> QED BY <2>2 DEF c
<1>12. new <= Len(old) /\ new \in 0 .. MAX_FILE_SIZE
  BY <1>3, <1>4, <1>10
<1>13. offset' = [j \in Slots |-> IF dfile[j] = f /\ offset[j] > new THEN new ELSE offset[j]]
  <2>1. \A j \in Slots : (IF dfile[j] = f THEN Lesser(offset[j], new) ELSE offset[j]) =
                         (IF dfile[j] = f /\ offset[j] > new THEN new ELSE offset[j])
    <3> SUFFICES ASSUME NEW j \in Slots, NEW o \in Nat, o = offset[j]
                 PROVE  (IF dfile[j] = f THEN Lesser(o, new) ELSE o) =
                        (IF dfile[j] = f /\ o > new THEN new ELSE o)
      BY <1>4
    <3> QED BY DEF Lesser
  <2> QED BY <1>3, <2>1 DEF Clamped
<1>14. Folder' = Folder
  BY <1>3, SameFolder
<1>15. Store!Resize(i, new)
  BY <1>0, <1>1, <1>r, <1>3, <1>4, <1>10, <1>11, <1>12, <1>13, <1>14
     DEF Store!Resize, Store!Answer, Replies, Folder, AllContent
<1> QED BY <1>0, <1>12, <1>15 DEF i

(* A file that gets longer has the bytes that it had and some more.          *)
LEMMA GrowStore ==
  ASSUME Stored, Stored', ~ ReadersResize,
         NEW fd \in Descriptors, NEW new \in Nat, Grow(fd, new)
  PROVE  fd - 1 \in Slots /\ new \in 0 .. MAX_FILE_SIZE /\ Store!Resize(fd - 1, new)
<1> DEFINE i == fd - 1
<1>0. i \in Slots /\ dfile[i] \in Files
  BY OpenDescriptor DEF Grow, MayResize, Stored, Exact
<1>1. PICK f \in Files : dfile[i] = f
  BY <1>0
<1>r. "write" \in Rights[i] /\ Rights' = Rights
  BY <1>0, RightsAllow, SameRights DEF Grow, MayResize, descVars
<1>2. PICK count, m :
        /\ count = Len(occupied[f]) + BlockCount(new) - BlockCount(size[f])
        /\ m = [b \in 1 .. count |-> IF b <= Len(occupied[f]) THEN memory[f][b]
                                     ELSE [j \in 1 .. BLOCK_SIZE |-> Zero]]
  OBVIOUS
<1>4. /\ f # None /\ size \in [Files -> Nat] /\ offset \in [Slots -> Nat]
      /\ memory \in [Files -> Seq(Block)] /\ occupied = [g \in Files |-> occupied[g]]
      /\ Len(occupied[f]) = BlockCount(size[f]) /\ Len(memory[f]) = BlockCount(size[f])
      /\ MAX_FILE_SIZE \in Nat
      /\ memory' \in [Files -> Seq(Block)]
  BY ConstantsAssumption DEF Stored, Exact, Contents, ChainMatchesSize
<1>3. /\ new > size[f] /\ new <= MAX_FILE_SIZE
      /\ memory' = [memory EXCEPT ![f] = m]
      /\ \E o : occupied' = [occupied EXCEPT ![f] = o]
      /\ size' = [size EXCEPT ![f] = new]
      /\ Replies(<<"resize", new>>, 0) /\ UNCHANGED <<file_list, is_ghost, name, dfile, offset>>
  <2>1. /\ new > size[f] /\ new <= MAX_FILE_SIZE
        /\ \E o : occupied' = [occupied EXCEPT ![f] = o]
        /\ size' = [size EXCEPT ![f] = new]
        /\ Replies(<<"resize", new>>, 0) /\ UNCHANGED <<file_list, is_ghost, name, dfile, offset>>
    BY <1>1 DEF Grow, descVars
  <2>2. memory' = [memory EXCEPT ![f] =
          [b \in 1 .. count |-> IF b <= Len(occupied[f]) THEN memory[f][b]
                                ELSE [j \in 1 .. BLOCK_SIZE |-> Zero]]]
    BY <1>1, <1>2, <1>4 DEF Grow
  <2> QED BY <1>2, <2>1, <2>2
<1> HIDE DEF i
<1>5. PICK sz \in Nat, p \in Nat : sz = size[f] /\ p > 0 /\ sz + p = new
  <2>1. size[f] \in Nat /\ new - size[f] \in Nat /\ new - size[f] > 0 /\ size[f] + (new - size[f]) = new
    BY <1>3, <1>4
  <2> QED BY <2>1
<1>6. /\ BlockCount(sz) \in Nat /\ BlockCount(new) \in Nat /\ BlockCount(sz) <= BlockCount(new)
      /\ count = BlockCount(new)
  <2>1. BlockCount(sz) \in Nat /\ BlockCount(new) \in Nat /\ BlockCount(sz) <= BlockCount(new)
    BY <1>5, Monotone
  <2> QED BY <2>1, <1>2, <1>4, <1>5
<1>7. /\ size'[f] = new /\ memory'[f] = m
      /\ \A g \in Files \ {f} : memory'[g] = memory[g] /\ occupied'[g] = occupied[g]
  BY <1>3, <1>4
<1>8. memory[f] \in Seq(Block) /\ m \in Seq(Block)
  BY <1>4, <1>7
<1>9. Len(m) = BlockCount(new) /\ \A b \in 1 .. BlockCount(sz) : m[b] = memory[f][b]
  <2>1. m = [b \in 1 .. count |-> m[b]] /\ \A b \in 1 .. count : m[b] \in Block
    <3>1. m = [b \in 1 .. count |-> m[b]] /\ DOMAIN m = 1 .. count
      BY <1>2
    <3>2. DOMAIN m = 1 .. Len(m)
      BY <1>8, LenProperties
    <3>3. \A b \in 1 .. Len(m) : m[b] \in Block
      BY <1>8, ElementOfSeq
    <3> QED BY <3>1, <3>2, <3>3
  <2>2. Len(m) = count
    BY <2>1, <1>6, Chains
  <2>3. ASSUME NEW b \in 1 .. BlockCount(sz) PROVE m[b] = memory[f][b]
    <3>1. b \in 1 .. count /\ b <= Len(occupied[f])
      BY <1>4, <1>5, <1>6
    <3> QED BY <3>1, <1>2
  <2> QED BY <2>2, <2>3, <1>6
<1> DEFINE old == Flat(memory[f], sz)
           more == [j \in 1 .. p |-> m[BlockCount(sz + j)][LastOccupied(sz + j)]]
<1>10. old = Flat(m, sz)
  BY <1>8, <1>9, FlatSame
<1>11. more \in [1 .. p -> AnyByte] /\ more \in Seq(AnyByte) /\ Len(more) = p
  <2>1. \A k \in 1 .. sz + p : m[BlockCount(k)][LastOccupied(k)] \in AnyByte
    <3>1. BlockCount(sz + p) <= Len(m) /\ sz + p \in Nat
      BY <1>5, <1>6, <1>9
    <3> QED BY <3>1, <1>8, FlatBytes
  <2>2. \A j \in 1 .. p : sz + j \in 1 .. sz + p
    OBVIOUS
  <2>3. \A j \in 1 .. p : more[j] \in AnyByte
    BY <2>1, <2>2
  <2>4. more = [j \in 1 .. p |-> more[j]]
    OBVIOUS
  <2> HIDE DEF more
  <2> QED BY <2>3, <2>4, Chains
<1>12. old \o more = Flat(m, new)
  <2>1. \A j \in 1 .. p : more[j] = m[BlockCount(sz + j)][LastOccupied(sz + j)]
    OBVIOUS
  <2>2. BlockCount(sz + p) <= Len(m)
    BY <1>5, <1>6, <1>9
  <2> HIDE DEF more, old
  <2>3. Flat(m, sz) \o more = Flat(m, sz + p)
    BY <2>1, <2>2, <1>8, <1>11, FlatMore
  <2> QED BY <2>3, <1>5, <1>10
<1>13. Content(f)' = old \o more
  <2>1. Content(f)' = Flat(m, new)
    BY <1>7, ContentFlatNext
  <2> QED BY <2>1, <1>12
<1>14. old = AllContent[f] /\ old = Content(f) /\ Len(old) = sz
  <2>1. old = Content(f)
    BY <1>5, ContentFlat
  <2>2. BlockCount(sz) <= Len(memory[f])
    BY <1>4, <1>5, <1>6
  <2>3. Len(old) = sz
    BY <1>8, <2>2, FlatBytes
  <2> QED BY <2>1, <2>3 DEF AllContent
<1> HIDE DEF old, more
<1>15. AllContent' = [AllContent EXCEPT ![f] = old \o more]
  <2> DEFINE c == old \o more
  <2>1. Content(f)' = c
    BY <1>13
  <2> HIDE DEF c
  <2>2. AllContent' = [AllContent EXCEPT ![f] = c]
    BY <2>1, <1>7, OneContent
  <2> QED BY <2>2 DEF c
<1>16. ~ (new <= Len(old)) /\ new \in 0 .. MAX_FILE_SIZE /\ new - Len(old) = p
  BY <1>3, <1>4, <1>5, <1>14
<1>17. offset' = [j \in Slots |-> IF dfile[j] = f /\ offset[j] > new THEN new ELSE offset[j]]
  <2>1. ASSUME NEW j \in Slots PROVE ~ (dfile[j] = f /\ offset[j] > new)
    <3>1. CASE dfile[j] = f
      <4>1. offset[j] <= sz /\ offset[j] \in Nat
        BY <3>1, <1>4, <1>5 DEF Stored, Exact, ChainMatchesSize
      <4> QED BY <4>1, <1>5
    <3> QED BY <3>1
  <2>2. offset' = [j \in Slots |-> offset[j]]
    BY <1>3, <1>4
  <2> QED BY <2>1, <2>2
<1>18. Folder' = Folder
  BY <1>3, SameFolder
<1>19. \E x \in [1 .. new - Len(old) -> AnyByte] : AllContent' = [AllContent EXCEPT ![f] = old \o x]
  BY <1>11, <1>15, <1>16
<1>20. Store!Resize(i, new)
  BY <1>0, <1>1, <1>r, <1>3, <1>4, <1>14, <1>16, <1>17, <1>18, <1>19
     DEF Store!Resize, Store!Answer, Replies, Folder, AllContent
<1> QED BY <1>0, <1>16, <1>20 DEF i

(* Lines 424-426: a file that is resized to its size stays as it is.         *)
LEMMA SameSizeStore ==
  ASSUME Stored, Stored', ~ ReadersResize, NEW fd \in Descriptors, ResizeSame(fd)
  PROVE  \E i \in Slots, n \in 0 .. MAX_FILE_SIZE : Store!Resize(i, n)
<1>0. fd - 1 \in Slots /\ dfile[fd - 1] \in Files
  BY OpenDescriptor DEF ResizeSame, MayResize, Stored, Exact
<1>1. PICK i \in Slots, f \in Files, n \in Nat : i = fd - 1 /\ f = dfile[i] /\ n = size[f]
  <2>1. size[dfile[fd - 1]] \in Nat
    BY <1>0 DEF Stored, Exact, Contents
  <2> QED BY <1>0, <2>1
<1>2. /\ Replies(<<"resize", n>>, 0) /\ CanWrite(i) /\ UNCHANGED <<fileVars, descVars>>
  BY <1>1 DEF ResizeSame, MayResize
<1>3. /\ UNCHANGED <<file_list, is_ghost, name, memory, occupied, dfile, open_flags, offset>>
  BY <1>2 DEF fileVars, descVars
<1>4. /\ Folder' = Folder /\ AllContent' = AllContent /\ Rights' = Rights /\ "write" \in Rights[i]
  BY <1>2, <1>3, SameFolder, SameContent, SameRights, RightsAllow
<1>5. /\ f # None /\ n \in Nat /\ n \in 0 .. MAX_FILE_SIZE
      /\ offset \in [Slots -> Nat] /\ \A j \in Slots : dfile[j] = f => offset[j] <= n
      /\ memory[f] \in Seq(Block) /\ Len(memory[f]) = BlockCount(n)
  <2>1. f # None /\ MAX_FILE_SIZE \in Nat
    BY ConstantsAssumption
  <2>2. /\ size \in [Files -> Nat] /\ memory \in [Files -> Seq(Block)]
        /\ offset \in [Slots -> Nat] /\ \A g \in Files : Len(memory[g]) = Len(occupied[g])
        /\ \A g \in Files : Len(occupied[g]) = BlockCount(size[g])
        /\ \A j \in Slots : dfile[j] # None => offset[j] <= size[dfile[j]]
        /\ \A g \in Files : size[g] <= MAX_FILE_SIZE
    BY DEF Stored, Exact, Contents, ChainMatchesSize, Bounded
  <2>3. n <= MAX_FILE_SIZE /\ memory[f] \in Seq(Block) /\ Len(memory[f]) = BlockCount(n)
    BY <1>1, <2>2
  <2>4. \A j \in Slots : dfile[j] = f => offset[j] <= n
    BY <1>1, <2>1, <2>2
  <2> QED BY <2>1, <2>2, <2>3, <2>4
<1>6. PICK old : old = Flat(memory[f], n)
  OBVIOUS
<1>7. Content(f) = old /\ AllContent[f] = old
  BY <1>1, <1>6, ContentFlat DEF AllContent
<1>8. Len(old) = n /\ SubSeq(old, 1, n) = old
  <2>1. BlockCount(n) \in Nat /\ BlockCount(n) <= Len(memory[f]) /\ n <= n
    BY <1>5, Counting
  <2>2. Len(Flat(memory[f], n)) = n
    BY <1>5, <2>1, FlatBytes
  <2>3. SubSeq(Flat(memory[f], n), 1, n) = Flat(memory[f], n)
    BY <1>5, <2>1, FlatPart
  <2> QED BY <1>6, <2>2, <2>3
<1>9. AllContent' = [AllContent EXCEPT ![f] = SubSeq(old, 1, n)]
  <2>1. AllContent = [g \in Files |-> AllContent[g]]
    BY DEF AllContent
  <2> QED BY <1>4, <1>7, <1>8, <2>1
<1>10. offset' = [j \in Slots |-> IF dfile[j] = f /\ offset[j] > n THEN n ELSE offset[j]]
  <2>1. ASSUME NEW j \in Slots PROVE ~ (dfile[j] = f /\ offset[j] > n)
    <3>1. offset[j] \in Nat
      BY <1>5
    <3> QED BY <1>5, <3>1
  <2>2. offset' = [j \in Slots |-> offset[j]]
    BY <1>3, <1>5
  <2> QED BY <2>1, <2>2
<1>11. n <= Len(old)
  BY <1>5, <1>8
<1>12. Store!Resize(i, n)
  BY <1>1, <1>2, <1>3, <1>4, <1>5, <1>7, <1>9, <1>10, <1>11
     DEF Store!Resize, Store!Answer, Replies, Folder, AllContent
<1> QED BY <1>5, <1>12

(* There is nothing at first.                                                *)
LEMMA StoreInit ==
  ASSUME Init
  PROVE  Stored /\ Store!Init
<1>1. Exact
  BY InitExact
<1>2. Listed
  BY DEF Init, Listed
<1>3. Stored
  BY <1>1, <1>2 DEF Stored
<1>4. Folder = [n \in Names |-> None]
  <2>1. \A n \in Names : Lookup(n) = {}
    BY DEF Init, Lookup
  <2>2. \A n \in Names : Folder[n] = None
    BY <1>3, <2>1, FolderFinds
  <2>3. Folder = [n \in Names |-> Folder[n]]
    BY DEF Folder
  <2> HIDE DEF Folder
  <2> QED BY <2>2, <2>3
<1>5. AllContent = [f \in Files |-> <<>>]
  <2>1. ASSUME NEW f \in Files PROVE Content(f) = <<>>
    <3>1. memory[f] \in Seq(Block) /\ size[f] = 0
      BY <1>1 DEF Init, Exact, Contents
    <3>2. 0 \in Nat /\ BlockCount(0) <= Len(memory[f])
      BY <3>1, Zeros, LenProperties
    <3>3. Flat(memory[f], 0) \in Seq(AnyByte) /\ Len(Flat(memory[f], 0)) = 0
      BY <3>1, <3>2, FlatBytes
    <3>4. Flat(memory[f], 0) = <<>>
      BY <3>3, EmptySeq
    <3>5. Content(f) = Flat(memory[f], 0)
      BY <1>3, <3>1, ContentFlat
    <3> QED BY <3>4, <3>5
  <2> QED BY <2>1 DEF AllContent
<1>6. Rights = [i \in Slots |-> {}]
  BY DEF Init, Rights, CanRead, CanWrite
<1> QED BY <1>3, <1>4, <1>5, <1>6 DEF Init, Store!Init, Folder, AllContent

(* Every call does to the files what one of the calls of userfs.h does, or   *)
(* nothing.                                                                  *)
LEMMA StoreStep ==
  ASSUME Stored, Stored', ~ Overwriting, ~ ReadersResize, [Next]_vars
  PROVE  [Store!Next]_(Store!vars)
<1>1. ASSUME NEW n \in Names, NameCall(n)
      PROVE  \/ \E flags \in OpenFlags, f \in Files, i \in Slots : Open(n, flags, f, i)
             \/ Delete(n) \/ NoSuchFile(n)
  BY <1>1 DEF NameCall
<1>2. ASSUME NEW n \in Names, NoSuchFile(n) PROVE Store!Next
  <2>1. UNCHANGED <<fileVars, descVars>> /\ Fails("NO_FILE") /\ Reason("NO_FILE")
    BY <1>2 DEF NoSuchFile, Reason
  <2> QED BY <2>1, FailStore DEF Store!Next
<1>3. ASSUME NEW n \in Names, NameCall(n) PROVE Store!Next
  BY <1>1, <1>2, <1>3, OpenStore, DeleteStore DEF Store!Next
<1>4. ASSUME Destroy PROVE Store!Next
  BY <1>4, DestroyStore DEF Store!Next
<1>5. ASSUME NEW fd \in Descriptors, DescriptorCall(fd) PROVE Store!Next
  <2>1. CASE BadDescriptor(fd)
    <3>1. UNCHANGED <<fileVars, descVars>> /\ Fails("NO_FILE") /\ Reason("NO_FILE")
      BY <2>1 DEF BadDescriptor, Reason
    <3> QED BY <3>1, FailStore DEF Store!Next
  <2>2. CASE NoPermission(fd)
    <3>1. UNCHANGED <<fileVars, descVars>> /\ Fails("NO_PERMISSION") /\ Reason("NO_PERMISSION")
      BY <2>2 DEF NoPermission, Reason
    <3> QED BY <3>1, FailStore DEF Store!Next
  <2>3. CASE \E n \in 0 .. MaxRequest : WriteNoMem(fd, n)
    <3>1. UNCHANGED <<fileVars, descVars>> /\ Fails("NO_MEM") /\ Reason("NO_MEM")
      BY <2>3 DEF WriteNoMem, Reason
    <3> QED BY <3>1, FailStore DEF Store!Next
  <2>4. CASE \E new \in 0 .. MAX_FILE_SIZE + 1 : GrowNoMem(fd, new)
    <3>1. UNCHANGED <<fileVars, descVars>> /\ Fails("NO_MEM") /\ Reason("NO_MEM")
      BY <2>4 DEF GrowNoMem, MayResize, Reason
    <3> QED BY <3>1, FailStore DEF Store!Next
  <2>5. CASE Close(fd)
    BY <2>5, CloseStore DEF Store!Next
  <2>6. CASE \E data \in Buffers : Write(fd, data)
    BY <2>6, WriteStore DEF Store!Next
  <2>7. CASE \E n \in 0 .. MaxRequest : Read(fd, n)
    BY <2>7, ReadStore DEF Store!Next
  <2>8. CASE \E new \in 0 .. MAX_FILE_SIZE + 1 : Shrink(fd, new) \/ Grow(fd, new)
    <3>1. 0 .. MAX_FILE_SIZE + 1 \subseteq Nat
      BY ConstantsAssumption
    <3> QED BY <2>8, <3>1, ShrinkStore, GrowStore DEF Store!Next
  <2>9. CASE ResizeSame(fd)
    BY <2>9, SameSizeStore DEF Store!Next
  <2>10. CASE WriteNothing(fd)
    <3>1. fd - 1 \in Slots
      BY <2>10, OpenDescriptor DEF WriteNothing, IsOpen, Stored, Exact
    <3>2. "write" \in Rights[fd - 1]
      BY <2>10, <3>1, RightsAllow DEF WriteNothing
    <3>3. Store!WriteNothing(fd - 1)
      BY <2>10, <3>2, SameFiles DEF WriteNothing, Store!WriteNothing, Store!Answer, Replies
    <3> QED BY <3>1, <3>3 DEF Store!Next
  <2> QED BY <1>5, <2>1, <2>2, <2>3, <2>4, <2>5, <2>6, <2>7, <2>8, <2>9, <2>10 DEF DescriptorCall
<1>6. CASE UNCHANGED vars
  <2>1. UNCHANGED <<fileVars, descVars, ret, asked, got, ufs_error_code>>
    BY <1>6 DEF vars
  <2> QED BY <2>1, SameFiles DEF Store!vars
<1> QED BY <1>3, <1>4, <1>5, <1>6 DEF Next

(* userfs.c does what userfs.h says: a flat folder whose files are sequences *)
(* of bytes, each alive as long as a name or a descriptor leads to it; a     *)
(* read gets the bytes from where the descriptor stands on, a write puts its *)
(* buffer there, ufs_resize cuts the file or adds to it, each only through a *)
(* descriptor whose flags allow it, and a call that fails has no effect and  *)
(* the error code has a reason.  As long as no block that is full is written *)
(* into (lines 248-256), and nobody resizes a file through a descriptor that *)
(* may only read, which lines 409-424 do not refuse.                         *)
THEOREM StoreRefined ==
  ASSUME ~ Overwriting, ~ ReadersResize
  PROVE  Spec => ImplementsStore
<1>1. Init => Stored /\ Store!Init
  BY StoreInit
<1>2. Stored /\ [Next]_vars => Stored'
  BY ExactStep, ListedStep DEF Stored, Exact
<1>3. Stored /\ Stored' /\ [Next]_vars => [Store!Next]_(Store!vars)
  BY StoreStep
<1> QED BY <1>1, <1>2, <1>3, PTL DEF Spec, ImplementsStore, Store!Spec
=============================================================================
