-------------------------- MODULE ShellParserProof --------------------------
(***************************************************************************)
(* Proofs about ShellParser, for every alphabet, every input and reads of  *)
(* any size.                                                               *)
(***************************************************************************)
EXTENDS ShellParserProps, SequenceTheorems, WellFoundedInduction, TLAPS

-----------------------------------------------------------------------------
(* Minima, iteration *)

(* A nonempty set of numbers has a least element.                            *)
LEMMA Least ==
  ASSUME NEW T, T \subseteq Nat, T # {}
  PROVE  \E x \in T : \A y \in T : x <= y
<1>1. IsWellFoundedOn(OpToRel(<, Nat), Nat)
  BY NatLessThanWellFounded
<1>2. PICK x \in T : \A y \in T : ~ (<<y, x>> \in OpToRel(<, Nat))
  BY <1>1, WFMin, Zenon
<1>3. \A y \in T : <<y, x>> \in Nat \X Nat /\ ~ (y < x)
  BY <1>2, Zenon DEF OpToRel
<1>4. ASSUME NEW y \in T PROVE x <= y
  <2>1. x \in Nat /\ y \in Nat
    OBVIOUS
  <2>2. ~ (y < x)
    BY <1>3
  <2> QED BY <2>1, <2>2
<1> QED BY <1>4

(* A set of numbers with 0 and all successors of its members is Nat: the     *)
(* induction that the proofs about the loops of parser.c need.               *)
LEMMA Induction ==
  ASSUME NEW T, T \subseteq Nat, 0 \in T, \A n \in T : n + 1 \in T
  PROVE  T = Nat
<1> SUFFICES ASSUME Nat \ T # {} PROVE FALSE
  OBVIOUS
<1>1. PICK x \in Nat \ T : \A y \in Nat \ T : x <= y
  BY Least
<1>2. x # 0 /\ x - 1 \in Nat
  BY <1>1
<1>3. x - 1 \in T
  BY <1>1, <1>2
<1>4. (x - 1) + 1 = x
  BY <1>1
<1> QED BY <1>1, <1>3, <1>4

(* s[j] is what j steps make of first.                                       *)
Repeats(s, first, step) == s = [j \in Nat |-> IF j = 0 THEN first ELSE step[s[j - 1]]]

(* Repeating a step is a function: what a loop's state is after j turns.     *)
LEMMA Iteration ==
  ASSUME NEW S, NEW first \in S, NEW step \in [S -> S]
  PROVE  \E s \in [Nat -> S] : Repeats(s, first, step)
<1> DEFINE Is(h, n) == /\ h \in [0 .. n -> S] /\ h[0] = first
                       /\ \A j \in 1 .. n : h[j] = step[h[j - 1]]
           Reach == {n \in Nat : \E h \in [0 .. n -> S] : Is(h, n)}
<1>1. 0 \in Reach
  <2>1. Is([j \in 0 .. 0 |-> first], 0)
    OBVIOUS
  <2> QED BY <2>1
<1>2. ASSUME NEW n \in Reach PROVE n + 1 \in Reach
  <2>1. PICK h \in [0 .. n -> S] : Is(h, n)
    OBVIOUS
  <2> DEFINE g == [j \in 0 .. n + 1 |-> IF j <= n THEN h[j] ELSE step[h[n]]]
  <2>2. g \in [0 .. n + 1 -> S] /\ g[0] = first
    BY <2>1
  <2>3. ASSUME NEW j \in 1 .. n + 1 PROVE g[j] = step[g[j - 1]]
    BY <2>1
  <2>4. Is(g, n + 1)
    BY <2>2, <2>3
  <2>5. n + 1 \in Nat
    OBVIOUS
  <2> HIDE DEF Is, g
  <2> QED BY <2>2, <2>4, <2>5
<1>3. Reach = Nat
  <2> HIDE DEF Reach
  <2>1. Reach \subseteq Nat
    BY DEF Reach
  <2> QED BY <1>1, <1>2, <2>1, Induction
<1>4. ASSUME NEW m \in Nat, NEW n \in Nat, m <= n, NEW g, Is(g, m), NEW h, Is(h, n)
      PROVE  g[m] = h[m]
  <2> DEFINE Same == {j \in Nat : j <= m => g[j] = h[j]}
  <2>1. 0 \in Same
    BY <1>4
  <2>2. ASSUME NEW j \in Same PROVE j + 1 \in Same
    <3>1. CASE j + 1 <= m
      <4>1. g[j] = h[j] /\ j + 1 \in 1 .. m /\ j + 1 \in 1 .. n
        BY <3>1, <1>4
      <4>2. g[j + 1] = step[g[(j + 1) - 1]] /\ h[j + 1] = step[h[(j + 1) - 1]]
        BY <4>1, <1>4
      <4>3. (j + 1) - 1 = j
        OBVIOUS
      <4> QED BY <4>1, <4>2, <4>3
    <3>2. CASE ~ (j + 1 <= m)
      BY <3>2
    <3> QED BY <3>1, <3>2
  <2>3. Same = Nat
    <3> HIDE DEF Same
    <3>1. Same \subseteq Nat
      BY DEF Same
    <3> QED BY <2>1, <2>2, <3>1, Induction
  <2> QED BY <2>3
<1> DEFINE s == [n \in Nat |-> (CHOOSE h \in [0 .. n -> S] : Is(h, n))[n]]
<1>5. \A n \in Nat : \E h \in [0 .. n -> S] : Is(h, n) /\ s[n] = h[n]
  <2> SUFFICES ASSUME NEW n \in Nat PROVE \E h \in [0 .. n -> S] : Is(h, n) /\ s[n] = h[n]
    OBVIOUS
  <2>1. \E h \in [0 .. n -> S] : Is(h, n)
    BY <1>3
  <2> DEFINE c == CHOOSE h \in [0 .. n -> S] : Is(h, n)
  <2>2. c \in [0 .. n -> S] /\ Is(c, n)
    <3> HIDE DEF Is
    <3> QED BY <2>1, Zenon
  <2>3. s[n] = c[n]
    <3> HIDE DEF Is
    <3> QED OBVIOUS
  <2> HIDE DEF Is, c, s
  <2> QED BY <2>2, <2>3
<1>6. s \in [Nat -> S]
  <2>1. s = [n \in Nat |-> s[n]]
    <3> HIDE DEF Is
    <3> QED OBVIOUS
  <2> HIDE DEF Is, s
  <2>2. \A n \in Nat : s[n] \in S
    BY <1>5
  <2> QED BY <2>1, <2>2
<1> HIDE DEF s
<1>7. s[0] = first
  BY <1>5
<1>8. ASSUME NEW j \in Nat \ {0} PROVE s[j] = step[s[j - 1]]
  <2>1. PICK h \in [0 .. j -> S] : Is(h, j) /\ s[j] = h[j]
    BY <1>5
  <2>2. PICK g \in [0 .. j - 1 -> S] : Is(g, j - 1) /\ s[j - 1] = g[j - 1]
    <3> HIDE DEF Is
    <3>1. j - 1 \in Nat
      OBVIOUS
    <3> QED BY <3>1, <1>5
  <2>3. g[j - 1] = h[j - 1]
    <3> HIDE DEF Is
    <3>1. j - 1 \in Nat /\ j - 1 <= j
      OBVIOUS
    <3> QED BY <3>1, <2>1, <2>2, <1>4
  <2>4. j \in 1 .. j
    OBVIOUS
  <2> QED BY <2>1, <2>2, <2>3, <2>4
<1>9. s = [j \in Nat |-> IF j = 0 THEN first ELSE step[s[j - 1]]]
  BY <1>6, <1>7, <1>8
<1>10. Repeats(s, first, step)
  BY <1>9, Zenon DEF Repeats
<1> QED BY <1>6, <1>10

(* The states that the loops over characters, tokens and lines go through.   *)
Scans(run, buf, first) == run[0] = first /\ \A j \in Nat : run[j + 1] = Scan(buf, run[j])
Skips(run, buf, pos, res) ==
    run[0] = Reader(pos, EmptyLine, NoLine) /\ \A j \in Nat : run[j + 1] = Skip(buf, run[j], res)
Parses(run, buf) == run[0] = Reader(1, EmptyLine, NoLine) /\ \A j \in Nat : run[j + 1] = Parse(buf, run[j])
Pops(run, text) == run[0] = Popped(text, <<>>) /\ \A j \in Nat : run[j + 1] = PopAll(run[j])

(* The loop over characters: what a turn keeps always holds.                 *)
LEMMA ScanLoop ==
  ASSUME NEW buf, NEW I, NEW first \in I, \A s \in I : Scan(buf, s) \in I
  PROVE  \E run \in [Nat -> I] :
           /\ Scans(run, buf, first)
           /\ Scanned(buf, first) = run[Len(buf)].token
<1> DEFINE step == [s \in I |-> Scan(buf, s)]
<1>1. step \in [I -> I]
  OBVIOUS
<1>2. \A s \in I : step[s] = Scan(buf, s)
  OBVIOUS
<1> HIDE DEF step
<1>3. PICK g \in [Nat -> I] : g = [j \in Nat |-> IF j = 0 THEN first ELSE step[g[j - 1]]]
  <2>1. PICK g \in [Nat -> I] : Repeats(g, first, step)
    BY <1>1, Iteration, Zenon
  <2> QED BY <2>1, Zenon DEF Repeats
<1>4. \A j \in Nat : j # 0 => step[g[j - 1]] = Scan(buf, g[j - 1])
  <2> SUFFICES ASSUME NEW j \in Nat, j # 0 PROVE step[g[j - 1]] = Scan(buf, g[j - 1])
    OBVIOUS
  <2>1. g[j - 1] \in I
    BY <1>3
  <2> QED BY <2>1, <1>2
<1>5. g = [j \in Nat |-> IF j = 0 THEN first ELSE Scan(buf, g[j - 1])]
  BY <1>3, <1>4
<1> DEFINE run == CHOOSE s : s = [j \in Nat |-> IF j = 0 THEN first ELSE Scan(buf, s[j - 1])]
<1>6. run = [j \in Nat |-> IF j = 0 THEN first ELSE Scan(buf, run[j - 1])]
  BY <1>5, Zenon
<1>7. Scanned(buf, first) = run[Len(buf)].token
  BY DEF Repeated, Scanned
<1> HIDE DEF run
<1>8. run[0] = first /\ \A j \in Nat : run[j + 1] = Scan(buf, run[j])
  <2> SUFFICES ASSUME NEW j \in Nat PROVE run[0] = first /\ run[j + 1] = Scan(buf, run[j])
    OBVIOUS
  <2>1. j + 1 \in Nat /\ j + 1 # 0 /\ (j + 1) - 1 = j
    OBVIOUS
  <2> QED BY <1>6, <2>1
<1> DEFINE Inside == {j \in Nat : run[j] \in I}
<1>9. Inside = Nat
  <2>1. 0 \in Inside
    BY <1>8
  <2>2. ASSUME NEW j \in Inside PROVE j + 1 \in Inside
    BY <1>8
  <2>3. Inside \subseteq Nat
    OBVIOUS
  <2> HIDE DEF Inside
  <2> QED BY <2>1, <2>2, <2>3, Induction
<1>10. \A j \in Nat : run[j] \in I
  BY <1>9
<1>11. run \in [Nat -> I]
  <2>1. run = [j \in Nat |-> run[j]]
    BY <1>6
  <2> QED BY <1>10, <2>1
<1> QED BY <1>7, <1>8, <1>11 DEF Scans

(* The loop that skips the tokens of a bad line.                             *)
LEMMA SkipLoop ==
  ASSUME NEW buf, NEW res, NEW pos, NEW I, Reader(pos, EmptyLine, NoLine) \in I,
         \A s \in I : Skip(buf, s, res) \in I
  PROVE  \E run \in [Nat -> I] :
           /\ Skips(run, buf, pos, res)
           /\ SkipLine(buf, pos, res) = run[Len(buf)].result
<1> DEFINE step == [s \in I |-> Skip(buf, s, res)]
           first == Reader(pos, EmptyLine, NoLine)
<1>1. step \in [I -> I]
  OBVIOUS
<1>2. \A s \in I : step[s] = Skip(buf, s, res)
  OBVIOUS
<1> HIDE DEF step, first
<1>3. PICK g \in [Nat -> I] : g = [j \in Nat |-> IF j = 0 THEN first ELSE step[g[j - 1]]]
  <2>1. PICK g \in [Nat -> I] : Repeats(g, first, step)
    BY <1>1, Iteration, Zenon DEF first
  <2> QED BY <2>1, Zenon DEF Repeats
<1>4. \A j \in Nat : j # 0 => step[g[j - 1]] = Skip(buf, g[j - 1], res)
  <2> SUFFICES ASSUME NEW j \in Nat, j # 0 PROVE step[g[j - 1]] = Skip(buf, g[j - 1], res)
    OBVIOUS
  <2>1. g[j - 1] \in I
    BY <1>3
  <2> QED BY <2>1, <1>2
<1>5. g = [j \in Nat |-> IF j = 0 THEN first ELSE Skip(buf, g[j - 1], res)]
  BY <1>3, <1>4
<1> DEFINE run == CHOOSE s : s = [j \in Nat |-> IF j = 0 THEN first ELSE Skip(buf, s[j - 1], res)]
<1>6. run = [j \in Nat |-> IF j = 0 THEN first ELSE Skip(buf, run[j - 1], res)]
  BY <1>5, Zenon
<1>7. SkipLine(buf, pos, res) = run[Len(buf)].result
  BY DEF Repeated, SkipLine, first
<1> HIDE DEF run
<1>8. run[0] = first /\ \A j \in Nat : run[j + 1] = Skip(buf, run[j], res)
  <2> SUFFICES ASSUME NEW j \in Nat PROVE run[0] = first /\ run[j + 1] = Skip(buf, run[j], res)
    OBVIOUS
  <2>1. j + 1 \in Nat /\ j + 1 # 0 /\ (j + 1) - 1 = j
    OBVIOUS
  <2> QED BY <1>6, <2>1
<1> DEFINE Inside == {j \in Nat : run[j] \in I}
<1>9. Inside = Nat
  <2>1. 0 \in Inside
    BY <1>8 DEF first
  <2>2. ASSUME NEW j \in Inside PROVE j + 1 \in Inside
    BY <1>8
  <2>3. Inside \subseteq Nat
    OBVIOUS
  <2> HIDE DEF Inside
  <2> QED BY <2>1, <2>2, <2>3, Induction
<1>10. \A j \in Nat : run[j] \in I
  BY <1>9
<1>11. run \in [Nat -> I]
  <2>1. run = [j \in Nat |-> run[j]]
    BY <1>6
  <2> QED BY <1>10, <2>1
<1> QED BY <1>7, <1>8, <1>11 DEF first, Skips

(* The loop over the tokens of a line.                                       *)
LEMMA ParseLoop ==
  ASSUME NEW buf, NEW I, Reader(1, EmptyLine, NoLine) \in I, \A s \in I : Parse(buf, s) \in I
  PROVE  \E run \in [Nat -> I] :
           /\ Parses(run, buf)
           /\ pop_next(buf) = run[Len(buf)].result
<1> DEFINE step == [s \in I |-> Parse(buf, s)]
           first == Reader(1, EmptyLine, NoLine)
<1>1. step \in [I -> I]
  OBVIOUS
<1>2. \A s \in I : step[s] = Parse(buf, s)
  OBVIOUS
<1> HIDE DEF step, first
<1>3. PICK g \in [Nat -> I] : g = [j \in Nat |-> IF j = 0 THEN first ELSE step[g[j - 1]]]
  <2>1. PICK g \in [Nat -> I] : Repeats(g, first, step)
    BY <1>1, Iteration, Zenon DEF first
  <2> QED BY <2>1, Zenon DEF Repeats
<1>4. \A j \in Nat : j # 0 => step[g[j - 1]] = Parse(buf, g[j - 1])
  <2> SUFFICES ASSUME NEW j \in Nat, j # 0 PROVE step[g[j - 1]] = Parse(buf, g[j - 1])
    OBVIOUS
  <2>1. g[j - 1] \in I
    BY <1>3
  <2> QED BY <2>1, <1>2
<1>5. g = [j \in Nat |-> IF j = 0 THEN first ELSE Parse(buf, g[j - 1])]
  BY <1>3, <1>4
<1> DEFINE run == CHOOSE s : s = [j \in Nat |-> IF j = 0 THEN first ELSE Parse(buf, s[j - 1])]
<1>6. run = [j \in Nat |-> IF j = 0 THEN first ELSE Parse(buf, run[j - 1])]
  BY <1>5, Zenon
<1>7. pop_next(buf) = run[Len(buf)].result
  BY DEF Repeated, pop_next, first
<1> HIDE DEF run
<1>8. run[0] = first /\ \A j \in Nat : run[j + 1] = Parse(buf, run[j])
  <2> SUFFICES ASSUME NEW j \in Nat PROVE run[0] = first /\ run[j + 1] = Parse(buf, run[j])
    OBVIOUS
  <2>1. j + 1 \in Nat /\ j + 1 # 0 /\ (j + 1) - 1 = j
    OBVIOUS
  <2> QED BY <1>6, <2>1
<1> DEFINE Inside == {j \in Nat : run[j] \in I}
<1>9. Inside = Nat
  <2>1. 0 \in Inside
    BY <1>8 DEF first
  <2>2. ASSUME NEW j \in Inside PROVE j + 1 \in Inside
    BY <1>8
  <2>3. Inside \subseteq Nat
    OBVIOUS
  <2> HIDE DEF Inside
  <2> QED BY <2>1, <2>2, <2>3, Induction
<1>10. \A j \in Nat : run[j] \in I
  BY <1>9
<1>11. run \in [Nat -> I]
  <2>1. run = [j \in Nat |-> run[j]]
    BY <1>6
  <2> QED BY <1>10, <2>1
<1> QED BY <1>7, <1>8, <1>11 DEF first, Parses

(* The loop over the lines of a text.                                        *)
LEMMA PopLoop ==
  ASSUME NEW text, NEW I, Popped(text, <<>>) \in I, \A s \in I : PopAll(s) \in I
  PROVE  \E run \in [Nat -> I] :
           /\ Pops(run, text)
           /\ AllResults(text) = run[Len(text)].results
<1> DEFINE step == [s \in I |-> PopAll(s)]
           first == Popped(text, <<>>)
<1>1. step \in [I -> I]
  OBVIOUS
<1>2. \A s \in I : step[s] = PopAll(s)
  OBVIOUS
<1> HIDE DEF step, first
<1>3. PICK g \in [Nat -> I] : g = [j \in Nat |-> IF j = 0 THEN first ELSE step[g[j - 1]]]
  <2>1. PICK g \in [Nat -> I] : Repeats(g, first, step)
    BY <1>1, Iteration, Zenon DEF first
  <2> QED BY <2>1, Zenon DEF Repeats
<1>4. \A j \in Nat : j # 0 => step[g[j - 1]] = PopAll(g[j - 1])
  <2> SUFFICES ASSUME NEW j \in Nat, j # 0 PROVE step[g[j - 1]] = PopAll(g[j - 1])
    OBVIOUS
  <2>1. g[j - 1] \in I
    BY <1>3
  <2> QED BY <2>1, <1>2
<1>5. g = [j \in Nat |-> IF j = 0 THEN first ELSE PopAll(g[j - 1])]
  BY <1>3, <1>4
<1> DEFINE run == CHOOSE s : s = [j \in Nat |-> IF j = 0 THEN first ELSE PopAll(s[j - 1])]
<1>6. run = [j \in Nat |-> IF j = 0 THEN first ELSE PopAll(run[j - 1])]
  BY <1>5, Zenon
<1>7. AllResults(text) = run[Len(text)].results
  BY DEF Repeated, AllResults, first
<1> HIDE DEF run
<1>8. run[0] = first /\ \A j \in Nat : run[j + 1] = PopAll(run[j])
  <2> SUFFICES ASSUME NEW j \in Nat PROVE run[0] = first /\ run[j + 1] = PopAll(run[j])
    OBVIOUS
  <2>1. j + 1 \in Nat /\ j + 1 # 0 /\ (j + 1) - 1 = j
    OBVIOUS
  <2> QED BY <1>6, <2>1
<1> DEFINE Inside == {j \in Nat : run[j] \in I}
<1>9. Inside = Nat
  <2>1. 0 \in Inside
    BY <1>8 DEF first
  <2>2. ASSUME NEW j \in Inside PROVE j + 1 \in Inside
    BY <1>8
  <2>3. Inside \subseteq Nat
    OBVIOUS
  <2> HIDE DEF Inside
  <2> QED BY <2>1, <2>2, <2>3, Induction
<1>10. \A j \in Nat : run[j] \in I
  BY <1>9
<1>11. run \in [Nat -> I]
  <2>1. run = [j \in Nat |-> run[j]]
    BY <1>6
  <2> QED BY <1>10, <2>1
<1> QED BY <1>7, <1>8, <1>11 DEF first, Pops

-----------------------------------------------------------------------------
(* Tokens *)

TokenTypes == {"NONE", "ABORT", "STR", "NEW_LINE", "PIPE", "AND", "OR", "OUT_NEW", "OUT_APPEND", "BACKGROUND"}

(* What may be the token at p: one that is found ends behind p, in the       *)
(* buffer.                                                                   *)
Tokens(buf, p) ==
    {t \in [type : TokenTypes, data : Seq(Chars), next : Nat] :
       t.type \notin {"NONE", "ABORT"} => p < t.next /\ t.next <= Len(buf) + 1}

(* The loop over the characters of the token at p.                           *)
Scanners(buf, p) ==
    {s \in [pos : p .. Len(buf) + 1, quote : Chars \cup {Null}, data : Seq(Chars), token : Tokens(buf, p)] :
       s.data # <<>> => s.pos > p}

(* A token with a type.                                                      *)
LEMMA TokenFound ==
  ASSUME NEW buf \in Seq(Chars), NEW p \in Nat, NEW type \in TokenTypes, NEW data \in Seq(Chars),
         NEW q \in Nat, type \notin {"NONE", "ABORT"} => p < q /\ q <= Len(buf) + 1
  PROVE  Token(type, data, q) \in Tokens(buf, p)
BY DEF Token, Tokens

(* There may be none, or a failed assertion.                                 *)
LEMMA NoToken ==
  ASSUME NEW buf \in Seq(Chars), NEW p \in Nat
  PROVE  Incomplete \in Tokens(buf, p) /\ Abort \in Tokens(buf, p) /\ Incomplete # Abort
<1>1. <<>> \in Seq(Chars) /\ 0 \in Nat
  BY EmptySeq
<1> QED BY <1>1 DEF Incomplete, Abort, Token, Tokens, TokenTypes

(* Lines 202-246.                                                            *)
LEMMA OperatorFound ==
  ASSUME NEW buf \in Seq(Chars), NEW p \in 1 .. Len(buf), buf[p] \in {"&", "|", ">"}
  PROVE  OperatorToken(buf, p) \in Tokens(buf, p)
<1>1. Len(buf) \in Nat /\ p \in Nat /\ <<>> \in Seq(Chars)
  BY LenProperties, EmptySeq
<1>2. CASE p = Len(buf)
  BY <1>1, <1>2, NoToken DEF OperatorToken
<1>3. CASE p # Len(buf)
  <2>1. /\ p + 2 \in Nat /\ p < p + 2 /\ p + 2 <= Len(buf) + 1
        /\ p + 1 \in Nat /\ p < p + 1 /\ p + 1 <= Len(buf) + 1
    BY <1>1, <1>3
  <2>2. \/ \E t \in TokenTypes \ {"NONE", "ABORT"} : OperatorToken(buf, p) = Token(t, <<>>, p + 2)
        \/ \E t \in TokenTypes \ {"NONE", "ABORT"} : OperatorToken(buf, p) = Token(t, <<>>, p + 1)
    <3>1. CASE buf[p] = "&"
      <4>1. OperatorToken(buf, p) = IF buf[p + 1] = "&" THEN Token("AND", <<>>, p + 2)
                                    ELSE Token("BACKGROUND", <<>>, p + 1)
        BY <1>3, <3>1 DEF OperatorToken
      <4> QED BY <4>1 DEF TokenTypes
    <3>2. CASE buf[p] = "|"
      <4>1. OperatorToken(buf, p) = IF buf[p + 1] = "|" THEN Token("OR", <<>>, p + 2)
                                    ELSE Token("PIPE", <<>>, p + 1)
        BY <1>3, <3>2 DEF OperatorToken
      <4> QED BY <4>1 DEF TokenTypes
    <3>3. CASE buf[p] = ">"
      <4>1. OperatorToken(buf, p) = IF buf[p + 1] = ">" THEN Token("OUT_APPEND", <<>>, p + 2)
                                    ELSE Token("OUT_NEW", <<>>, p + 1)
        BY <1>3, <3>3 DEF OperatorToken
      <4> QED BY <4>1 DEF TokenTypes
    <3> QED BY <3>1, <3>2, <3>3
  <2> QED BY <1>1, <2>1, <2>2, TokenFound
<1> QED BY <1>2, <1>3

(* The least of some positions.                                              *)
LEMMA LeastPosition ==
  ASSUME NEW S, S \subseteq Nat, S # {}
  PROVE  Min(S) \in S /\ \A k \in S : Min(S) <= k
<1>1. \E x \in S : \A y \in S : x <= y
  BY Least
<1>2. Min(S) = CHOOSE x \in S : \A y \in S : x <= y
  BY DEF Min
<1> QED BY <1>1, <1>2, Zenon

(* Lines 268-276.                                                            *)
LEMMA CommentFound ==
  ASSUME NEW buf \in Seq(Chars), NEW p \in 1 .. Len(buf)
  PROVE  Comment(buf, p) \in Tokens(buf, p)
<1> DEFINE ends == {k \in p + 1 .. Len(buf) : buf[k] = "nl"}
<1>1. Len(buf) \in Nat /\ p \in Nat /\ <<>> \in Seq(Chars)
  BY LenProperties, EmptySeq
<1>2. CASE ends = {}
  BY <1>1, <1>2, NoToken DEF Comment
<1>3. CASE ends # {}
  <2>1. ends \subseteq Nat
    BY <1>1
  <2>2. Min(ends) \in p + 1 .. Len(buf)
    BY <2>1, <1>3, LeastPosition
  <2>3. Comment(buf, p) = Token("NEW_LINE", <<>>, Min(ends) + 1)
    BY <1>3 DEF Comment
  <2> HIDE DEF ends
  <2>4. Min(ends) + 1 \in Nat /\ p < Min(ends) + 1 /\ Min(ends) + 1 <= Len(buf) + 1
    BY <2>2, <1>1
  <2> QED BY <2>3, <2>4, <1>1, TokenFound DEF TokenTypes
<1> QED BY <1>2, <1>3

(* What a turn of the loop over characters may do.                           *)
Leaves(buf, s, t) ==
    \/ t = Incomplete \/ t = Abort
    \/ t = Token("STR", s.data, s.pos + 1)
    \/ s.data # <<>> /\ t = Token("STR", s.data, s.pos)
    \/ buf[s.pos] \in {"&", "|", ">"} /\ t = OperatorToken(buf, s.pos)
    \/ t = Comment(buf, s.pos)

(* Lines 152-284: the four kinds of turns of the loop over characters.       *)
LEMMA ScanTurn ==
  ASSUME NEW buf, NEW s, Len(buf) \in Nat, s.pos \in Nat, s.pos <= Len(buf)
  PROVE  \/ Scan(buf, s) = Scanner(s.pos + 1, s.quote, Append(s.data, buf[s.pos]), Incomplete)
         \/ Scan(buf, s) = Scanner(s.pos + 1, buf[s.pos], s.data, Incomplete)
         \/ /\ s.pos < Len(buf) /\ buf[s.pos] = "bs"
            /\ Scan(buf, s) = Scanner(s.pos + 2, s.quote, s.data \o Escaped(buf[s.pos + 1], s.quote), Incomplete)
         \/ \E t : Leaves(buf, s, t) /\ Scan(buf, s) = Scanner(Len(buf) + 1, s.quote, s.data, t)
<1>1. CASE s.quote # Null
  BY <1>1 DEF Scan, Leaves
<1>2. CASE s.quote = Null
  BY <1>2 DEF Scan, Leaves
<1> QED BY <1>1, <1>2

(* A state of the loop with its fields.                                      *)
LEMMA ScannerIs ==
  ASSUME NEW buf \in Seq(Chars), NEW p \in Nat, NEW q \in p .. Len(buf) + 1, NEW quote \in Chars \cup {Null},
         NEW data \in Seq(Chars), data # <<>> => q > p, NEW t \in Tokens(buf, p)
  PROVE  Scanner(q, quote, data, t) \in Scanners(buf, p)
BY DEF Scanner, Scanners

(* Lines 152-284: a turn makes a token, or adds to the data and goes on.     *)
LEMMA ScanKeeps ==
  ASSUME NEW buf \in Seq(Chars), NEW p \in 1 .. Len(buf), NEW s \in Scanners(buf, p)
  PROVE  Scan(buf, s) \in Scanners(buf, p)
<1>1. Len(buf) \in Nat /\ p \in Nat
  BY LenProperties
<1>2. PICK q \in p .. Len(buf) + 1, quote \in Chars \cup {Null}, data \in Seq(Chars), t \in Tokens(buf, p) :
        s.pos = q /\ s.quote = quote /\ s.data = data /\ s.token = t /\ (data # <<>> => q > p)
  BY DEF Scanners
<1>3. q \in Nat /\ p <= q
  BY <1>1
<1>4. CASE q > Len(buf)
  <2>1. Scan(buf, s) = s
    BY <1>1, <1>2, <1>3, <1>4 DEF Scan
  <2> QED BY <2>1
<1>5. CASE q <= Len(buf)
  <2>1. /\ q \in 1 .. Len(buf) /\ buf[q] \in Chars
        /\ q + 1 \in p .. Len(buf) + 1 /\ q + 1 > p /\ Len(buf) + 1 \in p .. Len(buf) + 1 /\ Len(buf) + 1 > p
    <3>1. q \in 1 .. Len(buf)
      BY <1>1, <1>3, <1>5
    <3>2. buf[q] \in Chars
      BY <3>1, ElementOfSeq
    <3> QED BY <3>1, <3>2, <1>1, <1>3, <1>5
  <2>2. Incomplete \in Tokens(buf, p)
    BY <1>1, NoToken
  <2>3. CASE Scan(buf, s) = Scanner(s.pos + 1, s.quote, Append(s.data, buf[s.pos]), Incomplete)
    <3>1. Append(data, buf[q]) \in Seq(Chars)
      BY <2>1, AppendProperties
    <3>2. Scan(buf, s) = Scanner(q + 1, quote, Append(data, buf[q]), Incomplete)
      BY <2>3, <1>2
    <3> QED BY <3>1, <3>2, <2>1, <2>2, <1>1, ScannerIs
  <2>4. CASE Scan(buf, s) = Scanner(s.pos + 1, buf[s.pos], s.data, Incomplete)
    <3>1. Scan(buf, s) = Scanner(q + 1, buf[q], data, Incomplete)
      BY <2>4, <1>2
    <3> QED BY <3>1, <2>1, <2>2, <1>1, ScannerIs
  <2>5. CASE /\ s.pos < Len(buf) /\ buf[s.pos] = "bs"
             /\ Scan(buf, s) = Scanner(s.pos + 2, s.quote, s.data \o Escaped(buf[s.pos + 1], s.quote), Incomplete)
    <3>1. q + 1 \in 1 .. Len(buf) /\ q + 2 \in p .. Len(buf) + 1 /\ q + 2 > p
      BY <2>5, <1>1, <1>2, <1>3
    <3> DEFINE c == buf[q + 1]
               e == Escaped(c, quote)
    <3>2. c \in Chars /\ "bs" \in Chars
      BY <2>1, <2>5, <3>1, <1>2, ElementOfSeq
    <3>3. e \in Seq(Chars)
      <4>1. e = <<>> \/ e = <<"bs", c>> \/ e = <<c>>
        BY DEF Escaped
      <4>2. <<>> \in Seq(Chars) /\ <<"bs", c>> \in Seq(Chars) /\ <<c>> \in Seq(Chars)
        BY <3>2
      <4> QED BY <4>1, <4>2
    <3> HIDE DEF e, c
    <3>4. data \o e \in Seq(Chars)
      BY <3>3, ConcatProperties
    <3>5. Scan(buf, s) = Scanner(q + 2, quote, data \o e, Incomplete)
      BY <2>5, <1>2 DEF e, c
    <3> QED BY <3>1, <3>4, <3>5, <2>2, <1>1, ScannerIs
  <2>6. CASE \E u : Leaves(buf, s, u) /\ Scan(buf, s) = Scanner(Len(buf) + 1, s.quote, s.data, u)
    <3>1. PICK u : Leaves(buf, s, u) /\ Scan(buf, s) = Scanner(Len(buf) + 1, quote, data, u)
      BY <2>6, <1>2
    <3>2. \A v : v \in Tokens(buf, q) => v \in Tokens(buf, p)
      BY <1>1, <1>3 DEF Tokens
    <3>3. u \in Tokens(buf, p)
      <4>1. CASE u = Incomplete \/ u = Abort
        BY <4>1, <1>1, NoToken
      <4>2. CASE u = Token("STR", data, q + 1)
        <5>1. q + 1 \in Nat /\ p < q + 1 /\ q + 1 <= Len(buf) + 1
          BY <1>1, <1>3, <1>5
        <5> QED BY <4>2, <5>1, <1>1, TokenFound DEF TokenTypes
      <4>3. CASE data # <<>> /\ u = Token("STR", data, q)
        <5>1. q \in Nat /\ p < q /\ q <= Len(buf) + 1
          BY <4>3, <1>1, <1>2, <1>3, <1>5
        <5> QED BY <4>3, <5>1, <1>1, TokenFound DEF TokenTypes
      <4>4. CASE buf[q] \in {"&", "|", ">"} /\ u = OperatorToken(buf, q)
        BY <4>4, <2>1, <3>2, OperatorFound
      <4>5. CASE u = Comment(buf, q)
        BY <4>5, <2>1, <3>2, CommentFound
      <4> QED BY <3>1, <4>1, <4>2, <4>3, <4>4, <4>5, <1>2 DEF Leaves
    <3> QED BY <3>1, <3>3, <2>1, <1>1, ScannerIs
  <2> QED BY <2>3, <2>4, <2>5, <2>6, <1>1, <1>2, <1>3, <1>5, ScanTurn
<1> QED BY <1>1, <1>3, <1>4, <1>5

(* Lines 138-284: the token at p, if there is one, ends behind p.            *)
LEMMA TokenIs ==
  ASSUME NEW buf \in Seq(Chars), NEW p \in Nat \ {0}
  PROVE  ParseToken(buf, p) \in Tokens(buf, p)
<1> DEFINE starts == {k \in p .. Len(buf) : buf[k] # "sp"}
           k == Min(starts)
<1>1. Len(buf) \in Nat /\ <<>> \in Seq(Chars)
  BY LenProperties, EmptySeq
<1>2. CASE starts = {}
  BY <1>1, <1>2, NoToken DEF ParseToken
<1>3. CASE starts # {}
  <2>1. starts \subseteq Nat
    BY <1>1
  <2>2. k \in p .. Len(buf)
    BY <2>1, <1>3, LeastPosition
  <2>3. ParseToken(buf, p) = IF buf[k] = "nl" THEN Token("NEW_LINE", <<>>, k + 1)
                             ELSE Scanned(buf, Scanner(k, Null, <<>>, Incomplete))
    BY <1>3 DEF ParseToken
  <2> HIDE DEF k, starts
  <2>4. /\ k \in 1 .. Len(buf) /\ k \in Nat /\ p <= k /\ k + 1 \in Nat /\ p < k + 1 /\ k + 1 <= Len(buf) + 1
        /\ k \in k .. Len(buf) + 1
    BY <2>2, <1>1
  <2>5. Token("NEW_LINE", <<>>, k + 1) \in Tokens(buf, p)
    BY <2>4, <1>1, TokenFound DEF TokenTypes
  <2>6. Scanned(buf, Scanner(k, Null, <<>>, Incomplete)) \in Tokens(buf, p)
    <3> DEFINE first == Scanner(k, Null, <<>>, Incomplete)
    <3>1. first \in Scanners(buf, k)
      BY <2>4, <1>1, NoToken, ScannerIs
    <3>2. \A s \in Scanners(buf, k) : Scan(buf, s) \in Scanners(buf, k)
      BY <2>4, ScanKeeps
    <3> HIDE DEF first
    <3>3. PICK run \in [Nat -> Scanners(buf, k)] :
            /\ Scans(run, buf, first)
            /\ Scanned(buf, first) = run[Len(buf)].token
      BY <3>1, <3>2, ScanLoop
    <3>5. run[Len(buf)] \in Scanners(buf, k)
      BY <1>1
    <3>6. run[Len(buf)].token \in Tokens(buf, k)
      BY <3>5 DEF Scanners
    <3>7. \A v : v \in Tokens(buf, k) => v \in Tokens(buf, p)
      BY <1>1, <2>4 DEF Tokens
    <3> QED BY <3>3, <3>6, <3>7 DEF first
  <2> QED BY <2>3, <2>5, <2>6
<1> QED BY <1>2, <1>3

-----------------------------------------------------------------------------
(* Lines and results *)

(* A line whose last expression may be an operator yet.                      *)
Begun(exprs) ==
    \A i \in DOMAIN exprs : IF i % 2 = 1 THEN exprs[i].type = "COMMAND" /\ exprs[i].words # <<>>
                                         ELSE exprs[i].type \in Operators

Exprs == [type : Operators \cup {"COMMAND"}, words : Seq(Seq(Chars))]
BegunLines == {line \in Lines(Chars) : Begun(line.exprs)}

Errors == {"TOO_LATE_ARGUMENTS", "ENDS_NOT_WITH_A_COMMAND", "OUTOUT_REDIRECT_BAD_ARG",
           "PIPE_WITH_NO_LEFT_ARG", "AND_WITH_NO_LEFT_ARG", "OR_WITH_NO_LEFT_ARG",
           "PIPE_WITH_LEFT_ARG_NOT_A_COMMAND", "AND_WITH_LEFT_ARG_NOT_A_COMMAND",
           "OR_WITH_LEFT_ARG_NOT_A_COMMAND"}

(* What parser_pop_next may return: nothing yet, a failed assertion, a whole *)
(* line, or an error.                                                        *)
Results(buf) ==
    {NoLine, Aborts}
        \cup {Result("NONE", line, n) : line \in {l \in Lines(Chars) : WellFormed(l)}, n \in 1 .. Len(buf)}
        \cup {Result(res, Null, n) : res \in Errors, n \in 1 .. Len(buf)}

Readers(buf) == [pos : 1 .. Len(buf) + 1, line : BegunLines, result : Results(buf)]

(* Odd and even positions of expressions.                                    *)
LEMMA Parity ==
  ASSUME NEW n \in Nat
  PROVE  /\ n % 2 = 1 => (n + 1) % 2 # 1
         /\ n % 2 # 1 => (n + 1) % 2 = 1
OBVIOUS

(* The fields of a line.                                                     *)
LEMMA LineIs ==
  ASSUME NEW line \in Lines(Chars)
  PROVE  /\ line.exprs \in Seq(Exprs)
         /\ \A e \in Seq(Exprs) : /\ [line EXCEPT !.exprs = e] \in Lines(Chars)
                                  /\ [line EXCEPT !.exprs = e].exprs = e
         /\ /\ [line EXCEPT !.background = TRUE] \in Lines(Chars)
            /\ [line EXCEPT !.background = TRUE].exprs = line.exprs
         /\ \A out \in {"FILE_NEW", "FILE_APPEND"}, file \in Seq(Chars) :
               /\ [line EXCEPT !.out = out, !.out_file = file] \in Lines(Chars)
               /\ [line EXCEPT !.out = out, !.out_file = file].exprs = line.exprs
BY DEF Lines, Exprs

(* The line before its first word.                                           *)
LEMMA EmptyBegun == EmptyLine \in BegunLines
<1>1. <<>> \in Seq(Chars) /\ <<>> \in Seq(Exprs)
  BY EmptySeq
<1>2. EmptyLine \in Lines(Chars)
  BY <1>1 DEF EmptyLine, Lines, Exprs
<1>3. Begun(EmptyLine.exprs)
  BY EmptySeq DEF EmptyLine, Begun
<1> QED BY <1>2, <1>3 DEF BegunLines

(* One more expression.                                                      *)
LEMMA BegunAppend ==
  ASSUME NEW exprs \in Seq(Exprs), Begun(exprs), NEW e \in Exprs,
         IF (Len(exprs) + 1) % 2 = 1 THEN e.type = "COMMAND" /\ e.words # <<>> ELSE e.type \in Operators
  PROVE  Append(exprs, e) \in Seq(Exprs) /\ Begun(Append(exprs, e))
<1> DEFINE more == Append(exprs, e)
           n == Len(exprs)
<1>1. /\ more \in Seq(Exprs) /\ n \in Nat /\ Len(more) = n + 1
      /\ \A i \in 1 .. n : more[i] = exprs[i]
      /\ more[n + 1] = e /\ DOMAIN more = 1 .. n + 1 /\ DOMAIN exprs = 1 .. n
  BY AppendProperties, LenProperties
<1> HIDE DEF more
<1>2. ASSUME NEW i \in DOMAIN more
      PROVE  IF i % 2 = 1 THEN more[i].type = "COMMAND" /\ more[i].words # <<>> ELSE more[i].type \in Operators
  <2>1. CASE i = n + 1
    BY <2>1, <1>1
  <2>2. CASE i # n + 1
    <3>1. i \in 1 .. n
      BY <2>2, <1>1
    <3> HIDE DEF n
    <3> QED BY <3>1, <1>1 DEF Begun
  <2> QED BY <2>1, <2>2
<1>3. Begun(more)
  BY <1>2 DEF Begun
<1> QED BY <1>1, <1>3 DEF more

(* A word is added to a command.                                             *)
LEMMA WordMore ==
  ASSUME NEW x \in Exprs, NEW word \in Seq(Chars)
  PROVE  /\ [x EXCEPT !.words = Append(@, word)] \in Exprs
         /\ [x EXCEPT !.words = Append(@, word)].type = x.type
         /\ [x EXCEPT !.words = Append(@, word)].words # <<>>
<1> DEFINE more == Append(x.words, word)
<1>1. more \in Seq(Seq(Chars)) /\ more # <<>>
  BY AppendProperties DEF Exprs
<1>2. [x EXCEPT !.words = Append(@, word)] = [x EXCEPT !.words = more]
  OBVIOUS
<1> HIDE DEF more
<1>3. /\ [x EXCEPT !.words = more] \in Exprs
      /\ [x EXCEPT !.words = more].type = x.type
      /\ [x EXCEPT !.words = more].words # <<>>
  BY <1>1 DEF Exprs
<1> QED BY <1>2, <1>3

(* Lines 304-313.                                                            *)
LEMMA WordAdded ==
  ASSUME NEW line \in BegunLines, NEW word \in Seq(Chars)
  PROVE  AddWord(line, word) \in BegunLines
<1> DEFINE exprs == line.exprs
           n == Len(exprs)
<1>1. line \in Lines(Chars) /\ exprs \in Seq(Exprs) /\ Begun(exprs) /\ n \in Nat /\ DOMAIN exprs = 1 .. n
  BY LineIs, LenProperties DEF BegunLines
<1>2. CASE n > 0 /\ exprs[n].type = "COMMAND"
  <2> DEFINE e == [exprs EXCEPT ![n].words = Append(@, word)]
  <2>1. n \in 1 .. n /\ exprs[n] \in Exprs
    BY <1>1, <1>2, ElementOfSeq
  <2> DEFINE f == [exprs[n] EXCEPT !.words = Append(@, word)]
  <2>4. e = [exprs EXCEPT ![n] = f]
    OBVIOUS
  <2>5. f \in Exprs /\ f.type = "COMMAND" /\ f.words # <<>>
    BY <2>1, <1>2, WordMore, SMTT(40)
  <2>6. /\ e \in Seq(Exprs) /\ DOMAIN e = 1 .. n
        /\ \A i \in 1 .. n : i # n => e[i] = exprs[i]
        /\ e[n] = f
    <3> HIDE DEF e, f, exprs
    <3>1. n \in 1 .. Len(exprs) /\ exprs \in Seq(Exprs) /\ f \in Exprs
      BY <2>1, <2>5, <1>1
    <3>2. /\ e \in Seq(Exprs) /\ Len(e) = n
          /\ \A i \in 1 .. n : e[i] = IF i = n THEN f ELSE exprs[i]
      BY <3>1, <2>4, ExceptSeq
    <3>3. DOMAIN e = 1 .. n
      BY <3>2, LenProperties
    <3> QED BY <3>2, <3>3, <2>1
  <2> HIDE DEF e, f
  <2>7. ASSUME NEW i \in DOMAIN e
        PROVE  IF i % 2 = 1 THEN e[i].type = "COMMAND" /\ e[i].words # <<>> ELSE e[i].type \in Operators
    <3>1. CASE i = n
      <4>1. e[i].type = "COMMAND" /\ e[i].words # <<>>
        BY <3>1, <2>5, <2>6
      <4>2. i % 2 = 1
        <5>1. "COMMAND" \notin Operators
          BY DEF Operators
        <5> QED BY <5>1, <3>1, <1>1, <1>2, <2>1 DEF Begun
      <4> QED BY <4>1, <4>2
    <3>2. CASE i # n
      <4>1. i \in DOMAIN exprs /\ e[i] = exprs[i]
        BY <3>2, <2>6, <1>1
      <4> QED BY <4>1, <1>1 DEF Begun
    <3> QED BY <3>1, <3>2
  <2>8. Begun(e)
    BY <2>7 DEF Begun
  <2>9. AddWord(line, word) = [line EXCEPT !.exprs = e]
    <3>1. [line EXCEPT !.exprs[n].words = Append(@, word)] = [line EXCEPT !.exprs = e]
      BY <1>1 DEF e, Lines
    <3> QED BY <3>1, <1>2 DEF AddWord
  <2> HIDE DEF exprs
  <2>10. line \in Lines(Chars)
    BY <1>1
  <2> DEFINE l == [line EXCEPT !.exprs = e]
  <2>11. l \in Lines(Chars) /\ l.exprs = e
    BY <2>6, <2>10, LineIs
  <2>12. AddWord(line, word) = l
    BY <2>9
  <2> HIDE DEF l
  <2> QED BY <2>8, <2>11, <2>12 DEF BegunLines
<1>3. CASE ~ (n > 0 /\ exprs[n].type = "COMMAND")
  <2>1. Command(<<word>>) \in Exprs /\ Command(<<word>>).type = "COMMAND" /\ Command(<<word>>).words # <<>>
    BY DEF Command, Exprs
  <2>2. n % 2 # 1
    <3>1. CASE n = 0
      <4>1. 0 % 2 # 1
        OBVIOUS
      <4> HIDE DEF n
      <4> QED BY <3>1, <4>1
    <3>2. CASE n > 0
      <4>1. n \in DOMAIN exprs
        BY <3>2, <1>1
      <4> QED BY <4>1, <3>2, <1>1, <1>3 DEF Begun
    <3>3. n = 0 \/ n > 0
      BY <1>1
    <3> HIDE DEF n
    <3> QED BY <3>1, <3>2, <3>3
  <2>3. (n + 1) % 2 = 1
    BY <2>2, <1>1, Parity
  <2> HIDE DEF n
  <2>4. Append(exprs, Command(<<word>>)) \in Seq(Exprs) /\ Begun(Append(exprs, Command(<<word>>)))
    BY <2>1, <2>3, <1>1, BegunAppend DEF n
  <2>5. AddWord(line, word) = [line EXCEPT !.exprs = Append(exprs, Command(<<word>>))]
    <3>1. AddWord(line, word) = [line EXCEPT !.exprs = Append(@, Command(<<word>>))]
      BY <1>3, Zenon DEF AddWord, n
    <3>2. [line EXCEPT !.exprs = Append(@, Command(<<word>>))] =
          [line EXCEPT !.exprs = Append(exprs, Command(<<word>>))]
      OBVIOUS
    <3> QED BY <3>1, <3>2
  <2> DEFINE e == Append(exprs, Command(<<word>>))
             l == [line EXCEPT !.exprs = e]
  <2>6. AddWord(line, word) = l
    BY <2>5
  <2> HIDE DEF exprs
  <2>7. l \in Lines(Chars) /\ l.exprs = e
    BY <2>4, <1>1, LineIs
  <2> HIDE DEF l
  <2> QED BY <2>4, <2>6, <2>7 DEF BegunLines
<1> QED BY <1>2, <1>3

(* The last expression of a line that has one.                               *)
LEMMA LastIs ==
  ASSUME NEW line \in BegunLines, line.exprs # <<>>, Last(line.exprs).type = "COMMAND"
  PROVE  /\ line.exprs \in Seq(Exprs) /\ Len(line.exprs) \in Nat /\ Len(line.exprs) % 2 = 1
         /\ WellFormed(line)
<1> DEFINE exprs == line.exprs
           n == Len(exprs)
<1>1. line \in Lines(Chars) /\ exprs \in Seq(Exprs) /\ Begun(exprs) /\ n \in Nat /\ DOMAIN exprs = 1 .. n
  BY LineIs, LenProperties DEF BegunLines
<1>2. n # 0
  BY <1>1, EmptySeq
<1>3. exprs[n].type = "COMMAND" /\ n \in DOMAIN exprs
  BY <1>1, <1>2 DEF Last
<1>4. "COMMAND" \notin Operators
  BY DEF Operators
<1>5. n % 2 = 1
  BY <1>1, <1>3, <1>4 DEF Begun
<1>6. WellFormed(line)
  BY <1>1, <1>5 DEF WellFormed, Begun
<1> QED BY <1>1, <1>5, <1>6

(* Lines 319-366: an operator comes after a command.                         *)
LEMMA OperatorAdded ==
  ASSUME NEW line \in BegunLines, NEW t \in Operators
  PROVE  /\ OperatorError(line, t) \in Errors \cup {"NONE"}
         /\ OperatorError(line, t) = "NONE" => [line EXCEPT !.exprs = Append(@, Operator(t))] \in BegunLines
<1>1. OperatorError(line, t) \in Errors \cup {"NONE"}
  BY DEF OperatorError, Errors, Operators
<1>2. ASSUME OperatorError(line, t) = "NONE" PROVE [line EXCEPT !.exprs = Append(@, Operator(t))] \in BegunLines
  <2>1. line.exprs # <<>> /\ Last(line.exprs).type = "COMMAND"
    BY <1>2 DEF OperatorError, Operators
  <2> DEFINE exprs == line.exprs
             n == Len(exprs)
  <2>2. line \in Lines(Chars) /\ exprs \in Seq(Exprs) /\ Begun(exprs) /\ n \in Nat /\ n % 2 = 1
    BY <2>1, LineIs, LastIs DEF BegunLines
  <2>3. Operator(t) \in Exprs /\ Operator(t).type \in Operators
    BY EmptySeq DEF Operator, Exprs
  <2>4. (n + 1) % 2 # 1
    BY <2>2, Parity
  <2> HIDE DEF n
  <2>5. Append(exprs, Operator(t)) \in Seq(Exprs) /\ Begun(Append(exprs, Operator(t)))
    BY <2>2, <2>3, <2>4, BegunAppend DEF n
  <2>6. [line EXCEPT !.exprs = Append(@, Operator(t))] = [line EXCEPT !.exprs = Append(exprs, Operator(t))]
    OBVIOUS
  <2> HIDE DEF exprs
  <2> QED BY <2>2, <2>5, <2>6, LineIs DEF BegunLines, exprs
<1> QED BY <1>1, <1>2

(* A token that is found: where it ends.                                     *)
LEMMA TokenEnds ==
  ASSUME NEW buf \in Seq(Chars), NEW p \in Nat \ {0}, NEW t \in Tokens(buf, p), t.type \notin {"NONE", "ABORT"}
  PROVE  /\ t.type \in TokenTypes /\ t.data \in Seq(Chars) /\ t.next \in Nat \ {0}
         /\ p < t.next /\ t.next \in 1 .. Len(buf) + 1 /\ t.next - 1 \in 1 .. Len(buf)
<1>1. /\ t.type \in TokenTypes /\ t.data \in Seq(Chars) /\ t.next \in Nat
      /\ p < t.next /\ t.next <= Len(buf) + 1
  BY DEF Tokens
<1>2. Len(buf) \in Nat
  BY LenProperties
<1> QED BY <1>1, <1>2

(* The kinds of results.                                                     *)
LEMMA ResultIs ==
  ASSUME NEW buf
  PROVE  /\ NoLine \in Results(buf) /\ Aborts \in Results(buf)
         /\ \A n \in 1 .. Len(buf), res \in Errors : Result(res, Null, n) \in Results(buf)
         /\ \A n \in 1 .. Len(buf), line \in Lines(Chars) :
              WellFormed(line) => Result("NONE", line, n) \in Results(buf)
BY DEF Results

(* A state of a loop over tokens.                                            *)
LEMMA ReaderIs ==
  ASSUME NEW buf, NEW p \in 1 .. Len(buf) + 1, NEW line \in BegunLines, NEW r \in Results(buf)
  PROVE  Reader(p, line, r) \in Readers(buf)
BY DEF Reader, Readers

(* Lines 410-426.                                                            *)
LEMMA SkipKeeps ==
  ASSUME NEW buf \in Seq(Chars), NEW res \in Errors, NEW s \in Readers(buf)
  PROVE  Skip(buf, s, res) \in Readers(buf)
<1> DEFINE p == s.pos
           t == ParseToken(buf, p)
<1>1. /\ Len(buf) \in Nat /\ p \in 1 .. Len(buf) + 1 /\ p \in Nat \ {0} /\ s.line \in BegunLines
      /\ Len(buf) + 1 \in 1 .. Len(buf) + 1 /\ NoLine \in Results(buf) /\ Aborts \in Results(buf)
  <2>1. Len(buf) \in Nat
    BY LenProperties
  <2> QED BY <2>1, ResultIs DEF Readers
<1>2. t \in Tokens(buf, p)
  BY <1>1, TokenIs
<1> HIDE DEF t, p
<1>3. CASE p > Len(buf)
  BY <1>3 DEF Skip, p
<1>4. CASE p <= Len(buf)
  <2>1. Skip(buf, s, res) =
          CASE t.type = "NONE"     -> Reader(Len(buf) + 1, s.line, NoLine)
            [] t.type = "ABORT"    -> Reader(Len(buf) + 1, s.line, Aborts)
            [] t.type = "NEW_LINE" -> Reader(Len(buf) + 1, s.line, Result(res, Null, t.next - 1))
            [] t.type \notin {"NONE", "ABORT", "NEW_LINE"} -> Reader(t.next, s.line, NoLine)
    BY <1>1, <1>4 DEF Skip, t, p
  <2>2. CASE t.type = "NONE"
    BY <2>1, <2>2, <1>1, ReaderIs
  <2>3. CASE t.type = "ABORT"
    BY <2>1, <2>3, <1>1, ReaderIs
  <2>4. CASE t.type = "NEW_LINE"
    <3>1. t.next - 1 \in 1 .. Len(buf)
      BY <2>4, <1>1, <1>2, TokenEnds
    <3>2. Result(res, Null, t.next - 1) \in Results(buf)
      BY <3>1, ResultIs
    <3> QED BY <2>1, <2>4, <3>2, <1>1, ReaderIs
  <2>5. CASE t.type \notin {"NONE", "ABORT", "NEW_LINE"}
    <3>1. t.next \in 1 .. Len(buf) + 1
      BY <2>5, <1>1, <1>2, TokenEnds
    <3> QED BY <2>1, <2>5, <3>1, <1>1, ReaderIs
  <2> QED BY <2>2, <2>3, <2>4, <2>5
<1> QED BY <1>1, <1>3, <1>4

(* Lines 410-426: the whole loop that skips a bad line.                      *)
LEMMA LineSkipped ==
  ASSUME NEW buf \in Seq(Chars), NEW res \in Errors, NEW p \in 1 .. Len(buf) + 1
  PROVE  SkipLine(buf, p, res) \in Results(buf)
<1>1. Len(buf) \in Nat
  BY LenProperties
<1>2. Reader(p, EmptyLine, NoLine) \in Readers(buf)
  BY EmptyBegun, ResultIs, ReaderIs
<1>3. \A s \in Readers(buf) : Skip(buf, s, res) \in Readers(buf)
  BY SkipKeeps
<1>4. PICK run \in [Nat -> Readers(buf)] :
        /\ Skips(run, buf, p, res)
        /\ SkipLine(buf, p, res) = run[Len(buf)].result
  BY <1>2, <1>3, SkipLoop
<1>5. run[Len(buf)] \in Readers(buf)
  BY <1>1
<1> QED BY <1>4, <1>5 DEF Readers

(* Lines 396-408.                                                            *)
LEMMA LineEnded ==
  ASSUME NEW buf \in Seq(Chars), NEW p \in Nat \ {0}, NEW t \in Tokens(buf, p), NEW line \in BegunLines
  PROVE  EndLine(buf, t, line) \in Results(buf)
<1>1. CASE t.type \in {"NONE", "ABORT"}
  BY <1>1, ResultIs DEF EndLine
<1>2. CASE t.type \notin {"NONE", "ABORT", "NEW_LINE"}
  <2>1. EndLine(buf, t, line) = SkipLine(buf, t.next, "TOO_LATE_ARGUMENTS")
    BY <1>2 DEF EndLine
  <2>2. t.next \in 1 .. Len(buf) + 1
    BY <1>2, TokenEnds
  <2>3. "TOO_LATE_ARGUMENTS" \in Errors
    BY DEF Errors
  <2> QED BY <2>1, <2>2, <2>3, LineSkipped
<1>3. CASE t.type = "NEW_LINE"
  <2> DEFINE n == t.next - 1
  <2>1. n \in 1 .. Len(buf)
    BY <1>3, TokenEnds
  <2>2. "ENDS_NOT_WITH_A_COMMAND" \in Errors
    BY DEF Errors
  <2>3. EndLine(buf, t, line) =
          IF line.exprs = <<>> THEN Aborts
          ELSE IF Last(line.exprs).type = "COMMAND" THEN Result("NONE", line, n)
          ELSE Result("ENDS_NOT_WITH_A_COMMAND", Null, n)
    BY <1>3 DEF EndLine
  <2> HIDE DEF n
  <2>4. CASE line.exprs = <<>>
    BY <2>3, <2>4, ResultIs
  <2>5. CASE line.exprs # <<>> /\ Last(line.exprs).type = "COMMAND"
    <3>1. line \in Lines(Chars) /\ WellFormed(line)
      BY <2>5, LastIs DEF BegunLines
    <3> QED BY <2>3, <2>5, <3>1, <2>1, ResultIs
  <2>6. CASE line.exprs # <<>> /\ Last(line.exprs).type # "COMMAND"
    BY <2>3, <2>6, <2>1, <2>2, ResultIs
  <2> QED BY <2>4, <2>5, <2>6
<1> QED BY <1>1, <1>2, <1>3

(* Lines 389-395.                                                            *)
LEMMA BackgroundRead ==
  ASSUME NEW buf \in Seq(Chars), NEW p \in Nat \ {0}, NEW t \in Tokens(buf, p), NEW line \in BegunLines
  PROVE  Background(buf, t, line) \in Results(buf)
<1>1. CASE t.type = "BACKGROUND"
  <2>1. t.next \in Nat \ {0}
    BY <1>1, TokenEnds
  <2>2. ParseToken(buf, t.next) \in Tokens(buf, t.next)
    BY <2>1, TokenIs
  <2>3. [line EXCEPT !.background = TRUE] \in BegunLines
    BY LineIs DEF BegunLines
  <2>4. EndLine(buf, ParseToken(buf, t.next), [line EXCEPT !.background = TRUE]) \in Results(buf)
    BY <2>1, <2>2, <2>3, LineEnded
  <2> QED BY <1>1, <2>4 DEF Background
<1>2. CASE t.type # "BACKGROUND"
  <2>1. EndLine(buf, t, line) \in Results(buf)
    BY LineEnded
  <2> QED BY <1>2, <2>1 DEF Background
<1> QED BY <1>1, <1>2

(* Lines 368-388.                                                            *)
LEMMA RedirectRead ==
  ASSUME NEW buf \in Seq(Chars), NEW p \in Nat \ {0}, NEW t \in Tokens(buf, p), t.type \notin {"NONE", "ABORT"},
         NEW line \in BegunLines
  PROVE  Redirect(buf, t, line) \in Results(buf)
<1> DEFINE q == t.next
           file == ParseToken(buf, q)
           out == IF t.type = "OUT_NEW" THEN "FILE_NEW" ELSE "FILE_APPEND"
           redirected == [line EXCEPT !.out = out, !.out_file = file.data]
<1>1. q \in Nat \ {0}
  BY TokenEnds
<1>2. file \in Tokens(buf, q)
  BY <1>1, TokenIs
<1>3. Redirect(buf, t, line) =
        CASE file.type = "NONE"                                 -> NoLine
          [] file.type = "ABORT"                                -> Aborts
          [] file.type \notin {"NONE", "ABORT", "STR"}          ->
                SkipLine(buf, file.next, "OUTOUT_REDIRECT_BAD_ARG")
          [] file.type = "STR"                                  ->
                IF file.data = <<>> THEN Aborts
                ELSE Background(buf, ParseToken(buf, file.next), redirected)
  BY DEF Redirect
<1> HIDE DEF file, q
<1>4. CASE file.type \in {"NONE", "ABORT"}
  BY <1>3, <1>4, ResultIs
<1>5. CASE file.type \notin {"NONE", "ABORT", "STR"}
  <2>1. Redirect(buf, t, line) = SkipLine(buf, file.next, "OUTOUT_REDIRECT_BAD_ARG")
    BY <1>3, <1>5
  <2>2. file.next \in 1 .. Len(buf) + 1
    BY <1>1, <1>2, <1>5, TokenEnds
  <2>3. "OUTOUT_REDIRECT_BAD_ARG" \in Errors
    BY DEF Errors
  <2> QED BY <2>1, <2>2, <2>3, LineSkipped
<1>6. CASE file.type = "STR"
  <2>1. file.next \in Nat \ {0} /\ file.data \in Seq(Chars)
    BY <1>1, <1>2, <1>6, TokenEnds
  <2>2. ParseToken(buf, file.next) \in Tokens(buf, file.next)
    BY <2>1, TokenIs
  <2>3. redirected \in BegunLines
    <3>1. out \in {"FILE_NEW", "FILE_APPEND"}
      OBVIOUS
    <3> HIDE DEF out
    <3> QED BY <3>1, <2>1, LineIs, ZenonT(40) DEF BegunLines
  <2> HIDE DEF redirected
  <2>4. Background(buf, ParseToken(buf, file.next), redirected) \in Results(buf)
    BY <2>1, <2>2, <2>3, BackgroundRead
  <2> QED BY <1>3, <1>6, <2>4, ResultIs
<1> QED BY <1>4, <1>5, <1>6

(* Lines 297-366.                                                            *)
LEMMA ParseKeeps ==
  ASSUME NEW buf \in Seq(Chars), NEW s \in Readers(buf)
  PROVE  Parse(buf, s) \in Readers(buf)
<1> DEFINE p == s.pos
           line == s.line
           t == ParseToken(buf, p)
           err == OperatorError(line, t.type)
           leave(r) == Reader(Len(buf) + 1, line, r)
           go(l) == Reader(t.next, l, NoLine)
<1>1. /\ Len(buf) \in Nat /\ p \in 1 .. Len(buf) + 1 /\ p \in Nat \ {0} /\ line \in BegunLines
      /\ Len(buf) + 1 \in 1 .. Len(buf) + 1 /\ NoLine \in Results(buf) /\ Aborts \in Results(buf)
  <2>1. Len(buf) \in Nat
    BY LenProperties
  <2> QED BY <2>1, ResultIs DEF Readers
<1>2. t \in Tokens(buf, p)
  BY <1>1, TokenIs
<1>3. t.type \in TokenTypes
  BY <1>2 DEF Tokens
<1>4. p > Len(buf) => Parse(buf, s) = s
  BY DEF Parse
<1>5. ~ (p > Len(buf)) =>
        Parse(buf, s) =
          CASE t.type = "NONE"                       -> leave(NoLine)
            [] t.type = "ABORT"                      -> leave(Aborts)
            [] t.type = "STR"                        ->
                 IF t.data = <<>> THEN leave(Aborts) ELSE go(AddWord(line, t.data))
            [] t.type = "NEW_LINE"                   ->
                 IF line.exprs = <<>> THEN go(line) ELSE leave(EndLine(buf, t, line))
            [] t.type \in Operators                  ->
                 IF err # "NONE" THEN leave(SkipLine(buf, t.next, err))
                 ELSE go([line EXCEPT !.exprs = Append(@, Operator(t.type))])
            [] t.type \in {"OUT_NEW", "OUT_APPEND"}  -> leave(Redirect(buf, t, line))
            [] t.type = "BACKGROUND"                 -> leave(Background(buf, t, line))
  BY Zenon DEF Parse
<1> HIDE DEF t, p, line
<1>6. \A r \in Results(buf) : leave(r) \in Readers(buf)
  BY <1>1, ReaderIs
<1>7. \A l \in BegunLines : t.type \notin {"NONE", "ABORT"} => go(l) \in Readers(buf)
  BY <1>1, <1>2, TokenEnds, ReaderIs
<1>8. CASE p > Len(buf)
  BY <1>4, <1>8
<1>9. CASE ~ (p > Len(buf))
  <2>1. CASE t.type \in {"NONE", "ABORT"}
    <3>1. Parse(buf, s) = leave(NoLine) \/ Parse(buf, s) = leave(Aborts)
      BY <1>5, <1>9, <2>1 DEF Operators
    <3> HIDE DEF leave
    <3> QED BY <3>1, <1>1, <1>6
  <2>2. CASE t.type = "STR"
    <3>1. t.data \in Seq(Chars)
      BY <1>1, <1>2, <2>2, TokenEnds
    <3>2. Parse(buf, s) = leave(Aborts) \/ Parse(buf, s) = go(AddWord(line, t.data))
      BY <1>5, <1>9, <2>2 DEF Operators
    <3>3. AddWord(line, t.data) \in BegunLines
      BY <3>1, <1>1, WordAdded
    <3> HIDE DEF leave, go
    <3> QED BY <3>2, <3>3, <2>2, <1>1, <1>6, <1>7
  <2>3. CASE t.type = "NEW_LINE"
    <3>1. EndLine(buf, t, line) \in Results(buf)
      BY <1>1, <1>2, LineEnded
    <3>2. Parse(buf, s) = go(line) \/ Parse(buf, s) = leave(EndLine(buf, t, line))
      BY <1>5, <1>9, <2>3 DEF Operators
    <3> HIDE DEF leave, go
    <3> QED BY <3>1, <3>2, <2>3, <1>1, <1>6, <1>7
  <2>4. CASE t.type \in Operators
    <3> DEFINE more == [line EXCEPT !.exprs = Append(@, Operator(t.type))]
    <3>1. t.type \notin {"NONE", "ABORT", "STR", "NEW_LINE", "OUT_NEW", "OUT_APPEND", "BACKGROUND"}
      BY <2>4 DEF Operators
    <3>2. \/ err # "NONE" /\ Parse(buf, s) = leave(SkipLine(buf, t.next, err))
          \/ err = "NONE" /\ Parse(buf, s) = go(more)
      BY <1>5, <1>9, <2>4, <3>1
    <3> HIDE DEF leave, go, err
    <3>3. CASE err # "NONE" /\ Parse(buf, s) = leave(SkipLine(buf, t.next, err))
      <4>1. err \in Errors
        BY <3>3, <2>4, <1>1, OperatorAdded DEF err
      <4>2. t.next \in 1 .. Len(buf) + 1
        BY <3>1, <1>1, <1>2, TokenEnds
      <4>3. SkipLine(buf, t.next, err) \in Results(buf)
        BY <4>1, <4>2, LineSkipped
      <4> QED BY <3>3, <4>3, <1>6
    <3>4. CASE err = "NONE" /\ Parse(buf, s) = go(more)
      <4>1. more \in BegunLines
        BY <3>4, <2>4, <1>1, OperatorAdded DEF err
      <4> HIDE DEF more
      <4> QED BY <3>4, <4>1, <3>1, <1>7
    <3> QED BY <3>2, <3>3, <3>4
  <2>5. CASE t.type \in {"OUT_NEW", "OUT_APPEND"}
    <3>1. t.type \notin Operators
      BY <2>5 DEF Operators
    <3>2. Parse(buf, s) = leave(Redirect(buf, t, line))
      BY <1>5, <1>9, <2>5, <3>1
    <3>3. Redirect(buf, t, line) \in Results(buf)
      BY <2>5, <1>1, <1>2, RedirectRead
    <3> HIDE DEF leave
    <3> QED BY <3>2, <3>3, <1>6
  <2>6. CASE t.type = "BACKGROUND"
    <3>1. t.type \notin Operators
      BY <2>6 DEF Operators
    <3>2. Parse(buf, s) = leave(Background(buf, t, line))
      BY <1>5, <1>9, <2>6, <3>1
    <3>3. Background(buf, t, line) \in Results(buf)
      BY <2>6, <1>1, <1>2, BackgroundRead
    <3> HIDE DEF leave
    <3> QED BY <3>2, <3>3, <1>6
  <2> QED BY <2>1, <2>2, <2>3, <2>4, <2>5, <2>6, <1>3 DEF TokenTypes, Operators
<1> QED BY <1>1, <1>8, <1>9

(* Lines 287-435: what parser_pop_next returns.                              *)
LEMMA PopIs ==
  ASSUME NEW buf \in Seq(Chars)
  PROVE  pop_next(buf) \in Results(buf)
<1>1. Len(buf) \in Nat /\ 1 \in 1 .. Len(buf) + 1
  <2>1. Len(buf) \in Nat
    BY LenProperties
  <2> QED BY <2>1
<1>2. Reader(1, EmptyLine, NoLine) \in Readers(buf)
  BY <1>1, EmptyBegun, ResultIs, ReaderIs
<1>3. \A s \in Readers(buf) : Parse(buf, s) \in Readers(buf)
  BY ParseKeeps
<1>4. PICK run \in [Nat -> Readers(buf)] : Parses(run, buf) /\ pop_next(buf) = run[Len(buf)].result
  BY <1>2, <1>3, ParseLoop
<1>5. run[Len(buf)] \in Readers(buf)
  BY <1>1
<1> QED BY <1>4, <1>5 DEF Readers

-----------------------------------------------------------------------------
(* The specification *)

(* What is popped is a line or an error.                                     *)
PoppedResults ==
    {<<"NONE", line>> : line \in {l \in Lines(Chars) : WellFormed(l)}} \cup {<<res, Null>> : res \in Errors}

(* The parser's state, with lines that are well formed.                      *)
IInv ==
    /\ phase \in {"read", "pop", "aborted"}
    /\ input \in Seq(Chars) /\ fed \in Seq(Chars) /\ buffer \in Seq(Chars)
    /\ popped \in Seq(PoppedResults)

(* A result that is popped takes something from the buffer.                  *)
LEMMA PoppedIs ==
  ASSUME NEW buf \in Seq(Chars), NEW r \in Results(buf), r.res \notin {"ABORT", "NONE"} \/ r.line # Null
  PROVE  /\ <<r.res, r.line>> \in PoppedResults
         /\ r.consumed \in 1 .. Len(buf)
         /\ Consume(buf, r.consumed) \in Seq(Chars)
         /\ Len(Consume(buf, r.consumed)) < Len(buf)
<1>1. r # NoLine /\ r # Aborts
  BY DEF NoLine, Aborts, Result
<1>2. /\ <<r.res, r.line>> \in PoppedResults
      /\ r.consumed \in 1 .. Len(buf)
  BY <1>1 DEF Results, Result, PoppedResults
<1> DEFINE n == r.consumed
<1>3. Len(buf) \in Nat /\ n \in Nat /\ n + 1 \in 1 .. Len(buf) + 1
  <2>1. Len(buf) \in Nat
    BY LenProperties
  <2> QED BY <1>2, <2>1
<1> HIDE DEF n
<1>4. SubSeq(buf, n + 1, Len(buf)) \in Seq(Chars) /\ Len(SubSeq(buf, n + 1, Len(buf))) = Len(buf) - n
  <2>1. n + 1 \in Int /\ Len(buf) \in Int /\ \A i \in n + 1 .. Len(buf) : buf[i] \in Chars
    <3>1. \A i \in n + 1 .. Len(buf) : i \in 1 .. Len(buf)
      BY <1>3
    <3> QED BY <3>1, <1>3, ElementOfSeq
  <2>2. /\ SubSeq(buf, n + 1, Len(buf)) \in Seq(Chars)
        /\ Len(SubSeq(buf, n + 1, Len(buf))) = IF n + 1 <= Len(buf) THEN Len(buf) - (n + 1) + 1 ELSE 0
    BY <2>1, SubSeqProperties
  <2>3. (IF n + 1 <= Len(buf) THEN Len(buf) - (n + 1) + 1 ELSE 0) = Len(buf) - n
    BY <1>3
  <2> QED BY <2>2, <2>3
<1>5. n \in 1 .. Len(buf)
  BY <1>2 DEF n
<1>6. Len(buf) - n < Len(buf)
  BY <1>3, <1>5
<1> QED BY <1>2, <1>4, <1>6 DEF Consume, n

(* A piece of the input.                                                     *)
LEMMA Piece ==
  ASSUME NEW text \in Seq(Chars), NEW n \in Nat, n <= Len(text)
  PROVE  SubSeq(text, 1, n) \in Seq(Chars) /\ SubSeq(text, n + 1, Len(text)) \in Seq(Chars)
<1>1. Len(text) \in Nat
  BY LenProperties
<1>2. 1 \in Int /\ n \in Int /\ \A i \in 1 .. n : text[i] \in Chars
  <2>1. \A i \in 1 .. n : i \in 1 .. Len(text)
    BY <1>1
  <2> QED BY <2>1, ElementOfSeq
<1>3. SubSeq(text, 1, n) \in Seq(Chars)
  BY <1>2, SubSeqProperties
<1>4. n + 1 \in Int /\ Len(text) \in Int /\ \A i \in n + 1 .. Len(text) : text[i] \in Chars
  <2>1. \A i \in n + 1 .. Len(text) : i \in 1 .. Len(text)
    BY <1>1
  <2> QED BY <2>1, <1>1, ElementOfSeq
<1>5. SubSeq(text, n + 1, Len(text)) \in Seq(Chars)
  BY <1>4, SubSeqProperties
<1> QED BY <1>3, <1>5

(* Lines 110-124: a read.                                                    *)
LEMMA FeedKeeps ==
  ASSUME IInv, NEW n \in Chunks, Feed(n)
  PROVE  IInv'
<1>1. n \in Nat /\ n <= Len(input)
  BY ParserAssumption DEF Feed
<1> DEFINE chunk == SubSeq(input, 1, n)
<1>2. chunk \in Seq(Chars) /\ SubSeq(input, n + 1, Len(input)) \in Seq(Chars)
  BY <1>1, Piece DEF IInv
<1>3. /\ fed' = fed \o chunk /\ buffer' = buffer \o chunk /\ input' = SubSeq(input, n + 1, Len(input))
      /\ phase' = "pop" /\ popped' = popped
  BY DEF Feed
<1> HIDE DEF chunk
<1>4. fed \o chunk \in Seq(Chars) /\ buffer \o chunk \in Seq(Chars)
  BY <1>2, ConcatProperties DEF IInv
<1> QED BY <1>2, <1>3, <1>4 DEF IInv

(* What the loop of solution.c:240-254 does with a result.                   *)
LEMMA PopSteps ==
  ASSUME IInv, Pop
  PROVE  \E r \in Results(buffer) :
           /\ r = pop_next(buffer) /\ fed' = fed /\ input' = input
           /\ \/ r.res = "ABORT" /\ phase' = "aborted" /\ buffer' = buffer /\ popped' = popped
              \/ r.res = "NONE" /\ r.line = Null /\ phase' = "read" /\ buffer' = buffer /\ popped' = popped
              \/ /\ r.res \notin {"ABORT", "NONE"} \/ r.line # Null
                 /\ buffer' = Consume(buffer, r.consumed) /\ popped' = Append(popped, <<r.res, r.line>>)
                 /\ phase' = "pop"
<1>1. pop_next(buffer) \in Results(buffer)
  BY PopIs DEF IInv
<1> DEFINE r == pop_next(buffer)
<1>2. /\ fed' = fed /\ input' = input
      /\ \/ r.res = "ABORT" /\ phase' = "aborted" /\ buffer' = buffer /\ popped' = popped
         \/ r.res = "NONE" /\ r.line = Null /\ phase' = "read" /\ buffer' = buffer /\ popped' = popped
         \/ /\ r.res \notin {"ABORT", "NONE"} \/ r.line # Null
            /\ buffer' = Consume(buffer, r.consumed) /\ popped' = Append(popped, <<r.res, r.line>>)
            /\ phase' = "pop"
  BY DEF Pop
<1> HIDE DEF r
<1>3. r \in Results(buffer) /\ r = pop_next(buffer)
  BY <1>1 DEF r
<1> QED BY <1>2, <1>3

(* Lines 240-254 of solution.c: a turn of the loop that pops.                *)
LEMMA PopKeeps ==
  ASSUME IInv, Pop
  PROVE  IInv' /\ (popped' # popped => Len(buffer') < Len(buffer))
<1>1. PICK r \in Results(buffer) :
           /\ r = pop_next(buffer) /\ fed' = fed /\ input' = input
           /\ \/ r.res = "ABORT" /\ phase' = "aborted" /\ buffer' = buffer /\ popped' = popped
              \/ r.res = "NONE" /\ r.line = Null /\ phase' = "read" /\ buffer' = buffer /\ popped' = popped
              \/ /\ r.res \notin {"ABORT", "NONE"} \/ r.line # Null
                 /\ buffer' = Consume(buffer, r.consumed) /\ popped' = Append(popped, <<r.res, r.line>>)
                 /\ phase' = "pop"
  BY PopSteps
<1>2. CASE buffer' = buffer /\ popped' = popped /\ phase' \in {"read", "aborted"}
  BY <1>1, <1>2 DEF IInv
<1>3. CASE /\ r.res \notin {"ABORT", "NONE"} \/ r.line # Null
           /\ buffer' = Consume(buffer, r.consumed) /\ popped' = Append(popped, <<r.res, r.line>>)
           /\ phase' = "pop"
  <2>1. buffer \in Seq(Chars) /\ popped \in Seq(PoppedResults)
    BY DEF IInv
  <2>2. /\ <<r.res, r.line>> \in PoppedResults /\ Consume(buffer, r.consumed) \in Seq(Chars)
        /\ Len(Consume(buffer, r.consumed)) < Len(buffer)
    BY <2>1, <1>3, PoppedIs
  <2>3. Append(popped, <<r.res, r.line>>) \in Seq(PoppedResults)
    BY <2>1, <2>2, AppendProperties
  <2> QED BY <1>1, <1>3, <2>2, <2>3 DEF IInv
<1> QED BY <1>1, <1>2, <1>3

(* A read or a pop, or nothing more to do.                                   *)
LEMMA StepKeeps ==
  ASSUME IInv, [Next]_vars
  PROVE  IInv' /\ (popped' # popped => Len(buffer') < Len(buffer))
<1>1. CASE Pop
  BY <1>1, PopKeeps
<1>2. ASSUME NEW n \in Chunks, Feed(n) PROVE IInv' /\ popped' = popped
  BY <1>2, FeedKeeps DEF Feed
<1>3. CASE UNCHANGED vars
  BY <1>3 DEF vars, IInv
<1> QED BY <1>1, <1>2, <1>3 DEF Next, Step

(* Before the first read.                                                    *)
LEMMA Starts == Init => IInv
<1> SUFFICES ASSUME Init PROVE IInv
  OBVIOUS
<1>1. input \in Seq(Chars)
  BY ParserAssumption DEF Init
<1>2. <<>> \in Seq(Chars) /\ <<>> \in Seq(PoppedResults)
  BY EmptySeq
<1> QED BY <1>1, <1>2 DEF Init, IInv

(* So the shell always has well-formed lines.                                *)
LEMMA Stays == Spec => []IInv
<1>1. Init => IInv
  BY Starts
<1>2. IInv /\ [Next]_vars => IInv'
  BY StepKeeps
<1> QED BY <1>1, <1>2, PTL DEF Spec

(* What the shell executes are commands with an operator between any two of  *)
(* them: the lines that the loop of solution.c:240-254 pops are well formed, *)
(* and an error comes without a line.                                        *)
THEOREM PopsWellFormed == Spec => []LinesWellFormed
<1>1. IInv => LinesWellFormed
  <2> SUFFICES ASSUME IInv PROVE LinesWellFormed
    OBVIOUS
  <2>1. phase \in {"read", "pop", "aborted"} /\ popped \in Seq(PoppedResults)
    BY DEF IInv
  <2>2. ASSUME NEW i \in DOMAIN popped
        PROVE  /\ popped[i][2] # Null <=> popped[i][1] = "NONE"
               /\ popped[i][2] # Null => WellFormed(popped[i][2])
    <3>1. popped[i] \in PoppedResults
      BY <2>1, ElementOfSeq, LenProperties
    <3>2. CASE \E line \in {l \in Lines(Chars) : WellFormed(l)} : popped[i] = <<"NONE", line>>
      <4>1. PICK line \in {l \in Lines(Chars) : WellFormed(l)} : popped[i] = <<"NONE", line>>
        BY <3>2
      <4>2. line # Null
        BY ParserAssumption
      <4> QED BY <4>1, <4>2
    <3>3. CASE \E res \in Errors : popped[i] = <<res, Null>>
      <4>1. "NONE" \notin Errors
        BY DEF Errors
      <4> QED BY <3>3, <4>1
    <3> QED BY <3>1, <3>2, <3>3 DEF PoppedResults
  <2> QED BY <2>1, <2>2 DEF LinesWellFormed, TypeOK
<1> QED BY <1>1, Stays, PTL

(* The loop of solution.c:240-254 comes to an end after every read: a line   *)
(* or an error always takes something from the buffer.                       *)
THEOREM PopsShrink == Spec => PopsEnd
<1>1. IInv /\ [Next]_vars => [popped' # popped => Len(buffer') < Len(buffer)]_vars
  BY StepKeeps
<1> QED BY <1>1, Stays, PTL DEF Spec, PopsEnd

-----------------------------------------------------------------------------
(* A buffer with more behind it: what was complete stays as it was *)

Continues(more, buf) == Len(buf) <= Len(more) /\ \A k \in 1 .. Len(buf) : more[k] = buf[k]

(* Lines 202-246: an operator with the character after it.                   *)
LEMMA OperatorSame ==
  ASSUME NEW buf \in Seq(Chars), NEW more \in Seq(Chars), Continues(more, buf),
         NEW p \in 1 .. Len(buf), OperatorToken(buf, p) # Incomplete
  PROVE  OperatorToken(more, p) = OperatorToken(buf, p)
<1>1. Len(buf) \in Nat /\ Len(more) \in Nat
  BY LenProperties
<1>2. p # Len(buf)
  BY DEF OperatorToken
<1>3. p # Len(more) /\ p + 1 \in 1 .. Len(buf)
  BY <1>1, <1>2 DEF Continues
<1>4. more[p] = buf[p] /\ more[p + 1] = buf[p + 1]
  BY <1>3 DEF Continues
<1> DEFINE c == buf[p]
           d == buf[p + 1]
           single == [x \in {"&", "|", ">"} |->
              CASE x = "&" -> "BACKGROUND" [] x = "|" -> "PIPE" [] x = ">" -> "OUT_NEW"]
           double == [x \in {"&", "|", ">"} |->
              CASE x = "&" -> "AND" [] x = "|" -> "OR" [] x = ">" -> "OUT_APPEND"]
           t == IF d = c THEN Token(double[c], <<>>, p + 2) ELSE Token(single[c], <<>>, p + 1)
<1>5. OperatorToken(buf, p) = t
  BY <1>2, Zenon DEF OperatorToken
<1>6. OperatorToken(more, p) = t
  <2>1. OperatorToken(more, p) = IF more[p + 1] = more[p] THEN Token(double[more[p]], <<>>, p + 2)
                                 ELSE Token(single[more[p]], <<>>, p + 1)
    BY <1>3, Zenon DEF OperatorToken
  <2> HIDE DEF single, double
  <2> QED BY <2>1, <1>4, Zenon
<1> HIDE DEF t
<1> QED BY <1>5, <1>6

(* The least of some positions, with others behind them.                     *)
LEMMA LeastSame ==
  ASSUME NEW S, S \subseteq Nat, S # {}, NEW T, T \subseteq Nat, S \subseteq T, NEW m \in Nat,
         \A k \in S : k <= m, \A k \in T : k <= m => k \in S
  PROVE  T # {} /\ Min(T) = Min(S)
<1> DEFINE a == Min(S)
           b == Min(T)
<1>1. a \in S /\ \A k \in S : a <= k
  BY LeastPosition
<1>2. T # {}
  OBVIOUS
<1>3. b \in T /\ \A k \in T : b <= k
  BY <1>2, LeastPosition
<1> HIDE DEF a, b
<1>4. b <= a /\ a <= m
  BY <1>1, <1>3
<1>5. b \in S
  BY <1>1, <1>3, <1>4
<1>6. a <= b
  BY <1>1, <1>5
<1>7. a = b
  BY <1>1, <1>3, <1>4, <1>6
<1> QED BY <1>2, <1>7 DEF a, b

(* Lines 268-276: a comment with its end.                                    *)
LEMMA CommentSame ==
  ASSUME NEW buf \in Seq(Chars), NEW more \in Seq(Chars), Continues(more, buf),
         NEW p \in 1 .. Len(buf), Comment(buf, p) # Incomplete
  PROVE  Comment(more, p) = Comment(buf, p)
<1> DEFINE ends == {k \in p + 1 .. Len(buf) : buf[k] = "nl"}
           later == {k \in p + 1 .. Len(more) : more[k] = "nl"}
<1>1. Len(buf) \in Nat /\ Len(more) \in Nat
  BY LenProperties
<1>2. ends # {} /\ Comment(buf, p) = Token("NEW_LINE", <<>>, Min(ends) + 1)
  BY DEF Comment
<1>3. ends \subseteq Nat /\ later \subseteq Nat /\ \A k \in ends : k <= Len(buf)
  BY <1>1
<1>4. ends \subseteq later /\ \A k \in later : k <= Len(buf) => k \in ends
  BY <1>1 DEF Continues
<1>5. Comment(more, p) = IF later = {} THEN Incomplete ELSE Token("NEW_LINE", <<>>, Min(later) + 1)
  BY DEF Comment
<1> HIDE DEF ends, later
<1>6. later # {} /\ Min(later) = Min(ends)
  BY <1>1, <1>2, <1>3, <1>4, LeastSame
<1> QED BY <1>2, <1>5, <1>6

(* The states of the loop over the characters of two buffers: together, or   *)
(* the shorter buffer has come to its end, or both have their token.         *)
Along(buf, more, s, s2) ==
    \/ s2 = s /\ s.token = Incomplete
    \/ s.pos = Len(buf) + 1 /\ s.token = Incomplete
    \/ s.pos = Len(buf) + 1 /\ s2.pos = Len(more) + 1 /\ s2.token = s.token

(* Lines 152-284: with more in the buffer a turn is the same, or waits.      *)
LEMMA ScanAlong ==
  ASSUME NEW buf \in Seq(Chars), NEW more \in Seq(Chars), Continues(more, buf), NEW p \in 1 .. Len(buf),
         NEW s \in Scanners(buf, p), NEW s2, Along(buf, more, s, s2)
  PROVE  Along(buf, more, Scan(buf, s), Scan(more, s2))
<1>1. /\ Len(buf) \in Nat /\ Len(more) \in Nat /\ Len(buf) <= Len(more) /\ s.pos \in p .. Len(buf) + 1
      /\ s.pos \in Nat
  <2>1. Len(buf) \in Nat /\ Len(more) \in Nat
    BY LenProperties
  <2> QED BY <2>1 DEF Continues, Scanners
<1>2. s.pos = Len(buf) + 1 => Scan(buf, s) = s
  BY <1>1 DEF Scan
<1>3. s2.pos = Len(more) + 1 => Scan(more, s2) = s2
  BY <1>1 DEF Scan
<1>4. CASE s.pos = Len(buf) + 1 /\ s.token = Incomplete
  BY <1>2, <1>4 DEF Along
<1>5. CASE s.pos = Len(buf) + 1 /\ s2.pos = Len(more) + 1 /\ s2.token = s.token
  BY <1>2, <1>3, <1>5 DEF Along
<1>6. CASE s2 = s /\ s.token = Incomplete /\ s.pos # Len(buf) + 1
  <2> DEFINE q == s.pos
             c == buf[q]
  <2>1. q \in 1 .. Len(buf) /\ q <= Len(buf) /\ q <= Len(more)
    BY <1>1, <1>6
  <2>2. more[q] = c
    BY <2>1 DEF Continues
  <2>3. q # Len(buf) => q # Len(more) /\ more[q + 1] = buf[q + 1]
    <3> SUFFICES ASSUME q # Len(buf) PROVE q # Len(more) /\ more[q + 1] = buf[q + 1]
      OBVIOUS
    <3>1. q + 1 \in 1 .. Len(buf)
      BY <1>1, <2>1
    <3> QED BY <1>1, <2>1, <3>1 DEF Continues
  <2>4. OperatorToken(buf, q) = Incomplete \/ OperatorToken(more, q) = OperatorToken(buf, q)
    BY <2>1, OperatorSame
  <2>5. Comment(buf, q) = Incomplete \/ Comment(more, q) = Comment(buf, q)
    BY <2>1, CommentSame
  <2>6. \/ Scan(more, s) = Scan(buf, s) /\ Scan(buf, s).token = Incomplete
        \/ Scan(buf, s) = Scanner(Len(buf) + 1, s.quote, s.data, Incomplete)
        \/ \E t : /\ Scan(buf, s) = Scanner(Len(buf) + 1, s.quote, s.data, t)
                  /\ Scan(more, s) = Scanner(Len(more) + 1, s.quote, s.data, t)
    <3>1. CASE s.quote # Null
      <4>1. CASE c = s.quote
        BY <4>1, <3>1, <2>1, <2>2 DEF Scan
      <4>2. CASE c # s.quote /\ c = "bs" /\ s.quote = "dq" /\ q = Len(buf)
        BY <4>2, <3>1, <2>1, <2>2 DEF Scan
      <4>3. CASE c # s.quote /\ c = "bs" /\ s.quote = "dq" /\ q # Len(buf)
        <5>1. /\ Scan(buf, s) = Scanner(q + 2, s.quote, s.data \o Escaped(buf[q + 1], s.quote), Incomplete)
              /\ Scan(more, s) = Scanner(q + 2, s.quote, s.data \o Escaped(buf[q + 1], s.quote), Incomplete)
          BY <4>3, <3>1, <2>1, <2>2, <2>3 DEF Scan
        <5> QED BY <5>1 DEF Scanner
      <4>4. CASE c # s.quote /\ ~ (c = "bs" /\ s.quote = "dq")
        BY <4>4, <3>1, <2>1, <2>2 DEF Scan, Scanner
      <4> QED BY <4>1, <4>2, <4>3, <4>4
    <3>2. CASE s.quote = Null
      <4>1. CASE c = "bs" /\ q = Len(buf)
        BY <4>1, <3>2, <2>1, <2>2 DEF Scan
      <4>2. CASE c = "bs" /\ q # Len(buf)
        <5>1. /\ Scan(buf, s) = Scanner(q + 2, s.quote, s.data \o Escaped(buf[q + 1], s.quote), Incomplete)
              /\ Scan(more, s) = Scanner(q + 2, s.quote, s.data \o Escaped(buf[q + 1], s.quote), Incomplete)
          BY <4>2, <3>2, <2>1, <2>2, <2>3 DEF Scan
        <5> QED BY <5>1 DEF Scanner
      <4>3. CASE c \in {"&", "|", ">"} /\ s.data = <<>>
        BY <4>3, <3>2, <2>1, <2>2, <2>4 DEF Scan
      <4>4. CASE c = "#" /\ s.data = <<>>
        BY <4>4, <3>2, <2>1, <2>2, <2>5 DEF Scan
      <4>5. CASE c \in {"sp", "nl"} /\ s.data = <<>>
        BY <4>5, <3>2, <2>1, <2>2 DEF Scan
      <4>6. CASE c \in {"sp", "nl", "#", "&", "|", ">"} /\ s.data # <<>>
        BY <4>6, <3>2, <2>1, <2>2, SMTT(40) DEF Scan
      <4>7. CASE c \notin {"bs", "sp", "nl", "#", "&", "|", ">"}
        BY <4>7, <3>2, <2>1, <2>2 DEF Scan, Scanner
      <4> QED BY <4>1, <4>2, <4>3, <4>4, <4>5, <4>6, <4>7
    <3> QED BY <3>1, <3>2
  <2> QED BY <2>6, <1>6 DEF Along, Scanner
<1> QED BY <1>4, <1>5, <1>6, <1>1 DEF Along

(* What does not change any more from some turn on.                          *)
LEMMA Settled ==
  ASSUME NEW run, NEW n \in Nat, \A j \in Nat : run[j] = run[n] => run[j + 1] = run[n]
  PROVE  \A m \in Nat : n <= m => run[m] = run[n]
<1> DEFINE T == {j \in Nat : run[n + j] = run[n]}
<1>1. 0 \in T
  <2>1. n + 0 = n
    OBVIOUS
  <2> QED BY <2>1
<1>2. ASSUME NEW j \in T PROVE j + 1 \in T
  <2>1. n + j \in Nat /\ (n + j) + 1 = n + (j + 1) /\ run[n + j] = run[n]
    OBVIOUS
  <2>2. run[(n + j) + 1] = run[n]
    BY <2>1
  <2> QED BY <2>1, <2>2
<1>3. T = Nat
  <2> HIDE DEF T
  <2>1. T \subseteq Nat
    BY DEF T
  <2> QED BY <1>1, <1>2, <2>1, Induction
<1>4. ASSUME NEW m \in Nat, n <= m PROVE run[m] = run[n]
  <2>1. m - n \in Nat /\ n + (m - n) = m
    BY <1>4
  <2>2. m - n \in T
    BY <2>1, <1>3
  <2> QED BY <2>1, <2>2
<1> QED BY <1>4

(* Lines 138-284: a token stays what it is when more arrives.                *)
LEMMA TokenSame ==
  ASSUME NEW buf \in Seq(Chars), NEW more \in Seq(Chars), Continues(more, buf),
         NEW p \in Nat \ {0}, ParseToken(buf, p).type # "NONE"
  PROVE  ParseToken(more, p) = ParseToken(buf, p)
<1> DEFINE starts == {k \in p .. Len(buf) : buf[k] # "sp"}
           later == {k \in p .. Len(more) : more[k] # "sp"}
           k == Min(starts)
           first == Scanner(k, Null, <<>>, Incomplete)
           n == Len(buf)
<1>1. n \in Nat /\ Len(more) \in Nat /\ n <= Len(more) /\ <<>> \in Seq(Chars)
  <2>1. n \in Nat /\ Len(more) \in Nat
    BY LenProperties
  <2> QED BY <2>1, EmptySeq DEF Continues
<1>2. starts # {}
  BY DEF ParseToken, Incomplete, Token
<1>3. starts \subseteq Nat /\ later \subseteq Nat /\ \A j \in starts : j <= Len(buf)
  BY <1>1
<1>4. starts \subseteq later /\ \A j \in later : j <= Len(buf) => j \in starts
  BY <1>1 DEF Continues
<1>5. later # {} /\ Min(later) = k
  <2> HIDE DEF starts, later
  <2> QED BY <1>1, <1>2, <1>3, <1>4, LeastSame
<1>6. k \in starts
  <2> HIDE DEF starts
  <2> QED BY <1>2, <1>3, LeastPosition
<1>7. /\ ParseToken(buf, p) = IF buf[k] = "nl" THEN Token("NEW_LINE", <<>>, k + 1) ELSE Scanned(buf, first)
      /\ ParseToken(more, p) = IF more[k] = "nl" THEN Token("NEW_LINE", <<>>, k + 1) ELSE Scanned(more, first)
  BY <1>2, <1>5 DEF ParseToken
<1>8. k \in 1 .. n /\ k \in 1 .. Len(more) /\ k \in k .. n + 1 /\ k \in k .. Len(more) + 1 /\ k \in Nat
  <2> HIDE DEF k
  <2> QED BY <1>1, <1>6
<1>9. more[k] = buf[k]
  <2> HIDE DEF k
  <2> QED BY <1>8 DEF Continues
<1> HIDE DEF k, starts, later
<1>10. ASSUME Scanned(buf, first) # Incomplete PROVE Scanned(more, first) = Scanned(buf, first)
  <2>1. first \in Scanners(buf, k) /\ first \in Scanners(more, k) /\ first.token = Incomplete
    <3>1. first \in Scanners(buf, k)
      BY <1>8, <1>1, NoToken, ScannerIs
    <3>2. first \in Scanners(more, k)
      BY <1>8, <1>1, NoToken, ScannerIs
    <3> QED BY <3>1, <3>2 DEF Scanner
  <2> HIDE DEF first
  <2>2. PICK u \in [Nat -> Scanners(buf, k)] : Scans(u, buf, first) /\ Scanned(buf, first) = u[Len(buf)].token
    <3>1. \A s \in Scanners(buf, k) : Scan(buf, s) \in Scanners(buf, k)
      BY <1>8, ScanKeeps
    <3> QED BY <3>1, <2>1, ScanLoop
  <2>3. PICK v \in [Nat -> Scanners(more, k)] : Scans(v, more, first) /\ Scanned(more, first) = v[Len(more)].token
    <3>1. \A s \in Scanners(more, k) : Scan(more, s) \in Scanners(more, k)
      BY <1>8, ScanKeeps
    <3> QED BY <3>1, <2>1, ScanLoop
  <2> DEFINE T == {j \in Nat : Along(buf, more, u[j], v[j])}
  <2>4. 0 \in T
    BY <2>1, <2>2, <2>3 DEF Scans, Along
  <2>5. ASSUME NEW j \in T PROVE j + 1 \in T
    <3>1. u[j + 1] = Scan(buf, u[j]) /\ v[j + 1] = Scan(more, v[j]) /\ u[j] \in Scanners(buf, k)
      BY <2>2, <2>3 DEF Scans
    <3>2. Along(buf, more, u[j], v[j])
      OBVIOUS
    <3>3. Along(buf, more, Scan(buf, u[j]), Scan(more, v[j]))
      BY <3>1, <3>2, <1>8, ScanAlong
    <3> QED BY <3>1, <3>3
  <2>6. T = Nat
    <3> HIDE DEF T
    <3>1. T \subseteq Nat
      BY DEF T
    <3> QED BY <2>4, <2>5, <3>1, Induction
  <2>7. Along(buf, more, u[n], v[n])
    BY <2>6, <1>1
  <2>8. /\ v[n].token = u[n].token /\ Scanned(buf, first) = u[n].token
        /\ v[n].pos = Len(more) + 1 \/ u[n].token = Incomplete
    BY <2>7, <2>2, <1>10 DEF Along
  <2>9. v[n].pos = Len(more) + 1
    BY <2>8, <1>10
  <2>10. \A j \in Nat : v[j] = v[n] => v[j + 1] = v[n]
    <3>1. Scan(more, v[n]) = v[n]
      BY <2>9, <1>1 DEF Scan
    <3> QED BY <3>1, <2>3 DEF Scans
  <2>11. v[Len(more)] = v[n]
    BY <2>10, <1>1, Settled
  <2> QED BY <2>3, <2>8, <2>11
<1>11. CASE buf[k] = "nl"
  BY <1>7, <1>9, <1>11
<1>12. CASE buf[k] # "nl"
  <2>1. Scanned(buf, first) # Incomplete
    BY <1>7, <1>12 DEF Incomplete, Token
  <2> QED BY <2>1, <1>7, <1>9, <1>10, <1>12
<1> QED BY <1>11, <1>12

(* The states of a loop over the tokens of two buffers.                      *)
Abreast(buf, more, s, s2) ==
    \/ s2 = s /\ s.result = NoLine
    \/ s.pos = Len(buf) + 1 /\ s.result = NoLine
    \/ s.pos = Len(buf) + 1 /\ s2.pos = Len(more) + 1 /\ s2.result = s.result

(* Lines 410-426.                                                            *)
LEMMA SkipAbreast ==
  ASSUME NEW buf \in Seq(Chars), NEW more \in Seq(Chars), Continues(more, buf), NEW res,
         NEW s \in Readers(buf), NEW s2, Abreast(buf, more, s, s2)
  PROVE  Abreast(buf, more, Skip(buf, s, res), Skip(more, s2, res))
<1>1. /\ Len(buf) \in Nat /\ Len(more) \in Nat /\ Len(buf) <= Len(more) /\ s.pos \in 1 .. Len(buf) + 1
      /\ s.pos \in Nat
  <2>1. Len(buf) \in Nat /\ Len(more) \in Nat
    BY LenProperties
  <2> QED BY <2>1 DEF Continues, Readers
<1>2. s.pos = Len(buf) + 1 => Skip(buf, s, res) = s
  BY <1>1 DEF Skip
<1>3. s2.pos = Len(more) + 1 => Skip(more, s2, res) = s2
  BY <1>1 DEF Skip
<1>4. CASE s.pos = Len(buf) + 1 /\ s.result = NoLine
  BY <1>2, <1>4 DEF Abreast
<1>5. CASE s.pos = Len(buf) + 1 /\ s2.pos = Len(more) + 1 /\ s2.result = s.result
  BY <1>2, <1>3, <1>5 DEF Abreast
<1>6. CASE s2 = s /\ s.result = NoLine /\ s.pos # Len(buf) + 1
  <2> DEFINE q == s.pos
             t == ParseToken(buf, q)
  <2>1. q \in Nat \ {0} /\ q <= Len(buf) /\ q <= Len(more)
    BY <1>1, <1>6
  <2>2. CASE t.type = "NONE"
    <3>1. Skip(buf, s, res) = Reader(Len(buf) + 1, s.line, NoLine)
      BY <2>1, <2>2, <1>1 DEF Skip
    <3> QED BY <3>1 DEF Abreast, Reader
  <2>3. CASE t.type # "NONE"
    <3>1. ParseToken(more, q) = t
      BY <2>1, <2>3, TokenSame
    <3> HIDE DEF t
    <3>2. \A b : b = buf \/ b = more =>
            Skip(b, s, res) =
              CASE t.type = "NONE"                                -> Reader(Len(b) + 1, s.line, NoLine)
                [] t.type = "ABORT"                               -> Reader(Len(b) + 1, s.line, Aborts)
                [] t.type = "NEW_LINE"                            ->
                     Reader(Len(b) + 1, s.line, Result(res, Null, t.next - 1))
                [] t.type \notin {"NONE", "ABORT", "NEW_LINE"}    -> Reader(t.next, s.line, NoLine)
      <4>1. ParseToken(buf, q) = t /\ ~ (q > Len(buf)) /\ ~ (q > Len(more))
        BY <2>1, <1>1 DEF t
      <4> QED BY <4>1, <3>1 DEF Skip
    <3>3. CASE t.type \in {"ABORT", "NEW_LINE"}
      <4>1. \E r : /\ Skip(buf, s, res) = Reader(Len(buf) + 1, s.line, r)
                   /\ Skip(more, s, res) = Reader(Len(more) + 1, s.line, r)
        BY <3>2, <3>3
      <4> QED BY <4>1, <1>6 DEF Abreast, Reader
    <3>4. CASE t.type \notin {"NONE", "ABORT", "NEW_LINE"}
      <4>1. /\ Skip(buf, s, res) = Reader(t.next, s.line, NoLine)
            /\ Skip(more, s, res) = Reader(t.next, s.line, NoLine)
        BY <3>2, <3>4
      <4> QED BY <4>1, <1>6 DEF Abreast, Reader
    <3> QED BY <2>3, <3>3, <3>4
  <2> QED BY <2>2, <2>3
<1> QED BY <1>4, <1>5, <1>6 DEF Abreast

(* A bad line that has its end.                                              *)
LEMMA SkipSame ==
  ASSUME NEW buf \in Seq(Chars), NEW more \in Seq(Chars), Continues(more, buf), NEW res \in Errors,
         NEW p \in 1 .. Len(buf) + 1, SkipLine(buf, p, res) # NoLine
  PROVE  SkipLine(more, p, res) = SkipLine(buf, p, res)
<1> DEFINE n == Len(buf)
           first == Reader(p, EmptyLine, NoLine)
<1>1. n \in Nat /\ Len(more) \in Nat /\ n <= Len(more) /\ p \in 1 .. Len(more) + 1
  <2>1. n \in Nat /\ Len(more) \in Nat
    BY LenProperties
  <2> QED BY <2>1 DEF Continues
<1>2. first \in Readers(buf) /\ first \in Readers(more) /\ first.result = NoLine
  <2>1. first \in Readers(buf)
    BY EmptyBegun, ResultIs, ReaderIs
  <2>2. first \in Readers(more)
    BY <1>1, EmptyBegun, ResultIs, ReaderIs
  <2> QED BY <2>1, <2>2 DEF Reader
<1>3. PICK u \in [Nat -> Readers(buf)] : Skips(u, buf, p, res) /\ SkipLine(buf, p, res) = u[Len(buf)].result
  <2>1. \A s \in Readers(buf) : Skip(buf, s, res) \in Readers(buf)
    BY SkipKeeps
  <2> QED BY <2>1, <1>2, SkipLoop
<1>4. PICK v \in [Nat -> Readers(more)] : Skips(v, more, p, res) /\ SkipLine(more, p, res) = v[Len(more)].result
  <2>1. \A s \in Readers(more) : Skip(more, s, res) \in Readers(more)
    BY SkipKeeps
  <2> QED BY <2>1, <1>2, SkipLoop
<1>5. u[0] = first /\ v[0] = first
  BY <1>3, <1>4 DEF Skips
<1> HIDE DEF first
<1> DEFINE T == {j \in Nat : Abreast(buf, more, u[j], v[j])}
<1>6. 0 \in T
  BY <1>2, <1>5 DEF Abreast
<1>7. ASSUME NEW j \in T PROVE j + 1 \in T
  <2>1. u[j + 1] = Skip(buf, u[j], res) /\ v[j + 1] = Skip(more, v[j], res) /\ u[j] \in Readers(buf)
    BY <1>3, <1>4 DEF Skips
  <2>2. Abreast(buf, more, u[j], v[j])
    OBVIOUS
  <2>3. Abreast(buf, more, Skip(buf, u[j], res), Skip(more, v[j], res))
    BY <2>1, <2>2, SkipAbreast
  <2> QED BY <2>1, <2>3
<1>8. T = Nat
  <2> HIDE DEF T
  <2>1. T \subseteq Nat
    BY DEF T
  <2> QED BY <1>6, <1>7, <2>1, Induction
<1>9. Abreast(buf, more, u[n], v[n])
  BY <1>1, <1>8
<1>10. v[n].result = u[n].result /\ v[n].pos = Len(more) + 1
  BY <1>3, <1>9 DEF Abreast
<1>11. \A j \in Nat : v[j] = v[n] => v[j + 1] = v[n]
  <2>1. Skip(more, v[n], res) = v[n]
    BY <1>1, <1>10 DEF Skip
  <2> QED BY <2>1, <1>4 DEF Skips
<1>12. v[Len(more)] = v[n]
  BY <1>1, <1>11, Settled
<1> QED BY <1>3, <1>4, <1>10, <1>12

(* Lines 396-408.                                                            *)
LEMMA EndSame ==
  ASSUME NEW buf \in Seq(Chars), NEW more \in Seq(Chars), Continues(more, buf),
         NEW p \in Nat \ {0}, NEW t \in Tokens(buf, p), NEW line, EndLine(buf, t, line) # NoLine
  PROVE  EndLine(more, t, line) = EndLine(buf, t, line)
<1>1. CASE t.type \in {"NONE", "ABORT", "NEW_LINE"}
  BY <1>1 DEF EndLine
<1>2. CASE t.type \notin {"NONE", "ABORT", "NEW_LINE"}
  <2>1. /\ EndLine(buf, t, line) = SkipLine(buf, t.next, "TOO_LATE_ARGUMENTS")
        /\ EndLine(more, t, line) = SkipLine(more, t.next, "TOO_LATE_ARGUMENTS")
    BY <1>2 DEF EndLine
  <2>2. t.next \in 1 .. Len(buf) + 1 /\ "TOO_LATE_ARGUMENTS" \in Errors
    BY <1>2, TokenEnds DEF Errors
  <2> QED BY <2>1, <2>2, SkipSame
<1> QED BY <1>1, <1>2

(* Lines 389-395.                                                            *)
LEMMA BackgroundSame ==
  ASSUME NEW buf \in Seq(Chars), NEW more \in Seq(Chars), Continues(more, buf),
         NEW p \in Nat \ {0}, NEW t \in Tokens(buf, p), NEW line, Background(buf, t, line) # NoLine
  PROVE  Background(more, t, line) = Background(buf, t, line)
<1>1. CASE t.type = "BACKGROUND"
  <2> DEFINE u == ParseToken(buf, t.next)
             l == [line EXCEPT !.background = TRUE]
  <2>1. t.next \in Nat \ {0} /\ u \in Tokens(buf, t.next)
    <3>1. t.next \in Nat \ {0}
      BY <1>1, TokenEnds
    <3> QED BY <3>1, TokenIs
  <2>2. Background(buf, t, line) = EndLine(buf, u, l)
    BY <1>1 DEF Background
  <2>3. Background(more, t, line) = EndLine(more, ParseToken(more, t.next), l)
    BY <1>1 DEF Background
  <2> HIDE DEF u, l
  <2>4. u.type # "NONE"
    BY <2>2 DEF EndLine
  <2>5. ParseToken(more, t.next) = u
    BY <2>1, <2>4, TokenSame DEF u
  <2>6. EndLine(more, u, l) = EndLine(buf, u, l)
    BY <2>1, <2>2, EndSame
  <2> QED BY <2>2, <2>3, <2>5, <2>6
<1>2. CASE t.type # "BACKGROUND"
  <2>1. Background(buf, t, line) = EndLine(buf, t, line) /\ Background(more, t, line) = EndLine(more, t, line)
    BY <1>2 DEF Background
  <2> QED BY <2>1, EndSame
<1> QED BY <1>1, <1>2

(* Lines 368-388.                                                            *)
LEMMA RedirectSame ==
  ASSUME NEW buf \in Seq(Chars), NEW more \in Seq(Chars), Continues(more, buf), NEW p \in Nat \ {0},
         NEW t \in Tokens(buf, p), t.type \notin {"NONE", "ABORT"}, NEW line, Redirect(buf, t, line) # NoLine
  PROVE  Redirect(more, t, line) = Redirect(buf, t, line)
<1> DEFINE q == t.next
           file == ParseToken(buf, q)
           out == IF t.type = "OUT_NEW" THEN "FILE_NEW" ELSE "FILE_APPEND"
           redirected == [line EXCEPT !.out = out, !.out_file = file.data]
<1>1. q \in Nat \ {0} /\ file \in Tokens(buf, q)
  <2>1. q \in Nat \ {0}
    BY TokenEnds
  <2> QED BY <2>1, TokenIs
<1>2. file.type # "NONE"
  BY DEF Redirect
<1>3. ParseToken(more, q) = file
  BY <1>1, <1>2, TokenSame
<1>4. /\ file.type = "ABORT" => Redirect(buf, t, line) = Aborts /\ Redirect(more, t, line) = Aborts
      /\ file.type \notin {"NONE", "ABORT", "STR"} =>
           /\ Redirect(buf, t, line) = SkipLine(buf, file.next, "OUTOUT_REDIRECT_BAD_ARG")
           /\ Redirect(more, t, line) = SkipLine(more, file.next, "OUTOUT_REDIRECT_BAD_ARG")
      /\ file.type = "STR" /\ file.data = <<>> =>
           Redirect(buf, t, line) = Aborts /\ Redirect(more, t, line) = Aborts
      /\ file.type = "STR" /\ file.data # <<>> =>
           /\ Redirect(buf, t, line) = Background(buf, ParseToken(buf, file.next), redirected)
           /\ Redirect(more, t, line) = Background(more, ParseToken(more, file.next), redirected)
  BY <1>3 DEF Redirect
<1> HIDE DEF redirected, file, q
<1>5. CASE file.type = "ABORT" \/ (file.type = "STR" /\ file.data = <<>>)
  BY <1>4, <1>5
<1>6. CASE file.type \notin {"NONE", "ABORT", "STR"}
  <2>1. file.next \in 1 .. Len(buf) + 1 /\ "OUTOUT_REDIRECT_BAD_ARG" \in Errors
    BY <1>1, <1>6, TokenEnds DEF Errors
  <2> QED BY <2>1, <1>4, <1>6, SkipSame
<1>7. CASE file.type = "STR" /\ file.data # <<>>
  <2> DEFINE u == ParseToken(buf, file.next)
  <2>1. file.next \in Nat \ {0} /\ u \in Tokens(buf, file.next)
    <3>1. file.next \in Nat \ {0}
      BY <1>1, <1>7, TokenEnds
    <3> QED BY <3>1, TokenIs
  <2>2. u.type # "NONE"
    BY <1>4, <1>7 DEF Background, EndLine
  <2>3. ParseToken(more, file.next) = u
    BY <2>1, <2>2, TokenSame
  <2> HIDE DEF u
  <2>4. /\ Redirect(buf, t, line) = Background(buf, u, redirected)
        /\ Redirect(more, t, line) = Background(more, u, redirected)
    BY <2>3, <1>4, <1>7 DEF u
  <2> QED BY <2>1, <2>4, BackgroundSame
<1> QED BY <1>2, <1>5, <1>6, <1>7

(* Lines 297-366.                                                            *)
LEMMA ParseAbreast ==
  ASSUME NEW buf \in Seq(Chars), NEW more \in Seq(Chars), Continues(more, buf),
         NEW s \in Readers(buf), NEW s2, Abreast(buf, more, s, s2)
  PROVE  Abreast(buf, more, Parse(buf, s), Parse(more, s2))
<1>1. /\ Len(buf) \in Nat /\ Len(more) \in Nat /\ Len(buf) <= Len(more) /\ s.pos \in 1 .. Len(buf) + 1
      /\ s.pos \in Nat
  <2>1. Len(buf) \in Nat /\ Len(more) \in Nat
    BY LenProperties
  <2> QED BY <2>1 DEF Continues, Readers
<1>2. s.pos = Len(buf) + 1 => Parse(buf, s) = s
  <2> SUFFICES ASSUME s.pos = Len(buf) + 1 PROVE Parse(buf, s) = s
    OBVIOUS
  <2>1. s.pos > Len(buf)
    BY <1>1
  <2> QED BY <2>1, Zenon DEF Parse
<1>3. s2.pos = Len(more) + 1 => Parse(more, s2) = s2
  <2> SUFFICES ASSUME s2.pos = Len(more) + 1 PROVE Parse(more, s2) = s2
    OBVIOUS
  <2>1. s2.pos > Len(more)
    BY <1>1
  <2> QED BY <2>1, Zenon DEF Parse
<1>4. CASE s.pos = Len(buf) + 1 /\ s.result = NoLine
  BY <1>2, <1>4 DEF Abreast
<1>5. CASE s.pos = Len(buf) + 1 /\ s2.pos = Len(more) + 1 /\ s2.result = s.result
  BY <1>2, <1>3, <1>5 DEF Abreast
<1>6. CASE s2 = s /\ s.result = NoLine /\ s.pos # Len(buf) + 1
  <2> DEFINE q == s.pos
             line == s.line
             t == ParseToken(buf, q)
             err == OperatorError(line, t.type)
             leave(b, r) == Reader(Len(b) + 1, line, r)
             go(l) == Reader(t.next, l, NoLine)
             turn(b) ==
               CASE t.type = "NONE"                       -> leave(b, NoLine)
                 [] t.type = "ABORT"                      -> leave(b, Aborts)
                 [] t.type = "STR"                        ->
                      IF t.data = <<>> THEN leave(b, Aborts) ELSE go(AddWord(line, t.data))
                 [] t.type = "NEW_LINE"                   ->
                      IF line.exprs = <<>> THEN go(line) ELSE leave(b, EndLine(b, t, line))
                 [] t.type \in Operators                  ->
                      IF err # "NONE" THEN leave(b, SkipLine(b, t.next, err))
                      ELSE go([line EXCEPT !.exprs = Append(@, Operator(t.type))])
                 [] t.type \in {"OUT_NEW", "OUT_APPEND"}  -> leave(b, Redirect(b, t, line))
                 [] t.type = "BACKGROUND"                 -> leave(b, Background(b, t, line))
  <2>1. q \in Nat \ {0} /\ ~ (q > Len(buf)) /\ ~ (q > Len(more)) /\ line \in BegunLines
    BY <1>1, <1>6 DEF Readers
  <2>2. Parse(buf, s) = turn(buf)
    BY <2>1, Zenon DEF Parse
  <2>3. t \in Tokens(buf, q)
    BY <2>1, TokenIs
  <2>4. CASE t.type = "NONE"
    <3>1. Parse(buf, s) = Reader(Len(buf) + 1, line, NoLine)
      BY <2>2, <2>4 DEF Operators
    <3> QED BY <3>1 DEF Abreast, Reader
  <2>5. CASE t.type # "NONE"
    <3>1. Parse(more, s) = turn(more)
      <4>1. ParseToken(more, q) = t
        BY <2>1, <2>5, TokenSame
      <4> DEFINE u == ParseToken(more, q)
                 err2 == OperatorError(line, u.type)
                 go2(l) == Reader(u.next, l, NoLine)
                 turn2(b) ==
                   CASE u.type = "NONE"                       -> leave(b, NoLine)
                     [] u.type = "ABORT"                      -> leave(b, Aborts)
                     [] u.type = "STR"                        ->
                          IF u.data = <<>> THEN leave(b, Aborts) ELSE go2(AddWord(line, u.data))
                     [] u.type = "NEW_LINE"                   ->
                          IF line.exprs = <<>> THEN go2(line) ELSE leave(b, EndLine(b, u, line))
                     [] u.type \in Operators                  ->
                          IF err2 # "NONE" THEN leave(b, SkipLine(b, u.next, err2))
                          ELSE go2([line EXCEPT !.exprs = Append(@, Operator(u.type))])
                     [] u.type \in {"OUT_NEW", "OUT_APPEND"}  -> leave(b, Redirect(b, u, line))
                     [] u.type = "BACKGROUND"                 -> leave(b, Background(b, u, line))
      <4>2. Parse(more, s) = turn2(more)
        BY <2>1, Zenon DEF Parse
      <4>3. turn2(more) = turn(more)
        BY <4>1, Zenon
      <4> HIDE DEF turn, turn2
      <4> QED BY <4>2, <4>3
    <3> HIDE DEF t, q, line
    <3>2. \A r, r2 : /\ Parse(buf, s) = leave(buf, r) /\ Parse(more, s) = leave(more, r2)
                     /\ r # NoLine => r2 = r
                     => Abreast(buf, more, Parse(buf, s), Parse(more, s))
      BY DEF Abreast, Reader
    <3>3. \A l : Parse(buf, s) = go(l) /\ Parse(more, s) = go(l)
                   => Abreast(buf, more, Parse(buf, s), Parse(more, s))
      BY DEF Abreast, Reader
    <3>4. CASE t.type = "ABORT" \/ (t.type = "STR" /\ t.data = <<>>)
      <4>1. Parse(buf, s) = leave(buf, Aborts) /\ Parse(more, s) = leave(more, Aborts)
        BY <2>2, <3>1, <3>4 DEF Operators
      <4> HIDE DEF leave
      <4> QED BY <4>1, <3>2, <1>6
    <3>5. CASE t.type = "STR" /\ t.data # <<>>
      <4>1. Parse(buf, s) = go(AddWord(line, t.data)) /\ Parse(more, s) = go(AddWord(line, t.data))
        BY <2>2, <3>1, <3>5 DEF Operators
      <4> HIDE DEF go
      <4> QED BY <4>1, <3>3, <1>6
    <3>6. CASE t.type = "NEW_LINE" /\ line.exprs = <<>>
      <4>1. Parse(buf, s) = go(line) /\ Parse(more, s) = go(line)
        BY <2>2, <3>1, <3>6 DEF Operators
      <4> HIDE DEF go
      <4> QED BY <4>1, <3>3, <1>6
    <3>7. CASE t.type = "NEW_LINE" /\ line.exprs # <<>>
      <4>1. Parse(buf, s) = leave(buf, EndLine(buf, t, line)) /\ Parse(more, s) = leave(more, EndLine(more, t, line))
        BY <2>2, <3>1, <3>7 DEF Operators
      <4>2. EndLine(buf, t, line) # NoLine => EndLine(more, t, line) = EndLine(buf, t, line)
        BY <2>1, <2>3, EndSame DEF q
      <4> HIDE DEF leave
      <4> QED BY <4>1, <4>2, <3>2, <1>6
    <3>8. CASE t.type \in Operators /\ err # "NONE"
      <4>1. t.type \notin {"NONE", "ABORT", "STR", "NEW_LINE", "OUT_NEW", "OUT_APPEND", "BACKGROUND"}
        BY <3>8 DEF Operators
      <4>2. /\ Parse(buf, s) = leave(buf, SkipLine(buf, t.next, err))
            /\ Parse(more, s) = leave(more, SkipLine(more, t.next, err))
        BY <2>2, <3>1, <3>8, <4>1
      <4>3. err \in Errors /\ t.next \in 1 .. Len(buf) + 1
        <5>1. err \in Errors
          BY <3>8, <2>1, OperatorAdded
        <5> QED BY <5>1, <4>1, <2>1, <2>3, TokenEnds DEF q
      <4> HIDE DEF err
      <4>4. SkipLine(buf, t.next, err) # NoLine => SkipLine(more, t.next, err) = SkipLine(buf, t.next, err)
        BY <4>3, SkipSame
      <4> HIDE DEF leave
      <4> QED BY <4>2, <4>4, <3>2, <1>6
    <3>9. CASE t.type \in Operators /\ err = "NONE"
      <4> DEFINE l == [line EXCEPT !.exprs = Append(@, Operator(t.type))]
      <4>1. t.type \notin {"NONE", "ABORT", "STR", "NEW_LINE", "OUT_NEW", "OUT_APPEND", "BACKGROUND"}
        BY <3>9 DEF Operators
      <4>2. Parse(buf, s) = go(l) /\ Parse(more, s) = go(l)
        BY <2>2, <3>1, <3>9, <4>1
      <4> HIDE DEF go, l
      <4> QED BY <4>2, <3>3, <1>6
    <3>10. CASE t.type \in {"OUT_NEW", "OUT_APPEND"}
      <4>1. /\ Parse(buf, s) = leave(buf, Redirect(buf, t, line))
            /\ Parse(more, s) = leave(more, Redirect(more, t, line))
        BY <2>2, <3>1, <3>10 DEF Operators
      <4>2. Redirect(buf, t, line) # NoLine => Redirect(more, t, line) = Redirect(buf, t, line)
        BY <3>10, <2>1, <2>3, RedirectSame DEF q
      <4> HIDE DEF leave
      <4> QED BY <4>1, <4>2, <3>2, <1>6
    <3>11. CASE t.type = "BACKGROUND"
      <4>1. /\ Parse(buf, s) = leave(buf, Background(buf, t, line))
            /\ Parse(more, s) = leave(more, Background(more, t, line))
        BY <2>2, <3>1, <3>11 DEF Operators
      <4>2. Background(buf, t, line) # NoLine => Background(more, t, line) = Background(buf, t, line)
        BY <2>1, <2>3, BackgroundSame DEF q
      <4> HIDE DEF leave
      <4> QED BY <4>1, <4>2, <3>2, <1>6
    <3>12. t.type \in TokenTypes
      BY <2>3 DEF Tokens
    <3> QED BY <3>4, <3>5, <3>6, <3>7, <3>8, <3>9, <3>10, <3>11, <3>12, <2>5, <1>6 DEF TokenTypes, Operators
  <2> QED BY <2>4, <2>5
<1> QED BY <1>4, <1>5, <1>6 DEF Abreast

(* Lines 287-435: a result stays what it is when more arrives.               *)
LEMMA PopSame ==
  ASSUME NEW buf \in Seq(Chars), NEW more \in Seq(Chars), Continues(more, buf), pop_next(buf) # NoLine
  PROVE  pop_next(more) = pop_next(buf)
<1> DEFINE n == Len(buf)
           first == Reader(1, EmptyLine, NoLine)
<1>1. n \in Nat /\ Len(more) \in Nat /\ n <= Len(more) /\ 1 \in 1 .. n + 1 /\ 1 \in 1 .. Len(more) + 1
  <2>1. n \in Nat /\ Len(more) \in Nat
    BY LenProperties
  <2> QED BY <2>1 DEF Continues
<1>2. first \in Readers(buf) /\ first \in Readers(more) /\ first.result = NoLine
  <2>1. first \in Readers(buf)
    BY <1>1, EmptyBegun, ResultIs, ReaderIs
  <2>2. first \in Readers(more)
    BY <1>1, EmptyBegun, ResultIs, ReaderIs
  <2> QED BY <2>1, <2>2 DEF Reader
<1>3. PICK u \in [Nat -> Readers(buf)] : Parses(u, buf) /\ pop_next(buf) = u[Len(buf)].result
  <2>1. \A s \in Readers(buf) : Parse(buf, s) \in Readers(buf)
    BY ParseKeeps
  <2> QED BY <2>1, <1>2, ParseLoop
<1>4. PICK v \in [Nat -> Readers(more)] : Parses(v, more) /\ pop_next(more) = v[Len(more)].result
  <2>1. \A s \in Readers(more) : Parse(more, s) \in Readers(more)
    BY ParseKeeps
  <2> QED BY <2>1, <1>2, ParseLoop
<1>5. u[0] = first /\ v[0] = first
  BY <1>3, <1>4 DEF Parses
<1> HIDE DEF first
<1> DEFINE T == {j \in Nat : Abreast(buf, more, u[j], v[j])}
<1>6. 0 \in T
  BY <1>2, <1>5 DEF Abreast
<1>7. ASSUME NEW j \in T PROVE j + 1 \in T
  <2>1. u[j + 1] = Parse(buf, u[j]) /\ v[j + 1] = Parse(more, v[j]) /\ u[j] \in Readers(buf)
    BY <1>3, <1>4 DEF Parses
  <2>2. Abreast(buf, more, u[j], v[j])
    OBVIOUS
  <2>3. Abreast(buf, more, Parse(buf, u[j]), Parse(more, v[j]))
    BY <2>1, <2>2, ParseAbreast
  <2> QED BY <2>1, <2>3
<1>8. T = Nat
  <2> HIDE DEF T
  <2>1. T \subseteq Nat
    BY DEF T
  <2> QED BY <1>6, <1>7, <2>1, Induction
<1>9. Abreast(buf, more, u[n], v[n])
  BY <1>1, <1>8
<1>10. v[n].result = u[n].result /\ v[n].pos = Len(more) + 1
  BY <1>3, <1>9 DEF Abreast
<1>11. \A j \in Nat : v[j] = v[n] => v[j + 1] = v[n]
  <2>1. Parse(more, v[n]) = v[n]
    <3>1. v[n].pos > Len(more)
      BY <1>1, <1>10
    <3> QED BY <3>1, Zenon DEF Parse
  <2> QED BY <2>1, <1>4 DEF Parses
<1>12. v[Len(more)] = v[n]
  BY <1>1, <1>11, Settled
<1> QED BY <1>3, <1>4, <1>10, <1>12

(* Lines 126-136: what is consumed is at the front of the buffer.            *)
LEMMA ConsumedSame ==
  ASSUME NEW buf \in Seq(Chars), NEW y \in Seq(Chars), NEW n \in 1 .. Len(buf)
  PROVE  /\ Consume(buf, n) \in Seq(Chars) /\ Len(Consume(buf, n)) = Len(buf) - n
         /\ Consume(buf \o y, n) = Consume(buf, n) \o y
<1> DEFINE long == buf \o y
           a == Consume(buf, n)
           b == Consume(long, n)
           m == Len(buf)
           k == Len(y)
<1>1. m \in Nat /\ k \in Nat /\ n \in Nat /\ n <= m /\ n + 1 \in Int /\ m \in Int
  BY LenProperties
<1>2. /\ long \in Seq(Chars) /\ Len(long) = m + k
      /\ \A i \in 1 .. m + k : long[i] = IF i <= m THEN buf[i] ELSE y[i - m]
  BY ConcatProperties, SMTT(40)
<1> HIDE DEF long
<1>3. a \in Seq(Chars) /\ Len(a) = m - n /\ \A i \in 1 .. m - n : a[i] = buf[n + i]
  <2>1. \A i \in n + 1 .. m : buf[i] \in Chars
    BY <1>1, ElementOfSeq
  <2>2. /\ SubSeq(buf, n + 1, m) \in Seq(Chars)
        /\ Len(SubSeq(buf, n + 1, m)) = IF n + 1 <= m THEN m - (n + 1) + 1 ELSE 0
        /\ \A i \in 1 .. m - (n + 1) + 1 : SubSeq(buf, n + 1, m)[i] = buf[n + 1 + i - 1]
    BY <2>1, <1>1, SubSeqProperties
  <2>3. /\ (IF n + 1 <= m THEN m - (n + 1) + 1 ELSE 0) = m - n /\ m - (n + 1) + 1 = m - n
        /\ \A i \in 1 .. m - n : n + 1 + i - 1 = n + i
    BY <1>1
  <2> HIDE DEF m
  <2> QED BY <2>2, <2>3 DEF Consume, m
<1>4. b \in Seq(Chars) /\ Len(b) = m + k - n /\ \A i \in 1 .. m + k - n : b[i] = long[n + i]
  <2>1. \A i \in n + 1 .. m + k : long[i] \in Chars
    <3>1. \A i \in n + 1 .. m + k : i \in 1 .. Len(long)
      BY <1>1, <1>2
    <3> QED BY <3>1, <1>2, ElementOfSeq
  <2>2. m + k \in Int /\ n + 1 \in Int
    BY <1>1
  <2>3. /\ SubSeq(long, n + 1, m + k) \in Seq(Chars)
        /\ Len(SubSeq(long, n + 1, m + k)) = IF n + 1 <= m + k THEN (m + k) - (n + 1) + 1 ELSE 0
        /\ \A i \in 1 .. (m + k) - (n + 1) + 1 : SubSeq(long, n + 1, m + k)[i] = long[n + 1 + i - 1]
    <3> HIDE DEF m, k
    <3> QED BY <2>1, <2>2, SubSeqProperties
  <2>4. /\ (IF n + 1 <= m + k THEN (m + k) - (n + 1) + 1 ELSE 0) = m + k - n /\ (m + k) - (n + 1) + 1 = m + k - n
        /\ \A i \in 1 .. m + k - n : n + 1 + i - 1 = n + i
    BY <1>1
  <2>5. b = SubSeq(long, n + 1, m + k)
    BY <1>2 DEF Consume
  <2> HIDE DEF m, k, b
  <2> QED BY <2>3, <2>4, <2>5
<1>5. /\ a \o y \in Seq(Chars) /\ Len(a \o y) = (m - n) + k
      /\ \A i \in 1 .. (m - n) + k : (a \o y)[i] = IF i <= m - n THEN a[i] ELSE y[i - (m - n)]
  <2> HIDE DEF a
  <2>1. /\ a \o y \in Seq(Chars) /\ Len(a \o y) = Len(a) + k
        /\ \A i \in 1 .. Len(a) + k : (a \o y)[i] = IF i <= Len(a) THEN a[i] ELSE y[i - Len(a)]
    BY <1>3, ConcatProperties
  <2>2. Len(a) = m - n
    BY <1>3
  <2> HIDE DEF m, k
  <2> QED BY <2>1, <2>2
<1> HIDE DEF a, b, m, k
<1>6. ASSUME NEW i \in 1 .. Len(b) PROVE b[i] = (a \o y)[i]
  <2>1. /\ i \in 1 .. m + k - n /\ i \in 1 .. (m - n) + k /\ n + i \in 1 .. m + k /\ n + i \in Nat
        /\ n + i <= m <=> i <= m - n
        /\ i <= m - n => i \in 1 .. m - n
        /\ (n + i) - m = i - (m - n)
    BY <1>1, <1>4
  <2>2. b[i] = long[n + i] /\ long[n + i] = IF n + i <= m THEN buf[n + i] ELSE y[(n + i) - m]
    BY <2>1, <1>2, <1>4
  <2>3. (a \o y)[i] = IF i <= m - n THEN a[i] ELSE y[i - (m - n)]
    BY <2>1, <1>5
  <2>4. i <= m - n => a[i] = buf[n + i]
    BY <2>1, <1>3
  <2> QED BY <2>1, <2>2, <2>3, <2>4
<1>7. Len(b) = Len(a \o y)
  BY <1>1, <1>4, <1>5
<1>8. b = a \o y
  BY <1>4, <1>5, <1>6, <1>7, SeqEqual
<1> QED BY <1>3, <1>8 DEF a, b, m, long

(* The states of the loop over the lines of a text.                          *)
Rests == [rest : Seq(Chars), results : Seq(PoppedResults)]

(* A turn of it, with what pop_next returns.                                 *)
LEMMA PopTurn ==
  ASSUME NEW s \in Rests
  PROVE  /\ PopAll(s) \in Rests
         /\ pop_next(s.rest) \in {NoLine, Aborts} => PopAll(s) = s
         /\ pop_next(s.rest) \notin {NoLine, Aborts} =>
              PopAll(s) = Popped(Consume(s.rest, pop_next(s.rest).consumed),
                                 Append(s.results, <<pop_next(s.rest).res, pop_next(s.rest).line>>))
<1> DEFINE r == pop_next(s.rest)
           next == Popped(Consume(s.rest, r.consumed), Append(s.results, <<r.res, r.line>>))
<1>1. s.rest \in Seq(Chars) /\ s.results \in Seq(PoppedResults)
  BY DEF Rests
<1>2. r \in Results(s.rest)
  BY <1>1, PopIs
<1>3. PopAll(s) = IF r.res = "ABORT" \/ (r.res = "NONE" /\ r.line = Null) \/ r.consumed = 0 THEN s ELSE next
  BY Zenon DEF PopAll, PopResult
<1> HIDE DEF r
<1>4. CASE r \in {NoLine, Aborts}
  <2>1. r.res = "ABORT" \/ (r.res = "NONE" /\ r.line = Null)
    BY <1>4 DEF NoLine, Aborts, Result
  <2>2. PopAll(s) = s
    BY <2>1, <1>3
  <2> QED BY <2>2, <1>4 DEF r
<1>5. CASE r \notin {NoLine, Aborts}
  <2>1. r.res # "ABORT" /\ ~ (r.res = "NONE" /\ r.line = Null) /\ (r.res \notin {"ABORT", "NONE"} \/ r.line # Null)
    <3>1. "ABORT" \notin Errors /\ "NONE" \notin Errors
      BY DEF Errors
    <3>2. \/ \E line \in {l \in Lines(Chars) : WellFormed(l)}, n \in 1 .. Len(s.rest) : r = Result("NONE", line, n)
          \/ \E res \in Errors, n \in 1 .. Len(s.rest) : r = Result(res, Null, n)
      BY <1>2, <1>5 DEF Results
    <3>3. \A line \in {l \in Lines(Chars) : WellFormed(l)} : line # Null
      BY ParserAssumption
    <3> QED BY <3>1, <3>2, <3>3 DEF Result
  <2>2. /\ <<r.res, r.line>> \in PoppedResults /\ r.consumed \in 1 .. Len(s.rest)
        /\ Consume(s.rest, r.consumed) \in Seq(Chars)
    BY <1>1, <1>2, <2>1, PoppedIs
  <2>3. r.consumed # 0
    BY <2>2
  <2>4. PopAll(s) = next
    BY <1>3, <2>1, <2>3
  <2>5. Append(s.results, <<r.res, r.line>>) \in Seq(PoppedResults)
    BY <1>1, <2>2, AppendProperties
  <2>6. next \in Rests
    BY <2>2, <2>5 DEF Rests, Popped
  <2> QED BY <1>5, <2>4, <2>6 DEF r
<1> QED BY <1>4, <1>5

-----------------------------------------------------------------------------
(* Reads of any size *)

(* The lines of "all" up to the rest "buf" are "done", whatever follows.     *)
Reached(all, buf, done) ==
    \E j \in Nat : /\ j + Len(buf) <= Len(all)
                   /\ \A y \in Seq(Chars), run \in [Nat -> Rests] :
                        Pops(run, all \o y) => run[j] = Popped(buf \o y, done)

(* Nothing is reached yet.                                                   *)
LEMMA ReachedStart == Reached(<<>>, <<>>, <<>>)
<1>1. 0 \in Nat /\ 0 + Len(<<>>) <= Len(<<>>)
  BY EmptySeq
<1>2. ASSUME NEW y \in Seq(Chars), NEW run \in [Nat -> Rests], Pops(run, <<>> \o y)
      PROVE  run[0] = Popped(<<>> \o y, <<>>)
  BY <1>2 DEF Pops
<1> QED BY <1>1, <1>2 DEF Reached

(* A read moves what follows into the buffer.                                *)
LEMMA ReachedFeed ==
  ASSUME NEW all \in Seq(Chars), NEW buf \in Seq(Chars), NEW chunk \in Seq(Chars), NEW done,
         Reached(all, buf, done)
  PROVE  Reached(all \o chunk, buf \o chunk, done)
<1>1. PICK j \in Nat : /\ j + Len(buf) <= Len(all)
                       /\ \A y \in Seq(Chars), run \in [Nat -> Rests] :
                            Pops(run, all \o y) => run[j] = Popped(buf \o y, done)
  BY DEF Reached
<1>2. j + Len(buf \o chunk) <= Len(all \o chunk)
  <2>1. Len(buf \o chunk) = Len(buf) + Len(chunk) /\ Len(all \o chunk) = Len(all) + Len(chunk)
    BY ConcatProperties
  <2>2. Len(buf) \in Nat /\ Len(all) \in Nat /\ Len(chunk) \in Nat
    BY LenProperties
  <2> QED BY <2>1, <2>2, <1>1
<1>3. ASSUME NEW y \in Seq(Chars), NEW run \in [Nat -> Rests], Pops(run, (all \o chunk) \o y)
      PROVE  run[j] = Popped((buf \o chunk) \o y, done)
  <2>1. (all \o chunk) \o y = all \o (chunk \o y) /\ (buf \o chunk) \o y = buf \o (chunk \o y)
    <3>1. (all \o chunk) \o y = all \o (chunk \o y)
      BY ConcatAssociative, SMTT(40)
    <3>2. (buf \o chunk) \o y = buf \o (chunk \o y)
      BY ConcatAssociative, SMTT(40)
    <3> QED BY <3>1, <3>2
  <2>2. chunk \o y \in Seq(Chars)
    BY ConcatProperties
  <2>3. Pops(run, all \o (chunk \o y))
    BY <1>3, <2>1
  <2>4. run[j] = Popped(buf \o (chunk \o y), done)
    BY <2>2, <2>3, <1>1
  <2> QED BY <2>1, <2>4
<1> QED BY <1>2, <1>3 DEF Reached

(* A result that is popped is the next one of every text that goes on.       *)
LEMMA ReachedPop ==
  ASSUME NEW all \in Seq(Chars), NEW buf \in Seq(Chars), NEW done \in Seq(PoppedResults),
         Reached(all, buf, done), pop_next(buf) \notin {NoLine, Aborts}
  PROVE  Reached(all, Consume(buf, pop_next(buf).consumed),
                 Append(done, <<pop_next(buf).res, pop_next(buf).line>>))
<1>1. PICK j \in Nat : /\ j + Len(buf) <= Len(all)
                       /\ \A y \in Seq(Chars), run \in [Nat -> Rests] :
                            Pops(run, all \o y) => run[j] = Popped(buf \o y, done)
  BY DEF Reached
<1> DEFINE r == pop_next(buf)
           n == r.consumed
           rest == Consume(buf, n)
           results == Append(done, <<r.res, r.line>>)
<1>2. r \in Results(buf) /\ r \notin {NoLine, Aborts}
  BY PopIs
<1> HIDE DEF r
<1>3. n \in 1 .. Len(buf)
  BY <1>2 DEF Results, Result
<1>4. rest \in Seq(Chars) /\ Len(rest) = Len(buf) - n
  BY <1>3, EmptySeq, ConsumedSame
<1>5. j + 1 \in Nat /\ (j + 1) + Len(rest) <= Len(all)
  <2>1. Len(buf) \in Nat /\ Len(all) \in Nat
    BY LenProperties
  <2> HIDE DEF rest, n
  <2> QED BY <2>1, <1>1, <1>3, <1>4
<1>6. ASSUME NEW y \in Seq(Chars), NEW run \in [Nat -> Rests], Pops(run, all \o y)
      PROVE  run[j + 1] = Popped(rest \o y, results)
  <2> DEFINE long == buf \o y
             s == Popped(long, done)
  <2>1. run[j] = s /\ run[j + 1] = PopAll(run[j]) /\ run[j] \in Rests
    BY <1>1, <1>6 DEF Pops
  <2>2. long \in Seq(Chars) /\ Continues(long, buf)
    <3>1. /\ long \in Seq(Chars) /\ Len(long) = Len(buf) + Len(y)
          /\ \A i \in 1 .. Len(buf) + Len(y) : long[i] = IF i <= Len(buf) THEN buf[i] ELSE y[i - Len(buf)]
      BY ConcatProperties
    <3>2. Len(buf) \in Nat /\ Len(y) \in Nat
      BY LenProperties
    <3> HIDE DEF long
    <3>3. Len(buf) <= Len(long) /\ \A i \in 1 .. Len(buf) : long[i] = buf[i]
      BY <3>1, <3>2
    <3> QED BY <3>1, <3>3 DEF Continues
  <2> HIDE DEF long
  <2>3. pop_next(long) = r
    BY <2>2, <1>2, PopSame DEF r
  <2>4. s.rest = long /\ s.results = done
    BY DEF Popped
  <2>5. PopAll(s) = Popped(Consume(long, n), results)
    <3> HIDE DEF s
    <3> QED BY <2>1, <2>3, <2>4, <1>2, PopTurn
  <2>6. Consume(long, n) = rest \o y
    BY <1>3, ConsumedSame DEF long
  <2> HIDE DEF s, rest, results, n
  <2> QED BY <2>1, <2>5, <2>6
<1> HIDE DEF rest, results
<1>7. Reached(all, rest, results)
  BY <1>5, <1>6 DEF Reached
<1> QED BY <1>7 DEF rest, results, r

(* When there is nothing to pop, the whole text has been gone through.       *)
LEMMA ReachedRest ==
  ASSUME NEW all \in Seq(Chars), NEW buf \in Seq(Chars), NEW done, Reached(all, buf, done),
         pop_next(buf) \in {NoLine, Aborts}, NEW run \in [Nat -> Rests], Pops(run, all)
  PROVE  run[Len(all)] = Popped(buf, done)
<1>1. PICK j \in Nat : /\ j + Len(buf) <= Len(all)
                       /\ \A y \in Seq(Chars), r \in [Nat -> Rests] :
                            Pops(r, all \o y) => r[j] = Popped(buf \o y, done)
  BY DEF Reached
<1>2. run[j] = Popped(buf, done)
  <2>1. <<>> \in Seq(Chars) /\ all \o <<>> = all /\ buf \o <<>> = buf
    BY EmptySeq, ConcatEmptySeq
  <2>2. Pops(run, all \o <<>>)
    BY <2>1
  <2>3. run[j] = Popped(buf \o <<>>, done)
    BY <2>1, <2>2, <1>1
  <2> QED BY <2>1, <2>3
<1>3. run[j] \in Rests /\ run[j].rest = buf
  BY <1>2 DEF Popped
<1>4. PopAll(run[j]) = run[j]
  BY <1>3, PopTurn
<1>5. \A i \in Nat : run[i] = run[j] => run[i + 1] = run[j]
  BY <1>4 DEF Pops
<1>6. Len(all) \in Nat /\ j <= Len(all)
  <2>1. Len(buf) \in Nat /\ Len(all) \in Nat
    BY LenProperties
  <2> QED BY <2>1, <1>1
<1>7. run[Len(all)] = run[j]
  BY <1>5, <1>6, Settled
<1> QED BY <1>2, <1>7

(* The loop over the lines of a text.                                        *)
LEMMA PopRun ==
  ASSUME NEW text \in Seq(Chars)
  PROVE  \E run \in [Nat -> Rests] : Pops(run, text) /\ AllResults(text) = run[Len(text)].results
<1>1. Popped(text, <<>>) \in Rests
  BY EmptySeq DEF Popped, Rests
<1>2. \A s \in Rests : PopAll(s) \in Rests
  BY PopTurn
<1> QED BY <1>1, <1>2, PopLoop

LEMMA ReachedAll ==
  ASSUME NEW all \in Seq(Chars), NEW buf \in Seq(Chars), NEW done, Reached(all, buf, done),
         pop_next(buf) \in {NoLine, Aborts}
  PROVE  AllResults(all) = done
<1>1. PICK run \in [Nat -> Rests] : Pops(run, all) /\ AllResults(all) = run[Len(all)].results
  BY PopRun
<1>2. run[Len(all)] = Popped(buf, done)
  BY <1>1, ReachedRest
<1> QED BY <1>1, <1>2 DEF Popped

(* What has been popped is what the whole text begins with, and after the    *)
(* loop of solution.c:240-254 there is nothing left to pop.                  *)
SplitInv ==
    /\ IInv
    /\ Reached(fed, buffer, popped)
    /\ phase # "pop" => pop_next(buffer) \in {NoLine, Aborts}

(* Before the first read.                                                    *)
LEMMA SplitStarts == Init => SplitInv
<1> SUFFICES ASSUME Init PROVE SplitInv
  OBVIOUS
<1>1. fed = <<>> /\ buffer = <<>> /\ popped = <<>>
  BY DEF Init
<1>2. pop_next(<<>>) \in {NoLine, Aborts}
  <2>1. <<>> \in Seq(Chars) /\ Len(<<>>) = 0
    BY EmptySeq
  <2>2. pop_next(<<>>) \in Results(<<>>)
    BY <2>1, PopIs
  <2>3. 1 .. Len(<<>>) = {}
    BY <2>1
  <2> QED BY <2>2, <2>3 DEF Results
<1> QED BY <1>1, <1>2, Starts, ReachedStart DEF SplitInv

(* A read or a pop, with what the results of the whole text are.             *)
LEMMA SplitKeeps ==
  ASSUME SplitInv, [Next]_vars
  PROVE  SplitInv'
<1>1. IInv /\ IInv' /\ Reached(fed, buffer, popped)
  BY StepKeeps DEF SplitInv
<1>2. ASSUME NEW n \in Chunks, Feed(n) PROVE SplitInv'
  <2> DEFINE chunk == SubSeq(input, 1, n)
  <2>1. n \in Nat /\ n <= Len(input)
    BY <1>2, ParserAssumption DEF Feed
  <2>2. chunk \in Seq(Chars) /\ fed \in Seq(Chars) /\ buffer \in Seq(Chars)
    BY <2>1, <1>1, Piece DEF IInv
  <2>3. /\ fed' = fed \o chunk /\ buffer' = buffer \o chunk
        /\ phase' = "pop" /\ popped' = popped
    BY <1>2 DEF Feed
  <2> HIDE DEF chunk
  <2>4. Reached(fed \o chunk, buffer \o chunk, popped)
    BY <2>2, <1>1, ReachedFeed
  <2>5. Reached(fed', buffer', popped')
    BY <2>3, <2>4
  <2> QED BY <2>3, <2>5, <1>1 DEF SplitInv
<1>3. CASE Pop
  <2>1. PICK r \in Results(buffer) :
           /\ r = pop_next(buffer) /\ fed' = fed /\ input' = input
           /\ \/ r.res = "ABORT" /\ phase' = "aborted" /\ buffer' = buffer /\ popped' = popped
              \/ r.res = "NONE" /\ r.line = Null /\ phase' = "read" /\ buffer' = buffer /\ popped' = popped
              \/ /\ r.res \notin {"ABORT", "NONE"} \/ r.line # Null
                 /\ buffer' = Consume(buffer, r.consumed) /\ popped' = Append(popped, <<r.res, r.line>>)
                 /\ phase' = "pop"
    BY <1>1, <1>3, PopSteps
  <2>2. CASE r.res = "ABORT" \/ (r.res = "NONE" /\ r.line = Null)
    <3>1. r \in {NoLine, Aborts}
      <4>1. "ABORT" \notin Errors /\ "NONE" \notin Errors /\ \A line \in Lines(Chars) : line # Null
        BY ParserAssumption DEF Errors
      <4> QED BY <4>1, <2>2 DEF Results, Result
    <3>2. buffer' = buffer /\ popped' = popped /\ fed' = fed
      <4>1. r.line = Null /\ r.res \in {"ABORT", "NONE"}
        BY <3>1 DEF NoLine, Aborts, Result
      <4> QED BY <2>1, <4>1
    <3>3. pop_next(buffer') \in {NoLine, Aborts}
      BY <3>1, <3>2, <2>1
    <3>4. Reached(fed', buffer', popped')
      BY <3>2, <1>1
    <3> QED BY <3>3, <3>4, <1>1 DEF SplitInv
  <2>3. CASE ~ (r.res = "ABORT" \/ (r.res = "NONE" /\ r.line = Null))
    <3>1. /\ buffer' = Consume(buffer, pop_next(buffer).consumed)
          /\ popped' = Append(popped, <<pop_next(buffer).res, pop_next(buffer).line>>)
          /\ fed' = fed /\ phase' = "pop"
      BY <2>1, <2>3
    <3>2. pop_next(buffer) \notin {NoLine, Aborts}
      BY <2>1, <2>3 DEF NoLine, Aborts, Result
    <3>3. Reached(fed, Consume(buffer, pop_next(buffer).consumed),
                  Append(popped, <<pop_next(buffer).res, pop_next(buffer).line>>))
      BY <3>2, <1>1, ReachedPop DEF IInv
    <3>4. Reached(fed', buffer', popped')
      BY <3>1, <3>3
    <3> QED BY <3>1, <3>4, <1>1 DEF SplitInv
  <2> QED BY <2>2, <2>3
<1>4. CASE UNCHANGED vars
  <2>1. phase' = phase /\ fed' = fed /\ buffer' = buffer /\ popped' = popped
    BY <1>4 DEF vars
  <2>2. phase' # "pop" => pop_next(buffer') \in {NoLine, Aborts}
    BY <2>1 DEF SplitInv
  <2>3. Reached(fed', buffer', popped')
    BY <2>1, <1>1
  <2> QED BY <2>2, <2>3, <1>1 DEF SplitInv
<1> QED BY <1>2, <1>3, <1>4 DEF Next, Step

(* How the input is cut into reads makes no difference: when the shell waits *)
(* for more, it has popped what it would have popped with the whole text     *)
(* there at once (parser.c:299 and 425).                                     *)
THEOREM CutsMakeNoDifference == Spec => []SplitIndependent
<1>1. Init => SplitInv
  BY SplitStarts
<1>2. SplitInv /\ [Next]_vars => SplitInv'
  BY SplitKeeps
<1>3. SplitInv => SplitIndependent
  <2> SUFFICES ASSUME SplitInv, phase # "pop" PROVE popped = AllResults(fed)
    BY DEF SplitIndependent
  <2>1. fed \in Seq(Chars) /\ buffer \in Seq(Chars)
    BY DEF SplitInv, IInv
  <2>2. Reached(fed, buffer, popped) /\ pop_next(buffer) \in {NoLine, Aborts}
    BY DEF SplitInv
  <2> QED BY <2>1, <2>2, ReachedAll
<1> QED BY <1>1, <1>2, <1>3, PTL DEF Spec
-----------------------------------------------------------------------------
(* Words that are written down *)

(* Flattening a sequence adds one of its members after the other.            *)
LEMMA Flattened ==
  ASSUME NEW S, NEW n \in Nat \ {0}, NEW f \in [1 .. n -> Seq(S)]
  PROVE  \E g \in [0 .. n -> Seq(S)] :
           /\ g[0] = <<>> /\ \A i \in 1 .. n : g[i] = g[i - 1] \o f[i]
           /\ FlattenSeq(f) = g[n]
<1> DEFINE States == [at : Nat, text : Seq(S)]
           more(i) == IF i \in 1 .. n THEN f[i] ELSE <<>>
           step == [s \in States |-> [at |-> s.at + 1, text |-> s.text \o more(s.at + 1)]]
           first == [at |-> 0, text |-> <<>>]
<1>1. first \in States /\ step \in [States -> States]
  <2>1. first \in States
    BY EmptySeq
  <2>2. \A i \in Nat : more(i) \in Seq(S)
    BY EmptySeq
  <2>3. ASSUME NEW s \in States PROVE [at |-> s.at + 1, text |-> s.text \o more(s.at + 1)] \in States
    <3>1. s.at + 1 \in Nat /\ s.text \in Seq(S)
      OBVIOUS
    <3>2. s.text \o more(s.at + 1) \in Seq(S)
      <4> HIDE DEF more
      <4> QED BY <3>1, <2>2, ConcatProperties
    <3> HIDE DEF more
    <3> QED BY <3>1, <3>2
  <2> HIDE DEF more
  <2> QED BY <2>1, <2>3
<1>2. \A s \in States : step[s] = [at |-> s.at + 1, text |-> s.text \o more(s.at + 1)]
  OBVIOUS
<1> HIDE DEF step, more, States
<1>3. PICK run \in [Nat -> States] : Repeats(run, first, step)
  <2> HIDE DEF first
  <2> QED BY <1>1, Iteration, Zenon
<1>4. run[0] = first /\ \A j \in Nat : run[j + 1] = [at |-> run[j].at + 1, text |-> run[j].text \o more(run[j].at + 1)]
  <2>1. run = [j \in Nat |-> IF j = 0 THEN first ELSE step[run[j - 1]]]
    BY <1>3, Zenon DEF Repeats
  <2> HIDE DEF first
  <2>2. run[0] = first
    BY <2>1
  <2>3. ASSUME NEW j \in Nat
        PROVE  run[j + 1] = [at |-> run[j].at + 1, text |-> run[j].text \o more(run[j].at + 1)]
    <3>1. j + 1 \in Nat /\ j + 1 # 0 /\ (j + 1) - 1 = j /\ run[j] \in States
      BY <1>3
    <3>2. run[j + 1] = step[run[j]]
      BY <2>1, <3>1
    <3> QED BY <3>1, <3>2, <1>2
  <2> QED BY <2>2, <2>3
<1>5. \A j \in Nat : run[j].at = j
  <2> DEFINE T == {j \in Nat : run[j].at = j}
  <2>1. 0 \in T /\ \A j \in T : j + 1 \in T
    <3>1. run[0].at = 0
      BY <1>4
    <3>2. ASSUME NEW j \in Nat PROVE run[j + 1].at = run[j].at + 1
      <4>1. run[j + 1] = [at |-> run[j].at + 1, text |-> run[j].text \o more(run[j].at + 1)]
        BY <1>4
      <4> QED BY <4>1
    <3>3. ASSUME NEW j \in T PROVE j + 1 \in T
      <4>1. j \in Nat /\ run[j].at = j
        OBVIOUS
      <4>2. run[j + 1].at = j + 1
        BY <4>1, <3>2
      <4> QED BY <4>1, <4>2
    <3> QED BY <3>1, <3>3
  <2>2. T \subseteq Nat
    OBVIOUS
  <2> HIDE DEF T
  <2>3. T = Nat
    BY <2>1, <2>2, Induction
  <2> QED BY <2>3 DEF T
<1> DEFINE g == [i \in 0 .. n |-> run[i].text]
<1>6. g \in [0 .. n -> Seq(S)]
  BY <1>3 DEF States
<1>7. g[0] = <<>>
  BY <1>4
<1>8. ASSUME NEW i \in 1 .. n PROVE g[i] = g[i - 1] \o f[i]
  <2>1. i - 1 \in Nat /\ (i - 1) + 1 = i /\ i - 1 \in 0 .. n /\ i \in 0 .. n
    OBVIOUS
  <2>2. run[i].text = run[i - 1].text \o more(i)
    <3>1. run[(i - 1) + 1] = [at |-> run[i - 1].at + 1, text |-> run[i - 1].text \o more(run[i - 1].at + 1)]
      BY <2>1, <1>4
    <3>2. run[i - 1].at = i - 1
      BY <2>1, <1>5
    <3> QED BY <2>1, <3>1, <3>2
  <2> QED BY <2>1, <2>2 DEF more
<1> HIDE DEF g
<1> DEFINE Is(h) == h = [i \in 1 .. n |-> IF i = 1 THEN f[i] ELSE h[i - 1] \o f[i]]
           h == CHOOSE h : Is(h)
           short == [i \in 1 .. n |-> g[i]]
<1>9. Is(short)
  <2>1. ASSUME NEW i \in 1 .. n PROVE short[i] = IF i = 1 THEN f[i] ELSE short[i - 1] \o f[i]
    <3>1. CASE i = 1
      <4>1. g[1] = <<>> \o f[1] /\ f[1] \in Seq(S)
        <5>1. 1 \in 1 .. n /\ 1 - 1 = 0
          OBVIOUS
        <5>2. g[1] = g[1 - 1] \o f[1]
          BY <5>1, <1>8
        <5> QED BY <5>1, <5>2, <1>7
      <4> QED BY <4>1, <3>1, ConcatEmptySeq
    <3>2. CASE i # 1
      <4>1. i - 1 \in 1 .. n
        BY <3>2
      <4> QED BY <4>1, <3>2, <1>8
    <3> QED BY <3>1, <3>2
  <2> HIDE DEF g
  <2> QED BY <2>1
<1>10. Is(h)
  <2> HIDE DEF Is, short
  <2> QED BY <1>9, Zenon
<1>11. Len(f) = n
  BY LenProperties
<1>12. FlattenSeq(f) = h[n]
  BY <1>11 DEF FlattenSeq
<1> HIDE DEF h
<1> DEFINE Same == {j \in Nat : j + 1 <= n => h[j + 1] = g[j + 1]}
<1>13. 0 \in Same
  <2>1. 1 \in 1 .. n
    OBVIOUS
  <2>2. h[1] = f[1] /\ short[1] = f[1]
    BY <1>9, <1>10, <2>1
  <2> QED BY <2>1, <2>2
<1>14. ASSUME NEW j \in Same PROVE j + 1 \in Same
  <2> SUFFICES ASSUME (j + 1) + 1 <= n PROVE h[(j + 1) + 1] = g[(j + 1) + 1]
    BY SMTT(40)
  <2>1. (j + 1) + 1 \in 1 .. n /\ ((j + 1) + 1) - 1 = j + 1 /\ (j + 1) + 1 # 1
    OBVIOUS
  <2>2. h[j + 1] = g[j + 1]
    OBVIOUS
  <2>3. h[(j + 1) + 1] = h[j + 1] \o f[(j + 1) + 1]
    BY <1>10, <2>1
  <2>4. g[(j + 1) + 1] = g[j + 1] \o f[(j + 1) + 1]
    BY <1>8, <2>1
  <2> QED BY <2>2, <2>3, <2>4
<1>15. Same = Nat
  <2> HIDE DEF Same
  <2>1. Same \subseteq Nat
    BY DEF Same
  <2> QED BY <1>13, <1>14, <2>1, Induction
<1>16. h[n] = g[n]
  <2>1. n - 1 \in Nat /\ (n - 1) + 1 = n
    OBVIOUS
  <2>2. n - 1 \in Same
    <3> HIDE DEF Same
    <3> QED BY <2>1, <1>15
  <2> QED BY <2>1, <2>2
<1> QED BY <1>6, <1>7, <1>8, <1>12, <1>16

(* Where the characters of a word are in a text in which those of "chars"    *)
(* have a backslash before them.                                             *)
Layout(text, word, chars, e) ==
    /\ e[0] = 0 /\ Len(text) = e[Len(word)]
    /\ \A i \in 1 .. Len(word) :
         /\ e[i] = e[i - 1] + (IF word[i] \in chars THEN 2 ELSE 1)
         /\ i <= e[i] /\ e[i] <= Len(text) /\ text[e[i]] = word[i]
         /\ word[i] \in chars => text[e[i] - 1] = "bs"

(* A word without such characters is such a text.                            *)
LEMMA PlainLayout ==
  ASSUME NEW word \in Seq(Chars)
  PROVE  \E e \in [0 .. Len(word) -> Nat] : Layout(word, word, {}, e)
<1> DEFINE e == [i \in 0 .. Len(word) |-> i]
<1>1. Len(word) \in Nat
  BY LenProperties
<1>2. e \in [0 .. Len(word) -> Nat]
  BY <1>1
<1>3. Layout(word, word, {}, e)
  BY <1>1 DEF Layout
<1> QED BY <1>2, <1>3

(* So is what Escape writes.                                                 *)
LEMMA EscapeLayout ==
  ASSUME NEW word \in Seq(Chars), word # <<>>, NEW chars
  PROVE  /\ Escape(word, chars) \in Seq(Chars \cup {"bs"})
         /\ \E e \in [0 .. Len(word) -> Nat] : Layout(Escape(word, chars), word, chars, e)
<1> DEFINE n == Len(word)
           f == [i \in DOMAIN word |-> IF word[i] \in chars THEN <<"bs", word[i]>> ELSE <<word[i]>>]
           S == Chars \cup {"bs"}
<1>1. n \in Nat \ {0} /\ DOMAIN word = 1 .. n /\ \A i \in 1 .. n : word[i] \in Chars
  BY LenProperties, EmptySeq, ElementOfSeq
<1>2. ASSUME NEW i \in 1 .. n
      PROVE  /\ f[i] \in Seq(S)
             /\ word[i] \in chars => Len(f[i]) = 2 /\ f[i][1] = "bs" /\ f[i][2] = word[i]
             /\ word[i] \notin chars => Len(f[i]) = 1 /\ f[i][1] = word[i]
  <2>1. word[i] \in Chars /\ f[i] = IF word[i] \in chars THEN <<"bs", word[i]>> ELSE <<word[i]>>
    BY <1>1
  <2> HIDE DEF f
  <2>2. CASE word[i] \in chars
    BY <2>1, <2>2
  <2>3. CASE word[i] \notin chars
    BY <2>1, <2>3
  <2> QED BY <2>2, <2>3
<1>3. f \in [1 .. n -> Seq(S)] /\ Escape(word, chars) = FlattenSeq(f)
  BY <1>1, <1>2 DEF Escape
<1> HIDE DEF f, S, n
<1>4. PICK g \in [0 .. n -> Seq(S)] :
           /\ g[0] = <<>> /\ \A i \in 1 .. n : g[i] = g[i - 1] \o f[i]
           /\ FlattenSeq(f) = g[n]
  BY <1>1, <1>3, Flattened
<1> DEFINE e == [i \in 0 .. n |-> Len(g[i])]
<1>5. e \in [0 .. n -> Nat] /\ e[0] = 0
  <2>1. \A i \in 0 .. n : Len(g[i]) \in Nat
    BY LenProperties
  <2>2. 0 \in 0 .. n
    BY <1>1
  <2> QED BY <2>1, <2>2, <1>4, EmptySeq
<1>6. ASSUME NEW i \in 1 .. n
      PROVE  /\ g[i - 1] \in Seq(S) /\ i - 1 \in 0 .. n /\ i \in 0 .. n
             /\ e[i] = e[i - 1] + Len(f[i])
             /\ \A k \in 1 .. Len(g[i]) : g[i][k] = IF k <= e[i - 1] THEN g[i - 1][k] ELSE f[i][k - e[i - 1]]
  <2>1. g[i - 1] \in Seq(S) /\ f[i] \in Seq(S) /\ i - 1 \in 0 .. n /\ i \in 0 .. n
    BY <1>1, <1>2
  <2>2. g[i] = g[i - 1] \o f[i] /\ e[i] = Len(g[i]) /\ e[i - 1] = Len(g[i - 1])
    BY <1>4, <2>1
  <2> HIDE DEF e
  <2>3. /\ Len(g[i - 1] \o f[i]) = Len(g[i - 1]) + Len(f[i])
        /\ \A k \in 1 .. Len(g[i - 1]) + Len(f[i]) :
             (g[i - 1] \o f[i])[k] = IF k <= Len(g[i - 1]) THEN g[i - 1][k] ELSE f[i][k - Len(g[i - 1])]
    BY <2>1, ConcatProperties
  <2> QED BY <2>1, <2>2, <2>3
<1> HIDE DEF e
<1> DEFINE Good(i) == \A k \in 1 .. i :
              /\ e[k] = e[k - 1] + (IF word[k] \in chars THEN 2 ELSE 1)
              /\ k <= e[k] /\ e[k] <= e[i] /\ g[i][e[k]] = word[k]
              /\ word[k] \in chars => g[i][e[k] - 1] = "bs"
           T == {i \in Nat : i <= n => Good(i)}
<1>7. 0 \in T
  OBVIOUS
<1>8. ASSUME NEW i \in T PROVE i + 1 \in T
  <2> DEFINE m == i + 1
  <2> SUFFICES ASSUME m <= n PROVE Good(m)
    BY SMTT(40)
  <2>1. i \in Nat /\ m \in 1 .. n /\ m - 1 = i /\ i \in 0 .. n
    BY <1>1
  <2>2. Good(i)
    BY <2>1, <1>1
  <2>3. /\ e[m] = e[i] + Len(f[m]) /\ e[m] \in Nat /\ e[i] \in Nat /\ Len(g[m]) = e[m]
        /\ \A k \in 1 .. e[m] : g[m][k] = IF k <= e[i] THEN g[i][k] ELSE f[m][k - e[i]]
    <3>1. Len(g[m]) = e[m]
      BY <2>1 DEF e
    <3>2. /\ m \in 0 .. n /\ e[m] = e[m - 1] + Len(f[m])
          /\ \A k \in 1 .. Len(g[m]) : g[m][k] = IF k <= e[m - 1] THEN g[m - 1][k] ELSE f[m][k - e[m - 1]]
      <4> HIDE DEF m
      <4> QED BY <2>1, <1>6
    <3>3. e[m] \in Nat /\ e[i] \in Nat
      BY <3>2, <2>1, <1>5
    <3> HIDE DEF m
    <3> QED BY <3>1, <3>2, <3>3, <2>1
  <2>4. i <= e[i]
    <3>1. CASE i = 0
      BY <3>1, <1>5
    <3>2. CASE i # 0
      <4>1. i \in 1 .. i
        BY <2>1, <3>2
      <4> QED BY <4>1, <2>2
    <3> QED BY <3>1, <3>2
  <2> HIDE DEF m, T, Good
  <2>5. ASSUME NEW k \in 1 .. m
        PROVE  /\ e[k] = e[k - 1] + (IF word[k] \in chars THEN 2 ELSE 1)
               /\ k <= e[k] /\ e[k] <= e[m] /\ g[m][e[k]] = word[k]
               /\ word[k] \in chars => g[m][e[k] - 1] = "bs"
    <3>1. CASE k = m
      <4>1. CASE word[m] \in chars
        <5>1. Len(f[m]) = 2 /\ f[m][1] = "bs" /\ f[m][2] = word[m]
          BY <4>1, <2>1, <1>2
        <5>2. /\ e[m] = e[i] + 2 /\ e[m] \in 1 .. e[m] /\ e[m] - 1 \in 1 .. e[m]
              /\ e[m] - e[i] = 2 /\ (e[m] - 1) - e[i] = 1 /\ ~ (e[m] <= e[i]) /\ ~ (e[m] - 1 <= e[i])
          <6>1. e[m] = e[i] + 2 /\ e[i] \in Nat
            BY <5>1, <2>3
          <6> QED BY <6>1
        <5>3. g[m][e[m]] = f[m][2] /\ g[m][e[m] - 1] = f[m][1]
          <6>1. /\ g[m][e[m]] = IF e[m] <= e[i] THEN g[i][e[m]] ELSE f[m][e[m] - e[i]]
                /\ g[m][e[m] - 1] = IF e[m] - 1 <= e[i] THEN g[i][e[m] - 1] ELSE f[m][(e[m] - 1) - e[i]]
            BY <5>2, <2>3, Zenon
          <6> QED BY <6>1, <5>2
        <5>4. m <= e[m]
          BY <5>2, <2>1, <2>3, <2>4
        <5>5. g[m][e[m]] = word[m] /\ g[m][e[m] - 1] = "bs" /\ e[m] = e[m - 1] + 2
          BY <5>1, <5>2, <5>3, <2>1
        <5> QED BY <5>4, <5>5, <4>1, <3>1, <2>3
      <4>2. CASE word[m] \notin chars
        <5>1. Len(f[m]) = 1 /\ f[m][1] = word[m]
          BY <4>2, <2>1, <1>2
        <5>2. e[m] = e[i] + 1 /\ e[m] \in 1 .. e[m] /\ e[m] - e[i] = 1 /\ ~ (e[m] <= e[i])
          BY <5>1, <2>3
        <5>3. g[m][e[m]] = f[m][1]
          <6>1. g[m][e[m]] = IF e[m] <= e[i] THEN g[i][e[m]] ELSE f[m][e[m] - e[i]]
            BY <5>2, <2>3, Zenon
          <6> QED BY <6>1, <5>2
        <5>4. m <= e[m]
          BY <5>2, <2>1, <2>3, <2>4
        <5>5. g[m][e[m]] = word[m] /\ e[m] = e[m - 1] + 1
          BY <5>1, <5>2, <5>3, <2>1
        <5> QED BY <5>4, <5>5, <4>2, <3>1, <2>3
      <4> QED BY <4>1, <4>2
    <3>2. CASE k # m
      <4>1. k \in 1 .. i
        BY <3>2, <2>1
      <4>2. /\ e[k] = e[k - 1] + (IF word[k] \in chars THEN 2 ELSE 1)
            /\ k <= e[k] /\ e[k] <= e[i] /\ g[i][e[k]] = word[k]
            /\ word[k] \in chars => g[i][e[k] - 1] = "bs"
        BY <4>1, <2>2 DEF Good
      <4>3. e[k] \in Nat /\ e[k - 1] \in Nat
        <5>1. k \in 0 .. n /\ k - 1 \in 0 .. n
          BY <4>1, <2>1, <1>1
        <5> QED BY <5>1, <1>5
      <4>4. e[k] \in 1 .. e[m] /\ e[k] <= e[m]
        <5>1. e[i] <= e[m]
          <6>1. Len(f[m]) \in Nat
            BY <2>1, <1>2, LenProperties
          <6> QED BY <6>1, <2>3
        <5> QED BY <5>1, <4>1, <4>2, <4>3, <2>3
      <4>5. g[m][e[k]] = word[k]
        BY <4>2, <4>3, <4>4, <2>3
      <4>6. ASSUME word[k] \in chars PROVE g[m][e[k] - 1] = "bs"
        <5>1. e[k] - 1 \in 1 .. e[m] /\ e[k] - 1 <= e[i]
          BY <4>6, <4>2, <4>3, <4>4, <2>3
        <5> QED BY <5>1, <4>6, <4>2, <2>3
      <4> QED BY <4>2, <4>4, <4>5, <4>6
    <3> QED BY <3>1, <3>2
  <2> QED BY <2>5 DEF Good
<1>9. T = Nat
  <2> HIDE DEF T
  <2>1. T \subseteq Nat
    BY DEF T
  <2> QED BY <1>7, <1>8, <2>1, Induction
<1>10. Good(n)
  <2>1. n \in T
    <3> HIDE DEF T
    <3> QED BY <1>1, <1>9
  <2> QED BY <2>1, <1>1
<1>11. Escape(word, chars) = g[n] /\ g[n] \in Seq(S) /\ Len(g[n]) = e[n]
  <2>1. n \in 0 .. n
    BY <1>1
  <2> QED BY <2>1, <1>3, <1>4 DEF e
<1>12. Layout(g[n], word, chars, e)
  BY <1>5, <1>10, <1>11 DEF Layout, n
<1> QED BY <1>5, <1>11, <1>12 DEF n, S
-----------------------------------------------------------------------------
(* The three ways to write a word: how a character of it is read.            *)
Mode(quote, chars, c) ==
    \/ quote = Null /\ chars = Special /\ c # "nl"
    \/ quote = "sq" /\ chars = {} /\ c # "sq"
    \/ quote = "dq" /\ chars = {"bs", "dq"}

(* Lines 152-282: a character of a word without a backslash.                 *)
LEMMA PlainRead ==
  ASSUME NEW buf, NEW k, NEW quote, NEW chars, NEW d, Mode(quote, chars, buf[k]),
         buf[k] \notin chars, k <= Len(buf)
  PROVE  Scan(buf, Scanner(k, quote, d, Incomplete)) = Scanner(k + 1, quote, Append(d, buf[k]), Incomplete)
<1> DEFINE c == buf[k]
<1> DEFINE s == Scanner(k, quote, d, Incomplete)
<1>1. s.pos = k /\ s.quote = quote /\ s.data = d
  BY DEF Scanner
<1> HIDE DEF s
<1>2. Null # "sq" /\ Null # "dq"
  BY ParserAssumption
<1>3. CASE quote = Null
  <2>1. c \notin {"bs", "sq", "dq", "sp", "nl", "#", "&", "|", ">"}
    BY <1>2, <1>3 DEF Mode, Special
  <2>2. Scan(buf, s) = Scanner(k + 1, quote, Append(d, c), Incomplete)
    BY <2>1, <1>1, <1>3 DEF Scan
  <2> QED BY <2>2 DEF s
<1>4. CASE quote # Null
  <2>1. c # quote /\ ~ (c = "bs" /\ quote = "dq")
    BY <1>4 DEF Mode
  <2>2. Scan(buf, s) = Scanner(k + 1, quote, Append(d, c), Incomplete)
    BY <2>1, <1>1, <1>4 DEF Scan
  <2> QED BY <2>2 DEF s
<1> QED BY <1>3, <1>4

(* Lines 169-201: one with a backslash before it.                            *)
LEMMA EscapeRead ==
  ASSUME NEW buf, Len(buf) \in Nat, NEW k \in Nat, NEW quote, NEW chars, NEW c, Mode(quote, chars, c), NEW d,
         c \in chars, k + 1 <= Len(buf), buf[k] = "bs", buf[k + 1] = c
  PROVE  Scan(buf, Scanner(k, quote, d, Incomplete)) = Scanner(k + 2, quote, d \o <<c>>, Incomplete)
<1> DEFINE s == Scanner(k, quote, d, Incomplete)
<1>1. s.pos = k /\ s.quote = quote /\ s.data = d
  BY DEF Scanner
<1> HIDE DEF s
<1>2. Null # "sq" /\ Null # "dq" /\ k <= Len(buf) /\ k # Len(buf)
  BY ParserAssumption
<1>3. c # "nl" /\ (quote = Null \/ (quote = "dq" /\ c \in {"bs", "dq"}))
  BY <1>2 DEF Mode, Special
<1>4. Escaped(c, quote) = <<c>>
  BY <1>2, <1>3 DEF Escaped
<1>5. CASE quote = Null
  <2>1. Scan(buf, s) = Scanner(k + 2, quote, d \o <<c>>, Incomplete)
    BY <1>1, <1>2, <1>4, <1>5 DEF Scan
  <2> QED BY <2>1 DEF s
<1>6. CASE quote # Null
  <2>1. quote = "dq" /\ buf[k] # quote
    BY <1>3, <1>6
  <2>2. Scan(buf, s) = Scanner(k + 2, quote, d \o <<c>>, Incomplete)
    BY <2>1, <1>1, <1>2, <1>4, <1>6 DEF Scan
  <2> QED BY <2>2 DEF s
<1> QED BY <1>5, <1>6

(* The text is in the buffer from p on.                                      *)
At(buf, p, text) ==
    p + Len(text) <= Len(buf) + 1 /\ \A k \in 1 .. Len(text) : buf[p + k - 1] = text[k]

(* The turns of the loop over characters.                                    *)
Turns(run, buf) == \A j \in Nat : run[j + 1] = Scan(buf, run[j])

(* The text is a way to write the word.                                      *)
Spells(text, word, quote) ==
    /\ Len(text) \in Nat
    /\ \E chars : /\ \A i \in 1 .. Len(word) : Mode(quote, chars, word[i])
                  /\ \E e \in [0 .. Len(word) -> Nat] : Layout(text, word, chars, e)

(* Lines 152-284: as many turns as a word has characters read it.            *)
LEMMA WordScanned ==
  ASSUME NEW buf \in Seq(Chars), NEW word \in Seq(Chars), NEW text, NEW quote, Spells(text, word, quote),
         NEW p \in Nat \ {0}, At(buf, p, text),
         NEW run, Turns(run, buf),
         NEW first \in Nat, run[first] = Scanner(p, quote, <<>>, Incomplete), NEW last, last = first + Len(word)
  PROVE  run[last] = Scanner(p + Len(text), quote, word, Incomplete)
<1> PICK chars : /\ \A i \in 1 .. Len(word) : Mode(quote, chars, word[i])
                 /\ \E e \in [0 .. Len(word) -> Nat] : Layout(text, word, chars, e)
  BY DEF Spells
<1> PICK e \in [0 .. Len(word) -> Nat] : Layout(text, word, chars, e)
  OBVIOUS
<1> Len(text) \in Nat
  BY DEF Spells
<1> DEFINE n == Len(word)
           state(i) == Scanner(p + e[i], quote, SubSeq(word, 1, i), Incomplete)
           T == {i \in Nat : i <= n => run[first + i] = state(i)}
<1>1. n \in Nat /\ Len(buf) \in Nat
  BY LenProperties
<1>2. 0 \in T
  <2>1. SubSeq(word, 1, 0) = <<>> /\ p + e[0] = p /\ first + 0 = first
    BY DEF Layout
  <2> QED BY <2>1
<1>3. ASSUME NEW i \in T PROVE i + 1 \in T
  <2> DEFINE m == i + 1
             c == word[m]
             d == SubSeq(word, 1, i)
  <2> SUFFICES ASSUME m <= n PROVE run[first + m] = state(m)
    BY SMTT(40)
  <2>1. i \in Nat /\ i <= n /\ m \in 1 .. n /\ m - 1 = i /\ i \in 0 .. n /\ m \in 0 .. n
    BY <1>1
  <2>2. run[first + i] = Scanner(p + e[i], quote, d, Incomplete)
    BY <2>1
  <2>3. /\ e[m] = e[i] + (IF c \in chars THEN 2 ELSE 1) /\ m <= e[m] /\ e[m] <= Len(text) /\ text[e[m]] = c
        /\ c \in chars => text[e[m] - 1] = "bs"
    <3> HIDE DEF m
    <3> QED BY <2>1 DEF Layout
  <2>4. SubSeq(word, 1, m) = Append(d, c) /\ Append(d, c) = d \o <<c>>
    <3>1. c \in Chars /\ d \in Seq(Chars)
      <4>1. \A k \in 1 .. i : k \in 1 .. n
        BY <2>1, <1>1
      <4>2. \A k \in 1 .. i : word[k] \in Chars
        BY <4>1, ElementOfSeq
      <4>3. d \in Seq(Chars)
        BY <4>2, <2>1, SubSeqProperties
      <4>4. c \in Chars
        <5> HIDE DEF m
        <5> QED BY <2>1, ElementOfSeq
      <4> QED BY <4>3, <4>4
    <3>2. SubSeq(word, 1, m) = SubSeq(word, 1, m - 1) \o <<word[m]>>
      <4>1. 1 \in 1 .. n /\ m \in 1 .. n
        BY <2>1, <1>1
      <4> HIDE DEF m
      <4> QED BY <4>1, SubSeqRecursiveSecond
    <3>3. SubSeq(word, 1, m - 1) = d
      <4> HIDE DEF m
      <4> QED BY <2>1
    <3>4. Append(d, c) = d \o <<c>>
      <4> HIDE DEF d, c
      <4> QED BY <3>1, AppendIsConcat
    <3> QED BY <3>2, <3>3, <3>4
  <2>5. run[first + m] = Scan(buf, Scanner(p + e[i], quote, d, Incomplete))
    <3>1. first + i \in Nat /\ (first + i) + 1 = first + m
      BY <2>1
    <3> QED BY <3>1, <2>2 DEF Turns
  <2>6. Mode(quote, chars, c)
    BY <2>1
  <2>7. e[i] \in Nat /\ e[m] \in Nat
    BY <2>1
  <2> HIDE DEF m, c, d, T
  <2>8. CASE c \notin chars
    <3>1. e[m] = e[i] + 1 /\ e[m] \in 1 .. Len(text) /\ p + e[m] - 1 = p + e[i] /\ p + e[i] <= Len(buf)
          /\ p + e[m] = (p + e[i]) + 1 /\ p + e[i] \in Nat
      <4>1. e[m] = e[i] + 1 /\ p + Len(text) <= Len(buf) + 1 /\ e[m] <= Len(text)
        BY <2>3, <2>8 DEF At
      <4>2. e[m] \in 1 .. Len(text)
        BY <4>1, <2>7
      <4> HIDE DEF Layout
      <4>3. p + e[m] <= Len(buf) + 1
        BY <4>1, <2>7, <1>1
      <4>4. \A a \in Nat, b \in Nat : a = b + 1 /\ p + a <= Len(buf) + 1 =>
              p + a - 1 = p + b /\ p + b <= Len(buf) /\ p + a = (p + b) + 1 /\ p + b \in Nat
        BY <1>1
      <4>5. e[i] \in Nat /\ e[m] \in Nat /\ e[m] = e[i] + 1
        BY <4>1, <2>7
      <4> HIDE DEF n, state
      <4> QED BY <4>2, <4>3, <4>4, <4>5, Zenon
    <3>2. buf[p + e[i]] = c
      BY <3>1, <2>3 DEF At
    <3>3. Scan(buf, Scanner(p + e[i], quote, d, Incomplete)) = Scanner((p + e[i]) + 1, quote, Append(d, c), Incomplete)
      <4> DEFINE k == p + e[i]
      <4>1. k \in Nat /\ k <= Len(buf) /\ buf[k] = c
        BY <3>1, <3>2
      <4> HIDE DEF k
      <4>2. Mode(quote, chars, buf[k]) /\ buf[k] \notin chars
        BY <4>1, <2>6, <2>8
      <4>3. Scan(buf, Scanner(k, quote, d, Incomplete)) = Scanner(k + 1, quote, Append(d, buf[k]), Incomplete)
        BY <4>1, <4>2, PlainRead
      <4> QED BY <4>1, <4>3 DEF k
    <3> QED BY <3>1, <3>3, <2>4, <2>5
  <2>9. CASE c \in chars
    <3>1. /\ e[m] = e[i] + 2 /\ e[m] \in 1 .. Len(text) /\ e[m] - 1 \in 1 .. Len(text)
          /\ p + (e[m] - 1) - 1 = p + e[i] /\ p + e[m] - 1 = (p + e[i]) + 1 /\ (p + e[i]) + 1 <= Len(buf)
          /\ p + e[m] = (p + e[i]) + 2 /\ p + e[i] \in Nat
      <4>1. e[m] = e[i] + 2 /\ p + Len(text) <= Len(buf) + 1 /\ e[m] <= Len(text)
        BY <2>3, <2>9 DEF At
      <4>2. e[m] \in 1 .. Len(text) /\ e[m] - 1 \in 1 .. Len(text)
        BY <4>1, <2>7
      <4>3. p + e[m] <= Len(buf) + 1
        BY <4>1, <2>7, <1>1
      <4>4. \A a \in Nat, b \in Nat : a = b + 2 /\ p + a <= Len(buf) + 1 =>
              /\ p + (a - 1) - 1 = p + b /\ p + a - 1 = (p + b) + 1 /\ (p + b) + 1 <= Len(buf)
              /\ p + a = (p + b) + 2 /\ p + b \in Nat
        BY <1>1
      <4>5. e[i] \in Nat /\ e[m] \in Nat /\ e[m] = e[i] + 2
        BY <4>1, <2>7
      <4> HIDE DEF n, state
      <4> QED BY <4>2, <4>3, <4>4, <4>5, Zenon
    <3>2. buf[p + e[m] - 1] = c /\ buf[p + (e[m] - 1) - 1] = "bs"
      BY <3>1, <2>3, <2>9 DEF At
    <3>3. Scan(buf, Scanner(p + e[i], quote, d, Incomplete)) = Scanner((p + e[i]) + 2, quote, d \o <<c>>, Incomplete)
      <4> DEFINE k == p + e[i]
      <4>1. k \in Nat /\ k + 1 <= Len(buf) /\ buf[k + 1] = c /\ buf[k] = "bs"
        BY <3>1, <3>2
      <4> HIDE DEF k
      <4>2. Scan(buf, Scanner(k, quote, d, Incomplete)) = Scanner(k + 2, quote, d \o <<c>>, Incomplete)
        BY <4>1, <2>6, <2>9, <1>1, EscapeRead
      <4> QED BY <4>2 DEF k
    <3> QED BY <3>1, <3>3, <2>4, <2>5
  <2> QED BY <2>8, <2>9
<1>4. T = Nat
  <2> HIDE DEF T
  <2>1. T \subseteq Nat
    BY DEF T
  <2> QED BY <1>2, <1>3, <2>1, Induction
<1>5. run[first + n] = state(n)
  <2>1. n \in T
    <3> HIDE DEF T
    <3> QED BY <1>1, <1>4
  <2> QED BY <2>1, <1>1
<1>6. SubSeq(word, 1, n) = word /\ e[n] = Len(text)
  BY <1>1 DEF Layout
<1> QED BY <1>5, <1>6

(* Lines 141-151: a token that begins where it is looked for.                *)
LEMMA TokenHere ==
  ASSUME NEW buf \in Seq(Chars), NEW p \in 1 .. Len(buf), buf[p] \notin {"sp", "nl"}
  PROVE  \E run : /\ Scans(run, buf, Scanner(p, Null, <<>>, Incomplete))
                  /\ ParseToken(buf, p) = run[Len(buf)].token
<1> DEFINE starts == {k \in p .. Len(buf) : buf[k] # "sp"}
           first == Scanner(p, Null, <<>>, Incomplete)
<1>1. Len(buf) \in Nat /\ p \in Nat /\ <<>> \in Seq(Chars) /\ p \in p .. Len(buf) + 1
  BY LenProperties, EmptySeq
<1>2. p \in starts /\ starts \subseteq Nat
  BY <1>1
<1>3. Min(starts) \in starts /\ Min(starts) <= p
  <2> HIDE DEF starts
  <2> QED BY <1>2, LeastPosition
<1>4. Min(starts) = p
  <2>1. Min(starts) \in p .. Len(buf)
    BY <1>3
  <2> HIDE DEF starts
  <2> QED BY <2>1, <1>1, <1>3
<1>5. ParseToken(buf, p) = Scanned(buf, first)
  BY <1>2, <1>4 DEF ParseToken
<1>6. first \in Scanners(buf, p)
  BY <1>1, NoToken, ScannerIs
<1>7. \A s \in Scanners(buf, p) : Scan(buf, s) \in Scanners(buf, p)
  BY ScanKeeps
<1> HIDE DEF first
<1>8. PICK run \in [Nat -> Scanners(buf, p)] :
        /\ Scans(run, buf, first)
        /\ Scanned(buf, first) = run[Len(buf)].token
  BY <1>6, <1>7, ScanLoop
<1> QED BY <1>5, <1>8 DEF first

(* Once the loop over characters is left, it stays so.                       *)
LEMMA ScanLeft ==
  ASSUME NEW buf \in Seq(Chars), NEW run, Turns(run, buf),
         NEW n \in Nat, n <= Len(buf), NEW quote, NEW data, NEW t,
         run[n] = Scanner(Len(buf) + 1, quote, data, t)
  PROVE  run[Len(buf)].token = t
<1>1. Len(buf) \in Nat
  BY LenProperties
<1>2. run[n].token = t
  BY DEF Scanner
<1>3. Scan(buf, run[n]) = run[n]
  <2>1. run[n].pos = Len(buf) + 1
    BY DEF Scanner
  <2>2. run[n].pos > Len(buf) /\ ~ (run[n].pos <= Len(buf))
    <3> DEFINE q == run[n].pos
    <3> HIDE DEF q
    <3>1. q = Len(buf) + 1 => q > Len(buf) /\ ~ (q <= Len(buf))
      BY <1>1
    <3> QED BY <2>1, <3>1 DEF q
  <2> QED BY <2>2 DEF Scan
<1>4. \A j \in Nat : run[j] = run[n] => run[j + 1] = run[n]
  BY <1>3 DEF Turns
<1>5. run[Len(buf)] = run[n]
  BY <1>1, <1>4, Settled
<1> QED BY <1>2, <1>5
-----------------------------------------------------------------------------
(* The parts of a text are in the buffer one after the other.                *)
LEMMA AtParts ==
  ASSUME NEW S, NEW x \in Seq(S), NEW y \in Seq(S), NEW buf \in Seq(Chars), NEW p \in Nat \ {0}, At(buf, p, x \o y)
  PROVE  /\ At(buf, p, x) /\ At(buf, p + Len(x), y)
         /\ Len(x) \in Nat /\ Len(y) \in Nat /\ p + Len(x) \in Nat \ {0}
         /\ Len(x \o y) = Len(x) + Len(y) /\ x \o y \in Seq(S)
<1> DEFINE a == Len(x)
           b == Len(y)
<1>1. a \in Nat /\ b \in Nat /\ Len(buf) \in Nat
  BY LenProperties
<1>2. /\ Len(x \o y) = a + b /\ x \o y \in Seq(S)
      /\ \A k \in 1 .. a + b : (x \o y)[k] = IF k <= a THEN x[k] ELSE y[k - a]
  BY ConcatProperties
<1>3. p + (a + b) <= Len(buf) + 1 /\ \A k \in 1 .. a + b : buf[p + k - 1] = (x \o y)[k]
  BY <1>2 DEF At
<1> HIDE DEF a, b
<1>4. p + a <= Len(buf) + 1 /\ (p + a) + b <= Len(buf) + 1
  BY <1>1, <1>3
<1>5. ASSUME NEW k \in 1 .. a PROVE buf[p + k - 1] = x[k]
  <2>1. k \in 1 .. a + b /\ k <= a
    BY <1>1
  <2> QED BY <2>1, <1>2, <1>3
<1>6. ASSUME NEW k \in 1 .. b PROVE buf[(p + a) + k - 1] = y[k]
  <2>1. a + k \in 1 .. a + b /\ ~ (a + k <= a) /\ (a + k) - a = k /\ p + (a + k) - 1 = (p + a) + k - 1
    BY <1>1
  <2>2. buf[p + (a + k) - 1] = y[(a + k) - a]
    BY <2>1, <1>2, <1>3
  <2> QED BY <2>1, <2>2
<1> QED BY <1>1, <1>2, <1>4, <1>5, <1>6 DEF At, a, b

(* A character is in the buffer.                                             *)
LEMMA AtOne ==
  ASSUME NEW buf \in Seq(Chars), NEW p \in Nat \ {0}, NEW c, At(buf, p, <<c>>)
  PROVE  p \in 1 .. Len(buf) /\ buf[p] = c /\ c \in Chars
<1>1. Len(<<c>>) = 1 /\ <<c>>[1] = c
  OBVIOUS
<1>2. Len(buf) \in Nat
  BY LenProperties
<1>3. p + 1 <= Len(buf) + 1 /\ buf[p + 1 - 1] = c
  BY <1>1 DEF At
<1>4. p \in 1 .. Len(buf) /\ p + 1 - 1 = p
  BY <1>2, <1>3
<1> QED BY <1>3, <1>4, ElementOfSeq

(* The characters after which a word ends.                                   *)
Enders == {"sp", "nl", "|", "&", ">", "#"}

(* Lines 202-262: one of them ends a word that is not in quotes.             *)
LEMMA WordEnds ==
  ASSUME NEW buf, NEW k, k <= Len(buf), buf[k] \in Enders, NEW d, d # <<>>
  PROVE  Scan(buf, Scanner(k, Null, d, Incomplete)) =
           Scanner(Len(buf) + 1, Null, d, Token("STR", d, IF buf[k] = "sp" THEN k + 1 ELSE k))
<1> DEFINE s == Scanner(k, Null, d, Incomplete)
<1>1. s.pos = k /\ s.quote = Null /\ s.data = d
  BY DEF Scanner
<1> HIDE DEF s
<1>2. Scan(buf, s) = Scanner(Len(buf) + 1, Null, d, Token("STR", d, IF buf[k] = "sp" THEN k + 1 ELSE k))
  <2>1. buf[k] \notin {"bs", "sq", "dq"}
    BY DEF Enders
  <2>2. CASE buf[k] = "sp"
    BY <1>1, <2>1, <2>2 DEF Scan
  <2>3. CASE buf[k] # "sp"
    <3>1. buf[k] \in {"nl", "#", "&", "|", ">"}
      BY <2>3 DEF Enders
    <3> QED BY <1>1, <3>1 DEF Scan
  <2> QED BY <2>2, <2>3
<1> QED BY <1>2 DEF s

(* Lines 157-168: a quote outside of quotes begins them, the same ends them. *)
LEMMA QuoteRead ==
  ASSUME NEW buf, NEW k, k <= Len(buf), NEW q \in {"sq", "dq"}, buf[k] = q, NEW d
  PROVE  /\ Scan(buf, Scanner(k, Null, d, Incomplete)) = Scanner(k + 1, q, d, Incomplete)
         /\ Scan(buf, Scanner(k, q, d, Incomplete)) = Scanner(Len(buf) + 1, q, d, Token("STR", d, k + 1))
<1>1. q # Null
  BY ParserAssumption
<1>2. Scan(buf, Scanner(k, Null, d, Incomplete)) = Scanner(k + 1, q, d, Incomplete)
  <2> DEFINE s == Scanner(k, Null, d, Incomplete)
  <2>1. s.pos = k /\ s.quote = Null /\ s.data = d
    BY DEF Scanner
  <2> HIDE DEF s
  <2>2. Scan(buf, s) = Scanner(k + 1, q, d, Incomplete)
    BY <2>1 DEF Scan
  <2> QED BY <2>2 DEF s
<1>3. Scan(buf, Scanner(k, q, d, Incomplete)) = Scanner(Len(buf) + 1, q, d, Token("STR", d, k + 1))
  <2> DEFINE s == Scanner(k, q, d, Incomplete)
  <2>1. s.pos = k /\ s.quote = q /\ s.data = d
    BY DEF Scanner
  <2> HIDE DEF s
  <2>2. Scan(buf, s) = Scanner(Len(buf) + 1, q, d, Token("STR", d, k + 1))
    BY <2>1, <1>1 DEF Scan
  <2> QED BY <2>2 DEF s
<1> QED BY <1>2, <1>3

(* A word that is not in quotes, and what ends it.                           *)
LEMMA BareRead ==
  ASSUME NEW buf \in Seq(Chars), NEW word \in Seq(Chars), word # <<>>, "nl" \notin ToSet(word),
         NEW text, text = Escape(word, Special), NEW p \in Nat \ {0}, At(buf, p, text),
         p + Len(text) <= Len(buf), buf[p + Len(text)] \in Enders
  PROVE  /\ Len(text) \in Nat \ {0} /\ text[1] \notin Enders
         /\ ParseToken(buf, p) = Token("STR", word, IF buf[p + Len(text)] = "sp" THEN p + Len(text) + 1 ELSE p + Len(text))
<1> DEFINE n == Len(word)
           k == p + Len(text)
           next == IF buf[k] = "sp" THEN k + 1 ELSE k
<1>1. n \in Nat \ {0} /\ Len(buf) \in Nat /\ text \in Seq(Chars \cup {"bs"}) /\ Len(text) \in Nat
  BY LenProperties, EmptySeq, EscapeLayout
<1>2. PICK e \in [0 .. n -> Nat] : Layout(text, word, Special, e)
  BY EscapeLayout
<1>3. \A i \in 1 .. n : Mode(Null, Special, word[i])
  <2>1. \A i \in 1 .. n : word[i] # "nl"
    BY <1>1 DEF ToSet
  <2> QED BY <2>1 DEF Mode
<1>4. n <= Len(text) /\ Len(text) \in Nat \ {0} /\ text[1] \notin Enders
  <2>1. n \in 1 .. n /\ 1 \in 1 .. n /\ 1 - 1 = 0
    BY <1>1
  <2>2. n <= e[n] /\ e[n] = Len(text)
    BY <2>1, <1>2 DEF Layout
  <2>3. /\ e[1] = e[1 - 1] + (IF word[1] \in Special THEN 2 ELSE 1) /\ e[0] = 0 /\ text[e[1]] = word[1]
        /\ word[1] \in Special => text[e[1] - 1] = "bs"
    BY <2>1, <1>2 DEF Layout
  <2>4. text[1] \notin Enders
    <3>1. CASE word[1] \in Special
      <4>1. e[1] = 2
        BY <2>1, <2>3, <3>1
      <4> QED BY <4>1, <2>3, <3>1 DEF Enders
    <3>2. CASE word[1] \notin Special
      <4>1. e[1] = 1
        BY <2>1, <2>3, <3>2
      <4>2. word[1] # "nl"
        BY <2>1, <1>1 DEF ToSet
      <4> QED BY <4>1, <4>2, <2>3, <3>2 DEF Enders, Special
    <3> QED BY <3>1, <3>2
  <2> QED BY <2>2, <2>4, <1>1
<1>5. buf[p] = text[1] /\ p \in 1 .. Len(buf)
  <2>1. 1 \in 1 .. Len(text) /\ p + 1 - 1 = p
    BY <1>4
  <2>2. buf[p + 1 - 1] = text[1]
    BY <2>1 DEF At
  <2>3. p \in 1 .. Len(buf)
    BY <1>1
  <2> QED BY <2>1, <2>2, <2>3
<1>6. buf[p] \notin {"sp", "nl"}
  BY <1>4, <1>5 DEF Enders
<1>7. PICK run : /\ Scans(run, buf, Scanner(p, Null, <<>>, Incomplete))
                 /\ ParseToken(buf, p) = run[Len(buf)].token
  BY <1>5, <1>6, TokenHere
<1>8. Turns(run, buf) /\ run[0] = Scanner(p, Null, <<>>, Incomplete) /\ 0 \in Nat
  BY <1>7 DEF Scans, Turns
<1> HIDE DEF k
<1>9. run[n] = Scanner(k, Null, word, Incomplete)
  <2>1. Spells(text, word, Null)
    BY <1>1, <1>2, <1>3 DEF Spells
  <2>2. \A last : last = 0 + Len(word) => run[last] = Scanner(p + Len(text), Null, word, Incomplete)
    BY <1>8, <2>1, WordScanned
  <2>3. 0 + Len(word) = n
    BY <1>1
  <2> QED BY <2>2, <2>3 DEF k
<1> HIDE DEF n
<1>10. run[n + 1] = Scanner(Len(buf) + 1, Null, word, Token("STR", word, next))
  <2>1. run[n + 1] = Scan(buf, Scanner(k, Null, word, Incomplete))
    BY <1>1, <1>8, <1>9 DEF Turns
  <2>2. k <= Len(buf) /\ buf[k] \in Enders
    BY DEF k
  <2> QED BY <2>1, <2>2, WordEnds
<1>11. n + 1 \in Nat /\ n + 1 <= Len(buf)
  BY <1>1, <1>4
<1> HIDE DEF next
<1>12. run[Len(buf)].token = Token("STR", word, next)
  BY <1>8, <1>10, <1>11, ScanLeft
<1> QED BY <1>4, <1>7, <1>12 DEF next, k

(* The characters of written lines.                                          *)
Marked == Chars \cup Enders \cup {"bs", "sq", "dq"}

(* A word in quotes.                                                         *)
Quoted(q, inner) == <<q>> \o inner \o <<q>>

(* The token at p is a word.                                                 *)
WordAt(buf, p, word, next) == ParseToken(buf, p) = Token("STR", word, next)

(* Lines 157-168: it is read up to the same quote.                           *)
LEMMA QuotedRead ==
  ASSUME NEW buf \in Seq(Chars), NEW word \in Seq(Chars), NEW q \in {"sq", "dq"},
         NEW inner \in Seq(Marked), Spells(inner, word, q),
         NEW p \in Nat \ {0}, At(buf, p, Quoted(q, inner)), NEW next, next = p + Len(Quoted(q, inner))
  PROVE  /\ Len(Quoted(q, inner)) \in Nat \ {0} /\ Quoted(q, inner)[1] = q
         /\ WordAt(buf, p, word, next)
<1> DEFINE n == Len(word)
           text == <<q>> \o inner \o <<q>>
           m == Len(inner)
           S == Marked
           k == (p + 1) + m
<1> text = Quoted(q, inner)
  BY DEF Quoted
<1>1. n \in Nat /\ Len(buf) \in Nat /\ m \in Nat
  BY LenProperties
<1>2. /\ At(buf, p, <<q>>) /\ At(buf, p + 1, inner) /\ At(buf, k, <<q>>)
      /\ p + 1 \in Nat \ {0} /\ k \in Nat \ {0} /\ Len(text) = m + 2 /\ text[1] = q
  <2>1. <<q>> \in Seq(S) /\ inner \in Seq(S) /\ Len(<<q>>) = 1
    <3>1. q \in S
      BY DEF Marked
    <3> HIDE DEF S
    <3>2. <<q>> \in Seq(S) /\ Len(<<q>>) = 1
      BY <3>1
    <3> QED BY <3>2 DEF S
  <2>2. <<q>> \o inner \in Seq(S) /\ Len(<<q>> \o inner) = 1 + m
    BY <2>1, ConcatProperties
  <2> HIDE DEF S, m
  <2>3. /\ At(buf, p, <<q>> \o inner) /\ At(buf, p + Len(<<q>> \o inner), <<q>>)
        /\ Len(text) = Len(<<q>> \o inner) + Len(<<q>>)
    <3> DEFINE x == <<q>> \o inner
               y == <<q>>
    <3>1. x \in Seq(S) /\ y \in Seq(S) /\ At(buf, p, x \o y)
      BY <2>1, <2>2
    <3>2. x \o y = text
      OBVIOUS
    <3> HIDE DEF x, y
    <3>3. At(buf, p, x) /\ At(buf, p + Len(x), y) /\ Len(x \o y) = Len(x) + Len(y)
      BY <3>1, AtParts
    <3> QED BY <3>2, <3>3, Zenon DEF x, y
  <2>4. At(buf, p, <<q>>) /\ At(buf, p + Len(<<q>>), inner)
    BY <2>1, <2>3, AtParts
  <2>5. p + Len(<<q>> \o inner) = k /\ Len(text) = m + 2 /\ k \in Nat \ {0} /\ p + 1 \in Nat \ {0}
    <3>1. Len(text) = (1 + m) + 1 /\ p + Len(<<q>> \o inner) = p + (1 + m)
      BY <2>1, <2>2, <2>3, Zenon
    <3> HIDE DEF text
    <3> QED BY <1>1, <3>1
  <2>6. text[1] = q
    <3>1. (<<q>> \o inner)[1] = <<q>>[1]
      <4>1. 1 \in 1 .. Len(<<q>>) + Len(inner) /\ 1 <= Len(<<q>>)
        BY <1>1, <2>1 DEF m
      <4> QED BY <4>1, <2>1, ConcatProperties
    <3>2. text[1] = (<<q>> \o inner)[1]
      <4>1. 1 \in 1 .. Len(<<q>> \o inner) + Len(<<q>>) /\ 1 <= Len(<<q>> \o inner)
        BY <1>1, <2>1, <2>2
      <4> QED BY <4>1, <2>1, <2>2, ConcatProperties
    <3> QED BY <3>1, <3>2
  <2> QED BY <2>1, <2>3, <2>4, <2>5, <2>6
<1> HIDE DEF text, k
<1>3. p \in 1 .. Len(buf) /\ buf[p] = q /\ k \in 1 .. Len(buf) /\ buf[k] = q
  BY <1>2, AtOne
<1>4. buf[p] \notin {"sp", "nl"}
  BY <1>3
<1>5. PICK run : /\ Scans(run, buf, Scanner(p, Null, <<>>, Incomplete))
                 /\ ParseToken(buf, p) = run[Len(buf)].token
  BY <1>3, <1>4, TokenHere
<1>6. Turns(run, buf) /\ run[0] = Scanner(p, Null, <<>>, Incomplete)
  BY <1>5 DEF Scans, Turns
<1>7. run[1] = Scanner(p + 1, q, <<>>, Incomplete)
  <2>1. run[0 + 1] = Scan(buf, Scanner(p, Null, <<>>, Incomplete))
    BY <1>6 DEF Turns
  <2>2. p <= Len(buf)
    BY <1>1, <1>3
  <2>3. Scan(buf, Scanner(p, Null, <<>>, Incomplete)) = Scanner(p + 1, q, <<>>, Incomplete)
    BY <2>2, <1>3, QuoteRead
  <2> QED BY <2>1, <2>3
<1>8. run[1 + n] = Scanner(k, q, word, Incomplete)
  <2>1. 1 \in Nat
    OBVIOUS
  <2>2. \A last : last = 1 + Len(word) => run[last] = Scanner((p + 1) + Len(inner), q, word, Incomplete)
    BY <1>2, <1>6, <1>7, <2>1, WordScanned
  <2> QED BY <2>2 DEF k
<1>9. n <= m
  <2>1. CASE n = 0
    BY <2>1, <1>1
  <2>2. CASE n # 0
    <3>1. n \in 1 .. n
      BY <2>2, <1>1
    <3>2. PICK chars, e : Layout(inner, word, chars, e)
      BY DEF Spells
    <3> QED BY <3>1, <3>2 DEF Layout
  <2> QED BY <2>1, <2>2
<1> HIDE DEF n, m
<1>10. run[(1 + n) + 1] = Scanner(Len(buf) + 1, q, word, Token("STR", word, k + 1))
  <2>1. run[(1 + n) + 1] = Scan(buf, Scanner(k, q, word, Incomplete))
    <3>1. 1 + n \in Nat
      BY <1>1
    <3> QED BY <3>1, <1>6, <1>8 DEF Turns
  <2>2. k <= Len(buf)
    BY <1>1, <1>3
  <2> QED BY <2>1, <2>2, <1>3, QuoteRead
<1>11. (1 + n) + 1 \in Nat /\ (1 + n) + 1 <= Len(buf) /\ k + 1 = p + Len(text) /\ Len(text) \in Nat \ {0}
  <2>1. k = (p + 1) + m
    BY DEF k
  <2> QED BY <2>1, <1>1, <1>2, <1>3, <1>9
<1>12. run[Len(buf)].token = Token("STR", word, k + 1)
  BY <1>6, <1>10, <1>11, ScanLeft
<1> QED BY <1>2, <1>5, <1>11, <1>12 DEF text, WordAt
-----------------------------------------------------------------------------
(* A word, however it is written.                                            *)
LEMMA WritingIs ==
  ASSUME NEW word \in Seq(Chars), word # <<>>, NEW text \in Writings(word)
  PROVE  text \in Seq(Marked)
<1>1. Chars \cup {"bs"} \subseteq Marked /\ "sq" \in Marked /\ "dq" \in Marked
  BY DEF Marked
<1>2. \A chars : Escape(word, chars) \in Seq(Marked)
  <2>1. \A chars : Escape(word, chars) \in Seq(Chars \cup {"bs"})
    BY EscapeLayout
  <2> QED BY <2>1, <1>1, SeqMonotonic
<1>3. word \in Seq(Marked) /\ <<"sq">> \in Seq(Marked) /\ <<"dq">> \in Seq(Marked)
  <2>1. word \in Seq(Marked)
    BY <1>1, SeqMonotonic
  <2> QED BY <2>1, <1>1
<1>4. \A q \in {"sq", "dq"}, inner \in Seq(Marked) : <<q>> \o inner \o <<q>> \in Seq(Marked)
  BY <1>3, ConcatProperties
<1>5. \/ text = Escape(word, Special)
      \/ text = <<"sq">> \o word \o <<"sq">>
      \/ text = <<"dq">> \o Escape(word, {"bs", "dq"}) \o <<"dq">>
  BY DEF Writings
<1> QED BY <1>2, <1>3, <1>4, <1>5

(* Lines 141-151: white space before a token.                                *)
LEMMA Blank ==
  ASSUME NEW buf \in Seq(Chars), NEW p \in 1 .. Len(buf), buf[p] = "sp"
  PROVE  ParseToken(buf, p + 1) = ParseToken(buf, p)
<1>1. Len(buf) \in Nat /\ p \in Nat
  BY LenProperties
<1>2. {k \in p .. Len(buf) : buf[k] # "sp"} = {k \in p + 1 .. Len(buf) : buf[k] # "sp"}
  BY <1>1
<1> QED BY <1>2 DEF ParseToken

(* A written word is read, and what follows it is read next.                 *)
LEMMA WordRead ==
  ASSUME NEW buf \in Seq(Chars), buf[Len(buf)] = "nl", NEW word \in Seq(Chars), word # <<>>,
         NEW text \in Writings(word), NEW p \in Nat \ {0}, At(buf, p, text),
         p + Len(text) <= Len(buf), buf[p + Len(text)] \in Enders
  PROVE  /\ Len(text) \in Nat \ {0} /\ text[1] \notin Enders
         /\ \E next \in 1 .. Len(buf) :
              /\ ParseToken(buf, p) = Token("STR", word, next)
              /\ ParseToken(buf, next) = ParseToken(buf, p + Len(text))
<1> DEFINE k == p + Len(text)
<1>1. Len(buf) \in Nat /\ Len(word) \in Nat /\ \A i \in 1 .. Len(word) : word[i] \in Chars
  BY LenProperties, ElementOfSeq
<1>2. CASE text = Escape(word, Special) /\ "nl" \notin ToSet(word)
  <2> DEFINE next == IF buf[k] = "sp" THEN k + 1 ELSE k
  <2>1. /\ Len(text) \in Nat \ {0} /\ text[1] \notin Enders
        /\ ParseToken(buf, p) = Token("STR", word, IF buf[p + Len(text)] = "sp" THEN p + Len(text) + 1 ELSE p + Len(text))
    BY <1>2, BareRead
  <2>2. ParseToken(buf, p) = Token("STR", word, next) /\ k \in 1 .. Len(buf)
    <3>1. k \in 1 .. Len(buf)
      BY <2>1, <1>1
    <3> QED BY <2>1, <3>1
  <2> HIDE DEF k
  <2>3. ParseToken(buf, next) = ParseToken(buf, k) /\ next \in 1 .. Len(buf)
    <3>1. CASE buf[k] = "sp"
      <4>1. k # Len(buf) /\ next = k + 1
        BY <3>1
      <4>2. next \in 1 .. Len(buf)
        BY <4>1, <2>2, <1>1
      <4> QED BY <4>1, <4>2, <3>1, <2>2, Blank
    <3>2. CASE buf[k] # "sp"
      BY <3>2, <2>2
    <3> QED BY <3>1, <3>2
  <2> HIDE DEF next
  <2> QED BY <2>1, <2>2, <2>3 DEF k
<1>0. \A S : S \subseteq Chars \cup {"bs"} => \A x \in Seq(S) : x \in Seq(Marked)
  <2>1. Chars \cup {"bs"} \subseteq Marked
    BY DEF Marked
  <2> QED BY <2>1, SeqMonotonic
<1>3. ASSUME NEW q \in {"sq", "dq"}, NEW inner \in Seq(Marked), Spells(inner, word, q),
             text = <<q>> \o inner \o <<q>>
      PROVE  /\ Len(text) \in Nat \ {0} /\ text[1] \notin Enders
             /\ \E next \in 1 .. Len(buf) :
                  /\ ParseToken(buf, p) = Token("STR", word, next)
                  /\ ParseToken(buf, next) = ParseToken(buf, p + Len(text))
  <2> DEFINE x == Quoted(q, inner)
  <2>1. At(buf, p, x) /\ x = text
    BY <1>3 DEF Quoted
  <2>2. Len(x) \in Nat \ {0} /\ x[1] = q /\ ParseToken(buf, p) = Token("STR", word, p + Len(x))
    <3>1. Spells(inner, word, q) /\ At(buf, p, Quoted(q, inner))
      BY <1>3, <2>1
    <3>2. \A n : n = p + Len(Quoted(q, inner)) =>
            /\ Len(Quoted(q, inner)) \in Nat \ {0} /\ Quoted(q, inner)[1] = q
            /\ WordAt(buf, p, word, n)
      BY <3>1, QuotedRead
    <3> QED BY <3>2 DEF WordAt
  <2> HIDE DEF x
  <2>3. Len(text) \in Nat \ {0} /\ text[1] = q /\ ParseToken(buf, p) = Token("STR", word, k)
    BY <2>1, <2>2
  <2>4. k \in 1 .. Len(buf)
    BY <1>1, <2>3
  <2>5. text[1] \notin Enders
    BY <2>3 DEF Enders
  <2> QED BY <2>3, <2>4, <2>5
<1>4. CASE text = <<"sq">> \o word \o <<"sq">> /\ "sq" \notin ToSet(word)
  <2>1. \A i \in 1 .. Len(word) : Mode("sq", {}, word[i])
    <3>1. \A i \in 1 .. Len(word) : word[i] # "sq"
      <4>1. DOMAIN word = 1 .. Len(word)
        BY LenProperties
      <4> QED BY <4>1, <1>4 DEF ToSet
    <3> QED BY <3>1 DEF Mode
  <2>2. PICK e \in [0 .. Len(word) -> Nat] : Layout(word, word, {}, e)
    BY PlainLayout
  <2>3. word \in Seq(Marked)
    BY <1>0
  <2>4. Spells(word, word, "sq")
    BY <1>1, <2>1, <2>2 DEF Spells
  <2> QED BY <2>3, <2>4, <1>3, <1>4
<1>5. CASE text = <<"dq">> \o Escape(word, {"bs", "dq"}) \o <<"dq">>
  <2> DEFINE inner == Escape(word, {"bs", "dq"})
             chars == {"bs", "dq"}
  <2>1. \A i \in 1 .. Len(word) : Mode("dq", chars, word[i])
    BY DEF Mode
  <2>2. inner \in Seq(Marked) /\ \E e \in [0 .. Len(word) -> Nat] : Layout(inner, word, chars, e)
    BY <1>0, EscapeLayout
  <2>3. text = <<"dq">> \o inner \o <<"dq">>
    BY <1>5
  <2> HIDE DEF inner, chars
  <2>4. PICK e \in [0 .. Len(word) -> Nat] : Layout(inner, word, chars, e)
    BY <2>2
  <2>5. Spells(inner, word, "dq")
    <3>1. Len(inner) \in Nat
      BY <2>2, LenProperties
    <3> QED BY <3>1, <2>1, <2>4 DEF Spells
  <2> QED BY <2>2, <2>3, <2>5, <1>3
<1> QED BY <1>2, <1>4, <1>5 DEF Writings

(* Lines 202-246: an operator of one character, in front of a word.          *)
LEMMA OperatorRead ==
  ASSUME NEW buf \in Seq(Chars), NEW p \in 1 .. Len(buf), p + 1 <= Len(buf),
         buf[p] \in {"&", "|", ">"}, buf[p + 1] # buf[p]
  PROVE  ParseToken(buf, p) =
           Token(IF buf[p] = "&" THEN "BACKGROUND" ELSE IF buf[p] = "|" THEN "PIPE" ELSE "OUT_NEW", <<>>, p + 1)
<1> DEFINE s == Scanner(p, Null, <<>>, Incomplete)
           t == Token(IF buf[p] = "&" THEN "BACKGROUND" ELSE IF buf[p] = "|" THEN "PIPE" ELSE "OUT_NEW", <<>>, p + 1)
<1>1. Len(buf) \in Nat /\ p \in Nat /\ p # Len(buf) /\ p <= Len(buf) /\ 1 <= Len(buf)
  BY LenProperties
<1>2. PICK run : Scans(run, buf, s) /\ ParseToken(buf, p) = run[Len(buf)].token
  BY TokenHere
<1>3. s.pos = p /\ s.quote = Null /\ s.data = <<>>
  BY DEF Scanner
<1>4. OperatorToken(buf, p) = t
  <2>1. CASE buf[p] = "&"
    BY <2>1, <1>1 DEF OperatorToken
  <2>2. CASE buf[p] = "|"
    BY <2>2, <1>1 DEF OperatorToken
  <2>3. CASE buf[p] = ">"
    BY <2>3, <1>1 DEF OperatorToken
  <2> QED BY <2>1, <2>2, <2>3
<1> HIDE DEF s, t
<1>5. Scan(buf, s) = Scanner(Len(buf) + 1, Null, <<>>, t)
  <2>1. buf[p] \notin {"bs", "sq", "dq", "sp", "nl"}
    OBVIOUS
  <2> QED BY <2>1, <1>1, <1>3, <1>4 DEF Scan
<1>6. Turns(run, buf) /\ run[1] = Scanner(Len(buf) + 1, Null, <<>>, t) /\ 1 \in Nat
  <2>1. run[0 + 1] = Scan(buf, run[0]) /\ run[0] = s
    BY <1>2 DEF Scans
  <2> QED BY <2>1, <1>2, <1>5 DEF Scans, Turns
<1>7. run[Len(buf)].token = t
  BY <1>1, <1>6, ScanLeft
<1> QED BY <1>2, <1>7 DEF t

(* Lines 149-151: a new line.                                                *)
LEMMA NewLineRead ==
  ASSUME NEW buf \in Seq(Chars), NEW p \in 1 .. Len(buf), buf[p] = "nl"
  PROVE  ParseToken(buf, p) = Token("NEW_LINE", <<>>, p + 1)
<1> DEFINE starts == {k \in p .. Len(buf) : buf[k] # "sp"}
<1>1. Len(buf) \in Nat /\ p \in Nat
  BY LenProperties
<1>2. p \in starts /\ starts \subseteq Nat
  BY <1>1
<1>3. Min(starts) \in starts /\ Min(starts) <= p
  <2> HIDE DEF starts
  <2> QED BY <1>2, LeastPosition
<1>4. Min(starts) = p
  <2>1. Min(starts) \in p .. Len(buf)
    BY <1>3
  <2> HIDE DEF starts
  <2> QED BY <2>1, <1>1, <1>3
<1> QED BY <1>2, <1>4 DEF ParseToken

(* Lines 263-276: a comment up to the end of the line.                       *)
LEMMA CommentRead ==
  ASSUME NEW buf \in Seq(Chars), NEW p \in 1 .. Len(buf), p + 2 <= Len(buf),
         buf[p] = "#", buf[p + 1] # "nl", buf[p + 2] = "nl"
  PROVE  ParseToken(buf, p) = Token("NEW_LINE", <<>>, p + 3)
<1> DEFINE s == Scanner(p, Null, <<>>, Incomplete)
           t == Token("NEW_LINE", <<>>, p + 3)
           ends == {k \in p + 1 .. Len(buf) : buf[k] = "nl"}
<1>1. Len(buf) \in Nat /\ p \in Nat /\ p <= Len(buf) /\ 1 <= Len(buf)
  BY LenProperties
<1>2. PICK run : Scans(run, buf, s) /\ ParseToken(buf, p) = run[Len(buf)].token
  BY TokenHere
<1>3. s.pos = p /\ s.quote = Null /\ s.data = <<>>
  BY DEF Scanner
<1>4. Comment(buf, p) = t
  <2>1. p + 2 \in ends /\ ends \subseteq Nat
    BY <1>1
  <2>2. Min(ends) \in ends /\ Min(ends) <= p + 2
    <3> HIDE DEF ends
    <3> QED BY <2>1, LeastPosition
  <2>3. Min(ends) \in p + 1 .. Len(buf) /\ Min(ends) # p + 1
    BY <2>2
  <2>4. Min(ends) = p + 2
    <3> HIDE DEF ends
    <3> QED BY <2>2, <2>3, <1>1
  <2>5. Comment(buf, p) = Token("NEW_LINE", <<>>, (p + 2) + 1) /\ (p + 2) + 1 = p + 3
    BY <2>1, <2>4, <1>1 DEF Comment
  <2> QED BY <2>5
<1> HIDE DEF s, t
<1>5. Scan(buf, s) = Scanner(Len(buf) + 1, Null, <<>>, t)
  BY <1>1, <1>3, <1>4 DEF Scan
<1>6. Turns(run, buf) /\ run[1] = Scanner(Len(buf) + 1, Null, <<>>, t) /\ 1 \in Nat
  <2>1. run[0 + 1] = Scan(buf, run[0]) /\ run[0] = s
    BY <1>2 DEF Scans
  <2> QED BY <2>1, <1>2, <1>5 DEF Scans, Turns
<1>7. run[Len(buf)].token = t
  BY <1>1, <1>6, ScanLeft
<1> QED BY <1>2, <1>7 DEF t
-----------------------------------------------------------------------------
(* A word is read at p, and then what stands at k.                           *)
Reads(buf, p, word, k) ==
    \E next \in 1 .. Len(buf) : WordAt(buf, p, word, next) /\ ParseToken(buf, next) = ParseToken(buf, k)

(* The text of a line with two words, one at p, one behind j, up to k.       *)
Between(buf, p, v, c, j, w, k) ==
    /\ j \in Nat /\ k \in Nat /\ p < j /\ j + 1 < k /\ k <= Len(buf)
    /\ buf[j] = c /\ buf[j + 1] \notin Enders
    /\ Reads(buf, p, v, j) /\ Reads(buf, j + 1, w, k)

(* What ends a written line.                                                 *)
Endings == {<<"nl">>, <<"sp", "nl">>, <<"&", "nl">>, <<"#", "bs", "nl">>}

LEMMA EndingIs ==
  ASSUME NEW end \in Endings
  PROVE  end \in Seq(Marked) /\ Len(end) \in Nat \ {0} /\ end[1] \in Enders /\ end[Len(end)] = "nl"
<1>1. {"nl", "sp", "&", "#", "bs"} \subseteq Marked /\ {"nl", "sp", "&", "#"} \subseteq Enders
  BY DEF Marked, Enders
<1>2. CASE end = <<"nl">>
  BY <1>1, <1>2
<1>3. CASE end = <<"sp", "nl">>
  BY <1>1, <1>3
<1>4. CASE end = <<"&", "nl">>
  BY <1>1, <1>4
<1>5. CASE end = <<"#", "bs", "nl">>
  BY <1>1, <1>5
<1> QED BY <1>2, <1>3, <1>4, <1>5 DEF Endings

(* Two words with a character between them.                                  *)
LEMMA TwoWords ==
  ASSUME NEW buf \in Seq(Chars), NEW v \in Seq(Chars) \ {<<>>}, NEW w \in Seq(Chars) \ {<<>>},
         NEW a \in Writings(v), NEW b \in Writings(w), NEW c \in {"sp", "|", ">"}, NEW end \in Endings,
         NEW p \in Nat \ {0}, At(buf, p, LineText(a, c, b, end)),
         Len(buf) + 1 = p + Len(LineText(a, c, b, end))
  PROVE  \E j, k : Between(buf, p, v, c, j, w, k) /\ At(buf, k, end) /\ k + Len(end) = Len(buf) + 1
<1> DEFINE ac == a \o <<c>>
           acb == ac \o b
           all == acb \o end
           S == Marked
<1>1. /\ a \in Seq(S) /\ b \in Seq(S) /\ <<c>> \in Seq(S) /\ Len(<<c>>) = 1 /\ end \in Seq(S)
      /\ Len(end) \in Nat \ {0} /\ Len(buf) \in Nat /\ c \in Enders
  <2>1. c \in S /\ c \in Enders
    BY DEF Marked, Enders
  <2>2. a \in Seq(S) /\ b \in Seq(S) /\ end \in Seq(S)
    BY WritingIs, EndingIs
  <2> HIDE DEF S
  <2> QED BY <2>1, <2>2, EndingIs, LenProperties
<1> HIDE DEF S
<1>2. ac \in Seq(S) /\ acb \in Seq(S)
  BY <1>1, ConcatProperties
<1>3. At(buf, p, all) /\ Len(buf) + 1 = p + Len(all)
  BY DEF LineText
<1>4. At(buf, p, acb) /\ At(buf, p + Len(acb), end) /\ Len(all) = Len(acb) + Len(end) /\ Len(acb) \in Nat
  <2> HIDE DEF acb
  <2> QED BY <1>1, <1>2, <1>3, AtParts
<1> HIDE DEF all
<1>5. At(buf, p, ac) /\ At(buf, p + Len(ac), b) /\ Len(acb) = Len(ac) + Len(b) /\ Len(ac) \in Nat /\ Len(b) \in Nat
  <2> HIDE DEF ac
  <2> QED BY <1>1, <1>2, <1>4, AtParts
<1>6. At(buf, p, a) /\ At(buf, p + Len(a), <<c>>) /\ Len(ac) = Len(a) + 1 /\ Len(a) \in Nat
  <2> DEFINE y == <<c>>
  <2>1. y \in Seq(S) /\ At(buf, p, a \o y) /\ Len(y) = 1
    BY <1>1, <1>5
  <2> HIDE DEF y
  <2>2. At(buf, p, a) /\ At(buf, p + Len(a), y) /\ Len(a \o y) = Len(a) + Len(y) /\ Len(a) \in Nat
    <3>1. a \in Seq(S) /\ y \in Seq(S) /\ At(buf, p, a \o y)
      BY <1>1, <2>1
    <3> QED BY <3>1, AtParts
  <2> QED BY <2>1, <2>2, Zenon DEF y
<1> HIDE DEF ac, acb
<1> DEFINE j == p + Len(a)
           k == p + Len(acb)
<1>7. j + 1 = p + Len(ac) /\ k = (j + 1) + Len(b) /\ k + Len(end) = Len(buf) + 1 /\ j \in Nat \ {0} /\ j + 1 \in Nat \ {0}
  BY <1>1, <1>3, <1>4, <1>5, <1>6
<1>8. j \in 1 .. Len(buf) /\ buf[j] = c
  BY <1>6, <1>7, AtOne
<1>9. k <= Len(buf) /\ buf[k] \in Enders /\ buf[Len(buf)] = "nl"
  <2> DEFINE m == Len(end)
  <2>1. 1 \in 1 .. m /\ m \in 1 .. m /\ k + 1 - 1 = k /\ k + m - 1 = Len(buf) /\ k <= Len(buf)
    BY <1>1, <1>7
  <2>2. buf[k + 1 - 1] = end[1] /\ buf[k + m - 1] = end[m]
    BY <2>1, <1>4 DEF At
  <2> QED BY <2>1, <2>2, EndingIs
<1> HIDE DEF j, k
<1>10. Len(a) \in Nat \ {0} /\ Reads(buf, p, v, j)
  <2>1. p + Len(a) <= Len(buf) /\ buf[p + Len(a)] \in Enders
    BY <1>1, <1>8 DEF j
  <2> QED BY <2>1, <1>6, <1>9, WordRead DEF Reads, WordAt, j
<1>11. Len(b) \in Nat \ {0} /\ Reads(buf, j + 1, w, k) /\ b[1] \notin Enders
  <2> DEFINE i == j + 1
  <2>1. i \in Nat \ {0} /\ i + Len(b) <= Len(buf) /\ buf[i + Len(b)] \in Enders /\ At(buf, i, b)
    BY <1>5, <1>7, <1>9
  <2> HIDE DEF i
  <2>2. Len(b) \in Nat \ {0} /\ Reads(buf, i, w, i + Len(b)) /\ b[1] \notin Enders
    BY <2>1, <1>9, WordRead DEF Reads, WordAt
  <2> QED BY <2>2, <1>7 DEF i
<1>12. buf[j + 1] = b[1]
  <2>1. 1 \in 1 .. Len(b) /\ (j + 1) + 1 - 1 = j + 1 /\ At(buf, j + 1, b)
    BY <1>5, <1>7, <1>11
  <2> QED BY <2>1 DEF At
<1>13. p < j /\ j + 1 < k /\ j \in Nat /\ k \in Nat
  <2>1. j = p + Len(a)
    BY DEF j
  <2> QED BY <2>1, <1>7, <1>10, <1>11
<1>14. Between(buf, p, v, c, j, w, k)
  BY <1>8, <1>9, <1>10, <1>11, <1>12, <1>13 DEF Between
<1> QED BY <1>4, <1>7, <1>14 DEF k
-----------------------------------------------------------------------------
(* The line that has these expressions so far.                               *)
LineOf(exprs) == [EmptyLine EXCEPT !.exprs = exprs]

(* Lines 297-366: what a turn of the loop does with a token.                 *)
LEMMA WordTurn ==
  ASSUME NEW buf, NEW p, ~ p > Len(buf), NEW line, NEW word, word # <<>>, NEW n, WordAt(buf, p, word, n)
  PROVE  Parse(buf, Reader(p, line, NoLine)) = Reader(n, AddWord(line, word), NoLine)
<1> DEFINE s == Reader(p, line, NoLine)
           t == ParseToken(buf, p)
<1>1. s.pos = p /\ s.line = line
  BY DEF Reader
<1>2. t.type = "STR" /\ t.data = word /\ t.next = n
  BY DEF WordAt, Token
<1> HIDE DEF s, t
<1>3. Parse(buf, s) = Reader(n, AddWord(line, word), NoLine)
  BY <1>1, <1>2 DEF Parse, Operators, t
<1> QED BY <1>3 DEF s

LEMMA NewLineTurn ==
  ASSUME NEW buf, NEW p, ~ p > Len(buf), NEW line, NEW n, ParseToken(buf, p) = Token("NEW_LINE", <<>>, n)
  PROVE  /\ line.exprs = <<>> => Parse(buf, Reader(p, line, NoLine)) = Reader(n, line, NoLine)
         /\ line.exprs # <<>> /\ Last(line.exprs).type = "COMMAND" =>
              Parse(buf, Reader(p, line, NoLine)) = Reader(Len(buf) + 1, line, Result("NONE", line, n - 1))
<1> DEFINE s == Reader(p, line, NoLine)
           t == ParseToken(buf, p)
<1>1. s.pos = p /\ s.line = line
  BY DEF Reader
<1>2. t.type = "NEW_LINE" /\ t.next = n
  BY DEF Token
<1> HIDE DEF s, t
<1>3. line.exprs = <<>> => Parse(buf, s) = Reader(n, line, NoLine)
  BY <1>1, <1>2 DEF Parse, Operators, t
<1>4. ASSUME line.exprs # <<>>, Last(line.exprs).type = "COMMAND"
      PROVE  Parse(buf, s) = Reader(Len(buf) + 1, line, Result("NONE", line, n - 1))
  <2>1. EndLine(buf, t, line) = Result("NONE", line, n - 1)
    BY <1>2, <1>4 DEF EndLine
  <2> QED BY <1>1, <1>2, <1>4, <2>1 DEF Parse, Operators, t
<1> QED BY <1>3, <1>4 DEF s

Piped(line) == [line EXCEPT !.exprs = Append(@, Operator("PIPE"))]

LEMMA PipeTurn ==
  ASSUME NEW buf, NEW p, ~ p > Len(buf), NEW line, NEW n, ParseToken(buf, p) = Token("PIPE", <<>>, n),
         line.exprs # <<>>, Last(line.exprs).type = "COMMAND"
  PROVE  Parse(buf, Reader(p, line, NoLine)) = Reader(n, Piped(line), NoLine)
<1> DEFINE s == Reader(p, line, NoLine)
           t == ParseToken(buf, p)
<1>1. s.pos = p /\ s.line = line
  BY DEF Reader
<1>2. t.type = "PIPE" /\ t.next = n /\ "PIPE" \in Operators
  BY DEF Token, Operators
<1>3. OperatorError(line, "PIPE") = "NONE"
  BY DEF OperatorError
<1> HIDE DEF s, t
<1>4. Parse(buf, s) = Reader(n, [line EXCEPT !.exprs = Append(@, Operator("PIPE"))], NoLine)
  BY <1>1, <1>2, <1>3 DEF Parse, Operators, t
<1> QED BY <1>4 DEF s, Piped

(* Lines 368-408: a redirection, in the background, up to the new line.      *)
Filed(line, word) == [line EXCEPT !.out = "FILE_NEW", !.out_file = word, !.background = TRUE]

LEMMA RedirectTurn ==
  ASSUME NEW buf, NEW p, ~ p > Len(buf), NEW line, line.exprs # <<>>, Last(line.exprs).type = "COMMAND",
         NEW m, ParseToken(buf, p) = Token("OUT_NEW", <<>>, m),
         NEW word, word # <<>>, NEW k, Reads(buf, m, word, k),
         NEW n, ParseToken(buf, k) = Token("BACKGROUND", <<>>, n),
         NEW e, ParseToken(buf, n) = Token("NEW_LINE", <<>>, e)
  PROVE  Parse(buf, Reader(p, line, NoLine)) = Reader(Len(buf) + 1, line, Result("NONE", Filed(line, word), e - 1))
<1> DEFINE s == Reader(p, line, NoLine)
           t == ParseToken(buf, p)
           u == ParseToken(buf, n)
           redirected == [line EXCEPT !.out = "FILE_NEW", !.out_file = word]
           file == Filed(line, word)
<1>1. s.pos = p /\ s.line = line
  BY DEF Reader
<1>2. t.type = "OUT_NEW" /\ t.next = m
  BY DEF Token
<1>3. u.type = "NEW_LINE" /\ u.next = e
  BY DEF Token
<1>4. file = [redirected EXCEPT !.background = TRUE] /\ file.exprs = line.exprs
  BY DEF Filed
<1> HIDE DEF s, t, u, redirected, file
<1>5. EndLine(buf, u, file) = Result("NONE", file, e - 1)
  BY <1>3, <1>4 DEF EndLine
<1>6. PICK next : WordAt(buf, m, word, next) /\ ParseToken(buf, next) = ParseToken(buf, k)
  BY DEF Reads
<1>7. Background(buf, ParseToken(buf, next), redirected) = Result("NONE", file, e - 1)
  <2>1. ParseToken(buf, next).type = "BACKGROUND" /\ ParseToken(buf, next).next = n
    BY <1>6 DEF Token
  <2> QED BY <2>1, <1>4, <1>5 DEF Background, u
<1>8. Redirect(buf, t, line) = Result("NONE", file, e - 1)
  <2> DEFINE f == ParseToken(buf, m)
  <2>1. f.type = "STR" /\ f.data = word /\ f.next = next
    BY <1>6 DEF WordAt, Token
  <2> HIDE DEF f
  <2> QED BY <2>1, <1>2, <1>7 DEF Redirect, f, redirected
<1>9. Parse(buf, s) = Reader(Len(buf) + 1, line, Result("NONE", file, e - 1))
  BY <1>1, <1>2, <1>8 DEF Parse, Operators, t
<1> QED BY <1>9 DEF s, file

(* Lines 304-313: the expressions of the written lines.                      *)
LEMMA LineOfIs ==
  ASSUME NEW exprs, NEW more
  PROVE  /\ LineOf(exprs).exprs = exprs
         /\ [LineOf(exprs) EXCEPT !.exprs = more] = LineOf(more)
BY DEF LineOf, EmptyLine

LEMMA WordsAdded ==
  ASSUME NEW v, NEW w
  PROVE  /\ AddWord(EmptyLine, v) = LineOf(<<Command(<<v>>)>>)
         /\ AddWord(LineOf(<<Command(<<v>>)>>), w) = LineOf(<<Command(<<v, w>>)>>)
         /\ Piped(LineOf(<<Command(<<v>>)>>)) = LineOf(<<Command(<<v>>), Operator("PIPE")>>)
         /\ AddWord(LineOf(<<Command(<<v>>), Operator("PIPE")>>), w) =
              LineOf(<<Command(<<v>>), Operator("PIPE"), Command(<<w>>)>>)
<1> DEFINE one == <<Command(<<v>>)>>
           two == <<Command(<<v>>), Operator("PIPE")>>
           both == <<Command(<<v, w>>)>>
           three == <<Command(<<v>>), Operator("PIPE"), Command(<<w>>)>>
<1>1. AddWord(EmptyLine, v) = LineOf(one)
  BY DEF AddWord, EmptyLine, LineOf
<1>2. /\ Len(one) = 1 /\ one[1] = Command(<<v>>)
      /\ Len(two) = 2 /\ two[2] = Operator("PIPE")
      /\ Append(one, Operator("PIPE")) = two /\ Append(two, Command(<<w>>)) = three
  <2> DEFINE x == Command(<<v>>)
             y == Operator("PIPE")
             z == Command(<<w>>)
  <2> HIDE DEF x, y, z
  <2>1. Len(<<x>>) = 1 /\ <<x>>[1] = x /\ Len(<<x, y>>) = 2 /\ <<x, y>>[2] = y
    OBVIOUS
  <2> DEFINE S == {x, y, z}
             xy == <<x, y>>
             xyz == <<x, y, z>>
  <2>2. Append(<<x>>, y) = <<x, y>>
    <3> DEFINE s == <<x>>
    <3>1. s \in Seq(S) /\ y \in S /\ Len(s) = 1 /\ s[1] = x
      OBVIOUS
    <3>2. xy \in Seq(S) /\ Len(xy) = 2 /\ xy[1] = x /\ xy[2] = y
      OBVIOUS
    <3> HIDE DEF s, xy, S
    <3>3. /\ Append(s, y) \in Seq(S) /\ Len(Append(s, y)) = 2
          /\ Append(s, y)[1] = x /\ Append(s, y)[2] = y
      <4>1. Len(s) + 1 = 2 /\ 1 \in 1 .. Len(s)
        BY <3>1
      <4>2. s \in Seq(S) /\ y \in S
        BY <3>1
      <4>3. /\ Append(s, y) \in Seq(S) /\ Len(Append(s, y)) = Len(s) + 1
            /\ \A i \in 1 .. Len(s) : Append(s, y)[i] = s[i]
            /\ Append(s, y)[Len(s) + 1] = y
        BY <4>2, AppendProperties
      <4> DEFINE a == Append(s, y)
      <4> HIDE DEF a
      <4>4. a \in Seq(S) /\ Len(a) = Len(s) + 1 /\ a[Len(s) + 1] = y
            /\ \A i \in 1 .. Len(s) : a[i] = s[i]
        BY <4>3 DEF a
      <4> QED BY <3>1, <4>1, <4>4 DEF a
    <3>4. \A i \in 1 .. 2 : Append(s, y)[i] = xy[i]
      <4>1. 1 .. 2 = {1, 2}
        OBVIOUS
      <4> QED BY <3>2, <3>3, <4>1
    <3>5. Append(s, y) = xy
      BY <3>2, <3>3, <3>4, SeqEqual
    <3> QED BY <3>5 DEF s, xy
  <2>3. Append(<<x, y>>, z) = <<x, y, z>>
    <3>1. xy \in Seq(S) /\ z \in S /\ Len(xy) = 2 /\ xy[1] = x /\ xy[2] = y
      OBVIOUS
    <3>2. xyz \in Seq(S) /\ Len(xyz) = 3 /\ xyz[1] = x /\ xyz[2] = y /\ xyz[3] = z
      OBVIOUS
    <3> HIDE DEF xy, xyz, S
    <3>3. /\ Append(xy, z) \in Seq(S) /\ Len(Append(xy, z)) = 3
          /\ Append(xy, z)[1] = x /\ Append(xy, z)[2] = y /\ Append(xy, z)[3] = z
      <4>1. Len(xy) + 1 = 3 /\ 1 \in 1 .. Len(xy) /\ 2 \in 1 .. Len(xy)
        BY <3>1
      <4>2. xy \in Seq(S) /\ z \in S
        BY <3>1
      <4>3. /\ Append(xy, z) \in Seq(S) /\ Len(Append(xy, z)) = Len(xy) + 1
            /\ \A i \in 1 .. Len(xy) : Append(xy, z)[i] = xy[i]
            /\ Append(xy, z)[Len(xy) + 1] = z
        BY <4>2, AppendProperties
      <4> DEFINE a == Append(xy, z)
      <4> HIDE DEF a
      <4>4. a \in Seq(S) /\ Len(a) = Len(xy) + 1 /\ a[Len(xy) + 1] = z
            /\ \A i \in 1 .. Len(xy) : a[i] = xy[i]
        BY <4>3 DEF a
      <4> QED BY <3>1, <4>1, <4>4 DEF a
    <3>4. \A i \in 1 .. 3 : Append(xy, z)[i] = xyz[i]
      <4>1. 1 .. 3 = {1, 2, 3}
        OBVIOUS
      <4> QED BY <3>2, <3>3, <4>1
    <3>5. Append(xy, z) = xyz
      BY <3>2, <3>3, <3>4, SeqEqual
    <3> QED BY <3>5 DEF xy, xyz
  <2> QED BY <2>1, <2>2, <2>3 DEF x, y, z
<1>3. Command(<<v>>).type = "COMMAND" /\ Operator("PIPE").type # "COMMAND"
  BY DEF Command, Operator
<1>4. [one EXCEPT ![1].words = Append(@, w)] = both
  BY DEF Command
<1> HIDE DEF one, two, both, three
<1>5. AddWord(LineOf(one), w) = LineOf(both)
  <2> DEFINE line == LineOf(one)
  <2>1. line.exprs = one /\ [line EXCEPT !.exprs = both] = LineOf(both)
    BY LineOfIs
  <2> HIDE DEF line
  <2>2. AddWord(line, w) = [line EXCEPT !.exprs[1].words = Append(@, w)]
    <3>1. Len(line.exprs) = 1 /\ line.exprs[1].type = "COMMAND"
      BY <1>2, <1>3, <2>1
    <3>2. Len(line.exprs) > 0 /\ line.exprs[Len(line.exprs)].type = "COMMAND"
      BY <3>1
    <3>3. AddWord(line, w) = [line EXCEPT !.exprs[Len(line.exprs)].words = Append(@, w)]
      BY <3>2, Zenon DEF AddWord
    <3> QED BY <3>1, <3>3, Zenon
  <2>3. [line EXCEPT !.exprs[1].words = Append(@, w)] = [line EXCEPT !.exprs = [line.exprs EXCEPT ![1].words = Append(@, w)]]
    OBVIOUS
  <2> QED BY <1>4, <2>1, <2>2, <2>3 DEF line
<1>6. [LineOf(one) EXCEPT !.exprs = Append(@, Operator("PIPE"))] = LineOf(two)
  <2> DEFINE line == LineOf(one)
  <2>1. line.exprs = one /\ [line EXCEPT !.exprs = two] = LineOf(two)
    BY LineOfIs
  <2> HIDE DEF line
  <2>2. [line EXCEPT !.exprs = Append(@, Operator("PIPE"))] = [line EXCEPT !.exprs = Append(line.exprs, Operator("PIPE"))]
    OBVIOUS
  <2> QED BY <1>2, <2>1, <2>2 DEF line
<1>7. AddWord(LineOf(two), w) = LineOf(three)
  <2> DEFINE line == LineOf(two)
  <2>1. line.exprs = two /\ [line EXCEPT !.exprs = three] = LineOf(three)
    BY LineOfIs
  <2> HIDE DEF line
  <2>2. AddWord(line, w) = [line EXCEPT !.exprs = Append(@, Command(<<w>>))]
    <3>1. line.exprs[Len(line.exprs)].type # "COMMAND"
      BY <1>2, <1>3, <2>1
    <3> QED BY <3>1 DEF AddWord
  <2>3. [line EXCEPT !.exprs = Append(@, Command(<<w>>))] = [line EXCEPT !.exprs = Append(line.exprs, Command(<<w>>))]
    OBVIOUS
  <2> QED BY <1>2, <2>1, <2>2, <2>3 DEF line
<1> QED BY <1>1, <1>5, <1>6, <1>7 DEF one, two, both, three, Piped
-----------------------------------------------------------------------------
(* The loop over the tokens of a buffer, and how it is left.                 *)
LEMMA ParseRun ==
  ASSUME NEW buf \in Seq(Chars)
  PROVE  \E run : Parses(run, buf) /\ pop_next(buf) = run[Len(buf)].result
<1>1. Len(buf) \in Nat /\ 1 \in 1 .. Len(buf) + 1
  <2>1. Len(buf) \in Nat
    BY LenProperties
  <2> QED BY <2>1
<1>2. Reader(1, EmptyLine, NoLine) \in Readers(buf)
  BY <1>1, EmptyBegun, ResultIs, ReaderIs
<1>3. \A s \in Readers(buf) : Parse(buf, s) \in Readers(buf)
  BY ParseKeeps
<1> QED BY <1>2, <1>3, ParseLoop

LEMMA ParseLeft ==
  ASSUME NEW buf \in Seq(Chars), NEW run, Parses(run, buf), NEW n \in Nat, n <= Len(buf),
         NEW line, NEW r, run[n] = Reader(Len(buf) + 1, line, r)
  PROVE  run[Len(buf)].result = r
<1>1. Len(buf) \in Nat
  BY LenProperties
<1>2. run[n].pos = Len(buf) + 1 /\ run[n].result = r
  BY DEF Reader
<1>3. Parse(buf, run[n]) = run[n]
  <2>1. run[n].pos > Len(buf)
    <3> DEFINE q == run[n].pos
    <3> HIDE DEF q
    <3>1. q = Len(buf) + 1 => q > Len(buf)
      BY <1>1
    <3> QED BY <1>2, <3>1 DEF q
  <2> QED BY <2>1 DEF Parse
<1>4. \A j \in Nat : run[j] = run[n] => run[j + 1] = run[n]
  BY <1>3 DEF Parses
<1>5. run[Len(buf)] = run[n]
  BY <1>1, <1>4, Settled
<1> QED BY <1>2, <1>5

(* A turn that takes a word.                                                 *)
LEMMA WordTaken ==
  ASSUME NEW buf \in Seq(Chars), NEW run, Parses(run, buf), NEW i \in Nat, NEW q \in 1 .. Len(buf), NEW line,
         run[i] = Reader(q, line, NoLine), NEW word, word # <<>>, NEW k, Reads(buf, q, word, k)
  PROVE  \E next \in 1 .. Len(buf) :
           run[i + 1] = Reader(next, AddWord(line, word), NoLine) /\ ParseToken(buf, next) = ParseToken(buf, k)
<1>1. PICK next \in 1 .. Len(buf) : WordAt(buf, q, word, next) /\ ParseToken(buf, next) = ParseToken(buf, k)
  BY DEF Reads
<1>2. ~ q > Len(buf)
  <2>1. Len(buf) \in Nat
    BY LenProperties
  <2> QED BY <2>1
<1>3. Parse(buf, Reader(q, line, NoLine)) = Reader(next, AddWord(line, word), NoLine)
  BY <1>1, <1>2, WordTurn
<1>4. run[i + 1] = Reader(next, AddWord(line, word), NoLine)
  BY <1>3 DEF Parses
<1> QED BY <1>1, <1>4

(* The last turn: the new line behind a command.                             *)
LEMMA LineTaken ==
  ASSUME NEW buf \in Seq(Chars), NEW run, Parses(run, buf), NEW i \in Nat, i + 1 <= Len(buf),
         NEW q \in 1 .. Len(buf), NEW line, line.exprs # <<>>, Last(line.exprs).type = "COMMAND",
         run[i] = Reader(q, line, NoLine), ParseToken(buf, q) = Token("NEW_LINE", <<>>, Len(buf) + 1)
  PROVE  run[Len(buf)].result = Result("NONE", line, Len(buf))
<1>1. Len(buf) \in Nat /\ ~ q > Len(buf) /\ (Len(buf) + 1) - 1 = Len(buf)
  <2>1. Len(buf) \in Nat
    BY LenProperties
  <2> QED BY <2>1
<1> DEFINE e == Len(buf) + 1
<1>2. ParseToken(buf, q) = Token("NEW_LINE", <<>>, e) /\ e - 1 = Len(buf)
  BY <1>1
<1> HIDE DEF e
<1>3. Parse(buf, Reader(q, line, NoLine)) = Reader(Len(buf) + 1, line, Result("NONE", line, e - 1))
  BY <1>1, <1>2, NewLineTurn
<1>4. run[i + 1] = Reader(Len(buf) + 1, line, Result("NONE", line, e - 1))
  BY <1>3 DEF Parses
<1>5. i + 1 \in Nat
  OBVIOUS
<1>6. run[Len(buf)].result = Result("NONE", line, e - 1)
  BY <1>4, <1>5, ParseLeft
<1> QED BY <1>2, <1>6

(* The lines that are written.                                               *)
WordsLine(v, w) == LineOf(<<Command(<<v, w>>)>>)
PipeLine(v, w) == LineOf(<<Command(<<v>>), Operator("PIPE"), Command(<<w>>)>>)
FileLine(v, w) == Filed(LineOf(<<Command(<<v>>)>>), w)

(* A command ends them.                                                      *)
LEMMA EndsInCommand ==
  ASSUME NEW v, NEW w
  PROVE  /\ LineOf(<<Command(<<v>>)>>).exprs # <<>> /\ Last(LineOf(<<Command(<<v>>)>>).exprs).type = "COMMAND"
         /\ WordsLine(v, w).exprs # <<>> /\ Last(WordsLine(v, w).exprs).type = "COMMAND"
         /\ PipeLine(v, w).exprs # <<>> /\ Last(PipeLine(v, w).exprs).type = "COMMAND"
<1>1. \A words : Command(words).type = "COMMAND"
  BY DEF Command
<1>2. \A x, y, z : /\ <<x>> # <<>> /\ <<x>>[Len(<<x>>)] = x
                   /\ <<x, y, z>> # <<>> /\ <<x, y, z>>[Len(<<x, y, z>>)] = z
  OBVIOUS
<1>3. LineOf(<<Command(<<v>>)>>).exprs = <<Command(<<v>>)>>
  BY LineOfIs
<1>4. WordsLine(v, w).exprs = <<Command(<<v, w>>)>>
  BY LineOfIs DEF WordsLine
<1>5. PipeLine(v, w).exprs = <<Command(<<v>>), Operator("PIPE"), Command(<<w>>)>>
  BY LineOfIs DEF PipeLine
<1> QED BY <1>1, <1>2, <1>3, <1>4, <1>5 DEF Last
-----------------------------------------------------------------------------
(* Two words of a command, from turn i on.                                   *)
LEMMA WordsTaken ==
  ASSUME NEW buf \in Seq(Chars), NEW run, Parses(run, buf), NEW i \in Nat, NEW last, last = i + 3, last <= Len(buf),
         NEW q \in 1 .. Len(buf), run[i] = Reader(q, EmptyLine, NoLine),
         NEW v, NEW w, v # <<>>, w # <<>>, NEW p \in Nat, NEW j, NEW k, Between(buf, p, v, "sp", j, w, k),
         Reads(buf, q, v, j), ParseToken(buf, k) = Token("NEW_LINE", <<>>, Len(buf) + 1)
  PROVE  run[Len(buf)].result = Result("NONE", WordsLine(v, w), Len(buf))
<1>1. Len(buf) \in Nat /\ j \in 1 .. Len(buf) /\ buf[j] = "sp" /\ Reads(buf, j + 1, w, k)
  <2>1. Len(buf) \in Nat
    BY LenProperties
  <2> QED BY <2>1 DEF Between
<1>2. PICK m \in 1 .. Len(buf) :
        run[i + 1] = Reader(m, AddWord(EmptyLine, v), NoLine) /\ ParseToken(buf, m) = ParseToken(buf, j)
  BY WordTaken
<1>3. Reads(buf, m, w, k)
  <2>1. ParseToken(buf, m) = ParseToken(buf, j + 1)
    BY <1>1, <1>2, Blank
  <2> QED BY <1>1, <2>1 DEF Reads, WordAt
<1> DEFINE one == LineOf(<<Command(<<v>>)>>)
<1>4. run[i + 1] = Reader(m, one, NoLine) /\ i + 1 \in Nat
  <2>1. AddWord(EmptyLine, v) = one
    BY WordsAdded
  <2> HIDE DEF one
  <2> QED BY <2>1, <1>2
<1> HIDE DEF one
<1>5. PICK n \in 1 .. Len(buf) :
        run[(i + 1) + 1] = Reader(n, AddWord(one, w), NoLine) /\ ParseToken(buf, n) = ParseToken(buf, k)
  BY <1>3, <1>4, WordTaken
<1>6. run[(i + 1) + 1] = Reader(n, WordsLine(v, w), NoLine)
  BY <1>5, WordsAdded DEF WordsLine, one
<1> DEFINE l == (i + 1) + 1
<1>7. l \in Nat /\ l + 1 <= Len(buf) /\ run[l] = Reader(n, WordsLine(v, w), NoLine)
  BY <1>1, <1>6
<1> HIDE DEF l
<1>8. ParseToken(buf, n) = Token("NEW_LINE", <<>>, Len(buf) + 1)
  BY <1>5
<1> DEFINE line == WordsLine(v, w)
<1>9. line.exprs # <<>> /\ Last(line.exprs).type = "COMMAND" /\ run[l] = Reader(n, line, NoLine)
  BY <1>7, EndsInCommand
<1> HIDE DEF line
<1>10. run[Len(buf)].result = Result("NONE", line, Len(buf))
  BY <1>7, <1>8, <1>9, LineTaken
<1> QED BY <1>10 DEF line

(* Two commands with a pipe between them.                                    *)
LEMMA PipeTaken ==
  ASSUME NEW buf \in Seq(Chars), NEW run, Parses(run, buf), 4 <= Len(buf),
         NEW v, NEW w, v # <<>>, w # <<>>, NEW j, NEW k, Between(buf, 1, v, "|", j, w, k),
         ParseToken(buf, k) = Token("NEW_LINE", <<>>, Len(buf) + 1)
  PROVE  run[Len(buf)].result = Result("NONE", PipeLine(v, w), Len(buf))
<1>1. /\ Len(buf) \in Nat /\ j \in 1 .. Len(buf) /\ j + 1 \in 1 .. Len(buf) /\ 1 \in 1 .. Len(buf)
      /\ buf[j] = "|" /\ buf[j + 1] # "|" /\ Reads(buf, j + 1, w, k) /\ Reads(buf, 1, v, j)
  <2>1. Len(buf) \in Nat
    BY LenProperties
  <2>2. "|" \in Enders
    BY DEF Enders
  <2> QED BY <2>1, <2>2 DEF Between
<1>2. run[0] = Reader(1, EmptyLine, NoLine)
  BY DEF Parses
<1>3. PICK m \in 1 .. Len(buf) :
        run[0 + 1] = Reader(m, AddWord(EmptyLine, v), NoLine) /\ ParseToken(buf, m) = ParseToken(buf, j)
  <2>1. 0 \in Nat
    OBVIOUS
  <2> QED BY <1>1, <1>2, <2>1, WordTaken
<1> DEFINE one == LineOf(<<Command(<<v>>)>>)
           two == LineOf(<<Command(<<v>>), Operator("PIPE")>>)
<1>4. run[1] = Reader(m, one, NoLine)
  <2>1. AddWord(EmptyLine, v) = one
    BY WordsAdded
  <2> HIDE DEF one
  <2> QED BY <2>1, <1>3
<1>5. one.exprs # <<>> /\ Last(one.exprs).type = "COMMAND"
  BY EndsInCommand
<1>6. Piped(one) = two
  BY WordsAdded
<1>7. AddWord(two, w) = PipeLine(v, w)
  BY WordsAdded DEF PipeLine
<1> HIDE DEF one, two
<1>8. ParseToken(buf, m) = Token("PIPE", <<>>, j + 1)
  <2>1. j + 1 <= Len(buf) /\ buf[j] \in {"&", "|", ">"} /\ buf[j + 1] # buf[j]
    BY <1>1
  <2> QED BY <1>1, <1>3, <2>1, OperatorRead
<1>9. run[1 + 1] = Reader(j + 1, two, NoLine)
  <2>1. ~ m > Len(buf)
    BY <1>1
  <2>2. Parse(buf, Reader(m, one, NoLine)) = Reader(j + 1, two, NoLine)
    <3> DEFINE x == j + 1
    <3>1. ParseToken(buf, m) = Token("PIPE", <<>>, x)
      BY <1>8
    <3> HIDE DEF x
    <3>2. Parse(buf, Reader(m, one, NoLine)) = Reader(x, Piped(one), NoLine)
      BY <3>1, <2>1, <1>5, PipeTurn
    <3> QED BY <3>2, <1>6 DEF x
  <2>3. run[1 + 1] = Parse(buf, run[1])
    BY DEF Parses
  <2> QED BY <2>2, <2>3, <1>4
<1>10. PICK n \in 1 .. Len(buf) :
         run[2 + 1] = Reader(n, AddWord(two, w), NoLine) /\ ParseToken(buf, n) = ParseToken(buf, k)
  <2>1. 2 \in Nat /\ run[2] = Reader(j + 1, two, NoLine)
    BY <1>9
  <2> QED BY <2>1, <1>1, WordTaken
<1>11. run[3] = Reader(n, PipeLine(v, w), NoLine) /\ 3 \in Nat /\ 3 + 1 <= Len(buf)
  BY <1>1, <1>7, <1>10
<1>12. ParseToken(buf, n) = Token("NEW_LINE", <<>>, Len(buf) + 1)
  BY <1>10
<1> DEFINE line == PipeLine(v, w)
<1>13. line.exprs # <<>> /\ Last(line.exprs).type = "COMMAND" /\ run[3] = Reader(n, line, NoLine)
  BY <1>11, EndsInCommand
<1> HIDE DEF line
<1>14. run[Len(buf)].result = Result("NONE", line, Len(buf))
  BY <1>11, <1>12, <1>13, LineTaken
<1> QED BY <1>14 DEF line

(* A command with its output in a file, in the background.                   *)
LEMMA FileTaken ==
  ASSUME NEW buf \in Seq(Chars), NEW run, Parses(run, buf), 2 <= Len(buf),
         NEW v, NEW w, v # <<>>, w # <<>>, NEW j, NEW k, Between(buf, 1, v, ">", j, w, k),
         ParseToken(buf, k) = Token("BACKGROUND", <<>>, k + 1),
         ParseToken(buf, k + 1) = Token("NEW_LINE", <<>>, Len(buf) + 1)
  PROVE  run[Len(buf)].result = Result("NONE", FileLine(v, w), Len(buf))
<1>1. /\ Len(buf) \in Nat /\ j \in 1 .. Len(buf) /\ j + 1 \in 1 .. Len(buf) /\ 1 \in 1 .. Len(buf)
      /\ buf[j] = ">" /\ buf[j + 1] # ">" /\ Reads(buf, j + 1, w, k) /\ Reads(buf, 1, v, j)
  <2>1. Len(buf) \in Nat
    BY LenProperties
  <2>2. ">" \in Enders
    BY DEF Enders
  <2> QED BY <2>1, <2>2 DEF Between
<1>2. run[0] = Reader(1, EmptyLine, NoLine)
  BY DEF Parses
<1>3. PICK m \in 1 .. Len(buf) :
        run[0 + 1] = Reader(m, AddWord(EmptyLine, v), NoLine) /\ ParseToken(buf, m) = ParseToken(buf, j)
  <2>1. 0 \in Nat
    OBVIOUS
  <2> QED BY <1>1, <1>2, <2>1, WordTaken
<1> DEFINE one == LineOf(<<Command(<<v>>)>>)
<1>4. run[1] = Reader(m, one, NoLine)
  <2>1. AddWord(EmptyLine, v) = one
    BY WordsAdded
  <2> HIDE DEF one
  <2> QED BY <2>1, <1>3
<1>5. one.exprs # <<>> /\ Last(one.exprs).type = "COMMAND"
  BY EndsInCommand
<1>6. FileLine(v, w) = Filed(one, w)
  BY DEF FileLine
<1> HIDE DEF one
<1>7. ParseToken(buf, m) = Token("OUT_NEW", <<>>, j + 1)
  <2>1. j + 1 <= Len(buf) /\ buf[j] \in {"&", "|", ">"} /\ buf[j + 1] # buf[j]
    BY <1>1
  <2> QED BY <1>1, <1>3, <2>1, OperatorRead
<1> DEFINE e == Len(buf) + 1
           file == FileLine(v, w)
           r == Result("NONE", file, e - 1)
<1>8. ParseToken(buf, k + 1) = Token("NEW_LINE", <<>>, e) /\ e - 1 = Len(buf)
  BY <1>1
<1>9. Parse(buf, Reader(m, one, NoLine)) = Reader(Len(buf) + 1, one, r)
  <2> HIDE DEF e
  <2>1. ~ m > Len(buf)
    BY <1>1
  <2> DEFINE x == j + 1
             n == k + 1
  <2>2. /\ ParseToken(buf, m) = Token("OUT_NEW", <<>>, x) /\ Reads(buf, x, w, k)
        /\ ParseToken(buf, k) = Token("BACKGROUND", <<>>, n) /\ ParseToken(buf, n) = Token("NEW_LINE", <<>>, e)
    BY <1>1, <1>7, <1>8
  <2> HIDE DEF x, n, file
  <2>3. Parse(buf, Reader(m, one, NoLine)) = Reader(Len(buf) + 1, one, Result("NONE", Filed(one, w), e - 1))
    BY <2>1, <2>2, <1>5, RedirectTurn
  <2> QED BY <2>3, <1>6 DEF file
<1> HIDE DEF r
<1>10. run[1 + 1] = Reader(Len(buf) + 1, one, r)
  <2>1. run[1 + 1] = Parse(buf, run[1])
    BY DEF Parses
  <2> QED BY <2>1, <1>4, <1>9
<1>11. run[Len(buf)].result = r
  <2>1. run[2] = Reader(Len(buf) + 1, one, r) /\ 2 \in Nat
    BY <1>10
  <2> QED BY <2>1, ParseLeft
<1> QED BY <1>8, <1>11 DEF r
-----------------------------------------------------------------------------
(* What follows the words of a written line.                                 *)
LEMMA EndingRead ==
  ASSUME NEW buf \in Seq(Chars), NEW k \in Nat \ {0}, NEW end \in Endings, At(buf, k, end),
         k + Len(end) = Len(buf) + 1
  PROVE  /\ end = <<"&", "nl">> => /\ ParseToken(buf, k) = Token("BACKGROUND", <<>>, k + 1)
                                   /\ ParseToken(buf, k + 1) = Token("NEW_LINE", <<>>, Len(buf) + 1)
         /\ end # <<"&", "nl">> => ParseToken(buf, k) = Token("NEW_LINE", <<>>, Len(buf) + 1)
<1>1. Len(buf) \in Nat
  BY LenProperties
<1>2. CASE end = <<"nl">>
  <2>1. Len(end) = 1 /\ end[1] = "nl" /\ end # <<"&", "nl">>
    BY <1>2
  <2>2. k \in 1 .. Len(buf) /\ k + 1 = Len(buf) + 1 /\ k + 1 - 1 = k /\ 1 \in 1 .. 1
    BY <1>1, <2>1
  <2>3. buf[k] = "nl"
    <3>1. buf[k + 1 - 1] = end[1]
      BY <2>1, <2>2 DEF At
    <3> QED BY <3>1, <2>1, <2>2
  <2>4. ParseToken(buf, k) = Token("NEW_LINE", <<>>, k + 1)
    BY <2>2, <2>3, NewLineRead
  <2> QED BY <2>1, <2>2, <2>4
<1>3. ASSUME NEW c, end = <<c, "nl">>
      PROVE  k \in 1 .. Len(buf) /\ k + 1 = Len(buf) /\ buf[k] = c /\ buf[k + 1] = "nl" /\ k # Len(buf)
  <2>1. Len(end) = 2 /\ end[1] = c /\ end[2] = "nl"
    BY <1>3
  <2>2. /\ k \in 1 .. Len(buf) /\ k + 1 = Len(buf) /\ k + 1 - 1 = k /\ k + 2 - 1 = k + 1
        /\ 1 \in 1 .. 2 /\ 2 \in 1 .. 2 /\ k # Len(buf)
    BY <1>1, <2>1
  <2>3. buf[k + 1 - 1] = end[1] /\ buf[k + 2 - 1] = end[2]
    BY <2>1, <2>2 DEF At
  <2> QED BY <2>1, <2>2, <2>3
<1>4. ASSUME k \in 1 .. Len(buf), k + 1 = Len(buf), buf[k + 1] = "nl"
      PROVE  ParseToken(buf, k + 1) = Token("NEW_LINE", <<>>, Len(buf) + 1)
  <2> DEFINE m == k + 1
  <2>1. m \in 1 .. Len(buf) /\ m = Len(buf) /\ buf[m] = "nl"
    BY <1>1, <1>4
  <2> HIDE DEF m
  <2>2. ParseToken(buf, m) = Token("NEW_LINE", <<>>, m + 1)
    BY <2>1, NewLineRead
  <2> QED BY <2>1, <2>2 DEF m
<1>5. CASE end = <<"sp", "nl">>
  <2>1. end # <<"&", "nl">>
    <3>1. <<"sp", "nl">>[1] # <<"&", "nl">>[1]
      OBVIOUS
    <3> QED BY <3>1, <1>5
  <2>2. k \in 1 .. Len(buf) /\ k + 1 = Len(buf) /\ buf[k] = "sp" /\ buf[k + 1] = "nl"
    BY <1>3, <1>5
  <2>3. ParseToken(buf, k + 1) = ParseToken(buf, k)
    BY <2>2, Blank
  <2> QED BY <2>1, <2>2, <2>3, <1>4
<1>6. CASE end = <<"&", "nl">>
  <2>1. k \in 1 .. Len(buf) /\ k + 1 = Len(buf) /\ buf[k] = "&" /\ buf[k + 1] = "nl"
    BY <1>3, <1>6
  <2>2. k + 1 <= Len(buf) /\ buf[k] \in {"&", "|", ">"} /\ buf[k + 1] # buf[k]
    BY <1>1, <2>1
  <2>3. ParseToken(buf, k) = Token("BACKGROUND", <<>>, k + 1)
    BY <2>1, <2>2, OperatorRead
  <2> QED BY <2>1, <2>3, <1>4, <1>6
<1>7. CASE end = <<"#", "bs", "nl">>
  <2>1. Len(end) = 3 /\ end[1] = "#" /\ end[2] = "bs" /\ end[3] = "nl" /\ end # <<"&", "nl">>
    <3>1. Len(<<"&", "nl">>) = 2
      OBVIOUS
    <3>2. Len(end) = 3 /\ end[1] = "#" /\ end[2] = "bs" /\ end[3] = "nl"
      BY <1>7
    <3> QED BY <3>1, <3>2
  <2>2. /\ k \in 1 .. Len(buf) /\ k + 2 <= Len(buf) /\ k + 1 - 1 = k /\ k + 2 - 1 = k + 1 /\ k + 3 - 1 = k + 2
        /\ 1 \in 1 .. 3 /\ 2 \in 1 .. 3 /\ 3 \in 1 .. 3 /\ k + 3 = Len(buf) + 1
    BY <1>1, <2>1
  <2>3. buf[k + 1 - 1] = end[1] /\ buf[k + 2 - 1] = end[2] /\ buf[k + 3 - 1] = end[3]
    BY <2>1, <2>2 DEF At
  <2>4. buf[k] = "#" /\ buf[k + 1] # "nl" /\ buf[k + 2] = "nl"
    BY <2>1, <2>2, <2>3
  <2>5. ParseToken(buf, k) = Token("NEW_LINE", <<>>, k + 3)
    BY <2>2, <2>4, CommentRead
  <2> QED BY <2>1, <2>2, <2>5
<1> QED BY <1>2, <1>5, <1>6, <1>7 DEF Endings

(* A text is where it begins.                                                *)
LEMMA AtItself ==
  ASSUME NEW text \in Seq(Chars)
  PROVE  At(text, 1, text) /\ Len(text) + 1 = 1 + Len(text)
<1>1. Len(text) \in Nat
  BY LenProperties
<1>2. \A k \in 1 .. Len(text) : 1 + k - 1 = k
  BY <1>1
<1> QED BY <1>1, <1>2 DEF At

(* The line is in the buffer and nothing else is.                            *)
Held(buf, line) == buf # <<>> /\ pop_next(buf) = Result("NONE", line, Len(buf))

(* The lines at the beginning of a buffer.                                   *)
LEMMA LineHeld ==
  ASSUME NEW v \in Seq(Chars) \ {<<>>}, NEW w \in Seq(Chars) \ {<<>>},
         NEW a \in Writings(v), NEW b \in Writings(w), NEW c \in {"sp", "|", ">"}, NEW end \in Endings,
         NEW buf \in Seq(Chars), At(buf, 1, LineText(a, c, b, end)),
         Len(buf) + 1 = 1 + Len(LineText(a, c, b, end))
  PROVE  /\ c = "sp" /\ end # <<"&", "nl">> => Held(buf, WordsLine(v, w))
         /\ c = "|" /\ end # <<"&", "nl">> => Held(buf, PipeLine(v, w))
         /\ c = ">" /\ end = <<"&", "nl">> => Held(buf, FileLine(v, w))
<1>1. PICK j, k : Between(buf, 1, v, c, j, w, k) /\ At(buf, k, end) /\ k + Len(end) = Len(buf) + 1
  <2>1. 1 \in Nat \ {0}
    OBVIOUS
  <2> QED BY <2>1, TwoWords
<1>2. /\ Len(buf) \in Nat /\ 4 <= Len(buf) /\ k \in Nat \ {0} /\ Reads(buf, 1, v, j) /\ 3 <= Len(buf)
      /\ 1 \in 1 .. Len(buf) /\ 2 <= Len(buf) /\ buf # <<>>
  <2>1. Len(buf) \in Nat /\ Len(<<>>) = 0
    BY LenProperties, EmptySeq
  <2>2. j \in Nat /\ k \in Nat /\ 1 < j /\ j + 1 < k /\ k <= Len(buf) /\ Reads(buf, 1, v, j)
    BY <1>1 DEF Between
  <2> QED BY <2>1, <2>2
<1>3. PICK run : Parses(run, buf) /\ pop_next(buf) = run[Len(buf)].result
  BY ParseRun
<1>4. /\ end = <<"&", "nl">> => /\ ParseToken(buf, k) = Token("BACKGROUND", <<>>, k + 1)
                                /\ ParseToken(buf, k + 1) = Token("NEW_LINE", <<>>, Len(buf) + 1)
      /\ end # <<"&", "nl">> => ParseToken(buf, k) = Token("NEW_LINE", <<>>, Len(buf) + 1)
  BY <1>1, <1>2, EndingRead
<1>5. run[0] = Reader(1, EmptyLine, NoLine) /\ v # <<>> /\ w # <<>>
  BY <1>3 DEF Parses
<1>6. ASSUME c = "sp", end # <<"&", "nl">> PROVE Held(buf, WordsLine(v, w))
  <2>1. Between(buf, 1, v, "sp", j, w, k) /\ ParseToken(buf, k) = Token("NEW_LINE", <<>>, Len(buf) + 1)
    BY <1>1, <1>4, <1>6
  <2>2. 0 \in Nat /\ 1 \in Nat /\ 3 = 0 + 3
    OBVIOUS
  <2>3. run[Len(buf)].result = Result("NONE", WordsLine(v, w), Len(buf))
    BY <2>1, <2>2, <1>2, <1>3, <1>5, WordsTaken
  <2> QED BY <2>3, <1>2, <1>3 DEF Held
<1>7. ASSUME c = "|", end # <<"&", "nl">> PROVE Held(buf, PipeLine(v, w))
  <2>1. Between(buf, 1, v, "|", j, w, k) /\ ParseToken(buf, k) = Token("NEW_LINE", <<>>, Len(buf) + 1)
    BY <1>1, <1>4, <1>7
  <2>2. run[Len(buf)].result = Result("NONE", PipeLine(v, w), Len(buf))
    BY <2>1, <1>2, <1>3, <1>5, PipeTaken
  <2> QED BY <2>2, <1>2, <1>3 DEF Held
<1>8. ASSUME c = ">", end = <<"&", "nl">> PROVE Held(buf, FileLine(v, w))
  <2>1. /\ Between(buf, 1, v, ">", j, w, k)
        /\ ParseToken(buf, k) = Token("BACKGROUND", <<>>, k + 1)
        /\ ParseToken(buf, k + 1) = Token("NEW_LINE", <<>>, Len(buf) + 1)
    BY <1>1, <1>4, <1>8
  <2>2. run[Len(buf)].result = Result("NONE", FileLine(v, w), Len(buf))
    BY <2>1, <1>2, <1>3, <1>5, FileTaken
  <2> QED BY <2>2, <1>2, <1>3 DEF Held
<1> QED BY <1>6, <1>7, <1>8
-----------------------------------------------------------------------------
(* An empty line, white space and a comment change nothing.                  *)
LEMMA LaterLineHeld ==
  ASSUME NEW v \in Seq(Chars) \ {<<>>}, NEW w \in Seq(Chars) \ {<<>>},
         NEW a \in Writings(v), NEW b \in Writings(w), NEW end \in Endings, end # <<"&", "nl">>,
         NEW buf \in Seq(Chars), At(buf, 1, <<"nl", "sp">> \o LineText(a, "sp", b, end)),
         Len(buf) + 1 = 1 + Len(<<"nl", "sp">> \o LineText(a, "sp", b, end))
  PROVE  Held(buf, WordsLine(v, w))
<1> DEFINE x == LineText(a, "sp", b, end)
           y == <<"nl", "sp">>
           S == Marked
<1>1. x \in Seq(S)
  <2>1. a \in Seq(S) /\ b \in Seq(S) /\ end \in Seq(S)
    BY WritingIs, EndingIs
  <2>2. <<"sp">> \in Seq(S)
    <3>1. "sp" \in S
      BY DEF Marked, Enders
    <3> HIDE DEF S
    <3> QED BY <3>1
  <2> HIDE DEF S
  <2>3. a \o <<"sp">> \in Seq(S)
    BY <2>1, <2>2, ConcatProperties
  <2>4. a \o <<"sp">> \o b \in Seq(S)
    BY <2>1, <2>3, ConcatProperties
  <2>5. a \o <<"sp">> \o b \o end \in Seq(S)
    BY <2>1, <2>4, ConcatProperties
  <2> QED BY <2>5, Zenon DEF LineText
<1>2. y \in Seq(S) /\ Len(y) = 2 /\ y[1] = "nl" /\ y[2] = "sp"
  <2>1. "sp" \in S /\ "nl" \in S
    BY DEF Marked, Enders
  <2> HIDE DEF S
  <2> QED BY <2>1
<1>3. At(buf, 1, y \o x) /\ Len(buf) + 1 = 1 + Len(y \o x) /\ 1 \in Nat \ {0}
  OBVIOUS
<1> HIDE DEF x, y, S
<1>4. At(buf, 1, y) /\ At(buf, 1 + Len(y), x) /\ Len(y \o x) = Len(y) + Len(x) /\ Len(x) \in Nat
  <2> DEFINE p == 1
  <2>1. p \in Nat \ {0} /\ At(buf, p, y \o x)
    BY <1>3
  <2> HIDE DEF p
  <2>2. At(buf, p, y) /\ At(buf, p + Len(y), x) /\ Len(y \o x) = Len(y) + Len(x) /\ Len(x) \in Nat
    <3>1. y \in Seq(S) /\ x \in Seq(S) /\ At(buf, p, y \o x)
      BY <1>1, <1>2, <2>1
    <3> QED BY <2>1, <3>1, AtParts
  <2> QED BY <2>2 DEF p
<1>5. Len(buf) + 1 = 3 + Len(x) /\ At(buf, 3, x) /\ Len(buf) \in Nat
  <2>1. Len(buf) \in Nat
    BY LenProperties
  <2> QED BY <2>1, <1>2, <1>3, <1>4
<1>6. PICK j, k : Between(buf, 3, v, "sp", j, w, k) /\ At(buf, k, end) /\ k + Len(end) = Len(buf) + 1
  <2>1. 3 \in Nat \ {0} /\ At(buf, 3, LineText(a, "sp", b, end)) /\ Len(buf) + 1 = 3 + Len(LineText(a, "sp", b, end))
    BY <1>5 DEF x
  <2> QED BY <2>1, TwoWords
<1>7. 4 <= Len(buf) /\ k \in Nat \ {0} /\ Reads(buf, 3, v, j) /\ buf # <<>> /\ 1 \in 1 .. Len(buf) /\ 2 \in 1 .. Len(buf)
  <2>1. Len(<<>>) = 0
    BY EmptySeq
  <2>2. j \in Nat /\ k \in Nat /\ 3 < j /\ j + 1 < k /\ k <= Len(buf) /\ Reads(buf, 3, v, j)
    BY <1>6 DEF Between
  <2> QED BY <2>1, <2>2, <1>5
<1>8. buf[1] = "nl" /\ buf[2] = "sp"
  <2>1. 1 \in 1 .. Len(y) /\ 2 \in 1 .. Len(y) /\ 1 + 1 - 1 = 1 /\ 1 + 2 - 1 = 2
    BY <1>2
  <2>2. buf[1 + 1 - 1] = y[1] /\ buf[1 + 2 - 1] = y[2]
    BY <2>1, <1>4 DEF At
  <2> QED BY <2>1, <2>2, <1>2
<1>9. ParseToken(buf, k) = Token("NEW_LINE", <<>>, Len(buf) + 1)
  BY <1>6, <1>7, EndingRead
<1>10. Reads(buf, 2, v, j)
  <2>1. ParseToken(buf, 2 + 1) = ParseToken(buf, 2)
    BY <1>7, <1>8, Blank
  <2>2. ParseToken(buf, 3) = ParseToken(buf, 2)
    BY <2>1
  <2> QED BY <2>2, <1>7 DEF Reads, WordAt
<1>11. PICK run : Parses(run, buf) /\ pop_next(buf) = run[Len(buf)].result
  BY ParseRun
<1>12. run[1] = Reader(2, EmptyLine, NoLine)
  <2>1. run[0 + 1] = Parse(buf, run[0]) /\ run[0] = Reader(1, EmptyLine, NoLine)
    BY <1>11 DEF Parses
  <2>2. ParseToken(buf, 1) = Token("NEW_LINE", <<>>, 1 + 1)
    BY <1>7, <1>8, NewLineRead
  <2>3. ~ 1 > Len(buf) /\ EmptyLine.exprs = <<>> /\ ParseToken(buf, 1) = Token("NEW_LINE", <<>>, 2)
    BY <2>2, <1>5, <1>7 DEF EmptyLine
  <2>4. Parse(buf, Reader(1, EmptyLine, NoLine)) = Reader(2, EmptyLine, NoLine)
    BY <2>3, NewLineTurn
  <2> QED BY <2>1, <2>4
<1>13. run[Len(buf)].result = Result("NONE", WordsLine(v, w), Len(buf))
  <2>1. 1 \in Nat /\ 3 \in Nat /\ 4 = 1 + 3 /\ v # <<>> /\ w # <<>>
    OBVIOUS
  <2> QED BY <2>1, <1>6, <1>7, <1>9, <1>10, <1>11, <1>12, WordsTaken
<1> QED BY <1>7, <1>11, <1>13 DEF Held

(* Every written line, at the beginning of a buffer.                         *)
LEMMA WrittenHeld ==
  ASSUME NEW v \in Seq(Chars) \ {<<>>}, NEW w \in Seq(Chars) \ {<<>>}, NEW i \in Written(v, w),
         i.text \in Seq(Chars)
  PROVE  Held(i.text, i.line)
<1> DEFINE words == [EmptyLine EXCEPT !.exprs = <<Command(<<v, w>>)>>]
           pipe == [EmptyLine EXCEPT !.exprs = <<Command(<<v>>), Operator("PIPE"), Command(<<w>>)>>]
           file == [EmptyLine EXCEPT !.exprs = <<Command(<<v>>)>>, !.out = "FILE_NEW",
                                     !.out_file = w, !.background = TRUE]
           later(x) == [x EXCEPT !.text = <<"nl", "sp">> \o @]
<1>1. words = WordsLine(v, w) /\ pipe = PipeLine(v, w) /\ file = FileLine(v, w)
  BY DEF WordsLine, PipeLine, FileLine, LineOf, Filed, EmptyLine
<1>2. \/ i \in Around(v, w, "sp", <<"nl">>, words) \/ i \in Around(v, w, "|", <<"sp", "nl">>, pipe)
      \/ i \in Around(v, w, ">", <<"&", "nl">>, file)
      \/ \E x \in Around(v, w, "sp", <<"#", "bs", "nl">>, words) : i = later(x)
  <2>1. i \in Around(v, w, "sp", <<"nl">>, words) \cup Around(v, w, "|", <<"sp", "nl">>, pipe)
              \cup Around(v, w, ">", <<"&", "nl">>, file)
              \cup {later(x) : x \in Around(v, w, "sp", <<"#", "bs", "nl">>, words)}
    BY DEF Written
  <2> HIDE DEF words, pipe, file, later
  <2> QED BY <2>1
<1> HIDE DEF words, pipe, file
<1>3. ASSUME NEW c, NEW end, NEW line, i \in Around(v, w, c, end, line)
      PROVE  \E a \in Writings(v), b \in Writings(w) : i.text = LineText(a, c, b, end) /\ i.line = line
  BY <1>3 DEF Around
<1> DEFINE text == i.text
<1>4. At(text, 1, text) /\ Len(text) + 1 = 1 + Len(text) /\ text \in Seq(Chars)
  BY AtItself
<1>5. /\ <<"nl">> \in Endings /\ <<"nl">> # <<"&", "nl">>
      /\ <<"sp", "nl">> \in Endings /\ <<"sp", "nl">> # <<"&", "nl">>
      /\ <<"&", "nl">> \in Endings
      /\ <<"#", "bs", "nl">> \in Endings /\ <<"#", "bs", "nl">> # <<"&", "nl">>
  <2>1. Len(<<"nl">>) = 1 /\ Len(<<"&", "nl">>) = 2 /\ Len(<<"#", "bs", "nl">>) = 3
    OBVIOUS
  <2>2. <<"sp", "nl">>[1] = "sp" /\ <<"&", "nl">>[1] = "&"
    OBVIOUS
  <2>3. <<"nl">> # <<"&", "nl">> /\ <<"sp", "nl">> # <<"&", "nl">> /\ <<"#", "bs", "nl">> # <<"&", "nl">>
    BY <2>1, <2>2
  <2> QED BY <2>3, Zenon DEF Endings
<1>6. ASSUME NEW c \in {"sp", "|", ">"}, NEW end \in Endings, NEW a \in Writings(v), NEW b \in Writings(w),
             text = LineText(a, c, b, end)
      PROVE  /\ c = "sp" /\ end # <<"&", "nl">> => Held(text, WordsLine(v, w))
             /\ c = "|" /\ end # <<"&", "nl">> => Held(text, PipeLine(v, w))
             /\ c = ">" /\ end = <<"&", "nl">> => Held(text, FileLine(v, w))
  <2>1. At(text, 1, LineText(a, c, b, end)) /\ Len(text) + 1 = 1 + Len(LineText(a, c, b, end))
    BY <1>4, <1>6
  <2> HIDE DEF text
  <2> QED BY <2>1, <1>4, LineHeld
<1> HIDE DEF text
<1>7. CASE i \in Around(v, w, "sp", <<"nl">>, words)
  BY <1>1, <1>3, <1>5, <1>6, <1>7 DEF text
<1>8. CASE i \in Around(v, w, "|", <<"sp", "nl">>, pipe)
  BY <1>1, <1>3, <1>5, <1>6, <1>8 DEF text
<1>9. CASE i \in Around(v, w, ">", <<"&", "nl">>, file)
  BY <1>1, <1>3, <1>5, <1>6, <1>9 DEF text
<1>10. CASE \E x \in Around(v, w, "sp", <<"#", "bs", "nl">>, words) : i = later(x)
  <2> DEFINE end == <<"#", "bs", "nl">>
  <2>1. PICK x \in Around(v, w, "sp", end, words) : i = later(x)
    BY <1>10
  <2>2. PICK a \in Writings(v), b \in Writings(w) : x = [text |-> LineText(a, "sp", b, end), line |-> words]
    BY <2>1 DEF Around
  <2>6. text = <<"nl", "sp">> \o LineText(a, "sp", b, end) /\ i.line = words
    BY <2>1, <2>2 DEF text
  <2>3. end \in Endings /\ end # <<"&", "nl">>
    BY <1>5
  <2> HIDE DEF end
  <2>4. At(text, 1, <<"nl", "sp">> \o LineText(a, "sp", b, end))
        /\ Len(text) + 1 = 1 + Len(<<"nl", "sp">> \o LineText(a, "sp", b, end))
    BY <2>6, <1>4, Zenon
  <2>5. Held(text, WordsLine(v, w))
    BY <2>3, <2>4, <1>4, LaterLineHeld, Zenon
  <2> QED BY <2>6, <2>5, <1>1 DEF text
<1> QED BY <1>2, <1>7, <1>8, <1>9, <1>10
-----------------------------------------------------------------------------
(* Written lines are read back *)

(* Nothing is popped from nothing.                                           *)
LEMMA NothingLeft == pop_next(<<>>) = NoLine
<1>1. <<>> \in Seq(Chars) /\ Len(<<>>) = 0
  BY EmptySeq
<1>2. PICK run : Parses(run, <<>>) /\ pop_next(<<>>) = run[Len(<<>>)].result
  BY <1>1, ParseRun
<1>3. run[0].result = NoLine
  BY <1>2 DEF Parses, Reader
<1> QED BY <1>1, <1>2, <1>3

(* The results of a written line: the line, and nothing is left.             *)
LEMMA WrittenRun ==
  ASSUME NEW text \in Seq(Chars), NEW line, Held(text, line), NEW run \in [Nat -> Rests], Pops(run, text)
  PROVE  run[Len(text)] = Popped(<<>>, <<<<"NONE", line>>>>)
<1> DEFINE done == Popped(<<>>, <<<<"NONE", line>>>>)
<1>1. Len(text) \in Nat /\ 1 \in Nat /\ 1 <= Len(text)
  <2>1. Len(text) \in Nat /\ Len(text) # 0
    BY LenProperties, EmptySeq DEF Held
  <2> QED BY <2>1
<1>2. run[0] \in Rests /\ run[0].rest = text /\ run[0].results = <<>>
  BY DEF Pops, Popped
<1> DEFINE r == pop_next(text)
<1>3. r.res = "NONE" /\ r.line = line /\ r.consumed = Len(text) /\ r \notin {NoLine, Aborts}
  BY <1>1 DEF Held, Result, NoLine, Aborts
<1> HIDE DEF r
<1>4. PopAll(run[0]) = Popped(Consume(text, r.consumed), Append(<<>>, <<r.res, r.line>>))
  BY <1>2, <1>3, PopTurn DEF r
<1>5. Consume(text, Len(text)) = <<>>
  <2>1. Len(text) + 1 > Len(text)
    BY <1>1
  <2>2. SubSeq(text, Len(text) + 1, Len(text)) = <<>>
    BY <2>1, <1>1, SubSeqEmpty
  <2> QED BY <2>2 DEF Consume
<1>6. Append(<<>>, <<"NONE", line>>) = <<<<"NONE", line>>>>
  <2> DEFINE e == <<"NONE", line>>
  <2> HIDE DEF e
  <2>1. Append(<<>>, e) = <<e>>
    OBVIOUS
  <2> QED BY <2>1 DEF e
<1>7. run[0 + 1] = PopAll(run[0])
  BY DEF Pops
<1>8. run[1] = done
  BY <1>3, <1>4, <1>5, <1>6, <1>7
<1>9. run[1] \in Rests /\ run[1].rest = <<>>
  <2>1. run[1] \in Rests
    BY <1>1
  <2> DEFINE known == <<<<"NONE", line>>>>
  <2> HIDE DEF known
  <2>2. run[1] = Popped(<<>>, known)
    BY <1>8 DEF known
  <2>3. Popped(<<>>, known).rest = <<>>
    BY DEF Popped
  <2> QED BY <2>1, <2>2, <2>3
<1>10. PopAll(run[1]) = run[1]
  BY <1>9, NothingLeft, PopTurn
<1>11. \A j \in Nat : run[j] = run[1] => run[j + 1] = run[1]
  BY <1>10 DEF Pops
<1>12. run[Len(text)] = run[1]
  BY <1>1, <1>11, Settled
<1> QED BY <1>8, <1>12

(* When a written line has been read to its end, it has been popped and the  *)
(* buffer is empty.                                                          *)
LEMMA WrittenEnds ==
  ASSUME NEW text \in Seq(Chars), NEW line, Held(text, line), NEW buf \in Seq(Chars), NEW done,
         Reached(text, buf, done), pop_next(buf) \in {NoLine, Aborts}
  PROVE  buf = <<>> /\ done = <<<<"NONE", line>>>>
<1>1. PICK run \in [Nat -> Rests] : Pops(run, text)
  BY PopRun
<1>2. run[Len(text)] = Popped(buf, done)
  BY <1>1, ReachedRest
<1>3. run[Len(text)] = Popped(<<>>, <<<<"NONE", line>>>>)
  BY <1>1, WrittenRun
<1> DEFINE known == <<<<"NONE", line>>>>
<1> HIDE DEF known
<1>4. Popped(buf, done) = Popped(<<>>, known)
  BY <1>2, <1>3 DEF known
<1>5. Popped(buf, done).rest = buf /\ Popped(buf, done).results = done
  BY DEF Popped
<1>6. Popped(<<>>, known).rest = <<>> /\ Popped(<<>>, known).results = known
  BY DEF Popped
<1>7. buf = <<>> /\ done = known
  BY <1>4, <1>5, <1>6
<1> QED BY <1>7 DEF known

(* What has been read and what is still to be read is the whole text, and    *)
(* the parser only aborts when there is a reason to.                         *)
QuoteInv ==
    /\ SplitInv
    /\ phase = "aborted" => pop_next(buffer) = Aborts
    /\ \E i \in Inputs : fed \o input = i.text /\ meant = i.line

(* Before the first read.                                                    *)
LEMMA QuoteStarts == Init => QuoteInv
<1> SUFFICES ASSUME Init PROVE QuoteInv
  OBVIOUS
<1>1. SplitInv /\ phase # "aborted"
  BY SplitStarts DEF Init
<1>2. PICK i \in Inputs : input = i.text /\ meant = i.line
  BY DEF Init
<1>3. fed \o input = input
  <2>1. input \in Seq(Chars) /\ fed = <<>>
    BY <1>2, ParserAssumption DEF Init
  <2> QED BY <2>1, ConcatEmptySeq
<1> QED BY <1>1, <1>2, <1>3 DEF QuoteInv

(* A read or a pop, with what was written.                                   *)
LEMMA QuoteKeeps ==
  ASSUME QuoteInv, [Next]_vars
  PROVE  QuoteInv'
<1>1. SplitInv'
  BY SplitKeeps DEF QuoteInv
<1>2. IInv /\ fed \in Seq(Chars) /\ input \in Seq(Chars)
  BY DEF QuoteInv, SplitInv, IInv
<1>3. PICK i \in Inputs : fed \o input = i.text /\ meant = i.line
  BY DEF QuoteInv
<1>4. ASSUME NEW n \in Chunks, Feed(n) PROVE QuoteInv'
  <2> DEFINE chunk == SubSeq(input, 1, n)
             rest == SubSeq(input, n + 1, Len(input))
  <2>1. n \in Nat /\ n <= Len(input) /\ n # 0
    BY <1>4, ParserAssumption DEF Feed
  <2>2. chunk \in Seq(Chars) /\ rest \in Seq(Chars)
    BY <2>1, <1>2, Piece
  <2>3. chunk \o rest = input
    <3>1. Len(input) \in Nat
      BY <1>2, LenProperties
    <3>2. 1 \in 1 .. Len(input) + 1 /\ n \in 1 - 1 .. Len(input) /\ Len(input) \in n .. Len(input)
      BY <2>1, <3>1
    <3>3. SubSeq(input, 1, n) \o SubSeq(input, n + 1, Len(input)) = SubSeq(input, 1, Len(input))
      BY <3>2, <1>2, ConcatAdjacentSubSeq
    <3>4. SubSeq(input, 1, Len(input)) = input
      BY <1>2, SubSeqFull
    <3> QED BY <3>3, <3>4
  <2>4. fed' = fed \o chunk /\ input' = rest /\ phase' = "pop" /\ meant' = meant
    BY <1>4 DEF Feed
  <2> HIDE DEF chunk, rest
  <2>5. (fed \o chunk) \o rest = fed \o (chunk \o rest)
    BY <2>2, <1>2, ConcatAssociative
  <2>6. fed' \o input' = i.text /\ meant' = i.line
    BY <2>3, <2>4, <2>5, <1>3
  <2> QED BY <2>4, <2>6, <1>1 DEF QuoteInv
<1>5. CASE Pop
  <2>1. fed' = fed /\ input' = input /\ meant' = meant
    BY <1>5 DEF Pop
  <2>2. phase' = "aborted" => pop_next(buffer') = Aborts
    <3> SUFFICES ASSUME phase' = "aborted" PROVE pop_next(buffer') = Aborts
      OBVIOUS
    <3>1. PICK r \in Results(buffer) : r = pop_next(buffer) /\ r.res = "ABORT" /\ buffer' = buffer
      BY <1>2, <1>5, PopSteps
    <3>2. r = Aborts
      <4>1. "ABORT" \notin Errors
        BY DEF Errors
      <4> QED BY <3>1, <4>1 DEF Results, Result, NoLine
    <3> QED BY <3>1, <3>2
  <2>3. fed' \o input' = i.text /\ meant' = i.line
    BY <2>1, <1>3
  <2> QED BY <2>2, <2>3, <1>1 DEF QuoteInv
<1>6. CASE UNCHANGED vars
  <2>1. fed' = fed /\ input' = input /\ meant' = meant /\ phase' = phase /\ buffer' = buffer
    BY <1>6 DEF vars
  <2>2. phase' = "aborted" => pop_next(buffer') = Aborts
    BY <2>1 DEF QuoteInv
  <2>3. fed' \o input' = i.text /\ meant' = i.line
    BY <2>1, <1>3
  <2> QED BY <2>2, <2>3, <1>1 DEF QuoteInv
<1> QED BY <1>4, <1>5, <1>6 DEF Next, Step

(* What a shell writes for two words it reads back as these words, however   *)
(* they are quoted and whatever the words are made of: the white space, the  *)
(* new lines, the quotes and the operators in them are theirs, a comment and *)
(* an empty line are nobody's, and the reads may end anywhere                *)
(* (parser.c:138-435, task_eng.txt:19-24 and 49-52).                         *)
THEOREM WordsAreReadBack ==
  ASSUME WrittenInputs
  PROVE  Spec => []QuotingReadsBack
<1>1. Init => QuoteInv
  BY QuoteStarts
<1>2. QuoteInv /\ [Next]_vars => QuoteInv'
  BY QuoteKeeps
<1>3. QuoteInv => QuotingReadsBack
  <2> SUFFICES ASSUME QuoteInv, phase # "pop", input = <<>>, meant # Null
               PROVE  phase = "read" /\ popped = <<<<"NONE", meant>>>>
    BY DEF QuotingReadsBack
  <2>1. IInv /\ Reached(fed, buffer, popped) /\ pop_next(buffer) \in {NoLine, Aborts}
    BY DEF QuoteInv, SplitInv
  <2>2. fed \in Seq(Chars) /\ buffer \in Seq(Chars) /\ phase \in {"read", "pop", "aborted"}
    BY <2>1 DEF IInv
  <2>3. PICK i \in Inputs : fed \o input = i.text /\ meant = i.line
    BY DEF QuoteInv
  <2>4. fed = i.text
    BY <2>2, <2>3, ConcatEmptySeq
  <2>5. PICK v \in Seq(Chars) \ {<<>>}, w \in Seq(Chars) \ {<<>>} : i \in Written(v, w)
    BY <2>3 DEF WrittenInputs
  <2>6. Held(fed, meant)
    <3>1. i.text \in Seq(Chars)
      BY <2>2, <2>4
    <3>2. Held(i.text, i.line)
      BY <2>5, <3>1, WrittenHeld
    <3> QED BY <3>2, <2>3, <2>4
  <2>7. buffer = <<>> /\ popped = <<<<"NONE", meant>>>>
    BY <2>1, <2>2, <2>6, WrittenEnds
  <2>8. phase # "aborted"
    <3>1. NoLine # Aborts
      BY DEF NoLine, Aborts, Result
    <3> QED BY <2>7, <3>1, NothingLeft DEF QuoteInv
  <2> QED BY <2>2, <2>7, <2>8
<1> QED BY <1>1, <1>2, <1>3, PTL DEF Spec
=============================================================================
