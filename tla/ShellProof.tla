---- MODULE ShellProof ----
(***************************************************************************)
(* Pipelines and children of the shell, for any lines of any length, any   *)
(* programs and pipes of any size.  The loop over a line keeps track of    *)
(* the two pipes it holds (Loop), a child of its own two ends (Children),  *)
(* and the list of the children is exact (Listed).                         *)
(***************************************************************************)
EXTENDS ShellProps, SequenceTheorems, TLAPS

Ends == Positions \union {-1}

GoodLine ==
    /\ WellFormed(line)
    /\ Len(line.exprs) \in Positions /\ DOMAIN line.exprs = 1 .. Len(line.exprs)

(* A child as Fork makes it and the other steps change it.                 *)
IsChild(i, r) ==
    /\ r = [state |-> r.state, in |-> r.in, out |-> r.out, todo |-> r.todo, status |-> r.status]
    /\ r.state \in {"none", "forked", "running", "shell", "zombie", "reaped"}
    /\ r.in \in Ends /\ r.out \in {-1, i}

ShellTypes ==
    /\ pc \in {"read", "exec", "wait", "exited", "crashed"}
    /\ script \in Seq(Items)
    /\ pc \in {"exec", "wait"} => GoodLine
    /\ Len(line.exprs) \in Nat /\ e \in 0 .. Len(line.exprs) + 1
    /\ prev_fd \in Ends /\ curr_fd \in Ends
    /\ proc = [i \in Positions |-> proc[i]] /\ \A i \in Positions : IsChild(i, proc[i])
    /\ fds \subseteq ({0} \union Positions) \X Positions \X {"r", "w"}
    /\ data \in [Positions -> 0 .. Capacity]

IsPipe(i) == line.exprs[i].type = "PIPE"

(* At a command, curr_fd is its output pipe, if it was made; at the        *)
(* operator after it, that pipe; in the end, none.                         *)
Loop ==
    pc = "exec" =>
        /\ e \in 1 .. Len(line.exprs) + 1
        /\ first => e = 1
        /\ e = 1 => prev_fd = -1
        /\ \A i \in Positions : i >= e => proc[i].state = "none"
        /\ e <= Len(line.exprs) /\ e % 2 = 1 =>
              curr_fd = -1 \/ (curr_fd = e /\ e < Len(line.exprs) /\ IsPipe(e + 1))
        /\ e <= Len(line.exprs) /\ e % 2 = 0 =>
              curr_fd = IF IsPipe(e) THEN e - 1 ELSE -1
        /\ e = Len(line.exprs) + 1 => curr_fd = -1

(* The pipe that the next command reads, in a line of pipes only.          *)
Pure == Types \subseteq {"COMMAND", "PIPE"}
Previous ==
    pc = "exec" /\ Pure /\ e <= Len(line.exprs) =>
        prev_fd = IF e <= 2 THEN -1 ELSE IF e % 2 = 1 THEN e - 2 ELSE e - 3

(* The shell has the pipes of prev_fd and curr_fd open, while it executes. *)
Opened ==
    ~failed => \A h \in fds : h[1] = 0 => pc = "exec" /\ h[2] \in {prev_fd, curr_fd}

(* A child that runs has its standard input and output open, one that does *)
(* not run has nothing.                                                    *)
Children ==
    \A h \in fds : h[1] # 0 =>
        \/ proc[h[1]].state = "forked"
        \/ proc[h[1]].state \in {"running", "shell"} /\ h \in KeptEnds(h[1])

(* The list holds the children that were not waited for.                   *)
Listed ==
    /\ childList \in Seq(Positions)
    /\ \A i, j \in 1 .. Len(childList) : childList[i] = childList[j] => i = j
    /\ \A i \in Positions :
          proc[i].state \notin {"none", "reaped"} <=>
              \E j \in 1 .. Len(childList) : childList[j] = i
    /\ pc = "read" => childList = <<>>

ShellInv == ShellTypes /\ Loop /\ Previous /\ Opened /\ Children /\ Listed /\ PipesConnect

(* Odd and even numbers alternate.                                         *)
LEMMA Parity ==
    ASSUME NEW n \in Int
    PROVE  /\ n % 2 \in {0, 1}
           /\ n % 2 = 1 <=> (n + 1) % 2 = 0
           /\ n % 2 = 0 <=> (n + 1) % 2 = 1
  OBVIOUS

(* Commands are at the odd places of a line, operators at the even ones.   *)
LEMMA LineIs ==
    ASSUME GoodLine, NEW i \in 1 .. Len(line.exprs)
    PROVE  /\ Len(line.exprs) \in Nat /\ Len(line.exprs) % 2 = 1 /\ i \in Positions
           /\ i % 2 = 1 => line.exprs[i].type = "COMMAND" /\ line.exprs[i].type \notin Operators
           /\ i % 2 = 0 => line.exprs[i].type \in Operators /\ line.exprs[i].type # "COMMAND"
<1>1. Len(line.exprs) \in Nat /\ Len(line.exprs) <= Longest
  BY ShellAssumption DEF GoodLine, Positions
<1>2. i \in Positions
  BY <1>1, ShellAssumption DEF Positions
<1>3. i \in DOMAIN line.exprs
  BY DEF GoodLine
<1>4. IF i % 2 = 1 THEN line.exprs[i].type = "COMMAND" ELSE line.exprs[i].type \in Operators
  BY <1>3 DEF GoodLine, WellFormed
<1>5. Len(line.exprs) % 2 = 1
  BY DEF GoodLine, WellFormed
<1>6. "COMMAND" \notin Operators
  BY DEF Operators
<1>7. i % 2 = 1 => line.exprs[i].type = "COMMAND" /\ line.exprs[i].type \notin Operators
  BY <1>4, <1>6
<1>8. i % 2 = 0 => line.exprs[i].type \in Operators /\ line.exprs[i].type # "COMMAND"
  <2> SUFFICES ASSUME i % 2 = 0
               PROVE  line.exprs[i].type \in Operators /\ line.exprs[i].type # "COMMAND"
    OBVIOUS
  <2>1. i % 2 # 1
    OBVIOUS
  <2>. QED BY <2>1, <1>4, <1>6
<1>. QED BY <1>1, <1>2, <1>5, <1>7, <1>8
(* What a child does between its fork and its end.                         *)
ChildMoves(i, r) ==
    /\ i \in Positions /\ proc[i].state \in {"forked", "running", "shell"}
    /\ IsChild(i, r) /\ r.state \in {"running", "shell", "zombie"}
    /\ r.in = proc[i].in /\ r.out = proc[i].out
    /\ proc' = [j \in Positions |-> IF j = i THEN r ELSE proc[j]]
    /\ fds' \subseteq fds
    /\ \A h \in fds' : h[1] = i =>
          r.state \in {"running", "shell"} /\ h \in {<<i, r.in, "r">>, <<i, r.out, "w">>}
    /\ data' \in [Positions -> 0 .. Capacity] /\ script' \in Seq(Items)
    /\ UNCHANGED <<lineVars, pc>>

(* The end of an open pipe.                                                *)
LEMMA EndsAre ==
    ASSUME ShellTypes, NEW h \in fds
    PROVE  /\ h = <<h[1], h[2], h[3]>>
           /\ h[1] \in {0} \union Positions /\ h[2] \in Positions /\ h[3] \in {"r", "w"}
           /\ h[1] \in Int /\ h[2] \in Int /\ h[2] # -1
<1>1. h \in ({0} \union Positions) \X Positions \X {"r", "w"}
  BY DEF ShellTypes
<1>. QED BY <1>1, ShellAssumption DEF Positions

(* A child does not disturb the shell or the other children                *)
(* (solution.c:144-198).                                                   *)
LEMMA ChildKeeps ==
    ASSUME ShellInv, NEW i, NEW r, ChildMoves(i, r)
    PROVE  ShellInv'
<1>1. /\ UNCHANGED <<line, e, prev_fd, curr_fd, first, childList, failed, pc>>
      /\ ShellTypes /\ i \in Positions
  BY DEF ChildMoves, ShellInv, lineVars
<1>2. /\ proc' = [j \in Positions |-> proc'[j]] /\ proc'[i] = r
      /\ \A j \in Positions : j # i => proc'[j] = proc[j]
  BY <1>1 DEF ChildMoves
<1>3. ShellTypes'
  <2>1. \A j \in Positions : IsChild(j, proc'[j])
    BY <1>1, <1>2 DEF ChildMoves, ShellTypes
  <2>. QED BY <1>1, <1>2, <2>1 DEF ChildMoves, ShellTypes, GoodLine, IsChild
<1>4. /\ \A j \in Positions : proc'[j].state = "none" <=> proc[j].state = "none"
      /\ \A j \in Positions :
            proc'[j].state \in {"none", "reaped"} <=> proc[j].state \in {"none", "reaped"}
      /\ \A j \in Positions : proc'[j].in = proc[j].in /\ proc'[j].out = proc[j].out
  BY <1>1, <1>2 DEF ChildMoves
<1>5. Loop'
  BY <1>1, <1>4 DEF ShellInv, Loop, IsPipe
<1>6. Previous'
  BY <1>1 DEF ShellInv, Previous, Pure, Types
<1>7. Opened'
  BY <1>1 DEF ShellInv, Opened, ChildMoves
<1>8. Children'
  <2> SUFFICES ASSUME NEW h \in fds', h[1] # 0
               PROVE  \/ proc'[h[1]].state = "forked"
                      \/ proc'[h[1]].state \in {"running", "shell"} /\ h \in KeptEnds(h[1])'
    BY DEF Children
  <2>1. h \in fds /\ h[1] \in Positions
    BY EndsAre, <1>1 DEF ChildMoves
  <2>2. CASE h[1] = i
    BY <2>2, <1>2 DEF ChildMoves, KeptEnds
  <2>3. CASE h[1] # i
    <3>1. proc'[h[1]] = proc[h[1]]
      BY <2>1, <2>3, <1>2
    <3>2. \/ proc[h[1]].state = "forked"
          \/ proc[h[1]].state \in {"running", "shell"} /\ h \in KeptEnds(h[1])
      BY <2>1 DEF ShellInv, Children
    <3>. QED BY <3>1, <3>2 DEF KeptEnds
  <2>. QED BY <2>2, <2>3
<1>9. Listed'
  BY <1>1, <1>4 DEF ShellInv, Listed
<1>10. PipesConnect'
  BY <1>1, <1>4 DEF ShellInv, PipesConnect, Types, PipeAt
<1>. QED BY <1>3, <1>5, <1>6, <1>7, <1>8, <1>9, <1>10 DEF ShellInv

(* Another state of a child (the calls of solution.c:44-60 and 144-198).  *)
LEMMA StateRecord ==
    ASSUME NEW i, NEW r, IsChild(i, r), NEW state \in {"running", "shell", "reaped"}
    PROVE  /\ [r EXCEPT !.state = state]
                = [state |-> state, in |-> r.in, out |-> r.out, todo |-> r.todo, status |-> r.status]
           /\ IsChild(i, [state |-> state, in |-> r.in, out |-> r.out, todo |-> r.todo, status |-> r.status])
<1>1. PICK a, b, c, d, f : r = [state |-> a, in |-> b, out |-> c, todo |-> d, status |-> f]
  BY DEF IsChild
<1>2. r.state = a /\ r.in = b /\ r.out = c /\ r.todo = d /\ r.status = f
  BY <1>1
<1>3. /\ a \in {"none", "forked", "running", "shell", "zombie", "reaped"} /\ b \in Ends /\ c \in {-1, i}
  BY <1>2 DEF IsChild
<1>4. [r EXCEPT !.state = state]
        = [state |-> state, in |-> b, out |-> c, todo |-> d, status |-> f]
  BY <1>1
<1>5. IsChild(i, [state |-> state, in |-> b, out |-> c, todo |-> d, status |-> f])
  BY <1>3 DEF IsChild
<1>. QED BY <1>2, <1>4, <1>5

(* A program has written an item.                                         *)
LEMMA TodoRecord ==
    ASSUME NEW i, NEW r, IsChild(i, r), NEW todo
    PROVE  /\ [r EXCEPT !.todo = todo]
                = [state |-> r.state, in |-> r.in, out |-> r.out, todo |-> todo, status |-> r.status]
           /\ IsChild(i, [state |-> r.state, in |-> r.in, out |-> r.out, todo |-> todo, status |-> r.status])
<1>1. PICK a, b, c, d, f : r = [state |-> a, in |-> b, out |-> c, todo |-> d, status |-> f]
  BY DEF IsChild
<1>2. r.state = a /\ r.in = b /\ r.out = c /\ r.todo = d /\ r.status = f
  BY <1>1
<1>3. /\ a \in {"none", "forked", "running", "shell", "zombie", "reaped"} /\ b \in Ends /\ c \in {-1, i}
  BY <1>2 DEF IsChild
<1>4. [r EXCEPT !.todo = todo]
        = [state |-> a, in |-> b, out |-> c, todo |-> todo, status |-> f]
  BY <1>1
<1>5. IsChild(i, [state |-> a, in |-> b, out |-> c, todo |-> todo, status |-> f])
  BY <1>3 DEF IsChild
<1>. QED BY <1>2, <1>4, <1>5

(* A child has ended with a status.                                       *)
LEMMA EndRecord ==
    ASSUME NEW i, NEW r, IsChild(i, r), NEW status
    PROVE  /\ [r EXCEPT !.state = "zombie", !.status = status]
                = [state |-> "zombie", in |-> r.in, out |-> r.out, todo |-> r.todo, status |-> status]
           /\ IsChild(i, [state |-> "zombie", in |-> r.in, out |-> r.out, todo |-> r.todo, status |-> status])
<1>1. PICK a, b, c, d, f : r = [state |-> a, in |-> b, out |-> c, todo |-> d, status |-> f]
  BY DEF IsChild
<1>2. r.state = a /\ r.in = b /\ r.out = c /\ r.todo = d /\ r.status = f
  BY <1>1
<1>3. /\ a \in {"none", "forked", "running", "shell", "zombie", "reaped"} /\ b \in Ends /\ c \in {-1, i}
  BY <1>2 DEF IsChild
<1>4. [r EXCEPT !.state = "zombie"]
        = [state |-> "zombie", in |-> b, out |-> c, todo |-> d, status |-> f]
  BY <1>1
<1>5. [r EXCEPT !.state = "zombie", !.status = status]
        = [state |-> "zombie", in |-> b, out |-> c, todo |-> d, status |-> status]
  <2>1. PICK q : q = [state |-> "zombie", in |-> b, out |-> c, todo |-> d, status |-> f]
    OBVIOUS
  <2>2. [q EXCEPT !.status = status]
          = [state |-> "zombie", in |-> b, out |-> c, todo |-> d, status |-> status]
    BY <2>1
  <2>. QED BY <2>1, <2>2, <1>4
<1>6. IsChild(i, [state |-> "zombie", in |-> b, out |-> c, todo |-> d, status |-> status])
  BY <1>3 DEF IsChild
<1>. QED BY <1>2, <1>5, <1>6

(* A child ends, and its descriptors are closed (solution.c:188-198).      *)
LEMMA DiesKeeps ==
    ASSUME ShellInv, NEW i \in Positions, proc[i].state \in {"forked", "running", "shell"},
           NEW status, Dies(i, status), UNCHANGED <<lineVars, script, data, pc>>
    PROVE  ShellInv'
<1> DEFINE r == [state |-> "zombie", in |-> proc[i].in, out |-> proc[i].out,
                 todo |-> proc[i].todo, status |-> status]
<1>1. IsChild(i, proc[i]) /\ proc = [j \in Positions |-> proc[j]]
  BY DEF ShellInv, ShellTypes
<1>2. [proc[i] EXCEPT !.state = "zombie", !.status = status] = r /\ IsChild(i, r)
  BY <1>1, EndRecord
<1>3. proc' = [j \in Positions |-> IF j = i THEN r ELSE proc[j]]
  <2>1. proc' = [proc EXCEPT ![i] = [proc[i] EXCEPT !.state = "zombie", !.status = status]]
    BY <1>1 DEF Dies
  <2>2. proc' = [proc EXCEPT ![i] = r]
    BY <2>1, <1>2
  <2> HIDE DEF r
  <2>. QED BY <2>2, <1>1
<1>4. fds' = {h \in fds : h[1] # i}
  BY DEF Dies
<1>5. r.state = "zombie" /\ r.in = proc[i].in /\ r.out = proc[i].out
  OBVIOUS
<1> HIDE DEF r
<1>6. data' \in [Positions -> 0 .. Capacity] /\ script' \in Seq(Items)
  BY DEF ShellInv, ShellTypes
<1>7. ChildMoves(i, r)
  BY <1>2, <1>3, <1>4, <1>5, <1>6 DEF ChildMoves
<1>. QED BY <1>7, ChildKeeps

(* A child arranges its descriptors and executes its program (lines        *)
(* 144-198), or fails to open the file of a redirection (lines 163-177).   *)
LEMMA StartsKeeps ==
    ASSUME ShellInv, NEW i \in Positions, ChildStarts(i) \/ RedirectFails(i)
    PROVE  ShellInv'
<1>1. proc[i].state = "forked" /\ UNCHANGED <<lineVars, script, data, pc>>
  BY DEF ChildStarts, RedirectFails, mainVars
<1>2. CASE \E status : Dies(i, status)
  BY <1>1, <1>2, DiesKeeps
<1>3. ASSUME NEW state \in {"running", "shell"},
             proc' = [proc EXCEPT ![i].state = state],
             fds' = {h \in fds : h[1] # i \/ h \in KeptEnds(i)}
      PROVE  ShellInv'
  <2> DEFINE r == [state |-> state, in |-> proc[i].in, out |-> proc[i].out,
                   todo |-> proc[i].todo, status |-> proc[i].status]
  <2>1. IsChild(i, proc[i]) /\ proc = [j \in Positions |-> proc[j]]
    BY DEF ShellInv, ShellTypes
  <2>2. [proc[i] EXCEPT !.state = state] = r /\ IsChild(i, r)
    BY <2>1, StateRecord
  <2>3. proc' = [j \in Positions |-> IF j = i THEN r ELSE proc[j]]
    <3>1. proc' = [proc EXCEPT ![i] = [proc[i] EXCEPT !.state = state]]
      BY <1>3, <2>1
    <3>2. proc' = [proc EXCEPT ![i] = r]
      BY <3>1, <2>2
    <3> HIDE DEF r
    <3>. QED BY <3>2, <2>1
  <2>5. r.state = state /\ r.in = proc[i].in /\ r.out = proc[i].out
    OBVIOUS
  <2> HIDE DEF r
  <2>6. data' \in [Positions -> 0 .. Capacity] /\ script' \in Seq(Items)
    BY <1>1 DEF ShellInv, ShellTypes
  <2>7. ChildMoves(i, r)
    BY <1>1, <1>3, <2>2, <2>3, <2>5, <2>6 DEF ChildMoves, KeptEnds
  <2>. QED BY <2>7, ChildKeeps
<1>. QED BY <1>2, <1>3 DEF ChildStarts, RedirectFails, ChildLeaves

(* A program writes an item, or is killed for it.                          *)
LEMMA WritesKeeps ==
    ASSUME ShellInv, NEW i \in Positions, ProgramWrites(i)
    PROVE  ShellInv'
<1>1. proc[i].state = "running" /\ UNCHANGED <<lineVars, script, pc>> /\ script' \in Seq(Items)
  BY DEF ProgramWrites, mainVars, ShellInv, ShellTypes
<1>2. CASE Dies(i, Signaled) /\ UNCHANGED data
  BY <1>1, <1>2, DiesKeeps
<1>3. CASE /\ proc[i].out = -1 \/ (Holds(proc[i].out, "r") /\ data[proc[i].out] < Capacity)
           /\ proc' = [proc EXCEPT ![i].todo = @ - 1]
           /\ data' = [p \in Positions |-> IF p = proc[i].out THEN data[p] + 1 ELSE data[p]]
           /\ UNCHANGED fds
  <2> DEFINE r == [state |-> proc[i].state, in |-> proc[i].in, out |-> proc[i].out,
                   todo |-> proc[i].todo - 1, status |-> proc[i].status]
  <2>1. IsChild(i, proc[i]) /\ proc = [j \in Positions |-> proc[j]]
    BY DEF ShellInv, ShellTypes
  <2>2. [proc[i] EXCEPT !.todo = proc[i].todo - 1] = r /\ IsChild(i, r)
    BY <2>1, TodoRecord
  <2>3. proc' = [j \in Positions |-> IF j = i THEN r ELSE proc[j]]
    <3>1. proc' = [proc EXCEPT ![i] = [proc[i] EXCEPT !.todo = proc[i].todo - 1]]
      BY <1>3, <2>1
    <3>2. proc' = [proc EXCEPT ![i] = r]
      BY <3>1, <2>2
    <3> HIDE DEF r
    <3>. QED BY <3>2, <2>1
  <2>4. r.state = "running" /\ r.in = proc[i].in /\ r.out = proc[i].out
    BY <1>1
  <2> HIDE DEF r
  <2>5. data' \in [Positions -> 0 .. Capacity]
    <3>1. ASSUME NEW p \in Positions PROVE data'[p] \in 0 .. Capacity
      <4>1. data[p] \in 0 .. Capacity /\ p # -1 /\ data'[p] = IF p = proc[i].out THEN data[p] + 1 ELSE data[p]
        BY <1>3 DEF ShellInv, ShellTypes, Positions
      <4>2. p = proc[i].out => data[p] < Capacity
        BY <4>1, <1>3
      <4>. QED BY <4>1, <4>2, ShellAssumption
    <3>. QED BY <3>1, <1>3
  <2>6. \A h \in fds' : h[1] = i => h \in KeptEnds(i)
    <3> SUFFICES ASSUME NEW h \in fds, h[1] = i PROVE h \in KeptEnds(i)
      BY <1>3
    <3>1. h[1] # 0
      BY DEF Positions
    <3>. QED BY <3>1, <1>1 DEF ShellInv, Children
  <2>7. ChildMoves(i, r)
    BY <1>1, <1>3, <2>2, <2>3, <2>4, <2>5, <2>6 DEF ChildMoves, KeptEnds
  <2>. QED BY <2>7, ChildKeeps
<1>. QED BY <1>2, <1>3 DEF ProgramWrites

(* A program reads an item.                                                *)
LEMMA ReadsKeeps ==
    ASSUME ShellInv, NEW i \in Positions, ProgramReads(i)
    PROVE  ShellInv'
<1>1. /\ proc[i].state = "running" /\ proc[i].in # -1 /\ data[proc[i].in] > 0
      /\ data' = [data EXCEPT ![proc[i].in] = @ - 1]
      /\ UNCHANGED <<lineVars, proc, fds, pc>> /\ script' \in Seq(Items)
  BY DEF ProgramReads, mainVars, ShellInv, ShellTypes
<1>2. IsChild(i, proc[i]) /\ proc = [j \in Positions |-> proc[j]]
  BY DEF ShellInv, ShellTypes
<1>3. data' \in [Positions -> 0 .. Capacity]
  <2>1. data \in [Positions -> 0 .. Capacity] /\ proc[i].in \in Positions
    BY <1>1, <1>2 DEF ShellInv, ShellTypes, IsChild, Ends
  <2>2. data[proc[i].in] - 1 \in 0 .. Capacity
    BY <2>1, <1>1, ShellAssumption
  <2>. QED BY <2>1, <2>2, <1>1
<1>4. proc' = [j \in Positions |-> IF j = i THEN proc[i] ELSE proc[j]]
  BY <1>1, <1>2
<1>5. \A h \in fds' : h[1] = i => h \in KeptEnds(i)
  <2> SUFFICES ASSUME NEW h \in fds, h[1] = i PROVE h \in KeptEnds(i)
    BY <1>1
  <2>1. h[1] # 0
    BY DEF Positions
  <2>. QED BY <2>1, <1>1 DEF ShellInv, Children
<1>6. ChildMoves(i, proc[i])
  BY <1>1, <1>2, <1>3, <1>4, <1>5 DEF ChildMoves, KeptEnds
<1>. QED BY <1>6, ChildKeeps

(* A program ends.                                                         *)
LEMMA EndsKeeps ==
    ASSUME ShellInv, NEW i \in Positions, ProgramEnds(i) \/ ProgramStops(i)
    PROVE  ShellInv'
BY DiesKeeps DEF ProgramEnds, ProgramStops, mainVars

(* A second shell reads a line, writes or ends (lines 237-272).            *)
LEMMA SecondKeeps ==
    ASSUME ShellInv, NEW i \in Positions, SecondShell(i)
    PROVE  ShellInv'
<1>1. proc[i].state = "shell" /\ UNCHANGED <<lineVars, pc>>
  BY DEF SecondShell
<1>2. /\ IsChild(i, proc[i]) /\ proc = [j \in Positions |-> proc[j]] /\ script \in Seq(Items)
      /\ data \in [Positions -> 0 .. Capacity]
  BY DEF ShellInv, ShellTypes
<1>3. ASSUME NEW k \in 1 .. Len(script) PROVE RemoveAt(script, k) \in Seq(Items)
  <2>1. SubSeq(script, 1, k - 1) \in Seq(Items) /\ SubSeq(script, k + 1, Len(script)) \in Seq(Items)
    BY <1>2
  <2>. QED BY <2>1 DEF RemoveAt
<1>4. \A h \in fds : h[1] = i => h \in KeptEnds(i)
  <2> SUFFICES ASSUME NEW h \in fds, h[1] = i PROVE h \in KeptEnds(i)
    OBVIOUS
  <2>1. h[1] # 0
    BY DEF Positions
  <2>. QED BY <2>1, <1>1 DEF ShellInv, Children
<1>5. ASSUME UNCHANGED <<proc, fds>>, script' \in Seq(Items), data' \in [Positions -> 0 .. Capacity]
      PROVE  ShellInv'
  <2>1. proc' = [j \in Positions |-> IF j = i THEN proc[i] ELSE proc[j]]
    BY <1>2, <1>5
  <2>2. ChildMoves(i, proc[i])
    BY <1>1, <1>2, <1>4, <1>5, <2>1 DEF ChildMoves, KeptEnds
  <2>. QED BY <2>2, ChildKeeps
<1>6. CASE /\ proc[i].in # -1 /\ data[proc[i].in] > 0
           /\ data' = [data EXCEPT ![proc[i].in] = @ - 1]
           /\ UNCHANGED <<script, proc, fds>>
  <2>1. proc[i].in \in Positions
    BY <1>2, <1>6 DEF IsChild, Ends
  <2>2. data[proc[i].in] - 1 \in 0 .. Capacity
    BY <2>1, <1>2, <1>6, ShellAssumption
  <2>. QED BY <2>1, <2>2, <1>2, <1>5, <1>6
<1>7. CASE (\E k \in 1 .. Len(script) : script' = RemoveAt(script, k)) /\ UNCHANGED <<proc, fds, data>>
  BY <1>2, <1>3, <1>5, <1>7
<1>8. CASE /\ proc[i].out # -1 /\ data[proc[i].out] < Capacity
           /\ data' = [data EXCEPT ![proc[i].out] = @ + 1]
           /\ UNCHANGED <<script, proc, fds>>
  <2>1. proc[i].out \in Positions
    BY <1>2, <1>8 DEF IsChild
  <2>2. data[proc[i].out] + 1 \in 0 .. Capacity
    BY <2>1, <1>2, <1>8, ShellAssumption
  <2>. QED BY <2>1, <2>2, <1>2, <1>5, <1>8
<1>9. CASE (\E s \in Statuses \cup {Signaled} : Dies(i, s)) /\ UNCHANGED <<script, data>>
  BY <1>1, <1>9, DiesKeeps
<1>. QED BY <1>6, <1>7, <1>8, <1>9 DEF SecondShell

(* What does not change keeps what is said of it.                          *)
LEMMA SameChildren ==
    ASSUME ShellInv, UNCHANGED <<line, childList, proc>>
    PROVE  /\ PipesConnect'
           /\ pc' # "read" \/ pc = "read" => Listed'
           /\ UNCHANGED fds => Children'
           /\ \A i \in Positions : IsChild(i, proc[i])'
           /\ Pure' = Pure
<1>1. PipesConnect'
  BY DEF ShellInv, PipesConnect, Types, PipeAt
<1>2. pc' # "read" \/ pc = "read" => Listed'
  BY DEF ShellInv, Listed
<1>3. UNCHANGED fds => Children'
  BY DEF ShellInv, Children, KeptEnds
<1>4. \A i \in Positions : IsChild(i, proc[i])'
  BY DEF ShellInv, ShellTypes, IsChild
<1>5. Pure' = Pure
  BY DEF Pure, Types
<1>. QED BY <1>1, <1>2, <1>3, <1>4, <1>5

(* The next line of the input (lines 237-254).                             *)
LEMMA NextLineKeeps == ShellInv /\ NextLine => ShellInv'
<1> SUFFICES ASSUME ShellInv, NextLine PROVE ShellInv'
  OBVIOUS
<1>1. /\ pc = "read" /\ script # <<>> /\ script' = Tail(script)
      /\ script \in Seq(Items)
  BY DEF NextLine, ShellInv, ShellTypes
<1>2. script' \in Seq(Items) /\ Head(script) \in Items
  BY <1>1, HeadTailProperties
<1>3. CASE /\ pc' = "crashed"
           /\ UNCHANGED <<lineVars, childVars>>
  <2>1. UNCHANGED <<line, e, prev_fd, curr_fd, first, childList, failed, proc, fds, data>>
    BY <1>3 DEF lineVars, childVars
  <2>2. ShellTypes'
    BY <2>1, <1>2, <1>3 DEF ShellInv, ShellTypes, IsChild
  <2>3. Loop' /\ Previous'
    BY <1>3 DEF Loop, Previous
  <2>4. Opened'
    BY <2>1, <1>1 DEF ShellInv, Opened
  <2>5. Children' /\ Listed' /\ PipesConnect'
    BY <2>1, <1>3, SameChildren
  <2>. QED BY <2>2, <2>3, <2>4, <2>5 DEF ShellInv
<1>4. CASE /\ Head(script) # BadLine
           /\ pc' = "exec"
           /\ line' = Head(script) /\ e' = 1 /\ first' = TRUE
           /\ prev_fd' = -1 /\ curr_fd' = -1 /\ childList' = <<>> /\ failed' = FALSE
           /\ proc' = [i \in Positions |-> NoProcess]
           /\ fds' = {} /\ data' = [i \in Positions |-> 0]
  <2>1. GoodLine'
    BY <1>2, <1>4, ShellAssumption DEF GoodLine
  <2>2. Len(line'.exprs) \in Nat /\ Len(line'.exprs) >= 1
    BY <2>1, ShellAssumption DEF GoodLine, Positions
  <2>3. \A i \in Positions : IsChild(i, NoProcess) /\ NoProcess.state = "none"
    BY DEF IsChild, NoProcess, Ends
  <2>4. ShellTypes'
    <3>1. 0 \in 0 .. Capacity
      BY ShellAssumption
    <3>2. \A i \in Positions : IsChild(i, proc[i])'
      BY <1>4, <2>3 DEF IsChild
    <3>. QED BY <1>2, <1>4, <2>1, <2>2, <3>1, <3>2 DEF ShellTypes, Ends
  <2>5. Loop'
    <3>1. 1 % 2 = 1
      OBVIOUS
    <3>. QED BY <1>4, <2>2, <2>3, <3>1 DEF Loop
  <2>6. Previous' /\ Opened' /\ Children'
    BY <1>4 DEF Previous, Opened, Children
  <2>7. Listed'
    <3>1. childList' \in Seq(Positions) /\ Len(childList') = 0
      BY <1>4
    <3>. QED BY <3>1, <1>4, <2>3 DEF Listed
  <2>8. PipesConnect'
    BY <1>4, <2>3 DEF PipesConnect
  <2>. QED BY <2>4, <2>5, <2>6, <2>7, <2>8 DEF ShellInv
<1>. QED BY <1>3, <1>4 DEF NextLine

(* What the loop over the line knows (lines 113-221).                      *)
LEMMA ExecIs ==
    ASSUME ShellInv, pc = "exec"
    PROVE  /\ GoodLine /\ Len(line.exprs) \in Nat /\ Len(line.exprs) % 2 = 1
           /\ e \in 1 .. Len(line.exprs) + 1 /\ e \in Int
           /\ e <= Len(line.exprs) =>
                 /\ e \in Positions /\ e \in 1 .. Len(line.exprs)
                 /\ e % 2 = 1 => Expr.type = "COMMAND" /\ Expr.type \notin Operators
                 /\ e % 2 = 0 => Expr.type \in Operators /\ Expr.type # "COMMAND"
<1>1. GoodLine /\ Len(line.exprs) \in Nat /\ e \in 1 .. Len(line.exprs) + 1
  BY DEF ShellInv, ShellTypes, Loop
<1>2. Len(line.exprs) % 2 = 1
  BY <1>1 DEF GoodLine, WellFormed
<1>3. e <= Len(line.exprs) => e \in 1 .. Len(line.exprs)
  BY <1>1
<1>4. e <= Len(line.exprs) =>
        /\ e \in Positions
        /\ e % 2 = 1 => line.exprs[e].type = "COMMAND" /\ line.exprs[e].type \notin Operators
        /\ e % 2 = 0 => line.exprs[e].type \in Operators /\ line.exprs[e].type # "COMMAND"
  BY <1>1, <1>3, LineIs
<1>5. Expr = line.exprs[e] /\ e \in Int
  BY <1>1 DEF Expr
<1>6. e <= Len(line.exprs) =>
        /\ e % 2 = 1 => Expr.type = "COMMAND" /\ Expr.type \notin Operators
        /\ e % 2 = 0 => Expr.type \in Operators /\ Expr.type # "COMMAND"
  <2>1. ASSUME e <= Len(line.exprs), e % 2 = 1
        PROVE  Expr.type = "COMMAND" /\ Expr.type \notin Operators
    BY <1>4, <1>5, <2>1
  <2>2. ASSUME e <= Len(line.exprs), e % 2 = 0
        PROVE  Expr.type \in Operators /\ Expr.type # "COMMAND"
    BY <1>4, <1>5, <2>2
  <2>. QED BY <2>1, <2>2
<1>. QED BY <1>1, <1>2, <1>3, <1>4, <1>5, <1>6

(* The shell makes a pipe (lines 118-119).                                 *)
LEMMA MakePipeKeeps == ShellInv /\ MakePipe => ShellInv'
<1> SUFFICES ASSUME ShellInv, MakePipe PROVE ShellInv'
  OBVIOUS
<1>1. /\ pc = "exec" /\ e <= Len(line.exprs) /\ NeedsPipe
      /\ curr_fd' = e /\ fds' = fds \cup {<<0, e, "r">>, <<0, e, "w">>}
      /\ UNCHANGED <<line, e, prev_fd, first, childList, failed, script, proc, data, pc>>
  BY DEF MakePipe, mainVars
<1>2. /\ e < Len(line.exprs) /\ IsPipe(e + 1) /\ e \in Positions /\ e \in 1 .. Len(line.exprs)
      /\ Len(line.exprs) \in Nat /\ e \in Int
  BY <1>1, ExecIs DEF NeedsPipe, HasPipe, IsPipe
<1>3. e % 2 = 1
  <2>1. e + 1 \in 1 .. Len(line.exprs) /\ GoodLine
    BY <1>1, <1>2, ExecIs
  <2>2. line.exprs[e + 1].type # "COMMAND"
    BY <1>2 DEF IsPipe
  <2>3. (e + 1) % 2 # 1
    BY <2>1, <2>2, LineIs
  <2>. QED BY <2>3, <1>2, Parity
<1>4. ShellTypes'
  <2>1. fds' \subseteq ({0} \union Positions) \X Positions \X {"r", "w"}
    BY <1>1, <1>2 DEF ShellInv, ShellTypes
  <2>2. \A i \in Positions : IsChild(i, proc[i])'
    BY <1>1 DEF ShellInv, ShellTypes, IsChild
  <2>. QED BY <1>1, <1>2, <2>1, <2>2 DEF ShellInv, ShellTypes, GoodLine, Ends
<1>5. Loop'
  <2>1. e % 2 # 0 /\ e # Len(line.exprs) + 1
    BY <1>2, <1>3
  <2>. QED BY <1>1, <1>2, <1>3, <2>1 DEF ShellInv, Loop, IsPipe
<1>6. Listed' /\ PipesConnect' /\ Pure' = Pure
  BY <1>1, SameChildren
<1>9. Previous'
  BY <1>1, <1>6 DEF ShellInv, Previous
<1>7. Opened'
  <2> SUFFICES ASSUME ~failed, NEW h \in fds', h[1] = 0 PROVE h[2] \in {prev_fd, e}
    BY <1>1 DEF Opened
  <2>1. CASE h \in fds
    <3>1. h[2] \in {prev_fd, curr_fd} /\ h[2] # -1
      BY <2>1, EndsAre DEF ShellInv, Opened
    <3>2. curr_fd = -1 \/ curr_fd = e
      BY <1>1, <1>3 DEF ShellInv, Loop
    <3>. QED BY <3>1, <3>2
  <2>2. CASE h \in {<<0, e, "r">>, <<0, e, "w">>}
    BY <2>2
  <2>. QED BY <2>1, <2>2, <1>1
<1>8. Children'
  <2> SUFFICES ASSUME NEW h \in fds', h[1] # 0
               PROVE  \/ proc[h[1]].state = "forked"
                      \/ proc[h[1]].state \in {"running", "shell"} /\ h \in KeptEnds(h[1])
    BY <1>1 DEF Children, KeptEnds
  <2>1. h \in fds
    BY <1>1
  <2>. QED BY <2>1 DEF ShellInv, Children
<1>. QED BY <1>4, <1>5, <1>6, <1>7, <1>8, <1>9 DEF ShellInv

(* The shell waits, with no end of a pipe left open unless a call failed.  *)
LEMMA WaitsKeeps ==
    ASSUME ShellInv, pc = "exec", pc' = "wait",
           UNCHANGED <<line, e, prev_fd, curr_fd, childList, script, proc, data>>,
           fds' \subseteq fds, failed' \/ \A h \in fds' : h[1] # 0
    PROVE  ShellInv'
<1>1. ShellTypes'
  <2>1. \A i \in Positions : IsChild(i, proc[i])'
    BY DEF ShellInv, ShellTypes, IsChild
  <2>. QED BY <2>1 DEF ShellInv, ShellTypes, GoodLine
<1>2. Loop' /\ Previous' /\ Opened'
  BY DEF Loop, Previous, Opened
<1>3. Children'
  BY DEF ShellInv, Children, KeptEnds
<1>4. Listed' /\ PipesConnect'
  BY SameChildren
<1>. QED BY <1>1, <1>2, <1>3, <1>4 DEF ShellInv

(* A pipe or a child could not be made (lines 119-122 and 140-143).        *)
LEMMA FailsKeeps == ShellInv /\ Fails => ShellInv'
BY WaitsKeeps DEF Fails, PipeFails, ForkFails, ForceExit, childVars

(* An exit that is alone in its line (lines 133-137).                      *)
LEMMA ExitAloneKeeps == ShellInv /\ ExitAlone => ShellInv'
<1> SUFFICES ASSUME ShellInv, ExitAlone PROVE ShellInv'
  OBVIOUS
<1>1. /\ pc = "exec" /\ pc' = "wait" /\ first /\ e = Len(line.exprs)
      /\ UNCHANGED <<lineVars, script, childVars>>
  BY DEF ExitAlone, ForceExit, handle_exit
<1>2. e = 1 /\ e <= Len(line.exprs) /\ e % 2 = 1
  <2>1. e = 1
    BY <1>1 DEF ShellInv, Loop
  <2>. QED BY <2>1, <1>1
<1>3. prev_fd = -1 /\ curr_fd = -1
  BY <1>1, <1>2 DEF ShellInv, Loop
<1>4. failed' \/ \A h \in fds' : h[1] # 0
  <2> SUFFICES ASSUME ~failed, NEW h \in fds, h[1] = 0 PROVE FALSE
    BY <1>1 DEF lineVars, childVars
  <2>1. h[2] \in {prev_fd, curr_fd} /\ h[2] # -1
    BY EndsAre DEF ShellInv, Opened
  <2>. QED BY <2>1, <1>3
<1>. QED BY <1>1, <1>4, WaitsKeeps DEF lineVars, childVars

(* The whole line is started (lines 222-224).                              *)
LEMMA LineStartedKeeps == ShellInv /\ LineStarted => ShellInv'
<1> SUFFICES ASSUME ShellInv, LineStarted PROVE ShellInv'
  OBVIOUS
<1>1. /\ pc = "exec" /\ pc' = "wait" /\ e = Len(line.exprs) + 1
      /\ fds' = ClosePrevious(prev_fd)
      /\ UNCHANGED <<lineVars, script, proc, data>>
  BY DEF LineStarted
<1>2. curr_fd = -1
  BY <1>1 DEF ShellInv, Loop
<1>3. failed' \/ \A h \in fds' : h[1] # 0
  <2> SUFFICES ASSUME ~failed, NEW h \in fds', h[1] = 0 PROVE FALSE
    BY <1>1 DEF lineVars
  <2>1. h \in fds /\ h # <<0, prev_fd, "r">> /\ h # <<0, prev_fd, "w">>
    BY <1>1 DEF ClosePrevious
  <2>2. h[2] \in {prev_fd, curr_fd} /\ h[2] # -1 /\ h = <<h[1], h[2], h[3]>> /\ h[3] \in {"r", "w"}
    BY <2>1, EndsAre DEF ShellInv, Opened
  <2>. QED BY <2>1, <2>2, <1>2
<1>4. fds' \subseteq fds
  BY <1>1 DEF ClosePrevious
<1>. QED BY <1>1, <1>3, <1>4, WaitsKeeps DEF lineVars

(* No more input (lines 237 and 257-272).                                  *)
LEMMA ExitKeeps == ShellInv /\ Exit => ShellInv'
<1> SUFFICES ASSUME ShellInv, Exit PROVE ShellInv'
  OBVIOUS
<1>1. /\ pc = "read" /\ pc' = "exited" /\ script' = script
      /\ UNCHANGED <<line, e, prev_fd, curr_fd, childList, failed, proc, fds, data>>
  BY DEF Exit, lineVars, mainVars, childVars
<1>2. ShellTypes'
  <2>1. \A i \in Positions : IsChild(i, proc[i])'
    BY <1>1, SameChildren
  <2>. QED BY <1>1, <2>1 DEF ShellInv, ShellTypes
<1>3. Loop' /\ Previous'
  BY <1>1 DEF Loop, Previous
<1>4. Opened'
  BY <1>1 DEF ShellInv, Opened
<1>5. Children' /\ Listed' /\ PipesConnect'
  BY <1>1, SameChildren
<1>. QED BY <1>2, <1>3, <1>4, <1>5 DEF ShellInv

(* Back in the main loop (lines 87-97 and 249-259).                        *)
LEMMA LineDoneKeeps == ShellInv /\ LineDone => ShellInv'
<1> SUFFICES ASSUME ShellInv, LineDone PROVE ShellInv'
  OBVIOUS
<1>1. /\ pc = "wait" /\ pc' = "read" /\ childList = <<>> /\ script' \in {script, <<>>}
      /\ UNCHANGED <<line, e, prev_fd, curr_fd, childList, failed, proc, fds, data>>
  BY DEF LineDone, lineVars, childVars
<1>2. ShellTypes'
  <2>1. \A i \in Positions : IsChild(i, proc[i])'
    BY <1>1, SameChildren
  <2>2. script' \in Seq(Items)
    <3>1. script \in Seq(Items) /\ <<>> \in Seq(Items)
      BY EmptySeq DEF ShellInv, ShellTypes
    <3>. QED BY <1>1, <3>1
  <2>. QED BY <1>1, <2>1, <2>2 DEF ShellInv, ShellTypes
<1>3. Loop' /\ Previous'
  BY <1>1 DEF Loop, Previous
<1>4. Opened'
  BY <1>1 DEF ShellInv, Opened
<1>5. Children' /\ PipesConnect'
  BY <1>1, SameChildren
<1>6. Listed'
  BY <1>1 DEF ShellInv, Listed
<1>. QED BY <1>2, <1>3, <1>4, <1>5, <1>6 DEF ShellInv

(* The shell has waited for the newest child (lines 44-60).                *)
LEMMA WaitChildKeeps == ShellInv /\ WaitChild => ShellInv'
<1> SUFFICES ASSUME ShellInv, WaitChild PROVE ShellInv'
  OBVIOUS
<1> DEFINE i == Head(childList)
           r == [state |-> "reaped", in |-> proc[i].in, out |-> proc[i].out,
                 todo |-> proc[i].todo, status |-> proc[i].status]
<1>1. /\ pc = "wait" /\ childList # <<>> /\ proc[i].state = "zombie"
      /\ proc' = [proc EXCEPT ![i].state = "reaped"] /\ childList' = Tail(childList)
      /\ UNCHANGED <<line, e, prev_fd, curr_fd, first, failed, script, fds, data, pc>>
  BY DEF WaitChild
<1>2. /\ childList \in Seq(Positions) /\ proc = [j \in Positions |-> proc[j]]
      /\ \A j \in Positions : IsChild(j, proc[j])
  BY DEF ShellInv, Listed, ShellTypes
<1>3. /\ i \in Positions /\ i = childList[1] /\ childList' \in Seq(Positions)
      /\ Len(childList) \in Nat /\ Len(childList) >= 1 /\ Len(childList') = Len(childList) - 1
      /\ \A j \in 1 .. Len(childList') : childList'[j] = childList[j + 1]
  BY <1>1, <1>2, HeadTailProperties, EmptySeq, LenProperties
<1> HIDE DEF i
<1>4. [proc[i] EXCEPT !.state = "reaped"] = r /\ IsChild(i, r)
  BY <1>2, <1>3, StateRecord
<1>5. proc' = [j \in Positions |-> IF j = i THEN r ELSE proc[j]]
  <2>1. proc' = [proc EXCEPT ![i] = [proc[i] EXCEPT !.state = "reaped"]]
    BY <1>1, <1>2, <1>3
  <2>2. proc' = [proc EXCEPT ![i] = r]
    BY <2>1, <1>4
  <2> HIDE DEF r
  <2>. QED BY <2>2, <1>2
<1>6. r.state = "reaped" /\ r.in = proc[i].in /\ r.out = proc[i].out
  OBVIOUS
<1> HIDE DEF r
<1>7. /\ \A j \in Positions : proc'[j].in = proc[j].in /\ proc'[j].out = proc[j].out
      /\ \A j \in Positions : j # i => proc'[j] = proc[j]
      /\ \A j \in Positions : proc'[j].state = "none" <=> proc[j].state = "none"
      /\ proc'[i] = r
  BY <1>1, <1>3, <1>5, <1>6
<1>8. ShellTypes'
  <2>1. \A j \in Positions : IsChild(j, proc'[j])
    BY <1>2, <1>4, <1>7
  <2>2. proc' = [j \in Positions |-> proc'[j]]
    BY <1>5
  <2>. QED BY <1>1, <2>1, <2>2 DEF ShellInv, ShellTypes, GoodLine, IsChild
<1>9. Loop' /\ Previous'
  BY <1>1 DEF Loop, Previous
<1>10. Opened'
  BY <1>1 DEF ShellInv, Opened
<1>11. Children'
  <2> SUFFICES ASSUME NEW h \in fds, h[1] # 0
               PROVE  \/ proc'[h[1]].state = "forked"
                      \/ proc'[h[1]].state \in {"running", "shell"} /\ h \in KeptEnds(h[1])'
    BY <1>1 DEF Children
  <2>1. h[1] \in Positions
    BY EndsAre DEF ShellInv
  <2>2. \/ proc[h[1]].state = "forked"
        \/ proc[h[1]].state \in {"running", "shell"} /\ h \in KeptEnds(h[1])
    BY DEF ShellInv, Children
  <2>3. h[1] # i
    BY <2>2, <1>1
  <2>4. proc'[h[1]] = proc[h[1]]
    BY <2>1, <2>3, <1>7
  <2>. QED BY <2>2, <2>4 DEF KeptEnds
<1>12. Listed'
  <2> DEFINE c == childList
             n == Len(childList)
  <2>1. \A a, b \in 1 .. n : c[a] = c[b] => a = b
    BY DEF ShellInv, Listed
  <2>2. \A j \in Positions : proc[j].state \notin {"none", "reaped"} <=> \E k \in 1 .. n : c[k] = j
    BY DEF ShellInv, Listed
  <2>3. n \in Nat /\ n >= 1 /\ i = c[1] /\ Len(childList') = n - 1
        /\ \A j \in 1 .. n - 1 : childList'[j] = c[j + 1]
    BY <1>3
  <2> HIDE DEF c, n
  <2>4. \A a, b \in 1 .. n - 1 : childList'[a] = childList'[b] => a = b
    <3> SUFFICES ASSUME NEW a \in 1 .. n - 1, NEW b \in 1 .. n - 1, childList'[a] = childList'[b]
                 PROVE  a = b
      OBVIOUS
    <3>1. c[a + 1] = c[b + 1] /\ a + 1 \in 1 .. n /\ b + 1 \in 1 .. n
      BY <2>3
    <3>2. a + 1 = b + 1
      BY <3>1, <2>1
    <3>. QED BY <3>2
  <2>5. ASSUME NEW j \in Positions
        PROVE  proc'[j].state \notin {"none", "reaped"} <=> \E k \in 1 .. n - 1 : childList'[k] = j
    <3>1. CASE j = i
      <4>1. proc'[j].state = "reaped"
        BY <3>1, <1>6, <1>7
      <4>2. ASSUME NEW k \in 1 .. n - 1, childList'[k] = j PROVE FALSE
        <5>1. c[k + 1] = c[1] /\ k + 1 \in 1 .. n /\ 1 \in 1 .. n
          BY <2>3, <3>1, <4>2
        <5>2. k + 1 = 1
          BY <5>1, <2>1
        <5>. QED BY <5>2
      <4>. QED BY <4>1, <4>2
    <3>2. CASE j # i
      <4>1. proc'[j] = proc[j]
        BY <3>2, <1>7
      <4>2. ASSUME NEW k \in 1 .. n, c[k] = j PROVE \E m \in 1 .. n - 1 : childList'[m] = j
        <5>1. k # 1
          BY <4>2, <3>2, <2>3
        <5>2. k - 1 \in 1 .. n - 1 /\ (k - 1) + 1 = k
          BY <5>1, <2>3
        <5>3. childList'[k - 1] = c[k]
          BY <5>2, <2>3
        <5>. QED BY <5>2, <5>3, <4>2
      <4>3. ASSUME NEW m \in 1 .. n - 1, childList'[m] = j PROVE \E k \in 1 .. n : c[k] = j
        <5>1. m + 1 \in 1 .. n /\ c[m + 1] = j
          BY <2>3, <4>3
        <5>. QED BY <5>1
      <4>. QED BY <4>1, <4>2, <4>3, <2>2
    <3>. QED BY <3>1, <3>2
  <2>. QED BY <1>1, <1>3, <2>3, <2>4, <2>5 DEF Listed
<1>13. PipesConnect'
  <2> SUFFICES ASSUME NEW j \in Positions, proc'[j].state # "none", Types \subseteq {"COMMAND", "PIPE"}
               PROVE  /\ proc'[j].in = IF PipeAt(j - 1) THEN j - 2 ELSE -1
                      /\ proc'[j].out = IF PipeAt(j + 1) THEN j ELSE -1
    BY <1>1 DEF PipesConnect, Types, PipeAt
  <2>1. proc[j].state # "none" /\ proc'[j].in = proc[j].in /\ proc'[j].out = proc[j].out
    BY <1>7
  <2>. QED BY <2>1 DEF ShellInv, PipesConnect
<1>. QED BY <1>8, <1>9, <1>10, <1>11, <1>12, <1>13 DEF ShellInv

(* At a command whose pipe is made (lines 118-119 and 126-200).            *)
LEMMA AtCommand ==
    ASSUME ShellInv, pc = "exec", e <= Len(line.exprs), ~NeedsPipe, Expr.type = "COMMAND"
    PROVE  /\ GoodLine /\ Len(line.exprs) \in Nat /\ e \in Int /\ e >= 1 /\ e \in Positions
           /\ e % 2 = 1 /\ (e + 1) % 2 = 0
           /\ curr_fd = IF HasPipe THEN e ELSE -1
           /\ HasPipe <=> e < Len(line.exprs) /\ IsPipe(e + 1)
<1>1. /\ GoodLine /\ Len(line.exprs) \in Nat /\ e \in Int /\ e >= 1 /\ e \in Positions
  BY ExecIs
<1>2. e % 2 = 1
  <2>1. e % 2 = 0 => Expr.type # "COMMAND"
    BY ExecIs
  <2>. QED BY <2>1, <1>1, Parity
<1>3. (e + 1) % 2 = 0
  BY <1>1, <1>2, Parity
<1>4. HasPipe <=> e < Len(line.exprs) /\ IsPipe(e + 1)
  BY DEF HasPipe, IsPipe
<1>5. curr_fd = -1 \/ (curr_fd = e /\ e < Len(line.exprs) /\ IsPipe(e + 1))
  BY <1>2 DEF ShellInv, Loop
<1>6. HasPipe => curr_fd = e
  BY DEF NeedsPipe
<1>. QED BY <1>1, <1>2, <1>3, <1>4, <1>5, <1>6

(* The next expression after a command.                                    *)
LEMMA AdvanceKeeps ==
    ASSUME ShellInv, pc = "exec", e <= Len(line.exprs), ~NeedsPipe, Expr.type = "COMMAND",
           Advance, UNCHANGED <<line, prev_fd, curr_fd, pc>>,
           \A i \in Positions : i > e => proc'[i].state = "none"
    PROVE  e' \in 1 .. Len(line.exprs) + 1 /\ Loop' /\ Previous'
<1>1. /\ Len(line.exprs) \in Nat /\ e \in Int /\ e >= 1 /\ e \in Positions
      /\ e % 2 = 1 /\ (e + 1) % 2 = 0 /\ (e + 1) % 2 # 1
      /\ curr_fd = IF HasPipe THEN e ELSE -1
      /\ HasPipe <=> e < Len(line.exprs) /\ IsPipe(e + 1)
      /\ e' = e + 1 /\ first' = FALSE
  BY AtCommand DEF Advance
<1>2. /\ e' \in 1 .. Len(line.exprs) + 1 /\ e' # 1
      /\ (e + 1) - 1 = e
  BY <1>1
<1>3. Loop'
  <2>1. \A i \in Positions : i >= e' => proc'[i].state = "none"
    <3> SUFFICES ASSUME NEW i \in Positions, i >= e + 1 PROVE proc'[i].state = "none"
      BY <1>1
    <3>1. i > e
      BY <1>1 DEF Positions
    <3>. QED BY <3>1
  <2>2. e' <= Len(line.exprs) => curr_fd = IF IsPipe(e + 1) THEN e ELSE -1
    BY <1>1
  <2>3. e' = Len(line.exprs) + 1 => curr_fd = -1
    BY <1>1
  <2>. QED BY <1>1, <1>2, <2>1, <2>2, <2>3 DEF Loop, IsPipe
<1>4. Previous'
  <2> SUFFICES ASSUME Pure, e + 1 <= Len(line.exprs)
               PROVE  prev_fd = IF e + 1 <= 2 THEN -1 ELSE (e + 1) - 3
    BY <1>1 DEF Previous, Pure, Types
  <2>1. prev_fd = IF e <= 2 THEN -1 ELSE e - 2
    BY <1>1 DEF ShellInv, Previous
  <2>2. e <= 2 <=> e + 1 <= 2
    BY <1>1
  <2>3. (e + 1) - 3 = e - 2
    BY <1>1
  <2>. QED BY <2>1, <2>2, <2>3
<1>. QED BY <1>2, <1>3, <1>4

(* A change of the directory (lines 126-131).                              *)
LEMMA ChangeDirKeeps == ShellInv /\ ChangeDir => ShellInv'
<1> SUFFICES ASSUME ShellInv, ChangeDir PROVE ShellInv'
  OBVIOUS
<1>1. /\ pc = "exec" /\ e <= Len(line.exprs) /\ ~NeedsPipe /\ Expr.type = "COMMAND" /\ Advance
      /\ UNCHANGED <<line, prev_fd, curr_fd, childList, failed, script, proc, fds, data, pc>>
  BY DEF ChangeDir, mainVars, childVars
<1>2. Len(line.exprs) \in Nat /\ e \in Int
  BY <1>1, AtCommand
<1>3. \A i \in Positions : i > e => proc'[i].state = "none"
  <2> SUFFICES ASSUME NEW i \in Positions, i > e PROVE proc[i].state = "none"
    BY <1>1
  <2>1. i >= e
    BY <1>2 DEF Positions
  <2>. QED BY <2>1, <1>1 DEF ShellInv, Loop
<1>4. e' \in 1 .. Len(line.exprs) + 1 /\ Loop' /\ Previous'
  BY <1>1, <1>3, AdvanceKeeps
<1>5. ShellTypes'
  <2>1. \A i \in Positions : IsChild(i, proc[i])'
    BY <1>1, SameChildren
  <2>2. e' \in 0 .. Len(line.exprs) + 1
    BY <1>2, <1>4
  <2>. QED BY <1>1, <2>1, <2>2 DEF ShellInv, ShellTypes, GoodLine
<1>6. Opened'
  BY <1>1 DEF ShellInv, Opened
<1>7. Children' /\ Listed' /\ PipesConnect'
  BY <1>1, SameChildren
<1>. QED BY <1>4, <1>5, <1>6, <1>7 DEF ShellInv

(* A child is forked, with the ends that the shell has open (lines 139 and *)
(* 199-200, and 26-35).                                                    *)
LEMMA ForkKeeps == ShellInv /\ Fork => ShellInv'
<1> SUFFICES ASSUME ShellInv, Fork PROVE ShellInv'
  OBVIOUS
<1>1. /\ pc = "exec" /\ e <= Len(line.exprs) /\ ~NeedsPipe /\ Expr.type = "COMMAND" /\ Advance
      /\ fds' = fds \cup {<<e, h[2], h[3]>> : h \in {g \in fds : g[1] = 0}}
      /\ childList' = <<e>> \o childList
      /\ UNCHANGED <<line, prev_fd, curr_fd, failed, script, data, pc>>
  BY DEF Fork, IsForked, mainVars
<1>2. PICK n : proc' = [proc EXCEPT ![e] = [state |-> "forked", in |-> prev_fd, out |-> curr_fd,
                                            todo |-> n, status |-> 0]]
  BY DEF Fork
<1> DEFINE r == [state |-> "forked", in |-> prev_fd, out |-> curr_fd, todo |-> n, status |-> 0]
<1>3. /\ GoodLine /\ Len(line.exprs) \in Nat /\ e \in Int /\ e >= 1 /\ e \in Positions
      /\ e % 2 = 1 /\ curr_fd = IF HasPipe THEN e ELSE -1
      /\ HasPipe <=> e < Len(line.exprs) /\ IsPipe(e + 1)
  BY <1>1, AtCommand
<1>4. /\ proc = [j \in Positions |-> proc[j]] /\ \A j \in Positions : IsChild(j, proc[j])
      /\ prev_fd \in Ends
  BY DEF ShellInv, ShellTypes
<1>5. /\ r.state = "forked" /\ r.in = prev_fd /\ r.out = curr_fd
      /\ r = [state |-> r.state, in |-> r.in, out |-> r.out, todo |-> r.todo, status |-> r.status]
  OBVIOUS
<1>6. proc' = [proc EXCEPT ![e] = r]
  BY <1>2
<1> HIDE DEF r
<1>7. proc' = [j \in Positions |-> IF j = e THEN r ELSE proc[j]]
  BY <1>4, <1>6
<1>8. /\ proc'[e] = r /\ \A j \in Positions : j # e => proc'[j] = proc[j]
      /\ proc' = [j \in Positions |-> proc'[j]]
  BY <1>3, <1>7
<1>9. IsChild(e, r)
  <2>1. curr_fd \in {-1, e}
    BY <1>3
  <2>. QED BY <1>4, <1>5, <2>1 DEF IsChild
<1>10. proc[e].state = "none" /\ \A i \in Positions : i > e => proc'[i].state = "none"
  <2>1. \A i \in Positions : i >= e => proc[i].state = "none"
    BY <1>1 DEF ShellInv, Loop
  <2>2. ASSUME NEW i \in Positions, i > e PROVE proc'[i].state = "none"
    <3>1. i >= e /\ i # e
      BY <2>2, <1>3 DEF Positions
    <3>. QED BY <3>1, <2>1, <1>8
  <2>3. e >= e
    BY <1>3
  <2>. QED BY <2>1, <2>2, <2>3, <1>3
<1>11. e' \in 1 .. Len(line.exprs) + 1 /\ Loop' /\ Previous'
  BY <1>1, <1>10, AdvanceKeeps
<1>12. \A h \in fds' : h \in fds \/ \E g \in fds : g[1] = 0 /\ h = <<e, g[2], g[3]>>
  BY <1>1
<1>13. ShellTypes'
  <2>1. \A i \in Positions : IsChild(i, proc'[i])
    BY <1>4, <1>8, <1>9
  <2>2. e' \in 0 .. Len(line.exprs) + 1
    BY <1>3, <1>11
  <2>3. fds' \subseteq ({0} \union Positions) \X Positions \X {"r", "w"}
    <3> SUFFICES ASSUME NEW h \in fds'
                 PROVE  h \in ({0} \union Positions) \X Positions \X {"r", "w"}
      OBVIOUS
    <3>1. CASE h \in fds
      BY <3>1 DEF ShellInv, ShellTypes
    <3>2. ASSUME NEW g \in fds, h = <<e, g[2], g[3]>>
          PROVE  h \in ({0} \union Positions) \X Positions \X {"r", "w"}
      <4>1. g[2] \in Positions /\ g[3] \in {"r", "w"}
        BY EndsAre DEF ShellInv
      <4>. QED BY <4>1, <3>2, <1>3
    <3>. QED BY <3>1, <3>2, <1>12
  <2>. QED BY <1>1, <1>8, <2>1, <2>2, <2>3 DEF ShellInv, ShellTypes, GoodLine, IsChild
<1>14. e # 0
  BY <1>3
<1>15. Opened'
  <2> SUFFICES ASSUME ~failed, NEW h \in fds', h[1] = 0 PROVE pc = "exec" /\ h[2] \in {prev_fd, curr_fd}
    BY <1>1 DEF Opened
  <2>1. h \in fds
    BY <1>12, <1>14
  <2>. QED BY <2>1 DEF ShellInv, Opened
<1>16. Children'
  <2> SUFFICES ASSUME NEW h \in fds', h[1] # 0
               PROVE  \/ proc'[h[1]].state = "forked"
                      \/ proc'[h[1]].state \in {"running", "shell"} /\ h \in KeptEnds(h[1])'
    BY DEF Children
  <2>1. CASE h[1] = e
    BY <2>1, <1>5, <1>8
  <2>2. CASE h[1] # e
    <3>1. h \in fds
      BY <2>2, <1>12
    <3>2. h[1] \in Positions
      BY <3>1, EndsAre DEF ShellInv
    <3>3. proc'[h[1]] = proc[h[1]]
      BY <2>2, <3>2, <1>8
    <3>4. \/ proc[h[1]].state = "forked"
          \/ proc[h[1]].state \in {"running", "shell"} /\ h \in KeptEnds(h[1])
      BY <3>1 DEF ShellInv, Children
    <3>. QED BY <3>3, <3>4 DEF KeptEnds
  <2>. QED BY <2>1, <2>2
<1>17. Listed'
  <2> DEFINE c == childList
             n0 == Len(childList)
  <2>1. /\ c \in Seq(Positions) /\ \A a, b \in 1 .. n0 : c[a] = c[b] => a = b
        /\ \A j \in Positions : proc[j].state \notin {"none", "reaped"} <=> \E k \in 1 .. n0 : c[k] = j
    BY DEF ShellInv, Listed
  <2>2. <<e>> \in Seq(Positions) /\ Len(<<e>>) = 1 /\ <<e>>[1] = e
    BY <1>3
  <2>3. /\ n0 \in Nat /\ childList' \in Seq(Positions) /\ Len(childList') = 1 + n0
        /\ childList'[1] = e /\ \A k \in 1 .. n0 : childList'[k + 1] = c[k]
    <3>1. childList' \in Seq(Positions) /\ n0 \in Nat
      BY <2>1, <2>2, <1>1, ConcatProperties, LenProperties
    <3>2. childList' = <<e>> \o c /\ Len(childList') = 1 + n0
      BY <2>1, <2>2, <1>1, ConcatProperties
    <3>3. childList'[1] = e
      BY <2>1, <2>2, <3>1, <3>2, ConcatProperties
    <3>4. ASSUME NEW k \in 1 .. n0 PROVE childList'[k + 1] = c[k]
      <4>1. k + 1 \in 1 .. 1 + n0 /\ k + 1 > 1 /\ (k + 1) - 1 = k
        BY <3>1
      <4>. QED BY <4>1, <2>1, <2>2, <3>1, <3>2, ConcatProperties
    <3>. QED BY <3>1, <3>2, <3>3, <3>4
  <2> HIDE DEF c, n0
  <2>4. \A k \in 1 .. n0 : c[k] # e
    BY <2>1, <1>3, <1>10
  <2>5. ASSUME NEW a \in 1 .. 1 + n0 PROVE a = 1 \/ (a - 1 \in 1 .. n0 /\ childList'[a] = c[a - 1])
    <3>1. a # 1 => a - 1 \in 1 .. n0 /\ (a - 1) + 1 = a
      BY <2>3
    <3>. QED BY <3>1, <2>3
  <2>6. \A a, b \in 1 .. 1 + n0 : childList'[a] = childList'[b] => a = b
    <3> SUFFICES ASSUME NEW a \in 1 .. 1 + n0, NEW b \in 1 .. 1 + n0, childList'[a] = childList'[b]
                 PROVE  a = b
      OBVIOUS
    <3>1. CASE a = 1 \/ b = 1
      BY <3>1, <2>3, <2>4, <2>5
    <3>2. CASE a # 1 /\ b # 1
      <4>1. a - 1 = b - 1
        BY <3>2, <2>1, <2>5
      <4>. QED BY <4>1, <2>3
    <3>. QED BY <3>1, <3>2
  <2>7. ASSUME NEW j \in Positions
        PROVE  proc'[j].state \notin {"none", "reaped"} <=> \E k \in 1 .. 1 + n0 : childList'[k] = j
    <3>1. CASE j = e
      <4>1. 1 \in 1 .. 1 + n0
        BY <2>3
      <4>2. proc'[j].state = "forked"
        BY <3>1, <1>5, <1>8
      <4>. QED BY <4>1, <4>2, <3>1, <2>3
    <3>2. CASE j # e
      <4>1. proc'[j] = proc[j]
        BY <3>2, <1>8
      <4>2. ASSUME NEW k \in 1 .. n0, c[k] = j PROVE \E m \in 1 .. 1 + n0 : childList'[m] = j
        <5>1. k + 1 \in 1 .. 1 + n0 /\ childList'[k + 1] = j
          BY <2>3, <4>2
        <5>. QED BY <5>1
      <4>3. ASSUME NEW m \in 1 .. 1 + n0, childList'[m] = j PROVE \E k \in 1 .. n0 : c[k] = j
        BY <2>3, <2>5, <3>2, <4>3
      <4>. QED BY <4>1, <4>2, <4>3, <2>1
    <3>. QED BY <3>1, <3>2
  <2>. QED BY <1>1, <2>3, <2>6, <2>7 DEF Listed
<1>18. PipesConnect'
  <2> SUFFICES ASSUME NEW j \in Positions, proc'[j].state # "none", Pure
               PROVE  /\ proc'[j].in = IF PipeAt(j - 1) THEN j - 2 ELSE -1
                      /\ proc'[j].out = IF PipeAt(j + 1) THEN j ELSE -1
    BY <1>1 DEF PipesConnect, Types, PipeAt, Pure
  <2>1. CASE j # e
    BY <2>1, <1>8 DEF ShellInv, PipesConnect, Pure
  <2>2. CASE j = e
    <3>1. DOMAIN line.exprs = 1 .. Len(line.exprs)
      BY <1>3 DEF GoodLine
    <3>2. PipeAt(e + 1) <=> HasPipe
      BY <3>1, <1>3 DEF PipeAt, IsPipe
    <3>3. e = 1 => ~PipeAt(e - 1)
      BY <3>1 DEF PipeAt
    <3>4. ASSUME e # 1 PROVE PipeAt(e - 1) /\ ~(e <= 2)
      <4>1. e - 1 \in 1 .. Len(line.exprs) /\ e # 2
        BY <1>1, <1>3, <3>4
      <4>2. (e - 1) % 2 = 0
        BY <1>3
      <4>3. line.exprs[e - 1].type # "COMMAND"
        BY <4>1, <4>2, <1>3, LineIs
      <4>4. line.exprs[e - 1].type \in Types
        BY <4>1, <3>1 DEF Types
      <4>5. line.exprs[e - 1].type = "PIPE"
        BY <4>3, <4>4 DEF Pure
      <4>6. ~(e <= 2)
        BY <4>1, <1>3, <3>4
      <4>. QED BY <4>1, <4>5, <4>6, <3>1 DEF PipeAt
    <3>5. prev_fd = IF e <= 2 THEN -1 ELSE e - 2
      BY <1>1, <1>3 DEF ShellInv, Previous
    <3>6. proc'[j].in = prev_fd /\ proc'[j].out = curr_fd
      BY <2>2, <1>5, <1>8
    <3>7. e = 1 => prev_fd = -1
      BY <3>5
    <3>8. e # 1 => prev_fd = e - 2
      BY <3>4, <3>5
    <3>9. proc'[j].in = IF PipeAt(e - 1) THEN e - 2 ELSE -1
      BY <3>3, <3>4, <3>6, <3>7, <3>8
    <3>10. proc'[j].out = IF PipeAt(e + 1) THEN e ELSE -1
      BY <3>2, <3>6, <1>3
    <3>. QED BY <2>2, <3>9, <3>10
  <2>. QED BY <2>1, <2>2
<1>. QED BY <1>11, <1>13, <1>15, <1>16, <1>17, <1>18 DEF ShellInv

(* At an operator: the output of the command before becomes the input of   *)
(* the next one if it is a pipe (lines 202-212).                           *)
LEMMA PassOperatorKeeps == ShellInv /\ PassOperator => ShellInv'
<1> SUFFICES ASSUME ShellInv, PassOperator PROVE ShellInv'
  OBVIOUS
<1>1. /\ pc = "exec" /\ e <= Len(line.exprs) /\ Expr.type \in Operators
      /\ \/ Expr.type = "PIPE" /\ fds' = ClosePrevious(prev_fd) /\ prev_fd' = curr_fd /\ curr_fd' = -1
         \/ Expr.type # "PIPE" /\ UNCHANGED <<fds, prev_fd, curr_fd>>
      /\ e' = e + 1 /\ first' = FALSE
      /\ UNCHANGED <<line, childList, failed, script, proc, data, pc>>
  BY DEF PassOperator, Advance, Rotate, mainVars
<1>2. /\ GoodLine /\ Len(line.exprs) \in Nat /\ Len(line.exprs) % 2 = 1
      /\ e \in Int /\ e \in Positions /\ e \in 1 .. Len(line.exprs)
  BY <1>1, ExecIs
<1>3. e % 2 = 0 /\ (e + 1) % 2 = 1
  <2>1. e % 2 = 1 => Expr.type \notin Operators
    BY <1>1, ExecIs
  <2>. QED BY <2>1, <1>1, <1>2, Parity
<1>4. e # Len(line.exprs) /\ e + 1 <= Len(line.exprs) /\ e >= 2
  <2> DEFINE n == Len(line.exprs)
  <2>0. n \in Nat /\ n % 2 = 1 /\ e \in 1 .. n /\ e % 2 = 0
    <3>1. n \in Nat /\ n % 2 = 1
      BY <1>2
    <3>2. e \in 1 .. n
      BY <1>2
    <3>. QED BY <3>1, <3>2, <1>3
  <2> HIDE DEF n
  <2>1. n \in Nat /\ n % 2 = 1 /\ e \in Int /\ e >= 1 /\ e <= n /\ e % 2 = 0
    BY <2>0
  <2>2. e # n
    BY <2>1
  <2>3. e # 1
    BY <2>1
  <2>4. e + 1 <= n /\ e >= 2
    BY <2>1, <2>2, <2>3
  <2>. QED BY <2>2, <2>4 DEF n
<1>5. curr_fd = IF IsPipe(e) THEN e - 1 ELSE -1
  BY <1>1, <1>3 DEF ShellInv, Loop
<1>6. IsPipe(e) <=> Expr.type = "PIPE"
  BY DEF IsPipe, Expr
<1>7. curr_fd' = -1 /\ prev_fd' = IF IsPipe(e) THEN e - 1 ELSE prev_fd
  BY <1>1, <1>5, <1>6
<1>8. e - 1 \in Positions
  BY <1>2, <1>4, ShellAssumption DEF Positions
<1>9. fds' \subseteq fds
  BY <1>1 DEF ClosePrevious
<1>10. ShellTypes'
  <2>1. \A i \in Positions : IsChild(i, proc[i])'
    BY <1>1, SameChildren
  <2>2. prev_fd' \in Ends /\ curr_fd' \in Ends
    BY <1>7, <1>8 DEF ShellInv, ShellTypes, Ends
  <2>3. e' \in 0 .. Len(line.exprs) + 1
    BY <1>1, <1>2
  <2>4. fds' \subseteq ({0} \union Positions) \X Positions \X {"r", "w"}
    BY <1>9 DEF ShellInv, ShellTypes
  <2>. QED BY <1>1, <2>1, <2>2, <2>3, <2>4 DEF ShellInv, ShellTypes, GoodLine
<1>11. Loop'
  <2>1. e' \in 1 .. Len(line.exprs) + 1 /\ e' # 1 /\ e' # Len(line.exprs) + 1 /\ e' % 2 # 0
    BY <1>1, <1>2, <1>3, <1>4
  <2>2. ASSUME NEW i \in Positions, i >= e' PROVE proc'[i].state = "none"
    <3>1. i >= e
      BY <2>2, <1>1, <1>2 DEF Positions
    <3>. QED BY <3>1, <1>1 DEF ShellInv, Loop
  <2>. QED BY <1>1, <1>7, <2>1, <2>2 DEF Loop
<1>12. Previous'
  <2> SUFFICES ASSUME Pure PROVE prev_fd' = (e + 1) - 2
    BY <1>1, <1>2, <1>3, <1>4 DEF Previous, Pure, Types
  <2>1. line.exprs[e].type \in Types
    BY <1>2 DEF Types, GoodLine
  <2>2. IsPipe(e)
    <3>1. line.exprs[e].type # "COMMAND"
      BY <1>2, <1>3, LineIs
    <3>. QED BY <2>1, <3>1 DEF Pure, IsPipe
  <2>. QED BY <2>2, <1>2, <1>7
<1>13. Opened'
  <2> SUFFICES ASSUME ~failed, NEW h \in fds', h[1] = 0 PROVE h[2] \in {prev_fd', curr_fd'}
    BY <1>1 DEF Opened
  <2>1. h[2] \in {prev_fd, curr_fd} /\ h = <<h[1], h[2], h[3]>> /\ h[3] \in {"r", "w"}
    BY <1>9, EndsAre DEF ShellInv, Opened
  <2>2. ASSUME fds' = ClosePrevious(prev_fd), prev_fd' = curr_fd PROVE h[2] \in {prev_fd', curr_fd'}
    <3>1. h # <<0, prev_fd, "r">> /\ h # <<0, prev_fd, "w">>
      BY <2>2 DEF ClosePrevious
    <3>. QED BY <2>1, <2>2, <3>1
  <2>. QED BY <2>1, <2>2, <1>1
<1>14. Children'
  <2> SUFFICES ASSUME NEW h \in fds', h[1] # 0
               PROVE  \/ proc[h[1]].state = "forked"
                      \/ proc[h[1]].state \in {"running", "shell"} /\ h \in KeptEnds(h[1])
    BY <1>1 DEF Children, KeptEnds
  <2>. QED BY <1>9 DEF ShellInv, Children
<1>15. Listed' /\ PipesConnect'
  BY <1>1, SameChildren
<1>. QED BY <1>10, <1>11, <1>12, <1>13, <1>14, <1>15 DEF ShellInv

(* Nothing has happened.                                                   *)
LEMMA StutterKeeps == ShellInv /\ UNCHANGED vars => ShellInv'
<1> SUFFICES ASSUME ShellInv, UNCHANGED vars PROVE ShellInv'
  OBVIOUS
<1>1. UNCHANGED <<line, e, prev_fd, curr_fd, first, childList, failed, script, proc, fds, data, pc>>
  BY DEF vars, lineVars, mainVars, childVars
<1>2. ShellTypes'
  <2>1. \A i \in Positions : IsChild(i, proc[i])'
    BY <1>1, SameChildren
  <2>. QED BY <1>1, <2>1 DEF ShellInv, ShellTypes, GoodLine
<1>3. Loop'
  BY <1>1 DEF ShellInv, Loop, IsPipe
<1>4. Previous'
  BY <1>1, SameChildren DEF ShellInv, Previous
<1>5. Opened'
  BY <1>1 DEF ShellInv, Opened
<1>6. Children' /\ Listed' /\ PipesConnect'
  BY <1>1, SameChildren
<1>. QED BY <1>2, <1>3, <1>4, <1>5, <1>6 DEF ShellInv

(* Before the first line.                                                  *)
LEMMA InitKeeps == Init => ShellInv
<1> SUFFICES ASSUME Init PROVE ShellInv
  OBVIOUS
<1>1. ShellTypes
  <2>1. Len(line.exprs) \in Nat /\ e \in 0 .. Len(line.exprs) + 1
    BY DEF Init, EmptyLine
  <2>2. script \in Seq(Items)
    BY ShellAssumption DEF Init
  <2>3. \A i \in Positions : IsChild(i, proc[i])
    BY DEF Init, IsChild, NoProcess, Ends
  <2>4. data \in [Positions -> 0 .. Capacity]
    BY ShellAssumption DEF Init
  <2>. QED BY <2>1, <2>2, <2>3, <2>4 DEF Init, ShellTypes, Ends
<1>2. Loop /\ Previous /\ Opened /\ Children
  BY DEF Init, Loop, Previous, Opened, Children
<1>3. Listed
  <2>1. childList \in Seq(Positions) /\ Len(childList) = 0
    BY DEF Init
  <2>. QED BY <2>1 DEF Init, Listed, NoProcess
<1>4. PipesConnect
  BY DEF Init, PipesConnect, NoProcess
<1>. QED BY <1>1, <1>2, <1>3, <1>4 DEF ShellInv

(* Every step of the shell and of its children.                            *)
LEMMA StepKeeps == ShellInv /\ [Next]_vars => ShellInv'
<1> SUFFICES ASSUME ShellInv, [Next]_vars PROVE ShellInv'
  OBVIOUS
<1>1. CASE ShellStep
  BY <1>1, NextLineKeeps, ExitKeeps, MakePipeKeeps, ChangeDirKeeps, ExitAloneKeeps, ForkKeeps,
     PassOperatorKeeps, LineStartedKeeps, WaitChildKeeps, LineDoneKeeps DEF ShellStep
<1>2. CASE Fails
  BY <1>2, FailsKeeps
<1>3. ASSUME NEW i \in Positions, ChildStep(i) \/ ChildMay(i) PROVE ShellInv'
  BY <1>3, StartsKeeps, WritesKeeps, ReadsKeeps, EndsKeeps, SecondKeeps DEF ChildStep, ChildMay
<1>4. CASE UNCHANGED vars
  BY <1>4, StutterKeeps
<1>. QED BY <1>1, <1>2, <1>3, <1>4 DEF Next

(* The invariant holds in every state.                                     *)
LEMMA ShellAlways == Spec => []ShellInv
BY InitKeeps, StepKeeps, PTL DEF Spec

(* In a pipeline every command reads what the command before it writes and *)
(* nothing else, whatever the length of the line (solution.c:118-119,      *)
(* 145-162, 202-208).                                                      *)
THEOREM PipesConnected == Spec => []PipesConnect
<1>1. ShellInv => PipesConnect
  BY DEF ShellInv
<1>. QED BY <1>1, ShellAlways, PTL

(* When a line is started only the command before a pipe can write to it   *)
(* (solution.c:145-162, 203, 222-223).                                     *)
THEOREM WritersExact == Spec => []WritersAreWriters
<1>1. ShellInv => WritersAreWriters
  <2> SUFFICES ASSUME ShellInv, pc = "wait", ~failed, NEW h \in fds,
                      h[1] = 0 \/ (proc[h[1]].state \in {"running", "shell"} /\ h[3] = "w")
               PROVE  h[1] = h[2] /\ proc[h[1]].out = h[2]
    BY DEF WritersAreWriters
  <2>1. /\ h = <<h[1], h[2], h[3]>> /\ h[1] \in {0} \union Positions /\ h[2] # -1
        /\ h[1] # 0
    BY EndsAre DEF ShellInv, Opened
  <2>2. h \in KeptEnds(h[1]) /\ h[3] = "w"
    BY <2>1 DEF ShellInv, Children
  <2>3. h[2] = proc[h[1]].out
    BY <2>1, <2>2 DEF KeptEnds
  <2>4. proc[h[1]].out \in {-1, h[1]}
    BY <2>1 DEF ShellInv, ShellTypes, IsChild
  <2>. QED BY <2>1, <2>3, <2>4
<1>. QED BY <1>1, ShellAlways, PTL

(* Between two lines no pipe is open in the shell, and every child has     *)
(* ended and was waited for (solution.c:44-60, 222-224).                   *)
THEOREM NothingIsLeft == Spec => []NothingLeft
<1>1. ShellInv => NothingLeft
  <2> SUFFICES ASSUME ShellInv PROVE NothingLeft
    OBVIOUS
  <2>1. TypeOK
    <3>1. {prev_fd, curr_fd} \subseteq Positions \cup {-1}
      BY DEF ShellInv, ShellTypes, Ends
    <3>2. ToSet(childList) \subseteq {i \in Positions : proc[i].state \notin {"none", "reaped"}}
      <4> SUFFICES ASSUME NEW i \in ToSet(childList)
                   PROVE  i \in Positions /\ proc[i].state \notin {"none", "reaped"}
        OBVIOUS
      <4>1. childList \in Seq(Positions)
        BY DEF ShellInv, Listed
      <4>2. PICK j \in 1 .. Len(childList) : childList[j] = i
        BY <4>1 DEF ToSet
      <4>3. i \in Positions
        BY <4>1, <4>2, ElementOfSeq
      <4>. QED BY <4>2, <4>3 DEF ShellInv, Listed
    <3>. QED BY <3>1, <3>2 DEF ShellInv, ShellTypes, TypeOK
  <2>2. ASSUME pc = "read", NEW i \in Positions PROVE proc[i].state \in {"none", "reaped"}
    <3>1. childList = <<>> /\ Len(childList) = 0
      BY <2>2 DEF ShellInv, Listed
    <3>2. ~\E j \in 1 .. Len(childList) : childList[j] = i
      BY <3>1
    <3>. QED BY <3>2 DEF ShellInv, Listed
  <2>3. ASSUME pc = "read", ~failed, NEW h \in fds PROVE FALSE
    <3>1. h[1] \in {0} \union Positions /\ h[1] # 0
      BY <2>3, EndsAre DEF ShellInv, Opened
    <3>2. proc[h[1]].state \in {"forked", "running", "shell"}
      BY <3>1, <2>3 DEF ShellInv, Children
    <3>. QED BY <3>1, <3>2, <2>2, <2>3
  <2>. QED BY <2>1, <2>2, <2>3 DEF NothingLeft
<1>. QED BY <1>1, ShellAlways, PTL
=============================================================================
