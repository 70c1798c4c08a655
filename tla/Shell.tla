-------------------------------- MODULE Shell --------------------------------
(***************************************************************************)
(* The main loop of the shell of hw2/solution.c and the execution of a     *)
(* line: the pipes, the children and the wait for them.                    *)
(*                                                                         *)
(* The child that runs the i-th expression of a line is process i, and the *)
(* pipe from that command to the next one is pipe i; the shell is process  *)
(* 0.  What a program does with its input and output is a choice.          *)
(***************************************************************************)
EXTENDS CommandLine, Integers, FiniteSets, SequencesExt

CONSTANTS
    Scripts,        \* sequences of what parser_pop_next returns: lines, or BadLine
    BadLine,        \* an error of the parser
    Programs,       \* the commands that exec finds
    Longest,        \* the number of expressions in the longest line
    Capacity,       \* of a pipe, in items
    MaxItems        \* bound on what a program writes

Positions == 1 .. Longest       \* of an expression
Items == UNION {ToSet(s) : s \in Scripts}

ASSUME ShellAssumption ==
    /\ Longest \in Nat /\ Capacity \in Nat \ {0} /\ MaxItems \in Nat
    /\ Scripts \subseteq Seq(Items)
    /\ \A l \in Items \ {BadLine} :
          /\ WellFormed(l)
          /\ Len(l.exprs) \in Positions /\ DOMAIN l.exprs = 1 .. Len(l.exprs)
    /\ {"cd", "exit"} \cap Programs = {}

VARIABLES
    script,                     \* the lines still to come
    line, e, prev_fd, curr_fd, first,       \* of my_execute_command_line
    childList,                  \* the list, the newest child first
    lastStatus, force,          \* of the wait, and the code of forceExit it is for
    exitCode, forceExitCode,    \* execResult
    pc,                         \* what the shell is doing
    failed,                     \* has pipe or fork failed in this line?
    proc,                       \* of a child: its state, its standard input and output if
                                \* they are pipes, what it has to write, its status
    fds,                        \* <<process, pipe, end>>: the open ends of pipes
    data                        \* how many items are in a pipe

lineVars == <<line, e, prev_fd, curr_fd, first, childList, failed>>
mainVars == <<script, lastStatus, force, exitCode, forceExitCode>>
childVars == <<proc, fds, data>>
vars == <<lineVars, mainVars, childVars, pc>>

EXIT_FAILURE == 1
Signaled == -2          \* the status of a child that a signal has killed
NoProcess == [state |-> "none", in |-> -1, out |-> -1, todo |-> 0, status |-> 0]
Statuses == {0, 1}

Init ==
    /\ script \in Scripts
    /\ line = EmptyLine /\ e = 0 /\ prev_fd = -1 /\ curr_fd = -1 /\ first = FALSE
    /\ childList = <<>> /\ lastStatus = 0 /\ force = -1
    /\ exitCode = -1 /\ forceExitCode = -1
    /\ pc = "read" /\ failed = FALSE
    /\ proc = [i \in Positions |-> NoProcess]
    /\ fds = {} /\ data = [i \in Positions |-> 0]

-----------------------------------------------------------------------------
(* The main loop *)

(* Lines 237-254: the next line is executed.  After an error                *)
(* command_line_delete follows a null pointer.                              *)
NextLine ==
    /\ pc = "read" /\ script # <<>>
    /\ script' = Tail(script)
    /\ \/ /\ Head(script) = BadLine
          /\ pc' = "crashed"
          /\ UNCHANGED <<lineVars, childVars>>
       \/ /\ Head(script) # BadLine
          /\ pc' = "exec"
          /\ line' = Head(script) /\ e' = 1 /\ first' = TRUE
          /\ prev_fd' = -1 /\ curr_fd' = -1 /\ childList' = <<>> /\ failed' = FALSE
          /\ proc' = [i \in Positions |-> NoProcess]
          /\ fds' = {} /\ data' = [i \in Positions |-> 0]
    /\ UNCHANGED <<lastStatus, force, exitCode, forceExitCode>>

(* Lines 263-269. *)
ProcessExitCode(forced, code) ==
    IF code # -1 THEN code ELSE IF forced # -1 THEN forced ELSE 0

(* Lines 237 and 257-272: no more input, or a forced exit. *)
Exit ==
    /\ pc = "read" /\ script = <<>>
    /\ pc' = "exited"
    /\ UNCHANGED <<lineVars, mainVars, childVars>>

-----------------------------------------------------------------------------
(* my_execute_command_line *)

Expr == line.exprs[e]
words == Expr.words
Advance == e' = e + 1 /\ first' = FALSE
HasPipe == e < Len(line.exprs) /\ line.exprs[e + 1].type = "PIPE"
NeedsPipe == HasPipe /\ curr_fd # e

(* Lines 87-91, up to the wait. *)
ForceExit(code) == pc' = "wait" /\ force' = code /\ lastStatus' = 0

(* Lines 118-119. *)
MakePipe ==
    /\ pc = "exec" /\ e <= Len(line.exprs) /\ NeedsPipe
    /\ curr_fd' = e
    /\ fds' = fds \cup {<<0, e, "r">>, <<0, e, "w">>}
    /\ UNCHANGED <<line, e, prev_fd, first, childList, failed, mainVars, proc, data, pc>>

(* Lines 119-122. *)
PipeFails ==
    /\ pc = "exec" /\ e <= Len(line.exprs) /\ NeedsPipe
    /\ failed' = TRUE /\ ForceExit(EXIT_FAILURE)
    /\ UNCHANGED <<line, e, prev_fd, curr_fd, first, childList, script, exitCode, forceExitCode,
                   childVars>>

(* Lines 126-131. *)
ChangeDir ==
    /\ pc = "exec" /\ e <= Len(line.exprs) /\ ~NeedsPipe
    /\ Expr.type = "COMMAND" /\ words[1] = "cd"
    /\ Advance
    /\ UNCHANGED <<line, prev_fd, curr_fd, childList, failed, mainVars, childVars, pc>>

(* Lines 71-79: the code of an exit that ends its line, -1 otherwise. *)
handle_exit ==
    IF words[1] # "exit" \/ e # Len(line.exprs) THEN -1
    ELSE IF Len(words) > 1 THEN words[2] ELSE 0

IsForked == Expr.type = "COMMAND" /\ words[1] # "cd" /\ ~(first /\ handle_exit # -1)

(* Lines 133-137. *)
ExitAlone ==
    /\ pc = "exec" /\ e <= Len(line.exprs) /\ ~NeedsPipe
    /\ Expr.type = "COMMAND" /\ words[1] # "cd" /\ first /\ handle_exit # -1
    /\ ForceExit(handle_exit)
    /\ UNCHANGED <<lineVars, script, exitCode, forceExitCode, childVars>>

(* Lines 139 and 199-200, and 26-35: the child has the open ends of the shell. *)
Fork ==
    /\ pc = "exec" /\ e <= Len(line.exprs) /\ ~NeedsPipe /\ IsForked
    /\ \E n \in 0 .. MaxItems :
        proc' = [proc EXCEPT ![e] = [state |-> "forked", in |-> prev_fd, out |-> curr_fd,
                                     todo |-> n, status |-> 0]]
    /\ fds' = fds \cup {<<e, h[2], h[3]>> : h \in {g \in fds : g[1] = 0}}
    /\ childList' = <<e>> \o childList
    /\ Advance
    /\ UNCHANGED <<line, prev_fd, curr_fd, failed, mainVars, data, pc>>

(* Lines 140-143. *)
ForkFails ==
    /\ pc = "exec" /\ e <= Len(line.exprs) /\ ~NeedsPipe /\ IsForked
    /\ failed' = TRUE /\ ForceExit(EXIT_FAILURE)
    /\ UNCHANGED <<line, e, prev_fd, curr_fd, first, childList, script, exitCode, forceExitCode,
                   childVars>>

BugKeepsPrevious(p) == fds \ {<<0, p, "r">>}

(* Lines 203-204 and 222-223: the shell closes both ends of a pipe. *)
ClosePrevious(p) == fds \ {<<0, p, "r">>, <<0, p, "w">>}

BugRotate == prev_fd' = curr_fd /\ UNCHANGED curr_fd

(* Lines 205-208. *)
Rotate == prev_fd' = curr_fd /\ curr_fd' = -1

(* Lines 202-212. *)
PassOperator ==
    /\ pc = "exec" /\ e <= Len(line.exprs) /\ Expr.type \in Operators
    /\ \/ Expr.type = "PIPE" /\ fds' = ClosePrevious(prev_fd) /\ Rotate
       \/ Expr.type # "PIPE" /\ UNCHANGED <<fds, prev_fd, curr_fd>>
    /\ Advance
    /\ UNCHANGED <<line, childList, failed, mainVars, proc, data, pc>>

(* Lines 222-224. *)
LineStarted ==
    /\ pc = "exec" /\ e = Len(line.exprs) + 1
    /\ fds' = ClosePrevious(prev_fd)
    /\ pc' = "wait" /\ force' = -1 /\ lastStatus' = 0
    /\ UNCHANGED <<lineVars, script, exitCode, forceExitCode, proc, data>>

(* Lines 50-52. *)
TakeStatus(i) == lastStatus' = IF proc[i].status = Signaled THEN lastStatus ELSE proc[i].status

(* Lines 44-60: the newest child is waited for first. *)
WaitChild ==
    /\ pc = "wait" /\ childList # <<>>
    /\ proc[Head(childList)].state = "zombie"
    /\ TakeStatus(Head(childList))
    /\ proc' = [proc EXCEPT ![Head(childList)].state = "reaped"]
    /\ childList' = Tail(childList)
    /\ UNCHANGED <<line, e, prev_fd, curr_fd, first, failed, script, force, exitCode,
                   forceExitCode, fds, data, pc>>

(* Lines 87-97 and 249-259: back in the main loop, which a forced exit leaves. *)
LineDone ==
    /\ pc = "wait" /\ childList = <<>>
    /\ \/ /\ force = -1
          /\ exitCode' = lastStatus
          /\ pc' = "read" /\ UNCHANGED <<script, forceExitCode>>
       \/ /\ force # -1
          /\ forceExitCode' = force
          /\ pc' = "read" /\ script' = <<>> /\ UNCHANGED exitCode
    /\ UNCHANGED <<lineVars, lastStatus, force, childVars>>

-----------------------------------------------------------------------------
(* The children *)

BugKeepsWriteEnd(i) == {<<i, proc[i].in, "r">>, <<i, proc[i].in, "w">>, <<i, proc[i].out, "w">>}

(* Lines 145-162: what a child keeps is its standard input and output. *)
KeptEnds(i) == {<<i, proc[i].in, "r">>, <<i, proc[i].out, "w">>}

Dies(i, status) ==
    /\ proc' = [proc EXCEPT ![i].state = "zombie", ![i].status = status]
    /\ fds' = {h \in fds : h[1] # i}

(* Lines 87-91 and 249-272 in the child, whose list holds no child of its   *)
(* own.  It exits with the code of a line before if there was one; but with *)
(* a code of -1 the main loop goes on, and the child is a second shell.     *)
ChildLeaves(i, code) ==
    \/ code # -1 /\ Dies(i, ProcessExitCode(code, exitCode))
    \/ /\ code = -1
       /\ proc' = [proc EXCEPT ![i].state = "shell"]
       /\ fds' = {h \in fds : h[1] # i \/ h \in KeptEnds(i)}

(* Lines 144-198: the child arranges its descriptors and executes its       *)
(* program.  When there is none, the child takes its first argument for the *)
(* code of a forced exit: without one atoi follows a null pointer.          *)
ChildStarts(i) ==
    /\ proc[i].state = "forked"
    /\ LET args == line.exprs[i].words IN
       \/ /\ args[1] \in Programs
          /\ proc' = [proc EXCEPT ![i].state = "running"]
          /\ fds' = {h \in fds : h[1] # i \/ h \in KeptEnds(i)}
       \/ args[1] \notin Programs /\ Len(args) = 1 /\ Dies(i, Signaled)
       \/ args[1] \notin Programs /\ Len(args) > 1 /\ ChildLeaves(i, args[2])
    /\ UNCHANGED <<lineVars, mainVars, data, pc>>

(* Lines 163-177: the file of the redirection cannot be opened. *)
RedirectFails(i) ==
    /\ proc[i].state = "forked" /\ proc[i].out = -1 /\ line.out # "STDOUT"
    /\ ChildLeaves(i, EXIT_FAILURE)
    /\ UNCHANGED <<lineVars, mainVars, data, pc>>

Holds(p, end) == \E h \in fds : h[2] = p /\ h[3] = end
Reads(i) == proc[i].in # -1 /\ (data[proc[i].in] > 0 \/ Holds(proc[i].in, "w"))

(* A program writes an item, to nobody if its output is not a pipe; the    *)
(* write kills it when the other end is closed.                            *)
ProgramWrites(i) ==
    /\ proc[i].state = "running" /\ proc[i].todo > 0
    /\ \/ /\ proc[i].out = -1 \/ (Holds(proc[i].out, "r") /\ data[proc[i].out] < Capacity)
          /\ proc' = [proc EXCEPT ![i].todo = @ - 1]
          /\ data' = [p \in Positions |-> IF p = proc[i].out THEN data[p] + 1 ELSE data[p]]
          /\ UNCHANGED fds
       \/ /\ proc[i].out # -1 /\ ~Holds(proc[i].out, "r")
          /\ Dies(i, Signaled) /\ UNCHANGED data
    /\ UNCHANGED <<lineVars, mainVars, pc>>

ProgramReads(i) ==
    /\ proc[i].state = "running" /\ proc[i].in # -1 /\ data[proc[i].in] > 0
    /\ data' = [data EXCEPT ![proc[i].in] = @ - 1]
    /\ UNCHANGED <<lineVars, mainVars, proc, fds, pc>>

(* It ends when it has written everything and its input has come to an end. *)
ProgramEnds(i) ==
    /\ proc[i].state = "running" /\ proc[i].todo = 0 /\ ~Reads(i)
    /\ \E s \in Statuses : Dies(i, s)
    /\ UNCHANGED <<lineVars, mainVars, data, pc>>

(* It may also end before. *)
ProgramStops(i) ==
    /\ proc[i].state = "running" /\ (proc[i].todo > 0 \/ Reads(i))
    /\ \E s \in Statuses : Dies(i, s)
    /\ UNCHANGED <<lineVars, mainVars, data, pc>>

(* Lines 237-254 in a second shell, for as long as there is input: the      *)
(* lines it reads come from its pipe, or from those its parent has not read *)
(* yet; what it and its own children write goes to its output, and it exits *)
(* with a code of its own or is killed.                                     *)
SecondShell(i) ==
    /\ proc[i].state = "shell"
    /\ \/ /\ proc[i].in # -1 /\ data[proc[i].in] > 0
          /\ data' = [data EXCEPT ![proc[i].in] = @ - 1]
          /\ UNCHANGED <<script, proc, fds>>
       \/ /\ proc[i].in = -1
          /\ \E k \in 1 .. Len(script) : script' = RemoveAt(script, k)
          /\ UNCHANGED <<proc, fds, data>>
       \/ /\ proc[i].out # -1 /\ Holds(proc[i].out, "r") /\ data[proc[i].out] < Capacity
          /\ data' = [data EXCEPT ![proc[i].out] = @ + 1]
          /\ UNCHANGED <<script, proc, fds>>
       \/ /\ \E s \in Statuses \cup {Signaled} : Dies(i, s)
          /\ UNCHANGED <<script, data>>
    /\ UNCHANGED <<lineVars, lastStatus, force, exitCode, forceExitCode, pc>>

-----------------------------------------------------------------------------
ShellStep ==
    \/ NextLine \/ Exit \/ MakePipe \/ ChangeDir \/ ExitAlone \/ Fork
    \/ PassOperator \/ LineStarted \/ WaitChild \/ LineDone
Fails == PipeFails \/ ForkFails
ChildStep(i) == ChildStarts(i) \/ ProgramWrites(i) \/ ProgramReads(i) \/ ProgramEnds(i)
ChildMay(i) == RedirectFails(i) \/ ProgramStops(i) \/ SecondShell(i)

Stuck == failed /\ pc = "wait" /\ childList # <<>>
Ended == pc \in {"exited", "crashed"}
Next ==
    \/ ShellStep \/ Fails
    \/ \E i \in Positions : ChildStep(i) \/ ChildMay(i)
    \/ (Ended \/ Stuck) /\ UNCHANGED vars

(* Every process that can go on does, programs come to their end, and calls *)
(* need not fail.  The input of a second shell need not come to an end.     *)
Fairness ==
    WF_vars(ShellStep) /\ \A i \in Positions : WF_vars(ChildStep(i))
Spec == Init /\ [][Next]_vars /\ Fairness
=============================================================================
