----------------------------- MODULE ShellProps -----------------------------
(***************************************************************************)
(* What the shell promises about pipelines, children and exit codes.       *)
(***************************************************************************)
EXTENDS Shell

(* Every variable holds what its C declaration allows. *)
TypeOK ==
    /\ pc \in {"read", "exec", "wait", "exited", "crashed"}
    /\ e \in 0 .. Len(line.exprs) + 1
    /\ {prev_fd, curr_fd} \subseteq Positions \cup {-1}
    /\ ToSet(childList) \subseteq {i \in Positions : proc[i].state \notin {"none", "reaped"}}
    /\ fds \subseteq ({0} \cup Positions) \X Positions \X {"r", "w"}
    /\ data \in [Positions -> 0 .. Capacity]

Types == {line.exprs[i].type : i \in DOMAIN line.exprs}
PipeAt(i) == i \in DOMAIN line.exprs /\ line.exprs[i].type = "PIPE"

(* In a pipeline every command reads what the command before it writes, and *)
(* nothing else: the descriptors that the loop rotates are those of its     *)
(* neighbours when it is forked (solution.c:118-119, 145-162, 202-208).     *)
PipesConnect ==
    \A i \in Positions :
        proc[i].state # "none" /\ Types \subseteq {"COMMAND", "PIPE"} =>
            /\ proc[i].in = IF PipeAt(i - 1) THEN i - 2 ELSE -1
            /\ proc[i].out = IF PipeAt(i + 1) THEN i ELSE -1

(* When the shell has started a whole line and its children have arranged   *)
(* their descriptors, only the command before a pipe can still write to it: *)
(* a reader will see the end of its input (solution.c:145-162, 203, 222-223).   *)
WritersAreWriters ==
    pc = "wait" /\ ~failed =>
        \A h \in fds :
            h[1] = 0 \/ (proc[h[1]].state \in {"running", "shell"} /\ h[3] = "w") =>
                h[1] = h[2] /\ proc[h[1]].out = h[2]

(* Between two lines nothing of a line is left: no open pipe in the shell,  *)
(* no child that runs or was not waited for (solution.c:44-60, 222-224).    *)
NothingLeft ==
    /\ TypeOK
    /\ pc = "read" /\ ~failed =>
        /\ \A h \in fds : FALSE
        /\ \A i \in Positions : proc[i].state \in {"none", "reaped"}

(* A line whose pipes and children could be made comes to an end: no        *)
(* command waits for input that cannot come, and the shell returns to its   *)
(* loop (solution.c:49).  The one way out is a child that did not leave the *)
(* main loop, as the code it was to exit with is -1 (solution.c:251, 257):  *)
(* the shell then waits until that second shell has read its input.         *)
LineEnds ==
    (pc = "exec") ~> \/ pc \notin {"exec", "wait"} \/ failed
                     \/ \E i \in Positions : proc[i].state = "shell"
=============================================================================
