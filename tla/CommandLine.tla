----------------------------- MODULE CommandLine -----------------------------
(***************************************************************************)
(* The command lines that hw2/parser.c hands to hw2/solution.c.            *)
(*                                                                         *)
(* An expression of a line is a command, with its words (exe and args), or *)
(* an operator between two commands.                                       *)
(***************************************************************************)
EXTENDS Naturals, Sequences

Operators == {"PIPE", "AND", "OR"}
Command(words) == [type |-> "COMMAND", words |-> words]
Operator(t) == [type |-> t, words |-> <<>>]

EmptyLine == [exprs |-> <<>>, out |-> "STDOUT", out_file |-> <<>>, background |-> FALSE]

(* The lines over an alphabet, well formed or not. *)
Lines(chars) ==
    LET Word == Seq(chars)
    IN  [exprs : Seq([type : Operators \cup {"COMMAND"}, words : Seq(Word)]),
         out : {"STDOUT", "FILE_NEW", "FILE_APPEND"}, out_file : Word, background : BOOLEAN]

(* Commands alternate with operators, a command first and last. *)
WellFormed(line) ==
    /\ Len(line.exprs) % 2 = 1
    /\ \A i \in DOMAIN line.exprs :
        IF i % 2 = 1 THEN line.exprs[i].type = "COMMAND" /\ line.exprs[i].words # <<>>
                     ELSE line.exprs[i].type \in Operators
=============================================================================
