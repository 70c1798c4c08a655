-------------------------- MODULE ShellParserProps --------------------------
(***************************************************************************)
(* What the shell's parser promises to the main loop.                      *)
(***************************************************************************)
EXTENDS ShellParser

(* How a shell writes a word down: with every special character escaped, in *)
(* single quotes, or in double quotes.                                      *)
Special == {"sp", "bs", "sq", "dq", "|", "&", ">", "#"}
Escape(word, chars) ==
    FlattenSeq([i \in DOMAIN word |-> IF word[i] \in chars THEN <<"bs", word[i]>> ELSE <<word[i]>>])

Writings(word) ==
    (IF "nl" \in ToSet(word) THEN {} ELSE {Escape(word, Special)})
        \cup (IF "sq" \in ToSet(word) THEN {} ELSE {<<"sq">> \o word \o <<"sq">>})
        \cup {<<"dq">> \o Escape(word, {"bs", "dq"}) \o <<"dq">>}

(* The lines whose meaning is known because they were written from it: two  *)
(* words, a pipe, a redirection to the background and an empty line first.  *)
LineText(a, c, b, end) == a \o <<c>> \o b \o end
Around(v, w, c, end, line) ==
    {[text |-> LineText(a, c, b, end), line |-> line] : a \in Writings(v), b \in Writings(w)}

Written(v, w) ==
    LET words == [EmptyLine EXCEPT !.exprs = <<Command(<<v, w>>)>>]
        pipe == [EmptyLine EXCEPT !.exprs = <<Command(<<v>>), Operator("PIPE"), Command(<<w>>)>>]
        file == [EmptyLine EXCEPT !.exprs = <<Command(<<v>>)>>, !.out = "FILE_NEW",
                                  !.out_file = w, !.background = TRUE]
    IN  Around(v, w, "sp", <<"nl">>, words) \cup Around(v, w, "|", <<"sp", "nl">>, pipe)
            \cup Around(v, w, ">", <<"&", "nl">>, file)
            \cup {[x EXCEPT !.text = <<"nl", "sp">> \o @] : x \in Around(v, w, "sp", <<"#", "bs", "nl">>, words)}

(* Whoever knows what a text means has written it from two words. *)
WrittenInputs ==
    \A i \in Inputs : i.line # Null => \E v, w \in Seq(Chars) \ {<<>>} : i \in Written(v, w)

-----------------------------------------------------------------------------
(* A result is a line or an error. *)
TypeOK ==
    /\ phase \in {"read", "pop", "aborted"}
    /\ \A i \in DOMAIN popped : popped[i][2] # Null <=> popped[i][1] = "NONE"

(* What the shell executes is made of commands with an operator between any *)
(* two of them: solution.c:118 looks at the expression after a command for  *)
(* a pipe, and at 127 takes every COMMAND for one with an exe.              *)
LinesWellFormed ==
    /\ TypeOK
    /\ \A i \in DOMAIN popped : popped[i][2] # Null => WellFormed(popped[i][2])

(* The results of popping until nothing is left, with the whole text there. *)
Popped(rest, results) == [rest |-> rest, results |-> results]

PopResult(s, r) ==
    IF r.res = "ABORT" \/ (r.res = "NONE" /\ r.line = Null) \/ r.consumed = 0 THEN s
    ELSE Popped(Consume(s.rest, r.consumed), Append(s.results, <<r.res, r.line>>))

PopAll(s) == PopResult(s, pop_next(s.rest))

AllResults(text) == Repeated(PopAll, Popped(text, <<>>), Len(text)).results

(* How the input was cut into reads makes no difference: incomplete tokens, *)
(* operators that wait for their second character, bad lines without their  *)
(* end yet and comments are all parsed again when more arrives              *)
(* (parser.c:299 and 425).                                                  *)
SplitIndependent == phase # "pop" => popped = AllResults(fed)

(* The loop of solution.c:240-254 comes to an end after every read: a line  *)
(* or an error always takes something from the buffer, and an error whose   *)
(* line has not ended yet is not reported (parser.c:425).                   *)
PopsEnd == [][popped' # popped => Len(buffer') < Len(buffer)]_vars

(* A written line is read back as it was meant, in however many reads it    *)
(* comes (task_eng.txt:19-24 and 49-52: quoted strings with white space in  *)
(* them, comments, tokens without spaces).                                  *)
QuotingReadsBack ==
    phase # "pop" /\ input = <<>> /\ meant # Null =>
        phase = "read" /\ popped = <<<<"NONE", meant>>>>
=============================================================================
