----------------------------- MODULE ShellParser -----------------------------
(***************************************************************************)
(* The parser of hw2/parser.c between the reads of the shell's main loop   *)
(* and the lines that it pops.                                             *)
(*                                                                         *)
(* "sp" stands for the white space that is not a new line, "nl" for a new  *)
(* line, "bs", "sq" and "dq" for \ ' and ".  Any member of Chars that is   *)
(* not named here is an ordinary character.  Positions start at 1.         *)
(***************************************************************************)
EXTENDS CommandLine, SequencesExt

CONSTANTS
    Null,
    Chars,          \* characters
    Inputs,         \* texts for the standard input, with the line one was written from
    Chunks          \* the sizes of the reads

ASSUME ParserAssumption ==
    /\ Chunks \subseteq Nat \ {0}
    /\ \A i \in Inputs : i.text \in Seq(Chars)
    /\ Null \notin Chars \cup Lines(Chars) \cup {"sq", "dq"}

VARIABLES
    meant,          \* the line that the whole input stands for, Null if not known
    input,          \* what is still to be read
    fed,            \* what has been read
    buffer,         \* the parser's buffer
    popped,         \* what parser_pop_next has returned, NONE with no line left out
    phase           \* "read", "pop", or "aborted" by an assertion

vars == <<meant, input, fed, buffer, popped, phase>>

-----------------------------------------------------------------------------
(* A loop: what turn makes of first in n turns. *)
Repeated(turn(_), first, n) ==
    LET s[j \in Nat] == IF j = 0 THEN first ELSE turn(s[j - 1])
    IN  s[n]

(* parse_token: a token has a type, its data and the position after it.    *)
(* NONE stands for a return of 0, ABORT for an assertion that fails.       *)

Token(t, data, next) == [type |-> t, data |-> data, next |-> next]
Incomplete == Token("NONE", <<>>, 0)
Abort == Token("ABORT", <<>>, 0)

(* Lines 202-246: two of a kind, or one, seen in the character after it. *)
OperatorToken(buf, p) ==
    IF p = Len(buf) THEN Incomplete
    ELSE LET c == buf[p]
             single == [x \in {"&", "|", ">"} |->
                 CASE x = "&" -> "BACKGROUND" [] x = "|" -> "PIPE" [] x = ">" -> "OUT_NEW"]
             double == [x \in {"&", "|", ">"} |->
                 CASE x = "&" -> "AND" [] x = "|" -> "OR" [] x = ">" -> "OUT_APPEND"]
         IN  IF buf[p + 1] = c THEN Token(double[c], <<>>, p + 2)
                               ELSE Token(single[c], <<>>, p + 1)

(* Lines 268-276. *)
Comment(buf, p) ==
    LET ends == {k \in p + 1 .. Len(buf) : buf[k] = "nl"}
    IN  IF ends = {} THEN Incomplete ELSE Token("NEW_LINE", <<>>, Min(ends) + 1)

BugEscapedBackslash(c, quote) ==
    CASE c = "nl"                   -> <<>>
      [] quote = "dq" /\ c # "dq"   -> <<"bs", c>>
      [] OTHER                      -> <<c>>

(* Lines 169-201: what a backslash and the character after it add. *)
Escaped(c, quote) ==
    CASE c = "nl"                               -> <<>>
      [] quote = "dq" /\ c \notin {"bs", "dq"}  -> <<"bs", c>>
      [] OTHER                                  -> <<c>>

(* Lines 152-284, a turn of the loop: quote is Null outside of quotes.  The  *)
(* loop is left by going to the end of the buffer with a token.              *)
Scanner(pos, quote, data, token) == [pos |-> pos, quote |-> quote, data |-> data, token |-> token]

Scan(buf, s) ==
    LET c == buf[s.pos]
        leave(t) == Scanner(Len(buf) + 1, s.quote, s.data, t)
        append == Scanner(s.pos + 1, s.quote, Append(s.data, c), Incomplete)
        enter == Scanner(s.pos + 1, c, s.data, Incomplete)
        escape == IF s.pos = Len(buf) THEN leave(Incomplete)
                  ELSE Scanner(s.pos + 2, s.quote, s.data \o Escaped(buf[s.pos + 1], s.quote), Incomplete)
    IN  CASE s.pos > Len(buf)                                   -> s
          [] s.pos <= Len(buf) /\ s.quote # Null                ->
                IF c = s.quote THEN leave(Token("STR", s.data, s.pos + 1))
                ELSE IF c = "bs" /\ s.quote = "dq" THEN escape ELSE append
          [] s.pos <= Len(buf) /\ s.quote = Null                ->
                CASE c = "bs"                                   -> escape
                  [] c \in {"sq", "dq"}                         -> enter
                  [] c \in {"sp", "nl"} /\ s.data = <<>>        -> leave(Abort)
                  [] c = "sp" /\ s.data # <<>>                  -> leave(Token("STR", s.data, s.pos + 1))
                  [] c \in {"nl", "#", "&", "|", ">"} /\ s.data # <<>> ->
                        leave(Token("STR", s.data, s.pos))
                  [] c \in {"&", "|", ">"} /\ s.data = <<>>     -> leave(OperatorToken(buf, s.pos))
                  [] c = "#" /\ s.data = <<>>                   -> leave(Comment(buf, s.pos))
                  [] OTHER                                      -> append

(* Each turn takes a character: as many as the buffer holds are enough. *)
Scanned(buf, start) ==
    LET turn(s) == Scan(buf, s) IN Repeated(turn, start, Len(buf)).token

(* Lines 141-151: the white space before the token. *)
ParseToken(buf, pos) ==
    LET starts == {k \in pos .. Len(buf) : buf[k] # "sp"}
    IN  IF starts = {} THEN Incomplete
        ELSE IF buf[Min(starts)] = "nl" THEN Token("NEW_LINE", <<>>, Min(starts) + 1)
        ELSE Scanned(buf, Scanner(Min(starts), Null, <<>>, Incomplete))

-----------------------------------------------------------------------------
(* parser_pop_next *)

Result(res, line, consumed) == [res |-> res, line |-> line, consumed |-> consumed]
NoLine == Result("NONE", Null, 0)
Aborts == Result("ABORT", Null, 0)

BugSkipIncomplete(buf, pos, res) ==
    LET ends == {k \in pos .. Len(buf) : buf[k] = "nl"}
    IN  Result(res, Null, IF ends = {} THEN Len(buf) ELSE Min(ends))

BugErrorNotReset(buf, pos, res) == Result(res, Null, 0)

(* A loop over tokens is left like the one over characters. *)
Reader(pos, line, result) == [pos |-> pos, line |-> line, result |-> result]

(* Lines 410-426: skip to a new line, or try again when it has arrived. *)
Skip(buf, s, res) ==
    LET t == ParseToken(buf, s.pos)
        leave(r) == Reader(Len(buf) + 1, s.line, r)
    IN  IF s.pos > Len(buf) THEN s
        ELSE CASE t.type = "NONE"                               -> leave(NoLine)
               [] t.type = "ABORT"                              -> leave(Aborts)
               [] t.type = "NEW_LINE"                           -> leave(Result(res, Null, t.next - 1))
               [] t.type \notin {"NONE", "ABORT", "NEW_LINE"}   -> Reader(t.next, s.line, NoLine)

SkipLine(buf, pos, res) ==
    LET turn(s) == Skip(buf, s, res)
    IN  Repeated(turn, Reader(pos, EmptyLine, NoLine), Len(buf)).result

(* Lines 396-408: the line ends with token t. *)
EndLine(buf, t, line) ==
    CASE t.type = "NONE"                                        -> NoLine
      [] t.type = "ABORT"                                       -> Aborts
      [] t.type \notin {"NONE", "ABORT", "NEW_LINE"}            ->
            SkipLine(buf, t.next, "TOO_LATE_ARGUMENTS")
      [] t.type = "NEW_LINE"                                    ->
            IF line.exprs = <<>> THEN Aborts
            ELSE IF Last(line.exprs).type = "COMMAND" THEN Result("NONE", line, t.next - 1)
            ELSE Result("ENDS_NOT_WITH_A_COMMAND", Null, t.next - 1)

(* Lines 389-395. *)
Background(buf, t, line) ==
    IF t.type = "BACKGROUND"
    THEN EndLine(buf, ParseToken(buf, t.next), [line EXCEPT !.background = TRUE])
    ELSE EndLine(buf, t, line)

(* Lines 368-388. *)
Redirect(buf, t, line) ==
    LET file == ParseToken(buf, t.next)
        out == IF t.type = "OUT_NEW" THEN "FILE_NEW" ELSE "FILE_APPEND"
        redirected == [line EXCEPT !.out = out, !.out_file = file.data]
    IN  CASE file.type = "NONE"                                 -> NoLine
          [] file.type = "ABORT"                                -> Aborts
          [] file.type \notin {"NONE", "ABORT", "STR"}          ->
                SkipLine(buf, file.next, "OUTOUT_REDIRECT_BAD_ARG")
          [] file.type = "STR"                                  ->
                IF file.data = <<>> THEN Aborts
                ELSE Background(buf, ParseToken(buf, file.next), redirected)

(* Lines 304-313: a word is added to the last command or starts one. *)
AddWord(line, word) ==
    LET n == Len(line.exprs)
    IN  IF n > 0 /\ line.exprs[n].type = "COMMAND"
        THEN [line EXCEPT !.exprs[n].words = Append(@, word)]
        ELSE [line EXCEPT !.exprs = Append(@, Command(<<word>>))]

BugNoLeftCheck(line, t) == "NONE"

(* Lines 319-357. *)
OperatorError(line, t) ==
    LET no_left == CASE t = "PIPE" -> "PIPE_WITH_NO_LEFT_ARG"
                     [] t = "AND"  -> "AND_WITH_NO_LEFT_ARG"
                     [] t = "OR"   -> "OR_WITH_NO_LEFT_ARG"
        bad_left == CASE t = "PIPE" -> "PIPE_WITH_LEFT_ARG_NOT_A_COMMAND"
                      [] t = "AND"  -> "AND_WITH_LEFT_ARG_NOT_A_COMMAND"
                      [] t = "OR"   -> "OR_WITH_LEFT_ARG_NOT_A_COMMAND"
    IN  IF line.exprs = <<>> THEN no_left
        ELSE IF Last(line.exprs).type # "COMMAND" THEN bad_left ELSE "NONE"

(* Lines 297-366, a turn of the loop. *)
Parse(buf, s) ==
    LET t == ParseToken(buf, s.pos)
        err == OperatorError(s.line, t.type)
        leave(r) == Reader(Len(buf) + 1, s.line, r)
        go(line) == Reader(t.next, line, NoLine)
    IN  IF s.pos > Len(buf) THEN s
        ELSE CASE t.type = "NONE"                       -> leave(NoLine)
               [] t.type = "ABORT"                      -> leave(Aborts)
               [] t.type = "STR"                        ->
                    IF t.data = <<>> THEN leave(Aborts) ELSE go(AddWord(s.line, t.data))
               [] t.type = "NEW_LINE"                   ->
                    IF s.line.exprs = <<>> THEN go(s.line) ELSE leave(EndLine(buf, t, s.line))
               [] t.type \in Operators                  ->
                    IF err # "NONE" THEN leave(SkipLine(buf, t.next, err))
                    ELSE go([s.line EXCEPT !.exprs = Append(@, Operator(t.type))])
               [] t.type \in {"OUT_NEW", "OUT_APPEND"}  -> leave(Redirect(buf, t, s.line))
               [] t.type = "BACKGROUND"                 -> leave(Background(buf, t, s.line))

(* Lines 287-435. *)
pop_next(buf) ==
    LET turn(s) == Parse(buf, s)
    IN  Repeated(turn, Reader(1, EmptyLine, NoLine), Len(buf)).result

-----------------------------------------------------------------------------
Init ==
    /\ \E i \in Inputs : input = i.text /\ meant = i.line
    /\ fed = <<>> /\ buffer = <<>> /\ popped = <<>> /\ phase = "read"

(* Lines 110-124, and the read of solution.c:237-238. *)
Feed(n) ==
    /\ phase = "read" /\ n <= Len(input)
    /\ LET chunk == SubSeq(input, 1, n) IN
       /\ fed' = fed \o chunk /\ buffer' = buffer \o chunk
       /\ input' = SubSeq(input, n + 1, Len(input))
    /\ phase' = "pop"
    /\ UNCHANGED <<meant, popped>>

(* Lines 126-136. *)
Consume(buf, n) == SubSeq(buf, n + 1, Len(buf))

(* parser_pop_next, from the loop of solution.c:240-254. *)
Pop ==
    /\ phase = "pop"
    /\ \E r \in {pop_next(buffer)} :
       \/ /\ r.res = "ABORT"
          /\ phase' = "aborted" /\ UNCHANGED <<buffer, popped>>
       \/ /\ r.res = "NONE" /\ r.line = Null
          /\ phase' = "read" /\ UNCHANGED <<buffer, popped>>
       \/ /\ r.res \notin {"ABORT", "NONE"} \/ r.line # Null
          /\ buffer' = Consume(buffer, r.consumed)
          /\ popped' = Append(popped, <<r.res, r.line>>)
          /\ UNCHANGED phase
    /\ UNCHANGED <<meant, input, fed>>

Step == Pop \/ \E n \in Chunks : Feed(n)
Ended == phase = "aborted" \/ (phase = "read" /\ input = <<>>)
Next == Step \/ (Ended /\ UNCHANGED vars)
Spec == Init /\ [][Next]_vars
=============================================================================
