------------------------------- MODULE MCShell -------------------------------
(***************************************************************************)
(* Instances of Shell for TLC.                                             *)
(***************************************************************************)
EXTENDS ShellProps

Line(exprs) == [EmptyLine EXCEPT !.exprs = exprs]
Pipe == Operator("PIPE")
And == Operator("AND")
Run == Command(<<"run">>)
Bad == Command(<<"bad">>)
BadArg == Command(<<"bad", 1>>)
BadStays == Command(<<"bad", -1>>)
Cd == Command(<<"cd">>)
ExitOne == Command(<<"exit", 1>>)
ExitStays == Command(<<"exit", -1>>)

Singles == {Line(<<Run>>), Line(<<BadArg>>), Line(<<ExitOne>>), Line(<<ExitStays>>), BadLine,
            [Line(<<Run>>) EXCEPT !.out = "FILE_NEW"]}
Pairs == {Line(<<x, o, y>>) : x \in {Run, Cd, ExitOne}, y \in {Run, Bad, ExitOne, Cd}, o \in {Pipe, And}}
Triples == {Line(<<Run, o, x, Pipe, Run>>) : x \in {Run, Cd}, o \in {Pipe, And}}
               \cup {Line(<<Run, Pipe, Run, And, Run>>), Line(<<Run, Pipe, BadStays, Pipe, Run>>)}
SomeScripts ==
    {<<a, b>> : a \in Singles, b \in Singles} \cup {<<a, Line(<<Run>>)>> : a \in Pairs}
        \cup {<<a>> : a \in Triples}
=============================================================================
