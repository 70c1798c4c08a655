---------------------------- MODULE MCShellParser ----------------------------
(***************************************************************************)
(* Instances of ShellParser for TLC.                                       *)
(***************************************************************************)
EXTENDS ShellParserProps

AllChars == {"a", "sp", "nl", "bs", "sq", "dq", "|", "&", ">", "#"}
Alphabet == {"a", "sp", "nl", "bs", "dq", "|", "&", ">", "#"}
WordChars == {"a", "sp", "nl", "bs", "sq", "dq", "|", "#"}

(* Everything of a length that fits, and lines written from their meaning. *)
Short == {<<p, q, r, s>> : p, q, r, s \in Alphabet}
Longer == {<<"a", p, q, r, "nl", "a", "nl">> : p, q, r \in Alphabet}
OneOrTwo == {<<x, y>> : x, y \in WordChars} \cup {<<x>> : x \in WordChars}
Unknown(texts) == {[text |-> t, line |-> Null] : t \in texts}
SomeInputs == Unknown(Short) \cup Unknown(Longer) \cup UNION {Written(v, <<"sp">>) : v \in OneOrTwo}
=============================================================================
