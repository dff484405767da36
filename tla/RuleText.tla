------------------------------ MODULE RuleText ------------------------------
(***************************************************************************)
(* The text of a rule, whose braces ValidateRule (internal/yara/           *)
(* validator.go) wants balanced: countBraces goes over the characters      *)
(* once, with its modes, an escape flag and one character of lookahead.    *)
(* A character is one of                                                   *)
(*    "open" "close" "quote" "backslash" "slash" "star" "newline" "letter".*)
(***************************************************************************)
EXTENDS Naturals, Sequences

Scanner == [mode |-> "code", escaped |-> FALSE, skip |-> FALSE, open |-> 0, close |-> 0]

Enter(st, mode) == [st EXCEPT !.mode = mode, !.escaped = FALSE]
EnterOver(st, mode) == [Enter(st, mode) EXCEPT !.skip = TRUE]   \* i++

InLineComment(st, c) == IF c = "newline" THEN Enter(st, "code") ELSE st

InBlockComment(st, c, next) ==
    IF c = "star" /\ next = "slash" THEN EnterOver(st, "code") ELSE st

InStringUnescaped(st, c) == IF c = "quote" THEN Enter(st, "code") ELSE st
InString(st, c) ==
    CASE st.escaped -> [st EXCEPT !.escaped = FALSE]
      [] ~st.escaped /\ c = "backslash" -> [st EXCEPT !.escaped = TRUE]
      [] ~st.escaped /\ c = "quote" -> Enter(st, "code")
      [] OTHER -> st

InCode(st, c, next) ==
    CASE c = "slash" /\ next = "slash" -> EnterOver(st, "line")
      [] c = "slash" /\ next = "star"  -> EnterOver(st, "block")
      [] c = "quote" -> Enter(st, "string")
      [] c = "open"  -> [st EXCEPT !.open = @ + 1]
      [] c = "close" -> [st EXCEPT !.close = @ + 1]
      [] OTHER -> st

\* One turn of the loop at c; next is the character after it.
Turn(st, c, next) ==
    CASE st.skip -> [st EXCEPT !.skip = FALSE]
      [] ~st.skip /\ st.mode = "line"   -> InLineComment(st, c)
      [] ~st.skip /\ st.mode = "block"  -> InBlockComment(st, c, next)
      [] ~st.skip /\ st.mode = "string" -> InString(st, c)
      [] ~st.skip /\ st.mode = "code"   -> InCode(st, c, next)

At(s, i) == IF i \in DOMAIN s THEN s[i] ELSE "end"

\* The loop: what the scanner knows after i turns.
Scan(s) ==
    LET scan[i \in 0..Len(s)] ==
            IF i = 0 THEN Scanner ELSE Turn(scan[i - 1], s[i], At(s, i + 1))
    IN scan

countBraces(s) == LET end == Scan(s)[Len(s)] IN <<end.open, end.close>>

-----------------------------------------------------------------------------
(* The reference: a text put together from the lexemes of YARA, each with   *)
(* the braces it contributes. Regular expressions between slashes are not   *)
(* among them, since countBraces does not know them.                        *)

CONSTANTS
    Insides,        \* what stands in a string
    LineRemarks,    \* what stands in a comment to the end of the line
    BlockRemarks,   \* what stands in a block comment
    MaxLexemes      \* bound: how many lexemes a text has

Characters ==
    {"open", "close", "quote", "backslash", "slash", "star", "newline", "letter"}

\* A backslash that is not escaped escapes the next character; no quote but an
\* escaped one stands inside a string, and the quote that ends it is not escaped.
Quotable(t) ==
    \E escapes \in [0..Len(t) -> BOOLEAN] :
        /\ ~escapes[0] /\ ~escapes[Len(t)]
        /\ \A i \in 1..Len(t) :
            /\ escapes[i] <=> t[i] = "backslash" /\ ~escapes[i - 1]
            /\ t[i] = "quote" => escapes[i - 1]

ASSUME RuleConstants ==
    /\ Insides \cup LineRemarks \cup BlockRemarks \subseteq Seq(Characters)
    /\ \A t \in Insides : Quotable(t)
    /\ \A t \in LineRemarks : \A i \in 1..Len(t) : t[i] # "newline"
    /\ \A t \in BlockRemarks : \A i \in 1..(Len(t) - 1) : ~(t[i] = "star" /\ t[i + 1] = "slash")

VARIABLES
    rule,       \* the text
    braces,     \* how many braces of each kind its lexemes contribute
    lexemes     \* how many lexemes it has

Lexeme(text, open, close) == [text |-> text, open |-> open, close |-> close]

Strings == {Lexeme(<<"quote">> \o t \o <<"quote">>, 0, 0) : t \in Insides}
Comments ==
    {Lexeme(<<"slash", "slash">> \o t \o <<"newline">>, 0, 0) : t \in LineRemarks} \cup
    {Lexeme(<<"slash", "star">> \o t \o <<"star", "slash">>, 0, 0) : t \in BlockRemarks}
Codes ==
    {Lexeme(<<"open">>, 1, 0), Lexeme(<<"close">>, 0, 1), Lexeme(<<"slash", "letter">>, 0, 0)} \cup
    {Lexeme(<<c>>, 0, 0) : c \in {"letter", "star", "backslash", "newline"}}
Lexemes == Strings \cup Comments \cup Codes

ruleVars == <<rule, braces, lexemes>>

RuleInit == rule = <<>> /\ braces = <<0, 0>> /\ lexemes = 0
WriteLexeme(l) ==
    /\ lexemes < MaxLexemes /\ lexemes' = lexemes + 1
    /\ rule' = rule \o l.text
    /\ braces' = <<braces[1] + l.open, braces[2] + l.close>>

RuleSpec == RuleInit /\ [][\E l \in Lexemes : WriteLexeme(l)]_ruleVars

\* countBraces finds the braces that are code, and no other: a quote in a
\* comment opens no string, "//" in a string no comment, an escaped quote ends
\* no string, an escaped backslash before a quote does not escape it, and the
\* slash that ends a comment starts none.
BracesAreCounted == countBraces(rule) = braces
=============================================================================
