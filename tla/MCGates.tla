------------------------------ MODULE MCGates -------------------------------
(* Values for model checking Gates, and the two algorithms on text, RuleText *)
(* and MasterKey, beside it. The three share no state: in a behaviour only   *)
(* one of them moves.                                                        *)
EXTENDS Gates, RuleText, MasterKey, TLC

VARIABLE part

MCInit == part \in {"gates", "rule", "key"} /\ Init /\ RuleInit
            /\ IF part = "key" THEN KeyInit
               ELSE origin = Missing /\ env = Missing /\ starts = 0 /\ keys = <<>>

MoveGates == part = "gates" /\ Next /\ UNCHANGED <<part, ruleVars, keyVars>>
MoveRule ==
    /\ part = "rule" /\ \E l \in Lexemes : WriteLexeme(l)
    /\ UNCHANGED <<part, vars, keyVars>>
MoveKey == part = "key" /\ EnsureMasterKey /\ UNCHANGED <<part, vars, ruleVars>>
Rest ==
    /\ (part = "rule" /\ lexemes = MaxLexemes) \/ (part = "key" /\ starts = MaxStarts)
    /\ UNCHANGED <<part, vars, ruleVars, keyVars>>

MCSpec == MCInit /\ [][MoveGates \/ MoveRule \/ MoveKey \/ Rest]_<<part, vars, ruleVars, keyVars>>

\* Contexts that hide braces, quotes, comments and their ends from countBraces.
SomeInsides ==
    {<<>>, <<"open">>, <<"close", "slash", "slash">>, <<"slash", "star">>,
     <<"backslash", "quote", "open">>, <<"backslash", "backslash">>}
SomeLineRemarks ==
    {<<>>, <<"close">>, <<"quote">>, <<"slash", "open">>, <<"star">>, <<"backslash">>}
SomeBlockRemarks == SomeLineRemarks \cup {<<"newline", "open">>, <<"slash">>}

AlertSymmetry == Permutations(Alerts)
=============================================================================
