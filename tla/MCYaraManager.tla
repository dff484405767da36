--------------------------- MODULE MCYaraManager ---------------------------
(* YaraManager with small sets for TLC: every rule has the same name. *)
EXTENDS YaraManager

OneName == [a \in Adds |-> CHOOSE n \in Names : TRUE]
=============================================================================
