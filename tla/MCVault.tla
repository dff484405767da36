------------------------------ MODULE MCVault ------------------------------
(* Vault with small sets for TLC. *)
EXTENDS Vault, TLC

\* Every scan submits the same content, or each its own.
SameBody == [s \in Scans |-> CHOOSE b \in Bodies : TRUE]
EightDays == {8}
AdminSymmetry == Permutations(Admins)
=============================================================================
