----------------------------- MODULE MCAccounts -----------------------------
(* Accounts on small instances: symmetry of names that are only compared.  *)
EXTENDS Accounts, TLC

Symmetry == Permutations(User) \cup Permutations(ChangeOp) \cup Permutations(Password)

=============================================================================
