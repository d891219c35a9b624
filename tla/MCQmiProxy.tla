----------------------------- MODULE MCQmiProxy -----------------------------
(* QmiProxy with interchangeable descriptors and interchangeable ids. *)
EXTENDS QmiProxy, TLC

Perms == Permutations(Fds) \union Permutations(Ids)
=============================================================================
