---------------------------- MODULE MCUserAccounts ----------------------------
(***************************************************************************)
(* UserAccounts for TLC.                                                   *)
(***************************************************************************)
EXTENDS UserAccounts, TLC

\* Requests are interchangeable, and so are ids, logins, names and phones.
Symmetry == Permutations(Requests) \union Permutations(Ids) \union Permutations(Logins)
            \union Permutations(Names) \union Permutations(Phones)
=============================================================================
