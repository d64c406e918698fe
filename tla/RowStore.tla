------------------------------- MODULE RowStore -------------------------------
(***************************************************************************)
(* How the ORM writes a row back.  A request loads a row, assigns to its   *)
(* attributes and commits; the UPDATE names only the columns whose new     *)
(* value differs from the loaded one.  Nothing locks the row in between,   *)
(* so the other columns keep what other requests committed meanwhile.      *)
(***************************************************************************)

\* The row after a request that loaded `loaded` and wants `wanted` commits to
\* a table that by now holds `stored`.
Flush(loaded, wanted, stored) ==
    [c \in DOMAIN stored |-> IF wanted[c] = loaded[c] THEN stored[c] ELSE wanted[c]]
=============================================================================
