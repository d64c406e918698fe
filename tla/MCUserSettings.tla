---------------------------- MODULE MCUserSettings ----------------------------
(***************************************************************************)
(* UserSettings for TLC: two users who want the same two members, and two  *)
(* requests, whose statements fall between each other's commits.           *)
(***************************************************************************)
EXTENDS UserSettings
=============================================================================
