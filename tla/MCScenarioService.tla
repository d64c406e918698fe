--------------------------- MODULE MCScenarioService ---------------------------
(***************************************************************************)
(* ScenarioService for TLC: two requests for scenarios and one upload on   *)
(* a pool of two connections, so that a slow upload and one request leave  *)
(* the other without one.                                                  *)
(***************************************************************************)
EXTENDS ScenarioService
=============================================================================
