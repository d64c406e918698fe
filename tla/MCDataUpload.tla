----------------------------- MODULE MCDataUpload -----------------------------
(***************************************************************************)
(* DataUpload for TLC.                                                     *)
(***************************************************************************)
EXTENDS DataUpload
=============================================================================
