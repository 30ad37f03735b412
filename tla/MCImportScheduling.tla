-------------------------- MODULE MCImportScheduling --------------------------
(***************************************************************************)
(* A small instance of ImportScheduling for TLC.                           *)
(***************************************************************************)
EXTENDS ImportScheduling, TLC

CONSTANTS a, w1, w2

MCInterval == a :> 2
=============================================================================
