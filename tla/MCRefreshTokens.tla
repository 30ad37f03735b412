---------------------------- MODULE MCRefreshTokens ----------------------------
(***************************************************************************)
(* Small instances of RefreshTokens for TLC.                               *)
(***************************************************************************)
EXTENDS RefreshTokens, TLC

CONSTANTS u1, q1, q2
=============================================================================
