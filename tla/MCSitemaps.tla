------------------------------ MODULE MCSitemaps ------------------------------
(***************************************************************************)
(* Small instances of Sitemaps for TLC.                                    *)
(***************************************************************************)
EXTENDS Sitemaps, TLC

CONSTANTS g1, g2
=============================================================================
