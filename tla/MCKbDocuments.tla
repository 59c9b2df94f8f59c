---------------------------- MODULE MCKbDocuments ----------------------------
(***************************************************************************)
(* Instances of KbDocuments for TLC.                                        *)
(***************************************************************************)
EXTENDS KbDocuments

CONSTANTS d1, d2, k1, k2
=============================================================================
