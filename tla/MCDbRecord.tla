------------------------------ MODULE MCDbRecord ------------------------------
(***************************************************************************)
(* Instances of DbRecord for TLC.                                          *)
(***************************************************************************)
EXTENDS DbRecord, TLC

MCRows == DbRows

\* Contents are only compared with each other.
ContentSymmetry == Permutations(Contents)
===============================================================================
