------------------------------ MODULE MCRecibos ------------------------------
(***************************************************************************)
(* Instances of Recibos for TLC.                                           *)
(***************************************************************************)
EXTENDS Recibos, TLC

\* Invoices and workstations are only compared with each other.
Simetria == Permutations(Facturas) \cup Permutations(Puestos)
===============================================================================
