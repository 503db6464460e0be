------------------------------ MODULE MCAsientos ------------------------------
(***************************************************************************)
(* Instances of Asientos for TLC: two working accounts under a subgroup    *)
(* that was never created, under a group that was, in each company.        *)
(***************************************************************************)
EXTENDS Asientos

CONSTANTS banco, caja, subgrupo, grupo

MCCodigos    == {banco, caja, subgrupo, grupo}
MCApuntables == {banco, caja}
MCSuperior   ==
  [k \in MCCodigos |-> IF k = grupo THEN Nada ELSE IF k = subgrupo THEN grupo ELSE subgrupo]
MCImportes   == {-1, 2}
MCCuentas    == Empresas \X {banco, caja, grupo}
===============================================================================
