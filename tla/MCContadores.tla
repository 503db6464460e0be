------------------------------ MODULE MCContadores ------------------------------
(* Entries with their balances, the counter that entries share with other documents, *)
(* the dates of documents and the details of an invoice.  They share no state: a      *)
(* behaviour is of one of the four, "parte".                                        *)
EXTENDS MCAsientos, Contadores, Fechas, LineasFactura, TLC

VARIABLE parte

\* Ten years from each: when the Gregorian calendar begins, and about the ends of centuries.
MCComienzos == {[y |-> 1582, m |-> 10, d |-> 15]}
               \cup {[y |-> a, m |-> 7, d |-> 1] : a \in {1595, 1695, 1795, 1895, 1995, 2095, 3989}}
MCDesfases  == {-1, 1, 91}

\* A note of two details and a note of one, and two documents to bring details from: an invoice
\* with the second note, and an order paid cash.
MCImporteDe  == [t \in Textos |-> IF t = "t1" THEN 1 ELSE 2]
MCLineasNota == [x \in Notas |-> IF x = "n1" THEN <<"t1", "t2">> ELSE <<"t2">>]
MCPagadoNota == [x \in Notas |-> IF x = "n1" THEN 1 ELSE 2]
MCOrigenes   ==
  {[forma |-> "aplazada", cobros |-> 1, entrega |-> 1,
    renglones |-> <<[texto |-> "t2", nota |-> "n2", nlinea |-> 0]>>],
   [forma |-> "contado", cobros |-> 0, entrega |-> 0,
    renglones |-> <<[texto |-> "t1", nota |-> SinNota, nlinea |-> 0]>>]}

UnEjercicio == \A f, g \in Fichas : ficha[f].ejercicio = ficha[g].ejercicio

InitContabilidad ==
  /\ parte \in {"saldos", "contadores", "fechas", "lineas"}
  /\ Init /\ InitContadores /\ InitFechas /\ InitLineas
  /\ parte # "lineas" => cabecera = [cliente |-> TRUE, forma |-> "contado"]
  /\ parte # "fechas" => calendario.y = 1582
  /\ parte # "contadores" =>
       ~usaContador /\ UnEjercicio

\* Bound: while there are rows without a number, or may be, the sessions are of one year and an
\* id is left free; and all the ids are in rows only with a receipt and what was left of it among
\* them, in sessions of one year.
TerceraConResto ==
  /\ \/ usaContador /\ \A i \in Registros : fila[i].hay => fila[i].contador # 0
     \/ UnEjercicio /\ \E i \in Registros : \A f \in Fichas : Libre(f, i)
  /\ \/ \E i \in Registros : ~fila[i].hay
     \/ UnEjercicio /\ \E i, j \in Registros : i # j /\ fila[i].origen = fila[j].origen

NextContabilidad ==
  /\ \/ parte = "saldos" /\ Next /\ UNCHANGED <<varContadores, varFechas, varLineas>>
     \/ parte = "contadores" /\ NextContadores /\ TerceraConResto'
                                /\ UNCHANGED <<vars, varFechas, varLineas>>
     \/ parte = "fechas" /\ NextFechas /\ UNCHANGED <<vars, varContadores, varLineas>>
     \/ parte = "lineas" /\ NextLineas /\ UNCHANGED <<vars, varContadores, varFechas>>
  /\ UNCHANGED parte

SpecContabilidad == InitContabilidad /\ [][NextContabilidad]_<<parte, vars, varContadores, varFechas, varLineas>>

\* The types of entries, of rows with a counter, and of an invoice and its grid.
TypeOKContabilidad == TypeOK /\ TypeOKContadores /\ TypeOKLineas

Simetria == Permutations(Fichas) \cup Permutations(Registros) \cup Permutations(Ejercicios)
=================================================================================
