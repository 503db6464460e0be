---------------------------- MODULE Recibos_proofs ----------------------------
(***************************************************************************)
(* Proofs about Recibos, for every value of the constants that a theorem   *)
(* does not restrict: the types with any workstations, and with one        *)
(* workstation what its two forms do to the receipts, the totals and what  *)
(* is left to collect.                                                     *)
(***************************************************************************)
EXTENDS Recibos, Sumas_proofs, TLAPS

EsFila(r) ==
  r = [fac |-> r.fac, imp |-> r.imp, resto |-> r.resto, est |-> r.est, fecha |-> r.fecha]
Objeto(i, f, m, r, e, d) ==
  [id |-> i, fac |-> f, imp |-> m, resto |-> r, est |-> e, fecha |-> d]
EsObjeto(o) == o = Objeto(o.id, o.fac, o.imp, o.resto, o.est, o.fecha)

\* The shapes of the variables that the proofs look into.
Formas ==
  /\ ultimo \in Nat
  /\ recibo = [i \in Ids |-> recibo[i]]
  /\ rec = [p \in Puestos |-> rec[p]]
  /\ pago = [p \in Puestos |-> pago[p]]
  /\ paso = [p \in Puestos |-> paso[p]]
  /\ quitar = [p \in Puestos |-> quitar[p]]
  /\ fra = [p \in Puestos |-> fra[p]]
  /\ \A i \in Ids : recibo[i] # Nada => EsFila(recibo[i]) /\ i <= ultimo

\* The object in the receipts form is what the database holds, unless the receipt
\* has gone: nobody else writes it.
Coherente(p) ==
  rec[p] # Nada \/ pago[p].fase # "no" =>
    /\ EsObjeto(rec[p])
    /\ rec[p].id \in Ids /\ rec[p].id <= ultimo
    /\ recibo[rec[p].id] # Nada => recibo[rec[p].id] = Fila(rec[p])

\* What is being paid is pending, and nothing is being paid while the invoice form
\* saves or removes.
CobroEnCurso(p) ==
  /\ pago[p].fase \in {"preguntar", "multiple"} => rec[p].est = "pendiente"
  /\ paso[p] \notin {"libre", "editando"} => pago[p].fase = "no"

\* No paid receipt is about to be deleted.
NoSeQuitaPagado(p) ==
  /\ quitar[p] \subseteq Ids
  /\ \A i \in quitar[p] : recibo[i] # Nada => recibo[i].est # "pagado"
  /\ quitar[p] # {} => paso[p] \in {"quitar", "borrar"}
  /\ paso[p] = "confirmando" => DeEstado(fra[p].fac, "pagado") = {}

IInv ==
  /\ Formas
  /\ RecibosCuadrados
  /\ \A p \in Puestos : Coherente(p) /\ CobroEnCurso(p) /\ NoSeQuitaPagado(p)

-------------------------------------------------------------------------------
(* The object of the form after its fields are changed, one at a time.     *)

\* pagarRecibo sets ESTADORECIBO, IMPORTE and RESTO of the object one by one: what
\* the object is after the three.
LEMMA Pagar ==
  ASSUME NEW o, EsObjeto(o), NEW m
  PROVE  Pagado(o, m) = Objeto(o.id, o.fac, m, 0, "pagado", o.fecha)
<1>1. ASSUME NEW i, NEW f, NEW n, NEW r, NEW e, NEW d, o = Objeto(i, f, n, r, e, d)
      PROVE  Pagado(o, m) = Objeto(i, f, m, 0, "pagado", d)
  <2>1. [o EXCEPT !.est = "pagado"] = Objeto(i, f, n, r, "pagado", d)
    BY <1>1 DEF Objeto
  <2>2. [Objeto(i, f, n, r, "pagado", d) EXCEPT !.imp = m] = Objeto(i, f, m, r, "pagado", d)
    BY DEF Objeto
  <2>3. [Objeto(i, f, m, r, "pagado", d) EXCEPT !.resto = 0] = Objeto(i, f, m, 0, "pagado", d)
    BY DEF Objeto
  <2>4. Pagado(o, m) = [[[o EXCEPT !.est = "pagado"] EXCEPT !.imp = m] EXCEPT !.resto = 0]
    BY DEF Pagado
  <2> QED
    BY <2>1, <2>2, <2>3, <2>4
<1> QED
  BY <1>1 DEF EsObjeto

\* anularPagoRecibo sets ESTADORECIBO and RESTO of the object.
LEMMA Anular ==
  ASSUME NEW o, EsObjeto(o), NEW m
  PROVE  [o EXCEPT !.est = "pendiente", !.resto = m] =
           Objeto(o.id, o.fac, o.imp, m, "pendiente", o.fecha)
<1>1. ASSUME NEW i, NEW f, NEW n, NEW r, NEW e, NEW d, o = Objeto(i, f, n, r, e, d)
      PROVE  [o EXCEPT !.est = "pendiente", !.resto = m] = Objeto(i, f, n, m, "pendiente", d)
  <2>1. [o EXCEPT !.est = "pendiente"] = Objeto(i, f, n, r, "pendiente", d)
    BY <1>1 DEF Objeto
  <2>2. [Objeto(i, f, n, r, "pendiente", d) EXCEPT !.resto = m] =
          Objeto(i, f, n, m, "pendiente", d)
    BY DEF Objeto
  <2>3. [o EXCEPT !.est = "pendiente", !.resto = m] =
          [[o EXCEPT !.est = "pendiente"] EXCEPT !.resto = m]
    OBVIOUS
  <2> QED
    BY <2>1, <2>2, <2>3
<1> QED
  BY <1>1 DEF EsObjeto

\* The rest of a partial payment: pagarRecibo makes the object a new, pending one.
LEMMA Renovar ==
  ASSUME NEW o, EsObjeto(o), NEW k, NEW m
  PROVE  [o EXCEPT !.id = k, !.est = "pendiente", !.imp = m, !.resto = m] =
           Objeto(k, o.fac, m, m, "pendiente", o.fecha)
<1>1. ASSUME NEW i, NEW f, NEW n, NEW r, NEW e, NEW d, o = Objeto(i, f, n, r, e, d)
      PROVE  [o EXCEPT !.id = k, !.est = "pendiente", !.imp = m, !.resto = m] =
               Objeto(k, f, m, m, "pendiente", d)
  <2>1. [o EXCEPT !.id = k] = Objeto(k, f, n, r, e, d)
    BY <1>1 DEF Objeto
  <2>2. [Objeto(k, f, n, r, e, d) EXCEPT !.est = "pendiente"] =
          Objeto(k, f, n, r, "pendiente", d)
    BY DEF Objeto
  <2>3. [Objeto(k, f, n, r, "pendiente", d) EXCEPT !.imp = m] =
          Objeto(k, f, m, r, "pendiente", d)
    BY DEF Objeto
  <2>4. [Objeto(k, f, m, r, "pendiente", d) EXCEPT !.resto = m] =
          Objeto(k, f, m, m, "pendiente", d)
    BY DEF Objeto
  <2>5. [o EXCEPT !.id = k, !.est = "pendiente", !.imp = m, !.resto = m] =
          [[[[o EXCEPT !.id = k] EXCEPT !.est = "pendiente"] EXCEPT !.imp = m]
             EXCEPT !.resto = m]
    OBVIOUS
  <2> QED
    BY <2>1, <2>2, <2>3, <2>4, <2>5
<1> QED
  BY <1>1 DEF EsObjeto

\* An edition in the receipts form changes the date of the object only.
LEMMA Fechar ==
  ASSUME NEW o, EsObjeto(o), NEW d
  PROVE  [o EXCEPT !.fecha = d] = Objeto(o.id, o.fac, o.imp, o.resto, o.est, d)
<1>1. ASSUME NEW i, NEW f, NEW n, NEW r, NEW e, NEW c, o = Objeto(i, f, n, r, e, c)
      PROVE  [o EXCEPT !.fecha = d] = Objeto(i, f, n, r, e, d)
  BY <1>1 DEF Objeto
<1> QED
  BY <1>1 DEF EsObjeto

\* The fields, and the row, of an object that is built from them.
LEMMA CamposDeObjeto ==
  ASSUME NEW i, NEW f, NEW m, NEW r, NEW e, NEW d
  PROVE  LET o == Objeto(i, f, m, r, e, d) IN
           /\ EsObjeto(o) /\ o.id = i /\ o.imp = m /\ o.resto = r /\ o.est = e
           /\ Fila(o) = [fac |-> f, imp |-> m, resto |-> r, est |-> e, fecha |-> d]
  BY DEF EsObjeto, Objeto, Fila

-------------------------------------------------------------------------------
(* What a save of the receipt in the form does.                            *)

\* An UPDATE of the modified fields on the row as it was read gives the new row.
LEMMA ModificaTodo ==
  ASSUME NEW a, NEW b, EsFila(a), EsFila(b)
  PROVE  Modifica(a, a, b) = b
  BY DEF Modifica, EsFila

\* When the form holds what is stored, an UPDATE of the modified fields leaves
\* stored what the form holds.
LEMMA GuardaLoQueTiene ==
  ASSUME NEW o, NEW n, n.id = o.id,
         recibo[o.id] # Nada => recibo[o.id] = Fila(o)
  PROVE  GuardaRecibo(o, n) =
           IF recibo[o.id] = Nada THEN recibo ELSE [recibo EXCEPT ![o.id] = Fila(n)]
<1>1. EsFila(Fila(o)) /\ EsFila(Fila(n))
  BY DEF EsFila, Fila
<1>2. Modifica(Fila(o), Fila(o), Fila(n)) = Fila(n)
  BY <1>1, ModificaTodo
<1> QED
  BY <1>2 DEF GuardaRecibo

-------------------------------------------------------------------------------
(* The inductive invariant.                                                *)

\* An empty database, with every form closed, has the inductive invariant.
THEOREM InicioIInv ==
  Init => IInv
  BY DEF Init, IInv, Formas, Coherente, CobroEnCurso, NoSeQuitaPagado, RecibosCuadrados,
         SinPago, DeEstado, De, Ids

\* A step of the invoice form that leaves the receipts and the receipts form
\* alone.
LEMMA SoloForma ==
  ASSUME NEW q, Puestos = {q}, IInv,
         UNCHANGED <<recibo, ultimo, cobro>>,
         paso' = [p \in Puestos |-> paso'[p]], quitar' = [p \in Puestos |-> quitar'[p]],
         fra' = [p \in Puestos |-> fra'[p]],
         CobroEnCurso(q)', NoSeQuitaPagado(q)'
  PROVE  IInv'
  BY DEF IInv, Formas, Coherente, RecibosCuadrados, cobro, Ids, EsFila, EsObjeto, Objeto, Fila

\* A step of the receipts form on one receipt, which becomes what the form holds.
LEMMA SoloRecibo ==
  ASSUME NEW q, Puestos = {q}, IInv, NEW n, EsObjeto(n), n.id = rec[q].id,
         rec[q] # Nada \/ pago[q].fase # "no",
         n.resto = IF n.est = "pagado" THEN 0 ELSE n.imp,
         recibo' = GuardaRecibo(rec[q], n),
         rec' = [rec EXCEPT ![q] = n], pago' = [p \in Puestos |-> pago'[p]],
         UNCHANGED <<ultimo, forma>>,
         CobroEnCurso(q)',
         paso[q] \in {"libre", "editando"}
  PROVE  IInv'
<1> DEFINE k == rec[q].id
<1>1. /\ EsObjeto(rec[q]) /\ k \in Ids /\ k <= ultimo
      /\ recibo[k] # Nada => recibo[k] = Fila(rec[q])
  BY DEF IInv, Coherente
<1>2. recibo' = IF recibo[k] = Nada THEN recibo ELSE [recibo EXCEPT ![k] = Fila(n)]
  BY <1>1, GuardaLoQueTiene
<1>3. \A i \in Ids : recibo'[i] = IF i = k /\ recibo[k] # Nada THEN Fila(n) ELSE recibo[i]
  BY <1>1, <1>2 DEF IInv, Formas
<1>4. EsFila(Fila(n)) /\ Fila(n).resto = n.resto /\ Fila(n).imp = n.imp /\ Fila(n).est = n.est
  BY DEF Fila, EsFila
<1>5. Formas'
  BY <1>1, <1>2, <1>3, <1>4 DEF IInv, Formas, forma, Ids
<1>6. RecibosCuadrados'
  BY <1>3, <1>4 DEF IInv, RecibosCuadrados, Ids
<1>7. rec'[q] = n
  BY DEF IInv, Formas
<1>8. Coherente(q)'
  BY <1>1, <1>3, <1>7 DEF Coherente, Ids
<1>9. NoSeQuitaPagado(q)'
  BY DEF NoSeQuitaPagado, IInv, forma
<1> QED
  BY <1>5, <1>6, <1>8, <1>9 DEF IInv, forma

-------------------------------------------------------------------------------
(* Each action keeps the invariant.                                        *)

\* One round of genPagos inserts a pending receipt owed in full, under an id that
\* no form holds.
LEMMA GeneraIInv ==
  ASSUME NEW q, Puestos = {q}, IInv, GeneraRecibo(q)
  PROVE  IInv'
<1> USE DEF IInv, Formas
<1>1. /\ paso[q] = "generar" /\ quitar[q] = {} /\ pago[q].fase = "no"
      /\ UNCHANGED cobro
  BY DEF GeneraRecibo, NoSeQuitaPagado, CobroEnCurso
<1>2. SiguientePlazo(q)
  BY DEF GeneraRecibo
<1>3. /\ paso'[q] \in {"libre", "generar"} /\ quitar'[q] = {}
      /\ paso' = [p \in Puestos |-> paso'[p]] /\ quitar' = [p \in Puestos |-> quitar'[p]]
      /\ fra' = [p \in Puestos |-> fra'[p]]
  BY <1>1, <1>2 DEF SiguientePlazo, Cierra, Pon
<1>4. CobroEnCurso(q)' /\ NoSeQuitaPagado(q)'
  BY <1>1, <1>3 DEF CobroEnCurso, NoSeQuitaPagado, cobro
<1>5. CASE UNCHANGED <<recibo, ultimo>>
  BY <1>1, <1>3, <1>4, <1>5, SoloForma
<1>6. CASE ~UNCHANGED <<recibo, ultimo>>
  <2> PICK r : /\ EsFila(r) /\ r.est = "pendiente" /\ r.resto = r.imp
               /\ ultimo < MaxRecibos /\ ultimo' = ultimo + 1
               /\ recibo' = [recibo EXCEPT ![ultimo + 1] = r]
    BY <1>6 DEF GeneraRecibo, EsFila
  <2>1. ultimo + 1 \in Ids
    BY NumeroAssumption DEF Ids
  <2>2. \A i \in Ids : recibo'[i] = IF i = ultimo + 1 THEN r ELSE recibo[i]
    BY <2>1
  <2>3. \A i \in Ids : recibo'[i] # Nada => EsFila(recibo'[i]) /\ i <= ultimo'
    BY <2>2 DEF Ids
  <2>4. Formas'
    <3>1. recibo' = [i \in Ids |-> recibo'[i]]
      OBVIOUS
    <3>2. ultimo' \in Nat
      OBVIOUS
    <3> HIDE DEF Formas
    <3>3. UNCHANGED <<rec, pago>>
      BY <1>1 DEF cobro
    <3>4. /\ rec' = [p \in Puestos |-> rec'[p]]
          /\ pago' = [p \in Puestos |-> pago'[p]]
      BY <3>3 DEF Formas
    <3> QED
      BY <1>3, <2>3, <3>1, <3>2, <3>4 DEF Formas, Ids
  <2>5. RecibosCuadrados'
    BY <2>2 DEF RecibosCuadrados, Ids
  <2>6. Coherente(q)'
    BY <1>1, <2>2 DEF Coherente, cobro, Ids, EsObjeto, Objeto, Fila
  <2> QED
    BY <1>4, <2>4, <2>5, <2>6
<1> QED
  BY <1>5, <1>6

\* Every step of the invoice form: what delPagos has selected stays pending, since
\* the only receipts form of the workstation waits for the save to end.
LEMMA PasoFormaFactura ==
  ASSUME NEW q, Puestos = {q}, IInv, FormaFactura(q)
  PROVE  IInv'
<1> USE DEF IInv, Formas
<1> DEFINE Quieto == UNCHANGED <<recibo, ultimo, cobro>>
<1>1. ASSUME NEW o, NEW sig, Abre(q, o, sig),
             sig = "editando" \/ (sig = "confirmando" /\ DeEstado(o.fac, "pagado") = {})
      PROVE  IInv'
  <2>1. paso'[q] = sig /\ fra'[q] = o /\ quitar[q] = {}
    BY <1>1 DEF Abre, Pon, NoSeQuitaPagado
  <2>2. Quieto /\ quitar' = quitar
    BY <1>1 DEF Abre, bd
  <2>3. CobroEnCurso(q)'
    BY <1>1, <2>1, <2>2 DEF Abre, CobroEnCurso, cobro, SinPago
  <2>4. NoSeQuitaPagado(q)'
    BY <1>1, <2>1, <2>2 DEF NoSeQuitaPagado, DeEstado, De
  <2> QED
    BY <1>1, <2>2, <2>3, <2>4, SoloForma DEF Abre, Pon
<1>2. ASSUME Cierra(q), Quieto
      PROVE  IInv'
  <2>1. paso'[q] = "libre" /\ quitar'[q] = {}
    BY <1>2 DEF Cierra, Pon
  <2>2. CobroEnCurso(q)' /\ NoSeQuitaPagado(q)'
    BY <1>2, <2>1 DEF CobroEnCurso, NoSeQuitaPagado, cobro
  <2> QED
    BY <1>2, <2>2, SoloForma DEF Cierra, Pon
<1>3. CASE NuevaFactura(q)
  BY <1>3, <1>1 DEF NuevaFactura
<1>4. CASE ModificaFactura(q)
  BY <1>4, <1>1 DEF ModificaFactura
<1>5. CASE Cancela(q)
  BY <1>5, <1>2 DEF Cancela, bd
<1>6. CASE GuardaFactura(q)
  <2>1. Quieto /\ paso'[q] = "quitar" /\ quitar'[q] = DeEstado(fra[q].fac, "pendiente")
    BY <1>6 DEF GuardaFactura, Pon
  <2>2. CobroEnCurso(q)'
    BY <1>6, <2>1 DEF GuardaFactura, CobroEnCurso, cobro, SinPago
  <2>3. NoSeQuitaPagado(q)'
    BY <2>1 DEF NoSeQuitaPagado, DeEstado, De
  <2> QED
    BY <1>6, <2>1, <2>2, <2>3, SoloForma DEF GuardaFactura, Pon
<1>7. CASE PideBorrar(q)
  BY <1>7, <1>1 DEF PideBorrar
<1>8. CASE BorraFactura(q)
  <2>1. Quieto /\ paso'[q] = "borrar" /\ quitar'[q] = De(fra[q].fac) /\ fra' = fra
    BY <1>8 DEF BorraFactura, Pon
  <2>2. CobroEnCurso(q)'
    BY <1>8, <2>1 DEF BorraFactura, CobroEnCurso, cobro
  <2>3. \A i \in De(fra[q].fac) : recibo[i].est # "pagado"
    BY <1>8 DEF BorraFactura, NoSeQuitaPagado, DeEstado
  <2>4. NoSeQuitaPagado(q)'
    BY <2>1, <2>3 DEF NoSeQuitaPagado, De
  <2> QED
    BY <1>8, <2>1, <2>2, <2>4, SoloForma DEF BorraFactura, Pon
<1>9. CASE QuitaRecibo(q)
  <2> PICK i \in quitar[q] :
        /\ quitar' = Pon(quitar, q, quitar[q] \ {i})
        /\ recibo' = recibo \/ recibo' = [recibo EXCEPT ![i] = Nada]
    BY <1>9 DEF QuitaRecibo
  <2>1. i \in Ids /\ quitar'[q] = quitar[q] \ {i}
    BY DEF NoSeQuitaPagado, Pon
  <2>2. \A j \in Ids : recibo'[j] # Nada => recibo'[j] = recibo[j]
    BY <2>1
  <2>3. UNCHANGED <<ultimo, fra, paso, cobro>>
    BY <1>9 DEF QuitaRecibo
  <2>4. Formas'
    BY <2>1, <2>2, <2>3 DEF Pon, cobro, Ids, EsFila
  <2>5. RecibosCuadrados'
    BY <2>2 DEF RecibosCuadrados, Ids
  <2>6. Coherente(q)'
    BY <2>2, <2>3 DEF Coherente, cobro, Ids, EsObjeto, Objeto, Fila
  <2>7. CobroEnCurso(q)'
    BY <2>3 DEF CobroEnCurso, cobro
  <2>8. NoSeQuitaPagado(q)'
    BY <1>9, <2>1, <2>2, <2>3 DEF NoSeQuitaPagado, QuitaRecibo, Ids
  <2> QED
    BY <2>4, <2>5, <2>6, <2>7, <2>8
<1>10. CASE EmpiezaAGenerar(q)
  <2>1. Quieto
    BY <1>10 DEF EmpiezaAGenerar, bd
  <2>2. CASE GeneraAlgo(fra[q])
    <3>1. paso'[q] = "generar" /\ quitar' = quitar /\ fra' = fra /\ quitar[q] = {}
      BY <1>10, <2>2 DEF EmpiezaAGenerar, Pon
    <3>2. CobroEnCurso(q)' /\ NoSeQuitaPagado(q)'
      BY <1>10, <2>1, <3>1 DEF EmpiezaAGenerar, CobroEnCurso, NoSeQuitaPagado, cobro
    <3> QED
      BY <1>10, <2>1, <2>2, <3>1, <3>2, SoloForma DEF EmpiezaAGenerar, Pon
  <2>3. CASE ~GeneraAlgo(fra[q])
    BY <1>2, <1>10, <2>1, <2>3 DEF EmpiezaAGenerar
  <2> QED
    BY <2>2, <2>3
<1>11. CASE AcabaDeBorrar(q)
  BY <1>11, <1>2 DEF AcabaDeBorrar, bd
<1>12. CASE GeneraRecibo(q)
  BY <1>12, GeneraIInv
<1> QED
  BY <1>3, <1>4, <1>5, <1>6, <1>7, <1>8, <1>9, <1>10, <1>11, <1>12 DEF FormaFactura

\* A step that only changes what the receipts form holds.
LEMMA SoloObjeto ==
  ASSUME NEW q, Puestos = {q}, IInv,
         UNCHANGED <<recibo, ultimo, forma>>,
         rec' = [p \in Puestos |-> rec'[p]], pago' = [p \in Puestos |-> pago'[p]],
         Coherente(q)', CobroEnCurso(q)'
  PROVE  IInv'
<1>1. Formas'
  BY DEF IInv, Formas, forma, Ids
<1>2. RecibosCuadrados'
  BY DEF IInv, RecibosCuadrados, Ids
<1>3. NoSeQuitaPagado(q)'
  BY DEF IInv, NoSeQuitaPagado, forma, DeEstado, De, Ids
<1> QED
  BY <1>1, <1>2, <1>3 DEF IInv

\* What is read from a stored receipt.
LEMMA LeidoCoherente ==
  ASSUME IInv, NEW i \in Ids, recibo[i] # Nada
  PROVE  /\ EsObjeto(LeeRecibo(i)) /\ LeeRecibo(i).id = i /\ i <= ultimo
         /\ recibo[i] = Fila(LeeRecibo(i)) /\ LeeRecibo(i).est = recibo[i].est
         /\ LeeRecibo(i).resto = recibo[i].resto /\ LeeRecibo(i).imp = recibo[i].imp
  BY DEF IInv, Formas, LeeRecibo, Fila, EsObjeto, Objeto, EsFila

\* The rest of a partial payment is a new pending receipt, owed in full.
LEMMA NuevoIInv ==
  ASSUME NEW q, Puestos = {q}, IInv, NuevoRecibo(q)
  PROVE  IInv'
<1> PICK n : /\ EsObjeto(n) /\ n.id = ultimo + 1 /\ n.est = "pendiente" /\ n.resto = n.imp
             /\ recibo' = [recibo EXCEPT ![ultimo + 1] = Fila(n)]
             /\ rec' = Pon(rec, q, n)
  <2> DEFINE n == [rec[q] EXCEPT !.id = ultimo + 1, !.est = "pendiente",
                                 !.imp = pago[q].queda, !.resto = pago[q].queda]
  <2>1. EsObjeto(rec[q])
    BY DEF NuevoRecibo, IInv, Coherente
  <2>2. n = Objeto(ultimo + 1, rec[q].fac, pago[q].queda, pago[q].queda, "pendiente",
                   rec[q].fecha)
    BY <2>1, Renovar
  <2>3. EsObjeto(n) /\ n.id = ultimo + 1 /\ n.est = "pendiente" /\ n.resto = n.imp
    BY <2>2, CamposDeObjeto
  <2>4. recibo' = [recibo EXCEPT ![ultimo + 1] = Fila(n)] /\ rec' = Pon(rec, q, n)
    BY DEF NuevoRecibo
  <2> HIDE DEF n
  <2> QED
    BY <2>3, <2>4
<1>1. /\ pago' = [pago EXCEPT ![q] = SinPago] /\ UNCHANGED forma
      /\ ultimo < MaxRecibos /\ ultimo' = ultimo + 1 /\ ultimo \in Nat
  BY DEF NuevoRecibo, AcabaPago, Pon, IInv, Formas
<1>2. ultimo + 1 \in Ids
  BY <1>1, NumeroAssumption DEF Ids
<1>3. \A i \in Ids : recibo'[i] = IF i = ultimo + 1 THEN Fila(n) ELSE recibo[i]
  BY <1>2 DEF IInv, Formas
<1>4. /\ rec'[q] = n /\ pago'[q].fase = "no"
      /\ rec' = [p \in Puestos |-> rec'[p]] /\ pago' = [p \in Puestos |-> pago'[p]]
      /\ recibo' = [i \in Ids |-> recibo'[i]]
  BY <1>1 DEF IInv, Formas, Pon, SinPago
<1>5. EsFila(Fila(n)) /\ Fila(n).resto = n.resto /\ Fila(n).imp = n.imp /\ Fila(n).est = n.est
  BY DEF Fila, EsFila
<1>6. \A i \in Ids : recibo'[i] # Nada => EsFila(recibo'[i]) /\ i <= ultimo'
  BY <1>1, <1>3, <1>5 DEF IInv, Formas, Ids
<1>7. Formas'
  BY <1>1, <1>4, <1>6 DEF IInv, Formas, forma, Ids
<1>8. RecibosCuadrados'
  BY <1>3, <1>5 DEF IInv, RecibosCuadrados, Ids
<1>9. Coherente(q)'
  BY <1>1, <1>2, <1>3, <1>4 DEF Coherente, Ids
<1>10. CobroEnCurso(q)'
  BY <1>4 DEF CobroEnCurso
<1>11. NoSeQuitaPagado(q)'
  BY <1>1, <1>3, <1>5 DEF IInv, NoSeQuitaPagado, forma, DeEstado, De, Ids
<1> QED
  BY <1>7, <1>8, <1>9, <1>10, <1>11 DEF IInv

\* Every step of the receipts form: it writes the receipt it holds as it was read.
LEMMA PasoFormaRecibo ==
  ASSUME NEW q, Puestos = {q}, IInv, FormaRecibo(q)
  PROVE  IInv'
<1>1. /\ rec = [p \in Puestos |-> rec[p]] /\ pago = [p \in Puestos |-> pago[p]]
      /\ CobroEnCurso(q) /\ Coherente(q)
  BY DEF IInv, Formas
<1>2. /\ Atiende(q) => paso[q] \in {"libre", "editando"}
      /\ pago[q].fase # "no" => paso[q] \in {"libre", "editando"}
      /\ pago[q] = SinPago => pago[q].fase = "no"
  BY <1>1 DEF Atiende, CobroEnCurso, SinPago
<1>3. ASSUME NEW m, rec[q] # Nada \/ pago[q].fase # "no"
      PROVE  /\ EsObjeto(Pagado(rec[q], m)) /\ Pagado(rec[q], m).id = rec[q].id
             /\ Pagado(rec[q], m).resto = 0 /\ Pagado(rec[q], m).est = "pagado"
  BY <1>1, <1>3, Pagar, CamposDeObjeto DEF Coherente
<1>4. CASE VeRecibo(q)
  <2> PICK i \in Ids : /\ Atiende(q) /\ pago[q] = SinPago /\ recibo[i] # Nada
                       /\ rec' = Pon(rec, q, LeeRecibo(i))
                       /\ UNCHANGED <<bd, forma, pago>>
    BY <1>4 DEF VeRecibo
  <2>1. rec'[q] = LeeRecibo(i) /\ rec' = [p \in Puestos |-> rec'[p]]
    BY <1>1 DEF Pon
  <2>2. Coherente(q)'
    BY <2>1, LeidoCoherente DEF Coherente, bd
  <2>3. CobroEnCurso(q)'
    BY <1>1, <1>2 DEF CobroEnCurso, forma
  <2> QED
    BY <1>1, <2>1, <2>2, <2>3, SoloObjeto DEF bd
<1>5. CASE CierraRecibos(q)
  <2>1. /\ rec'[q] = Nada /\ rec' = [p \in Puestos |-> rec'[p]]
        /\ pago[q].fase = "no" /\ UNCHANGED <<bd, forma, pago>>
    BY <1>1, <1>2, <1>5 DEF CierraRecibos, Pon
  <2>2. Coherente(q)' /\ CobroEnCurso(q)'
    BY <1>1, <2>1 DEF Coherente, CobroEnCurso, forma
  <2> QED
    BY <1>1, <2>1, <2>2, SoloObjeto DEF bd
<1>6. CASE EmpiezaAPagar(q)
  <2> DEFINE i == rec[q].id
  <2>1. /\ i \in Ids /\ recibo[i] # Nada /\ recibo[i].est = "pendiente"
        /\ rec' = Pon(rec, q, LeeRecibo(i)) /\ UNCHANGED <<bd, forma>>
        /\ pago' = Pon(pago, q, [fase |-> "preguntar", queda |-> 0])
        /\ paso[q] \in {"libre", "editando"}
    BY <1>1, <1>2, <1>6 DEF EmpiezaAPagar, Coherente, Fila
  <2>2. /\ rec'[q] = LeeRecibo(i) /\ rec' = [p \in Puestos |-> rec'[p]]
        /\ pago' = [p \in Puestos |-> pago'[p]] /\ pago'[q].fase = "preguntar"
    BY <1>1, <2>1 DEF Pon
  <2>3. Coherente(q)'
    BY <2>1, <2>2, LeidoCoherente DEF Coherente, bd
  <2>4. CobroEnCurso(q)'
    BY <2>1, <2>2, LeidoCoherente DEF CobroEnCurso, forma
  <2> QED
    BY <2>1, <2>2, <2>3, <2>4, SoloObjeto DEF bd
<1>7. CASE CancelaPago(q)
  <2>1. /\ pago' = [p \in Puestos |-> pago'[p]] /\ pago'[q].fase = "no"
        /\ pago[q].fase # "no" /\ UNCHANGED <<bd, forma, rec>>
    BY <1>1, <1>7 DEF CancelaPago, AcabaPago, Pon, SinPago
  <2>2. Coherente(q)' /\ CobroEnCurso(q)'
    BY <1>1, <2>1 DEF Coherente, CobroEnCurso, bd
  <2> QED
    BY <1>1, <2>1, <2>2, SoloObjeto DEF bd
<1>8. CASE VuelveAEmpezar(q)
  <2> DEFINE i == rec[q].id
  <2>1. /\ pago[q].fase \in {"preguntar", "multiple"} /\ recibo[i] # Nada
        /\ rec' = Pon(rec, q, LeeRecibo(i)) /\ UNCHANGED <<bd, forma, pago>>
    BY <1>8 DEF VuelveAEmpezar
  <2>2. i \in Ids /\ recibo[i].est = "pendiente"
    BY <1>1, <2>1 DEF Coherente, CobroEnCurso, Fila
  <2>3. rec'[q] = LeeRecibo(i) /\ rec' = [p \in Puestos |-> rec'[p]]
    BY <1>1, <2>1 DEF Pon
  <2>4. Coherente(q)'
    BY <2>1, <2>2, <2>3, LeidoCoherente DEF Coherente, bd
  <2>5. CobroEnCurso(q)'
    BY <1>1, <1>2, <2>1, <2>2, <2>3, LeidoCoherente DEF CobroEnCurso, forma
  <2> QED
    BY <1>1, <2>1, <2>3, <2>4, <2>5, SoloObjeto DEF bd
<1>9. ASSUME NEW m, GuardaRecibo(rec[q], Pagado(rec[q], m)) = recibo',
             pago[q].fase \in {"preguntar", "multiple"},
             rec' = Pon(rec, q, Pagado(rec[q], m)),
             pago' = [p \in Puestos |-> pago'[p]], pago'[q].fase \in {"no", "nuevo"},
             UNCHANGED <<ultimo, forma>>
      PROVE  IInv'
  <2>1. CobroEnCurso(q)'
    BY <1>2, <1>9 DEF CobroEnCurso, forma
  <2>2. rec' = [rec EXCEPT ![q] = Pagado(rec[q], m)]
    BY <1>9 DEF Pon
  <2> QED
    BY <1>2, <1>3, <1>9, <2>1, <2>2, SoloRecibo
<1>10. CASE PagaExacto(q)
  <2>1. pago[q].fase \in {"preguntar", "multiple"}
    BY <1>10 DEF PagaExacto, Importes
  <2>2. pago' = [p \in Puestos |-> pago'[p]] /\ pago'[q].fase = "no"
    BY <1>1, <1>10 DEF PagaExacto, AcabaPago, Pon, SinPago
  <2> QED
    BY <1>9, <1>10, <2>1, <2>2 DEF PagaExacto
<1>11. CASE PagaParte(q)
  <2> PICK m : /\ m \in Importes(q)
               /\ recibo' = GuardaRecibo(rec[q], Pagado(rec[q], m))
               /\ rec' = Pon(rec, q, Pagado(rec[q], m))
               /\ pago' = Pon(pago, q, [fase |-> "nuevo", queda |-> rec[q].imp - m])
               /\ UNCHANGED <<ultimo, forma>>
    BY <1>11 DEF PagaParte
  <2>1. pago[q].fase \in {"preguntar", "multiple"}
    BY DEF Importes
  <2>2. pago' = [p \in Puestos |-> pago'[p]] /\ pago'[q].fase = "nuevo"
    BY <1>1 DEF Pon
  <2> QED
    BY <1>9, <2>1, <2>2
<1>12. CASE PagaDeMas(q)
  <2> PICK m \in Importes(q) :
        /\ recibo' = GuardaRecibo(rec[q], Pagado(rec[q], rec[q].imp))
        /\ \/ rec' = Pon(rec, q, Pagado(rec[q], rec[q].imp)) /\ AcabaPago(q, TRUE)
           \/ \E i \in Ids \ {rec[q].id} :
                /\ i \in DeEstado(cache[q].fac, "pendiente")
                /\ rec' = Pon(rec, q, LeeRecibo(i))
                /\ pago' = Pon(pago, q, [fase |-> "multiple", queda |-> m - rec[q].imp])
        /\ UNCHANGED <<ultimo, forma>>
    BY <1>12 DEF PagaDeMas
  <2>1. pago[q].fase \in {"preguntar", "multiple"}
    BY DEF Importes
  <2>2. CASE rec' = Pon(rec, q, Pagado(rec[q], rec[q].imp)) /\ AcabaPago(q, TRUE)
    <3>1. pago' = [p \in Puestos |-> pago'[p]] /\ pago'[q].fase = "no"
      BY <1>1, <2>2 DEF AcabaPago, Pon, SinPago
    <3> QED
      BY <1>9, <2>1, <2>2, <3>1
  <2>3. ASSUME NEW i \in Ids \ {rec[q].id}, i \in DeEstado(cache[q].fac, "pendiente"),
               rec' = Pon(rec, q, LeeRecibo(i)),
               pago' = Pon(pago, q, [fase |-> "multiple", queda |-> m - rec[q].imp])
        PROVE  IInv'
    <3> DEFINE n == Pagado(rec[q], rec[q].imp)
               k == rec[q].id
    <3>1. /\ k \in Ids /\ (recibo[k] # Nada => recibo[k] = Fila(rec[q]))
          /\ EsObjeto(n) /\ n.id = k /\ n.resto = 0 /\ n.est = "pagado"
      BY <1>1, <1>3, <2>1 DEF Coherente
    <3> HIDE DEF n
    <3>2. recibo' = IF recibo[k] = Nada THEN recibo ELSE [recibo EXCEPT ![k] = Fila(n)]
      BY <3>1, GuardaLoQueTiene DEF n
    <3>3. \A j \in Ids : recibo'[j] = IF j = k /\ recibo[k] # Nada THEN Fila(n) ELSE recibo[j]
      BY <3>1, <3>2 DEF IInv, Formas
    <3>4. EsFila(Fila(n)) /\ Fila(n).resto = 0 /\ Fila(n).est = "pagado"
      BY <3>1 DEF Fila, EsFila
    <3>5. /\ rec'[q] = LeeRecibo(i) /\ rec' = [p \in Puestos |-> rec'[p]]
          /\ pago' = [p \in Puestos |-> pago'[p]] /\ pago'[q].fase = "multiple"
      BY <1>1, <2>3 DEF Pon
    <3>6. recibo[i] # Nada /\ recibo[i].est = "pendiente" /\ i # k /\ i \in Ids
      BY <2>3 DEF DeEstado, De
    <3>7. /\ EsObjeto(LeeRecibo(i)) /\ LeeRecibo(i).id = i /\ i <= ultimo
          /\ recibo[i] = Fila(LeeRecibo(i)) /\ LeeRecibo(i).est = "pendiente"
      BY <3>6, LeidoCoherente
    <3>8. \A j \in Ids : recibo'[j] # Nada => EsFila(recibo'[j]) /\ j <= ultimo'
      BY <3>3, <3>4, <1>1, <2>1 DEF IInv, Formas, Ids
    <3>9. recibo' = [j \in Ids |-> recibo'[j]]
      BY <3>2 DEF IInv, Formas
    <3>10. Formas'
      BY <3>5, <3>8, <3>9 DEF IInv, Formas, forma, Ids
    <3>11. RecibosCuadrados'
      BY <3>3, <3>4 DEF IInv, RecibosCuadrados, Ids
    <3>12. Coherente(q)'
      BY <3>3, <3>5, <3>6, <3>7 DEF Coherente
    <3>13. CobroEnCurso(q)'
      BY <1>2, <2>1, <3>5, <3>7 DEF CobroEnCurso, forma
    <3>14. NoSeQuitaPagado(q)'
      BY <1>2, <2>1 DEF IInv, NoSeQuitaPagado, forma
    <3> QED
      BY <3>10, <3>11, <3>12, <3>13, <3>14 DEF IInv
  <2> QED
    BY <2>2, <2>3
<1>13. CASE AnulaPago(q)
  <2> DEFINE n == [rec[q] EXCEPT !.est = "pendiente", !.resto = rec[q].imp]
  <2>1. EsObjeto(n) /\ n.id = rec[q].id /\ n.resto = n.imp /\ n.est = "pendiente"
    <3>1. EsObjeto(rec[q])
      BY <1>1, <1>13 DEF AnulaPago, Coherente
    <3>2. n = Objeto(rec[q].id, rec[q].fac, rec[q].imp, rec[q].imp, "pendiente", rec[q].fecha)
      BY <3>1, Anular
    <3> QED
      BY <3>2, CamposDeObjeto
  <2>2. /\ recibo' = GuardaRecibo(rec[q], n) /\ rec' = Pon(rec, q, n)
        /\ rec[q] # Nada /\ paso[q] \in {"libre", "editando"}
        /\ AcabaPago(q, TRUE) /\ UNCHANGED <<ultimo, forma>>
    BY <1>2, <1>13 DEF AnulaPago
  <2> HIDE DEF n
  <2>3. pago' = [p \in Puestos |-> pago'[p]] /\ pago'[q].fase = "no"
    BY <1>1, <2>2 DEF AcabaPago, Pon, SinPago
  <2>4. CobroEnCurso(q)'
    BY <2>3 DEF CobroEnCurso
  <2> QED
    BY <2>1, <2>2, <2>3, <2>4, SoloRecibo DEF Pon
<1>14. CASE AceptaRecibo(q)
  <2> PICK d : LET n == [rec[q] EXCEPT !.fecha = d]
               IN  recibo' = GuardaRecibo(rec[q], n) /\ rec' = Pon(rec, q, n)
    BY <1>14 DEF AceptaRecibo
  <2> DEFINE n == [rec[q] EXCEPT !.fecha = d]
  <2>1. /\ EsObjeto(n) /\ n.id = rec[q].id /\ n.resto = rec[q].resto /\ n.imp = rec[q].imp
        /\ n.est = rec[q].est
    BY <1>1, <1>14, Fechar, CamposDeObjeto DEF AceptaRecibo, Coherente
  <2>2. recibo' = GuardaRecibo(rec[q], n) /\ rec' = Pon(rec, q, n)
    OBVIOUS
  <2> HIDE DEF n
  <2>3. /\ rec[q] # Nada /\ paso[q] \in {"libre", "editando"} /\ pago[q].fase = "no"
        /\ UNCHANGED <<ultimo, forma, pago>>
    BY <1>2, <1>14 DEF AceptaRecibo
  <2>4. CobroEnCurso(q)'
    BY <2>3 DEF CobroEnCurso
  <2>5. CASE recibo[rec[q].id] # Nada
    <3>1. n.resto = IF n.est = "pagado" THEN 0 ELSE n.imp
      BY <1>1, <2>1, <2>3, <2>5 DEF Coherente, IInv, RecibosCuadrados, Fila
    <3> QED
      BY <1>1, <2>1, <2>2, <2>3, <2>4, <3>1, SoloRecibo DEF Pon
  <2>6. CASE recibo[rec[q].id] = Nada
    <3>1. recibo' = recibo
      BY <2>2, <2>6 DEF GuardaRecibo
    <3>2. rec'[q] = n /\ rec' = [p \in Puestos |-> rec'[p]]
      BY <1>1, <2>2 DEF Pon
    <3>3. Coherente(q)'
      BY <1>1, <2>1, <2>3, <2>6, <3>1, <3>2 DEF Coherente
    <3> QED
      BY <1>1, <2>3, <2>4, <3>1, <3>2, <3>3, SoloObjeto
  <2> QED
    BY <2>5, <2>6
<1>15. CASE BorraRecibo(q)
  <2> DEFINE k == rec[q].id
  <2>1. /\ recibo' = [recibo EXCEPT ![k] = Nada] /\ rec' = Pon(rec, q, Nada)
        /\ pago[q].fase = "no" /\ UNCHANGED <<ultimo, forma, pago>>
        /\ paso[q] \in {"libre", "editando"}
    BY <1>2, <1>15 DEF BorraRecibo
  <2>2. \A j \in Ids : recibo'[j] # Nada => recibo'[j] = recibo[j]
    BY <2>1 DEF IInv, Formas
  <2>3. rec'[q] = Nada /\ rec' = [p \in Puestos |-> rec'[p]]
    BY <1>1, <2>1 DEF Pon
  <2>4. Formas'
    BY <2>1, <2>2, <2>3 DEF IInv, Formas, forma, Ids, EsFila
  <2>5. RecibosCuadrados'
    BY <2>2 DEF IInv, RecibosCuadrados, Ids
  <2>6. Coherente(q)' /\ CobroEnCurso(q)'
    BY <2>1, <2>3 DEF Coherente, CobroEnCurso
  <2>7. NoSeQuitaPagado(q)'
    BY <2>1 DEF IInv, NoSeQuitaPagado, forma
  <2> QED
    BY <2>4, <2>5, <2>6, <2>7 DEF IInv
<1>16. CASE NuevoRecibo(q)
  BY <1>16, NuevoIInv
<1> QED
  BY <1>4, <1>5, <1>6, <1>7, <1>8, <1>10, <1>11, <1>12, <1>13, <1>14, <1>15, <1>16
     DEF FormaRecibo

\* A failed removal, a receipt that genPagos or pagarRecibo could not insert, and the
\* death of the program.
LEMMA PasoFallo ==
  ASSUME NEW q, Puestos = {q}, IInv, Fallo(q)
  PROVE  IInv'
<1> USE DEF IInv, Formas
<1>1. CASE QuitarFalla(q)
  <2>1. /\ UNCHANGED <<recibo, ultimo, cobro, fra>>
        /\ paso'[q] = "editando" /\ quitar'[q] = {} /\ pago[q].fase = "no"
    BY <1>1 DEF QuitarFalla, Pon, bd, CobroEnCurso
  <2>2. CobroEnCurso(q)' /\ NoSeQuitaPagado(q)'
    BY <2>1 DEF CobroEnCurso, NoSeQuitaPagado, cobro
  <2> QED
    BY <1>1, <2>1, <2>2, SoloForma DEF QuitarFalla, Pon
<1>2. CASE GenerarFalla(q)
  <2>1. /\ UNCHANGED <<recibo, ultimo, cobro>> /\ SiguientePlazo(q)
        /\ paso[q] = "generar" /\ quitar[q] = {} /\ pago[q].fase = "no"
    BY <1>2 DEF GenerarFalla, bd, CobroEnCurso, NoSeQuitaPagado
  <2>2. /\ paso'[q] \in {"libre", "generar"} /\ quitar'[q] = {}
        /\ paso' = [p \in Puestos |-> paso'[p]] /\ quitar' = [p \in Puestos |-> quitar'[p]]
        /\ fra' = [p \in Puestos |-> fra'[p]]
    BY <2>1 DEF SiguientePlazo, Cierra, Pon
  <2>3. CobroEnCurso(q)' /\ NoSeQuitaPagado(q)'
    BY <2>1, <2>2 DEF CobroEnCurso, NoSeQuitaPagado, cobro
  <2> QED
    BY <2>1, <2>2, <2>3, SoloForma
<1>3. CASE NuevoFalla(q)
  <2>1. /\ pago' = [p \in Puestos |-> pago'[p]] /\ pago'[q].fase = "no"
        /\ rec'[q] = Nada /\ rec' = [p \in Puestos |-> rec'[p]] /\ UNCHANGED <<bd, forma>>
    BY <1>3 DEF NuevoFalla, AcabaPago, Pon, SinPago
  <2>2. Coherente(q)' /\ CobroEnCurso(q)'
    BY <2>1 DEF Coherente, CobroEnCurso
  <2> QED
    BY <2>1, <2>2, SoloObjeto DEF bd
<1>4. CASE Muere(q)
  <2>1. /\ UNCHANGED <<recibo, ultimo>>
        /\ pago' = [p \in Puestos |-> pago'[p]] /\ pago'[q].fase = "no"
        /\ rec'[q] = Nada /\ rec' = [p \in Puestos |-> rec'[p]]
        /\ paso'[q] = "libre" /\ quitar'[q] = {} /\ fra' = [p \in Puestos |-> fra'[p]]
        /\ paso' = [p \in Puestos |-> paso'[p]] /\ quitar' = [p \in Puestos |-> quitar'[p]]
    BY <1>4 DEF Muere, Cierra, Pon, SinPago, bd
  <2>2. Formas' /\ RecibosCuadrados'
    BY <2>1 DEF Ids, RecibosCuadrados, EsFila
  <2>3. Coherente(q)' /\ CobroEnCurso(q)' /\ NoSeQuitaPagado(q)'
    BY <2>1 DEF Coherente, CobroEnCurso, NoSeQuitaPagado
  <2> QED
    BY <2>2, <2>3
<1> QED
  BY <1>1, <1>2, <1>3, <1>4 DEF Fallo

\* With one workstation every step of the program, the failures included, keeps the
\* inductive invariant: between the SELECT of delPagos and its DELETEs no receipt
\* it selected can be paid.
THEOREM PasoIInv ==
  ASSUME NEW q, Puestos = {q}
  PROVE  IInv /\ [Next]_vars => IInv'
<1> SUFFICES ASSUME IInv, [Next]_vars
             PROVE  IInv'
  OBVIOUS
<1>1. CASE UNCHANGED vars
  BY <1>1 DEF vars, bd, forma, cobro, IInv, Formas, RecibosCuadrados, Coherente,
     CobroEnCurso, NoSeQuitaPagado, DeEstado, De, Ids, EsFila, Fila, EsObjeto, Objeto
<1>2. CASE Next
  BY <1>2, PasoFormaFactura, PasoFormaRecibo, PasoFallo DEF Next
<1> QED
  BY <1>1, <1>2

\* With one workstation, whatever fails: a pending receipt is owed in full and a
\* paid one owes nothing, through every split and every cancelled payment
\* (pagarRecibo, anularPagoRecibo, genPagos).
THEOREM UnPuestoCuadra ==
  ASSUME NEW q, Puestos = {q}
  PROVE  Spec => []RecibosCuadrados
<1>1. IInv => RecibosCuadrados
  BY DEF IInv
<1> QED
  BY InicioIInv, PasoIInv, <1>1, PTL DEF Spec

\* Where a paid receipt may be touched: its own payment is cancelled.
LEMMA PasoPagado ==
  ASSUME NEW q, Puestos = {q}, IInv, Next,
         NEW i \in Ids, recibo[i] # Nada, recibo[i].est = "pagado"
  PROVE  recibo'[i] = recibo[i] \/ (AnulaPago(q) /\ rec[q].id = i)
<1> USE DEF IInv, Formas
<1>1. /\ Coherente(q) /\ CobroEnCurso(q) /\ NoSeQuitaPagado(q) /\ EsFila(recibo[i])
      /\ recibo = [j \in Ids |-> recibo[j]] /\ i <= ultimo /\ ultimo \in Nat
  OBVIOUS
<1> HIDE DEF IInv, Formas
<1>2. ASSUME NEW n, recibo' = GuardaRecibo(rec[q], n), rec[q].id # i
      PROVE  recibo'[i] = recibo[i]
  BY <1>1, <1>2 DEF GuardaRecibo
<1>3. pago[q].fase \in {"preguntar", "multiple"} => rec[q].id # i
  BY <1>1 DEF Coherente, CobroEnCurso, Fila
<1>4. CASE FormaFactura(q)
  <2>1. CASE QuitaRecibo(q)
    <3> PICK j \in quitar[q] : recibo' = recibo \/ recibo' = [recibo EXCEPT ![j] = Nada]
      BY <2>1 DEF QuitaRecibo
    <3>1. j # i
      BY <1>1 DEF NoSeQuitaPagado
    <3> QED
      BY <1>1, <3>1
  <2>2. CASE GeneraRecibo(q)
    <3>1. recibo' = recibo \/ \E r : recibo' = [recibo EXCEPT ![ultimo + 1] = r]
      BY <2>2 DEF GeneraRecibo
    <3>2. i # ultimo + 1
      BY <1>1 DEF Ids
    <3> QED
      BY <1>1, <3>1, <3>2
  <2>3. CASE ~QuitaRecibo(q) /\ ~GeneraRecibo(q)
    BY <1>4, <2>3 DEF FormaFactura, NuevaFactura, ModificaFactura, Cancela, GuardaFactura,
       PideBorrar, BorraFactura, EmpiezaAGenerar, AcabaDeBorrar, Abre, bd
  <2> QED
    BY <2>1, <2>2, <2>3
<1>5. CASE FormaRecibo(q)
  <2>1. CASE PagaExacto(q) \/ PagaParte(q) \/ PagaDeMas(q)
    <3>1. pago[q].fase \in {"preguntar", "multiple"}
      BY <2>1 DEF PagaExacto, PagaParte, PagaDeMas, Importes
    <3>2. \E n : recibo' = GuardaRecibo(rec[q], n)
      BY <2>1 DEF PagaExacto, PagaParte, PagaDeMas
    <3> QED
      BY <1>2, <1>3, <3>1, <3>2
  <2>2. CASE AnulaPago(q)
    BY <1>2, <2>2 DEF AnulaPago
  <2>3. CASE AceptaRecibo(q)
    <3> PICK d : /\ rec[q].est = "pagado" => d = rec[q].fecha
                 /\ recibo' = GuardaRecibo(rec[q], [rec[q] EXCEPT !.fecha = d])
      BY <2>3 DEF AceptaRecibo
    <3>1. CASE rec[q].id = i
      <4>1. recibo[i] = Fila(rec[q]) /\ EsObjeto(rec[q])
        BY <1>1, <2>3, <3>1 DEF Coherente, AceptaRecibo
      <4>2. d = rec[q].fecha
        BY <4>1 DEF Fila
      <4> DEFINE n == [rec[q] EXCEPT !.fecha = d]
      <4>3. n = Objeto(rec[q].id, rec[q].fac, rec[q].imp, rec[q].resto, rec[q].est, d)
        BY <4>1, Fechar
      <4>4. n.id = rec[q].id /\ Fila(n) = Fila(rec[q])
        BY <4>2, <4>3, CamposDeObjeto DEF Fila
      <4>5. recibo' = GuardaRecibo(rec[q], n)
        OBVIOUS
      <4> HIDE DEF n
      <4> QED
        BY <1>1, <3>1, <4>1, <4>4, <4>5, GuardaLoQueTiene
    <3> QED
      BY <1>2, <3>1
  <2>4. CASE BorraRecibo(q)
    <3>1. rec[q].id # i
      BY <1>1, <2>4 DEF BorraRecibo, Coherente, Fila
    <3> QED
      BY <1>1, <2>4, <3>1 DEF BorraRecibo
  <2>5. CASE NuevoRecibo(q)
    <3>1. \E r : recibo' = [recibo EXCEPT ![ultimo + 1] = r]
      BY <2>5 DEF NuevoRecibo
    <3>2. i # ultimo + 1
      BY <1>1 DEF Ids
    <3> QED
      BY <1>1, <3>1, <3>2
  <2>6. CASE VeRecibo(q) \/ CierraRecibos(q) \/ EmpiezaAPagar(q) \/ CancelaPago(q)
             \/ VuelveAEmpezar(q)
    BY <2>6 DEF VeRecibo, CierraRecibos, EmpiezaAPagar, CancelaPago, VuelveAEmpezar, bd
  <2> QED
    BY <1>5, <2>1, <2>2, <2>3, <2>4, <2>5, <2>6 DEF FormaRecibo
<1>6. CASE Fallo(q)
  BY <1>6 DEF Fallo, QuitarFalla, GenerarFalla, NuevoFalla, Muere, bd
<1> QED
  BY <1>4, <1>5, <1>6 DEF Next

\* With one workstation, whatever fails: a paid receipt stays as it was paid until
\* its own payment is cancelled, although every save of the invoice deletes and
\* generates receipts again (delPagos, genPagos, RecFacturaVenta::remove).
THEOREM UnPuestoNoPierdePagado ==
  ASSUME NEW q, Puestos = {q}
  PROVE  Spec => PagadoNoSePierde
<1> DEFINE A == \A i \in Ids : recibo[i] # Nada /\ recibo[i].est = "pagado" =>
                  \/ recibo'[i] = recibo[i]
                  \/ \E p \in Puestos : AnulaPago(p) /\ rec[p].id = i
<1>1. IInv /\ [Next]_vars => [A]_vars
  BY PasoPagado
<1> HIDE DEF A
<1>2. Spec => [][A]_vars
  BY InicioIInv, PasoIInv, <1>1, PTL DEF Spec
<1> QED
  BY <1>2 DEF A, PagadoNoSePierde

-------------------------------------------------------------------------------
(* The total of an invoice with receipts already paid.                     *)

EsFactura(r) == r = [total |-> r.total, cobros |-> r.cobros, resto |-> r.resto]
EsCopia(o) ==
  o = [fac |-> o.fac, total |-> o.total, cobros |-> o.cobros, resto |-> o.resto]
Forma(f, n, l, t, c, r) ==
  [fac |-> f, nueva |-> n, leida |-> l, total |-> t, cobros |-> c, resto |-> r]
EsForma(o) == o = Forma(o.fac, o.nueva, o.leida, o.total, o.cobros, o.resto)

\* A row is neither of the two marks of its absence.
FilasDistintas ==
  \A t, c, r : [total |-> t, cobros |-> c, resto |-> r] \notin {Nada, Borrada}

\* The shapes of the invoices, and of the copies of them that the forms hold.
FormasFactura ==
  /\ factura = [f \in Facturas |-> factura[f]]
  /\ copia = [p \in Puestos |-> copia[p]]
  /\ cache = [p \in Puestos |-> cache[p]]
  /\ \A f \in Facturas : Existe(f) => EsFactura(factura[f])
  /\ \A p \in Puestos :
       /\ copia[p] = Nada \/ EsCopia(copia[p])
       /\ cache[p] = Nada \/ EsCopia(cache[p])
       /\ paso[p] # "libre" => EsForma(fra[p]) /\ fra[p].fac \in Facturas

\* From the moment the invoice form reads an invoice until it has saved it, what it
\* read is what is stored, and it only differs from it when nothing is paid; a
\* failed removal leaves the form editing what it has just saved.
EdicionFiel(p) ==
  LET o == fra[p] IN
  /\ paso[p] # "libre" => pago[p].fase = "no"
  /\ paso[p] = "editando" /\ o.nueva => factura[o.fac] = Nada
  /\ paso[p] = "quitar" => ~o.nueva /\ o.total = o.leida.total
  /\ paso[p] \in {"editando", "quitar"} /\ ~o.nueva /\ Existe(o.fac) =>
       o.leida.total = factura[o.fac].total
  /\ paso[p] = "editando" /\ ~o.nueva /\ DeEstado(o.fac, "pagado") # {} =>
       o.total = o.leida.total

TInv == IInv /\ FormasFactura /\ \A p \in Puestos : EdicionFiel(p)

\* What an action may do to the invoices for TotalConCobros to hold.
RespetaTotales ==
  \A f \in Facturas : Existe(f) /\ DeEstado(f, "pagado") # {} =>
    Existe(f)' /\ factura'[f].total = factura[f].total

\* actPagos changes COBROS and RESTO of the copy, not its total.
LEMMA ActPagosCopia ==
  ASSUME NEW o, NEW rs, EsCopia(o)
  PROVE  /\ EsCopia(ActPagos(o, rs)) /\ ActPagos(o, rs).total = o.total
         /\ EsCopia(ActResto(o))
<1> DEFINE Copia(f, t, c, r) == [fac |-> f, total |-> t, cobros |-> c, resto |-> r]
<1>1. ASSUME NEW f, NEW t, NEW c, NEW r
      PROVE  /\ ActResto(Copia(f, t, c, r)) = Copia(f, t, c, Resto(t, c))
             /\ EsCopia(Copia(f, t, c, r)) /\ Copia(f, t, c, r).total = t
             /\ \A d : [Copia(f, t, c, r) EXCEPT !.cobros = d] = Copia(f, t, d, r)
  BY DEF ActResto, EsCopia
<1>2. o = Copia(o.fac, o.total, o.cobros, o.resto)
  BY DEF EsCopia
<1> HIDE DEF Copia
<1>3. EsCopia(ActResto(o))
  BY <1>1, <1>2
<1>4. CASE ActPagos(o, rs) = o
  BY <1>3, <1>4
<1>5. CASE ActPagos(o, rs) # o
  <2>1. ActPagos(o, rs) = ActResto([o EXCEPT !.cobros = Cobrado(rs, o.fac)])
    BY <1>5 DEF ActPagos
  <2> DEFINE d == Cobrado(rs, o.fac)
  <2>2. [o EXCEPT !.cobros = d] = Copia(o.fac, o.total, d, o.resto)
    BY <1>1, <1>2
  <2>3. ActPagos(o, rs) = Copia(o.fac, o.total, d, Resto(o.total, d))
    BY <2>1, <2>2, <1>1
  <2> QED
    BY <1>1, <1>3, <2>3
<1> QED
  BY <1>4, <1>5

\* An UPDATE with a copy whose total did not change leaves the stored total alone.
LEMMA GuardaElTotal ==
  ASSUME FormasFactura, FilasDistintas, NEW o, NEW n,
         o = Nada \/ (EsCopia(o) /\ EsCopia(n) /\ n.total = o.total)
  PROVE  LET g == Guarda(o, n) IN
           /\ g = [f \in Facturas |-> g[f]]
           /\ \A f \in Facturas :
                /\ Existe(f) => /\ EsFactura(g[f]) /\ g[f] \notin {Nada, Borrada}
                                /\ g[f].total = factura[f].total
                /\ ~Existe(f) => g[f] = factura[f]
<1> DEFINE g == Guarda(o, n)
<1>0. factura = [f \in Facturas |-> factura[f]]
      /\ \A f \in Facturas : Existe(f) => EsFactura(factura[f])
  BY DEF FormasFactura
<1>1. \A f \in Facturas : Existe(f) => factura[f] \notin {Nada, Borrada}
  BY DEF Existe
<1>2. CASE g = factura
  BY <1>0, <1>1, <1>2
<1>3. CASE g # factura
  <2>1. /\ EsCopia(o) /\ EsCopia(n) /\ n.total = o.total /\ Existe(o.fac)
        /\ g = [factura EXCEPT ![o.fac] = Modifica(@, Campos(o), Campos(n))]
    BY <1>3 DEF Guarda
  <2> DEFINE m == Modifica(factura[o.fac], Campos(o), Campos(n))
  <2>2. CASE o.fac \in Facturas
    <3>1. EsFactura(m) /\ m.total = factura[o.fac].total
      BY <1>0, <2>1, <2>2 DEF Modifica, Campos, EsFactura
    <3>2. m \notin {Nada, Borrada}
      BY <3>1 DEF FilasDistintas, EsFactura
    <3> HIDE DEF m
    <3>3. g = [f \in Facturas |-> IF f = o.fac THEN m ELSE factura[f]]
      BY <1>0, <2>1 DEF m
    <3> QED
      BY <1>0, <1>1, <2>1, <2>2, <3>1, <3>2, <3>3
  <2>3. CASE o.fac \notin Facturas
    BY <1>0, <1>3, <2>1, <2>3
  <2> QED
    BY <2>2, <2>3
<1> QED
  BY <1>2, <1>3

\* An UPDATE after actPagos, with the copy o that one of the two objects holds.
LEMMA ActualizaTotal ==
  ASSUME FormasFactura, FilasDistintas, NEW o, o = Nada \/ EsCopia(o), NEW rs,
         factura' = Guarda(o, ActPagos(o, rs))
  PROVE  /\ factura' = [f \in Facturas |-> factura'[f]]
         /\ \A f \in Facturas : Existe(f)' => EsFactura(factura'[f])
         /\ \A f \in Facturas : Existe(f) => Existe(f)' /\ factura'[f].total = factura[f].total
         /\ \A f \in Facturas : ~Existe(f) => factura'[f] = factura[f]
         /\ RespetaTotales
<1> DEFINE n == ActPagos(o, rs)
<1>1. o = Nada \/ (EsCopia(o) /\ EsCopia(n) /\ n.total = o.total)
  BY ActPagosCopia
<1> HIDE DEF n
<1>2. /\ factura' = [f \in Facturas |-> factura'[f]]
      /\ \A f \in Facturas :
           /\ Existe(f) => /\ EsFactura(factura'[f]) /\ factura'[f] \notin {Nada, Borrada}
                           /\ factura'[f].total = factura[f].total
           /\ ~Existe(f) => factura'[f] = factura[f]
  BY <1>1, GuardaElTotal DEF n
<1> QED
  BY <1>2 DEF RespetaTotales, Existe

\* With one form at a time the receipts form acts only when the invoice form is
\* browsing: no total is being edited while a payment is made.
LEMMA PasoReciboTotal ==
  ASSUME NEW q, Puestos = {q}, UnaVentana, FilasDistintas, TInv, FormaRecibo(q)
  PROVE  RespetaTotales /\ FormasFactura' /\ EdicionFiel(q)'
<1>1. /\ FormasFactura /\ EdicionFiel(q) /\ cache = [p \in Puestos |-> cache[p]]
      /\ cache[q] = Nada \/ EsCopia(cache[q])
  BY DEF TInv, FormasFactura
<1>2. paso[q] = "libre" /\ UNCHANGED forma
  <2>1. UNCHANGED forma
    BY DEF FormaRecibo, VeRecibo, CierraRecibos, AceptaRecibo, BorraRecibo, EmpiezaAPagar,
       CancelaPago, VuelveAEmpezar, PagaExacto, PagaParte, NuevoRecibo, PagaDeMas, AnulaPago
  <2>2. Atiende(q) \/ pago[q].fase # "no"
    BY DEF FormaRecibo, VeRecibo, CierraRecibos, AceptaRecibo, BorraRecibo, EmpiezaAPagar,
       CancelaPago, VuelveAEmpezar, PagaExacto, PagaParte, NuevoRecibo, PagaDeMas, AnulaPago,
       Importes
  <2> QED
    BY <1>1, <2>1, <2>2 DEF Atiende, EdicionFiel
<1>3. EdicionFiel(q)'
  BY <1>2 DEF EdicionFiel, forma
<1>4. ASSUME UNCHANGED factura, NEW o, o = Nada \/ EsCopia(o), cache' = [cache EXCEPT ![q] = o]
      PROVE  RespetaTotales /\ FormasFactura'
  BY <1>1, <1>2, <1>4 DEF FormasFactura, RespetaTotales, Existe, forma
<1>5. ASSUME NEW rs, cache' = [cache EXCEPT ![q] = ActPagos(cache[q], rs)],
             factura' = Guarda(cache[q], ActPagos(cache[q], rs))
      PROVE  RespetaTotales /\ FormasFactura'
  <2>1. /\ RespetaTotales /\ factura' = [f \in Facturas |-> factura'[f]]
        /\ \A f \in Facturas : Existe(f)' => EsFactura(factura'[f])
    BY <1>1, <1>5, ActualizaTotal
  <2>2. cache'[q] = Nada \/ EsCopia(cache'[q])
    BY <1>1, <1>5, ActPagosCopia DEF ActPagos
  <2> QED
    BY <1>1, <1>2, <1>5, <2>1, <2>2 DEF FormasFactura, forma
<1>6. CASE VeRecibo(q)
  <2>1. PICK i \in Ids : /\ cache' = [cache EXCEPT ![q] = RecFactura(cache[q], recibo[i].fac)]
                         /\ UNCHANGED factura
    BY <1>6 DEF VeRecibo, Pon, bd
  <2>2. \A f : RecFactura(cache[q], f) = Nada \/ EsCopia(RecFactura(cache[q], f))
    BY <1>1 DEF RecFactura, LeeFactura, EsCopia
  <2> QED
    BY <1>3, <1>4, <2>1, <2>2
<1>7. CASE CierraRecibos(q)
  <2>1. cache' = [cache EXCEPT ![q] = Nada] /\ UNCHANGED factura
    BY <1>7 DEF CierraRecibos, Pon, bd
  <2> QED
    BY <1>3, <1>4, <2>1
<1>8. CASE AceptaRecibo(q)
  <2>1. \E rs : /\ cache' = [cache EXCEPT ![q] = ActPagos(cache[q], rs)]
                /\ factura' = Guarda(cache[q], ActPagos(cache[q], rs))
    BY <1>8 DEF AceptaRecibo, Pon
  <2> QED
    BY <1>3, <1>5, <2>1
<1>9. CASE BorraRecibo(q)
  <2>1. \E rs : /\ cache' = [cache EXCEPT ![q] = ActPagos(cache[q], rs)]
                /\ factura' = Guarda(cache[q], ActPagos(cache[q], rs))
    BY <1>9 DEF BorraRecibo, Pon
  <2> QED
    BY <1>3, <1>5, <2>1
<1>10. ASSUME UNCHANGED factura, NEW h, AcabaPago(q, h)
       PROVE  RespetaTotales /\ FormasFactura'
  <2>1. CASE cache' = cache
    BY <1>1, <1>2, <1>10, <2>1 DEF FormasFactura, RespetaTotales, Existe, forma
  <2>2. CASE cache' # cache
    <3>1. cache[q] # Nada /\ cache' = [cache EXCEPT ![q] = ActResto(cache[q])]
      BY <1>10, <2>2 DEF AcabaPago, Pon
    <3>2. EsCopia(ActResto(cache[q]))
      BY <1>1, <3>1, ActPagosCopia
    <3> QED
      BY <1>4, <1>10, <3>1, <3>2
  <2> QED
    BY <2>1, <2>2
<1>11. CASE CancelaPago(q) \/ PagaExacto(q) \/ NuevoRecibo(q) \/ AnulaPago(q)
  BY <1>3, <1>10, <1>11 DEF CancelaPago, PagaExacto, NuevoRecibo, AnulaPago, bd
<1>12. CASE PagaDeMas(q)
  <2>1. UNCHANGED factura /\ (UNCHANGED cache \/ \E h : AcabaPago(q, h))
    BY <1>12 DEF PagaDeMas
  <2>2. CASE UNCHANGED cache
    BY <1>1, <1>2, <1>3, <2>1, <2>2 DEF FormasFactura, RespetaTotales, Existe, forma
  <2> QED
    BY <1>3, <1>10, <2>1, <2>2
<1>13. CASE EmpiezaAPagar(q) \/ VuelveAEmpezar(q) \/ PagaParte(q)
  <2>1. UNCHANGED <<factura, cache>>
    BY <1>13 DEF EmpiezaAPagar, VuelveAEmpezar, PagaParte, bd
  <2> QED
    BY <1>1, <1>2, <1>3, <2>1 DEF FormasFactura, RespetaTotales, Existe, forma
<1> QED
  BY <1>6, <1>7, <1>8, <1>9, <1>11, <1>12, <1>13 DEF FormaRecibo

\* A step that leaves the invoices and the copies of the receipt objects as they are
\* or forgets those copies.
LEMMA FormasSinFactura ==
  ASSUME NEW q, Puestos = {q}, FormasFactura, UNCHANGED factura,
         cache' = cache \/ cache' = [cache EXCEPT ![q] = Nada],
         copia' = copia \/ copia' = [copia EXCEPT ![q] = Nada],
         paso'[q] # "libre" => EsForma(fra'[q]) /\ fra'[q].fac \in Facturas
  PROVE  RespetaTotales /\ FormasFactura'
  BY DEF FormasFactura, RespetaTotales, Existe

\* The invoice form goes back to browsing.
LEMMA CierraTotal ==
  ASSUME NEW q, Puestos = {q}, TInv, Cierra(q), UNCHANGED factura,
         cache' = cache \/ cache' = [cache EXCEPT ![q] = Nada]
  PROVE  RespetaTotales /\ FormasFactura' /\ EdicionFiel(q)'
<1>1. paso'[q] = "libre" /\ copia' = [copia EXCEPT ![q] = Nada]
  BY DEF Cierra, Pon, TInv, IInv, Formas
<1> QED
  BY <1>1, FormasSinFactura DEF TInv, EdicionFiel

\* dbRecord::save leaves the object as one that was read with what it has.
LEMMA Guardada ==
  ASSUME NEW o, EsForma(o), NEW b, NEW d
  PROVE  [o EXCEPT !.nueva = b, !.leida = d] =
           Forma(o.fac, b, d, o.total, o.cobros, o.resto)
<1>1. ASSUME NEW f, NEW n, NEW l, NEW t, NEW c, NEW r, o = Forma(f, n, l, t, c, r)
      PROVE  [o EXCEPT !.nueva = b, !.leida = d] = Forma(f, b, d, t, c, r)
  <2>1. [o EXCEPT !.nueva = b] = Forma(f, b, l, t, c, r)
    BY <1>1 DEF Forma
  <2>2. [Forma(f, b, l, t, c, r) EXCEPT !.leida = d] = Forma(f, b, d, t, c, r)
    BY DEF Forma
  <2>3. [o EXCEPT !.nueva = b, !.leida = d] = [[o EXCEPT !.nueva = b] EXCEPT !.leida = d]
    OBVIOUS
  <2> QED
    BY <2>1, <2>2, <2>3
<1> QED
  BY <1>1 DEF EsForma

\* RecFacturaVenta::save writes the total only when the user could change it.
LEMMA GuardaFacturaTotal ==
  ASSUME NEW q, Puestos = {q}, FilasDistintas, TInv, GuardaFactura(q)
  PROVE  RespetaTotales /\ FormasFactura' /\ EdicionFiel(q)'
<1> DEFINE o == fra[q]
           k == fra[q].fac
           c == Campos(o)
           m == IF o.nueva THEN c
                ELSE IF Existe(k) THEN Modifica(factura[k], o.leida, c) ELSE factura[k]
<1>1. /\ FormasFactura /\ EdicionFiel(q) /\ k \in Facturas /\ EsForma(o)
      /\ paso[q] = "editando" /\ pago[q].fase = "no"
      /\ factura = [f \in Facturas |-> factura[f]]
      /\ \A f \in Facturas : Existe(f) => EsFactura(factura[f])
  BY DEF GuardaFactura, TInv, FormasFactura, SinPago
<1>2. factura' = [factura EXCEPT ![k] = m] /\ UNCHANGED <<recibo, pago, cache>>
  BY DEF GuardaFactura, cobro
<1>3. /\ paso'[q] = "quitar" /\ copia' = [copia EXCEPT ![q] = Nada]
      /\ fra'[q] = [o EXCEPT !.nueva = FALSE, !.leida = c]
  BY DEF GuardaFactura, Pon, TInv, IInv, Formas
<1>4. EsFactura(c) /\ c.total = o.total
  BY DEF Campos, EsFactura
<1>5. /\ EsForma(fra'[q]) /\ fra'[q].fac = k /\ ~fra'[q].nueva /\ fra'[q].leida = c
      /\ fra'[q].total = o.total
  <2>1. fra'[q] = Forma(k, FALSE, c, o.total, o.cobros, o.resto)
    BY <1>1, <1>3, Guardada
  <2> QED
    BY <2>1 DEF EsForma, Forma
<1>6. Existe(k) /\ ~o.nueva => EsFactura(m) /\ m.total = o.total
  BY <1>1, <1>4 DEF Modifica, EsFactura, EdicionFiel
<1>7. o.nueva => ~Existe(k)
  BY <1>1 DEF EdicionFiel, Existe
<1>8. Existe(k) \/ o.nueva => EsFactura(m) /\ m.total = o.total /\ m \notin {Nada, Borrada}
  BY <1>4, <1>6 DEF FilasDistintas, EsFactura
<1>9. Existe(k) /\ DeEstado(k, "pagado") # {} => factura[k].total = o.total
  BY <1>1, <1>7 DEF EdicionFiel
<1>10. ~Existe(k) /\ ~o.nueva => m = factura[k]
  OBVIOUS
<1> HIDE DEF m, c, o, k
<1>11. \A f \in Facturas : factura'[f] = IF f = k THEN m ELSE factura[f]
  BY <1>1, <1>2
<1>12. factura' = [f \in Facturas |-> factura'[f]]
  BY <1>1, <1>2
<1>13. RespetaTotales
  BY <1>1, <1>7, <1>8, <1>9, <1>11 DEF RespetaTotales, Existe
<1>14. \A f \in Facturas : Existe(f)' => EsFactura(factura'[f])
  BY <1>1, <1>8, <1>10, <1>11 DEF Existe
<1>15. FormasFactura'
  BY <1>1, <1>2, <1>3, <1>5, <1>12, <1>14 DEF FormasFactura
<1>16. EdicionFiel(q)'
  <2>1. factura'[k] \notin {Nada, Borrada} => factura'[k].total = o.total
    BY <1>1, <1>8, <1>10, <1>11 DEF Existe
  <2> QED
    BY <1>1, <1>2, <1>3, <1>4, <1>5, <2>1 DEF EdicionFiel, Existe
<1> QED
  BY <1>13, <1>15, <1>16

\* RecFacturaVenta::remove takes away an invoice without receipts already paid.
LEMMA BorraFacturaTotal ==
  ASSUME NEW q, Puestos = {q}, TInv, BorraFactura(q)
  PROVE  RespetaTotales /\ FormasFactura' /\ EdicionFiel(q)'
<1>1. /\ FormasFactura /\ EdicionFiel(q) /\ NoSeQuitaPagado(q)
      /\ paso[q] = "confirmando" /\ paso'[q] = "borrar"
      /\ factura' = [factura EXCEPT ![fra[q].fac] = Borrada]
      /\ UNCHANGED <<recibo, fra, copia, pago, cache>>
  BY DEF BorraFactura, TInv, IInv, Formas, Pon, cobro
<1>2. factura' = [f \in Facturas |-> IF f = fra[q].fac THEN Borrada ELSE factura[f]]
  BY <1>1 DEF FormasFactura
<1>3. RespetaTotales
  BY <1>1, <1>2 DEF RespetaTotales, Existe, NoSeQuitaPagado
<1>4. FormasFactura'
  BY <1>1, <1>2 DEF FormasFactura, Existe
<1>5. EdicionFiel(q)'
  BY <1>1 DEF EdicionFiel
<1> QED
  BY <1>3, <1>4, <1>5

\* RecCobro::remove, one receipt after another, through the copy that the receipt
\* object of delPagos holds.
LEMMA QuitaReciboTotal ==
  ASSUME NEW q, Puestos = {q}, FilasDistintas, TInv, QuitaRecibo(q)
  PROVE  RespetaTotales /\ FormasFactura' /\ EdicionFiel(q)'
<1>1. /\ FormasFactura /\ EdicionFiel(q)
      /\ paso[q] \in {"quitar", "borrar"} /\ UNCHANGED <<fra, paso, pago, cache>>
      /\ \A f \in Facturas : Existe(f) => EsFactura(factura[f])
      /\ copia[q] = Nada \/ EsCopia(copia[q])
  BY DEF QuitaRecibo, TInv, FormasFactura, cobro
<1>2. CASE UNCHANGED <<factura, copia>>
  <2>1. RespetaTotales /\ FormasFactura'
    BY <1>1, <1>2 DEF FormasFactura, RespetaTotales, Existe
  <2>2. EdicionFiel(q)'
    BY <1>1, <1>2 DEF EdicionFiel, Existe
  <2> QED
    BY <2>1, <2>2
<1>3. CASE ~UNCHANGED <<factura, copia>>
  <2> PICK f, rs : LET o == RecFactura(copia[q], f) IN
                     /\ copia' = [copia EXCEPT ![q] = ActPagos(o, rs)]
                     /\ factura' = Guarda(o, ActPagos(o, rs))
    BY <1>3 DEF QuitaRecibo, Pon
  <2> DEFINE o == RecFactura(copia[q], f)
  <2>1. o = Nada \/ EsCopia(o)
    BY <1>1 DEF RecFactura, LeeFactura, EsCopia
  <2>2. ActPagos(o, rs) = Nada \/ EsCopia(ActPagos(o, rs))
    BY <2>1, ActPagosCopia DEF ActPagos
  <2> HIDE DEF o
  <2>3. /\ factura' = [g \in Facturas |-> factura'[g]]
        /\ \A g \in Facturas : Existe(g)' => EsFactura(factura'[g])
        /\ \A g \in Facturas : Existe(g) => factura'[g].total = factura[g].total
        /\ \A g \in Facturas : ~Existe(g) => factura'[g] = factura[g]
        /\ RespetaTotales
    BY <1>1, <2>1, ActualizaTotal DEF o
  <2>4. FormasFactura'
    BY <1>1, <2>2, <2>3 DEF FormasFactura, o
  <2>5. fra[q].fac \in Facturas
    BY <1>1 DEF FormasFactura
  <2>6. EdicionFiel(q)'
    BY <1>1, <2>3, <2>5 DEF EdicionFiel, Existe
  <2> QED
    BY <2>3, <2>4, <2>6
<1> QED
  BY <1>2, <1>3

\* After an instalment the form goes on with the next one, or back to browsing.
LEMMA SiguienteTotal ==
  ASSUME NEW q, Puestos = {q}, TInv, SiguientePlazo(q), paso[q] = "generar",
         UNCHANGED <<factura, cache, pago>>
  PROVE  RespetaTotales /\ FormasFactura' /\ EdicionFiel(q)'
<1>1. CASE Cierra(q)
  BY <1>1, CierraTotal
<1>2. CASE ~Cierra(q)
  <2>1. UNCHANGED <<fra, paso, copia>>
    BY <1>2 DEF SiguientePlazo
  <2>2. RespetaTotales /\ FormasFactura'
    BY <2>1, FormasSinFactura DEF TInv, FormasFactura
  <2>3. EdicionFiel(q)'
    BY <2>1 DEF TInv, EdicionFiel
  <2> QED
    BY <2>2, <2>3
<1> QED
  BY <1>1, <1>2

\* The invoice form reads an invoice, or begins a new one.
LEMMA AbreTotal ==
  ASSUME NEW q, Puestos = {q}, TInv, NEW o, NEW sig, Abre(q, o, sig),
         EsForma(o), o.fac \in Facturas, sig \in {"editando", "confirmando"},
         o.nueva => factura[o.fac] = Nada,
         ~o.nueva => o.leida = factura[o.fac],
         ~o.nueva /\ DeEstado(o.fac, "pagado") # {} => o.total = o.leida.total
  PROVE  RespetaTotales /\ FormasFactura' /\ EdicionFiel(q)'
<1>1. /\ paso'[q] = sig /\ fra'[q] = o /\ pago[q].fase = "no"
      /\ UNCHANGED <<factura, recibo, copia, cache, pago>>
  BY DEF Abre, TInv, IInv, Formas, Pon, bd, cobro, SinPago
<1>2. RespetaTotales /\ FormasFactura'
  BY <1>1, FormasSinFactura DEF TInv
<1>3. EdicionFiel(q)'
  BY <1>1 DEF EdicionFiel, Existe, DeEstado, De
<1> QED
  BY <1>2, <1>3

\* Every step of the invoice form.
LEMMA PasoFormaTotal ==
  ASSUME NEW q, Puestos = {q}, FilasDistintas, TInv, FormaFactura(q)
  PROVE  RespetaTotales /\ FormasFactura' /\ EdicionFiel(q)'
<1>1. CASE NuevaFactura(q)
  <2> PICK f \in Facturas, t \in Totales :
        /\ factura[f] = Nada
        /\ Abre(q, Forma(f, TRUE, [total |-> 0, cobros |-> 0, resto |-> 0], t, 0, Resto(t, 0)),
                "editando")
    BY <1>1 DEF NuevaFactura, Forma
  <2> DEFINE o == Forma(f, TRUE, [total |-> 0, cobros |-> 0, resto |-> 0], t, 0, Resto(t, 0))
  <2>1. EsForma(o) /\ o.fac = f /\ o.nueva
    BY DEF EsForma, Forma
  <2> HIDE DEF o
  <2> QED
    BY <2>1, AbreTotal DEF o
<1>2. ASSUME NEW f \in Facturas, NEW t, NEW c, NEW r, NEW sig \in {"editando", "confirmando"},
             DeEstado(f, "pagado") # {} => t = factura[f].total,
             Abre(q, Forma(f, FALSE, factura[f], t, c, r), sig)
      PROVE  RespetaTotales /\ FormasFactura' /\ EdicionFiel(q)'
  <2> DEFINE o == Forma(f, FALSE, factura[f], t, c, r)
  <2>1. EsForma(o) /\ o.fac = f /\ ~o.nueva /\ o.leida = factura[f] /\ o.total = t
    BY DEF EsForma, Forma
  <2>2. Abre(q, o, sig)
    BY <1>2
  <2> HIDE DEF o
  <2> QED
    BY <1>2, <2>1, <2>2, AbreTotal
<1>3. CASE ModificaFactura(q)
  BY <1>2, <1>3 DEF ModificaFactura, Forma
<1>4. CASE PideBorrar(q)
  BY <1>2, <1>4 DEF PideBorrar, Forma
<1>5. CASE Cancela(q) \/ AcabaDeBorrar(q)
  BY <1>5, CierraTotal DEF Cancela, AcabaDeBorrar, bd, cobro
<1>6. CASE EmpiezaAGenerar(q)
  <2>1. UNCHANGED <<factura, cache, pago, recibo>> /\ pago[q].fase = "no" /\ paso[q] = "quitar"
    BY <1>6 DEF EmpiezaAGenerar, bd, cobro, TInv, EdicionFiel
  <2>2. CASE Cierra(q)
    BY <2>1, <2>2, CierraTotal
  <2>3. CASE ~Cierra(q)
    <3>1. paso'[q] = "generar" /\ UNCHANGED <<fra, copia>>
      BY <1>6, <2>3 DEF EmpiezaAGenerar, Pon, TInv, IInv, Formas
    <3>2. RespetaTotales /\ FormasFactura'
      BY <2>1, <3>1, FormasSinFactura DEF TInv, FormasFactura
    <3>3. EdicionFiel(q)'
      BY <2>1, <3>1 DEF EdicionFiel
    <3> QED
      BY <3>2, <3>3
  <2> QED
    BY <2>2, <2>3
<1>7. CASE GeneraRecibo(q)
  <2>1. /\ UNCHANGED <<factura, cache, pago>> /\ pago[q].fase = "no" /\ paso[q] = "generar"
        /\ SiguientePlazo(q)
    BY <1>7 DEF GeneraRecibo, cobro, TInv, EdicionFiel
  <2> QED
    BY <2>1, SiguienteTotal
<1> QED
  BY <1>1, <1>3, <1>4, <1>5, <1>6, <1>7, GuardaFacturaTotal, BorraFacturaTotal, QuitaReciboTotal
     DEF FormaFactura

\* A failed removal leaves the form editing an invoice whose total is the one stored.
LEMMA PasoFalloTotal ==
  ASSUME NEW q, Puestos = {q}, TInv, Fallo(q)
  PROVE  RespetaTotales /\ FormasFactura' /\ EdicionFiel(q)'
<1>1. CASE QuitarFalla(q)
  <2>1. /\ UNCHANGED <<factura, cache, pago, recibo, fra>> /\ pago[q].fase = "no"
        /\ paso[q] = "quitar" /\ paso'[q] = "editando"
        /\ copia' = [copia EXCEPT ![q] = Nada]
    BY <1>1 DEF QuitarFalla, bd, cobro, Pon, TInv, EdicionFiel, IInv, Formas
  <2>2. RespetaTotales /\ FormasFactura'
    BY <2>1, FormasSinFactura DEF TInv, FormasFactura
  <2>3. EdicionFiel(q)'
    BY <2>1 DEF TInv, EdicionFiel, Existe, DeEstado, De
  <2> QED
    BY <2>2, <2>3
<1>2. CASE GenerarFalla(q)
  <2>1. /\ UNCHANGED <<factura, cache, pago>> /\ pago[q].fase = "no" /\ paso[q] = "generar"
        /\ SiguientePlazo(q)
    BY <1>2 DEF GenerarFalla, bd, cobro, TInv, EdicionFiel
  <2> QED
    BY <2>1, SiguienteTotal
<1>3. CASE NuevoFalla(q)
  <2>1. /\ UNCHANGED <<factura, recibo, fra, paso, copia>> /\ pago'[q].fase = "no"
        /\ cache' = cache
    BY <1>3 DEF NuevoFalla, AcabaPago, SinPago, Pon, bd, forma, TInv, IInv, Formas
  <2>2. RespetaTotales /\ FormasFactura'
    BY <2>1, FormasSinFactura DEF TInv, FormasFactura
  <2>3. EdicionFiel(q)'
    BY <2>1 DEF TInv, EdicionFiel, Existe, DeEstado, De
  <2> QED
    BY <2>2, <2>3
<1>4. CASE Muere(q)
  BY <1>4, CierraTotal DEF Muere, Pon, bd
<1> QED
  BY <1>1, <1>2, <1>3, <1>4 DEF Fallo

\* An empty database, with every form closed, has the invariant of the totals.
LEMMA InicioTInv ==
  Init => TInv
  BY InicioIInv DEF Init, TInv, FormasFactura, EdicionFiel, Existe, SinPago

\* Every step keeps the invariant of the totals.
LEMMA PasoTInv ==
  ASSUME NEW q, Puestos = {q}, UnaVentana, FilasDistintas
  PROVE  TInv /\ [Next]_vars => TInv'
<1> SUFFICES ASSUME TInv, [Next]_vars
             PROVE  TInv'
  OBVIOUS
<1>1. IInv'
  BY PasoIInv DEF TInv
<1>2. CASE UNCHANGED vars
  BY <1>1, <1>2 DEF vars, bd, forma, cobro, TInv, FormasFactura, EdicionFiel, Existe,
     DeEstado, De, EsFactura, EsCopia, EsForma, Forma
<1>3. CASE Next
  BY <1>1, <1>3, PasoFormaTotal, PasoReciboTotal, PasoFalloTotal DEF Next, TInv
<1> QED
  BY <1>2, <1>3

\* With one workstation, one form at a time and whatever fails: an invoice with
\* receipts already paid does not change its total, nor goes (canBeginEdit of
\* FrmEditFactura, RecFacturaVenta::save and remove).
THEOREM UnPuestoRespetaTotales ==
  ASSUME NEW q, Puestos = {q}, UnaVentana, FilasDistintas
  PROVE  Spec => TotalConCobros
<1>1. TInv /\ [Next]_vars => [RespetaTotales]_vars
  BY PasoFormaTotal, PasoReciboTotal, PasoFalloTotal DEF Next
<1>2. Spec => [][RespetaTotales]_vars
  BY InicioTInv, PasoTInv, <1>1, PTL DEF Spec
<1> QED
  BY <1>2 DEF RespetaTotales, TotalConCobros

-------------------------------------------------------------------------------
(* Types, with any workstations.                                           *)

FormasLlenas ==
  [fac : Facturas, nueva : BOOLEAN, leida : FilasFactura, total : Int, cobros : Int, resto : Int]
Objetos ==
  [id : Ids, fac : Facturas, imp : Int, resto : Int, est : {"pendiente", "pagado"}, fecha : Nat]

TiposBd ==
  /\ factura \in [Facturas -> FilasFactura \cup {Nada, Borrada}]
  /\ recibo \in [Ids -> FilasRecibo \cup {Nada}]
  /\ \A i \in Ids : recibo[i] # Nada => i <= ultimo
  /\ ultimo \in 0 .. MaxRecibos

TiposForma ==
  /\ fra \in [Puestos -> FormasLlenas \cup {Nada}]
  /\ paso \in [Puestos -> {"libre", "editando", "confirmando", "quitar", "borrar", "generar"}]
  /\ \A p \in Puestos : fra[p] = Nada <=> paso[p] = "libre"
  /\ quitar \in [Puestos -> SUBSET Ids]
  /\ copia \in [Puestos -> Facturas0 \cup {Nada}]
  /\ plazo \in [Puestos -> 1 .. Plazos]

TiposCobro ==
  /\ rec \in [Puestos -> Objetos \cup {Nada}]
  /\ \A p \in Puestos : rec[p] # Nada => rec[p].id <= ultimo
  /\ cache \in [Puestos -> Facturas0 \cup {Nada}]
  /\ pago \in [Puestos -> [fase : {"no", "preguntar", "multiple", "nuevo"}, queda : Nat]]
  /\ \A p \in Puestos : pago[p].fase # "no" => rec[p] # Nada

Tipos == TiposBd /\ TiposForma /\ TiposCobro

\* The mark of absence is neither a row of a receipt nor an object of a form.
NadaEsOtra == Nada \notin FormasLlenas \cup Objetos \cup FilasRecibo \cup Facturas0

\* What each receipt adds to what was collected.
Pago(rs, f) == [i \in Ids |-> IF rs[i] # Nada /\ rs[i].fac = f THEN rs[i].imp - rs[i].resto ELSE 0]

\* SUM(IMPORTE - RESTO) over the receipts of an invoice is a sum over all ids.
LEMMA CobradoEs ==
  ASSUME NEW rs, rs \in [Ids -> FilasRecibo \cup {Nada}], NEW f
  PROVE  Cobrado(rs, f) = SumFunctionOnSet(Pago(rs, f), Ids)
<1> DEFINE S == {i \in Ids : rs[i] # Nada /\ rs[i].fac = f}
           h == Pago(rs, f)
           T == Ids \ S
<1>0. IsFiniteSet(Ids)  BY FS_Interval, NumeroAssumption DEF Ids
<1>1. IsFiniteSet(S) /\ IsFiniteSet(T)  BY <1>0, FS_Subset
<1>2. \A i \in Ids : h[i] \in Int
  BY DEF FilasRecibo, Pago
<1>3. Cobrado(rs, f) = (CHOOSE it : it =
         [s \in SUBSET S |-> IF s = {} THEN 0
            ELSE (rs[Pick(s)].imp - rs[Pick(s)].resto) + it[s \ {Pick(s)}]])[S]
  BY DEF Cobrado, MapThenSumSet, MapThenFoldSet, Pick
<1>4. \A s \in SUBSET S : s # {} => h[Pick(s)] = rs[Pick(s)].imp - rs[Pick(s)].resto
  BY DEF Pick, Pago
<1>5. \A i \in T : h[i] = 0  BY DEF Pago
<1>6. S \cup T = Ids /\ S \cap T = {}  OBVIOUS
<1> HIDE DEF S, T, h
<1> DEFINE F(it) == [s \in SUBSET S |->
             IF s = {} THEN 0 ELSE (rs[Pick(s)].imp - rs[Pick(s)].resto) + it[s \ {Pick(s)}]]
           suma == CHOOSE it : it = F(it)
<1>7. ASSUME NEW it
      PROVE  F(it) = [s \in SUBSET S |-> IF s = {} THEN 0 ELSE h[Pick(s)] + it[s \ {Pick(s)}]]
  BY <1>4
<1>8. \A it : it = F(it) <=> Adds(h, S, it)
  BY <1>7 DEF Adds
<1>9. Adds(h, S, suma)
  <2>1. PICK it : it = F(it)  BY <1>1, <1>8, AddsExists
  <2> HIDE DEF F
  <2>2. suma = F(suma)  BY <2>1
  <2> QED  BY <1>8, <2>2
<1>10. Cobrado(rs, f) = suma[S]
  BY <1>3
<1>11. Cobrado(rs, f) = SumFunctionOnSet(h, S)
  BY <1>1, <1>9, <1>10, SumAdds
<1>12. SumFunctionOnSet(h, T) = 0  BY <1>1, <1>5, SumZero
<1>13. SumFunctionOnSet(h, S \cup T) = SumFunctionOnSet(h, S) + SumFunctionOnSet(h, T)
  BY <1>1, <1>2, <1>6, SumUnion
<1>14. SumFunctionOnSet(h, S) \in Int  BY <1>1, <1>2, <1>6, SumInt
<1>15. Cobrado(rs, f) = SumFunctionOnSet(h, Ids)
  <2>1. SumFunctionOnSet(h, Ids) = SumFunctionOnSet(h, S) + SumFunctionOnSet(h, T)
    BY <1>6, <1>13
  <2> QED  BY <1>11, <1>12, <1>14, <2>1
<1> QED  BY <1>15 DEF h

\* What was collected of an invoice is an integer.
LEMMA CobradoEntero ==
  ASSUME NEW rs, rs \in [Ids -> FilasRecibo \cup {Nada}], NEW f
  PROVE  Cobrado(rs, f) \in Int
<1>1. IsFiniteSet(Ids)  BY FS_Interval, NumeroAssumption DEF Ids
<1>2. \A i \in Ids : Pago(rs, f)[i] \in Int  BY DEF Pago, FilasRecibo
<1> QED  BY <1>1, <1>2, CobradoEs, SumInt

-------------------------------------------------------------------------------
(* Types of what the operators return.                                     *)

\* RESTO is an integer.
LEMMA TiposDeResto ==
  ASSUME NEW t \in Int, NEW c \in Int
  PROVE  Resto(t, c) \in Int
  BY DEF Resto

\* actRestoFactura leaves an invoice in the copy.
LEMMA TiposDeActResto ==
  ASSUME NEW o \in Facturas0
  PROVE  ActResto(o) \in Facturas0
  BY TiposDeResto DEF ActResto, Facturas0

\* actPagos leaves an invoice in the copy.
LEMMA TiposDeActPagos ==
  ASSUME NEW o \in Facturas0, NEW rs \in [Ids -> FilasRecibo \cup {Nada}]
  PROVE  ActPagos(o, rs) \in Facturas0
<1> DEFINE d == Cobrado(rs, o.fac)
<1>1. CASE o = Nada \/ d = o.cobros
  BY <1>1 DEF ActPagos
<1>2. CASE o # Nada /\ d # o.cobros
  <2>1. d \in Int  BY CobradoEntero
  <2> HIDE DEF d
  <2>2. [o EXCEPT !.cobros = d] \in Facturas0  BY <1>2, <2>1 DEF Facturas0
  <2>3. ActPagos(o, rs) = ActResto([o EXCEPT !.cobros = d])  BY <1>2 DEF ActPagos, d
  <2> QED  BY <2>2, <2>3, TiposDeActResto
<1> QED  BY <1>1, <1>2

\* A save of a copy leaves invoices stored.
LEMMA TiposDeGuarda ==
  ASSUME TiposBd, NEW o, NEW n, o = Nada \/ (o \in Facturas0 /\ n \in Facturas0)
  PROVE  Guarda(o, n) \in [Facturas -> FilasFactura \cup {Nada, Borrada}]
<1>1. CASE o = Nada \/ o = n \/ ~Existe(o.fac)
  BY <1>1 DEF Guarda, TiposBd
<1>2. CASE ~(o = Nada \/ o = n \/ ~Existe(o.fac))
  <2> DEFINE m == Modifica(factura[o.fac], Campos(o), Campos(n))
  <2>1. o \in Facturas0 /\ n \in Facturas0 /\ o.fac \in Facturas
    BY <1>2 DEF Facturas0
  <2>2. Campos(o) \in FilasFactura /\ Campos(n) \in FilasFactura /\ factura[o.fac] \in FilasFactura
    BY <1>2, <2>1 DEF Campos, Facturas0, FilasFactura, TiposBd, Existe
  <2>3. m \in FilasFactura  BY <2>2 DEF Modifica, FilasFactura
  <2> HIDE DEF m
  <2>4. Guarda(o, n) = [factura EXCEPT ![o.fac] = m]  BY <1>2 DEF Guarda, m
  <2> QED  BY <2>1, <2>3, <2>4 DEF TiposBd
<1> QED  BY <1>1, <1>2
\* actPagos, and the invoice that it is saved in, with the copy that an object holds.
LEMMA TiposDeActualiza ==
  ASSUME TiposBd, NEW o \in Facturas0 \cup {Nada}, NEW rs \in [Ids -> FilasRecibo \cup {Nada}]
  PROVE  /\ ActPagos(o, rs) \in Facturas0 \cup {Nada}
         /\ Guarda(o, ActPagos(o, rs)) \in [Facturas -> FilasFactura \cup {Nada, Borrada}]
<1>1. CASE o = Nada
  BY <1>1, TiposDeGuarda DEF ActPagos
<1>2. CASE o \in Facturas0
  BY <1>2, TiposDeActPagos, TiposDeGuarda
<1> QED  BY <1>1, <1>2

\* What getRecFactura reads, or had read.
LEMMA TiposDeLeeFactura ==
  ASSUME TiposBd, NEW f \in Facturas, NEW o \in Facturas0 \cup {Nada}
  PROVE  RecFactura(o, f) \in Facturas0 \cup {Nada}
  BY DEF RecFactura, LeeFactura, TiposBd, Existe, Facturas0, FilasFactura

\* What the receipt object reads.
LEMMA TiposDeLeeRecibo ==
  ASSUME TiposBd, NEW i \in Ids, recibo[i] # Nada
  PROVE  /\ LeeRecibo(i) \in Objetos /\ LeeRecibo(i).id = i /\ i <= ultimo
         /\ recibo[i].fac \in Facturas
  BY DEF LeeRecibo, Objetos, TiposBd, FilasRecibo

\* A save of a receipt leaves receipts stored, and inserts none.
LEMMA TiposDeGuardaRecibo ==
  ASSUME TiposBd, NEW o \in Objetos, NEW n \in Objetos
  PROVE  /\ GuardaRecibo(o, n) \in [Ids -> FilasRecibo \cup {Nada}]
         /\ \A i \in Ids : GuardaRecibo(o, n)[i] # Nada => recibo[i] # Nada
<1> DEFINE k == o.id
           m == Modifica(recibo[k], Fila(o), Fila(n))
<1>1. CASE recibo[k] = Nada
  BY <1>1 DEF GuardaRecibo, TiposBd
<1>2. CASE recibo[k] # Nada
  <2>1. k \in Ids /\ Fila(o) \in FilasRecibo /\ Fila(n) \in FilasRecibo /\ recibo[k] \in FilasRecibo
    BY <1>2 DEF Objetos, Fila, FilasRecibo, TiposBd
  <2>2. m \in FilasRecibo  BY <2>1 DEF Modifica, FilasRecibo
  <2> HIDE DEF m
  <2>3. GuardaRecibo(o, n) = [recibo EXCEPT ![k] = m]  BY <1>2 DEF GuardaRecibo, m
  <2> HIDE DEF k
  <2> QED  BY <1>2, <2>1, <2>2, <2>3 DEF TiposBd
<1> QED  BY <1>1, <1>2

\* A payment, its cancellation and an edition leave a receipt in the object, with the
\* same id.
LEMMA TiposDeObjeto ==
  ASSUME NEW o \in Objetos
  PROVE  /\ \A m \in Int : Pagado(o, m) \in Objetos /\ Pagado(o, m).id = o.id
         /\ \A d \in Nat : [o EXCEPT !.fecha = d] \in Objetos /\ [o EXCEPT !.fecha = d].id = o.id
         /\ LET n == [o EXCEPT !.est = "pendiente", !.resto = o.imp]
            IN  n \in Objetos /\ n.id = o.id
         /\ Fila(o) \in FilasRecibo /\ o.imp \in Int /\ o.fecha \in Nat /\ o.id \in Ids
<1>1. EsObjeto(o) /\ o \in Objetos
  BY DEF EsObjeto, Objeto, Objetos
<1>2. ASSUME NEW i \in Ids, NEW f \in Facturas, NEW m \in Int, NEW r \in Int,
             NEW e \in {"pendiente", "pagado"}, NEW d \in Nat
      PROVE  Objeto(i, f, m, r, e, d) \in Objetos /\ Objeto(i, f, m, r, e, d).id = i
  BY DEF Objeto, Objetos
<1>3. /\ o.id \in Ids /\ o.fac \in Facturas /\ o.imp \in Int /\ o.resto \in Int
      /\ o.est \in {"pendiente", "pagado"} /\ o.fecha \in Nat
  BY DEF Objetos
<1>4. ASSUME NEW m \in Int  PROVE Pagado(o, m) \in Objetos /\ Pagado(o, m).id = o.id
  BY <1>1, <1>2, <1>3, Pagar
<1>5. ASSUME NEW d \in Nat
      PROVE  [o EXCEPT !.fecha = d] \in Objetos /\ [o EXCEPT !.fecha = d].id = o.id
  <2> DEFINE n == [o EXCEPT !.fecha = d]
  <2>1. n = Objeto(o.id, o.fac, o.imp, o.resto, o.est, d)  BY <1>1, Fechar
  <2> HIDE DEF n
  <2>2. n \in Objetos /\ n.id = o.id  BY <2>1, <1>2, <1>3
  <2> QED  BY <2>2 DEF n
<1>6. LET n == [o EXCEPT !.est = "pendiente", !.resto = o.imp] IN n \in Objetos /\ n.id = o.id
  <2> DEFINE n == [o EXCEPT !.est = "pendiente", !.resto = o.imp]
  <2>1. n = Objeto(o.id, o.fac, o.imp, o.imp, "pendiente", o.fecha)  BY <1>1, Anular
  <2> HIDE DEF n
  <2>2. n \in Objetos /\ n.id = o.id  BY <2>1, <1>2, <1>3
  <2> QED  BY <2>2 DEF n
<1>7. Fila(o) \in FilasRecibo
  BY <1>3 DEF Fila, FilasRecibo
<1> QED  BY <1>3, <1>4, <1>5, <1>6, <1>7

\* The object that is saved as new, with the rest of a partial payment.
LEMMA TiposDeNuevo ==
  ASSUME NEW o \in Objetos, NEW k \in Ids, NEW m \in Int
  PROVE  LET n == [o EXCEPT !.id = k, !.est = "pendiente", !.imp = m, !.resto = m]
         IN  n \in Objetos /\ n.id = k
<1> DEFINE n == [o EXCEPT !.id = k, !.est = "pendiente", !.imp = m, !.resto = m]
<1>1. EsObjeto(o) /\ o.fac \in Facturas /\ o.fecha \in Nat
  BY DEF EsObjeto, Objeto, Objetos
<1>2. n = Objeto(k, o.fac, m, m, "pendiente", o.fecha)  BY <1>1, Renovar
<1> HIDE DEF n
<1>3. n \in Objetos /\ n.id = k  BY <1>1, <1>2 DEF Objeto, Objetos
<1> QED  BY <1>3 DEF n

-------------------------------------------------------------------------------
(* Each action keeps the types.                                            *)

\* The invoice form begins an edition, or asks before a removal.
LEMMA TiposAbre ==
  ASSUME Tipos, NadaEsOtra, NEW p \in Puestos, NEW o \in FormasLlenas,
         NEW sig \in {"editando", "confirmando"}, Abre(p, o, sig)
  PROVE  Tipos'
<1>1. TiposBd' /\ TiposCobro'
  BY DEF Abre, bd, cobro, Tipos, TiposBd, TiposCobro
<1>2. TiposForma'
  BY DEF Abre, Pon, Tipos, TiposForma, NadaEsOtra
<1> QED  BY <1>1, <1>2 DEF Tipos

\* The invoice form goes back to browsing.
LEMMA TiposCierra ==
  ASSUME TiposForma, NEW p \in Puestos, Cierra(p)
  PROVE  TiposForma'
  BY PlazosAssumption DEF Cierra, Pon, TiposForma, Plazos

\* genPagos goes on to the next instalment, or ends.
LEMMA TiposSiguiente ==
  ASSUME TiposForma, NEW p \in Puestos, SiguientePlazo(p)
  PROVE  TiposForma'
<1>1. CASE plazo[p] = Plazos
  BY <1>1, TiposCierra DEF SiguientePlazo
<1>2. CASE plazo[p] # Plazos
  <2>1. Plazos \in Nat \ {0}  BY PlazosAssumption DEF Plazos
  <2>2. plazo' = [plazo EXCEPT ![p] = plazo[p] + 1] /\ UNCHANGED <<fra, paso, quitar, copia>>
    BY <1>2 DEF SiguientePlazo, Pon
  <2>3. plazo[p] + 1 \in 1 .. Plazos  BY <1>2, <2>1 DEF TiposForma
  <2> QED  BY <2>2, <2>3 DEF TiposForma
<1> QED  BY <1>1, <1>2

\* Every step of the invoice form keeps the types.
LEMMA TiposFormaFactura ==
  ASSUME Tipos, NadaEsOtra, NEW p \in Puestos, FormaFactura(p)
  PROVE  Tipos'
<1> DEFINE o == fra[p]
<1>1. CASE NuevaFactura(p)
  <2> PICK f \in Facturas, t \in Totales :
        Abre(p, [fac |-> f, nueva |-> TRUE, leida |-> [total |-> 0, cobros |-> 0, resto |-> 0],
                total |-> t, cobros |-> 0, resto |-> Resto(t, 0)], "editando")
    BY <1>1 DEF NuevaFactura
  <2>1. t \in Int /\ Resto(t, 0) \in Int
    <3>1. t \in Int  BY CantidadAssumption
    <3> QED  BY <3>1, TiposDeResto
  <2>2. [fac |-> f, nueva |-> TRUE, leida |-> [total |-> 0, cobros |-> 0, resto |-> 0],
         total |-> t, cobros |-> 0, resto |-> Resto(t, 0)] \in FormasLlenas
    BY <2>1 DEF FormasLlenas, FilasFactura
  <2> QED  BY <2>2, TiposAbre
<1>2. CASE ModificaFactura(p)
  <2> PICK f \in Facturas, t \in Totales :
        /\ Existe(f)
        /\ Abre(p, [fac |-> f, nueva |-> FALSE, leida |-> factura[f],
                total |-> t, cobros |-> factura[f].cobros,
                resto |-> Resto(t, factura[f].cobros)], "editando")
    BY <1>2 DEF ModificaFactura
  <2>1. factura[f] \in FilasFactura  BY DEF Tipos, TiposBd, Existe
  <2>2. t \in Int /\ factura[f].cobros \in Int /\ Resto(t, factura[f].cobros) \in Int
    <3>1. t \in Int  BY CantidadAssumption
    <3>2. factura[f].cobros \in Int  BY <2>1 DEF FilasFactura
    <3> QED  BY <3>1, <3>2, TiposDeResto
  <2> QED  BY <2>1, <2>2, TiposAbre DEF FormasLlenas
<1>3. CASE PideBorrar(p)
  <2> PICK f \in Facturas :
        /\ Existe(f)
        /\ Abre(p, [fac |-> f, nueva |-> FALSE, leida |-> factura[f], total |-> factura[f].total,
                cobros |-> factura[f].cobros, resto |-> factura[f].resto], "confirmando")
    BY <1>3 DEF PideBorrar
  <2>1. factura[f] \in FilasFactura  BY DEF Tipos, TiposBd, Existe
  <2> QED  BY <2>1, TiposAbre DEF FormasLlenas, FilasFactura
<1>4. CASE Cancela(p) \/ AcabaDeBorrar(p)
  <2>1. Cierra(p) /\ UNCHANGED <<bd, cobro>>  BY <1>4 DEF Cancela, AcabaDeBorrar
  <2>2. TiposBd' /\ TiposCobro'  BY <2>1 DEF bd, cobro, Tipos, TiposBd, TiposCobro
  <2> QED  BY <2>1, <2>2, TiposCierra DEF Tipos
<1>5. CASE GuardaFactura(p)
  <2> DEFINE c == Campos(o)
             m == IF o.nueva THEN c
                  ELSE IF Existe(o.fac)
                      THEN Modifica(factura[o.fac], o.leida, c) ELSE factura[o.fac]
             n == [o EXCEPT !.nueva = FALSE, !.leida = c]
  <2>1. o \in FormasLlenas /\ paso[p] = "editando"
    BY <1>5 DEF GuardaFactura, Tipos, TiposForma
  <2>2. c \in FilasFactura /\ o.fac \in Facturas
    BY <2>1 DEF Campos, FormasLlenas, FilasFactura
  <2>3. n \in FormasLlenas
    BY <2>1, <2>2 DEF FormasLlenas
  <2>4. m \in FilasFactura \cup {Nada, Borrada}
    <3>1. CASE o.nueva  BY <2>2, <3>1
    <3>2. CASE ~o.nueva /\ Existe(o.fac)
      <4>1. factura[o.fac] \in FilasFactura /\ o.leida \in FilasFactura
        BY <2>1, <2>2, <3>2 DEF Tipos, TiposBd, Existe, FormasLlenas
      <4> QED  BY <2>2, <3>2, <4>1 DEF Modifica, FilasFactura
    <3>3. CASE ~o.nueva /\ ~Existe(o.fac)  BY <2>2, <3>3 DEF Tipos, TiposBd
    <3> QED  BY <3>1, <3>2, <3>3
  <2>5. /\ factura' = [factura EXCEPT ![o.fac] = m]
        /\ fra' = [fra EXCEPT ![p] = n]
        /\ quitar' = [quitar EXCEPT ![p] = DeEstado(o.fac, "pendiente")]
        /\ copia' = [copia EXCEPT ![p] = Nada] /\ paso' = [paso EXCEPT ![p] = "quitar"]
        /\ UNCHANGED <<recibo, ultimo, plazo, cobro>>
    BY <1>5 DEF GuardaFactura, Pon
  <2>6. DeEstado(o.fac, "pendiente") \subseteq Ids  BY DEF DeEstado, De
  <2> HIDE DEF m, n, c
  <2>7. TiposBd'  BY <2>2, <2>4, <2>5 DEF Tipos, TiposBd
  <2>8. TiposCobro'  BY <2>5 DEF cobro, Tipos, TiposCobro
  <2> HIDE DEF o
  <2>9. TiposForma'  BY <2>3, <2>5, <2>6 DEF Tipos, TiposForma, NadaEsOtra
  <2> QED  BY <2>7, <2>8, <2>9 DEF Tipos
<1>6. CASE BorraFactura(p)
  <2>1. o \in FormasLlenas /\ o.fac \in Facturas
    BY <1>6 DEF BorraFactura, Tipos, TiposForma, FormasLlenas
  <2>2. /\ factura' = [factura EXCEPT ![o.fac] = Borrada]
        /\ quitar' = [quitar EXCEPT ![p] = De(o.fac)] /\ paso' = [paso EXCEPT ![p] = "borrar"]
        /\ paso[p] = "confirmando"
        /\ UNCHANGED <<recibo, ultimo, fra, copia, plazo, cobro>>
    BY <1>6 DEF BorraFactura, Pon
  <2>3. De(o.fac) \subseteq Ids  BY DEF De
  <2>4. TiposBd' /\ TiposCobro'  BY <2>1, <2>2 DEF Tipos, TiposBd, TiposCobro, cobro
  <2>5. TiposForma'  BY <2>2, <2>3 DEF Tipos, TiposForma
  <2> QED  BY <2>4, <2>5 DEF Tipos
<1>7. CASE QuitaRecibo(p)
  <2> PICK i \in quitar[p] :
        /\ quitar' = [quitar EXCEPT ![p] = quitar[p] \ {i}]
        /\ IF recibo[i] = Nada THEN UNCHANGED <<factura, recibo, copia>>
           ELSE LET rs == [recibo EXCEPT ![i] = Nada]
                    v  == RecFactura(copia[p], recibo[i].fac)
                IN  /\ recibo' = rs
                    /\ copia' = [copia EXCEPT ![p] = ActPagos(v, rs)]
                    /\ factura' = Guarda(v, ActPagos(v, rs))
    BY <1>7 DEF QuitaRecibo, Pon
  <2>1. /\ i \in Ids /\ copia[p] \in Facturas0 \cup {Nada}
        /\ UNCHANGED <<ultimo, fra, paso, plazo, cobro>>
    BY <1>7 DEF QuitaRecibo, Tipos, TiposForma
  <2>2. TiposCobro'  BY <2>1 DEF Tipos, TiposCobro, cobro
  <2>3. CASE recibo[i] = Nada
    <3>1. TiposBd'  BY <2>1, <2>3 DEF Tipos, TiposBd
    <3>2. TiposForma'  BY <2>1, <2>3 DEF Tipos, TiposForma
    <3> QED  BY <2>2, <3>1, <3>2 DEF Tipos
  <2>4. CASE recibo[i] # Nada
    <3> DEFINE rs == [recibo EXCEPT ![i] = Nada]
               v  == RecFactura(copia[p], recibo[i].fac)
    <3>1. rs \in [Ids -> FilasRecibo \cup {Nada}] /\ \A j \in Ids : rs[j] # Nada => recibo[j] # Nada
      BY <2>1 DEF Tipos, TiposBd
    <3>2. v \in Facturas0 \cup {Nada}
      BY <2>1, <2>4, TiposDeLeeRecibo, TiposDeLeeFactura DEF Tipos
    <3>3. /\ recibo' = rs /\ copia' = [copia EXCEPT ![p] = ActPagos(v, rs)]
          /\ factura' = Guarda(v, ActPagos(v, rs))
      BY <2>4
    <3> HIDE DEF rs, v
    <3>4. /\ ActPagos(v, rs) \in Facturas0 \cup {Nada}
          /\ factura' \in [Facturas -> FilasFactura \cup {Nada, Borrada}]
      BY <3>1, <3>2, <3>3, TiposDeActualiza DEF Tipos
    <3>5. TiposBd'  BY <2>1, <3>1, <3>3, <3>4 DEF Tipos, TiposBd
    <3>6. TiposForma'  BY <2>1, <3>3, <3>4 DEF Tipos, TiposForma
    <3> QED  BY <2>2, <3>5, <3>6 DEF Tipos
  <2> QED  BY <2>3, <2>4
<1>8. CASE EmpiezaAGenerar(p)
  <2>1. UNCHANGED <<bd, cobro>>  BY <1>8 DEF EmpiezaAGenerar
  <2>2. TiposBd' /\ TiposCobro'  BY <2>1 DEF bd, cobro, Tipos, TiposBd, TiposCobro
  <2>3. CASE Cierra(p)  BY <2>2, <2>3, TiposCierra DEF Tipos
  <2>4. CASE ~Cierra(p)
    <3>1. 1 \in 1 .. Plazos  BY PlazosAssumption DEF Plazos
    <3>2. /\ paso[p] = "quitar" /\ paso' = [paso EXCEPT ![p] = "generar"]
          /\ plazo' = [plazo EXCEPT ![p] = 1] /\ UNCHANGED <<fra, quitar, copia>>
      BY <1>8, <2>4 DEF EmpiezaAGenerar, Pon
    <3>3. TiposForma'  BY <3>1, <3>2 DEF Tipos, TiposForma
    <3> QED  BY <2>2, <3>3 DEF Tipos
  <2> QED  BY <2>3, <2>4
<1>9. CASE GeneraRecibo(p)
  <2>1. o \in FormasLlenas /\ o.fac \in Facturas /\ o.resto \in Int
    BY <1>9 DEF GeneraRecibo, Tipos, TiposForma, FormasLlenas
  <2>2. SiguientePlazo(p) /\ UNCHANGED <<factura, cobro>>  BY <1>9 DEF GeneraRecibo
  <2>3. TiposForma'  BY <2>2, TiposSiguiente DEF Tipos
  <2>4. plazo[p] \in 1 .. Plazos /\ Plazos \in Nat \ {0}
    BY PlazosAssumption DEF Plazos, Tipos, TiposForma
  <2>5. Vence(plazo[p]) \in Nat /\ Redondea(o.resto) \in Int
    BY <2>1, <2>4, PlazosAssumption DEF Vence, Redondea
  <2>6. CASE UNCHANGED <<recibo, ultimo>>
    <3>1. TiposBd' /\ TiposCobro'  BY <2>2, <2>6 DEF cobro, Tipos, TiposBd, TiposCobro
    <3> QED  BY <2>3, <3>1 DEF Tipos
  <2>7. CASE ~UNCHANGED <<recibo, ultimo>>
    <3> DEFINE r == [fac |-> o.fac, imp |-> Redondea(o.resto), resto |-> Redondea(o.resto),
                  est |-> "pendiente", fecha |-> Vence(plazo[p])]
    <3>1. r \in FilasRecibo  BY <2>1, <2>5 DEF FilasRecibo
    <3>2. ultimo < MaxRecibos /\ ultimo' = ultimo + 1 /\ recibo' = [recibo EXCEPT ![ultimo + 1] = r]
      BY <1>9, <2>7 DEF GeneraRecibo
    <3> HIDE DEF r
    <3>3. ultimo + 1 \in Ids /\ ultimo' \in 0 .. MaxRecibos /\ ultimo \in Nat
      BY <3>2, NumeroAssumption DEF Tipos, TiposBd, Ids
    <3>4. TiposBd'  BY <2>2, <3>1, <3>2, <3>3 DEF Tipos, TiposBd, Ids
    <3>5. TiposCobro'
      <4>1. UNCHANGED <<rec, cache, pago>>  BY <2>2 DEF cobro
      <4>2. \A q \in Puestos : rec[q] # Nada => rec[q].id <= ultimo + 1
        BY <3>3 DEF Tipos, TiposCobro, Objetos, Ids
      <4> QED  BY <3>2, <4>1, <4>2 DEF Tipos, TiposCobro
    <3> QED  BY <2>3, <3>4, <3>5 DEF Tipos
  <2> QED  BY <2>6, <2>7
<1> QED
  BY <1>1, <1>2, <1>3, <1>4, <1>5, <1>6, <1>7, <1>8, <1>9 DEF FormaFactura

\* A step of the receipts form, or of its failures, that only changes what it holds.
LEMMA TiposSoloObjeto ==
  ASSUME Tipos, UNCHANGED <<bd, forma>>, TiposCobro'
  PROVE  Tipos'
  BY DEF Tipos, TiposBd, TiposForma, bd, forma

\* The receipt in the form is saved, and the payment goes on or ends.
LEMMA TiposDePago ==
  ASSUME Tipos, NEW p \in Puestos, NEW n \in Objetos, n.id = rec[p].id, rec[p] # Nada,
         recibo' = GuardaRecibo(rec[p], n), UNCHANGED <<factura, ultimo, forma>>,
         NEW v \in Objetos, v.id <= ultimo, rec' = Pon(rec, p, v),
         cache' \in [Puestos -> Facturas0 \cup {Nada}],
         NEW g \in [fase : {"no", "preguntar", "multiple", "nuevo"}, queda : Nat],
         pago' = Pon(pago, p, g), NadaEsOtra
  PROVE  Tipos'
<1>1. rec[p] \in Objetos  BY DEF Tipos, TiposCobro
<1>2. /\ recibo' \in [Ids -> FilasRecibo \cup {Nada}]
      /\ \A i \in Ids : recibo'[i] # Nada => recibo[i] # Nada
  BY <1>1, TiposDeGuardaRecibo DEF Tipos
<1>3. TiposBd'  BY <1>2 DEF Tipos, TiposBd
<1>4. TiposForma'  BY DEF Tipos, TiposForma, forma
<1>5. v # Nada  BY DEF NadaEsOtra
<1>6. TiposCobro'  BY <1>5 DEF Tipos, TiposCobro, Pon
<1> QED  BY <1>3, <1>4, <1>6 DEF Tipos

\* The end of a payment keeps the types of what it writes.
LEMMA TiposAcabaPago ==
  ASSUME Tipos, NEW p \in Puestos, NEW h, AcabaPago(p, h)
  PROVE  /\ cache' \in [Puestos -> Facturas0 \cup {Nada}]
         /\ pago' = Pon(pago, p, SinPago)
         /\ SinPago \in [fase : {"no", "preguntar", "multiple", "nuevo"}, queda : Nat]
         /\ SinPago.fase = "no"
<1>1. cache[p] # Nada => ActResto(cache[p]) \in Facturas0
  BY TiposDeActResto DEF Tipos, TiposCobro
<1> QED  BY <1>1 DEF AcabaPago, Pon, SinPago, Tipos, TiposCobro

\* Every step of the receipts form keeps the types.
LEMMA TiposFormaRecibo ==
  ASSUME Tipos, NadaEsOtra, NEW p \in Puestos, FormaRecibo(p)
  PROVE  Tipos'
<1> DEFINE o == rec[p]
           k == rec[p].id
<1>1. /\ o # Nada => o \in Objetos /\ k \in Ids /\ k <= ultimo
      /\ cache[p] \in Facturas0 \cup {Nada}
      /\ pago[p] \in [fase : {"no", "preguntar", "multiple", "nuevo"}, queda : Nat]
      /\ pago[p].fase # "no" => o # Nada
      /\ pago[p] = SinPago => pago[p].fase = "no"
      /\ TiposBd /\ TiposCobro
  BY DEF Tipos, TiposCobro, Objetos, SinPago
<1>2. ASSUME NEW q \in Importes(p)
      PROVE  /\ q \in Int /\ o # Nada /\ o.imp \in Int
             /\ q < o.imp => o.imp - q \in Nat
             /\ q > o.imp => q - o.imp \in Nat
  <2>1. pago[p].fase \in {"preguntar", "multiple"}
    BY DEF Importes
  <2>2. o \in Objetos /\ o.imp \in Int
    BY <1>1, <2>1 DEF Objetos
  <2>3. CASE pago[p].fase = "preguntar"
    <3>1. q \in Cantidades \cup {o.imp}  BY <2>3 DEF Importes
    <3>2. q \in Int  BY <2>2, <3>1, CantidadAssumption
    <3> QED  BY <1>1, <2>1, <2>2, <3>2
  <2>4. CASE pago[p].fase = "multiple"
    <3>1. q = pago[p].queda  BY <2>4 DEF Importes
    <3>2. q \in Int  BY <1>1, <3>1
    <3> QED  BY <1>1, <2>1, <2>2, <3>2
  <2> QED  BY <2>1, <2>3, <2>4
<1>3. CASE VeRecibo(p)
  <2> PICK i \in Ids : /\ recibo[i] # Nada /\ rec' = Pon(rec, p, LeeRecibo(i))
                       /\ cache' = Pon(cache, p, RecFactura(cache[p], recibo[i].fac))
                       /\ pago[p] = SinPago
                       /\ UNCHANGED <<bd, forma, pago>>
    BY <1>3 DEF VeRecibo
  <2>1. LeeRecibo(i) \in Objetos /\ LeeRecibo(i).id = i /\ i <= ultimo
    BY <1>1, TiposDeLeeRecibo
  <2>2. RecFactura(cache[p], recibo[i].fac) \in Facturas0 \cup {Nada}
    BY <1>1, TiposDeLeeRecibo, TiposDeLeeFactura
  <2>3. UNCHANGED ultimo  BY DEF bd
  <2>4. TiposCobro'  BY <1>1, <2>1, <2>2, <2>3 DEF TiposCobro, Pon
  <2> QED  BY <2>4, TiposSoloObjeto
<1>4. CASE CierraRecibos(p)
  <2>1. /\ rec' = Pon(rec, p, Nada) /\ cache' = Pon(cache, p, Nada) /\ pago[p] = SinPago
        /\ UNCHANGED <<bd, forma, pago>>
    BY <1>4 DEF CierraRecibos
  <2>2. UNCHANGED ultimo  BY <2>1 DEF bd
  <2>3. TiposCobro'  BY <1>1, <2>1, <2>2 DEF TiposCobro, Pon
  <2> QED  BY <2>1, <2>3, TiposSoloObjeto
<1>5. CASE AceptaRecibo(p)
  <2> PICK d \in FechasNuevas \cup {rec[p].fecha} :
        LET n  == [rec[p] EXCEPT !.fecha = d]
            rs == GuardaRecibo(rec[p], n)
        IN  /\ recibo' = rs
            /\ rec' = Pon(rec, p, n)
            /\ cache' = Pon(cache, p, ActPagos(cache[p], rs))
            /\ factura' = Guarda(cache[p], ActPagos(cache[p], rs))
    BY <1>5 DEF AceptaRecibo
  <2> DEFINE n  == [rec[p] EXCEPT !.fecha = d]
             rs == GuardaRecibo(rec[p], n)
  <2>1. o \in Objetos /\ o # Nada /\ pago[p] = SinPago /\ UNCHANGED <<ultimo, forma, pago>>
    BY <1>1, <1>5 DEF AceptaRecibo
  <2>2. d \in Nat  BY <2>1, FechaAssumption, TiposDeObjeto
  <2>3. n \in Objetos /\ n.id = k  BY <2>1, <2>2, TiposDeObjeto
  <2>4. /\ recibo' = rs /\ rec' = Pon(rec, p, n)
        /\ cache' = Pon(cache, p, ActPagos(cache[p], rs))
        /\ factura' = Guarda(cache[p], ActPagos(cache[p], rs))
    OBVIOUS
  <2> HIDE DEF n
  <2>5. rs \in [Ids -> FilasRecibo \cup {Nada}] /\ \A i \in Ids : rs[i] # Nada => recibo[i] # Nada
    BY <1>1, <2>1, <2>3, TiposDeGuardaRecibo
  <2> HIDE DEF rs
  <2>6. /\ ActPagos(cache[p], rs) \in Facturas0 \cup {Nada}
        /\ factura' \in [Facturas -> FilasFactura \cup {Nada, Borrada}]
    BY <1>1, <2>4, <2>5, TiposDeActualiza
  <2>7. TiposBd'  BY <1>1, <2>1, <2>4, <2>5, <2>6 DEF TiposBd
  <2>8. TiposForma'  BY <2>1 DEF Tipos, TiposForma, forma
  <2>9. TiposCobro'
    <3> DEFINE c == ActPagos(cache[p], rs)
    <3>1. c \in Facturas0 \cup {Nada} /\ cache' = Pon(cache, p, c)  BY <2>4, <2>6
    <3>2. n \in Objetos /\ n.id <= ultimo /\ pago[p].fase = "no"  BY <1>1, <2>1, <2>3
    <3> HIDE DEF c
    <3> QED  BY <1>1, <2>1, <2>4, <3>1, <3>2 DEF TiposCobro, Pon
  <2> QED  BY <2>7, <2>8, <2>9 DEF Tipos
<1>6. CASE BorraRecibo(p)
  <2> DEFINE rs == [recibo EXCEPT ![rec[p].id] = Nada]
  <2>1. /\ pago[p] = SinPago /\ UNCHANGED <<ultimo, forma, pago>>
        /\ recibo' = rs /\ rec' = Pon(rec, p, Nada)
        /\ cache' = Pon(cache, p, ActPagos(cache[p], rs))
        /\ factura' = Guarda(cache[p], ActPagos(cache[p], rs))
    BY <1>6 DEF BorraRecibo
  <2>2. rs \in [Ids -> FilasRecibo \cup {Nada}] /\ \A i \in Ids : rs[i] # Nada => recibo[i] # Nada
    BY <1>1 DEF TiposBd
  <2> HIDE DEF rs
  <2>3. /\ ActPagos(cache[p], rs) \in Facturas0 \cup {Nada}
        /\ factura' \in [Facturas -> FilasFactura \cup {Nada, Borrada}]
    BY <1>1, <2>1, <2>2, TiposDeActualiza
  <2>4. TiposBd'  BY <1>1, <2>1, <2>2, <2>3 DEF TiposBd
  <2>5. TiposForma'  BY <2>1 DEF Tipos, TiposForma, forma
  <2>6. TiposCobro'  BY <1>1, <2>1, <2>3 DEF TiposCobro, Pon
  <2> QED  BY <2>4, <2>5, <2>6 DEF Tipos
<1>7. ASSUME o # Nada, recibo[k] # Nada, rec' = Pon(rec, p, LeeRecibo(k)),
             NEW g \in [fase : {"no", "preguntar", "multiple", "nuevo"}, queda : Nat],
             pago' = Pon(pago, p, g),
             UNCHANGED <<bd, forma, cache>>
      PROVE  Tipos'
  <2>1. LeeRecibo(k) \in Objetos /\ LeeRecibo(k).id = k /\ k <= ultimo
    BY <1>1, <1>7, TiposDeLeeRecibo
  <2>2. UNCHANGED ultimo  BY <1>7 DEF bd
  <2>3. LeeRecibo(k) # Nada  BY <2>1 DEF NadaEsOtra
  <2>4. TiposCobro'  BY <1>1, <1>7, <2>1, <2>2, <2>3 DEF TiposCobro, Pon
  <2> QED  BY <1>7, <2>4, TiposSoloObjeto
<1>8. CASE EmpiezaAPagar(p)
  BY <1>7, <1>8 DEF EmpiezaAPagar
<1>9. CASE VuelveAEmpezar(p)
  <2>1. pago' = Pon(pago, p, pago[p])  BY <1>9 DEF VuelveAEmpezar, Pon, Tipos, TiposCobro
  <2> QED  BY <1>1, <1>7, <1>9, <2>1 DEF VuelveAEmpezar
<1>10. CASE CancelaPago(p)
  <2>1. AcabaPago(p, FALSE) /\ UNCHANGED <<bd, forma, rec>>  BY <1>10 DEF CancelaPago
  <2>2. UNCHANGED ultimo  BY <2>1 DEF bd
  <2>3. TiposCobro'
    BY <1>1, <2>1, <2>2, TiposAcabaPago DEF TiposCobro, Pon
  <2> QED  BY <2>1, <2>3, TiposSoloObjeto
<1>11. ASSUME NEW m \in Int, o # Nada
       PROVE  Pagado(o, m) \in Objetos /\ Pagado(o, m).id = k
  BY <1>1, <1>11, TiposDeObjeto
<1>12. CASE PagaExacto(p)
  <2>1. o # Nada /\ o.imp \in Int  BY <1>2, <1>12 DEF PagaExacto
  <2> DEFINE n == Pagado(o, o.imp)
  <2>2. /\ recibo' = GuardaRecibo(o, n) /\ rec' = Pon(rec, p, n)
        /\ AcabaPago(p, TRUE) /\ UNCHANGED <<factura, ultimo, forma>>
    BY <1>12 DEF PagaExacto
  <2>3. n \in Objetos /\ n.id = k  BY <1>11, <2>1
  <2> HIDE DEF n
  <2> QED  BY <1>1, <2>1, <2>2, <2>3, TiposAcabaPago, TiposDePago
<1>13. CASE PagaParte(p)
  <2> PICK q \in Importes(p) :
        /\ q < o.imp
        /\ recibo' = GuardaRecibo(o, Pagado(o, q)) /\ rec' = Pon(rec, p, Pagado(o, q))
        /\ pago' = Pon(pago, p, [fase |-> "nuevo", queda |-> o.imp - q])
        /\ UNCHANGED <<factura, ultimo, forma, cache>>
    BY <1>13 DEF PagaParte
  <2>1. q \in Int /\ o # Nada /\ o.imp - q \in Nat  BY <1>2
  <2>2. Pagado(o, q) \in Objetos /\ Pagado(o, q).id = k  BY <1>11, <2>1
  <2>3. cache' \in [Puestos -> Facturas0 \cup {Nada}]  BY <1>1 DEF TiposCobro
  <2>4. [fase |-> "nuevo", queda |-> o.imp - q]
          \in [fase : {"no", "preguntar", "multiple", "nuevo"}, queda : Nat]
    BY <2>1
  <2> DEFINE n == Pagado(o, q)
  <2> HIDE DEF n
  <2> QED  BY <1>1, <2>1, <2>2, <2>3, <2>4, TiposDePago
<1>14. CASE PagaDeMas(p)
  <2> PICK q \in Importes(p) :
        /\ q > o.imp
        /\ recibo' = GuardaRecibo(o, Pagado(o, o.imp))
        /\ \/ rec' = Pon(rec, p, Pagado(o, o.imp)) /\ AcabaPago(p, TRUE)
           \/ \E i \in Ids \ {k} :
                /\ cache[p] # Nada /\ i \in DeEstado(cache[p].fac, "pendiente")
                /\ rec' = Pon(rec, p, LeeRecibo(i))
                /\ pago' = Pon(pago, p, [fase |-> "multiple", queda |-> q - o.imp])
                /\ UNCHANGED cache
        /\ UNCHANGED <<factura, ultimo, forma>>
    BY <1>14 DEF PagaDeMas
  <2>1. q \in Int /\ o # Nada /\ o.imp \in Int /\ q - o.imp \in Nat  BY <1>2
  <2>2. Pagado(o, o.imp) \in Objetos /\ Pagado(o, o.imp).id = k  BY <1>11, <2>1
  <2>3. CASE rec' = Pon(rec, p, Pagado(o, o.imp)) /\ AcabaPago(p, TRUE)
    BY <1>1, <2>1, <2>2, <2>3, TiposAcabaPago, TiposDePago
  <2>4. ASSUME NEW i \in Ids, i \in DeEstado(cache[p].fac, "pendiente"),
               rec' = Pon(rec, p, LeeRecibo(i)), UNCHANGED cache,
               pago' = Pon(pago, p, [fase |-> "multiple", queda |-> q - o.imp])
        PROVE  Tipos'
    <3>1. recibo[i] # Nada  BY <2>4 DEF DeEstado, De
    <3>2. LeeRecibo(i) \in Objetos /\ LeeRecibo(i).id <= ultimo  BY <1>1, <3>1, TiposDeLeeRecibo
    <3>3. cache' \in [Puestos -> Facturas0 \cup {Nada}]  BY <1>1, <2>4 DEF TiposCobro
    <3>4. [fase |-> "multiple", queda |-> q - o.imp]
            \in [fase : {"no", "preguntar", "multiple", "nuevo"}, queda : Nat]
      BY <2>1
    <3> QED  BY <1>1, <2>1, <2>2, <2>4, <3>2, <3>3, <3>4, TiposDePago
  <2> QED  BY <2>3, <2>4
<1>15. CASE AnulaPago(p)
  <2> DEFINE n == [o EXCEPT !.est = "pendiente", !.resto = o.imp]
  <2>1. /\ o # Nada /\ recibo' = GuardaRecibo(o, n) /\ rec' = Pon(rec, p, n)
        /\ AcabaPago(p, TRUE) /\ UNCHANGED <<factura, ultimo, forma>>
    BY <1>15 DEF AnulaPago
  <2>2. n \in Objetos /\ n.id = k  BY <1>1, <2>1, TiposDeObjeto
  <2> HIDE DEF n
  <2> QED  BY <1>1, <2>1, <2>2, TiposAcabaPago, TiposDePago
<1>16. CASE NuevoRecibo(p)
  <2> DEFINE n == [o EXCEPT !.id = ultimo + 1, !.est = "pendiente",
                            !.imp = pago[p].queda, !.resto = pago[p].queda]
  <2>1. /\ o # Nada /\ ultimo < MaxRecibos /\ ultimo' = ultimo + 1
        /\ recibo' = [recibo EXCEPT ![ultimo + 1] = Fila(n)] /\ rec' = Pon(rec, p, n)
        /\ AcabaPago(p, TRUE) /\ UNCHANGED <<factura, forma>>
    BY <1>1, <1>16 DEF NuevoRecibo
  <2>2. ultimo + 1 \in Ids /\ ultimo' \in 0 .. MaxRecibos /\ ultimo \in Nat /\ pago[p].queda \in Int
    BY <1>1, <2>1, NumeroAssumption DEF TiposBd, Ids
  <2>3. n \in Objetos /\ n.id = ultimo + 1
    <3>1. o \in Objetos  BY <1>1, <2>1
    <3> QED  BY <2>2, <3>1, TiposDeNuevo
  <2> HIDE DEF n
  <2>4. Fila(n) \in FilasRecibo /\ n # Nada  BY <2>3, TiposDeObjeto DEF NadaEsOtra
  <2>5. TiposBd'  BY <1>1, <2>1, <2>2, <2>4 DEF TiposBd, Ids
  <2>6. TiposForma'  BY <2>1 DEF Tipos, TiposForma, forma
  <2>7. /\ cache' \in [Puestos -> Facturas0 \cup {Nada}] /\ pago' = Pon(pago, p, SinPago)
        /\ SinPago \in [fase : {"no", "preguntar", "multiple", "nuevo"}, queda : Nat]
    BY <2>1, TiposAcabaPago
  <2>8. \A q \in Puestos : rec[q] # Nada => rec[q].id \in Nat /\ rec[q].id <= ultimo
    BY <1>1 DEF TiposCobro, Objetos, Ids
  <2>9. TiposCobro'  BY <1>1, <2>1, <2>2, <2>3, <2>4, <2>7, <2>8 DEF TiposCobro, Pon
  <2> QED  BY <2>5, <2>6, <2>9 DEF Tipos
<1> QED
  BY <1>3, <1>4, <1>5, <1>6, <1>8, <1>9, <1>10, <1>12, <1>13, <1>14, <1>15, <1>16
     DEF FormaRecibo

\* Every failure keeps the types.
LEMMA TiposFallo ==
  ASSUME Tipos, NEW p \in Puestos, Fallo(p)
  PROVE  Tipos'
<1>1. CASE QuitarFalla(p)
  <2>1. /\ paso[p] = "quitar" /\ paso' = Pon(paso, p, "editando")
        /\ quitar' = Pon(quitar, p, {}) /\ copia' = Pon(copia, p, Nada)
        /\ UNCHANGED <<bd, fra, plazo, cobro>>
    BY <1>1 DEF QuitarFalla
  <2>2. TiposBd' /\ TiposCobro'  BY <2>1 DEF bd, cobro, Tipos, TiposBd, TiposCobro
  <2>3. TiposForma'  BY <2>1 DEF Tipos, TiposForma, Pon
  <2> QED  BY <2>2, <2>3 DEF Tipos
<1>2. CASE GenerarFalla(p)
  <2>1. SiguientePlazo(p) /\ UNCHANGED <<bd, cobro>>  BY <1>2 DEF GenerarFalla
  <2>2. TiposBd' /\ TiposCobro'  BY <2>1 DEF bd, cobro, Tipos, TiposBd, TiposCobro
  <2> QED  BY <2>1, <2>2, TiposSiguiente DEF Tipos
<1>3. CASE NuevoFalla(p)
  <2>1. AcabaPago(p, FALSE) /\ rec' = Pon(rec, p, Nada) /\ UNCHANGED <<bd, forma>>
    BY <1>3 DEF NuevoFalla
  <2>2. UNCHANGED ultimo  BY <2>1 DEF bd
  <2>3. TiposCobro'
    BY <2>1, <2>2, TiposAcabaPago DEF Tipos, TiposCobro, Pon
  <2> QED  BY <2>1, <2>3, TiposSoloObjeto
<1>4. CASE Muere(p)
  <2>1. /\ Cierra(p) /\ rec' = Pon(rec, p, Nada) /\ cache' = Pon(cache, p, Nada)
        /\ pago' = Pon(pago, p, SinPago) /\ UNCHANGED bd
    BY <1>4 DEF Muere
  <2>2. TiposBd'  BY <2>1 DEF bd, Tipos, TiposBd
  <2>3. UNCHANGED ultimo  BY <2>1 DEF bd
  <2>4. TiposCobro'  BY <2>1, <2>3 DEF Tipos, TiposCobro, Pon, SinPago
  <2> QED  BY <2>1, <2>2, <2>4, TiposCierra DEF Tipos
<1> QED  BY <1>1, <1>2, <1>3, <1>4 DEF Fallo

\* The types hold initially.
LEMMA InicioTipos ==
  Init => Tipos
<1>1. 1 \in 1 .. Plazos  BY PlazosAssumption DEF Plazos
<1> QED  BY <1>1, NumeroAssumption DEF Init, Tipos, TiposBd, TiposForma, TiposCobro, SinPago, Ids

\* Every step keeps the types.
LEMMA PasoTipos ==
  ASSUME NadaEsOtra
  PROVE  Tipos /\ [Next]_vars => Tipos'
<1> SUFFICES ASSUME Tipos, [Next]_vars  PROVE Tipos'
  OBVIOUS
<1>1. CASE UNCHANGED vars
  BY <1>1 DEF vars, bd, forma, cobro, Tipos, TiposBd, TiposForma, TiposCobro
<1>2. CASE Next
  BY <1>2, TiposFormaFactura, TiposFormaRecibo, TiposFallo DEF Next
<1> QED  BY <1>1, <1>2

\* Every variable keeps its type, with any workstations, whatever fails: no receipt is
\* stored or held beyond the last id, amounts stay whole, and an invoice is held only
\* while it is edited.
THEOREM TiposSiempre ==
  ASSUME NadaEsOtra
  PROVE  Spec => []TypeOK
<1>1. Tipos => TypeOK
  <2> SUFFICES ASSUME Tipos  PROVE TypeOK
    OBVIOUS
  <2>1. /\ \A f \in Facturas : factura[f] \in {Nada, Borrada} \/ factura[f] \in FilasFactura
        /\ \A i \in Ids : recibo[i] = Nada \/ (i <= ultimo /\ recibo[i] \in FilasRecibo)
        /\ ultimo \in 0 .. MaxRecibos
    BY DEF Tipos, TiposBd
  <2>2. ASSUME NEW p \in Puestos, rec[p] # Nada
        PROVE  rec[p].id \in 1 .. ultimo /\ Fila(rec[p]) \in FilasRecibo
    <3>1. rec[p] \in Objetos /\ rec[p].id <= ultimo /\ ultimo \in Nat
      BY <2>1, <2>2, NumeroAssumption DEF Tipos, TiposCobro
    <3>2. rec[p].id \in Ids /\ Fila(rec[p]) \in FilasRecibo  BY <3>1, TiposDeObjeto
    <3> QED  BY <3>1, <3>2 DEF Ids
  <2> QED  BY <2>1, <2>2 DEF TypeOK, Tipos, TiposForma, TiposCobro
<1> QED  BY InicioTipos, PasoTipos, <1>1, PTL DEF Spec

-------------------------------------------------------------------------------
(* What is left to collect of an invoice.                                  *)

\* A copy that an object holds is what is stored of its invoice.
AlDia(o) == o # Nada => Existe(o.fac) /\ factura[o.fac] = Campos(o)

\* With one form at a time: the receipts form holds no invoice while the invoice
\* form is open; delPagos reads one copy, of the invoice that was saved; and the
\* invoice form has what it read, or what it saved before a removal failed.
CopiasAlDia(p) ==
  LET o == fra[p] IN
  /\ AlDia(copia[p]) /\ AlDia(cache[p])
  /\ copia[p] # Nada => paso[p] \in {"quitar", "generar"}
  /\ paso[p] # "libre" => cache[p] = Nada /\ rec[p] = Nada
  /\ paso[p] = "editando" => o.resto = Resto(o.total, o.cobros)
  /\ paso[p] = "editando" /\ ~o.nueva =>
       Existe(o.fac) /\ (o.leida = factura[o.fac] \/ o.leida = Campos(o))
  /\ paso[p] = "quitar" =>
       o.leida = Campos(o) /\ o.resto = Resto(o.total, o.cobros) /\ Existe(o.fac)

\* What delPagos still has to remove, and the copy that it holds, are of the invoice
\* of the form, which is gone when it is being removed.
DeUnaFactura(p) ==
  /\ \A i \in quitar[p] : recibo[i] # Nada => recibo[i].fac = fra[p].fac
  /\ copia[p] # Nada => copia[p].fac = fra[p].fac
  /\ paso[p] = "borrar" => ~Existe(fra[p].fac)

RInv ==
  /\ Tipos /\ TInv /\ RestoCuadrado
  /\ \A p \in Puestos : CopiasAlDia(p) /\ DeUnaFactura(p)

\* An UPDATE of the modified fields, on the row as it was read, gives the new row; when
\* nothing was modified it leaves the row alone.
LEMMA ModificaEntera ==
  ASSUME NEW a, NEW b, EsFactura(a), EsFactura(b)
  PROVE  Modifica(a, a, b) = b /\ Modifica(a, b, b) = a
  BY DEF Modifica, EsFactura

\* After actPagos the copy, saved, is what is stored, and its RESTO follows.
LEMMA ActualizaResto ==
  ASSUME FormasFactura, FilasDistintas, RestoCuadrado,
         NEW o, o = Nada \/ (EsCopia(o) /\ o.fac \in Facturas), AlDia(o), NEW rs,
         factura' = Guarda(o, ActPagos(o, rs))
  PROVE  LET n == ActPagos(o, rs) IN
         /\ o = Nada => n = Nada /\ factura' = factura
         /\ o # Nada =>
              /\ n.fac = o.fac /\ n.cobros = Cobrado(rs, o.fac)
              /\ Campos(n) \notin {Nada, Borrada}
              /\ n.resto = Resto(n.total, n.cobros)
              /\ \A f \in Facturas : factura'[f] = IF f = o.fac THEN Campos(n) ELSE factura[f]
<1> DEFINE n == ActPagos(o, rs)
           d == Cobrado(rs, o.fac)
<1>1. CASE o = Nada
  BY <1>1 DEF ActPagos, Guarda
<1>2. CASE o # Nada
  <2>1. /\ EsCopia(o) /\ o.fac \in Facturas /\ Existe(o.fac) /\ factura[o.fac] = Campos(o)
        /\ o.resto = Resto(o.total, o.cobros) /\ factura = [f \in Facturas |-> factura[f]]
    BY <1>2 DEF AlDia, RestoCuadrado, Campos, FormasFactura
  <2>2. n = [fac |-> o.fac, total |-> o.total, cobros |-> d, resto |-> Resto(o.total, d)]
    <3>1. CASE d = o.cobros
      BY <1>2, <2>1, <3>1 DEF ActPagos, EsCopia
    <3>2. CASE d # o.cobros
      <4>1. n = ActResto([o EXCEPT !.cobros = d])  BY <1>2, <3>2 DEF ActPagos
      <4> HIDE DEF d, n
      <4>2. ASSUME NEW f, NEW t, NEW c, NEW r,
                   o = [fac |-> f, total |-> t, cobros |-> c, resto |-> r]
            PROVE  ActResto([o EXCEPT !.cobros = d]) =
                     [fac |-> f, total |-> t, cobros |-> d, resto |-> Resto(t, d)]
        <5>1. [o EXCEPT !.cobros = d] = [fac |-> f, total |-> t, cobros |-> d, resto |-> r]
          BY <4>2
        <5>2. ActResto([fac |-> f, total |-> t, cobros |-> d, resto |-> r]) =
                [fac |-> f, total |-> t, cobros |-> d, resto |-> Resto(t, d)]
          BY DEF ActResto
        <5> QED  BY <5>1, <5>2
      <4> QED  BY <2>1, <4>1, <4>2 DEF EsCopia
    <3> QED  BY <3>1, <3>2
  <2> HIDE DEF n
  <2>3. n.fac = o.fac /\ n.cobros = d /\ n.total = o.total /\ n.resto = Resto(o.total, d)
    BY <2>2
  <2>4. EsFactura(Campos(n)) /\ EsFactura(Campos(o))
    BY DEF Campos, EsFactura
  <2>5. Campos(n) \notin {Nada, Borrada}  BY DEF Campos, FilasDistintas
  <2>6. \A f \in Facturas : factura'[f] = IF f = o.fac THEN Campos(n) ELSE factura[f]
    <3>1. CASE o = n
      BY <2>1, <3>1 DEF Guarda, n
    <3>2. CASE o # n
      <4>1. factura' = [factura EXCEPT ![o.fac] = Modifica(factura[o.fac], Campos(o), Campos(n))]
        BY <1>2, <2>1, <3>2 DEF Guarda, n
      <4>2. Modifica(factura[o.fac], Campos(o), Campos(n)) = Campos(n)
        BY <2>1, <2>4, ModificaEntera
      <4> QED  BY <2>1, <4>1, <4>2
    <3> QED  BY <3>1, <3>2
  <2> QED  BY <1>2, <2>3, <2>5, <2>6 DEF n
<1> QED  BY <1>1, <1>2

\* What one step of the only workstation has to keep, the types and the total apart.
RPaso(q) == RestoCuadrado' /\ CopiasAlDia(q)'

\* A copy that is read from what is stored.
LEMMA LeidaAlDia ==
  ASSUME FormasFactura, NEW o, AlDia(o), NEW f \in Facturas
  PROVE  AlDia(RecFactura(o, f))
  BY DEF AlDia, RecFactura, LeeFactura, FormasFactura, EsFactura, Campos

\* A step of the invoice form that leaves the invoices alone.
LEMMA SinEscribir ==
  ASSUME NEW q, Puestos = {q}, RInv, UNCHANGED factura,
         cache'[q] = Nada \/ cache'[q] = cache[q], copia'[q] = Nada \/ copia'[q] = copia[q],
         copia'[q] # Nada => paso'[q] \in {"quitar", "generar"},
         paso'[q] # "libre" => cache'[q] = Nada /\ rec'[q] = Nada,
         paso'[q] = "editando" => fra'[q].resto = Resto(fra'[q].total, fra'[q].cobros),
         paso'[q] = "editando" /\ ~fra'[q].nueva =>
           Existe(fra'[q].fac)
               /\ (fra'[q].leida = factura[fra'[q].fac] \/ fra'[q].leida = Campos(fra'[q])),
         paso'[q] = "quitar" =>
           /\ fra'[q].leida = Campos(fra'[q])
           /\ fra'[q].resto = Resto(fra'[q].total, fra'[q].cobros)
           /\ Existe(fra'[q].fac)
  PROVE  RPaso(q)
<1>1. RestoCuadrado'  BY DEF RInv, RestoCuadrado, Existe
<1>2. CopiasAlDia(q)'  BY DEF RInv, CopiasAlDia, AlDia, Existe, Campos
<1> QED  BY <1>1, <1>2 DEF RPaso

\* The invoice form goes back to browsing.
LEMMA CierraResto ==
  ASSUME NEW q, Puestos = {q}, RInv, Cierra(q), UNCHANGED factura,
         cache'[q] = Nada \/ cache'[q] = cache[q]
  PROVE  RPaso(q)
<1>1. paso'[q] = "libre" /\ copia'[q] = Nada
  BY DEF Cierra, Pon, RInv, Tipos, TiposForma
<1> QED  BY <1>1, SinEscribir

\* The invoice form reads the invoice that it is going to edit or remove.
LEMMA AbreResto ==
  ASSUME NEW q, Puestos = {q}, RInv, UnaVentana, NEW o, NEW sig \in {"editando", "confirmando"},
         Abre(q, o, sig),
         sig = "editando" => o.resto = Resto(o.total, o.cobros),
         sig = "editando" /\ ~o.nueva => Existe(o.fac) /\ o.leida = factura[o.fac]
  PROVE  RPaso(q)
<1>1. /\ paso'[q] = sig /\ fra'[q] = o /\ copia[q] = Nada
      /\ UNCHANGED <<factura, rec, cache, copia>> /\ rec[q] = Nada /\ cache[q] = Nada
  BY DEF Abre, Pon, bd, cobro, RInv, Tipos, TiposForma, CopiasAlDia
<1> QED  BY <1>1, SinEscribir

\* RecFacturaVenta::save writes the fields that changed in the form: with one form at a
\* time nobody has changed the others since it read them.
LEMMA GuardaFacturaResto ==
  ASSUME NEW q, Puestos = {q}, FilasDistintas, RInv, GuardaFactura(q)
  PROVE  RPaso(q)
<1> DEFINE o == fra[q]
           k == fra[q].fac
           c == Campos(fra[q])
           m == IF o.nueva THEN c
                ELSE IF Existe(k) THEN Modifica(factura[k], o.leida, c) ELSE factura[k]
<1>1. /\ FormasFactura /\ CopiasAlDia(q) /\ k \in Facturas /\ EsForma(o)
      /\ paso[q] = "editando" /\ factura = [f \in Facturas |-> factura[f]] /\ RestoCuadrado
  BY DEF GuardaFactura, RInv, TInv, FormasFactura
<1>2. factura' = [factura EXCEPT ![k] = m] /\ UNCHANGED <<rec, cache>>
  BY DEF GuardaFactura, cobro
<1>3. /\ paso'[q] = "quitar" /\ copia'[q] = Nada
      /\ fra'[q] = [o EXCEPT !.nueva = FALSE, !.leida = c]
  BY DEF GuardaFactura, Pon, RInv, Tipos, TiposForma
<1>4. EsFactura(c) /\ c.resto = o.resto /\ c.total = o.total /\ c.cobros = o.cobros
  BY DEF Campos, EsFactura
<1>5. c \notin {Nada, Borrada}
  BY <1>4 DEF FilasDistintas, EsFactura
<1>6. /\ fra'[q].fac = k /\ ~fra'[q].nueva /\ fra'[q].leida = c /\ fra'[q].resto = o.resto
      /\ fra'[q].total = o.total /\ fra'[q].cobros = o.cobros
  <2>1. fra'[q] = Forma(k, FALSE, c, o.total, o.cobros, o.resto)
    BY <1>1, <1>3, Guardada
  <2> QED  BY <2>1 DEF Forma
<1>7. Campos(fra'[q]) = c
  BY <1>6 DEF Campos
<1>8. o.resto = Resto(o.total, o.cobros) /\ cache[q] = Nada /\ rec[q] = Nada
  BY <1>1 DEF CopiasAlDia
<1>9. m # Nada /\ m # Borrada /\ m.resto = Resto(m.total, m.cobros)
  <2>1. CASE o.nueva
    BY <1>4, <1>5, <1>8, <2>1
  <2>2. CASE ~o.nueva /\ o.leida = factura[k]
    <3>1. Existe(k) /\ EsFactura(factura[k])  BY <1>1, <2>2 DEF CopiasAlDia, FormasFactura
    <3>2. m = c  BY <1>4, <2>2, <3>1, ModificaEntera
    <3> QED  BY <1>4, <1>5, <1>8, <3>2
  <2>3. CASE ~o.nueva /\ o.leida = c
    <3>1. Existe(k) /\ EsFactura(factura[k])  BY <1>1, <2>3 DEF CopiasAlDia, FormasFactura
    <3>2. m = factura[k]
      BY <2>3, <3>1 DEF Modifica, EsFactura
    <3> QED  BY <1>1, <3>1, <3>2 DEF RestoCuadrado, Existe
  <2> QED  BY <1>1, <2>1, <2>2, <2>3 DEF CopiasAlDia
<1> HIDE DEF m, c, o, k
<1>10. \A f \in Facturas : factura'[f] = IF f = k THEN m ELSE factura[f]
  BY <1>1, <1>2
<1>11. RestoCuadrado'
  BY <1>1, <1>9, <1>10 DEF RestoCuadrado, Existe
<1>12. CopiasAlDia(q)'
  <2>1. factura'[fra'[q].fac] \notin {Nada, Borrada}  BY <1>1, <1>6, <1>9, <1>10
  <2>2. fra'[q].resto = Resto(fra'[q].total, fra'[q].cobros)  BY <1>6, <1>8
  <2>3. fra'[q].leida = Campos(fra'[q])  BY <1>6, <1>7
  <2>4. cache'[q] = Nada /\ rec'[q] = Nada  BY <1>2, <1>8
  <2> QED  BY <1>3, <2>1, <2>2, <2>3, <2>4 DEF CopiasAlDia, AlDia, Existe
<1> QED  BY <1>11, <1>12 DEF RPaso

\* RecCobro::remove brings the invoice up to date in the copy that delPagos holds.
LEMMA QuitaReciboResto ==
  ASSUME NEW q, Puestos = {q}, FilasDistintas, RInv, QuitaRecibo(q)
  PROVE  RPaso(q)
<1> PICK i \in quitar[q] :
      IF recibo[i] = Nada THEN UNCHANGED <<factura, recibo, copia>>
      ELSE LET rs == [recibo EXCEPT ![i] = Nada]
               v  == RecFactura(copia[q], recibo[i].fac)
           IN  /\ recibo' = rs
               /\ copia' = [copia EXCEPT ![q] = ActPagos(v, rs)]
               /\ factura' = Guarda(v, ActPagos(v, rs))
  BY DEF QuitaRecibo, Pon
<1>1. /\ i \in Ids /\ copia[q] \in Facturas0 \cup {Nada} /\ UNCHANGED <<fra, paso, rec, cache>>
      /\ FormasFactura /\ CopiasAlDia(q) /\ TiposBd /\ RestoCuadrado
      /\ paso[q] \in {"quitar", "borrar"} /\ copia = [p \in Puestos |-> copia[p]]
  BY DEF QuitaRecibo, RInv, TInv, FormasFactura, Tipos, TiposForma, cobro
<1>2. CASE recibo[i] = Nada
  BY <1>1, <1>2, SinEscribir DEF CopiasAlDia
<1>3. CASE recibo[i] # Nada
  <2> DEFINE rs == [recibo EXCEPT ![i] = Nada]
             v  == RecFactura(copia[q], recibo[i].fac)
             n  == ActPagos(v, rs)
  <2>1. recibo[i].fac \in Facturas  BY <1>1, <1>3, TiposDeLeeRecibo
  <2>2. v \in Facturas0 \cup {Nada} /\ AlDia(v)
    BY <1>1, <2>1, TiposDeLeeFactura, LeidaAlDia DEF CopiasAlDia
  <2>3. v = Nada \/ (EsCopia(v) /\ v.fac \in Facturas)
    BY <2>2 DEF Facturas0, EsCopia
  <2>4. copia'[q] = n /\ factura' = Guarda(v, n)
    BY <1>1, <1>3
  <2> HIDE DEF v, rs
  <2>5. /\ v = Nada => n = Nada /\ factura' = factura
        /\ v # Nada =>
             /\ n.fac = v.fac /\ Campos(n) \notin {Nada, Borrada}
             /\ n.resto = Resto(n.total, n.cobros)
             /\ \A f \in Facturas : factura'[f] = IF f = v.fac THEN Campos(n) ELSE factura[f]
    BY <1>1, <2>2, <2>3, <2>4, ActualizaResto
  <2> HIDE DEF n
  <2>6. CASE v = Nada
    BY <1>1, <2>4, <2>5, <2>6, SinEscribir DEF CopiasAlDia
  <2>7. CASE v # Nada
    <3>1. Existe(v.fac) /\ v.fac \in Facturas  BY <2>2, <2>3, <2>7 DEF AlDia
    <3>2. \A f \in Facturas : Existe(f) <=> Existe(f)'
      BY <2>5, <2>7, <3>1 DEF Existe
    <3>3. RestoCuadrado'
      BY <1>1, <2>5, <2>7, <3>1 DEF RestoCuadrado, Existe, Campos
    <3>4. AlDia(copia[q])'
      BY <2>4, <2>5, <2>7, <3>1 DEF AlDia, Existe, Campos
    <3>5. fra[q].fac \in Facturas
      BY <1>1 DEF FormasFactura
    <3>6. paso[q] = "quitar"
      <4>1. CASE copia[q] # Nada
        BY <1>1, <4>1 DEF CopiasAlDia
      <4>2. CASE copia[q] = Nada
        <5>1. v = LeeFactura(recibo[i].fac)  BY <4>2 DEF v, RecFactura
        <5>2. Existe(recibo[i].fac)  BY <2>7, <5>1 DEF LeeFactura
        <5>3. DeUnaFactura(q)  BY DEF RInv
        <5>4. recibo[i].fac = fra[q].fac  BY <1>3, <5>3 DEF DeUnaFactura
        <5> QED  BY <1>1, <5>2, <5>3, <5>4 DEF DeUnaFactura
      <4> QED  BY <4>1, <4>2
    <3>7. CopiasAlDia(q)'
      BY <1>1, <2>4, <3>2, <3>4, <3>5, <3>6 DEF CopiasAlDia, AlDia, Campos
    <3> QED  BY <3>3, <3>7 DEF RPaso
  <2> QED  BY <2>6, <2>7
<1> QED  BY <1>2, <1>3

\* RecFacturaVenta::remove leaves no copy of the invoice.
LEMMA BorraFacturaResto ==
  ASSUME NEW q, Puestos = {q}, RInv, BorraFactura(q)
  PROVE  RPaso(q)
<1>1. /\ paso[q] = "confirmando" /\ paso'[q] = "borrar"
      /\ factura' = [factura EXCEPT ![fra[q].fac] = Borrada]
      /\ UNCHANGED <<copia, rec, cache>> /\ CopiasAlDia(q)
      /\ factura = [f \in Facturas |-> factura[f]]
  BY DEF BorraFactura, Pon, RInv, Tipos, TiposForma, cobro, TInv, FormasFactura
<1>2. \A f \in Facturas : Existe(f)' => Existe(f) /\ factura'[f] = factura[f]
  BY <1>1 DEF Existe
<1>3. RestoCuadrado'  BY <1>2 DEF RInv, RestoCuadrado
<1>4. CopiasAlDia(q)'  BY <1>1 DEF CopiasAlDia, AlDia
<1> QED  BY <1>3, <1>4 DEF RPaso

\* Every step of the invoice form.
LEMMA PasoFormaResto ==
  ASSUME NEW q, Puestos = {q}, UnaVentana, FilasDistintas, RInv, FormaFactura(q)
  PROVE  RPaso(q)
<1>1. CASE NuevaFactura(q)
  <2> PICK f \in Facturas, t \in Totales :
        Abre(q, Forma(f, TRUE, [total |-> 0, cobros |-> 0, resto |-> 0], t, 0, Resto(t, 0)),
                "editando")
    BY <1>1 DEF NuevaFactura, Forma
  <2> DEFINE o == Forma(f, TRUE, [total |-> 0, cobros |-> 0, resto |-> 0], t, 0, Resto(t, 0))
  <2>1. o.nueva /\ o.resto = Resto(o.total, o.cobros)
    BY DEF Forma
  <2> HIDE DEF o
  <2> QED
    BY <2>1, AbreResto DEF o
<1>2. CASE ModificaFactura(q)
  <2> PICK f \in Facturas, t \in Totales :
        /\ Existe(f)
        /\ Abre(q, Forma(f, FALSE, factura[f], t, factura[f].cobros, Resto(t, factura[f].cobros)),
             "editando")
    BY <1>2 DEF ModificaFactura, Forma
  <2> DEFINE o == Forma(f, FALSE, factura[f], t, factura[f].cobros, Resto(t, factura[f].cobros))
  <2>1. /\ o.fac = f /\ o.leida = factura[f] /\ o.resto = Resto(o.total, o.cobros)
        /\ Abre(q, o, "editando")
    BY DEF Forma
  <2> HIDE DEF o
  <2> QED
    BY <2>1, AbreResto
<1>3. CASE PideBorrar(q)
  <2> PICK o : Abre(q, o, "confirmando")
    BY <1>3 DEF PideBorrar
  <2> QED  BY AbreResto
<1>4. CASE Cancela(q) \/ AcabaDeBorrar(q)
  BY <1>4, CierraResto DEF Cancela, AcabaDeBorrar, bd, cobro
<1>5. CASE EmpiezaAGenerar(q)
  <2>1. UNCHANGED <<factura, rec, cache>> /\ paso[q] = "quitar"
    BY <1>5 DEF EmpiezaAGenerar, bd, cobro
  <2>2. CASE Cierra(q)
    BY <2>1, <2>2, CierraResto
  <2>3. CASE ~Cierra(q)
    <3>1. paso'[q] = "generar" /\ UNCHANGED <<fra, copia>>
      BY <1>5, <2>3 DEF EmpiezaAGenerar, Pon, RInv, Tipos, TiposForma
    <3>2. copia[q] = Nada \/ copia[q] # Nada
      OBVIOUS
    <3> QED
      BY <2>1, <3>1, SinEscribir DEF RInv, CopiasAlDia
  <2> QED
    BY <2>2, <2>3
<1>6. CASE GeneraRecibo(q)
  <2>1. /\ UNCHANGED <<factura, rec, cache>> /\ paso[q] = "generar" /\ SiguientePlazo(q)
        /\ CopiasAlDia(q)
    BY <1>6 DEF GeneraRecibo, cobro, RInv
  <2>2. CASE Cierra(q)
    BY <2>1, <2>2, CierraResto
  <2>3. CASE ~Cierra(q)
    <3>1. UNCHANGED <<fra, paso, copia>>
      BY <2>1, <2>3 DEF SiguientePlazo
    <3> QED
      BY <2>1, <3>1, SinEscribir DEF CopiasAlDia
  <2> QED
    BY <2>2, <2>3
<1> QED
  BY <1>1, <1>2, <1>3, <1>4, <1>5, <1>6, GuardaFacturaResto, BorraFacturaResto, QuitaReciboResto
     DEF FormaFactura

\* With one form at a time the receipts form acts while the invoice form is browsing.
LEMMA ReciboSolo ==
  ASSUME NEW q, Puestos = {q}, UnaVentana, TInv, FormaRecibo(q)
  PROVE  paso[q] = "libre" /\ UNCHANGED forma
<1>1. UNCHANGED forma
  BY DEF FormaRecibo, VeRecibo, CierraRecibos, AceptaRecibo, BorraRecibo, EmpiezaAPagar,
     CancelaPago, VuelveAEmpezar, PagaExacto, PagaParte, NuevoRecibo, PagaDeMas, AnulaPago
<1>2. Atiende(q) \/ pago[q].fase # "no"
  BY DEF FormaRecibo, VeRecibo, CierraRecibos, AceptaRecibo, BorraRecibo, EmpiezaAPagar,
     CancelaPago, VuelveAEmpezar, PagaExacto, PagaParte, NuevoRecibo, PagaDeMas, AnulaPago,
     Importes
<1> QED
  BY <1>1, <1>2 DEF Atiende, TInv, EdicionFiel

\* actRestoFactura changes nothing in a copy that is what is stored.
LEMMA ActRestoIgual ==
  ASSUME RInv, NEW q, Puestos = {q}, cache[q] # Nada
  PROVE  ActResto(cache[q]) = cache[q]
<1>1. /\ EsCopia(cache[q]) /\ cache[q].fac \in Facturas
      /\ cache[q].resto = Resto(cache[q].total, cache[q].cobros)
  <2>1. cache[q] \in Facturas0 /\ AlDia(cache[q]) /\ RestoCuadrado
    BY DEF RInv, Tipos, TiposCobro, CopiasAlDia
  <2>2. cache[q].fac \in Facturas /\ EsCopia(cache[q])  BY <2>1 DEF Facturas0, EsCopia
  <2> QED  BY <2>1, <2>2 DEF AlDia, RestoCuadrado, Campos
<1>2. ASSUME NEW f, NEW t, NEW c
      PROVE  ActResto([fac |-> f, total |-> t, cobros |-> c, resto |-> Resto(t, c)]) =
               [fac |-> f, total |-> t, cobros |-> c, resto |-> Resto(t, c)]
  BY DEF ActResto
<1> QED  BY <1>1, <1>2 DEF EsCopia

\* Every step of the receipts form.
LEMMA PasoReciboResto ==
  ASSUME NEW q, Puestos = {q}, UnaVentana, FilasDistintas, RInv, FormaRecibo(q)
  PROVE  RPaso(q)
<1>1. paso[q] = "libre" /\ UNCHANGED forma  BY ReciboSolo DEF RInv
<1>2. /\ CopiasAlDia(q) /\ FormasFactura /\ TiposBd /\ RestoCuadrado
      /\ cache[q] \in Facturas0 \cup {Nada} /\ cache = [p \in Puestos |-> cache[p]]
      /\ cache[q] = Nada \/ (EsCopia(cache[q]) /\ cache[q].fac \in Facturas)
      /\ copia'[q] = Nada /\ paso'[q] = "libre"
  BY <1>1 DEF RInv, TInv, FormasFactura, Tipos, TiposCobro, Facturas0, EsCopia, CopiasAlDia, forma
<1>3. ASSUME UNCHANGED factura, cache'[q] = Nada \/ cache'[q] = cache[q]  PROVE RPaso(q)
  BY <1>2, <1>3, SinEscribir
<1>4. ASSUME UNCHANGED factura, NEW h, AcabaPago(q, h)  PROVE RPaso(q)
  <2>1. cache' = cache \/ (cache[q] # Nada /\ cache' = [cache EXCEPT ![q] = ActResto(cache[q])])
    BY <1>4 DEF AcabaPago, Pon
  <2>2. cache'[q] = cache[q]
    BY <1>2, <2>1, ActRestoIgual
  <2> QED  BY <1>3, <1>4, <2>2
<1>5. ASSUME NEW rs, cache' = [cache EXCEPT ![q] = ActPagos(cache[q], rs)],
             factura' = Guarda(cache[q], ActPagos(cache[q], rs))
      PROVE  RPaso(q)
  <2> DEFINE v == cache[q]
             n == ActPagos(v, rs)
  <2>1. AlDia(v)  BY <1>2 DEF CopiasAlDia
  <2>2. cache'[q] = n /\ factura' = Guarda(v, n)  BY <1>2, <1>5
  <2>3. /\ v = Nada => n = Nada /\ factura' = factura
        /\ v # Nada =>
             /\ n.fac = v.fac /\ Campos(n) \notin {Nada, Borrada}
             /\ n.resto = Resto(n.total, n.cobros)
             /\ \A f \in Facturas : factura'[f] = IF f = v.fac THEN Campos(n) ELSE factura[f]
    BY <1>2, <2>1, <2>2, ActualizaResto
  <2> HIDE DEF n
  <2>4. CASE v = Nada
    BY <1>3, <2>2, <2>3, <2>4
  <2>5. CASE v # Nada
    <3>1. v.fac \in Facturas  BY <1>2, <2>5
    <3>2. RestoCuadrado'
      BY <1>2, <2>3, <2>5, <3>1 DEF RestoCuadrado, Existe, Campos
    <3>3. AlDia(cache[q])'
      BY <2>2, <2>3, <2>5, <3>1 DEF AlDia, Existe, Campos
    <3>4. CopiasAlDia(q)'
      BY <1>2, <3>3 DEF CopiasAlDia, AlDia
    <3> QED  BY <3>2, <3>4 DEF RPaso
  <2> QED  BY <2>4, <2>5
<1>6. CASE VeRecibo(q)
  <2> PICK i \in Ids : /\ cache' = [cache EXCEPT ![q] = RecFactura(cache[q], recibo[i].fac)]
                       /\ recibo[i] # Nada /\ UNCHANGED factura
    BY <1>6 DEF VeRecibo, Pon, bd
  <2>1. recibo[i].fac \in Facturas  BY <1>2, TiposDeLeeRecibo
  <2> DEFINE v == RecFactura(cache[q], recibo[i].fac)
  <2>2. AlDia(v) /\ cache'[q] = v
    BY <1>2, <2>1, LeidaAlDia DEF CopiasAlDia
  <2> HIDE DEF v
  <2>3. RestoCuadrado'  BY <1>2 DEF RestoCuadrado, Existe
  <2>4. CopiasAlDia(q)'
    BY <1>2, <2>2 DEF CopiasAlDia, AlDia, Existe, Campos
  <2> QED  BY <2>3, <2>4 DEF RPaso
<1>7. CASE CierraRecibos(q)
  BY <1>2, <1>3, <1>7 DEF CierraRecibos, Pon, bd
<1>8. CASE AceptaRecibo(q)
  <2>1. \E rs : /\ cache' = [cache EXCEPT ![q] = ActPagos(cache[q], rs)]
                /\ factura' = Guarda(cache[q], ActPagos(cache[q], rs))
    BY <1>8 DEF AceptaRecibo, Pon
  <2> QED  BY <1>5, <2>1
<1>9. CASE BorraRecibo(q)
  <2>1. \E rs : /\ cache' = [cache EXCEPT ![q] = ActPagos(cache[q], rs)]
                /\ factura' = Guarda(cache[q], ActPagos(cache[q], rs))
    BY <1>9 DEF BorraRecibo, Pon
  <2> QED  BY <1>5, <2>1
<1>10. CASE CancelaPago(q) \/ PagaExacto(q) \/ NuevoRecibo(q) \/ AnulaPago(q)
  BY <1>4, <1>10 DEF CancelaPago, PagaExacto, NuevoRecibo, AnulaPago, bd
<1>11. CASE PagaDeMas(q)
  <2>1. UNCHANGED factura /\ (UNCHANGED cache \/ \E h : AcabaPago(q, h))
    BY <1>11 DEF PagaDeMas
  <2> QED  BY <1>3, <1>4, <2>1
<1>12. CASE EmpiezaAPagar(q) \/ VuelveAEmpezar(q) \/ PagaParte(q)
  BY <1>3, <1>12 DEF EmpiezaAPagar, VuelveAEmpezar, PagaParte, bd
<1> QED
  BY <1>6, <1>7, <1>8, <1>9, <1>10, <1>11, <1>12 DEF FormaRecibo

\* Every failure.
LEMMA PasoFalloResto ==
  ASSUME NEW q, Puestos = {q}, UnaVentana, RInv, Fallo(q)
  PROVE  RPaso(q)
<1>1. CASE QuitarFalla(q)
  <2>1. /\ UNCHANGED <<factura, rec, cache, fra>> /\ paso[q] = "quitar" /\ paso'[q] = "editando"
        /\ copia'[q] = Nada
    BY <1>1 DEF QuitarFalla, bd, cobro, Pon, RInv, Tipos, TiposForma
  <2> QED  BY <2>1, SinEscribir DEF RInv, CopiasAlDia
<1>2. CASE GenerarFalla(q)
  <2>1. /\ UNCHANGED <<factura, rec, cache>> /\ paso[q] = "generar" /\ SiguientePlazo(q)
        /\ CopiasAlDia(q)
    BY <1>2 DEF GenerarFalla, bd, cobro, RInv
  <2>2. CASE Cierra(q)
    BY <2>1, <2>2, CierraResto
  <2>3. CASE ~Cierra(q)
    <3>1. UNCHANGED <<fra, paso, copia>>
      BY <2>1, <2>3 DEF SiguientePlazo
    <3> QED
      BY <2>1, <3>1, SinEscribir DEF CopiasAlDia
  <2> QED
    BY <2>2, <2>3
<1>3. CASE NuevoFalla(q)
  <2>1. /\ UNCHANGED <<factura, fra, paso, copia>> /\ cache' = cache /\ rec'[q] = Nada
    BY <1>3 DEF NuevoFalla, AcabaPago, Pon, bd, forma, RInv, Tipos, TiposCobro
  <2> QED  BY <2>1, SinEscribir DEF RInv, CopiasAlDia
<1>4. CASE Muere(q)
  <2>1. Cierra(q) /\ UNCHANGED factura /\ cache'[q] = Nada
    BY <1>4 DEF Muere, Pon, bd, RInv, Tipos, TiposCobro
  <2> QED  BY <2>1, CierraResto
<1> QED
  BY <1>1, <1>2, <1>3, <1>4 DEF Fallo

\* What delPagos selects is of the invoice that was saved or removed.
LEMMA PasoDeUna ==
  ASSUME NEW q, Puestos = {q}, UnaVentana, RInv, Next, IInv', CopiasAlDia(q)'
  PROVE  DeUnaFactura(q)'
<1>1. /\ DeUnaFactura(q) /\ CopiasAlDia(q) /\ TiposBd /\ FormasFactura
      /\ NoSeQuitaPagado(q) /\ NoSeQuitaPagado(q)'
      /\ \A x \in {"quitar", "borrar", "libre"} : [paso EXCEPT ![q] = x][q] = x
      /\ \A x : [quitar EXCEPT ![q] = x][q] = x /\ [copia EXCEPT ![q] = x][q] = x
                /\ [fra EXCEPT ![q] = x][q] = x
  BY DEF RInv, TInv, IInv, Tipos, TiposForma
<1>2. ASSUME paso'[q] \notin {"quitar", "borrar", "generar"}  PROVE DeUnaFactura(q)'
  <2>1. quitar'[q] = {} /\ copia'[q] = Nada
    BY <1>1, <1>2 DEF NoSeQuitaPagado, CopiasAlDia
  <2> QED  BY <1>2, <2>1 DEF DeUnaFactura
<1>3. CASE GuardaFactura(q)
  <2>1. /\ quitar'[q] = DeEstado(fra[q].fac, "pendiente") /\ copia'[q] = Nada
        /\ paso'[q] = "quitar" /\ UNCHANGED recibo
        /\ fra'[q] = [fra[q] EXCEPT !.nueva = FALSE, !.leida = Campos(fra[q])]
    BY <1>1, <1>3 DEF GuardaFactura, Pon
  <2>2. fra'[q].fac = fra[q].fac
    <3>1. EsForma(fra[q])  BY <1>1, <1>3 DEF GuardaFactura, FormasFactura
    <3>2. fra'[q] =
              Forma(fra[q].fac, FALSE, Campos(fra[q]), fra[q].total, fra[q].cobros, fra[q].resto)
      BY <2>1, <3>1, Guardada
    <3> QED  BY <3>2 DEF Forma
  <2> QED  BY <2>1, <2>2 DEF DeUnaFactura, DeEstado, De
<1>4. CASE BorraFactura(q)
  <2>1. /\ quitar'[q] = De(fra[q].fac) /\ UNCHANGED <<fra, recibo, copia>>
        /\ paso[q] = "confirmando"
        /\ factura' = [factura EXCEPT ![fra[q].fac] = Borrada]
    BY <1>1, <1>4 DEF BorraFactura, Pon
  <2>2. factura'[fra[q].fac] = Borrada  BY <1>1, <2>1 DEF FormasFactura
  <2>3. copia[q] = Nada  BY <1>1, <2>1 DEF CopiasAlDia
  <2> QED  BY <2>1, <2>2, <2>3 DEF DeUnaFactura, De, Existe
<1>5. CASE QuitaRecibo(q)
  <2> PICK i \in quitar[q] :
        /\ quitar' = [quitar EXCEPT ![q] = quitar[q] \ {i}]
        /\ IF recibo[i] = Nada THEN UNCHANGED <<factura, recibo, copia>>
           ELSE LET rs == [recibo EXCEPT ![i] = Nada]
                    v  == RecFactura(copia[q], recibo[i].fac)
                IN  /\ recibo' = rs
                    /\ copia' = [copia EXCEPT ![q] = ActPagos(v, rs)]
                    /\ factura' = Guarda(v, ActPagos(v, rs))
    BY <1>5 DEF QuitaRecibo, Pon
  <2>1. /\ quitar'[q] = quitar[q] \ {i} /\ UNCHANGED <<fra, paso>> /\ i \in Ids
        /\ quitar[q] \subseteq Ids
    BY <1>1, <1>5 DEF QuitaRecibo, NoSeQuitaPagado
  <2>2. CASE recibo[i] = Nada
    BY <1>1, <2>1, <2>2 DEF DeUnaFactura, Existe
  <2>3. CASE recibo[i] # Nada
    <3> DEFINE rs == [recibo EXCEPT ![i] = Nada]
               v  == RecFactura(copia[q], recibo[i].fac)
               n  == ActPagos(v, rs)
    <3>1. recibo[i].fac = fra[q].fac /\ fra[q].fac \in Facturas
      BY <1>1, <2>1, <2>3, TiposDeLeeRecibo DEF DeUnaFactura
    <3>2. v = Nada \/ (v.fac = fra[q].fac /\ EsCopia(v))
      BY <1>1, <3>1 DEF RecFactura, LeeFactura, DeUnaFactura, FormasFactura, EsCopia
    <3>3. n = Nada \/ n.fac = fra[q].fac
      BY <3>2 DEF ActPagos, ActResto
    <3>4. \A j \in quitar'[q] : recibo'[j] # Nada => recibo[j] # Nada /\ recibo'[j] = recibo[j]
      BY <1>1, <2>1, <2>3 DEF TiposBd
    <3>5. copia'[q] = n /\ factura' = Guarda(v, n)
      BY <1>1, <2>3
    <3> HIDE DEF n
    <3>6. ~Existe(fra[q].fac) => factura' = factura
      BY <3>2, <3>5 DEF Guarda
    <3> QED  BY <1>1, <2>1, <3>3, <3>4, <3>5, <3>6 DEF DeUnaFactura, Existe
  <2> QED  BY <2>2, <2>3
<1>6. ASSUME paso'[q] = "generar", UNCHANGED <<fra, copia>>  PROVE DeUnaFactura(q)'
  <2>1. quitar'[q] = {}  BY <1>1, <1>6 DEF NoSeQuitaPagado
  <2> QED  BY <1>1, <1>6, <2>1 DEF DeUnaFactura
<1>7. ASSUME NEW o, NEW sig \in {"editando", "confirmando"}, Abre(q, o, sig)  PROVE DeUnaFactura(q)'
  <2>1. paso'[q] = sig  BY <1>7 DEF Abre, Pon, RInv, Tipos, TiposForma
  <2> QED  BY <1>2, <2>1
<1>8. CASE Cierra(q)
  <2>1. paso'[q] = "libre"  BY <1>1, <1>8 DEF Cierra, Pon
  <2> QED  BY <1>2, <2>1
<1>9. CASE NuevaFactura(q) \/ ModificaFactura(q) \/ PideBorrar(q)
  BY <1>7, <1>9 DEF NuevaFactura, ModificaFactura, PideBorrar
<1>10. CASE EmpiezaAGenerar(q)
  <2>1. CASE ~Cierra(q)
    <3>1. paso'[q] = "generar" /\ UNCHANGED <<fra, copia>>
      BY <1>10, <2>1 DEF EmpiezaAGenerar, Pon, RInv, Tipos, TiposForma
    <3> QED  BY <1>6, <3>1
  <2> QED  BY <1>8, <2>1
<1>11. CASE paso[q] = "generar" /\ SiguientePlazo(q)
  <2>1. CASE ~Cierra(q)
    BY <1>6, <1>11, <2>1 DEF SiguientePlazo
  <2> QED  BY <1>8, <2>1
<1>12. CASE FormaFactura(q)
  BY <1>3, <1>4, <1>5, <1>8, <1>9, <1>10, <1>11, <1>12
     DEF FormaFactura, Cancela, AcabaDeBorrar, GeneraRecibo
<1>13. CASE FormaRecibo(q)
  <2>1. paso'[q] = "libre"  BY <1>13, ReciboSolo DEF RInv, forma
  <2> QED  BY <1>2, <2>1
<1>14. CASE QuitarFalla(q)
  <2>1. paso'[q] = "editando"  BY <1>14 DEF QuitarFalla, Pon, RInv, Tipos, TiposForma
  <2> QED  BY <1>2, <2>1
<1>15. CASE NuevoFalla(q)
  <2>1. pago[q].fase # "no" /\ UNCHANGED paso  BY <1>15 DEF NuevoFalla, forma
  <2>2. paso[q] = "libre"  BY <2>1 DEF RInv, TInv, EdicionFiel
  <2> QED  BY <1>2, <2>1, <2>2
<1>16. CASE Fallo(q)
  BY <1>8, <1>11, <1>14, <1>15, <1>16 DEF Fallo, GenerarFalla, Muere
<1> QED  BY <1>12, <1>13, <1>16 DEF Next

\* Every step keeps what the two theorems below need.
LEMMA PasoRInv ==
  ASSUME NEW q, Puestos = {q}, UnaVentana, FilasDistintas, NadaEsOtra
  PROVE  RInv /\ [Next]_vars => RInv'
<1> SUFFICES ASSUME RInv, [Next]_vars  PROVE RInv'
  OBVIOUS
<1>1. Tipos'  BY PasoTipos DEF RInv
<1>2. TInv'  BY PasoTInv DEF RInv
<1>3. CASE UNCHANGED vars
  BY <1>1, <1>2, <1>3 DEF vars, bd, forma, cobro, RInv, RestoCuadrado, CopiasAlDia, DeUnaFactura,
     AlDia, Existe, Campos, Resto
<1>4. CASE Next
  <2>1. RPaso(q)
    BY <1>4, PasoFormaResto, PasoReciboResto, PasoFalloResto DEF Next
  <2>2. DeUnaFactura(q)'
    BY <1>2, <1>4, <2>1, PasoDeUna DEF RPaso, TInv
  <2> QED  BY <1>1, <1>2, <2>1, <2>2 DEF RInv, RPaso
<1> QED  BY <1>3, <1>4

\* The invariant holds initially.
LEMMA InicioRInv ==
  Init => RInv
  BY InicioTipos, InicioTInv
     DEF Init, RInv, RestoCuadrado, CopiasAlDia, DeUnaFactura, AlDia, Existe

\* With one workstation and one form at a time, whatever fails: what is left to
\* collect of a stored invoice follows from its own total and from what it says was
\* collected, although three copies of it are saved, each with only the fields that
\* changed in it (actRestoFactura, actPagos, RecFacturaVenta::save).
THEOREM UnPuestoCuadraResto ==
  ASSUME NEW q, Puestos = {q}, UnaVentana, FilasDistintas, NadaEsOtra
  PROVE  Spec => []RestoCuadrado
<1>1. RInv => RestoCuadrado  BY DEF RInv
<1> QED  BY InicioRInv, PasoRInv, <1>1, PTL DEF Spec

-------------------------------------------------------------------------------
(* What was collected, after a receipt is removed or accepted.             *)

\* When the receipts form is closed between two receipts, the invoice its object holds
\* is that of the receipt it shows, or that one has no invoice.
DeSuFactura(p) ==
  rec[p] # Nada =>
    IF cache[p] = Nada THEN ~Existe(rec[p].fac) ELSE cache[p].fac = rec[p].fac

CInv == RInv /\ \A p \in Puestos : DeSuFactura(p)

\* A save of a receipt neither inserts nor removes rows.
LEMMA GuardaSinQuitar ==
  ASSUME TiposBd, NadaEsOtra, NEW o \in Objetos, NEW n \in Objetos, NEW i \in Ids
  PROVE  GuardaRecibo(o, n)[i] = Nada <=> recibo[i] = Nada
<1> DEFINE k == o.id
           m == Modifica(recibo[k], Fila(o), Fila(n))
<1>1. CASE recibo[k] = Nada
  BY <1>1 DEF GuardaRecibo
<1>2. CASE recibo[k] # Nada
  <2>1. k \in Ids /\ Fila(o) \in FilasRecibo /\ Fila(n) \in FilasRecibo /\ recibo[k] \in FilasRecibo
    BY <1>2 DEF Objetos, Fila, FilasRecibo, TiposBd
  <2>2. m \in FilasRecibo  BY <2>1 DEF Modifica, FilasRecibo
  <2> HIDE DEF m
  <2>3. GuardaRecibo(o, n) = [recibo EXCEPT ![k] = m]  BY <1>2 DEF GuardaRecibo, m
  <2>4. m # Nada  BY <2>2 DEF NadaEsOtra
  <2> HIDE DEF k
  <2> QED  BY <1>2, <2>1, <2>3, <2>4 DEF TiposBd
<1> QED  BY <1>1, <1>2

\* Of what the steps of the receipts form do to the receipts, none but BorraRecibo
\* takes one away.
LEMMA ReciboQueda ==
  ASSUME NEW q, Puestos = {q}, RInv, NadaEsOtra, FormaRecibo(q), NEW i \in Ids,
         recibo[i] # Nada, recibo'[i] = Nada
  PROVE  BorraRecibo(q) /\ rec[q].id = i
<1>1. /\ TiposBd /\ TiposCobro /\ ultimo \in Nat /\ i <= ultimo
      /\ rec[q] # Nada => rec[q] \in Objetos
  BY NumeroAssumption DEF RInv, Tipos, TiposBd, TiposCobro
<1>2. ASSUME NEW n \in Objetos, rec[q] # Nada, recibo' = GuardaRecibo(rec[q], n)  PROVE FALSE
  BY <1>1, <1>2, GuardaSinQuitar
<1>3. pago[q].fase # "no" => rec[q] # Nada  BY <1>1 DEF TiposCobro
<1>4. \A m \in Importes(q) : m \in Int /\ rec[q] # Nada /\ rec[q].imp \in Int
  <2> SUFFICES ASSUME NEW m \in Importes(q)  PROVE m \in Int /\ rec[q] # Nada /\ rec[q].imp \in Int
    OBVIOUS
  <2>1. pago[q].fase \in {"preguntar", "multiple"}  BY DEF Importes
  <2>2. rec[q].imp \in Int  BY <1>1, <1>3, <2>1 DEF Objetos
  <2>3. CASE pago[q].fase = "preguntar"
    <3>1. m \in Cantidades \cup {rec[q].imp}  BY <2>3 DEF Importes
    <3> QED  BY <1>3, <2>1, <2>2, <3>1, CantidadAssumption
  <2>4. CASE pago[q].fase = "multiple"
    <3>1. m = pago[q].queda  BY <2>4 DEF Importes
    <3> QED  BY <1>1, <1>3, <2>1, <2>2, <3>1 DEF TiposCobro
  <2> QED  BY <2>1, <2>3, <2>4
<1>5. \A m \in Int : rec[q] # Nada => Pagado(rec[q], m) \in Objetos
  BY <1>1, TiposDeObjeto
<1>6. CASE VeRecibo(q) \/ CierraRecibos(q) \/ EmpiezaAPagar(q) \/ CancelaPago(q)
          \/ VuelveAEmpezar(q)
  BY <1>6 DEF VeRecibo, CierraRecibos, EmpiezaAPagar, CancelaPago, VuelveAEmpezar, bd
<1>7. CASE AceptaRecibo(q)
  <2> PICK d \in FechasNuevas \cup {rec[q].fecha} :
        rec[q] # Nada /\ recibo' = GuardaRecibo(rec[q], [rec[q] EXCEPT !.fecha = d])
    BY <1>7 DEF AceptaRecibo
  <2>1. d \in Nat  BY <1>1, FechaAssumption, TiposDeObjeto
  <2>2. [rec[q] EXCEPT !.fecha = d] \in Objetos  BY <1>1, <2>1, TiposDeObjeto
  <2> QED  BY <1>2, <2>2
<1>8. CASE BorraRecibo(q)
  <2>1. recibo' = [recibo EXCEPT ![rec[q].id] = Nada]  BY <1>8 DEF BorraRecibo
  <2> QED  BY <1>1, <1>8, <2>1 DEF TiposBd
<1>9. CASE PagaExacto(q)
  BY <1>2, <1>4, <1>5, <1>9 DEF PagaExacto
<1>10. CASE PagaParte(q)
  BY <1>2, <1>4, <1>5, <1>10 DEF PagaParte
<1>11. CASE PagaDeMas(q)
  BY <1>2, <1>4, <1>5, <1>11 DEF PagaDeMas
<1>12. CASE AnulaPago(q)
  <2> DEFINE n == [rec[q] EXCEPT !.est = "pendiente", !.resto = rec[q].imp]
  <2>1. rec[q] # Nada /\ recibo' = GuardaRecibo(rec[q], n)  BY <1>12 DEF AnulaPago
  <2>2. n \in Objetos  BY <1>1, <2>1, TiposDeObjeto
  <2> QED  BY <1>2, <2>1, <2>2
<1>13. CASE NuevoRecibo(q)
  <2>1. \E r : recibo' = [recibo EXCEPT ![ultimo + 1] = r]  BY <1>13 DEF NuevoRecibo
  <2> QED  BY <1>1, <2>1 DEF TiposBd
<1> QED
  BY <1>6, <1>7, <1>8, <1>9, <1>10, <1>11, <1>12, <1>13 DEF FormaRecibo

\* A payment, its cancellation and an edition leave the object with the same invoice.
LEMMA MismaFactura ==
  ASSUME NEW o, EsObjeto(o)
  PROVE  /\ \A m : Pagado(o, m).fac = o.fac
         /\ \A d : [o EXCEPT !.fecha = d].fac = o.fac
         /\ \A m : [o EXCEPT !.est = "pendiente", !.resto = m].fac = o.fac
<1>1. ASSUME NEW m  PROVE Pagado(o, m).fac = o.fac
  BY Pagar DEF Objeto
<1>2. ASSUME NEW d  PROVE [o EXCEPT !.fecha = d].fac = o.fac
  BY DEF EsObjeto, Objeto
<1>3. ASSUME NEW m  PROVE [o EXCEPT !.est = "pendiente", !.resto = m].fac = o.fac
  <2>1. [o EXCEPT !.est = "pendiente", !.resto = m] =
           Objeto(o.id, o.fac, o.imp, m, "pendiente", o.fecha)
    BY Anular
  <2> QED  BY <2>1 DEF Objeto
<1> QED  BY <1>1, <1>2, <1>3

\* actPagos, and the row it is saved in, with a copy that is what is stored.
LEMMA ActualizaCobros ==
  ASSUME RInv, NadaEsOtra, FilasDistintas, NEW o \in Facturas0 \cup {Nada}, AlDia(o), NEW rs,
         rs \in [Ids -> FilasRecibo \cup {Nada}], factura' = Guarda(o, ActPagos(o, rs))
  PROVE  /\ \A f \in Facturas : Existe(f) <=> Existe(f)'
         /\ ActPagos(o, rs) = Nada <=> o = Nada
         /\ o # Nada => /\ ActPagos(o, rs).fac = o.fac
                        /\ factura'[o.fac].cobros = Cobrado(rs, o.fac)
<1> DEFINE n == ActPagos(o, rs)
<1>1. o = Nada \/ (EsCopia(o) /\ o.fac \in Facturas)
  BY DEF Facturas0, EsCopia
<1>2. FormasFactura /\ RestoCuadrado  BY DEF RInv, TInv
<1>3. /\ o = Nada => n = Nada /\ factura' = factura
      /\ o # Nada =>
           /\ n.fac = o.fac /\ n.cobros = Cobrado(rs, o.fac)
           /\ Campos(n) \notin {Nada, Borrada}
           /\ \A f \in Facturas : factura'[f] = IF f = o.fac THEN Campos(n) ELSE factura[f]
  BY <1>1, <1>2, ActualizaResto
<1>4. o # Nada => n # Nada
  BY TiposDeActPagos DEF NadaEsOtra
<1> HIDE DEF n
<1>5. CASE o = Nada
  BY <1>3, <1>5 DEF Existe, n
<1>6. CASE o # Nada
  <2>1. Existe(o.fac)  BY <1>6 DEF AlDia
  <2>2. Campos(n).cobros = n.cobros  BY DEF Campos
  <2> QED  BY <1>1, <1>3, <1>4, <1>6, <2>1, <2>2 DEF Existe, n
<1> QED  BY <1>5, <1>6

\* Every step of the receipts form leaves its object with the invoice of the receipt it
\* shows: PagaDeMas takes another receipt of the same invoice.
LEMMA PasoReciboSuya ==
  ASSUME NEW q, Puestos = {q}, UnaVentana, Reabrir, FilasDistintas, NadaEsOtra, CInv,
         FormaRecibo(q)
  PROVE  DeSuFactura(q)'
<1>1. /\ TiposBd /\ TiposCobro /\ DeSuFactura(q) /\ RInv /\ Coherente(q)
      /\ cache[q] \in Facturas0 \cup {Nada} /\ AlDia(cache[q])
      /\ rec = [p \in Puestos |-> rec[p]] /\ cache = [p \in Puestos |-> cache[p]]
      /\ \A x : [rec EXCEPT ![q] = x][q] = x /\ [cache EXCEPT ![q] = x][q] = x
  BY DEF CInv, RInv, CopiasAlDia, Tipos, TiposCobro, TInv, IInv
<1>2. ASSUME UNCHANGED factura, cache'[q] = cache[q],
             rec'[q] # Nada => rec[q] # Nada /\ rec'[q].fac = rec[q].fac
      PROVE  DeSuFactura(q)'
  BY <1>1, <1>2 DEF DeSuFactura, Existe
<1>3. ASSUME UNCHANGED factura, NEW h, AcabaPago(q, h),
             rec'[q] # Nada => rec[q] # Nada /\ rec'[q].fac = rec[q].fac
      PROVE  DeSuFactura(q)'
  <2>1. cache' = cache \/ (cache[q] # Nada /\ cache' = [cache EXCEPT ![q] = ActResto(cache[q])])
    BY <1>3 DEF AcabaPago, Pon
  <2>2. cache'[q] = cache[q]
    BY <1>1, <2>1, ActRestoIgual
  <2> QED  BY <1>2, <1>3, <2>2
<1>4. rec[q] # Nada \/ pago[q].fase # "no" =>
          EsObjeto(rec[q]) /\ rec[q] # Nada /\ rec[q].fac \in Facturas
  BY <1>1 DEF Coherente, TiposCobro, Objetos
<1>5. ASSUME NEW rs \in [Ids -> FilasRecibo \cup {Nada}],
             cache' = [cache EXCEPT ![q] = ActPagos(cache[q], rs)],
             factura' = Guarda(cache[q], ActPagos(cache[q], rs)),
             rec'[q] # Nada => rec[q] # Nada /\ rec'[q].fac = rec[q].fac
      PROVE  DeSuFactura(q)'
  <2>1. /\ \A f \in Facturas : Existe(f) <=> Existe(f)'
        /\ ActPagos(cache[q], rs) = Nada <=> cache[q] = Nada
        /\ cache[q] # Nada => ActPagos(cache[q], rs).fac = cache[q].fac
    BY <1>1, <1>5, ActualizaCobros
  <2>2. cache'[q] = ActPagos(cache[q], rs)  BY <1>1, <1>5
  <2> QED  BY <1>1, <1>4, <1>5, <2>1, <2>2 DEF DeSuFactura, Existe
<1>6. ASSUME NEW i \in Ids, recibo[i] # Nada
      PROVE  LeeRecibo(i).fac = recibo[i].fac /\ recibo[i].fac \in Facturas
  BY <1>1, <1>6, TiposDeLeeRecibo DEF LeeRecibo
<1>7. CASE VeRecibo(q)
  <2> PICK i \in Ids : /\ cache' = [cache EXCEPT ![q] = RecFactura(cache[q], recibo[i].fac)]
                       /\ rec' = [rec EXCEPT ![q] = LeeRecibo(i)] /\ cache[q] = Nada
                       /\ recibo[i] # Nada /\ UNCHANGED factura
    BY <1>7 DEF VeRecibo, Pon, bd
  <2>1. /\ cache'[q] = LeeFactura(recibo[i].fac) /\ rec'[q].fac = recibo[i].fac
        /\ recibo[i].fac \in Facturas
    BY <1>1, <1>6 DEF RecFactura
  <2>2. Existe(recibo[i].fac) => LeeFactura(recibo[i].fac) \in Facturas0
    BY <1>1, <2>1 DEF LeeFactura, TiposBd, Existe, Facturas0, FilasFactura
  <2>3. LeeFactura(recibo[i].fac) = Nada => ~Existe(recibo[i].fac)
    BY <2>2 DEF NadaEsOtra
  <2>4. LeeFactura(recibo[i].fac) # Nada => LeeFactura(recibo[i].fac).fac = recibo[i].fac
    BY DEF LeeFactura
  <2> QED  BY <2>1, <2>3, <2>4 DEF DeSuFactura, Existe
<1>8. CASE CierraRecibos(q)
  <2>1. rec'[q] = Nada  BY <1>1, <1>8 DEF CierraRecibos, Pon
  <2> QED  BY <2>1 DEF DeSuFactura
<1>9. CASE AceptaRecibo(q)
  <2> PICK d \in FechasNuevas \cup {rec[q].fecha} :
        LET n  == [rec[q] EXCEPT !.fecha = d]
            rs == GuardaRecibo(rec[q], n)
        IN  /\ rec' = Pon(rec, q, n)
            /\ cache' = [cache EXCEPT ![q] = ActPagos(cache[q], rs)]
            /\ factura' = Guarda(cache[q], ActPagos(cache[q], rs))
    BY <1>9 DEF AceptaRecibo, Pon
  <2> DEFINE n  == [rec[q] EXCEPT !.fecha = d]
             rs == GuardaRecibo(rec[q], n)
  <2>1. rec[q] # Nada /\ rec[q] \in Objetos  BY <1>1, <1>9 DEF AceptaRecibo, TiposCobro
  <2>2. d \in Nat  BY <2>1, FechaAssumption, TiposDeObjeto
  <2>3. n \in Objetos  BY <2>1, <2>2, TiposDeObjeto
  <2>4. n.fac = rec[q].fac  BY <1>4, <2>1, MismaFactura
  <2>5. rec'[q] = n  BY <1>1 DEF Pon
  <2> HIDE DEF n
  <2>6. rs \in [Ids -> FilasRecibo \cup {Nada}]  BY <1>1, <2>1, <2>3, TiposDeGuardaRecibo
  <2>7. /\ cache' = [cache EXCEPT ![q] = ActPagos(cache[q], rs)]
        /\ factura' = Guarda(cache[q], ActPagos(cache[q], rs))
    BY DEF n
  <2> HIDE DEF rs
  <2> QED  BY <1>5, <2>1, <2>4, <2>5, <2>6, <2>7
<1>10. CASE BorraRecibo(q)
  <2>1. rec'[q] = Nada  BY <1>1, <1>10 DEF BorraRecibo, Pon
  <2> QED  BY <2>1 DEF DeSuFactura
<1>11. CASE EmpiezaAPagar(q) \/ VuelveAEmpezar(q)
  <2>1. /\ UNCHANGED <<factura, cache>> /\ recibo[rec[q].id] # Nada
        /\ rec' = Pon(rec, q, LeeRecibo(rec[q].id))
        /\ rec[q] # Nada
    BY <1>4, <1>11 DEF EmpiezaAPagar, VuelveAEmpezar, bd
  <2>2. rec[q].id \in Ids /\ recibo[rec[q].id] = Fila(rec[q])  BY <1>1, <2>1 DEF Coherente
  <2>3. rec'[q].fac = rec[q].fac  BY <1>1, <1>6, <2>1, <2>2 DEF Pon, Fila
  <2> QED  BY <1>2, <2>1, <2>3
<1>12. CASE CancelaPago(q)
  BY <1>3, <1>12 DEF CancelaPago, bd
<1>13. CASE PagaExacto(q)
  <2>1. /\ rec[q] # Nada /\ rec' = Pon(rec, q, Pagado(rec[q], rec[q].imp)) /\ AcabaPago(q, TRUE)
        /\ UNCHANGED factura
    BY <1>13 DEF PagaExacto
  <2>2. rec'[q].fac = rec[q].fac  BY <1>1, <1>4, <2>1, MismaFactura DEF Pon
  <2> QED  BY <1>3, <2>1, <2>2
<1>14. CASE PagaParte(q)
  <2> PICK m \in Importes(q) : rec' = Pon(rec, q, Pagado(rec[q], m)) /\ UNCHANGED <<factura, cache>>
    BY <1>14 DEF PagaParte
  <2>1. rec[q] # Nada  BY <1>4 DEF Importes
  <2>2. rec'[q].fac = rec[q].fac  BY <1>1, <1>4, <2>1, MismaFactura DEF Pon
  <2> QED  BY <1>2, <2>1, <2>2
<1>15. CASE PagaDeMas(q)
  <2> PICK m \in Importes(q) :
        /\ \/ rec' = Pon(rec, q, Pagado(rec[q], rec[q].imp)) /\ AcabaPago(q, TRUE)
           \/ \E i \in Ids \ {rec[q].id} :
                /\ cache[q] # Nada /\ i \in DeEstado(cache[q].fac, "pendiente")
                /\ rec' = Pon(rec, q, LeeRecibo(i)) /\ UNCHANGED cache
        /\ UNCHANGED factura
    BY <1>15 DEF PagaDeMas
  <2>1. rec[q] # Nada  BY <1>4 DEF Importes
  <2>2. CASE rec' = Pon(rec, q, Pagado(rec[q], rec[q].imp)) /\ AcabaPago(q, TRUE)
    <3>1. rec'[q].fac = rec[q].fac  BY <1>1, <1>4, <2>1, <2>2, MismaFactura DEF Pon
    <3> QED  BY <1>3, <2>1, <2>2, <3>1
  <2>3. ASSUME NEW i \in Ids, cache[q] # Nada, i \in DeEstado(cache[q].fac, "pendiente"),
               rec' = Pon(rec, q, LeeRecibo(i)), UNCHANGED cache
        PROVE  DeSuFactura(q)'
    <3>1. recibo[i] # Nada /\ recibo[i].fac = cache[q].fac  BY <2>3 DEF DeEstado, De
    <3>2. rec'[q].fac = cache[q].fac  BY <1>1, <1>6, <2>3, <3>1 DEF Pon
    <3> QED  BY <2>3, <3>2 DEF DeSuFactura
  <2> QED  BY <2>2, <2>3
<1>16. CASE AnulaPago(q)
  <2>1. /\ rec[q] # Nada /\ AcabaPago(q, TRUE) /\ UNCHANGED factura
        /\ rec' = Pon(rec, q, [rec[q] EXCEPT !.est = "pendiente", !.resto = rec[q].imp])
    BY <1>16 DEF AnulaPago
  <2>2. rec'[q].fac = rec[q].fac  BY <1>1, <1>4, <2>1, MismaFactura DEF Pon
  <2> QED  BY <1>3, <2>1, <2>2
<1>17. CASE NuevoRecibo(q)
  <2>1. /\ rec[q] # Nada /\ AcabaPago(q, TRUE) /\ UNCHANGED factura
        /\ rec' = Pon(rec, q, [rec[q] EXCEPT !.id = ultimo + 1, !.est = "pendiente",
                             !.imp = pago[q].queda, !.resto = pago[q].queda])
    BY <1>4, <1>17 DEF NuevoRecibo
  <2> DEFINE n == [rec[q] EXCEPT !.id = ultimo + 1, !.est = "pendiente",
                                 !.imp = pago[q].queda, !.resto = pago[q].queda]
  <2>2. n = Objeto(ultimo + 1, rec[q].fac, pago[q].queda, pago[q].queda, "pendiente", rec[q].fecha)
    BY <1>4, <2>1, Renovar
  <2>3. rec'[q] = n  BY <1>1, <2>1 DEF Pon
  <2> HIDE DEF n
  <2>4. rec'[q].fac = rec[q].fac  BY <2>2, <2>3 DEF Objeto
  <2> QED  BY <1>3, <2>1, <2>4
<1> QED
  BY <1>7, <1>8, <1>9, <1>10, <1>11, <1>12, <1>13, <1>14, <1>15, <1>16, <1>17 DEF FormaRecibo

\* Neither what the invoice form does nor a failure changes the invoice of a receipt
\* that is shown.
LEMMA PasoFormaSuya ==
  ASSUME NEW q, Puestos = {q}, UnaVentana, CInv, FormaFactura(q) \/ Fallo(q)
  PROVE  DeSuFactura(q)'
<1>1. CopiasAlDia(q) /\ rec = [p \in Puestos |-> rec[p]] /\ DeSuFactura(q)
  BY DEF CInv, RInv, Tipos, TiposCobro
<1>2. CASE NuevaFactura(q) \/ ModificaFactura(q) \/ PideBorrar(q)
  <2>1. \E o, s : Abre(q, o, s)
    BY <1>2 DEF NuevaFactura, ModificaFactura, PideBorrar
  <2>2. rec[q] = Nada /\ rec' = rec
    BY <2>1 DEF Abre, cobro
  <2> QED  BY <2>2 DEF DeSuFactura
<1>3. CASE Cancela(q) \/ GuardaFactura(q) \/ BorraFactura(q) \/ QuitaRecibo(q)
             \/ EmpiezaAGenerar(q) \/ AcabaDeBorrar(q) \/ GeneraRecibo(q)
             \/ QuitarFalla(q) \/ GenerarFalla(q)
  <2>1. paso[q] # "libre" /\ rec' = rec
    BY <1>3 DEF Cancela, GuardaFactura, BorraFactura, QuitaRecibo, EmpiezaAGenerar,
       AcabaDeBorrar, GeneraRecibo, QuitarFalla, GenerarFalla, cobro
  <2> QED  BY <1>1, <2>1 DEF CopiasAlDia, DeSuFactura
<1>4. CASE NuevoFalla(q) \/ Muere(q)
  <2>1. rec'[q] = Nada  BY <1>1, <1>4 DEF NuevoFalla, Muere, Pon
  <2> QED  BY <2>1 DEF DeSuFactura
<1> QED
  BY <1>2, <1>3, <1>4 DEF FormaFactura, Fallo

\* The invariant holds initially.
LEMMA InicioCInv ==
  ASSUME NEW q, Puestos = {q}, NadaEsOtra, Init
  PROVE  CInv
<1>1. RInv  BY InicioRInv
<1>2. DeSuFactura(q)  BY DEF Init, DeSuFactura
<1> QED  BY <1>1, <1>2 DEF CInv

\* Every step keeps the invariant.
LEMMA PasoCInv ==
  ASSUME NEW q, Puestos = {q}, UnaVentana, Reabrir, FilasDistintas, NadaEsOtra, CInv,
         [Next]_vars
  PROVE  CInv'
<1>1. RInv'  BY PasoRInv DEF CInv
<1>2. CASE UNCHANGED vars
  <2>1. DeSuFactura(q)'  BY <1>2 DEF CInv, DeSuFactura, Existe, vars, bd, cobro
  <2> QED  BY <1>1, <2>1 DEF CInv
<1>3. CASE Next
  <2>1. FormaFactura(q) \/ FormaRecibo(q) \/ Fallo(q)  BY <1>3 DEF Next
  <2>2. DeSuFactura(q)'  BY <2>1, PasoReciboSuya, PasoFormaSuya
  <2> QED  BY <1>1, <2>2 DEF CInv
<1> QED  BY <1>2, <1>3

\* The step that removes or accepts a receipt.
LEMMA PasoCobros ==
  ASSUME NEW q, Puestos = {q}, UnaVentana, Reabrir, FilasDistintas, NadaEsOtra, CInv, Next,
         NEW f \in Facturas, NEW i \in Ids, Existe(f), Existe(f)', i \in De(f),
         recibo'[i] = Nada \/ (AceptaRecibo(q) /\ rec[q].id = i)
  PROVE  factura'[f].cobros = Cobrado(recibo', f)
<1>1. /\ RInv /\ TiposBd /\ TiposCobro /\ CopiasAlDia(q) /\ DeUnaFactura(q) /\ DeSuFactura(q)
      /\ Coherente(q) /\ cache[q] \in Facturas0 \cup {Nada}
      /\ recibo[i] # Nada /\ recibo[i].fac = f
  BY DEF CInv, RInv, Tipos, TiposCobro, TInv, IInv, De
<1>2. ASSUME NEW o \in Facturas0 \cup {Nada}, AlDia(o), o # Nada, o.fac = f,
             recibo' \in [Ids -> FilasRecibo \cup {Nada}],
             factura' = Guarda(o, ActPagos(o, recibo'))
      PROVE  factura'[f].cobros = Cobrado(recibo', f)
  BY <1>1, <1>2, ActualizaCobros
<1>3. ASSUME rec[q] # Nada, rec[q].id = i,
             factura' = Guarda(cache[q], ActPagos(cache[q], recibo')),
             recibo' \in [Ids -> FilasRecibo \cup {Nada}]
      PROVE  factura'[f].cobros = Cobrado(recibo', f)
  <2>1. recibo[i] = Fila(rec[q])  BY <1>1, <1>3 DEF Coherente
  <2>2. rec[q].fac = f  BY <1>1, <2>1 DEF Fila
  <2>3. cache[q] # Nada /\ cache[q].fac = f  BY <1>1, <1>3, <2>2 DEF DeSuFactura
  <2> QED  BY <1>1, <1>2, <1>3, <2>3 DEF CopiasAlDia
<1>4. \A j \in Ids : [recibo EXCEPT ![j] = Nada] \in [Ids -> FilasRecibo \cup {Nada}]
  BY <1>1 DEF TiposBd
<1>5. CASE AceptaRecibo(q) /\ rec[q].id = i
  <2> PICK d \in FechasNuevas \cup {rec[q].fecha} :
        LET n  == [rec[q] EXCEPT !.fecha = d]
            rs == GuardaRecibo(rec[q], n)
        IN  /\ recibo' = rs
            /\ factura' = Guarda(cache[q], ActPagos(cache[q], rs))
    BY <1>5 DEF AceptaRecibo
  <2> DEFINE n == [rec[q] EXCEPT !.fecha = d]
  <2>1. rec[q] # Nada /\ rec[q] \in Objetos  BY <1>1, <1>5 DEF AceptaRecibo, TiposCobro
  <2>2. d \in Nat  BY <2>1, FechaAssumption, TiposDeObjeto
  <2>3. n \in Objetos  BY <2>1, <2>2, TiposDeObjeto
  <2>4. recibo' = GuardaRecibo(rec[q], n)  OBVIOUS
  <2>5. factura' = Guarda(cache[q], ActPagos(cache[q], recibo'))  OBVIOUS
  <2> HIDE DEF n
  <2>6. recibo' \in [Ids -> FilasRecibo \cup {Nada}]
    BY <1>1, <2>1, <2>3, <2>4, TiposDeGuardaRecibo
  <2> QED  BY <1>3, <1>5, <2>1, <2>5, <2>6
<1>6. CASE recibo'[i] = Nada /\ FormaRecibo(q)
  <2>1. BorraRecibo(q) /\ rec[q].id = i  BY <1>1, <1>6, ReciboQueda
  <2>2. /\ rec[q] # Nada /\ recibo' = [recibo EXCEPT ![i] = Nada]
        /\ factura' = Guarda(cache[q], ActPagos(cache[q], recibo'))
    BY <2>1 DEF BorraRecibo
  <2> QED  BY <1>3, <1>4, <2>1, <2>2
<1>7. CASE recibo'[i] = Nada /\ Fallo(q)
  <2>1. recibo' = recibo
    BY <1>7 DEF Fallo, QuitarFalla, GenerarFalla, NuevoFalla, Muere, bd
  <2> QED  BY <1>1, <1>7, <2>1
<1>8. CASE recibo'[i] = Nada /\ QuitaRecibo(q)
  <2> PICK j \in quitar[q] :
        IF recibo[j] = Nada THEN UNCHANGED <<factura, recibo, copia>>
        ELSE LET rs == [recibo EXCEPT ![j] = Nada]
                 v  == RecFactura(copia[q], recibo[j].fac)
             IN  /\ recibo' = rs
                 /\ factura' = Guarda(v, ActPagos(v, rs))
    BY <1>8 DEF QuitaRecibo
  <2>1. j = i
    <3>1. recibo[j] # Nada /\ recibo' = [recibo EXCEPT ![j] = Nada]
      BY <1>1, <1>8
    <3>2. j # i => recibo'[i] = recibo[i]  BY <1>1, <3>1 DEF TiposBd
    <3> QED  BY <1>1, <1>8, <3>2
  <2> DEFINE v == RecFactura(copia[q], f)
  <2>2. /\ recibo' = [recibo EXCEPT ![i] = Nada]
        /\ factura' = Guarda(v, ActPagos(v, recibo'))
    BY <1>1, <2>1
  <2>3. copia[q] \in Facturas0 \cup {Nada}  BY <1>1 DEF RInv, Tipos, TiposForma
  <2>4. v \in Facturas0 \cup {Nada} /\ AlDia(v)
    BY <1>1, <2>3, TiposDeLeeFactura, LeidaAlDia DEF CopiasAlDia, RInv, TInv
  <2>5. v # Nada /\ v.fac = f
    <3>1. CASE copia[q] # Nada
      BY <1>1, <2>1, <3>1 DEF RecFactura, DeUnaFactura
    <3>2. CASE copia[q] = Nada
      <4>1. factura[f] \in FilasFactura  BY <1>1 DEF TiposBd, Existe
      <4>2. LeeFactura(f) \in Facturas0 /\ LeeFactura(f).fac = f
        BY <4>1 DEF LeeFactura, Facturas0, FilasFactura
      <4> QED  BY <3>2, <4>2 DEF RecFactura, NadaEsOtra
    <3> QED  BY <3>1, <3>2
  <2> HIDE DEF v
  <2> QED  BY <1>2, <1>4, <2>2, <2>4, <2>5
<1>9. CASE recibo'[i] = Nada /\ GeneraRecibo(q)
  <2>1. UNCHANGED recibo \/ \E r : recibo' = [recibo EXCEPT ![ultimo + 1] = r]
    BY <1>9 DEF GeneraRecibo
  <2>2. ultimo \in Nat /\ i <= ultimo  BY <1>1, NumeroAssumption DEF TiposBd
  <2>3. recibo'[i] = recibo[i]  BY <1>1, <2>1, <2>2 DEF TiposBd
  <2> QED  BY <1>1, <1>9, <2>3
<1>10. CASE recibo'[i] = Nada /\ FormaFactura(q) /\ ~QuitaRecibo(q) /\ ~GeneraRecibo(q)
  <2>1. recibo' = recibo
    BY <1>10 DEF FormaFactura, NuevaFactura, ModificaFactura, PideBorrar, Abre, Cancela,
       GuardaFactura, BorraFactura, EmpiezaAGenerar, AcabaDeBorrar, bd
  <2> QED  BY <1>1, <1>10, <2>1
<1> QED
  BY <1>5, <1>6, <1>7, <1>8, <1>9, <1>10 DEF Next

\* Whoever removes a receipt or accepts it leaves in its invoice what is collected with
\* the receipts that are left: RecCobro::save(true) and RecCobro::remove bring up to date
\* the invoice their object holds, which is that of the receipt as long as the form is
\* opened again for each receipt.
THEOREM UnPuestoCobrosAlDia ==
  ASSUME NEW q, Puestos = {q}, UnaVentana, Reabrir, FilasDistintas, NadaEsOtra
  PROVE  Spec => CobrosAlDia
<1> DEFINE Paso == \A f \in Facturas, i \in Ids :
              /\ Existe(f) /\ Existe(f)' /\ i \in De(f)
              /\ recibo'[i] = Nada \/ \E p \in Puestos : AceptaRecibo(p) /\ rec[p].id = i
              => factura'[f].cobros = Cobrado(recibo', f)
<1>1. Init => CInv  BY InicioCInv
<1>2. CInv /\ [Next]_vars => CInv'  BY PasoCInv
<1>3. CInv /\ [Next]_vars => [Paso]_vars
  <2> SUFFICES ASSUME CInv, Next  PROVE Paso  OBVIOUS
  <2> QED  BY PasoCobros
<1> QED
  BY <1>1, <1>2, <1>3, PTL DEF Spec, CobrosAlDia

-------------------------------------------------------------------------------
(* What is invoiced in receipts.                                           *)

\* What each receipt adds to what is invoiced.
Importe(rs, f) == [i \in Ids |-> IF rs[i] # Nada /\ rs[i].fac = f THEN rs[i].imp ELSE 0]

\* The same of what is invoiced.
LEMMA FacturadoEs ==
  ASSUME NEW rs, rs \in [Ids -> FilasRecibo \cup {Nada}], NEW f
  PROVE  Facturado(rs, f) = SumFunctionOnSet(Importe(rs, f), Ids)
<1> DEFINE S == {i \in Ids : rs[i] # Nada /\ rs[i].fac = f}
           h == Importe(rs, f)
           T == Ids \ S
<1>0. IsFiniteSet(Ids)  BY FS_Interval, NumeroAssumption DEF Ids
<1>1. IsFiniteSet(S) /\ IsFiniteSet(T)  BY <1>0, FS_Subset
<1>2. \A i \in Ids : h[i] \in Int
  BY DEF FilasRecibo, Importe
<1>3. Facturado(rs, f) = (CHOOSE it : it =
         [s \in SUBSET S |-> IF s = {} THEN 0 ELSE rs[Pick(s)].imp + it[s \ {Pick(s)}]])[S]
  BY DEF Facturado, MapThenSumSet, MapThenFoldSet, Pick
<1>4. \A s \in SUBSET S : s # {} => h[Pick(s)] = rs[Pick(s)].imp
  BY DEF Pick, Importe
<1>5. \A i \in T : h[i] = 0  BY DEF Importe
<1>6. S \cup T = Ids /\ S \cap T = {}  OBVIOUS
<1> HIDE DEF S, T, h
<1> DEFINE F(it) == [s \in SUBSET S |-> IF s = {} THEN 0 ELSE rs[Pick(s)].imp + it[s \ {Pick(s)}]]
           suma == CHOOSE it : it = F(it)
<1>7. ASSUME NEW it
      PROVE  F(it) = [s \in SUBSET S |-> IF s = {} THEN 0 ELSE h[Pick(s)] + it[s \ {Pick(s)}]]
  BY <1>4
<1>8. \A it : it = F(it) <=> Adds(h, S, it)
  BY <1>7 DEF Adds
<1>9. Adds(h, S, suma)
  <2>1. PICK it : it = F(it)  BY <1>1, <1>8, AddsExists
  <2> HIDE DEF F
  <2>2. suma = F(suma)  BY <2>1
  <2> QED  BY <1>8, <2>2
<1>10. Facturado(rs, f) = suma[S]
  BY <1>3
<1>11. Facturado(rs, f) = SumFunctionOnSet(h, S)
  BY <1>1, <1>9, <1>10, SumAdds
<1>12. SumFunctionOnSet(h, T) = 0  BY <1>1, <1>5, SumZero
<1>13. SumFunctionOnSet(h, S \cup T) = SumFunctionOnSet(h, S) + SumFunctionOnSet(h, T)
  BY <1>1, <1>2, <1>6, SumUnion
<1>14. SumFunctionOnSet(h, S) \in Int  BY <1>1, <1>2, <1>6, SumInt
<1>15. Facturado(rs, f) = SumFunctionOnSet(h, Ids)
  BY <1>6, <1>11, <1>12, <1>13, <1>14
<1> QED  BY <1>15 DEF h

\* A change in one receipt.
LEMMA FacturadoCambia ==
  ASSUME NEW rs, rs \in [Ids -> FilasRecibo \cup {Nada}],
         NEW ss, ss \in [Ids -> FilasRecibo \cup {Nada}],
         NEW k \in Ids, \A i \in Ids \ {k} : ss[i] = rs[i], NEW f
  PROVE  /\ Facturado(rs, f) \in Int
         /\ Importe(rs, f)[k] \in Int /\ Importe(ss, f)[k] \in Int
         /\ Facturado(ss, f) = Facturado(rs, f) - Importe(rs, f)[k] + Importe(ss, f)[k]
<1> DEFINE g == Importe(rs, f)
           h == Importe(ss, f)
<1>1. IsFiniteSet(Ids)  BY FS_Interval, NumeroAssumption DEF Ids
<1>2. \A i \in Ids : g[i] \in Int /\ h[i] \in Int  BY DEF FilasRecibo, Importe
<1>3. \A i \in Ids \ {k} : g[i] = h[i]  BY DEF Importe
<1>4. Facturado(rs, f) = SumFunctionOnSet(g, Ids) /\ Facturado(ss, f) = SumFunctionOnSet(h, Ids)
  BY FacturadoEs
<1> HIDE DEF g, h
<1>5. SumFunctionOnSet(h, Ids) = SumFunctionOnSet(g, Ids) - g[k] + h[k]
  BY <1>1, <1>2, <1>3, SumChange
<1>6. SumFunctionOnSet(g, Ids) \in Int  BY <1>1, <1>2, SumInt
<1> QED  BY <1>2, <1>4, <1>5, <1>6 DEF g, h

\* A save of the receipt in the form adds the difference.
LEMMA FacturadoGuarda ==
  ASSUME TiposBd, NadaEsOtra, NEW o \in Objetos, NEW n \in Objetos, n.id = o.id, n.fac = o.fac,
         recibo[o.id] # Nada => recibo[o.id] = Fila(o), NEW f
  PROVE  /\ Facturado(recibo, f) \in Int
         /\ Facturado(GuardaRecibo(o, n), f) =
              Facturado(recibo, f) +
                (IF recibo[o.id] # Nada /\ o.fac = f THEN n.imp - o.imp ELSE 0)
<1> DEFINE k == o.id
           ss == GuardaRecibo(o, n)
<1>1. k \in Ids /\ o.imp \in Int /\ n.imp \in Int  BY DEF Objetos
<1>2. recibo \in [Ids -> FilasRecibo \cup {Nada}]  BY DEF TiposBd
<1>3. ss \in [Ids -> FilasRecibo \cup {Nada}]  BY TiposDeGuardaRecibo
<1>4. ss = IF recibo[k] = Nada THEN recibo ELSE [recibo EXCEPT ![k] = Fila(n)]
  BY GuardaLoQueTiene
<1>5. Fila(n) # Nada
  BY TiposDeObjeto DEF NadaEsOtra
<1> HIDE DEF ss, k
<1>6. \A i \in Ids \ {k} : ss[i] = recibo[i]  BY <1>1, <1>2, <1>4
<1>7. /\ Facturado(recibo, f) \in Int
      /\ Importe(recibo, f)[k] \in Int /\ Importe(ss, f)[k] \in Int
      /\ Facturado(ss, f) = Facturado(recibo, f) - Importe(recibo, f)[k] + Importe(ss, f)[k]
  BY <1>1, <1>2, <1>3, <1>6, FacturadoCambia
<1>8. CASE recibo[k] = Nada
  BY <1>4, <1>7, <1>8 DEF k, ss
<1>9. CASE recibo[k] # Nada
  <2>1. recibo[k] = Fila(o) /\ ss[k] = Fila(n)  BY <1>1, <1>2, <1>4, <1>9 DEF k
  <2>2. Fila(o).imp = o.imp /\ Fila(o).fac = o.fac /\ Fila(n).imp = n.imp /\ Fila(n).fac = o.fac
    BY DEF Fila
  <2>3. /\ Importe(recibo, f)[k] = IF o.fac = f THEN o.imp ELSE 0
        /\ Importe(ss, f)[k] = IF o.fac = f THEN n.imp ELSE 0
    BY <1>1, <1>5, <1>9, <2>1, <2>2 DEF Importe
  <2> QED  BY <1>1, <1>7, <1>9, <2>3 DEF k, ss
<1> QED  BY <1>8, <1>9

\* What is left of a partial payment, when there is one workstation.
PorHacer(g, r, f) ==
  MapThenSumSet(LAMBDA p : g[p].queda, {p \in Puestos : g[p].fase = "nuevo" /\ r[p].fac = f})

\* It is what its payment has left, if it has.
LEMMA PorHacerEs ==
  ASSUME NEW q, Puestos = {q}, NEW g, g[q].queda \in Int, NEW r, NEW f
  PROVE  PorHacer(g, r, f) = IF g[q].fase = "nuevo" /\ r[q].fac = f THEN g[q].queda ELSE 0
<1> DEFINE S == {p \in Puestos : g[p].fase = "nuevo" /\ r[p].fac = f}
           h == [p \in Puestos |-> g[p].queda]
<1>1. PorHacer(g, r, f) = (CHOOSE it : it =
         [s \in SUBSET S |-> IF s = {} THEN 0 ELSE g[Pick(s)].queda + it[s \ {Pick(s)}]])[S]
  BY DEF PorHacer, MapThenSumSet, MapThenFoldSet, Pick
<1>2. \A s \in SUBSET S : s # {} => h[Pick(s)] = g[Pick(s)].queda
  BY DEF Pick
<1>3. S = (IF g[q].fase = "nuevo" /\ r[q].fac = f THEN {q} ELSE {}) /\ h[q] = g[q].queda
  OBVIOUS
<1>4. IsFiniteSet({q}) /\ IsFiniteSet({})  BY FS_Singleton, FS_EmptySet
<1>5. IsFiniteSet(S)  BY <1>3, <1>4
<1> HIDE DEF S, h
<1> DEFINE F(it) == [s \in SUBSET S |-> IF s = {} THEN 0 ELSE g[Pick(s)].queda + it[s \ {Pick(s)}]]
           suma == CHOOSE it : it = F(it)
<1>7. ASSUME NEW it
      PROVE  F(it) = [s \in SUBSET S |-> IF s = {} THEN 0 ELSE h[Pick(s)] + it[s \ {Pick(s)}]]
  BY <1>2
<1>8. \A it : it = F(it) <=> Adds(h, S, it)
  BY <1>7 DEF Adds
<1>9. Adds(h, S, suma)
  <2>1. PICK it : it = F(it)  BY <1>5, <1>8, AddsExists
  <2> HIDE DEF F
  <2>2. suma = F(suma)  BY <2>1
  <2> QED  BY <1>8, <2>2
<1>10. PorHacer(g, r, f) = SumFunctionOnSet(h, S)
  BY <1>1, <1>5, <1>9, SumAdds
<1>11. SumFunctionOnSet(h, {}) = 0  BY SumEmpty
<1>12. SumFunctionOnSet(h, {q}) = h[q]
  <2>1. q \in {q} /\ {q} \ {q} = {} /\ \A x \in {q} : h[x] \in Int  BY <1>3
  <2>2. SumFunctionOnSet(h, {q}) = h[q] + SumFunctionOnSet(h, {q} \ {q})  BY <1>4, <2>1, AddOne
  <2> QED  BY <1>3, <1>11, <2>1, <2>2
<1> QED  BY <1>3, <1>10, <1>11, <1>12

\* The receipt that is being paid is stored: with one workstation nobody removes it
\* between pushPagar and the save of the payment.
PagoVivo(p) == pago[p].fase \in {"preguntar", "multiple"} => recibo[rec[p].id] # Nada

PInv == Tipos /\ IInv /\ \A p \in Puestos : PagoVivo(p)

\* The objects that the receipts form saves keep the invoice; only a payment changes
\* the amount.
LEMMA MismoImporte ==
  ASSUME NEW o, EsObjeto(o)
  PROVE  /\ \A m : Pagado(o, m).imp = m
         /\ \A d : [o EXCEPT !.fecha = d].imp = o.imp
         /\ \A m : [o EXCEPT !.est = "pendiente", !.resto = m].imp = o.imp
<1>1. ASSUME NEW m  PROVE Pagado(o, m).imp = m
  BY Pagar DEF Objeto
<1>2. ASSUME NEW d  PROVE [o EXCEPT !.fecha = d].imp = o.imp
  BY DEF EsObjeto, Objeto
<1>3. ASSUME NEW m  PROVE [o EXCEPT !.est = "pendiente", !.resto = m].imp = o.imp
  <2>1. [o EXCEPT !.est = "pendiente", !.resto = m] =
           Objeto(o.id, o.fac, o.imp, m, "pendiente", o.fecha)
    BY Anular
  <2> QED  BY <2>1 DEF Objeto
<1> QED  BY <1>1, <1>2, <1>3

\* What may be paid is a natural number, of a receipt that is being paid.
LEMMA SePaga ==
  ASSUME NEW q, Puestos = {q}, PInv, NEW m \in Importes(q)
  PROVE  /\ m \in Int /\ pago[q].fase \in {"preguntar", "multiple"}
         /\ rec[q] \in Objetos /\ rec[q] # Nada /\ rec[q].imp \in Int /\ recibo[rec[q].id] # Nada
         /\ recibo[rec[q].id] = Fila(rec[q]) /\ EsObjeto(rec[q])
<1>1. pago[q].fase \in {"preguntar", "multiple"}  BY DEF Importes
<1>2. /\ rec[q] # Nada /\ rec[q] \in Objetos /\ recibo[rec[q].id] # Nada
      /\ recibo[rec[q].id] = Fila(rec[q]) /\ EsObjeto(rec[q]) /\ pago[q].queda \in Nat
  BY <1>1 DEF PInv, PagoVivo, IInv, Coherente, Tipos, TiposCobro
<1>3. rec[q].imp \in Int  BY <1>2 DEF Objetos
<1>4. m \in Int
  <2>1. CASE pago[q].fase = "preguntar"
    <3>1. m \in Cantidades \cup {rec[q].imp}  BY <2>1 DEF Importes
    <3> QED  BY <1>3, <3>1, CantidadAssumption
  <2>2. CASE pago[q].fase = "multiple"
    <3>1. m = pago[q].queda  BY <2>2 DEF Importes
    <3> QED  BY <1>2, <3>1
  <2> QED  BY <1>1, <2>1, <2>2
<1> QED  BY <1>1, <1>2, <1>3, <1>4

\* Every step keeps the invariant.
LEMMA PasoPInv ==
  ASSUME NEW q, Puestos = {q}, NadaEsOtra
  PROVE  PInv /\ [Next]_vars => PInv'
<1> SUFFICES ASSUME PInv, [Next]_vars  PROVE PInv'
  OBVIOUS
<1>1. Tipos' /\ IInv'  BY PasoTipos, PasoIInv DEF PInv
<1> SUFFICES PagoVivo(q)'  BY <1>1 DEF PInv
<1>2. /\ Tipos /\ TiposBd /\ IInv /\ PagoVivo(q) /\ CobroEnCurso(q) /\ Coherente(q)
      /\ rec = [p \in Puestos |-> rec[p]] /\ pago = [p \in Puestos |-> pago[p]]
      /\ \A x : [rec EXCEPT ![q] = x][q] = x /\ [pago EXCEPT ![q] = x][q] = x
  BY DEF PInv, IInv, Formas, Tipos
<1>3. ASSUME pago'[q].fase \notin {"preguntar", "multiple"}  PROVE PagoVivo(q)'
  BY <1>3 DEF PagoVivo
<1>4. ASSUME UNCHANGED <<recibo, rec, pago>>  PROVE PagoVivo(q)'
  BY <1>2, <1>4 DEF PagoVivo
<1>5. ASSUME NEW h, AcabaPago(q, h)  PROVE PagoVivo(q)'
  <2>1. pago'[q] = SinPago  BY <1>2, <1>5 DEF AcabaPago, Pon
  <2> QED  BY <1>3, <2>1 DEF SinPago
<1>6. CASE UNCHANGED vars
  BY <1>4, <1>6 DEF vars, bd, cobro
<1>7. CASE FormaFactura(q)
  <2>1. CASE NuevaFactura(q) \/ ModificaFactura(q) \/ PideBorrar(q) \/ Cancela(q)
               \/ GuardaFactura(q) \/ BorraFactura(q) \/ EmpiezaAGenerar(q) \/ AcabaDeBorrar(q)
    BY <1>4, <2>1 DEF NuevaFactura, ModificaFactura, PideBorrar, Abre, Cancela, GuardaFactura,
       BorraFactura, EmpiezaAGenerar, AcabaDeBorrar, bd, cobro
  <2>2. CASE QuitaRecibo(q) \/ GeneraRecibo(q)
    <3>1. paso[q] \notin {"libre", "editando"} /\ pago' = pago
      BY <2>2 DEF QuitaRecibo, GeneraRecibo, cobro
    <3> QED  BY <1>2, <1>3, <3>1 DEF CobroEnCurso
  <2> QED  BY <1>7, <2>1, <2>2 DEF FormaFactura
<1>8. CASE Fallo(q)
  <2>1. CASE QuitarFalla(q) \/ GenerarFalla(q)
    BY <1>4, <2>1 DEF QuitarFalla, GenerarFalla, bd, cobro
  <2>2. CASE NuevoFalla(q) \/ Muere(q)
    <3>1. pago'[q] = SinPago  BY <1>2, <2>2 DEF NuevoFalla, Muere, AcabaPago, Pon
    <3> QED  BY <1>3, <3>1 DEF SinPago
  <2> QED  BY <1>8, <2>1, <2>2 DEF Fallo
<1>9. CASE FormaRecibo(q)
  <2>1. CASE VeRecibo(q) \/ CierraRecibos(q) \/ AceptaRecibo(q) \/ BorraRecibo(q)
    <3>1. pago'[q] = SinPago
      BY <2>1 DEF VeRecibo, CierraRecibos, AceptaRecibo, BorraRecibo
    <3> QED  BY <1>3, <3>1 DEF SinPago
  <2>2. CASE CancelaPago(q) \/ PagaExacto(q) \/ NuevoRecibo(q) \/ AnulaPago(q)
    BY <1>5, <2>2 DEF CancelaPago, PagaExacto, NuevoRecibo, AnulaPago
  <2>3. CASE EmpiezaAPagar(q) \/ VuelveAEmpezar(q)
    <3>1. /\ recibo[rec[q].id] # Nada /\ recibo' = recibo
          /\ rec' = [rec EXCEPT ![q] = LeeRecibo(rec[q].id)]
      BY <2>3 DEF EmpiezaAPagar, VuelveAEmpezar, Pon, bd
    <3>2. rec'[q].id = rec[q].id  BY <1>2, <3>1 DEF LeeRecibo
    <3> QED  BY <3>1, <3>2 DEF PagoVivo
  <2>4. CASE PagaParte(q)
    <3> PICK m \in Importes(q) :
          pago' = [pago EXCEPT ![q] = [fase |-> "nuevo", queda |-> rec[q].imp - m]]
      BY <2>4 DEF PagaParte, Pon
    <3>1. pago'[q].fase = "nuevo"  BY <1>2
    <3> QED  BY <1>3, <3>1
  <2>5. CASE PagaDeMas(q)
    <3> PICK m \in Importes(q) :
          /\ recibo' = GuardaRecibo(rec[q], Pagado(rec[q], rec[q].imp))
          /\ \/ AcabaPago(q, TRUE)
             \/ \E i \in Ids :
                  /\ i \in DeEstado(cache[q].fac, "pendiente")
                  /\ rec' = [rec EXCEPT ![q] = LeeRecibo(i)]
      BY <2>5 DEF PagaDeMas, Pon
    <3>1. CASE AcabaPago(q, TRUE)
      BY <1>5, <3>1
    <3>2. ASSUME NEW i \in Ids, i \in DeEstado(cache[q].fac, "pendiente"),
                 rec' = [rec EXCEPT ![q] = LeeRecibo(i)]
          PROVE  PagoVivo(q)'
      <4>1. recibo[i] # Nada  BY <3>2 DEF DeEstado, De
      <4>2. rec'[q].id = i  BY <1>2, <3>2 DEF LeeRecibo
      <4>3. rec[q] \in Objetos /\ rec[q].imp \in Int  BY SePaga
      <4>4. Pagado(rec[q], rec[q].imp) \in Objetos  BY <4>3, TiposDeObjeto
      <4>5. recibo'[i] # Nada  BY <1>2, <4>1, <4>3, <4>4, GuardaSinQuitar
      <4> QED  BY <4>2, <4>5 DEF PagoVivo
    <3> QED  BY <3>1, <3>2
  <2> QED  BY <1>9, <2>1, <2>2, <2>3, <2>4, <2>5 DEF FormaRecibo
<1> QED  BY <1>6, <1>7, <1>8, <1>9 DEF Next

\* The invariant holds initially.
LEMMA InicioPInv ==
  ASSUME NEW q, Puestos = {q}
  PROVE  Init => PInv
BY InicioTipos, InicioIInv DEF PInv, PagoVivo, Init, SinPago

\* A step of the receipts form that removes no receipt.
LEMMA PasoFacturado ==
  ASSUME NEW q, Puestos = {q}, NadaEsOtra, PInv, FormaRecibo(q), Tipos',
         \A i \in Ids : recibo[i] # Nada => recibo'[i] # Nada, NEW f
  PROVE  Facturado(recibo', f) + PorCrear(f)' = Facturado(recibo, f) + PorCrear(f)
<1>1. /\ TiposBd /\ Coherente(q) /\ recibo \in [Ids -> FilasRecibo \cup {Nada}]
      /\ rec[q] # Nada => rec[q] \in Objetos /\ EsObjeto(rec[q])
      /\ pago[q].fase # "no" => rec[q] # Nada
      /\ pago[q].queda \in Int /\ pago'[q].queda \in Int
      /\ \A x : [rec EXCEPT ![q] = x][q] = x /\ [pago EXCEPT ![q] = x][q] = x
      /\ recibo' \in [Ids -> FilasRecibo \cup {Nada}]
  BY DEF PInv, IInv, Coherente, Tipos, TiposBd, TiposCobro
<1>2. /\ PorCrear(f) = IF pago[q].fase = "nuevo" /\ rec[q].fac = f THEN pago[q].queda ELSE 0
      /\ PorCrear(f)' = IF pago'[q].fase = "nuevo" /\ rec'[q].fac = f THEN pago'[q].queda ELSE 0
  <2>1. PorCrear(f) = PorHacer(pago, rec, f) /\ PorCrear(f)' = PorHacer(pago', rec', f)
    BY DEF PorCrear, PorHacer, MapThenSumSet, MapThenFoldSet
  <2>2. PorHacer(pago, rec, f) = IF pago[q].fase = "nuevo" /\ rec[q].fac = f
            THEN pago[q].queda ELSE 0
    BY <1>1, PorHacerEs
  <2>3. PorHacer(pago', rec', f) = IF pago'[q].fase = "nuevo" /\ rec'[q].fac = f
            THEN pago'[q].queda ELSE 0
    BY <1>1, PorHacerEs
  <2> QED  BY <2>1, <2>2, <2>3
<1>3. ASSUME pago[q].fase # "nuevo", pago'[q].fase # "nuevo", recibo' = recibo
      PROVE  Facturado(recibo', f) + PorCrear(f)' = Facturado(recibo, f) + PorCrear(f)
  BY <1>2, <1>3
<1>4. ASSUME rec[q] # Nada, NEW n \in Objetos, n.id = rec[q].id, n.fac = rec[q].fac
      PROVE  /\ Facturado(recibo, f) \in Int
             /\ Facturado(GuardaRecibo(rec[q], n), f) =
                  Facturado(recibo, f) +
                    (IF recibo[rec[q].id] # Nada /\ rec[q].fac = f THEN n.imp - rec[q].imp ELSE 0)
  BY <1>1, <1>4, FacturadoGuarda DEF Coherente
<1>5. ASSUME rec[q] # Nada, NEW n \in Objetos, n.id = rec[q].id, n.fac = rec[q].fac,
             n.imp = rec[q].imp, recibo' = GuardaRecibo(rec[q], n),
             pago[q].fase # "nuevo", pago'[q].fase # "nuevo"
      PROVE  Facturado(recibo', f) + PorCrear(f)' = Facturado(recibo, f) + PorCrear(f)
  <2>1. rec[q].imp \in Int  BY <1>1, <1>5 DEF Objetos
  <2> QED  BY <1>2, <1>4, <1>5, <2>1
<1>6. ASSUME pago' = [pago EXCEPT ![q] = SinPago]  PROVE pago'[q].fase # "nuevo"
  BY <1>1, <1>6 DEF SinPago
<1>7. CASE VeRecibo(q) \/ CierraRecibos(q) \/ EmpiezaAPagar(q) \/ CancelaPago(q)
             \/ VuelveAEmpezar(q)
  <2>1. recibo' = recibo /\ pago[q].fase # "nuevo"
    <3>1. recibo' = recibo
      BY <1>7 DEF VeRecibo, CierraRecibos, EmpiezaAPagar, CancelaPago, VuelveAEmpezar, bd
    <3>2. pago[q] = SinPago \/ pago[q].fase \in {"preguntar", "multiple"}
      BY <1>7 DEF VeRecibo, CierraRecibos, EmpiezaAPagar, CancelaPago, VuelveAEmpezar
    <3> QED  BY <3>1, <3>2 DEF SinPago
  <2>2. \/ pago' = pago
        \/ pago' = [pago EXCEPT ![q] = SinPago]
        \/ pago' = [pago EXCEPT ![q] = [fase |-> "preguntar", queda |-> 0]]
    BY <1>7 DEF VeRecibo, CierraRecibos, EmpiezaAPagar, CancelaPago, VuelveAEmpezar, AcabaPago, Pon
  <2>3. pago'[q].fase # "nuevo"
    BY <1>1, <1>6, <2>1, <2>2
  <2> QED  BY <1>3, <2>1, <2>3
<1>8. CASE AceptaRecibo(q)
  <2> PICK d \in FechasNuevas \cup {rec[q].fecha} :
        recibo' = GuardaRecibo(rec[q], [rec[q] EXCEPT !.fecha = d])
    BY <1>8 DEF AceptaRecibo
  <2> DEFINE n == [rec[q] EXCEPT !.fecha = d]
  <2>1. rec[q] # Nada /\ pago[q] = SinPago /\ pago' = pago  BY <1>8 DEF AceptaRecibo
  <2>2. d \in Nat  BY <1>1, <2>1, FechaAssumption, TiposDeObjeto
  <2>3. n \in Objetos /\ n.id = rec[q].id  BY <1>1, <2>1, <2>2, TiposDeObjeto
  <2>4. n.fac = rec[q].fac /\ n.imp = rec[q].imp  BY <1>1, <2>1, MismaFactura, MismoImporte
  <2>5. recibo' = GuardaRecibo(rec[q], n)  OBVIOUS
  <2> HIDE DEF n
  <2>6. pago[q].fase # "nuevo"  BY <2>1 DEF SinPago
  <2> QED  BY <1>5, <2>1, <2>3, <2>4, <2>5, <2>6
<1>9. CASE BorraRecibo(q)
  <2>1. /\ rec[q] # Nada /\ pago[q] = SinPago /\ pago' = pago
        /\ recibo' = [recibo EXCEPT ![rec[q].id] = Nada]
    BY <1>9 DEF BorraRecibo
  <2>2. rec[q].id \in Ids  BY <1>1, <2>1 DEF Objetos
  <2>3. recibo'[rec[q].id] = Nada  BY <1>1, <2>1, <2>2
  <2>4. recibo[rec[q].id] = Nada  BY <2>2, <2>3
  <2>5. recibo' = recibo  BY <1>1, <2>1, <2>4
  <2> QED  BY <1>3, <2>1, <2>5 DEF SinPago
<1>10. CASE AnulaPago(q)
  <2> DEFINE n == [rec[q] EXCEPT !.est = "pendiente", !.resto = rec[q].imp]
  <2>1. /\ rec[q] # Nada /\ pago[q] = SinPago /\ recibo' = GuardaRecibo(rec[q], n)
        /\ pago' = [pago EXCEPT ![q] = SinPago]
    BY <1>10 DEF AnulaPago, AcabaPago, Pon
  <2>2. n \in Objetos /\ n.id = rec[q].id  BY <1>1, <2>1, TiposDeObjeto
  <2>3. n.fac = rec[q].fac /\ n.imp = rec[q].imp  BY <1>1, <2>1, MismaFactura, MismoImporte
  <2> HIDE DEF n
  <2>4. pago[q].fase # "nuevo" /\ pago'[q].fase # "nuevo"  BY <1>6, <2>1 DEF SinPago
  <2> QED  BY <1>5, <2>1, <2>2, <2>3, <2>4
<1>11. CASE PagaExacto(q)
  <2> DEFINE n == Pagado(rec[q], rec[q].imp)
  <2>1. /\ rec[q].imp \in Importes(q) /\ recibo' = GuardaRecibo(rec[q], n)
        /\ pago' = [pago EXCEPT ![q] = SinPago]
    BY <1>11 DEF PagaExacto, AcabaPago, Pon
  <2>2. rec[q] # Nada /\ rec[q].imp \in Int /\ pago[q].fase # "nuevo"  BY <2>1, SePaga
  <2>3. n \in Objetos /\ n.id = rec[q].id  BY <1>1, <2>2, TiposDeObjeto
  <2>4. n.fac = rec[q].fac /\ n.imp = rec[q].imp  BY <1>1, <2>2, MismaFactura, MismoImporte
  <2> HIDE DEF n
  <2> QED  BY <1>5, <1>6, <2>1, <2>2, <2>3, <2>4
<1>12. CASE PagaDeMas(q)
  <2> DEFINE n == Pagado(rec[q], rec[q].imp)
  <2> PICK m \in Importes(q) :
        /\ recibo' = GuardaRecibo(rec[q], n)
        /\ \/ pago' = [pago EXCEPT ![q] = SinPago]
           \/ pago' = [pago EXCEPT ![q] = [fase |-> "multiple", queda |-> m - rec[q].imp]]
    BY <1>12 DEF PagaDeMas, AcabaPago, Pon
  <2>2. rec[q] # Nada /\ rec[q].imp \in Int /\ pago[q].fase # "nuevo"  BY SePaga
  <2>3. n \in Objetos /\ n.id = rec[q].id  BY <1>1, <2>2, TiposDeObjeto
  <2>4. n.fac = rec[q].fac /\ n.imp = rec[q].imp  BY <1>1, <2>2, MismaFactura, MismoImporte
  <2>5. recibo' = GuardaRecibo(rec[q], n)  OBVIOUS
  <2>6. pago'[q].fase # "nuevo"  BY <1>1, <1>6
  <2> HIDE DEF n
  <2> QED  BY <1>5, <2>2, <2>3, <2>4, <2>5, <2>6
<1>13. CASE PagaParte(q)
  <2> PICK m \in Importes(q) :
        /\ recibo' = GuardaRecibo(rec[q], Pagado(rec[q], m))
        /\ rec' = [rec EXCEPT ![q] = Pagado(rec[q], m)]
        /\ pago' = [pago EXCEPT ![q] = [fase |-> "nuevo", queda |-> rec[q].imp - m]]
    BY <1>13 DEF PagaParte, Pon
  <2> DEFINE n == Pagado(rec[q], m)
  <2>1. /\ rec[q] # Nada /\ rec[q].imp \in Int /\ m \in Int /\ pago[q].fase # "nuevo"
        /\ recibo[rec[q].id] # Nada
    BY SePaga
  <2>2. n \in Objetos /\ n.id = rec[q].id  BY <1>1, <2>1, TiposDeObjeto
  <2>3. n.fac = rec[q].fac /\ n.imp = m  BY <1>1, <2>1, MismaFactura, MismoImporte
  <2>4. recibo' = GuardaRecibo(rec[q], n) /\ rec'[q] = n  BY <1>1
  <2>5. pago'[q].fase = "nuevo" /\ pago'[q].queda = rec[q].imp - m  BY <1>1
  <2> HIDE DEF n
  <2>6. /\ Facturado(recibo, f) \in Int
        /\ Facturado(recibo', f) =
             Facturado(recibo, f) + (IF rec[q].fac = f THEN m - rec[q].imp ELSE 0)
    BY <1>4, <2>1, <2>2, <2>3, <2>4
  <2>7. /\ PorCrear(f) = 0
        /\ PorCrear(f)' = IF rec[q].fac = f THEN rec[q].imp - m ELSE 0
    BY <1>2, <2>1, <2>3, <2>4, <2>5
  <2> QED  BY <2>1, <2>6, <2>7
<1>14. CASE NuevoRecibo(q)
  <2> DEFINE k == ultimo + 1
             n == [rec[q] EXCEPT !.id = k, !.est = "pendiente",
                                 !.imp = pago[q].queda, !.resto = pago[q].queda]
  <2>1. /\ pago[q].fase = "nuevo" /\ ultimo < MaxRecibos
        /\ recibo' = [recibo EXCEPT ![k] = Fila(n)]
        /\ pago' = [pago EXCEPT ![q] = SinPago]
    BY <1>14 DEF NuevoRecibo, AcabaPago, Pon
  <2>2. rec[q] # Nada /\ EsObjeto(rec[q]) /\ ultimo \in Nat /\ k \in Ids /\ recibo[k] = Nada
    BY <1>1, <2>1, NumeroAssumption DEF TiposBd, Ids
  <2>3. n = Objeto(k, rec[q].fac, pago[q].queda, pago[q].queda, "pendiente", rec[q].fecha)
    BY <2>2, Renovar
  <2> HIDE DEF n, k
  <2>4. Fila(n).fac = rec[q].fac /\ Fila(n).imp = pago[q].queda
    BY <2>3 DEF Fila, Objeto
  <2>5. recibo'[k] = Fila(n) /\ recibo'[k] # Nada /\ \A i \in Ids \ {k} : recibo'[i] = recibo[i]
    <3>1. recibo'[k] = Fila(n) /\ \A i \in Ids \ {k} : recibo'[i] = recibo[i]
      BY <1>1, <2>1, <2>2
    <3>2. n \in Objetos
      <4>1. rec[q] \in Objetos /\ rec[q].fac \in Facturas /\ rec[q].fecha \in Nat
        BY <1>1, <2>2 DEF Objetos
      <4> QED  BY <1>1, <2>2, <2>3, <4>1 DEF Objeto, Objetos
    <3>3. Fila(n) # Nada  BY <3>2, TiposDeObjeto DEF NadaEsOtra
    <3> QED  BY <3>1, <3>3
  <2>6. /\ Importe(recibo, f)[k] = 0
        /\ Importe(recibo', f)[k] = IF rec[q].fac = f THEN pago[q].queda ELSE 0
    BY <2>2, <2>4, <2>5 DEF Importe
  <2>7. /\ Facturado(recibo, f) \in Int
        /\ Facturado(recibo', f) =
             Facturado(recibo, f) - Importe(recibo, f)[k] + Importe(recibo', f)[k]
    BY <1>1, <2>2, <2>5, FacturadoCambia
  <2>8. /\ PorCrear(f) = IF rec[q].fac = f THEN pago[q].queda ELSE 0
        /\ PorCrear(f)' = 0
    BY <1>2, <1>6, <2>1
  <2> QED  BY <1>1, <2>6, <2>7, <2>8
<1> QED
  BY <1>7, <1>8, <1>9, <1>10, <1>11, <1>12, <1>13, <1>14 DEF FormaRecibo

\* The invoice form changes the receipts only in steps that are its own.
LEMMA FormaSinRecibos ==
  ASSUME NEW q, Puestos = {q}, Tipos, FormaFactura(q), UNCHANGED forma
  PROVE  UNCHANGED <<recibo, rec, pago>>
<1>1. CASE NuevaFactura(q) \/ ModificaFactura(q) \/ PideBorrar(q) \/ Cancela(q)
             \/ GuardaFactura(q) \/ BorraFactura(q) \/ EmpiezaAGenerar(q) \/ AcabaDeBorrar(q)
  BY <1>1 DEF NuevaFactura, ModificaFactura, PideBorrar, Abre, Cancela, GuardaFactura,
     BorraFactura, EmpiezaAGenerar, AcabaDeBorrar, bd, cobro
<1>2. CASE QuitaRecibo(q)
  <2> PICK i \in quitar[q] : quitar' = [quitar EXCEPT ![q] = quitar[q] \ {i}]
    BY <1>2 DEF QuitaRecibo, Pon
  <2>1. quitar'[q] = quitar[q] \ {i}  BY DEF Tipos, TiposForma
  <2>2. quitar' = quitar  BY DEF forma
  <2> QED  BY <2>1, <2>2
<1>3. CASE GeneraRecibo(q)
  <2>1. paso[q] = "generar" /\ SiguientePlazo(q)  BY <1>3 DEF GeneraRecibo
  <2>2. paso' = paso /\ plazo' = plazo  BY DEF forma
  <2>3. plazo[q] \in Int  BY PlazosAssumption DEF Tipos, TiposForma, Plazos
  <2>4. paso' = [paso EXCEPT ![q] = "libre"] \/ plazo' = [plazo EXCEPT ![q] = plazo[q] + 1]
    BY <2>1 DEF SiguientePlazo, Cierra, Pon
  <2>5. paso'[q] = "libre" \/ plazo'[q] = plazo[q] + 1
    BY <2>4 DEF Tipos, TiposForma
  <2> QED  BY <2>1, <2>2, <2>3, <2>5
<1> QED  BY <1>1, <1>2, <1>3 DEF FormaFactura

\* Whatever is paid, in part, in excess or of several receipts at once, and whatever
\* payment is cancelled, the receipts of an invoice still add up to the same: what
\* pagarRecibo does not pay of one becomes another, unless its INSERT fails.
THEOREM UnPuestoConservaLoFacturado ==
  ASSUME NEW q, Puestos = {q}, ~Fallos, NadaEsOtra
  PROVE  Spec => LoFacturadoSeConserva
<1> DEFINE Paso ==
      UNCHANGED forma /\ (\A i \in Ids : recibo[i] # Nada => recibo'[i] # Nada) =>
       \A f \in Facturas :
         Facturado(recibo', f) + PorCrear(f)' = Facturado(recibo, f) + PorCrear(f)
<1>1. Init => PInv  BY InicioPInv
<1>2. PInv /\ [Next]_vars => PInv'  BY PasoPInv
<1>3. PInv /\ [Next]_vars => [Paso]_vars
  <2> SUFFICES ASSUME PInv, Next, UNCHANGED forma,
                      \A i \in Ids : recibo[i] # Nada => recibo'[i] # Nada, NEW f \in Facturas
               PROVE  Facturado(recibo', f) + PorCrear(f)' = Facturado(recibo, f) + PorCrear(f)
    OBVIOUS
  <2>1. Tipos /\ Tipos'  BY PasoTipos DEF PInv
  <2>2. CASE FormaRecibo(q)
    BY <2>1, <2>2, PasoFacturado
  <2>3. CASE FormaFactura(q)
    <3>1. recibo' = recibo /\ rec' = rec /\ pago' = pago  BY <2>1, <2>3, FormaSinRecibos
    <3>2. PorCrear(f) = PorHacer(pago, rec, f) /\ PorCrear(f)' = PorHacer(pago', rec', f)
      BY DEF PorCrear, PorHacer, MapThenSumSet, MapThenFoldSet
    <3> QED  BY <3>1, <3>2
  <2>4. ~Fallo(q)
    BY DEF Fallo, QuitarFalla, GenerarFalla, NuevoFalla, Muere
  <2> QED  BY <2>2, <2>3, <2>4 DEF Next
<1> QED
  BY <1>1, <1>2, <1>3, PTL DEF Spec, LoFacturadoSeConserva

-------------------------------------------------------------------------------
(* What genPagos leaves.                                                   *)

\* A number that divides has one quotient.
LEMMA UnCociente ==
  ASSUME NEW b \in Nat \ {0}, NEW s \in Int, NEW m \in 0 .. b - 1
  PROVE  (b * s + m) \div b = s
<1> DEFINE a == b * s + m
           d == a \div b
           e == a % b
<1>1. a \in Int /\ d \in Int /\ e \in 0 .. b - 1 /\ a = b * d + e
  OBVIOUS
<1>2. b * (s - d) = e - m
  BY <1>1
<1> HIDE DEF d, e, a
<1>3. s - d \in Int /\ e - m < b /\ m - e < b  BY <1>1
<1>4. CASE s - d >= 1
  <2>1. b * (s - d) >= b  BY <1>3, <1>4
  <2> QED  BY <1>2, <1>3, <2>1
<1>5. CASE s - d <= -1
  <2>1. b * (s - d) <= -b  BY <1>3, <1>5
  <2> QED  BY <1>1, <1>2, <1>3, <2>1
<1> QED  BY <1>1, <1>3, <1>4, <1>5 DEF d, a

\* An instalment that is whole cents is not rounded.
LEMMA RedondeaExacto ==
  ASSUME NEW r \in Int
  PROVE  Redondea(Plazos * r) = r
<1>1. Plazos \in Nat \ {0}  BY PlazosAssumption DEF Plazos
<1> DEFINE P == Plazos
           a == P * r
<1> HIDE DEF P
<1>2. P \in Nat \ {0}  BY <1>1 DEF P
<1>3. 2 * P \in Nat \ {0} /\ P \in 0 .. 2 * P - 1  BY <1>2
<1>4. (2 * P * r + P) \div (2 * P) = r  BY <1>3, UnCociente
<1>5. (2 * P * (-r) + P) \div (2 * P) = -r
  <2>1. -r \in Int  OBVIOUS
  <2> QED  BY <1>3, <2>1, UnCociente
<1>6. 2 * a + P = 2 * P * r + P /\ P - 2 * a = 2 * P * (-r) + P
  BY <1>2
<1>7. Redondea(a) = IF a >= 0 THEN (2 * a + P) \div (2 * P) ELSE -((P - 2 * a) \div (2 * P))
  BY DEF Redondea, P
<1> HIDE DEF a
<1>8. Redondea(a) = r  BY <1>4, <1>5, <1>6, <1>7
<1> QED  BY <1>8 DEF a, P

\* Instalments are due one after another.
LEMMA VenceDespues ==
  ASSUME NEW k \in Int, DiasEntrePlazos > 0
  PROVE  Vence(k) < Vence(k + 1) /\ Vence(k) \in Int
<1>1. DiasEntrePlazos \in Nat  BY PlazosAssumption
<1>2. Vence(k + 1) = Vence(k) + DiasEntrePlazos /\ Vence(k) \in Int  BY <1>1 DEF Vence
<1> QED  BY <1>1, <1>2

\* An amount that is divided exactly is so many times its part.
LEMMA PartesEnteras ==
  ASSUME NEW a \in Int, a % Plazos = 0
  PROVE  a = Plazos * (a \div Plazos) /\ a \div Plazos \in Int
<1>1. Plazos \in Nat \ {0}  BY PlazosAssumption DEF Plazos
<1> DEFINE P == Plazos
<1> HIDE DEF P
<1>2. P \in Nat \ {0} /\ a % P = 0  BY <1>1 DEF P
<1>3. a = P * (a \div P) /\ a \div P \in Int  BY <1>2
<1> QED  BY <1>3 DEF P

\* Without pending receipts, what is invoiced was collected.
LEMMA TodoCobrado ==
  ASSUME TiposBd, RecibosCuadrados, NEW f, DeEstado(f, "pendiente") = {}
  PROVE  Facturado(recibo, f) = Cobrado(recibo, f)
<1> DEFINE g == Importe(recibo, f)
           h == Pago(recibo, f)
<1>0. IsFiniteSet(Ids)  BY FS_Interval, NumeroAssumption DEF Ids
<1>1. recibo \in [Ids -> FilasRecibo \cup {Nada}]  BY DEF TiposBd
<1>2. ASSUME NEW i \in Ids  PROVE g[i] = h[i]
  <2>1. CASE recibo[i] # Nada /\ recibo[i].fac = f
    <3>1. recibo[i] \in FilasRecibo  BY <1>1, <2>1
    <3>2. recibo[i].est # "pendiente"  BY <2>1 DEF DeEstado, De
    <3>3. recibo[i].resto = 0  BY <2>1, <3>1, <3>2 DEF RecibosCuadrados, FilasRecibo
    <3> QED  BY <2>1, <3>1, <3>3 DEF Importe, Pago, FilasRecibo
  <2>2. CASE ~(recibo[i] # Nada /\ recibo[i].fac = f)
    BY <2>2 DEF Importe, Pago
  <2> QED  BY <2>1, <2>2
<1>3. /\ Facturado(recibo, f) = SumFunctionOnSet(g, Ids)
      /\ Cobrado(recibo, f) = SumFunctionOnSet(h, Ids)
  BY <1>1, FacturadoEs, CobradoEs
<1> HIDE DEF g, h
<1> QED  BY <1>0, <1>2, <1>3, SumSame

\* A new receipt, pending, adds its amount to what is invoiced and nothing to what was
\* collected.
LEMMA UnoMas ==
  ASSUME NEW rs, rs \in [Ids -> FilasRecibo \cup {Nada}], NEW k \in Ids, rs[k] = Nada,
         NEW r \in FilasRecibo, r # Nada, r.resto = r.imp
  PROVE  LET ss == [rs EXCEPT ![k] = r] IN
         /\ Cobrado(ss, r.fac) = Cobrado(rs, r.fac)
         /\ Facturado(rs, r.fac) \in Int
         /\ Facturado(ss, r.fac) = Facturado(rs, r.fac) + r.imp
<1> DEFINE ss == [rs EXCEPT ![k] = r]
           f == r.fac
           g == Pago(rs, f)
           h == Pago(ss, f)
<1>0. IsFiniteSet(Ids)  BY FS_Interval, NumeroAssumption DEF Ids
<1>1. ss \in [Ids -> FilasRecibo \cup {Nada}] /\ ss[k] = r /\ \A i \in Ids \ {k} : ss[i] = rs[i]
  OBVIOUS
<1>2. r.imp \in Int /\ r.resto \in Int  BY DEF FilasRecibo
<1> HIDE DEF ss, f
<1>3. \A i \in Ids : g[i] = h[i]
  <2>1. g[k] = 0  BY DEF Pago
  <2>2. h[k] = 0  BY <1>1, <1>2 DEF Pago
  <2>3. \A i \in Ids \ {k} : g[i] = h[i]  BY <1>1 DEF Pago
  <2> QED  BY <2>1, <2>2, <2>3
<1>4. Cobrado(rs, f) = SumFunctionOnSet(g, Ids) /\ Cobrado(ss, f) = SumFunctionOnSet(h, Ids)
  BY <1>1, CobradoEs
<1> HIDE DEF g, h
<1>5. Cobrado(ss, f) = Cobrado(rs, f)  BY <1>0, <1>3, <1>4, SumSame
<1>6. Importe(rs, f)[k] = 0 /\ Importe(ss, f)[k] = r.imp
  BY <1>1 DEF Importe, f
<1>7. /\ Facturado(rs, f) \in Int
      /\ Facturado(ss, f) = Facturado(rs, f) - Importe(rs, f)[k] + Importe(ss, f)[k]
  BY <1>1, FacturadoCambia
<1> QED  BY <1>2, <1>5, <1>6, <1>7 DEF ss, f

-------------------------------------------------------------------------------

\* The instalments are whole cents and none is taken for a paid one.
SinRedondeo(p) ==
  /\ fra[p].resto % Plazos = 0
  /\ \A i \in DeEstado(fra[p].fac, "pagado") : recibo[i].imp * Plazos # fra[p].resto

\* From the save to the last instalment: what is left to collect in the form follows
\* from its total, whatever is pending is about to be removed, and of what is left
\* plazo - 1 parts have been generated, due before the next.
Generando(p) ==
  LET o == fra[p] IN
  /\ paso[p] \in {"editando", "quitar", "generar"} => o.resto = Resto(o.total, o.cobros)
  /\ paso[p] = "quitar" => DeEstado(o.fac, "pendiente") \subseteq quitar[p]
  /\ paso[p] = "generar" => TipoFormaPago = "GeneraRecibos"
  /\ paso[p] = "generar" /\ SinRedondeo(p) =>
       /\ Facturado(recibo, o.fac) =
            Cobrado(recibo, o.fac) + (plazo[p] - 1) * (o.resto \div Plazos)
       /\ \A i \in DeEstado(o.fac, "pendiente") : recibo[i].fecha < Vence(plazo[p])

GInv == Tipos /\ IInv /\ \A p \in Puestos : Generando(p)

\* Dates tell the instalments apart.
FechasDistintas == NumPlazos > 1 => DiasEntrePlazos > 0

\* One instalment is generated: none that is stored is taken for it.
LEMMA GeneraUno ==
  ASSUME NEW q, Puestos = {q}, NadaEsOtra, GInv, GeneraRecibo(q), SinRedondeo(q)
  PROVE  LET o == fra[q]
             r == [fac |-> o.fac, imp |-> o.resto \div Plazos, resto |-> o.resto \div Plazos,
                   est |-> "pendiente", fecha |-> Vence(plazo[q])]
         IN  /\ ultimo + 1 \in Ids /\ recibo[ultimo + 1] = Nada /\ r \in FilasRecibo
             /\ recibo' = [recibo EXCEPT ![ultimo + 1] = r]
             /\ o.resto = Plazos * (o.resto \div Plazos) /\ o.resto \div Plazos \in Int
             /\ Cobrado(recibo', o.fac) = Cobrado(recibo, o.fac)
             /\ Facturado(recibo', o.fac) =
                  Cobrado(recibo, o.fac) + plazo[q] * (o.resto \div Plazos)
<1> DEFINE o == fra[q]
           m == o.resto \div Plazos
           r == [fac |-> o.fac, imp |-> m, resto |-> m, est |-> "pendiente",
                    fecha |-> Vence(plazo[q])]
<1>1. /\ paso[q] = "generar" /\ Generando(q) /\ TiposBd /\ o \in FormasLlenas
      /\ plazo[q] \in 1 .. Plazos /\ recibo \in [Ids -> FilasRecibo \cup {Nada}]
  BY DEF GeneraRecibo, GInv, Tipos, TiposBd, TiposForma
<1>2. o.fac \in Facturas /\ o.resto \in Int  BY <1>1 DEF FormasLlenas
<1>3. o.resto = Plazos * m /\ m \in Int  BY <1>2, PartesEnteras DEF SinRedondeo
<1>4. Redondea(o.resto) = m  BY <1>3, RedondeaExacto
<1>5. Plazos \in Nat \ {0} /\ plazo[q] \in Nat  BY <1>1, PlazosAssumption DEF Plazos
<1>6. Vence(plazo[q]) \in Nat  BY <1>1, <1>5, PlazosAssumption DEF Vence
<1>7. ~YaExiste(o, plazo[q])
  <2> SUFFICES ASSUME NEW i \in De(o.fac), recibo[i].fecha = Vence(plazo[q]),
                      recibo[i].imp * Plazos = o.resto
               PROVE  FALSE
    BY DEF YaExiste
  <2>1. recibo[i] \in FilasRecibo  BY <1>1 DEF De
  <2>2. CASE recibo[i].est = "pagado"
    BY <2>2 DEF SinRedondeo, DeEstado
  <2>3. CASE recibo[i].est = "pendiente"
    <3>1. recibo[i].fecha < Vence(plazo[q])  BY <1>1, <2>3 DEF Generando, DeEstado
    <3> QED  BY <1>6, <3>1
  <2> QED  BY <2>1, <2>2, <2>3 DEF FilasRecibo
<1> HIDE DEF m
<1>8. ultimo < MaxRecibos /\ recibo' = [recibo EXCEPT ![ultimo + 1] = r]
  BY <1>4, <1>7 DEF GeneraRecibo
<1>9. ultimo + 1 \in Ids /\ recibo[ultimo + 1] = Nada
  BY <1>1, <1>8, NumeroAssumption DEF TiposBd, Ids
<1>10. r \in FilasRecibo /\ r.fac = o.fac /\ r.imp = m /\ r.resto = m
  BY <1>2, <1>3, <1>6 DEF FilasRecibo
<1>11. r # Nada  BY <1>10 DEF NadaEsOtra
<1> HIDE DEF r
<1>12. /\ Cobrado(recibo', o.fac) = Cobrado(recibo, o.fac)
       /\ Facturado(recibo, o.fac) \in Int
       /\ Facturado(recibo', o.fac) = Facturado(recibo, o.fac) + m
  BY <1>1, <1>8, <1>9, <1>10, <1>11, UnoMas
<1>13. Facturado(recibo, o.fac) = Cobrado(recibo, o.fac) + (plazo[q] - 1) * m
  BY <1>1 DEF Generando, m
<1>14. Cobrado(recibo, o.fac) \in Int  BY <1>1, CobradoEntero
<1>15. Facturado(recibo', o.fac) = Cobrado(recibo, o.fac) + plazo[q] * m
  <2>1. (plazo[q] - 1) * m + m = plazo[q] * m  BY <1>3, <1>5
  <2>2. (plazo[q] - 1) * m \in Int /\ plazo[q] * m \in Int  BY <1>3, <1>5
  <2> QED  BY <1>3, <1>12, <1>13, <1>14, <2>1, <2>2
<1> QED  BY <1>3, <1>8, <1>9, <1>10, <1>12, <1>15 DEF m, r

\* genPagos goes on to the next instalment.
LEMMA GeneraOtro ==
  ASSUME NEW q, Puestos = {q}, NadaEsOtra, FechasDistintas, GInv, GeneraRecibo(q),
         plazo[q] # Plazos
  PROVE  Generando(q)'
<1>1. /\ paso[q] = "generar" /\ Generando(q) /\ TiposBd
      /\ plazo[q] \in 1 .. Plazos /\ recibo \in [Ids -> FilasRecibo \cup {Nada}]
  BY DEF GeneraRecibo, GInv, Tipos, TiposBd, TiposForma
<1>2. /\ UNCHANGED <<fra, paso, quitar>> /\ plazo'[q] = plazo[q] + 1
  BY <1>1 DEF GeneraRecibo, SiguientePlazo, Pon, GInv, Tipos, TiposForma
<1>3. SinRedondeo(q)' => SinRedondeo(q)
  <2>1. UNCHANGED recibo \/ \E r : recibo' = [recibo EXCEPT ![ultimo + 1] = r]
    BY DEF GeneraRecibo
  <2>2. ultimo \in Nat /\ \A i \in Ids : recibo[i] # Nada => i <= ultimo
    BY <1>1, NumeroAssumption DEF TiposBd
  <2>3. \A i \in Ids : recibo[i] # Nada => recibo'[i] = recibo[i]
    BY <1>1, <2>1, <2>2
  <2> QED  BY <1>2, <2>3 DEF SinRedondeo, DeEstado, De
<1>4. CASE ~SinRedondeo(q)'
  BY <1>1, <1>2, <1>4 DEF Generando
<1>5. CASE SinRedondeo(q)'
  <2> DEFINE o == fra[q]
             m == o.resto \div Plazos
             r == [fac |-> o.fac, imp |-> m, resto |-> m, est |-> "pendiente",
                      fecha |-> Vence(plazo[q])]
  <2>1. /\ ultimo + 1 \in Ids /\ recibo[ultimo + 1] = Nada
        /\ recibo' = [recibo EXCEPT ![ultimo + 1] = r] /\ m \in Int
        /\ Cobrado(recibo', o.fac) = Cobrado(recibo, o.fac)
        /\ Facturado(recibo', o.fac) = Cobrado(recibo, o.fac) + plazo[q] * m
    BY <1>3, <1>5, GeneraUno
  <2>2. r.fecha = Vence(plazo[q])  OBVIOUS
  <2> HIDE DEF r, m
  <2>3. Vence(plazo[q]) < Vence(plazo'[q]) /\ Vence(plazo[q]) \in Int /\ Vence(plazo'[q]) \in Int
    <3>1. plazo[q] \in Int /\ plazo[q] + 1 \in Int /\ NumPlazos > 1
      BY <1>1, PlazosAssumption DEF Plazos
    <3>2. DiasEntrePlazos > 0  BY <3>1 DEF FechasDistintas
    <3> QED  BY <1>2, <3>1, <3>2, VenceDespues
  <2>4. plazo'[q] - 1 = plazo[q]
    BY <1>1, <1>2, PlazosAssumption DEF Plazos
  <2>5. ASSUME NEW i \in Ids, recibo'[i] # Nada, recibo'[i].fac = o.fac,
            recibo'[i].est = "pendiente"
        PROVE  recibo'[i].fecha < Vence(plazo'[q])
    <3>1. CASE i = ultimo + 1
      <4>1. recibo'[i] = r  BY <1>1, <2>1, <3>1
      <4> QED  BY <2>2, <2>3, <4>1
    <3>2. CASE i # ultimo + 1
      <4>1. recibo'[i] = recibo[i]  BY <1>1, <2>1, <3>2
      <4>2. i \in DeEstado(o.fac, "pendiente")  BY <2>5, <4>1 DEF DeEstado, De
      <4>3. recibo[i].fecha < Vence(plazo[q]) /\ recibo[i].fecha \in Int
        <5>1. recibo[i] \in FilasRecibo  BY <1>1, <2>5, <4>1
        <5>2. recibo[i].fecha \in Nat  BY <5>1 DEF FilasRecibo
        <5> QED  BY <1>1, <1>3, <1>5, <4>2, <5>2 DEF Generando
      <4> QED  BY <2>3, <4>1, <4>3
    <3> QED  BY <3>1, <3>2
  <2>6. Facturado(recibo', o.fac) = Cobrado(recibo', o.fac) + (plazo'[q] - 1) * m
    BY <2>1, <2>4
  <2>7. fra'[q] = o /\ paso'[q] = "generar"  BY <1>1, <1>2
  <2>8. o.resto = Resto(o.total, o.cobros) /\ TipoFormaPago = "GeneraRecibos"
    BY <1>1 DEF Generando
  <2>9. \A i \in DeEstado(o.fac, "pendiente")' : recibo'[i].fecha < Vence(plazo'[q])
    BY <1>2, <2>5 DEF DeEstado, De
  <2>10. Vence(plazo'[q]) = Vence(plazo[q])'  BY DEF Vence
  <2> QED  BY <1>2, <2>6, <2>7, <2>8, <2>9, <2>10 DEF Generando, m
<1> QED  BY <1>4, <1>5

\* The invoice form begins an edition, or asks before a removal.
LEMMA AbreGenerando ==
  ASSUME NEW q, Puestos = {q}, GInv, NEW o,
         NEW sig \in {"editando", "confirmando"}, Abre(q, o, sig),
         sig = "editando" => o.resto = Resto(o.total, o.cobros)
  PROVE  Generando(q)'
<1>1. fra'[q] = o /\ paso'[q] = sig
  BY DEF Abre, Pon, GInv, Tipos, TiposForma
<1> QED  BY <1>1 DEF Generando

\* The invoice form goes back to browsing.
LEMMA CierraGenerando ==
  ASSUME NEW q, Puestos = {q}, GInv, Cierra(q)
  PROVE  Generando(q)'
<1>1. paso'[q] = "libre"  BY DEF Cierra, Pon, GInv, Tipos, TiposForma
<1> QED  BY <1>1 DEF Generando

\* Every step of the invoice form.
LEMMA PasoGenerando ==
  ASSUME NEW q, Puestos = {q}, NadaEsOtra, FechasDistintas, GInv, FormaFactura(q)
  PROVE  Generando(q)'
<1>1. CASE NuevaFactura(q)
  <2> PICK f \in Facturas, t \in Totales :
        Abre(q, Forma(f, TRUE, [total |-> 0, cobros |-> 0, resto |-> 0], t, 0, Resto(t, 0)),
                "editando")
    BY <1>1 DEF NuevaFactura, Forma
  <2> DEFINE o == Forma(f, TRUE, [total |-> 0, cobros |-> 0, resto |-> 0], t, 0, Resto(t, 0))
  <2>1. o.resto = Resto(o.total, o.cobros)  BY DEF Forma
  <2> HIDE DEF o
  <2> QED  BY <2>1, AbreGenerando DEF o
<1>2. CASE ModificaFactura(q)
  <2> PICK f \in Facturas, t \in Totales :
        Abre(q, Forma(f, FALSE, factura[f], t, factura[f].cobros, Resto(t, factura[f].cobros)),
            "editando")
    BY <1>2 DEF ModificaFactura, Forma
  <2> DEFINE o == Forma(f, FALSE, factura[f], t, factura[f].cobros, Resto(t, factura[f].cobros))
  <2>1. o.resto = Resto(o.total, o.cobros) /\ Abre(q, o, "editando")  BY DEF Forma
  <2> HIDE DEF o
  <2> QED  BY <2>1, AbreGenerando
<1>3. CASE PideBorrar(q)
  <2> PICK o : Abre(q, o, "confirmando")  BY <1>3 DEF PideBorrar
  <2> QED  BY AbreGenerando
<1>4. CASE Cancela(q) \/ AcabaDeBorrar(q)
  BY <1>4, CierraGenerando DEF Cancela, AcabaDeBorrar
<1>5. CASE GuardaFactura(q)
  <2> DEFINE o == fra[q]
  <2>1. /\ paso[q] = "editando" /\ o \in FormasLlenas /\ Generando(q)
        /\ fra'[q] = [o EXCEPT !.nueva = FALSE, !.leida = Campos(o)]
        /\ paso'[q] = "quitar" /\ quitar'[q] = DeEstado(o.fac, "pendiente")
        /\ recibo' = recibo
    BY <1>5, NadaAssumption DEF GuardaFactura, Pon, GInv, Tipos, TiposForma
  <2>2. EsForma(o)  BY <2>1 DEF EsForma, Forma, FormasLlenas
  <2>3. fra'[q] = Forma(o.fac, FALSE, Campos(o), o.total, o.cobros, o.resto)
    BY <2>1, <2>2, Guardada
  <2>4. /\ fra'[q].fac = o.fac /\ fra'[q].total = o.total /\ fra'[q].cobros = o.cobros
        /\ fra'[q].resto = o.resto
    BY <2>3 DEF Forma
  <2>5. o.resto = Resto(o.total, o.cobros)  BY <2>1 DEF Generando
  <2> QED  BY <2>1, <2>4, <2>5 DEF Generando, DeEstado, De
<1>6. CASE BorraFactura(q)
  <2>1. paso'[q] = "borrar"  BY <1>6 DEF BorraFactura, Pon, GInv, Tipos, TiposForma
  <2> QED  BY <2>1 DEF Generando
<1>7. CASE QuitaRecibo(q)
  <2> PICK i \in quitar[q] :
        /\ quitar' = [quitar EXCEPT ![q] = quitar[q] \ {i}]
        /\ recibo[i] = Nada => recibo' = recibo
        /\ recibo[i] # Nada => recibo' = [recibo EXCEPT ![i] = Nada]
    BY <1>7 DEF QuitaRecibo, Pon
  <2>1. /\ UNCHANGED <<fra, paso>> /\ paso[q] \in {"quitar", "borrar"} /\ Generando(q)
        /\ quitar'[q] = quitar[q] \ {i} /\ i \in Ids
        /\ recibo = [j \in Ids |-> recibo[j]]
    BY <1>7 DEF QuitaRecibo, GInv, Tipos, TiposForma, TiposBd
  <2>2. recibo'[i] = Nada /\ \A j \in Ids \ {i} : recibo'[j] = recibo[j]
    BY <2>1
  <2> QED  BY <2>1, <2>2 DEF Generando, DeEstado, De
<1>8. CASE EmpiezaAGenerar(q)
  <2>1. /\ paso[q] = "quitar" /\ quitar[q] = {} /\ UNCHANGED recibo /\ Generando(q)
        /\ TiposBd /\ RecibosCuadrados
    BY <1>8 DEF EmpiezaAGenerar, bd, GInv, Tipos, IInv
  <2>2. CASE Cierra(q)
    BY <2>2, CierraGenerando
  <2>3. CASE ~Cierra(q)
    <3>1. /\ GeneraAlgo(fra[q]) /\ paso'[q] = "generar" /\ plazo'[q] = 1 /\ UNCHANGED fra
      BY <1>8, <2>3 DEF EmpiezaAGenerar, Pon, GInv, Tipos, TiposForma
    <3>2. DeEstado(fra[q].fac, "pendiente") = {}  BY <2>1 DEF Generando
    <3>3. Facturado(recibo, fra[q].fac) = Cobrado(recibo, fra[q].fac)
      BY <2>1, <3>2, TodoCobrado
    <3>4. Cobrado(recibo, fra[q].fac) \in Int
      BY <2>1, CobradoEntero DEF TiposBd
    <3>5. fra[q].resto \in Int
      BY <2>1 DEF GInv, Tipos, TiposForma, FormasLlenas
    <3>6. SinRedondeo(q)' =>
            Facturado(recibo, fra[q].fac) =
              Cobrado(recibo, fra[q].fac) + (1 - 1) * (fra[q].resto \div Plazos)
      <4>1. SinRedondeo(q)' => fra[q].resto \div Plazos \in Int
        BY <3>1, <3>5, PartesEnteras DEF SinRedondeo
      <4> QED  BY <3>3, <3>4, <4>1
    <3>7. TipoFormaPago = "GeneraRecibos"  BY <3>1 DEF GeneraAlgo
    <3> QED
      BY <2>1, <3>1, <3>2, <3>6, <3>7 DEF Generando, DeEstado, De
  <2> QED  BY <2>2, <2>3
<1>9. CASE GeneraRecibo(q)
  <2>1. CASE plazo[q] = Plazos
    BY <1>9, <2>1, CierraGenerando DEF GeneraRecibo, SiguientePlazo
  <2>2. CASE plazo[q] # Plazos
    BY <1>9, <2>2, GeneraOtro
  <2> QED  BY <2>1, <2>2
<1> QED
  BY <1>1, <1>2, <1>3, <1>4, <1>5, <1>6, <1>7, <1>8, <1>9 DEF FormaFactura

\* Every step keeps the invariant, if nothing fails: a receipt that genPagos could not
\* insert is missing.
LEMMA PasoGInv ==
  ASSUME NEW q, Puestos = {q}, ~Fallos, NadaEsOtra, FechasDistintas
  PROVE  GInv /\ [Next]_vars => GInv'
<1> SUFFICES ASSUME GInv, [Next]_vars  PROVE GInv'
  OBVIOUS
<1>1. Tipos' /\ IInv'  BY PasoTipos, PasoIInv DEF GInv
<1> SUFFICES Generando(q)'  BY <1>1 DEF GInv
<1>2. Generando(q)  BY DEF GInv
<1>3. CASE UNCHANGED vars
  BY <1>2, <1>3 DEF vars, bd, forma, cobro, Generando, SinRedondeo, DeEstado, De, Vence
<1>4. CASE FormaFactura(q)
  BY <1>4, PasoGenerando
<1>5. CASE FormaRecibo(q)
  <2>1. UNCHANGED forma
    BY <1>5 DEF FormaRecibo, VeRecibo, CierraRecibos, AceptaRecibo, BorraRecibo, EmpiezaAPagar,
       CancelaPago, VuelveAEmpezar, PagaExacto, PagaParte, NuevoRecibo, PagaDeMas, AnulaPago
  <2>2. Atiende(q) \/ pago[q].fase # "no"
    BY <1>5 DEF FormaRecibo, VeRecibo, CierraRecibos, AceptaRecibo, BorraRecibo, EmpiezaAPagar,
       CancelaPago, VuelveAEmpezar, PagaExacto, PagaParte, NuevoRecibo, PagaDeMas, AnulaPago,
       Importes
  <2>3. paso[q] \in {"libre", "editando"}
    BY <2>2 DEF Atiende, GInv, IInv, CobroEnCurso
  <2> QED  BY <1>2, <2>1, <2>3 DEF Generando, forma
<1>6. ~Fallo(q)
  BY DEF Fallo, QuitarFalla, GenerarFalla, NuevoFalla, Muere
<1> QED  BY <1>3, <1>4, <1>5, <1>6 DEF Next

\* The invariant holds initially.
LEMMA InicioGInv ==
  ASSUME NEW q, Puestos = {q}
  PROVE  Init => GInv
BY InicioTipos, InicioIInv DEF GInv, Generando, Init

\* After an invoice is saved with its COBROS up to date, its receipts, the paid ones and
\* those that genPagos has just generated, add up to its total: nothing of what delPagos
\* removed is missing and nothing is there twice, for any number of instalments.
THEOREM UnPuestoFacturaElResto ==
  ASSUME NEW q, Puestos = {q}, ~Fallos, NadaEsOtra, FechasDistintas
  PROVE  Spec => SeFacturaElResto
<1> DEFINE Paso == \A p \in Puestos : LET o == fra[p] IN
       /\ AcabaDeGenerar(p)
       /\ o.cobros = Cobrado(recibo, o.fac) /\ o.resto % Plazos = 0
       /\ \A i \in DeEstado(o.fac, "pagado") : recibo[i].imp * Plazos # o.resto
       => Facturado(recibo', o.fac) = o.total
<1>1. Init => GInv  BY InicioGInv
<1>2. GInv /\ [Next]_vars => GInv'  BY PasoGInv
<1>3. GInv /\ [Next]_vars => [Paso]_vars
  <2> DEFINE o == fra[q]
  <2> SUFFICES ASSUME GInv, AcabaDeGenerar(q), o.cobros = Cobrado(recibo, o.fac), SinRedondeo(q)
               PROVE  Facturado(recibo', o.fac) = o.total
    BY DEF SinRedondeo
  <2>1. GeneraRecibo(q) /\ plazo[q] = Plazos  BY DEF AcabaDeGenerar
  <2>2. /\ o.resto = Plazos * (o.resto \div Plazos)
        /\ Facturado(recibo', o.fac) = Cobrado(recibo, o.fac) + plazo[q] * (o.resto \div Plazos)
    BY <2>1, GeneraUno
  <2>3. Facturado(recibo', o.fac) = o.cobros + o.resto  BY <2>1, <2>2
  <2>4. paso[q] = "generar" /\ Generando(q)  BY <2>1 DEF GeneraRecibo, GInv
  <2>5. o.resto = o.total - o.cobros  BY <2>4 DEF Generando, Resto
  <2>6. o.total \in Int /\ o.cobros \in Int
    BY <2>4 DEF GInv, Tipos, TiposForma, FormasLlenas
  <2> QED  BY <2>3, <2>5, <2>6
<1> QED
  BY <1>1, <1>2, <1>3, PTL DEF Spec, SeFacturaElResto
===============================================================================
