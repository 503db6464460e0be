----------------------------- MODULE Socias_proofs -----------------------------
(***************************************************************************)
(* What is kept of the receipts of members, for any number of windows,     *)
(* members and receipts.                                                   *)
(*                                                                         *)
(* A batch charges a member once.  The batch looks for the receipt of the  *)
(* member before it makes one; what must not happen is that a receipt      *)
(* turns into another's.  A window writes the whole row it has in memory,  *)
(* as it read it, and so the invariant says that this row and the stored   *)
(* one are of the same member and the same batch (MismoCobro), for which   *)
(* the id of a receipt that was removed must never be given again          *)
(* (SinEstrenar).                                                          *)
(*                                                                         *)
(* A member owes what its receipts say.  The totals are right when no      *)
(* window works; while one does, what they are short of is what the first  *)
(* step that it has left will add (EnCurso).  The behaviour of a removal   *)
(* does not add all of it, and so the order of the list is part of the     *)
(* invariant (EnOrden): the sum of the payments comes right after it.      *)
(***************************************************************************)
EXTENDS Socias, Sumas_proofs, SequenceTheorems, FiniteSetTheorems, TLAPS

\* A row of COBRO, whatever its fields hold.
EsFila(r) == r = Fila(r.m, r.importe, r.resto, r.remesa)

\* The receipts stored are rows, and windows show rows of receipts that were given an id.
Formas ==
  /\ ultimoCobro \in 0 .. MaxCobros
  /\ cobro = [i \in IdsCobro |-> cobro[i]]
  /\ \A i \in IdsCobro : cobro[i] # Ninguna => EsFila(cobro[i])
  /\ ventana = [w \in Ventanas |-> ventana[w]]
  /\ \A w \in Ventanas :
       ventana[w] # Ninguna =>
         /\ ventana[w] = [id |-> ventana[w].id, fila |-> ventana[w].fila]
         /\ ventana[w].id \in 1 .. ultimoCobro
         /\ EsFila(ventana[w].fila)

\* No receipt is stored with an id that was not given yet.
SinEstrenar == \A i \in IdsCobro : i > ultimoCobro => cobro[i] = Ninguna

\* What a window shows is the receipt stored, if it still is.
MismoCobro ==
  \A w \in Ventanas :
    ventana[w] # Ninguna /\ cobro[ventana[w].id] # Ninguna =>
      /\ cobro[ventana[w].id].m = ventana[w].fila.m
      /\ cobro[ventana[w].id].remesa = ventana[w].fila.remesa

\* UnCobroPorRemesa, without counting.
AlMasUno ==
  \A i, j \in IdsCobro :
    /\ cobro[i] # Ninguna /\ cobro[j] # Ninguna
    /\ cobro[i].remesa /\ cobro[j].remesa /\ cobro[i].m = cobro[j].m
    => i = j

IInv == Formas /\ SinEstrenar /\ MismoCobro /\ AlMasUno

-------------------------------------------------------------------------------
(* The steps.                                                                *)

\* A row that owes another amount is one of the same member and batch.
LEMMA RestoCambiado ==
  ASSUME NEW r, EsFila(r), NEW v
  PROVE  LET f == [r EXCEPT !.resto = v]
         IN  EsFila(f) /\ f.m = r.m /\ f.remesa = r.remesa
  <1>1. PICK m, i, s, b : r = [m |-> m, importe |-> i, resto |-> s, remesa |-> b]
    BY DEF EsFila, Fila
  <1>2. [r EXCEPT !.resto = v] = [m |-> m, importe |-> i, resto |-> v, remesa |-> b]
    BY <1>1
  <1> QED  BY <1>1, <1>2 DEF EsFila, Fila

\* There are no receipts and no windows.
LEMMA InitIInv == InitSocias => IInv
  BY MaxCobrosAssumption
     DEF InitSocias, IInv, Formas, SinEstrenar, MismoCobro, AlMasUno, IdsCobro

\* A step that leaves the receipts and the windows alone.
LEMMA SinTocar ==
  ASSUME IInv, UNCHANGED <<cobro, ultimoCobro, ventana>>
  PROVE  IInv'
  BY DEF IInv, Formas, SinEstrenar, MismoCobro, AlMasUno, EsFila, Fila, IdsCobro

\* A step that removes a receipt, or none, after which the windows show what they did, or nothing.
LEMMA Quitar ==
  ASSUME IInv, NEW i, cobro' = cobro \/ cobro' = [cobro EXCEPT ![i] = Ninguna],
         UNCHANGED ultimoCobro,
         ventana' = ventana \/ \E w \in Ventanas : ventana' = [ventana EXCEPT ![w] = Ninguna]
  PROVE  IInv'
  <1>1. \A j \in IdsCobro : cobro'[j] = Ninguna \/ cobro'[j] = cobro[j]
    BY DEF IInv, Formas
  <1>2. \A w \in Ventanas : ventana'[w] = Ninguna \/ ventana'[w] = ventana[w]
    BY DEF IInv, Formas
  <1>3. /\ cobro' = [j \in IdsCobro |-> cobro'[j]]
        /\ ventana' = [w \in Ventanas |-> ventana'[w]]
    BY DEF IInv, Formas
  <1>4. Formas'  BY <1>1, <1>2, <1>3 DEF IInv, Formas
  <1>5. SinEstrenar'  BY <1>1 DEF IInv, SinEstrenar
  <1>6. MismoCobro'
    BY <1>1, <1>2, MaxCobrosAssumption DEF IInv, Formas, MismoCobro, IdsCobro
  <1>7. AlMasUno'  BY <1>1 DEF IInv, AlMasUno
  <1> QED  BY <1>4, <1>5, <1>6, <1>7 DEF IInv

\* A step that stores a new receipt: if it is of a batch, its member had none.
LEMMA Nuevo ==
  ASSUME IInv, NEW r, EsFila(r), ultimoCobro < MaxCobros, ultimoCobro' = ultimoCobro + 1,
         cobro' = [cobro EXCEPT ![ultimoCobro'] = r], UNCHANGED ventana,
         r.remesa => \A i \in IdsCobro : cobro[i] # Ninguna /\ cobro[i].m = r.m => ~cobro[i].remesa
  PROVE  IInv'
  <1>1. /\ ultimoCobro' \in IdsCobro /\ ultimoCobro' \in 0 .. MaxCobros
        /\ cobro'[ultimoCobro'] = r
        /\ \A i \in IdsCobro : i # ultimoCobro' => cobro'[i] = cobro[i]
        /\ cobro' = [i \in IdsCobro |-> cobro'[i]]
    <2>1. ultimoCobro' \in IdsCobro /\ ultimoCobro' \in 0 .. MaxCobros
      BY MaxCobrosAssumption DEF IInv, Formas, IdsCobro
    <2> QED  BY <2>1 DEF IInv, Formas
  <1>2. Formas'
    BY <1>1, MaxCobrosAssumption DEF IInv, Formas, IdsCobro
  <1>3. SinEstrenar'
    BY <1>1, MaxCobrosAssumption DEF IInv, Formas, SinEstrenar, IdsCobro
  <1>4. \A w \in Ventanas : ventana[w] # Ninguna => /\ ventana[w].id \in IdsCobro
                                                    /\ ventana[w].id # ultimoCobro'
    BY MaxCobrosAssumption DEF IInv, Formas, IdsCobro
  <1>5. MismoCobro'  BY <1>1, <1>4 DEF IInv, MismoCobro
  <1>6. AlMasUno'  BY <1>1 DEF IInv, AlMasUno
  <1> QED  BY <1>2, <1>3, <1>5, <1>6 DEF IInv

\* A step in which window w writes the receipt it shows, of the same member and batch.
LEMMA Escribir ==
  ASSUME IInv, NEW w \in Ventanas, NEW f, ventana[w] # Ninguna, EsFila(f),
         f.m = ventana[w].fila.m, f.remesa = ventana[w].fila.remesa,
         cobro' = [cobro EXCEPT ![ventana[w].id] = IF @ = Ninguna THEN Ninguna ELSE f],
         ventana' = [ventana EXCEPT ![w] = [id |-> ventana[w].id, fila |-> f]],
         UNCHANGED ultimoCobro
  PROVE  IInv'
  <1> DEFINE k == ventana[w].id
  <1>1. k \in IdsCobro /\ k \in 1 .. ultimoCobro
    BY MaxCobrosAssumption DEF IInv, Formas, IdsCobro
  <1>2. /\ cobro[k] = Ninguna => cobro' = cobro
        /\ cobro[k] # Ninguna => cobro'[k] = f /\ cobro[k].m = f.m /\ cobro[k].remesa = f.remesa
        /\ \A i \in IdsCobro : i # k => cobro'[i] = cobro[i]
        /\ cobro' = [i \in IdsCobro |-> cobro'[i]]
    BY <1>1 DEF IInv, Formas, MismoCobro
  <1>3. /\ ventana'[w] = [id |-> k, fila |-> f]
        /\ \A v \in Ventanas : v # w => ventana'[v] = ventana[v]
        /\ ventana' = [v \in Ventanas |-> ventana'[v]]
    BY DEF IInv, Formas
  <1>4. \A v \in Ventanas : ventana[v] # Ninguna => ventana[v].id \in IdsCobro
    BY MaxCobrosAssumption DEF IInv, Formas, IdsCobro
  <1>5. Formas'  BY <1>1, <1>2, <1>3 DEF IInv, Formas
  <1>6. SinEstrenar'  BY <1>1, <1>2 DEF IInv, SinEstrenar
  <1>7. MismoCobro'  BY <1>1, <1>2, <1>3, <1>4 DEF IInv, MismoCobro
  <1>8. AlMasUno'  BY <1>1, <1>2 DEF IInv, AlMasUno
  <1> QED  BY <1>5, <1>6, <1>7, <1>8 DEF IInv

\* A step in which window w reads a receipt.
LEMMA Leer ==
  ASSUME IInv, NEW w \in Ventanas, NEW i \in IdsCobro, cobro[i] # Ninguna,
         ventana' = [ventana EXCEPT ![w] = [id |-> i, fila |-> cobro[i]]],
         UNCHANGED <<cobro, ultimoCobro>>
  PROVE  IInv'
  <1>1. i \in 1 .. ultimoCobro
    BY MaxCobrosAssumption DEF IInv, Formas, SinEstrenar, IdsCobro
  <1>2. /\ ventana'[w] = [id |-> i, fila |-> cobro[i]]
        /\ \A v \in Ventanas : v # w => ventana'[v] = ventana[v]
        /\ ventana' = [v \in Ventanas |-> ventana'[v]]
    BY DEF IInv, Formas
  <1>3. Formas'  BY <1>1, <1>2 DEF IInv, Formas
  <1>4. SinEstrenar' /\ AlMasUno'  BY DEF IInv, SinEstrenar, AlMasUno, IdsCobro
  <1>5. MismoCobro'  BY <1>2 DEF IInv, MismoCobro
  <1> QED  BY <1>3, <1>4, <1>5 DEF IInv

-------------------------------------------------------------------------------
(* The invariant.                                                            *)

\* What an operation of the user does.
LEMMA OperacionIInv ==
  ASSUME IInv, NEW w \in Ventanas, Operacion(w)
  PROVE  IInv'
  <1> USE DEF Cambiado, tablas
  <1>1. CASE VeCobro(w)  BY <1>1, Leer DEF VeCobro
  <1>2. CASE CierraVentana(w)
    <2>1. ventana' = [ventana EXCEPT ![w] = Ninguna] /\ UNCHANGED <<cobro, ultimoCobro>>
      BY <1>2 DEF CierraVentana
    <2> QED  BY <2>1, Quitar
  <1>3. CASE NuevoCobro(w)
    <2>1. PICK m \in Miembros, n \in Cargos :
            cobro' = [cobro EXCEPT ![ultimoCobro'] = Fila(m, n, n, FALSE)]
      BY <1>3 DEF NuevoCobro
    <2>2. EsFila(Fila(m, n, n, FALSE)) /\ ~Fila(m, n, n, FALSE).remesa  BY DEF EsFila, Fila
    <2> QED  BY <1>3, <2>1, <2>2, Nuevo DEF NuevoCobro
  <1>4. CASE ModificaCobro(w)
    <2> DEFINE f(n) == Fila(ventana[w].fila.m, n, n, ventana[w].fila.remesa)
    <2>1. PICK n \in Cargos : Escribe(w, f(n))  BY <1>4 DEF ModificaCobro
    <2>2. EsFila(f(n)) /\ f(n).m = ventana[w].fila.m /\ f(n).remesa = ventana[w].fila.remesa
      BY DEF EsFila, Fila
    <2> QED  BY <1>4, <2>1, <2>2, Escribir DEF ModificaCobro, Escribe
  <1>5. CASE PagaCobro(w)
    <2> DEFINE k == ventana[w].id
               f == [cobro[k] EXCEPT !.resto = 0]
    <2>1. ventana[w] # Ninguna /\ cobro[k] # Ninguna /\ k \in IdsCobro
      BY <1>5, MaxCobrosAssumption DEF PagaCobro, IInv, Formas, IdsCobro
    <2>2. EsFila(f) /\ f.m = ventana[w].fila.m /\ f.remesa = ventana[w].fila.remesa
      <3>1. EsFila(cobro[k])  BY <2>1 DEF IInv, Formas
      <3>2. /\ cobro[k].m = ventana[w].fila.m
            /\ cobro[k].remesa = ventana[w].fila.remesa
        BY <2>1 DEF IInv, MismoCobro
      <3> QED  BY <3>1, <3>2, RestoCambiado
    <2>3. cobro' = [cobro EXCEPT ![k] = IF @ = Ninguna THEN Ninguna ELSE f]
      BY <1>5, <2>1 DEF PagaCobro
    <2> QED  BY <1>5, <2>1, <2>2, <2>3, Escribir DEF PagaCobro
  <1>6. CASE AnulaCobro(w)
    <2> DEFINE f == [ventana[w].fila EXCEPT !.resto = ventana[w].fila.importe]
    <2>2. EsFila(f) /\ f.m = ventana[w].fila.m /\ f.remesa = ventana[w].fila.remesa
      <3>1. EsFila(ventana[w].fila)  BY <1>6 DEF AnulaCobro, IInv, Formas
      <3> QED  BY <3>1, RestoCambiado
    <2> QED  BY <1>6, <2>2, Escribir DEF AnulaCobro, Escribe
  <1>7. CASE BorraCobro(w)  BY <1>7, Quitar DEF BorraCobro
  <1>8. CASE GeneraRecibos(w)  BY <1>8, SinTocar DEF GeneraRecibos
  <1>9. CASE GuardaMiembro(w)  BY <1>9, SinTocar DEF GuardaMiembro
  <1> QED
    BY <1>1, <1>2, <1>3, <1>4, <1>5, <1>6, <1>7, <1>8, <1>9 DEF Operacion

\* What a statement does.
LEMMA PasoIInv ==
  ASSUME IInv, NEW w \in Ventanas, Paso(w)
  PROVE  IInv'
  <1>1. CASE GuardaTotales(w)  BY <1>1, SinTocar DEF GuardaTotales
  <1>2. CASE QuitaTotales(w)  BY <1>2, SinTocar DEF QuitaTotales
  <1>3. CASE ActPagos(w)  BY <1>3, SinTocar DEF ActPagos
  <1>4. CASE SueltaCobro(w)  BY <1>4, SinTocar DEF SueltaCobro, tablas
  <1>5. CASE QuitaCobro(w)
    <2> DEFINE i == Head(pasos[w]).id
    <2>1. CASE cobro[i] = Ninguna  BY <1>5, <2>1, SinTocar DEF QuitaCobro
    <2>2. CASE cobro[i] # Ninguna  BY <1>5, <2>2, Quitar DEF QuitaCobro
    <2> QED  BY <2>1, <2>2
  <1>6. CASE Genera(w)
    <2> DEFINE m == Head(pasos[w]).m
               r == Fila(m, Cuota, Cuota, TRUE)
               tiene == (\E i \in DeMiembro(m) : cobro[i].remesa) \/ ultimoCobro = MaxCobros
    <2>1. CASE tiene  BY <1>6, <2>1, SinTocar DEF Genera
    <2>2. CASE ~tiene
      <3>1. ultimoCobro < MaxCobros
        <4>1. ultimoCobro # MaxCobros  BY <2>2
        <4> QED  BY <4>1, MaxCobrosAssumption DEF IInv, Formas
      <3>2. EsFila(r) /\ r.m = m  BY DEF EsFila, Fila
      <3>3. \A i \in IdsCobro : cobro[i] # Ninguna /\ cobro[i].m = m => ~cobro[i].remesa
        BY <2>2 DEF DeMiembro
      <3>4. /\ ultimoCobro' = ultimoCobro + 1 /\ UNCHANGED ventana
            /\ cobro' = [cobro EXCEPT ![ultimoCobro'] = r]
        BY <1>6, <2>2 DEF Genera
      <3> HIDE DEF r, m
      <3> QED  BY <3>1, <3>2, <3>3, <3>4, Nuevo
    <2> QED  BY <2>1, <2>2
  <1> QED  BY <1>1, <1>2, <1>3, <1>4, <1>5, <1>6 DEF Paso

\* A set of receipts that are all one and the same has one at most.
LEMMA AlMasUnoCuenta == AlMasUno => UnCobroPorRemesa
  <1> SUFFICES ASSUME AlMasUno, NEW m \in Miembros
               PROVE  Cardinality({i \in DeMiembro(m) : cobro[i].remesa}) <= 1
    BY DEF UnCobroPorRemesa
  <1> DEFINE S == {i \in DeMiembro(m) : cobro[i].remesa}
  <1>1. \A i, j \in S : i = j  BY DEF AlMasUno, DeMiembro
  <1>2. CASE S = {}  BY <1>2, FS_EmptySet
  <1>3. CASE S # {}
    <2>1. PICK i : i \in S  BY <1>3
    <2>2. S = {i}  BY <1>1, <2>1
    <2>3. Cardinality(S) = 1  BY <2>2, FS_Singleton
    <2> QED  BY <2>3
  <1> QED  BY <1>2, <1>3

\* A batch charges a member once, whatever windows read, change, pay, cancel and remove
\* in the meantime, and however many batches are generated: FrmGenerarRecibos::accept and
\* every path that writes a COBRO row.
THEOREM OnePerBatch == SpecSocias => []UnCobroPorRemesa
  <1>1. InitSocias => IInv  BY InitIInv
  <1>2. IInv /\ [NextSocias]_varSocias => IInv'
    <2>1. CASE NextSocias  BY <2>1, OperacionIInv, PasoIInv DEF NextSocias
    <2>2. CASE UNCHANGED varSocias  BY <2>2, SinTocar DEF varSocias, tablas
    <2> QED  BY <2>1, <2>2
  <1>3. IInv => UnCobroPorRemesa  BY AlMasUnoCuenta DEF IInv
  <1> QED  BY <1>1, <1>2, <1>3, PTL DEF SpecSocias

-------------------------------------------------------------------------------
(* What a member was charged and has paid.                                   *)

\* What the receipts rs charge a member, and what it has paid of them.
Importes(rs, m) ==
  MapThenSumSet(LAMBDA i : rs[i].importe, {i \in IdsCobro : rs[i] # Ninguna /\ rs[i].m = m})
Cobros(rs, m) ==
  MapThenSumSet(LAMBDA i : rs[i].importe - rs[i].resto,
                {i \in IdsCobro : rs[i] # Ninguna /\ rs[i].m = m})

\* What may be left of an operation.
Pasos ==
  [hace : {"guarda"}, m : Miembros, original : Partes, nuevo : Partes]
    \cup [hace : {"borra"}, m : Miembros, original : Partes]
    \cup [hace : {"quita"}, id : IdsCobro] \cup [hace : {"genera"}, m : Miembros]
    \cup {ActPagosPaso, SueltaPaso}

\* In which order: one behaviour at most, the sum of the payments, then receipts to remove or
\* to make.  A sum follows the behaviour of a removal.
Tranquilo(s) == \A n \in DOMAIN s : s[n].hace \in {"suelta", "quita", "genera"}
TrasPagos(s) == s # <<>> /\ Head(s).hace = "pagos" /\ Tranquilo(Tail(s))
EnOrden(s) ==
  \/ Tranquilo(s) \/ TrasPagos(s)
  \/ s # <<>> /\ Head(s).hace = "guarda" /\ (Tranquilo(Tail(s)) \/ TrasPagos(Tail(s)))
  \/ s # <<>> /\ Head(s).hace = "borra" /\ TrasPagos(Tail(s))
TiposPasos ==
  pasos \in [Ventanas -> Seq(Pasos)] /\ \A w \in Ventanas : EnOrden(pasos[w])

\* One window works.
UnaTrabaja == \A v, w \in Ventanas : pasos[v] # <<>> /\ pasos[w] # <<>> => v = w

\* The accounts of a member who owes what its receipts say.
RestoBien(m) == m \notin Ignoran => miembro[m].resto = miembro[m].importe - miembro[m].pagos
Bien(m) ==
  /\ miembro[m].importe = Importes(cobro, m)
  /\ RestoBien(m)
  /\ m \notin Ignoran => miembro[m].pagos = Cobros(cobro, m)

\* Its accounts when the receipt is stored and its behaviour has not run.
PorGuardar(p, m) ==
  /\ miembro[m].importe - p.original.importe + p.nuevo.importe = Importes(cobro, m)
  /\ RestoBien(m)
  /\ m \notin Ignoran =>
       miembro[m].pagos - (p.original.importe - p.original.resto) + (p.nuevo.importe - p.nuevo.resto)
         = Cobros(cobro, m)

\* The behaviour of a removal leaves PAGOS alone: the sum that follows puts it right.
PorBorrar(p, m) ==
  /\ miembro[m].importe - p.original.importe = Importes(cobro, m)
  /\ RestoBien(m)

\* Before that sum the object held is the member as stored.
PorSumar(o, m) ==
  /\ miembro[m].importe = Importes(cobro, m)
  /\ RestoBien(m)
  /\ o.tot = miembro[m]

\* What the accounts of a member are short of while window w works.
EnCurso(w, m) ==
  LET p == Head(pasos[w])  o == titular[w] IN
  IF Hace(w, "guarda") /\ p.m = m THEN PorGuardar(p, m)
  ELSE IF Hace(w, "borra") /\ p.m = m THEN PorBorrar(p, m)
  ELSE IF Hace(w, "pagos") /\ o.m = m THEN PorSumar(o, m)
  ELSE Bien(m)

\* The accounts of all to whom nothing happened.
LasCuentas ==
  \A m \in Miembros \ sospechosa :
    /\ Libre => Bien(m)
    /\ \A w \in Ventanas : pasos[w] # <<>> => EnCurso(w, m)

\* The invariant of the totals; IInv says of the receipts what it needs.
EnRegla == TypeOKSocias /\ TiposPasos /\ UnaTrabaja /\ LasCuentas
TotInv  == IInv /\ EnRegla

\* What each receipt adds to what a member was charged, and to what it has paid.
Importe(rs, m) == [i \in IdsCobro |-> IF rs[i] # Ninguna /\ rs[i].m = m THEN rs[i].importe ELSE 0]
Pago(rs, m) ==
  [i \in IdsCobro |-> IF rs[i] # Ninguna /\ rs[i].m = m THEN rs[i].importe - rs[i].resto ELSE 0]

\* What a member was charged, as a sum over all receipts.
LEMMA ImportesEs ==
  ASSUME NEW rs, rs \in [IdsCobro -> FilasCobro \cup {Ninguna}], NEW m
  PROVE  Importes(rs, m) = SumFunctionOnSet(Importe(rs, m), IdsCobro)
<1> DEFINE S == {i \in IdsCobro : rs[i] # Ninguna /\ rs[i].m = m}
           h == Importe(rs, m)
<1>0. IsFiniteSet(IdsCobro)  BY FS_Interval, MaxCobrosAssumption DEF IdsCobro
<1>1. S \subseteq IdsCobro /\ IsFiniteSet(S)  BY <1>0, FS_Subset
<1>2. \A i \in IdsCobro : h[i] \in Int  BY DEF FilasCobro, Importe
<1>3. Importes(rs, m) = (CHOOSE it : it =
         [s \in SUBSET S |-> IF s = {} THEN 0 ELSE rs[Pick(s)].importe + it[s \ {Pick(s)}]])[S]
  BY DEF Importes, MapThenSumSet, MapThenFoldSet, Pick
<1>4. \A s \in SUBSET S : s # {} => h[Pick(s)] = rs[Pick(s)].importe
  BY DEF Pick, Importe
<1>5. \A i \in IdsCobro \ S : h[i] = 0  BY DEF Importe
<1> HIDE DEF S, h
<1> DEFINE F(it) == [s \in SUBSET S |->
             IF s = {} THEN 0 ELSE rs[Pick(s)].importe + it[s \ {Pick(s)}]]
           suma == CHOOSE it : it = F(it)
<1>7. ASSUME NEW it
      PROVE  F(it) = [s \in SUBSET S |-> IF s = {} THEN 0 ELSE h[Pick(s)] + it[s \ {Pick(s)}]]
  BY <1>4
<1>8. \A it : it = F(it) <=> Adds(h, S, it)  BY <1>7 DEF Adds
<1>9. Adds(h, S, suma)
  <2>1. PICK it : it = F(it)  BY <1>1, <1>8, AddsExists
  <2> HIDE DEF F
  <2>2. suma = F(suma)  BY <2>1
  <2> QED  BY <1>8, <2>2
<1>10. Importes(rs, m) = suma[S]  BY <1>3
<1>11. Importes(rs, m) = SumFunctionOnSet(h, S)  BY <1>1, <1>9, <1>10, SumAdds
<1>12. Importes(rs, m) = SumFunctionOnSet(h, IdsCobro)
  BY <1>0, <1>1, <1>2, <1>5, <1>11, SumOfPart
<1> QED  BY <1>12 DEF h

\* What a member has paid, as a sum over all receipts.
LEMMA CobrosEs ==
  ASSUME NEW rs, rs \in [IdsCobro -> FilasCobro \cup {Ninguna}], NEW m
  PROVE  Cobros(rs, m) = SumFunctionOnSet(Pago(rs, m), IdsCobro)
<1> DEFINE S == {i \in IdsCobro : rs[i] # Ninguna /\ rs[i].m = m}
           h == Pago(rs, m)
<1>0. IsFiniteSet(IdsCobro)  BY FS_Interval, MaxCobrosAssumption DEF IdsCobro
<1>1. S \subseteq IdsCobro /\ IsFiniteSet(S)  BY <1>0, FS_Subset
<1>2. \A i \in IdsCobro : h[i] \in Int  BY DEF FilasCobro, Pago
<1>3. Cobros(rs, m) = (CHOOSE it : it =
         [s \in SUBSET S |-> IF s = {} THEN 0
            ELSE (rs[Pick(s)].importe - rs[Pick(s)].resto) + it[s \ {Pick(s)}]])[S]
  BY DEF Cobros, MapThenSumSet, MapThenFoldSet, Pick
<1>4. \A s \in SUBSET S : s # {} => h[Pick(s)] = rs[Pick(s)].importe - rs[Pick(s)].resto
  BY DEF Pick, Pago
<1>5. \A i \in IdsCobro \ S : h[i] = 0  BY DEF Pago
<1> HIDE DEF S, h
<1> DEFINE F(it) == [s \in SUBSET S |->
             IF s = {} THEN 0
             ELSE (rs[Pick(s)].importe - rs[Pick(s)].resto) + it[s \ {Pick(s)}]]
           suma == CHOOSE it : it = F(it)
<1>7. ASSUME NEW it
      PROVE  F(it) = [s \in SUBSET S |-> IF s = {} THEN 0 ELSE h[Pick(s)] + it[s \ {Pick(s)}]]
  BY <1>4
<1>8. \A it : it = F(it) <=> Adds(h, S, it)  BY <1>7 DEF Adds
<1>9. Adds(h, S, suma)
  <2>1. PICK it : it = F(it)  BY <1>1, <1>8, AddsExists
  <2> HIDE DEF F
  <2>2. suma = F(suma)  BY <2>1
  <2> QED  BY <1>8, <2>2
<1>10. Cobros(rs, m) = suma[S]  BY <1>3
<1>11. Cobros(rs, m) = SumFunctionOnSet(h, S)  BY <1>1, <1>9, <1>10, SumAdds
<1>12. Cobros(rs, m) = SumFunctionOnSet(h, IdsCobro)
  BY <1>0, <1>1, <1>2, <1>5, <1>11, SumOfPart
<1> QED  BY <1>12 DEF h

\* The sums are integers; when one row is written they change by what it changed.
LEMMA SumasTras ==
  ASSUME NEW rs \in [IdsCobro -> FilasCobro \cup {Ninguna}],
         NEW ss \in [IdsCobro -> FilasCobro \cup {Ninguna}],
         NEW k \in IdsCobro, NEW m, \A i \in IdsCobro \ {k} : ss[i] = rs[i]
  PROVE  /\ Importes(rs, m) \in Int /\ Cobros(rs, m) \in Int
         /\ Importe(rs, m)[k] \in Int /\ Pago(rs, m)[k] \in Int
         /\ Importes(ss, m) = Importes(rs, m) - Importe(rs, m)[k] + Importe(ss, m)[k]
         /\ Cobros(ss, m) = Cobros(rs, m) - Pago(rs, m)[k] + Pago(ss, m)[k]
<1>0. IsFiniteSet(IdsCobro)  BY FS_Interval, MaxCobrosAssumption DEF IdsCobro
<1>1. /\ \A i \in IdsCobro : Importe(rs, m)[i] \in Int /\ Importe(ss, m)[i] \in Int
      /\ \A i \in IdsCobro : Pago(rs, m)[i] \in Int /\ Pago(ss, m)[i] \in Int
  BY DEF Importe, Pago, FilasCobro
<1>2. /\ \A i \in IdsCobro \ {k} : Importe(rs, m)[i] = Importe(ss, m)[i]
      /\ \A i \in IdsCobro \ {k} : Pago(rs, m)[i] = Pago(ss, m)[i]
  BY DEF Importe, Pago
<1>3. /\ Importes(rs, m) = SumFunctionOnSet(Importe(rs, m), IdsCobro)
      /\ Importes(ss, m) = SumFunctionOnSet(Importe(ss, m), IdsCobro)
      /\ Cobros(rs, m) = SumFunctionOnSet(Pago(rs, m), IdsCobro)
      /\ Cobros(ss, m) = SumFunctionOnSet(Pago(ss, m), IdsCobro)
  BY ImportesEs, CobrosEs
<1>4. Importes(rs, m) \in Int /\ Cobros(rs, m) \in Int
  BY <1>0, <1>1, <1>3, SumInt
<1>5. Importes(ss, m) = Importes(rs, m) - Importe(rs, m)[k] + Importe(ss, m)[k]
  BY <1>0, <1>1, <1>2, <1>3, SumChange
<1>6. Cobros(ss, m) = Cobros(rs, m) - Pago(rs, m)[k] + Pago(ss, m)[k]
  BY <1>0, <1>1, <1>2, <1>3, SumChange
<1> QED  BY <1>1, <1>4, <1>5, <1>6

\* The same, of the receipts stored.
LEMMA SumasDelCobro ==
  ASSUME NEW k \in IdsCobro, NEW r \in FilasCobro \cup {Ninguna}, NEW m,
         cobro \in [IdsCobro -> FilasCobro \cup {Ninguna}], cobro' = [cobro EXCEPT ![k] = r]
  PROVE  /\ Importes(cobro, m) \in Int /\ Cobros(cobro, m) \in Int
         /\ Importe(cobro, m)[k] \in Int /\ Pago(cobro, m)[k] \in Int
         /\ Importes(cobro', m) = Importes(cobro, m) - Importe(cobro, m)[k]
                                  + IF r # Ninguna /\ r.m = m THEN r.importe ELSE 0
         /\ Cobros(cobro', m) = Cobros(cobro, m) - Pago(cobro, m)[k]
                                + IF r # Ninguna /\ r.m = m THEN r.importe - r.resto ELSE 0
<1> DEFINE ss == cobro'
<1>1. /\ ss \in [IdsCobro -> FilasCobro \cup {Ninguna}] /\ ss[k] = r
      /\ \A i \in IdsCobro \ {k} : ss[i] = cobro[i]
  OBVIOUS
<1> HIDE DEF ss
<1>2. /\ Importes(cobro, m) \in Int /\ Cobros(cobro, m) \in Int
      /\ Importe(cobro, m)[k] \in Int /\ Pago(cobro, m)[k] \in Int
      /\ Importes(ss, m) = Importes(cobro, m) - Importe(cobro, m)[k] + Importe(ss, m)[k]
      /\ Cobros(ss, m) = Cobros(cobro, m) - Pago(cobro, m)[k] + Pago(ss, m)[k]
  BY <1>1, SumasTras
<1>3. /\ Importe(ss, m)[k] = IF r # Ninguna /\ r.m = m THEN r.importe ELSE 0
      /\ Pago(ss, m)[k] = IF r # Ninguna /\ r.m = m THEN r.importe - r.resto ELSE 0
  BY <1>1 DEF Importe, Pago
<1> QED  BY <1>2, <1>3 DEF ss

-------------------------------------------------------------------------------
(* Lists of steps. *)

\* Each step that is put in a list is one, and of its kind.
LEMMA TiposDePasos ==
  /\ \A m \in Miembros, o \in Partes, n \in Partes :
       AlGuardarPaso(m, o, n) \in Pasos /\ AlGuardarPaso(m, o, n).hace = "guarda"
  /\ \A m \in Miembros, o \in Partes :
       AlBorrarPaso(m, o) \in Pasos /\ AlBorrarPaso(m, o).hace = "borra"
  /\ \A i \in IdsCobro : QuitaPaso(i) \in Pasos /\ QuitaPaso(i).hace = "quita"
  /\ \A m \in Miembros : GeneraPaso(m) \in Pasos /\ GeneraPaso(m).hace = "genera"
  /\ ActPagosPaso \in Pasos /\ ActPagosPaso.hace = "pagos"
  /\ SueltaPaso \in Pasos /\ SueltaPaso.hace = "suelta"
  BY DEF Pasos, AlGuardarPaso, AlBorrarPaso, QuitaPaso, GeneraPaso, ActPagosPaso, SueltaPaso

\* What is left after a step.
LEMMA Quedan ==
  ASSUME NEW s \in Seq(Pasos), EnOrden(s), s # <<>>
  PROVE  /\ Head(s) \in Pasos /\ Tail(s) \in Seq(Pasos) /\ <<>> \o Tail(s) = Tail(s)
         /\ Head(s).hace = "guarda" => Tranquilo(Tail(s)) \/ TrasPagos(Tail(s))
         /\ Head(s).hace = "borra" => TrasPagos(Tail(s))
         /\ Head(s).hace \notin {"guarda", "borra"} => Tranquilo(Tail(s))
         /\ EnOrden(Tail(s))
<1>1. /\ Head(s) \in Pasos /\ Tail(s) \in Seq(Pasos) /\ <<>> \o Tail(s) = Tail(s)
      /\ Len(Tail(s)) = Len(s) - 1 /\ Len(s) \in Nat /\ Len(s) > 0
      /\ \A n \in 1 .. Len(Tail(s)) : Tail(s)[n] = s[n + 1]
      /\ Head(s) = s[1] /\ DOMAIN s = 1 .. Len(s) /\ DOMAIN Tail(s) = 1 .. Len(Tail(s))
  OBVIOUS
<1>2. Tranquilo(s) => Tranquilo(Tail(s)) /\ Head(s).hace \in {"suelta", "quita", "genera"}
  BY <1>1 DEF Tranquilo
<1>3. Tranquilo(Tail(s)) \/ TrasPagos(Tail(s))
  BY <1>2 DEF EnOrden, TrasPagos
<1> QED  BY <1>1, <1>2, <1>3 DEF EnOrden, TrasPagos

\* A step before others that are in order.
LEMMA Delante ==
  ASSUME NEW t \in Seq(Pasos), NEW p \in Pasos
  PROVE  /\ <<p>> \o t \in Seq(Pasos) /\ <<p>> \o t # <<>>
         /\ Head(<<p>> \o t) = p /\ Tail(<<p>> \o t) = t
         /\ Tranquilo(t) /\ p.hace \in {"suelta", "quita", "genera"} => Tranquilo(<<p>> \o t)
         /\ Tranquilo(t) /\ p.hace = "pagos" => TrasPagos(<<p>> \o t)
         /\ (Tranquilo(t) \/ TrasPagos(t)) /\ p.hace = "guarda" => EnOrden(<<p>> \o t)
         /\ TrasPagos(t) /\ p.hace = "borra" => EnOrden(<<p>> \o t)
<1> DEFINE s == <<p>> \o t
<1>1. /\ s \in Seq(Pasos) /\ s # <<>> /\ Head(s) = p
      /\ Len(s) = Len(t) + 1 /\ s[1] = p /\ \A n \in 1 .. Len(t) : s[n + 1] = t[n]
  OBVIOUS
<1>2. Tail(s) = t
  <2>1. /\ Tail(s) \in Seq(Pasos) /\ Len(Tail(s)) = Len(t)
        /\ \A n \in 1 .. Len(t) : Tail(s)[n] = t[n]
    <3> HIDE DEF s
    <3>1. Tail(s) \in Seq(Pasos) /\ Len(Tail(s)) = Len(s) - 1 /\ Len(t) \in Nat
      BY <1>1, HeadTailProperties
    <3>2. \A n \in 1 .. Len(Tail(s)) : Tail(s)[n] = s[n + 1]
      BY <1>1, HeadTailProperties
    <3> QED  BY <1>1, <3>1, <3>2
  <2> HIDE DEF s
  <2> QED  BY <2>1, SeqEqual
<1>3. Tranquilo(t) /\ p.hace \in {"suelta", "quita", "genera"} => Tranquilo(s)
  <2> HIDE DEF s
  <2>1. DOMAIN s = 1 .. Len(s) /\ DOMAIN t = 1 .. Len(t) /\ Len(t) \in Nat  BY <1>1
  <2>2. \A n \in 1 .. Len(s) : n = 1 \/ (n - 1 \in 1 .. Len(t) /\ s[n] = t[n - 1])
    BY <1>1, <2>1
  <2> QED  BY <1>1, <2>1, <2>2 DEF Tranquilo
<1> HIDE DEF s
<1>4. Tranquilo(t) /\ p.hace = "pagos" => TrasPagos(s)  BY <1>1, <1>2 DEF TrasPagos
<1>5. (Tranquilo(t) \/ TrasPagos(t)) /\ p.hace = "guarda" => EnOrden(s)
  BY <1>1, <1>2 DEF EnOrden
<1>6. TrasPagos(t) /\ p.hace = "borra" => EnOrden(s)  BY <1>1, <1>2 DEF EnOrden
<1> QED  BY <1>1, <1>2, <1>3, <1>4, <1>5, <1>6 DEF s

\* Two and three steps, one after the other.
LEMMA Juntas ==
  ASSUME NEW x \in Pasos, NEW y \in Pasos, NEW z \in Pasos
  PROVE  /\ <<x, y>> = <<x>> \o <<y>>
         /\ <<x, y, z>> = <<x>> \o (<<y>> \o <<z>>)
         /\ <<x, y, z>> = (<<x>> \o <<y>>) \o <<z>>
<1>1. <<x, y>> = <<x>> \o <<y>>
  <2> DEFINE s == <<x>>
             t == <<y>>
             u == <<x, y>>
  <2>1. /\ s \in Seq(Pasos) /\ t \in Seq(Pasos) /\ u \in Seq(Pasos)
        /\ Len(s) = 1 /\ Len(t) = 1 /\ Len(u) = 2
        /\ s[1] = x /\ t[1] = y /\ u[1] = x /\ u[2] = y
    OBVIOUS
  <2> HIDE DEF s, t, u
  <2>2. s \o t \in Seq(Pasos) /\ Len(s \o t) = 2 /\ (s \o t)[1] = x /\ (s \o t)[2] = y
    BY <2>1, ConcatProperties
  <2>3. u = s \o t
    <3>1. \A i \in 1 .. Len(u) : i = 1 \/ i = 2  BY <2>1
    <3> QED  BY <2>1, <2>2, <3>1, SeqEqual
  <2> QED  BY <2>3 DEF s, t, u
<1>2. <<x, y, z>> = (<<x>> \o <<y>>) \o <<z>>
  <2> DEFINE s == <<x, y>>
             t == <<z>>
             u == <<x, y, z>>
  <2>1. /\ s \in Seq(Pasos) /\ t \in Seq(Pasos) /\ u \in Seq(Pasos)
        /\ Len(s) = 2 /\ Len(t) = 1 /\ Len(u) = 3
        /\ s[1] = x /\ s[2] = y /\ t[1] = z /\ u[1] = x /\ u[2] = y /\ u[3] = z
    OBVIOUS
  <2> HIDE DEF s, t, u
  <2>2. /\ s \o t \in Seq(Pasos) /\ Len(s \o t) = 3
        /\ (s \o t)[1] = x /\ (s \o t)[2] = y /\ (s \o t)[3] = z
    <3>1. /\ s \o t \in Seq(Pasos) /\ Len(s \o t) = Len(s) + Len(t)
          /\ \A i \in 1 .. Len(s) + Len(t) :
               (s \o t)[i] = IF i <= Len(s) THEN s[i] ELSE t[i - Len(s)]
      BY <2>1, ConcatProperties
    <3>2. 1 \in 1 .. 3 /\ 2 \in 1 .. 3 /\ 3 \in 1 .. 3 /\ 3 - 2 = 1  OBVIOUS
    <3>3. (s \o t)[1] = s[1] /\ (s \o t)[2] = s[2] /\ (s \o t)[3] = t[1]
      BY <2>1, <3>1, <3>2
    <3> QED  BY <2>1, <3>1, <3>3
  <2>3. u = s \o t
    <3>1. \A i \in 1 .. Len(u) : i = 1 \/ i = 2 \/ i = 3  BY <2>1
    <3> QED  BY <2>1, <2>2, <3>1, SeqEqual
  <2> QED  BY <1>1, <2>3 DEF s, t, u
<1>3. <<x>> \in Seq(Pasos) /\ <<y>> \in Seq(Pasos) /\ <<z>> \in Seq(Pasos)  OBVIOUS
<1> QED  BY <1>1, <1>2, <1>3, ConcatAssociative

\* The lists that the operations begin with, and the statements put before the rest.
LEMMA Listas ==
  ASSUME NEW t \in Seq(Pasos), Tranquilo(t), NEW p \in Pasos, NEW s,
         \/ p.hace = "guarda" /\ t = <<>> /\
            s \in {<<p>>, <<p, ActPagosPaso>>, <<p, ActPagosPaso, SueltaPaso>>}
         \/ p.hace = "guarda" /\ s = <<p, ActPagosPaso, SueltaPaso>> \o t
         \/ p.hace = "borra" /\ t = <<>> /\ s = <<p, ActPagosPaso>>
         \/ p.hace = "borra" /\ s = <<p, ActPagosPaso>> \o t
  PROVE  s \in Seq(Pasos) /\ s # <<>> /\ EnOrden(s) /\ Head(s) = p
<1> DEFINE a == <<SueltaPaso>> \o t
           b == <<ActPagosPaso>> \o t
           c == <<ActPagosPaso>> \o a
<1>1. /\ SueltaPaso \in Pasos /\ SueltaPaso.hace = "suelta"
      /\ ActPagosPaso \in Pasos /\ ActPagosPaso.hace = "pagos"
  BY TiposDePasos
<1>2. /\ t = <<>> => <<p>> = <<p>> \o t
      /\ t = <<>> => <<p, ActPagosPaso>> = <<p>> \o b
      /\ t = <<>> => <<p, ActPagosPaso, SueltaPaso>> = <<p>> \o c
      /\ <<p, ActPagosPaso, SueltaPaso>> \o t = <<p>> \o c
      /\ <<p, ActPagosPaso>> \o t = <<p>> \o b
  <2> DEFINE x == ActPagosPaso
             y == SueltaPaso
  <2>1. x \in Pasos /\ y \in Pasos  BY <1>1
  <2> HIDE DEF x, y
  <2>2. /\ <<p, x>> = <<p>> \o <<x>> /\ <<p, x, y>> = <<p>> \o (<<x>> \o <<y>>)
        /\ <<p, x, y>> = (<<p>> \o <<x>>) \o <<y>>
    BY <2>1, Juntas
  <2>3. /\ (<<p>> \o <<x>>) \o t = <<p>> \o (<<x>> \o t)
        /\ ((<<p>> \o <<x>>) \o <<y>>) \o t = <<p>> \o (<<x>> \o (<<y>> \o t))
    <3>1. <<p>> \in Seq(Pasos) /\ <<x>> \in Seq(Pasos) /\ <<y>> \in Seq(Pasos)
          /\ <<p>> \o <<x>> \in Seq(Pasos) /\ <<y>> \o t \in Seq(Pasos)
      BY <2>1
    <3> QED  BY <3>1, ConcatAssociative
  <2>4. t = <<>> => /\ <<p>> = <<p>> \o t /\ <<x>> = <<x>> \o t /\ <<y>> = <<y>> \o t
    BY <2>1, ConcatEmptySeq
  <2>5. /\ t = <<>> => <<p>> = <<p>> \o t
        /\ t = <<>> => <<p, x>> = <<p>> \o (<<x>> \o t)
        /\ t = <<>> => <<p, x, y>> = <<p>> \o (<<x>> \o (<<y>> \o t))
        /\ <<p, x, y>> \o t = <<p>> \o (<<x>> \o (<<y>> \o t))
        /\ <<p, x>> \o t = <<p>> \o (<<x>> \o t)
    BY <2>2, <2>3, <2>4
  <2> QED  BY <2>5 DEF x, y
<1> HIDE DEF a, b, c
<1>3. a \in Seq(Pasos) /\ Tranquilo(a)  BY <1>1, Delante DEF a
<1>4. b \in Seq(Pasos) /\ TrasPagos(b) /\ c \in Seq(Pasos) /\ TrasPagos(c)
  BY <1>1, <1>3, Delante DEF b, c
<1>5. s \in {<<p>> \o t, <<p>> \o b, <<p>> \o c} /\ (p.hace = "borra" => s = <<p>> \o b)
  BY <1>2
<1>6. p.hace = "guarda" => EnOrden(<<p>> \o t) /\ EnOrden(<<p>> \o b) /\ EnOrden(<<p>> \o c)
  BY <1>4, Delante
<1>7. p.hace = "borra" => EnOrden(<<p>> \o b)  BY <1>4, Delante
<1>8. \A u \in {t, b, c} : <<p>> \o u \in Seq(Pasos) /\ <<p>> \o u # <<>> /\ Head(<<p>> \o u) = p
  BY <1>4, Delante
<1> QED  BY <1>5, <1>6, <1>7, <1>8

-------------------------------------------------------------------------------
(* The member object. *)

\* actRestoFactura: RESTOTOTAL follows from the other two.
LEMMA TrasActResto ==
  ASSUME NEW m, NEW t \in Totales
  PROVE  /\ ActResto(m, t) \in Totales
         /\ ActResto(m, t).importe = t.importe /\ ActResto(m, t).pagos = t.pagos
         /\ m \notin Ignoran => ActResto(m, t).resto = t.importe - t.pagos
  BY DEF ActResto, Totales

\* CobroBehavior::save.
LEMMA TrasGuardar ==
  ASSUME NEW m, NEW t \in Totales, NEW o \in Partes, NEW n \in Partes
  PROVE  LET u == AlGuardar(m, t, o, n) IN
         /\ u \in Totales /\ u.importe = t.importe - o.importe + n.importe
         /\ u.pagos = u.importe - (t.resto - o.resto + n.resto)
         /\ m \notin Ignoran => u.resto = u.importe - u.pagos
<1> DEFINE i == t.importe - o.importe + n.importe
           r == t.resto - o.resto + n.resto
           v == [importe |-> i, resto |-> r, pagos |-> i - r]
<1>1. i \in Int /\ r \in Int  BY DEF Totales, Partes
<1>2. AlGuardar(m, t, o, n) = ActResto(m, v)  BY DEF AlGuardar
<1> HIDE DEF i, r
<1>3. v \in Totales /\ v.importe = i /\ v.resto = r /\ v.pagos = i - r  BY <1>1 DEF Totales
<1> HIDE DEF v
<1> QED  BY <1>2, <1>3, TrasActResto DEF i, r

\* CobroBehavior::remove.
LEMMA TrasBorrar ==
  ASSUME NEW m, NEW t \in Totales, NEW o \in Partes
  PROVE  LET u == AlBorrar(m, t, o) IN
         /\ u \in Totales /\ u.importe = t.importe - o.importe
         /\ m \notin Ignoran => u.resto = u.importe - u.pagos
<1> DEFINE v == [importe |-> t.importe - o.importe, resto |-> t.resto - o.resto, pagos |-> t.pagos]
<1>1. v \in Totales /\ v.importe = t.importe - o.importe  BY DEF Totales, Partes
<1>2. AlBorrar(m, t, o) = ActResto(m, v)  BY DEF AlBorrar
<1> HIDE DEF v
<1> QED  BY <1>1, <1>2, TrasActResto

\* The save of a member object: of one that agreed with its row, the row takes it over.
LEMMA TrasGuarda ==
  ASSUME miembro \in [Miembros -> Totales], titular \in [Ventanas -> [m : Miembros, tot : Totales] \cup {Ninguna}],
         NEW w \in Ventanas, NEW o \in [m : Miembros, tot : Totales], NEW t \in Totales, Guarda(w, o, t)
  PROVE  /\ miembro' \in [Miembros -> Totales]
         /\ titular' \in [Ventanas -> [m : Miembros, tot : Totales] \cup {Ninguna}]
         /\ \A m \in Miembros \ {o.m} : miembro'[m] = miembro[m]
         /\ ~Anticuado(o) => miembro'[o.m] = t
         /\ titular'[w] = [m |-> o.m, tot |-> t]
<1> DEFINE r == miembro[o.m]
           f == [k \in DOMAIN t |-> IF t[k] = o.tot[k] THEN r[k] ELSE t[k]]
<1>1. o.m \in Miembros /\ o.tot \in Totales /\ r \in Totales  OBVIOUS
<1>2. miembro' = [miembro EXCEPT ![o.m] = f]  BY DEF Guarda
<1>3. f \in Totales /\ (o.tot = r => f = t)
  <2>1. t = [importe |-> t.importe, pagos |-> t.pagos, resto |-> t.resto]
        /\ t.importe \in Int /\ t.pagos \in Int /\ t.resto \in Int
    BY DEF Totales
  <2>2. r.importe \in Int /\ r.pagos \in Int /\ r.resto \in Int  BY <1>1 DEF Totales
  <2>3. DOMAIN t = {"importe", "pagos", "resto"}  BY <2>1
  <2>4. f = [importe |-> IF t.importe = o.tot.importe THEN r.importe ELSE t.importe,
             pagos   |-> IF t.pagos = o.tot.pagos THEN r.pagos ELSE t.pagos,
             resto   |-> IF t.resto = o.tot.resto THEN r.resto ELSE t.resto]
    BY <2>3
  <2>5. f \in Totales  BY <2>1, <2>2, <2>4 DEF Totales
  <2>6. o.tot = r => f = t  BY <2>1, <2>4
  <2> QED  BY <2>5, <2>6
<1> HIDE DEF f, r
<1>4. miembro' \in [Miembros -> Totales] /\ \A m \in Miembros \ {o.m} : miembro'[m] = miembro[m]
  BY <1>1, <1>2, <1>3
<1>5. ~Anticuado(o) => miembro'[o.m] = t  BY <1>1, <1>2, <1>3 DEF Anticuado, r
<1>6. titular' = [titular EXCEPT ![w] = [m |-> o.m, tot |-> t]]  BY DEF Guarda, Cambiado
<1>7. [m |-> o.m, tot |-> t] \in [m : Miembros, tot : Totales]  BY <1>1
<1> QED  BY <1>4, <1>5, <1>6, <1>7

-------------------------------------------------------------------------------
(* The accounts after a step of one window. *)

\* The others do nothing while one works.
LEMMA TrasLista ==
  ASSUME TiposPasos, NEW w \in Ventanas, \A v \in Ventanas \ {w} : pasos[v] = <<>>,
         NEW s \in Seq(Pasos), EnOrden(s), pasos' = [pasos EXCEPT ![w] = s]
  PROVE  TiposPasos' /\ UnaTrabaja' /\ pasos'[w] = s /\ \A v \in Ventanas \ {w} : pasos'[v] = <<>>
<1>1. /\ pasos' \in [Ventanas -> Seq(Pasos)] /\ pasos'[w] = s
      /\ \A v \in Ventanas \ {w} : pasos'[v] = pasos[v]
  BY DEF TiposPasos
<1>2. \A v \in Ventanas : EnOrden(pasos'[v])  BY <1>1 DEF TiposPasos
<1>3. TiposPasos'  BY <1>1, <1>2 DEF TiposPasos, EnOrden, TrasPagos, Tranquilo
<1>4. UnaTrabaja'  BY <1>1 DEF UnaTrabaja
<1> QED  BY <1>1, <1>3, <1>4

\* It is enough to look at the window that works.
LEMMA DeUnaVentana ==
  ASSUME NEW w \in Ventanas, \A v \in Ventanas \ {w} : pasos'[v] = <<>>,
         \A m \in Miembros \ sospechosa' :
           (pasos'[w] = <<>> => Bien(m)') /\ (pasos'[w] # <<>> => EnCurso(w, m)')
  PROVE  LasCuentas'
  BY DEF LasCuentas, Libre

\* A receipt of one member is written, or removed, and its behaviour is to run.
LEMMA TrasCobro ==
  ASSUME NEW w \in Ventanas, NEW k \in IdsCobro, NEW r \in FilasCobro \cup {Ninguna},
         NEW q \in Miembros, NEW o \in Partes, NEW n \in Partes,
         cobro \in [IdsCobro -> FilasCobro \cup {Ninguna}], miembro \in [Miembros -> Totales],
         \A v \in Ventanas \ {w} : pasos'[v] = <<>>,
         \A m \in Miembros \ sospechosa : Bien(m),
         cobro' = [cobro EXCEPT ![k] = r], UNCHANGED miembro, sospechosa \subseteq sospechosa',
         cobro[k] # Ninguna => cobro[k].m = q, r # Ninguna => r.m = q,
         q \notin sospechosa' => o = IF cobro[k] = Ninguna THEN Vacio ELSE De(cobro[k]),
         q \notin sospechosa' => n = IF r = Ninguna THEN Vacio ELSE De(r),
         pasos'[w] # <<>>,
         \/ Head(pasos'[w]) = AlGuardarPaso(q, o, n)
         \/ r = Ninguna /\ Head(pasos'[w]) = AlBorrarPaso(q, o)
  PROVE  LasCuentas'
<1> SUFFICES ASSUME NEW m \in Miembros \ sospechosa'
             PROVE  EnCurso(w, m)'
  BY DeUnaVentana
<1> DEFINE t == miembro[m]
           rs == cobro
           i0 == Importes(rs, m)
           c0 == Cobros(rs, m)
           i1 == Importes(cobro', m)
           c1 == Cobros(cobro', m)
<1>1. Bien(m)  OBVIOUS
<1>2. /\ i0 \in Int /\ c0 \in Int
      /\ i1 = i0 - Importe(rs, m)[k] + IF r # Ninguna /\ r.m = m THEN r.importe ELSE 0
      /\ c1 = c0 - Pago(rs, m)[k] + IF r # Ninguna /\ r.m = m THEN r.importe - r.resto ELSE 0
  BY SumasDelCobro
<1>3. /\ Importe(rs, m)[k] = IF rs[k] # Ninguna /\ rs[k].m = m THEN rs[k].importe ELSE 0
      /\ Pago(rs, m)[k] = IF rs[k] # Ninguna /\ rs[k].m = m THEN rs[k].importe - rs[k].resto ELSE 0
  BY DEF Importe, Pago
<1>4. /\ o.importe \in Int /\ o.resto \in Int /\ n.importe \in Int /\ n.resto \in Int
      /\ t.importe \in Int /\ t.pagos \in Int /\ t.resto \in Int
  BY DEF Partes, Totales
<1>5. /\ \A x, y, z : AlGuardarPaso(x, y, z).hace = "guarda" /\ AlGuardarPaso(x, y, z).m = x
           /\ AlGuardarPaso(x, y, z).original = y /\ AlGuardarPaso(x, y, z).nuevo = z
      /\ \A x, y : AlBorrarPaso(x, y).hace = "borra" /\ AlBorrarPaso(x, y).m = x
           /\ AlBorrarPaso(x, y).original = y
  BY DEF AlGuardarPaso, AlBorrarPaso
<1>6. CASE m # q
  <2>1. i1 = i0 /\ c1 = c0  BY <1>2, <1>3, <1>6
  <2>2. Bien(m)'  BY <1>1, <2>1 DEF Bien, RestoBien
  <2>3. EnCurso(w, m)' <=> Bien(m)'  BY <1>5, <1>6 DEF EnCurso, Hace
  <2> QED  BY <2>2, <2>3
<1>7. CASE m = q
  <2>1. /\ Importe(rs, m)[k] = o.importe /\ Pago(rs, m)[k] = o.importe - o.resto
        /\ (IF r # Ninguna /\ r.m = m THEN r.importe ELSE 0) = n.importe
        /\ (IF r # Ninguna /\ r.m = m THEN r.importe - r.resto ELSE 0) = n.importe - n.resto
    BY <1>3, <1>7 DEF Vacio, De
  <2>2. i1 = i0 - o.importe + n.importe /\ c1 = c0 - (o.importe - o.resto) + (n.importe - n.resto)
    BY <1>2, <2>1
  <2>3. t.importe = i0 /\ RestoBien(m)' /\ (m \notin Ignoran => t.pagos = c0)
    BY <1>1 DEF Bien, RestoBien
  <2>4. CASE Head(pasos'[w]) = AlGuardarPaso(q, o, n)
    <3>1. EnCurso(w, m)' <=> PorGuardar(AlGuardarPaso(q, o, n), m)'
      BY <1>5, <1>7, <2>4 DEF EnCurso, Hace
    <3>2. PorGuardar(AlGuardarPaso(q, o, n), m)'
      BY <1>5, <2>2, <2>3 DEF PorGuardar
    <3> QED  BY <3>1, <3>2
  <2>5. CASE r = Ninguna /\ Head(pasos'[w]) = AlBorrarPaso(q, o)
    <3>1. EnCurso(w, m)' <=> PorBorrar(AlBorrarPaso(q, o), m)'
      BY <1>5, <1>7, <2>5 DEF EnCurso, Hace
    <3>2. n.importe = 0  BY <1>7, <2>5 DEF Vacio
    <3>3. PorBorrar(AlBorrarPaso(q, o), m)'
      BY <1>2, <1>4, <1>5, <2>2, <2>3, <3>2 DEF PorBorrar
    <3> QED  BY <3>1, <3>3
  <2> QED  BY <2>4, <2>5
<1> QED  BY <1>6, <1>7

-------------------------------------------------------------------------------
(* What the user asks for. *)

\* When all rest.
LEMMA Descanso ==
  ASSUME TotInv, Libre
  PROVE  /\ \A v \in Ventanas : pasos[v] = <<>>
         /\ \A m \in Miembros \ sospechosa : Bien(m)
  BY DEF TotInv, EnRegla, LasCuentas, Libre

\* The types, of which one says what a window is doing.
LEMMA TiposTras ==
  ASSUME NEW w \in Ventanas, \A v \in Ventanas \ {w} : pasos'[v] = <<>>,
         miembro' \in [Miembros -> Totales],
         cobro' \in [IdsCobro -> FilasCobro \cup {Ninguna}], IInv',
         ventana' \in [Ventanas -> [id : IdsCobro, fila : FilasCobro] \cup {Ninguna}],
         titular' \in [Ventanas -> [m : Miembros, tot : Totales] \cup {Ninguna}],
         pasos'[w] # <<>> /\ Head(pasos'[w]).hace = "pagos" => titular'[w] # Ninguna,
         sospechosa' \subseteq Miembros
  PROVE  TypeOKSocias'
  BY DEF TypeOKSocias, IInv, Formas, Hace

\* All rest before and after.
LEMMA SinPasos ==
  ASSUME TotInv, NEW w \in Ventanas, Libre, UNCHANGED <<tablas, pasos, sospechosa>>, IInv',
         ventana' \in [Ventanas -> [id : IdsCobro, fila : FilasCobro] \cup {Ninguna}],
         titular' \in [Ventanas -> [m : Miembros, tot : Totales] \cup {Ninguna}]
  PROVE  EnRegla'
<1>1. \A v \in Ventanas : pasos[v] = <<>> /\ pasos'[v] = <<>>  BY Descanso
<1>2. \A m \in Miembros \ sospechosa : Bien(m)  BY Descanso
<1>3. TiposPasos'
  BY DEF TotInv, EnRegla, TiposPasos, EnOrden, TrasPagos, Tranquilo
<1>4. UnaTrabaja'  BY <1>1 DEF UnaTrabaja
<1>5. TypeOKSocias'
  BY <1>1, TiposTras DEF TotInv, EnRegla, TypeOKSocias, tablas
<1>6. \A m \in Miembros \ sospechosa' : Bien(m)'
  BY <1>2 DEF Bien, RestoBien, tablas
<1>7. LasCuentas'  BY <1>1, <1>6, DeUnaVentana
<1> QED  BY <1>3, <1>4, <1>5, <1>7 DEF EnRegla

\* A member object is of a member, with its totals.
LEMMA ObjetoLeido ==
  ASSUME TypeOKSocias, NEW w \in Ventanas, NEW m \in Miembros
  PROVE  /\ LeeMiembro(m) \in [m : Miembros, tot : Totales] /\ LeeMiembro(m).m = m
         /\ LeeMiembro(m).tot = miembro[m]
         /\ RecFactura(w, m) \in [m : Miembros, tot : Totales]
  BY DEF TypeOKSocias, LeeMiembro, RecFactura

\* A form goes to a receipt.
LEMMA EnReglaVeCobro ==
  ASSUME TotInv, NEW w \in Ventanas, VeCobro(w), IInv'
  PROVE  EnRegla'
<1>1. PICK i \in IdsCobro :
        /\ cobro[i] # Ninguna
        /\ ventana' = [ventana EXCEPT ![w] = [id |-> i, fila |-> cobro[i]]]
        /\ titular' = [titular EXCEPT ![w] = RecFactura(w, cobro[i].m)]
  BY DEF VeCobro, Cambiado
<1>2. cobro[i] \in FilasCobro  BY <1>1 DEF TotInv, EnRegla, TypeOKSocias
<1>3. cobro[i].m \in Miembros  BY <1>2 DEF FilasCobro
<1>4. RecFactura(w, cobro[i].m) \in [m : Miembros, tot : Totales]
  BY <1>3, ObjetoLeido DEF TotInv, EnRegla
<1>5. ventana' \in [Ventanas -> [id : IdsCobro, fila : FilasCobro] \cup {Ninguna}]
  BY <1>1, <1>2 DEF TotInv, EnRegla, TypeOKSocias
<1>6. titular' \in [Ventanas -> [m : Miembros, tot : Totales] \cup {Ninguna}]
  BY <1>1, <1>4 DEF TotInv, EnRegla, TypeOKSocias
<1>7. Libre /\ UNCHANGED <<tablas, pasos, sospechosa>>  BY DEF VeCobro, Puede
<1> QED  BY <1>5, <1>6, <1>7, SinPasos

\* A form is closed.
LEMMA EnReglaCierra ==
  ASSUME TotInv, NEW w \in Ventanas, CierraVentana(w), IInv'
  PROVE  EnRegla'
<1>1. ventana' \in [Ventanas -> [id : IdsCobro, fila : FilasCobro] \cup {Ninguna}]
  BY DEF TotInv, EnRegla, TypeOKSocias, CierraVentana, Cambiado
<1>2. titular' \in [Ventanas -> [m : Miembros, tot : Totales] \cup {Ninguna}]
  BY DEF TotInv, EnRegla, TypeOKSocias, CierraVentana, Cambiado
<1>3. Libre /\ UNCHANGED <<tablas, pasos, sospechosa>>  BY DEF CierraVentana, Puede
<1> QED  BY <1>1, <1>2, <1>3, SinPasos

\* An operation that writes a receipt of member q, or removes it, as its row was.
LEMMA EnReglaEscribe ==
  ASSUME NEW w \in Ventanas, NEW k \in IdsCobro, NEW r \in FilasCobro \cup {Ninguna},
         NEW q \in Miembros, NEW o \in Partes, NEW n \in Partes, NEW t \in Seq(Pasos), NEW s,
         TotInv, IInv', Tranquilo(t), \A v \in Ventanas \ {w} : pasos[v] = <<>>,
         \A m \in Miembros \ sospechosa : Bien(m),
         cobro' = [cobro EXCEPT ![k] = r], UNCHANGED miembro,
         sospechosa \subseteq sospechosa', sospechosa' \subseteq Miembros,
         cobro[k] # Ninguna => cobro[k].m = q, r # Ninguna => r.m = q,
         q \notin sospechosa' => o = IF cobro[k] = Ninguna THEN Vacio ELSE De(cobro[k]),
         q \notin sospechosa' => n = IF r = Ninguna THEN Vacio ELSE De(r),
         \/ t = <<>> /\ s \in {<<AlGuardarPaso(q, o, n)>>, <<AlGuardarPaso(q, o, n), ActPagosPaso>>,
                               <<AlGuardarPaso(q, o, n), ActPagosPaso, SueltaPaso>>}
         \/ s = <<AlGuardarPaso(q, o, n), ActPagosPaso, SueltaPaso>> \o t
         \/ r = Ninguna /\ t = <<>> /\ s = <<AlBorrarPaso(q, o), ActPagosPaso>>
         \/ r = Ninguna /\ s = <<AlBorrarPaso(q, o), ActPagosPaso>> \o t,
         pasos' = [pasos EXCEPT ![w] = s],
         ventana' \in [Ventanas -> [id : IdsCobro, fila : FilasCobro] \cup {Ninguna}],
         titular' \in [Ventanas -> [m : Miembros, tot : Totales] \cup {Ninguna}]
  PROVE  EnRegla'
<1> DEFINE g == AlGuardarPaso(q, o, n)
           b == AlBorrarPaso(q, o)
<1>1. /\ g \in Pasos /\ g.hace = "guarda" /\ b \in Pasos /\ b.hace = "borra"
  BY TiposDePasos
<1>2. /\ s \in Seq(Pasos) /\ s # <<>> /\ EnOrden(s)
      /\ Head(s) = g \/ (r = Ninguna /\ Head(s) = b)
  <2>1. CASE \/ t = <<>> /\ s \in {<<g>>, <<g, ActPagosPaso>>, <<g, ActPagosPaso, SueltaPaso>>}
             \/ s = <<g, ActPagosPaso, SueltaPaso>> \o t
    <3> HIDE DEF g, b
    <3> QED  BY <1>1, <2>1, Listas
  <2>2. CASE r = Ninguna /\ (\/ t = <<>> /\ s = <<b, ActPagosPaso>>
                             \/ s = <<b, ActPagosPaso>> \o t)
    <3> HIDE DEF g, b
    <3> QED  BY <1>1, <2>2, Listas
  <2> QED  BY <2>1, <2>2
<1>3. TiposPasos' /\ UnaTrabaja' /\ pasos'[w] = s /\ \A v \in Ventanas \ {w} : pasos'[v] = <<>>
  BY <1>2, TrasLista DEF TotInv, EnRegla
<1>4. LasCuentas'
  <2>1. cobro \in [IdsCobro -> FilasCobro \cup {Ninguna}] /\ miembro \in [Miembros -> Totales]
    BY DEF TotInv, EnRegla, TypeOKSocias
  <2>2. /\ pasos'[w] # <<>> /\ \A v \in Ventanas \ {w} : pasos'[v] = <<>>
        /\ \/ Head(pasos'[w]) = AlGuardarPaso(q, o, n)
           \/ r = Ninguna /\ Head(pasos'[w]) = AlBorrarPaso(q, o)
    BY <1>2, <1>3
  <2>3. \A m \in Miembros \ sospechosa : Bien(m)  OBVIOUS
  <2>4. /\ q \notin sospechosa' => o = IF cobro[k] = Ninguna THEN Vacio ELSE De(cobro[k])
        /\ q \notin sospechosa' => n = IF r = Ninguna THEN Vacio ELSE De(r)
        /\ (cobro[k] # Ninguna => cobro[k].m = q) /\ (r # Ninguna => r.m = q)
    OBVIOUS
  <2> HIDE DEF g, b
  <2> QED  BY <2>1, <2>2, <2>3, <2>4, TrasCobro
<1>5. TypeOKSocias'
  <2>1. /\ miembro' \in [Miembros -> Totales]
        /\ cobro' \in [IdsCobro -> FilasCobro \cup {Ninguna}]
    BY DEF TotInv, EnRegla, TypeOKSocias
  <2>2. Head(pasos'[w]).hace # "pagos"  BY <1>1, <1>2, <1>3
  <2> QED  BY <1>3, <2>1, <2>2, TiposTras
<1> QED  BY <1>3, <1>4, <1>5 DEF EnRegla

\* Nothing left to do is nothing out of order.
LEMMA ListaVacia ==
  <<>> \in Seq(Pasos) /\ Tranquilo(<<>>)
  BY DEF Tranquilo

\* A receipt is charged.
LEMMA EnReglaNuevo ==
  ASSUME TotInv, NEW w \in Ventanas, NuevoCobro(w), IInv'
  PROVE  EnRegla'
<1>1. PICK m \in Miembros, n \in Cargos :
        /\ ultimoCobro' = ultimoCobro + 1
        /\ cobro' = [cobro EXCEPT ![ultimoCobro'] = Fila(m, n, n, FALSE)]
        /\ titular' = Cambiado(titular, w, LeeMiembro(m))
        /\ pasos' = Cambiado(pasos, w,
             <<AlGuardarPaso(m, Vacio, [importe |-> n, resto |-> n]), ActPagosPaso, SueltaPaso>>)
  BY DEF NuevoCobro
<1> DEFINE k == ultimoCobro + 1
           r == Fila(m, n, n, FALSE)
           q == [importe |-> n, resto |-> n]
           g == AlGuardarPaso(m, Vacio, q)
<1>2. n \in Int  BY CantidadesAssumption
<1>3. r \in FilasCobro /\ r.m = m /\ De(r) = q /\ q \in Partes /\ Vacio \in Partes
  BY <1>2 DEF Fila, FilasCobro, De, Partes, Vacio
<1>4. r # Ninguna  BY <1>3, NingunaAssumption
<1>5. k \in IdsCobro /\ cobro[k] = Ninguna
  BY MaxCobrosAssumption DEF NuevoCobro, TotInv, IInv, Formas, SinEstrenar, IdsCobro
<1>6. Libre /\ UNCHANGED <<miembro, ventana, sospechosa>>  BY DEF NuevoCobro, Puede
<1>7. /\ \A v \in Ventanas \ {w} : pasos[v] = <<>>
      /\ \A x \in Miembros \ sospechosa : Bien(x)
  BY <1>6, Descanso
<1>8. /\ ventana' \in [Ventanas -> [id : IdsCobro, fila : FilasCobro] \cup {Ninguna}]
      /\ titular' \in [Ventanas -> [m : Miembros, tot : Totales] \cup {Ninguna}]
      /\ sospechosa' \subseteq Miembros /\ sospechosa \subseteq sospechosa'
  <2>1. LeeMiembro(m) \in [m : Miembros, tot : Totales]  BY ObjetoLeido DEF TotInv, EnRegla
  <2> QED  BY <1>1, <1>6, <2>1 DEF TotInv, EnRegla, TypeOKSocias, Cambiado
<1>9. /\ cobro' = [cobro EXCEPT ![k] = r]
      /\ pasos' = [pasos EXCEPT ![w] = <<g, ActPagosPaso, SueltaPaso>>]
  BY <1>1 DEF Cambiado
<1> HIDE DEF k, r, q
<1> QED  BY <1>3, <1>4, <1>5, <1>6, <1>7, <1>8, <1>9, ListaVacia, EnReglaEscribe

\* What the form of a receipt writes over it.
LEMMA EnReglaForma ==
  ASSUME NEW w \in Ventanas, NEW f \in FilasCobro, NEW s,
         TotInv, Libre, IInv', ventana[w] # Ninguna,
         f.m = ventana[w].fila.m, Escribe(w, f), UNCHANGED <<miembro, titular>>,
         s \in {<<AlGuardarPaso(f.m, De(ventana[w].fila), De(f))>>,
                <<AlGuardarPaso(f.m, De(ventana[w].fila), De(f)), ActPagosPaso>>},
         pasos' = [pasos EXCEPT ![w] = s]
  PROVE  EnRegla'
<1> DEFINE k == ventana[w].id
           o == ventana[w].fila
           r == IF cobro[k] = Ninguna THEN Ninguna ELSE f
           q == f.m
<1>1. k \in IdsCobro /\ o \in FilasCobro
  BY DEF TotInv, EnRegla, TypeOKSocias
<1>2. q \in Miembros /\ De(o) \in Partes /\ De(f) \in Partes
  BY <1>1 DEF FilasCobro, De, Partes
<1>3. f # Ninguna /\ o # Ninguna  BY <1>1, NingunaAssumption
<1>4. cobro[k] # Ninguna => cobro[k].m = q
  BY DEF TotInv, IInv, MismoCobro
<1>5. /\ r \in FilasCobro \cup {Ninguna} /\ (r # Ninguna => r.m = q)
      /\ cobro' = [cobro EXCEPT ![k] = r]
  BY DEF Escribe
<1>6. /\ ventana' = [ventana EXCEPT ![w] = [id |-> k, fila |-> f]]
      /\ sospechosa' = sospechosa \cup (IF cobro[k] = o THEN {} ELSE {q})
  BY DEF Escribe, Anade, Cambiado
<1>7. q \notin sospechosa' =>
        /\ De(o) = IF cobro[k] = Ninguna THEN Vacio ELSE De(cobro[k])
        /\ De(f) = IF r = Ninguna THEN Vacio ELSE De(r)
  BY <1>3, <1>6
<1>8. /\ ventana' \in [Ventanas -> [id : IdsCobro, fila : FilasCobro] \cup {Ninguna}]
      /\ titular' \in [Ventanas -> [m : Miembros, tot : Totales] \cup {Ninguna}]
      /\ sospechosa' \subseteq Miembros /\ sospechosa \subseteq sospechosa'
  BY <1>1, <1>2, <1>6 DEF TotInv, EnRegla, TypeOKSocias
<1>9. /\ \A v \in Ventanas \ {w} : pasos[v] = <<>>
      /\ \A x \in Miembros \ sospechosa : Bien(x)
  BY Descanso
<1> HIDE DEF r, k, q, o
<1>10. s \in {<<AlGuardarPaso(q, De(o), De(f))>>, <<AlGuardarPaso(q, De(o), De(f)), ActPagosPaso>>}
  BY DEF q, o
<1> DEFINE a == De(o)
           b == De(f)
<1>11. a \in Partes /\ b \in Partes /\ UNCHANGED miembro  BY <1>2
<1>12. /\ q \notin sospechosa' => a = IF cobro[k] = Ninguna THEN Vacio ELSE De(cobro[k])
       /\ q \notin sospechosa' => b = IF r = Ninguna THEN Vacio ELSE De(r)
  BY <1>7
<1>13. s \in {<<AlGuardarPaso(q, a, b)>>, <<AlGuardarPaso(q, a, b), ActPagosPaso>>}  BY <1>10
<1> HIDE DEF a, b
<1>14. CASE s = <<AlGuardarPaso(q, a, b)>>
  BY <1>1, <1>2, <1>4, <1>5, <1>8, <1>9, <1>11, <1>12, <1>14, ListaVacia, EnReglaEscribe
<1>15. CASE s = <<AlGuardarPaso(q, a, b), ActPagosPaso>>
  BY <1>1, <1>2, <1>4, <1>5, <1>8, <1>9, <1>11, <1>12, <1>15, ListaVacia, EnReglaEscribe
<1> QED  BY <1>13, <1>14, <1>15

\* The amount of a pending receipt is changed.
LEMMA EnReglaModifica ==
  ASSUME TotInv, NEW w \in Ventanas, ModificaCobro(w), IInv'
  PROVE  EnRegla'
<1> DEFINE o == ventana[w].fila
           f(n) == Fila(o.m, n, n, o.remesa)
<1>1. PICK n \in Cargos :
        /\ Escribe(w, f(n))
        /\ pasos' = [pasos EXCEPT ![w] = <<AlGuardarPaso(o.m, De(o), De(f(n))), ActPagosPaso>>]
  BY DEF ModificaCobro, Cambiado
<1>2. o \in FilasCobro /\ n \in Int
  BY CantidadesAssumption DEF ModificaCobro, TotInv, EnRegla, TypeOKSocias
<1>3. f(n) \in FilasCobro /\ f(n).m = o.m  BY <1>2 DEF Fila, FilasCobro
<1>4. Libre /\ ventana[w] # Ninguna /\ UNCHANGED <<miembro, titular>>  BY DEF ModificaCobro, Puede
<1> QED  BY <1>1, <1>3, <1>4, EnReglaForma

\* A row that owes another amount is still a row of its member.
LEMMA OtroResto ==
  ASSUME NEW r \in FilasCobro, NEW v \in Int
  PROVE  [r EXCEPT !.resto = v] \in FilasCobro /\ [r EXCEPT !.resto = v].m = r.m
  BY DEF FilasCobro

\* A payment is cancelled.
LEMMA EnReglaAnula ==
  ASSUME TotInv, NEW w \in Ventanas, AnulaCobro(w), IInv'
  PROVE  EnRegla'
<1> DEFINE o == ventana[w].fila
           f == [o EXCEPT !.resto = o.importe]
<1>1. /\ Escribe(w, f)
      /\ pasos' = [pasos EXCEPT ![w] = <<AlGuardarPaso(o.m, De(o), De(f))>>]
  BY DEF AnulaCobro, Cambiado
<1>2. o \in FilasCobro
  BY DEF AnulaCobro, TotInv, EnRegla, TypeOKSocias
<1>3. o.importe \in Int  BY <1>2 DEF FilasCobro
<1>4. f \in FilasCobro /\ f.m = o.m  BY <1>2, <1>3, OtroResto
<1>5. Libre /\ ventana[w] # Ninguna /\ UNCHANGED <<miembro, titular>>  BY DEF AnulaCobro, Puede
<1> HIDE DEF f
<1> QED  BY <1>1, <1>4, <1>5, EnReglaForma

\* A receipt is paid.
LEMMA EnReglaPaga ==
  ASSUME TotInv, NEW w \in Ventanas, PagaCobro(w), IInv'
  PROVE  EnRegla'
<1> DEFINE k == ventana[w].id
           o == cobro[k]
           f == [o EXCEPT !.resto = 0]
           q == o.m
           g == AlGuardarPaso(q, De(o), De(f))
<1>1. k \in IdsCobro /\ o # Ninguna /\ o \in FilasCobro
  BY DEF PagaCobro, TotInv, EnRegla, TypeOKSocias
<1>2. f \in FilasCobro /\ f.m = q  BY <1>1, OtroResto
<1>3. q \in Miembros /\ De(o) \in Partes /\ De(f) \in Partes
  BY <1>1, <1>2 DEF FilasCobro, De, Partes
<1>4. f # Ninguna  BY <1>2, NingunaAssumption
<1>5. /\ cobro' = [cobro EXCEPT ![k] = f]
      /\ ventana' = [ventana EXCEPT ![w] = [id |-> k, fila |-> f]]
      /\ pasos' = [pasos EXCEPT ![w] = <<g>>]
  BY DEF PagaCobro, Cambiado
<1>6. Libre /\ UNCHANGED <<miembro, titular, sospechosa>>  BY DEF PagaCobro, Puede
<1>7. /\ ventana' \in [Ventanas -> [id : IdsCobro, fila : FilasCobro] \cup {Ninguna}]
      /\ titular' \in [Ventanas -> [m : Miembros, tot : Totales] \cup {Ninguna}]
      /\ sospechosa' \subseteq Miembros /\ sospechosa \subseteq sospechosa'
  BY <1>1, <1>2, <1>5, <1>6 DEF TotInv, EnRegla, TypeOKSocias
<1>8. /\ \A v \in Ventanas \ {w} : pasos[v] = <<>>
      /\ \A x \in Miembros \ sospechosa : Bien(x)
  BY <1>6, Descanso
<1>9. /\ De(o) = IF cobro[k] = Ninguna THEN Vacio ELSE De(cobro[k])
      /\ De(f) = IF f = Ninguna THEN Vacio ELSE De(f)
      /\ cobro[k] # Ninguna => cobro[k].m = q
  BY <1>1, <1>4
<1> HIDE DEF k, o, f, q
<1> QED
  BY <1>1, <1>2, <1>3, <1>4, <1>5, <1>6, <1>7, <1>8, <1>9, ListaVacia, EnReglaEscribe

\* A pending receipt is removed.
LEMMA EnReglaBorra ==
  ASSUME TotInv, NEW w \in Ventanas, BorraCobro(w), IInv'
  PROVE  EnRegla'
<1> DEFINE k == ventana[w].id
           o == ventana[w].fila
           q == o.m
           b == AlBorrarPaso(q, De(o))
<1>1. k \in IdsCobro /\ o \in FilasCobro
  BY DEF BorraCobro, TotInv, EnRegla, TypeOKSocias
<1>2. o # Ninguna  BY <1>1, NingunaAssumption
<1>3. q \in Miembros /\ De(o) \in Partes /\ Vacio \in Partes
  BY <1>1 DEF FilasCobro, De, Partes, Vacio
<1>4. /\ cobro' = [cobro EXCEPT ![k] = Ninguna]
      /\ ventana' = [ventana EXCEPT ![w] = Ninguna]
      /\ pasos' = [pasos EXCEPT ![w] = <<b, ActPagosPaso>>]
      /\ sospechosa' = sospechosa \cup (IF cobro[k] = o THEN {} ELSE {q})
  BY DEF BorraCobro, Cambiado, Anade
<1>5. Libre /\ UNCHANGED <<miembro, titular>> /\ ventana[w] # Ninguna  BY DEF BorraCobro, Puede
<1>6. /\ ventana' \in [Ventanas -> [id : IdsCobro, fila : FilasCobro] \cup {Ninguna}]
      /\ titular' \in [Ventanas -> [m : Miembros, tot : Totales] \cup {Ninguna}]
      /\ sospechosa' \subseteq Miembros /\ sospechosa \subseteq sospechosa'
  BY <1>3, <1>4, <1>5 DEF TotInv, EnRegla, TypeOKSocias
<1>7. /\ \A v \in Ventanas \ {w} : pasos[v] = <<>>
      /\ \A x \in Miembros \ sospechosa : Bien(x)
  BY <1>5, Descanso
<1>8. cobro[k] # Ninguna => cobro[k].m = q
  BY <1>5 DEF TotInv, IInv, MismoCobro
<1>9. q \notin sospechosa' => De(o) = IF cobro[k] = Ninguna THEN Vacio ELSE De(cobro[k])
  BY <1>2, <1>4
<1> DEFINE a == De(o)
           n == Vacio
           r == Ninguna
<1>10. /\ a \in Partes /\ n \in Partes /\ r \in FilasCobro \cup {Ninguna} /\ (r # Ninguna => r.m = q)
       /\ q \notin sospechosa' => a = IF cobro[k] = Ninguna THEN Vacio ELSE De(cobro[k])
       /\ q \notin sospechosa' => n = IF r = Ninguna THEN Vacio ELSE De(r)
       /\ r = Ninguna /\ cobro' = [cobro EXCEPT ![k] = r]
       /\ pasos' = [pasos EXCEPT ![w] = <<AlBorrarPaso(q, a), ActPagosPaso>>]
  BY <1>3, <1>4, <1>9
<1> HIDE DEF k, o, q, a, n, r
<1> QED
  BY <1>1, <1>3, <1>5, <1>6, <1>7, <1>8, <1>10, ListaVacia, EnReglaEscribe

\* A step after which there are only receipts to remove or to make, or nothing to do.
LEMMA EnReglaTranquila ==
  ASSUME NEW w \in Ventanas, NEW s \in Seq(Pasos),
         TotInv, IInv', Tranquilo(s), \A v \in Ventanas \ {w} : pasos[v] = <<>>,
         \A m \in Miembros \ sospechosa : Bien(m),
         UNCHANGED <<miembro, cobro, sospechosa>>, pasos' = [pasos EXCEPT ![w] = s],
         ventana' \in [Ventanas -> [id : IdsCobro, fila : FilasCobro] \cup {Ninguna}],
         titular' \in [Ventanas -> [m : Miembros, tot : Totales] \cup {Ninguna}]
  PROVE  EnRegla'
<1>1. EnOrden(s) /\ (s # <<>> => Head(s).hace \in {"suelta", "quita", "genera"})
  BY DEF EnOrden, Tranquilo
<1>2. TiposPasos' /\ UnaTrabaja' /\ pasos'[w] = s /\ \A v \in Ventanas \ {w} : pasos'[v] = <<>>
  BY <1>1, TrasLista DEF TotInv, EnRegla
<1>3. \A m \in Miembros \ sospechosa' : Bien(m)'
  BY DEF Bien, RestoBien
<1>4. \A m \in Miembros \ sospechosa' : pasos'[w] # <<>> => EnCurso(w, m)'
  BY <1>1, <1>2, <1>3 DEF EnCurso, Hace
<1>5. LasCuentas'  BY <1>2, <1>3, <1>4, DeUnaVentana
<1>6. TypeOKSocias'
  BY <1>1, <1>2, TiposTras DEF TotInv, EnRegla, TypeOKSocias
<1> QED  BY <1>2, <1>5, <1>6 DEF EnRegla

\* The members of a finite set, one after the other.
LEMMA Ordenados ==
  ASSUME NEW S, IsFiniteSet(S)
  PROVE  SetToSeq(S) \in Seq(S) /\ DOMAIN SetToSeq(S) = 1 .. Len(SetToSeq(S))
<1>1. Cardinality(S) \in Nat /\ ExistsBijection(1 .. Cardinality(S), S)  BY FS_CardinalityType
<1>2. PICK f \in [1 .. Cardinality(S) -> S] : IsInjective(f)
  BY <1>1 DEF ExistsBijection, Bijection, Injection, IsInjective
<1>3. SetToSeq(S) \in [1 .. Cardinality(S) -> S]  BY <1>2 DEF SetToSeq
<1> QED  BY <1>1, <1>3

\* A batch begins.
LEMMA EnReglaGeneraRecibos ==
  ASSUME TotInv, NEW w \in Ventanas, GeneraRecibos(w), IInv'
  PROVE  EnRegla'
<1>1. PICK S \in SUBSET Miembros \ {{}} :
        pasos' = [pasos EXCEPT ![w] = [n \in DOMAIN SetToSeq(S) |-> GeneraPaso(SetToSeq(S)[n])]]
  BY DEF GeneraRecibos, Cambiado
<1> DEFINE ms == SetToSeq(S)
           s == [n \in DOMAIN ms |-> GeneraPaso(ms[n])]
<1>2. IsFiniteSet(S)  BY MiembrosAssumption, FS_Subset
<1>3. ms \in Seq(S) /\ DOMAIN ms = 1 .. Len(ms)  BY <1>2, Ordenados
<1> HIDE DEF ms
<1>4. \A n \in 1 .. Len(ms) : GeneraPaso(ms[n]) \in Pasos /\ GeneraPaso(ms[n]).hace = "genera"
  BY <1>3, TiposDePasos
<1>5. s \in Seq(Pasos) /\ Tranquilo(s)  BY <1>3, <1>4 DEF Tranquilo
<1>6. Libre /\ UNCHANGED <<miembro, cobro, sospechosa>> /\ UNCHANGED <<ventana, titular>>
  BY DEF GeneraRecibos, Puede, tablas
<1>7. /\ ventana' \in [Ventanas -> [id : IdsCobro, fila : FilasCobro] \cup {Ninguna}]
      /\ titular' \in [Ventanas -> [m : Miembros, tot : Totales] \cup {Ninguna}]
  BY <1>6 DEF TotInv, EnRegla, TypeOKSocias
<1>8. /\ \A v \in Ventanas \ {w} : pasos[v] = <<>>
      /\ \A x \in Miembros \ sospechosa : Bien(x)
  BY <1>6, Descanso
<1>9. pasos' = [pasos EXCEPT ![w] = s]  BY <1>1 DEF ms
<1> HIDE DEF s
<1> QED  BY <1>5, <1>6, <1>7, <1>8, <1>9, EnReglaTranquila

\* A member is saved, which removes its receipts.
LEMMA EnReglaGuardaMiembro ==
  ASSUME TotInv, NEW w \in Ventanas, GuardaMiembro(w), IInv'
  PROVE  EnRegla'
<1>1. PICK m \in Miembros :
        pasos' = [pasos EXCEPT ![w] =
                    [n \in DOMAIN SetToSeq(DeMiembro(m)) |-> QuitaPaso(SetToSeq(DeMiembro(m))[n])]
                    \o <<SueltaPaso>>]
  BY DEF GuardaMiembro, Cambiado
<1> DEFINE S == DeMiembro(m)
           is == SetToSeq(S)
           a == [n \in DOMAIN is |-> QuitaPaso(is[n])]
           s == a \o <<SueltaPaso>>
<1>0. IsFiniteSet(IdsCobro)  BY FS_Interval, MaxCobrosAssumption DEF IdsCobro
<1>2. IsFiniteSet(S) /\ S \subseteq IdsCobro  BY <1>0, FS_Subset DEF DeMiembro
<1> HIDE DEF S
<1>3. is \in Seq(S) /\ DOMAIN is = 1 .. Len(is)  BY <1>2, Ordenados
<1> HIDE DEF is
<1>4. \A n \in 1 .. Len(is) : QuitaPaso(is[n]) \in Pasos /\ QuitaPaso(is[n]).hace = "quita"
  BY <1>2, <1>3, TiposDePasos
<1>5. /\ a \in Seq(Pasos) /\ Len(a) = Len(is)
      /\ \A n \in 1 .. Len(a) : a[n].hace = "quita"
  BY <1>3, <1>4
<1>6. SueltaPaso \in Pasos /\ SueltaPaso.hace = "suelta"  BY TiposDePasos
<1> HIDE DEF a
<1>7. s \in Seq(Pasos) /\ Tranquilo(s)
  <2> DEFINE b == <<SueltaPaso>>
  <2>1. b \in Seq(Pasos) /\ Len(b) = 1 /\ b[1] = SueltaPaso  BY <1>6
  <2> HIDE DEF b
  <2>2. /\ s \in Seq(Pasos) /\ Len(s) = Len(a) + 1 /\ Len(a) \in Nat
        /\ \A i \in 1 .. Len(a) + 1 : s[i] = IF i <= Len(a) THEN a[i] ELSE b[i - Len(a)]
    BY <1>5, <2>1, ConcatProperties DEF b
  <2>3. \A i \in 1 .. Len(a) + 1 : i \in 1 .. Len(a) \/ i - Len(a) = 1  BY <2>2
  <2> HIDE DEF s
  <2>4. \A i \in 1 .. Len(s) : s[i].hace \in {"quita", "suelta"}  BY <1>5, <1>6, <2>1, <2>2, <2>3
  <2> QED  BY <2>2, <2>4 DEF Tranquilo
<1>8. Libre /\ UNCHANGED <<miembro, cobro, sospechosa>> /\ UNCHANGED <<ventana, titular>>
  BY DEF GuardaMiembro, Puede, tablas
<1>9. /\ ventana' \in [Ventanas -> [id : IdsCobro, fila : FilasCobro] \cup {Ninguna}]
      /\ titular' \in [Ventanas -> [m : Miembros, tot : Totales] \cup {Ninguna}]
  BY <1>8 DEF TotInv, EnRegla, TypeOKSocias
<1>10. /\ \A v \in Ventanas \ {w} : pasos[v] = <<>>
       /\ \A x \in Miembros \ sospechosa : Bien(x)
  BY <1>8, Descanso
<1>11. pasos' = [pasos EXCEPT ![w] = s]  BY <1>1 DEF a, is, S
<1> HIDE DEF s
<1> QED  BY <1>7, <1>8, <1>9, <1>10, <1>11, EnReglaTranquila

-------------------------------------------------------------------------------
(* The statements. *)

\* When window w works.
LEMMA Trabajo ==
  ASSUME TotInv, NEW w \in Ventanas, pasos[w] # <<>>
  PROVE  /\ \A v \in Ventanas \ {w} : pasos[v] = <<>>
         /\ \A m \in Miembros \ sospechosa : EnCurso(w, m)
         /\ pasos[w] \in Seq(Pasos) /\ EnOrden(pasos[w])
         /\ Head(pasos[w]) \in Pasos /\ Tail(pasos[w]) \in Seq(Pasos)
         /\ <<>> \o Tail(pasos[w]) = Tail(pasos[w])
  BY Quedan DEF TotInv, EnRegla, LasCuentas, UnaTrabaja, TiposPasos

\* While receipts are to be removed or made the accounts are right.
LEMMA TrabajoTranquilo ==
  ASSUME TotInv, NEW w \in Ventanas, NEW que \in {"suelta", "quita", "genera"}, Hace(w, que)
  PROVE  /\ \A m \in Miembros \ sospechosa : Bien(m)
         /\ Tranquilo(Tail(pasos[w]))
  BY Trabajo, Quedan DEF EnCurso, Hace

\* Window w stores the totals of a member object, and goes on.
LEMMA TrasTotales ==
  ASSUME NEW w \in Ventanas, NEW o \in [m : Miembros, tot : Totales], NEW u \in Totales,
         TotInv, IInv', pasos[w] # <<>>, Guarda(w, o, u),
         pasos' = [pasos EXCEPT ![w] = Tail(pasos[w])], UNCHANGED <<cobro, ventana>>,
         sospechosa \subseteq sospechosa', sospechosa' \subseteq Miembros,
         Anticuado(o) => o.m \in sospechosa',
         \/ /\ Head(pasos[w]).hace \in {"guarda", "borra"}
            /\ o.m = Head(pasos[w]).m \/ {o.m, Head(pasos[w]).m} \subseteq sospechosa'
         \/ Head(pasos[w]).hace = "pagos" /\ o = titular[w],
         o.m \notin sospechosa' =>
           /\ u.importe = Importes(cobro, o.m)
           /\ o.m \notin Ignoran => u.resto = u.importe - u.pagos
           /\ TrasPagos(Tail(pasos[w])) \/ (o.m \notin Ignoran => u.pagos = Cobros(cobro, o.m))
  PROVE  EnRegla'
<1> DEFINE s == Tail(pasos[w])
           p == Head(pasos[w])
<1>1. /\ \A v \in Ventanas \ {w} : pasos[v] = <<>>
      /\ \A m \in Miembros \ sospechosa : EnCurso(w, m)
      /\ s \in Seq(Pasos)
  BY Trabajo
<1>2. (Tranquilo(s) \/ TrasPagos(s)) /\ EnOrden(s)
  BY Trabajo, Quedan
<1>3. /\ miembro' \in [Miembros -> Totales]
      /\ titular' \in [Ventanas -> [m : Miembros, tot : Totales] \cup {Ninguna}]
      /\ \A m \in Miembros \ {o.m} : miembro'[m] = miembro[m]
      /\ ~Anticuado(o) => miembro'[o.m] = u
      /\ titular'[w] = [m |-> o.m, tot |-> u]
  BY TrasGuarda DEF TotInv, EnRegla, TypeOKSocias
<1>4. titular'[w] # Ninguna
  <2>1. [m |-> o.m, tot |-> u] \in [m : Miembros, tot : Totales]  OBVIOUS
  <2> QED  BY <1>3, <2>1, NingunaAssumption
<1> HIDE DEF s
<1>5. TiposPasos' /\ UnaTrabaja' /\ pasos'[w] = s /\ \A v \in Ventanas \ {w} : pasos'[v] = <<>>
  <2>1. pasos' = [pasos EXCEPT ![w] = s]  BY DEF s
  <2> QED  BY <1>1, <1>2, <2>1, TrasLista DEF TotInv, EnRegla
<1>6. TypeOKSocias'
  BY <1>3, <1>4, <1>5, TiposTras DEF TotInv, EnRegla, TypeOKSocias
<1>10. Tranquilo(s) /\ s # <<>> => Head(s).hace \in {"suelta", "quita", "genera"}
  BY <1>1 DEF Tranquilo
<1>7. ASSUME NEW m \in Miembros \ sospechosa', m # o.m
      PROVE  (pasos'[w] = <<>> => Bien(m)') /\ (pasos'[w] # <<>> => EnCurso(w, m)')
  <2>1. Bien(m)  BY <1>1, <1>7 DEF EnCurso, Hace
  <2>2. Bien(m)'  BY <1>3, <1>7, <2>1 DEF Bien, RestoBien
  <2>3. pasos'[w] # <<>> => Head(pasos'[w]).hace \notin {"guarda", "borra"}
    BY <1>2, <1>5, <1>10 DEF TrasPagos
  <2>4. titular'[w].m # m  BY <1>3, <1>7
  <2>5. pasos'[w] # <<>> => EnCurso(w, m)'  BY <2>2, <2>3, <2>4 DEF EnCurso, Hace
  <2> QED  BY <2>2, <2>5
<1>8. ASSUME NEW m \in Miembros \ sospechosa', m = o.m
      PROVE  (pasos'[w] = <<>> => Bien(m)') /\ (pasos'[w] # <<>> => EnCurso(w, m)')
  <2>1. miembro'[m] = u /\ titular'[w].m = m /\ titular'[w].tot = u  BY <1>3, <1>8
  <2>2. /\ miembro'[m].importe = Importes(cobro', m) /\ RestoBien(m)'
        /\ TrasPagos(s) \/ (m \notin Ignoran => miembro'[m].pagos = Cobros(cobro', m))
    BY <1>8, <2>1 DEF RestoBien, s
  <2>3. CASE TrasPagos(s)
    <3>1. PorSumar(titular[w], m)'  BY <2>1, <2>2 DEF PorSumar
    <3>2. pasos'[w] # <<>> /\ Head(pasos'[w]).hace = "pagos"  BY <1>5, <2>3 DEF TrasPagos
    <3> QED  BY <2>1, <3>1, <3>2 DEF EnCurso, Hace
  <2>4. CASE ~TrasPagos(s)
    <3>1. Bien(m)'  BY <2>2, <2>4 DEF Bien
    <3>2. pasos'[w] # <<>> => Head(pasos'[w]).hace \notin {"guarda", "borra", "pagos"}
      BY <1>2, <1>5, <1>10, <2>4
    <3> QED  BY <3>1, <3>2 DEF EnCurso, Hace
  <2> QED  BY <2>3, <2>4
<1>9. LasCuentas'  BY <1>5, <1>7, <1>8, DeUnaVentana
<1> QED  BY <1>5, <1>6, <1>9 DEF EnRegla

\* What a step that a behaviour left to do says.
LEMMA DeGuardar ==
  ASSUME NEW p \in Pasos
  PROVE  /\ p.hace = "guarda" => p.m \in Miembros /\ p.original \in Partes /\ p.nuevo \in Partes
         /\ p.hace = "borra" => p.m \in Miembros /\ p.original \in Partes
         /\ p.hace = "quita" => p.id \in IdsCobro
         /\ p.hace = "genera" => p.m \in Miembros
  BY DEF Pasos, ActPagosPaso, SueltaPaso

\* The behaviour of a receipt that was saved adds what changed.
LEMMA EnReglaGuardaTotales ==
  ASSUME TotInv, NEW w \in Ventanas, GuardaTotales(w), IInv'
  PROVE  EnRegla'
<1> DEFINE p == Head(pasos[w])
           o == RecFactura(w, p.m)
           t == o.tot
           u == AlGuardar(o.m, t, p.original, p.nuevo)
<1>1. /\ pasos[w] # <<>> /\ p.hace = "guarda" /\ Guarda(w, o, u)
      /\ sospechosa' = sospechosa \cup (IF o.m # p.m THEN {o.m, p.m} ELSE Dudosa(o))
      /\ pasos' = [pasos EXCEPT ![w] = <<>> \o Tail(pasos[w])]
      /\ UNCHANGED <<cobro, ventana>>
  BY DEF GuardaTotales, Hace, Anade, Siguen, Cambiado
<1>2. /\ p \in Pasos /\ <<>> \o Tail(pasos[w]) = Tail(pasos[w])
      /\ \A m \in Miembros \ sospechosa : EnCurso(w, m)
  BY <1>1, Trabajo
<1>3. p.m \in Miembros /\ p.original \in Partes /\ p.nuevo \in Partes
  BY <1>1, <1>2, DeGuardar
<1>4. o \in [m : Miembros, tot : Totales]  BY <1>3, ObjetoLeido DEF TotInv, EnRegla
<1>5. o.m \in Miembros /\ t \in Totales  BY <1>4
<1>6. /\ u \in Totales /\ u.importe = t.importe - p.original.importe + p.nuevo.importe
      /\ u.pagos = u.importe - (t.resto - p.original.resto + p.nuevo.resto)
      /\ o.m \notin Ignoran => u.resto = u.importe - u.pagos
  BY <1>3, <1>5, TrasGuardar
<1>7. ASSUME o.m \notin sospechosa'
      PROVE  /\ u.importe = Importes(cobro, o.m)
             /\ o.m \notin Ignoran => u.pagos = Cobros(cobro, o.m)
  <2>1. o.m = p.m /\ o.m \notin sospechosa /\ t = miembro[o.m]
    BY <1>1, <1>7 DEF Dudosa, Anticuado
  <2>2. PorGuardar(p, o.m)  BY <1>1, <1>2, <1>5, <2>1 DEF EnCurso, Hace
  <2>3. /\ t.importe \in Int /\ t.pagos \in Int /\ t.resto \in Int
        /\ p.original.importe \in Int /\ p.original.resto \in Int
        /\ p.nuevo.importe \in Int /\ p.nuevo.resto \in Int
    BY <1>3, <1>5 DEF Totales, Partes
  <2> HIDE DEF p, o, t, u
  <2> QED  BY <1>6, <2>1, <2>2, <2>3 DEF PorGuardar, RestoBien
<1>8. Anticuado(o) => o.m \in sospechosa'  BY <1>1 DEF Dudosa
<1>9. sospechosa \subseteq sospechosa' /\ sospechosa' \subseteq Miembros
  BY <1>1, <1>3, <1>5 DEF Dudosa, TotInv, EnRegla, TypeOKSocias
<1>10. o.m = p.m \/ {o.m, p.m} \subseteq sospechosa'  BY <1>1
<1>11. pasos' = [pasos EXCEPT ![w] = Tail(pasos[w])]  BY <1>1, <1>2
<1> HIDE DEF o, t, u
<1> QED  BY <1>1, <1>4, <1>6, <1>7, <1>8, <1>9, <1>10, <1>11, TrasTotales DEF p

\* The behaviour of a receipt that was removed takes its amount away, and not what was paid of it.
LEMMA EnReglaQuitaTotales ==
  ASSUME TotInv, NEW w \in Ventanas, QuitaTotales(w), IInv'
  PROVE  EnRegla'
<1> DEFINE p == Head(pasos[w])
           o == RecFactura(w, p.m)
           t == o.tot
           u == AlBorrar(o.m, t, p.original)
<1>1. /\ pasos[w] # <<>> /\ p.hace = "borra" /\ Guarda(w, o, u)
      /\ sospechosa' = sospechosa \cup (IF o.m # p.m THEN {o.m, p.m} ELSE Dudosa(o))
      /\ pasos' = [pasos EXCEPT ![w] = <<>> \o Tail(pasos[w])]
      /\ UNCHANGED <<cobro, ventana>>
  BY DEF QuitaTotales, Hace, Anade, Siguen, Cambiado
<1>2. /\ p \in Pasos /\ <<>> \o Tail(pasos[w]) = Tail(pasos[w])
      /\ pasos[w] \in Seq(Pasos) /\ EnOrden(pasos[w])
      /\ \A m \in Miembros \ sospechosa : EnCurso(w, m)
  BY <1>1, Trabajo
<1>3. p.m \in Miembros /\ p.original \in Partes /\ TrasPagos(Tail(pasos[w]))
  BY <1>1, <1>2, DeGuardar, Quedan
<1>4. o \in [m : Miembros, tot : Totales]  BY <1>3, ObjetoLeido DEF TotInv, EnRegla
<1>5. o.m \in Miembros /\ t \in Totales  BY <1>4
<1>6. /\ u \in Totales /\ u.importe = t.importe - p.original.importe
      /\ o.m \notin Ignoran => u.resto = u.importe - u.pagos
  BY <1>3, <1>5, TrasBorrar
<1>7. o.m \notin sospechosa' => u.importe = Importes(cobro, o.m)
  <2> SUFFICES ASSUME o.m \notin sospechosa' PROVE u.importe = Importes(cobro, o.m)  OBVIOUS
  <2>1. o.m = p.m /\ o.m \notin sospechosa /\ t = miembro[o.m]
    BY <1>1 DEF Dudosa, Anticuado
  <2>2. PorBorrar(p, o.m)  BY <1>1, <1>2, <1>5, <2>1 DEF EnCurso, Hace
  <2> HIDE DEF p, o, t, u
  <2> QED  BY <1>6, <2>1, <2>2 DEF PorBorrar
<1>8. Anticuado(o) => o.m \in sospechosa'  BY <1>1 DEF Dudosa
<1>9. sospechosa \subseteq sospechosa' /\ sospechosa' \subseteq Miembros
  BY <1>1, <1>3, <1>5 DEF Dudosa, TotInv, EnRegla, TypeOKSocias
<1>10. o.m = p.m \/ {o.m, p.m} \subseteq sospechosa'  BY <1>1
<1>11. pasos' = [pasos EXCEPT ![w] = Tail(pasos[w])]  BY <1>1, <1>2
<1> HIDE DEF o, t, u
<1> QED  BY <1>1, <1>3, <1>4, <1>6, <1>7, <1>8, <1>9, <1>10, <1>11, TrasTotales DEF p

\* Pagado is the sum of the invariant.
LEMMA PagadoEs ==
  ASSUME TypeOKSocias, NEW m
  PROVE  Pagado(m) = Cobros(cobro, m) /\ Pagado(m) \in Int
<1>1. Pagado(m) = Cobros(cobro, m)  BY DEF Pagado, Cobros, DeMiembro
<1>2. IsFiniteSet(IdsCobro)  BY FS_Interval, MaxCobrosAssumption DEF IdsCobro
<1>3. cobro \in [IdsCobro -> FilasCobro \cup {Ninguna}]  BY DEF TypeOKSocias
<1>4. \A i \in IdsCobro : Pago(cobro, m)[i] \in Int  BY <1>3 DEF Pago, FilasCobro
<1>5. Cobros(cobro, m) \in Int  BY <1>2, <1>3, <1>4, CobrosEs, SumInt
<1> QED  BY <1>1, <1>5

\* actPagos sums the payments again, and stores the sum if it is another.
LEMMA EnReglaActPagos ==
  ASSUME TotInv, NEW w \in Ventanas, ActPagos(w), IInv'
  PROVE  EnRegla'
<1> DEFINE o == titular[w]
           t == [o.tot EXCEPT !.pagos = Pagado(o.m)]
           u == ActResto(o.m, t)
           s == Tail(pasos[w])
<1>1. /\ pasos[w] # <<>> /\ Head(pasos[w]).hace = "pagos" /\ UNCHANGED <<cobro, ventana>>
      /\ pasos' = [pasos EXCEPT ![w] = <<>> \o Tail(pasos[w])]
      /\ IF Pagado(o.m) = o.tot.pagos THEN UNCHANGED <<miembro, titular, sospechosa>>
         ELSE Guarda(w, o, u) /\ sospechosa' = sospechosa \cup Dudosa(o)
  BY DEF ActPagos, Hace, Anade, Siguen, Cambiado
<1>2. /\ <<>> \o Tail(pasos[w]) = Tail(pasos[w]) /\ s \in Seq(Pasos) /\ Tranquilo(s)
      /\ \A v \in Ventanas \ {w} : pasos[v] = <<>>
      /\ \A m \in Miembros \ sospechosa : EnCurso(w, m)
  BY <1>1, Trabajo, Quedan
<1>3. o \in [m : Miembros, tot : Totales]
  BY <1>1 DEF TotInv, EnRegla, TypeOKSocias, Hace
<1>4. o.m \in Miembros /\ o.tot \in Totales  BY <1>3
<1>5. Pagado(o.m) = Cobros(cobro, o.m) /\ Pagado(o.m) \in Int  BY PagadoEs DEF TotInv, EnRegla
<1>6. /\ t \in Totales /\ t.importe = o.tot.importe /\ t.pagos = Pagado(o.m)
  BY <1>4, <1>5 DEF Totales
<1>7. /\ u \in Totales /\ u.importe = o.tot.importe /\ u.pagos = Pagado(o.m)
      /\ o.m \notin Ignoran => u.resto = u.importe - u.pagos
  <2> HIDE DEF t
  <2>1. /\ u \in Totales /\ u.importe = t.importe /\ u.pagos = t.pagos
        /\ o.m \notin Ignoran => u.resto = t.importe - t.pagos
    BY <1>6, TrasActResto
  <2> QED  BY <1>6, <2>1
<1>8. o.m \notin sospechosa => PorSumar(o, o.m)
  BY <1>1, <1>2, <1>4 DEF EnCurso, Hace
<1>9. \A m \in Miembros \ sospechosa : m # o.m => Bien(m)
  BY <1>1, <1>2 DEF EnCurso, Hace
<1>10. pasos' = [pasos EXCEPT ![w] = s]  BY <1>1, <1>2
<1>11. CASE Pagado(o.m) = o.tot.pagos
  <2>1. \A m \in Miembros \ sospechosa : Bien(m)
    <3>1. o.m \notin sospechosa => Bien(o.m)
      BY <1>5, <1>8, <1>11 DEF PorSumar, Bien
    <3> QED  BY <1>9, <3>1
  <2>2. UNCHANGED <<miembro, cobro, sospechosa>> /\ UNCHANGED <<ventana, titular>>
    BY <1>1, <1>11
  <2>3. /\ ventana' \in [Ventanas -> [id : IdsCobro, fila : FilasCobro] \cup {Ninguna}]
        /\ titular' \in [Ventanas -> [m : Miembros, tot : Totales] \cup {Ninguna}]
    BY <2>2 DEF TotInv, EnRegla, TypeOKSocias
  <2> HIDE DEF s
  <2> QED  BY <1>2, <1>10, <2>1, <2>2, <2>3, EnReglaTranquila
<1>12. CASE Pagado(o.m) # o.tot.pagos
  <2>1. Guarda(w, o, u) /\ sospechosa' = sospechosa \cup Dudosa(o)  BY <1>1, <1>12
  <2>2. Anticuado(o) => o.m \in sospechosa'  BY <2>1 DEF Dudosa
  <2>3. sospechosa \subseteq sospechosa' /\ sospechosa' \subseteq Miembros
    BY <1>4, <2>1 DEF Dudosa, TotInv, EnRegla, TypeOKSocias
  <2>4. o.m \notin sospechosa' =>
          u.importe = Importes(cobro, o.m) /\ (o.m \notin Ignoran => u.pagos = Cobros(cobro, o.m))
    BY <1>5, <1>7, <1>8, <2>3 DEF PorSumar
  <2>5. pasos' = [pasos EXCEPT ![w] = Tail(pasos[w])]  BY <1>10
  <2> HIDE DEF u, s
  <2>6. o = titular[w]  OBVIOUS
  <2> HIDE DEF o
  <2> QED  BY <1>1, <1>3, <1>7, <2>1, <2>2, <2>3, <2>4, <2>5, <2>6, TrasTotales
<1> QED  BY <1>11, <1>12

\* A step of the list that changes no table.
LEMMA EnReglaSinTablas ==
  ASSUME TotInv, NEW w \in Ventanas, NEW que \in {"suelta", "quita", "genera"}, IInv',
         Hace(w, que), Siguen(w, <<>>), UNCHANGED <<miembro, cobro, sospechosa, ventana>>,
         titular' \in [Ventanas -> [m : Miembros, tot : Totales] \cup {Ninguna}]
  PROVE  EnRegla'
<1> DEFINE s == Tail(pasos[w])
<1>1. /\ pasos[w] # <<>>
      /\ \A m \in Miembros \ sospechosa : Bien(m)
      /\ Tranquilo(s)
  BY TrabajoTranquilo DEF Hace
<1>2. /\ <<>> \o Tail(pasos[w]) = Tail(pasos[w]) /\ s \in Seq(Pasos)
      /\ \A v \in Ventanas \ {w} : pasos[v] = <<>>
  BY <1>1, Trabajo
<1>3. pasos' = [pasos EXCEPT ![w] = s]  BY <1>2 DEF Siguen, Cambiado
<1>4. ventana' \in [Ventanas -> [id : IdsCobro, fila : FilasCobro] \cup {Ninguna}]
  BY DEF TotInv, EnRegla, TypeOKSocias
<1> HIDE DEF s
<1> QED  BY <1>1, <1>2, <1>3, <1>4, EnReglaTranquila

\* The receipt object is deleted.
LEMMA EnReglaSuelta ==
  ASSUME TotInv, NEW w \in Ventanas, SueltaCobro(w), IInv'
  PROVE  EnRegla'
<1>1. titular' \in [Ventanas -> [m : Miembros, tot : Totales] \cup {Ninguna}]
  BY DEF SueltaCobro, Cambiado, TotInv, EnRegla, TypeOKSocias
<1>2. /\ Hace(w, "suelta") /\ Siguen(w, <<>>)
      /\ UNCHANGED <<miembro, cobro, sospechosa, ventana>>
  BY DEF SueltaCobro, tablas
<1> QED  BY <1>1, <1>2, EnReglaSinTablas

\* delPagos removes the next receipt, if it is still there.
LEMMA EnReglaQuita ==
  ASSUME TotInv, NEW w \in Ventanas, QuitaCobro(w), IInv'
  PROVE  EnRegla'
<1> DEFINE p == Head(pasos[w])
           i == p.id
           c == cobro[i]
           q == c.m
           t == Tail(pasos[w])
<1>1. Hace(w, "quita") /\ pasos[w] # <<>> /\ p.hace = "quita"  BY DEF QuitaCobro, Hace
<1>2. /\ ventana' \in [Ventanas -> [id : IdsCobro, fila : FilasCobro] \cup {Ninguna}]
      /\ titular' \in [Ventanas -> [m : Miembros, tot : Totales] \cup {Ninguna}]
      /\ UNCHANGED <<miembro, sospechosa, ventana>>
      /\ sospechosa \subseteq sospechosa' /\ sospechosa' \subseteq Miembros
  BY DEF QuitaCobro, TotInv, EnRegla, TypeOKSocias
<1>3. CASE c = Ninguna
  BY <1>1, <1>2, <1>3, EnReglaSinTablas DEF QuitaCobro
<1>4. CASE c # Ninguna
  <2>1. /\ cobro' = [cobro EXCEPT ![i] = Ninguna]
        /\ pasos' = [pasos EXCEPT ![w] = <<AlBorrarPaso(q, De(c)), ActPagosPaso>> \o t]
    BY <1>4 DEF QuitaCobro, Siguen, Cambiado
  <2>2. /\ p \in Pasos /\ t \in Seq(Pasos)
        /\ \A v \in Ventanas \ {w} : pasos[v] = <<>>
    BY <1>1, Trabajo
  <2>3. /\ \A m \in Miembros \ sospechosa : Bien(m)
        /\ Tranquilo(t)
    BY <1>1, TrabajoTranquilo
  <2>4. i \in IdsCobro  BY <1>1, <2>2, DeGuardar
  <2>5. c \in FilasCobro  BY <1>4, <2>4 DEF TotInv, EnRegla, TypeOKSocias
  <2> DEFINE a == De(c)
             n == Vacio
             r == Ninguna
  <2>6. q \in Miembros /\ a \in Partes /\ n \in Partes
    BY <2>5 DEF FilasCobro, De, Partes, Vacio
  <2>7. /\ r \in FilasCobro \cup {Ninguna} /\ (r # Ninguna => r.m = q) /\ r = Ninguna
        /\ q \notin sospechosa' => a = IF cobro[i] = Ninguna THEN Vacio ELSE De(cobro[i])
        /\ q \notin sospechosa' => n = IF r = Ninguna THEN Vacio ELSE De(r)
        /\ cobro[i] # Ninguna => cobro[i].m = q
        /\ cobro' = [cobro EXCEPT ![i] = r]
        /\ pasos' = [pasos EXCEPT ![w] = <<AlBorrarPaso(q, a), ActPagosPaso>> \o t]
    BY <1>4, <2>1
  <2> HIDE DEF p, i, c, q, t, a, n, r
  <2> QED  BY <1>2, <2>2, <2>3, <2>4, <2>6, <2>7, EnReglaEscribe
<1> QED  BY <1>3, <1>4

\* The batch charges the next member, if it has not yet.
LEMMA EnReglaGenera ==
  ASSUME TotInv, NEW w \in Ventanas, Genera(w), IInv'
  PROVE  EnRegla'
<1> DEFINE p == Head(pasos[w])
           q == p.m
           t == Tail(pasos[w])
           tiene == (\E i \in DeMiembro(q) : cobro[i].remesa) \/ ultimoCobro = MaxCobros
<1>1. Hace(w, "genera") /\ pasos[w] # <<>> /\ p.hace = "genera"  BY DEF Genera, Hace
<1>2. /\ ventana' \in [Ventanas -> [id : IdsCobro, fila : FilasCobro] \cup {Ninguna}]
      /\ titular' \in [Ventanas -> [m : Miembros, tot : Totales] \cup {Ninguna}]
      /\ UNCHANGED <<miembro, sospechosa, ventana>>
      /\ sospechosa \subseteq sospechosa' /\ sospechosa' \subseteq Miembros
  BY DEF Genera, TotInv, EnRegla, TypeOKSocias
<1>3. CASE tiene
  <2>1. Siguen(w, <<>>) /\ UNCHANGED cobro  BY <1>3 DEF Genera
  <2> QED  BY <1>1, <1>2, <2>1, EnReglaSinTablas
<1>4. CASE ~tiene
  <2> DEFINE k == ultimoCobro + 1
             r == Fila(q, Cuota, Cuota, TRUE)
             n == [importe |-> Cuota, resto |-> Cuota]
             o == Vacio
  <2>1. /\ cobro' = [cobro EXCEPT ![k] = r]
        /\ pasos' = [pasos EXCEPT ![w] = <<AlGuardarPaso(q, o, n), ActPagosPaso, SueltaPaso>> \o t]
    BY <1>4 DEF Genera, Siguen, Cambiado
  <2>2. /\ p \in Pasos /\ t \in Seq(Pasos)
        /\ \A v \in Ventanas \ {w} : pasos[v] = <<>>
    BY <1>1, Trabajo
  <2>3. /\ \A m \in Miembros \ sospechosa : Bien(m)
        /\ Tranquilo(t)
    BY <1>1, TrabajoTranquilo
  <2>4. q \in Miembros  BY <1>1, <2>2, DeGuardar
  <2>5. r \in FilasCobro /\ r.m = q /\ De(r) = n /\ n \in Partes /\ o \in Partes
    BY <2>4, CantidadesAssumption DEF Fila, FilasCobro, De, Partes, Vacio
  <2>6. r # Ninguna  BY <2>5, NingunaAssumption
  <2>7. k \in IdsCobro /\ cobro[k] = Ninguna
    <3>1. ultimoCobro # MaxCobros  BY <1>4
    <3> QED  BY <3>1, MaxCobrosAssumption DEF TotInv, IInv, Formas, SinEstrenar, IdsCobro
  <2>8. /\ q \notin sospechosa' => o = IF cobro[k] = Ninguna THEN Vacio ELSE De(cobro[k])
        /\ q \notin sospechosa' => n = IF r = Ninguna THEN Vacio ELSE De(r)
        /\ cobro[k] # Ninguna => cobro[k].m = q
    BY <2>5, <2>6, <2>7
  <2> HIDE DEF p, q, t, k, r, n, o
  <2> QED  BY <1>2, <2>1, <2>2, <2>3, <2>4, <2>5, <2>7, <2>8, EnReglaEscribe
<1> QED  BY <1>3, <1>4

-------------------------------------------------------------------------------
(* The totals. *)

\* Nobody was charged anything, and nobody has paid.
LEMMA InitEnRegla ==
  ASSUME InitSocias
  PROVE  EnRegla
<1>1. IsFiniteSet(IdsCobro)  BY FS_Interval, MaxCobrosAssumption DEF IdsCobro
<1>2. cobro \in [IdsCobro -> FilasCobro \cup {Ninguna}]  BY DEF InitSocias
<1>3. ASSUME NEW m \in Miembros
      PROVE  Bien(m)
  <2>1. \A i \in IdsCobro : Importe(cobro, m)[i] = 0 /\ Pago(cobro, m)[i] = 0
    BY DEF InitSocias, Importe, Pago
  <2>2. Importes(cobro, m) = 0 /\ Cobros(cobro, m) = 0
    BY <1>1, <1>2, <2>1, ImportesEs, CobrosEs, SumZero
  <2> QED  BY <2>2 DEF InitSocias, Bien, RestoBien, SinTotales
<1>4. TypeOKSocias
  <2>1. SinTotales \in Totales  BY DEF SinTotales, Totales
  <2> QED  BY <1>2, <2>1, MaxCobrosAssumption DEF InitSocias, TypeOKSocias, Hace
<1>5. TiposPasos  BY ListaVacia DEF InitSocias, TiposPasos, EnOrden
<1>6. UnaTrabaja /\ LasCuentas  BY <1>3 DEF InitSocias, UnaTrabaja, LasCuentas
<1> QED  BY <1>4, <1>5, <1>6 DEF EnRegla

\* Nothing changes.
LEMMA QuietoEnRegla ==
  ASSUME EnRegla, UNCHANGED varSocias
  PROVE  EnRegla'
<1> USE DEF varSocias, tablas
<1>1. TypeOKSocias'  BY DEF EnRegla, TypeOKSocias, Hace
<1>2. TiposPasos' /\ UnaTrabaja'
  BY DEF EnRegla, TiposPasos, EnOrden, TrasPagos, Tranquilo, UnaTrabaja
<1>3. LasCuentas'
  <2>1. \A m \in Miembros : Bien(m) => Bien(m)'  BY DEF Bien, RestoBien
  <2>2. \A w \in Ventanas, m \in Miembros : EnCurso(w, m) => EnCurso(w, m)'
    BY <2>1 DEF EnCurso, Hace, PorGuardar, PorBorrar, PorSumar, RestoBien
  <2>3. (Libre' <=> Libre) /\ sospechosa' = sospechosa /\ pasos' = pasos  BY DEF Libre
  <2> QED  BY <2>1, <2>2, <2>3 DEF EnRegla, LasCuentas
<1> QED  BY <1>1, <1>2, <1>3 DEF EnRegla

\* Every step keeps the invariant.
LEMMA PasoTotInv ==
  ASSUME TotInv, [NextSocias]_varSocias
  PROVE  TotInv'
<1>1. IInv'
  <2>1. CASE NextSocias  BY <2>1, OperacionIInv, PasoIInv DEF NextSocias, TotInv
  <2>2. CASE UNCHANGED varSocias  BY <2>2, SinTocar DEF varSocias, tablas, TotInv
  <2> QED  BY <2>1, <2>2
<1>2. ASSUME NEW w \in Ventanas, Operacion(w)
      PROVE  EnRegla'
  BY <1>1, <1>2, EnReglaVeCobro, EnReglaCierra, EnReglaNuevo, EnReglaModifica, EnReglaPaga,
     EnReglaAnula, EnReglaBorra, EnReglaGeneraRecibos, EnReglaGuardaMiembro DEF Operacion
<1>3. ASSUME NEW w \in Ventanas, Paso(w)
      PROVE  EnRegla'
  BY <1>1, <1>3, EnReglaGuardaTotales, EnReglaQuitaTotales, EnReglaActPagos, EnReglaSuelta,
     EnReglaQuita, EnReglaGenera DEF Paso
<1>4. UNCHANGED varSocias => EnRegla'  BY QuietoEnRegla DEF TotInv
<1>5. EnRegla'  BY <1>2, <1>3, <1>4 DEF NextSocias
<1> QED  BY <1>1, <1>5 DEF TotInv

\* Every variable keeps its type, with any windows and members: the receipt object that sums
\* the payments (RecCobro::actPagos) still holds a member.
THEOREM TiposDeSocias ==
  SpecSocias => []TypeOKSocias
<1>1. InitSocias => TotInv  BY InitIInv, InitEnRegla DEF TotInv
<1>2. TotInv /\ [NextSocias]_varSocias => TotInv'  BY PasoTotInv
<1>3. TotInv => TypeOKSocias  BY DEF TotInv, EnRegla
<1> QED  BY <1>1, <1>2, <1>3, PTL DEF SpecSocias

\* When all rest the totals are what the property says.
LEMMA TotInvTotales ==
  ASSUME TotInv
  PROVE  TotalesDelMiembro
<1> SUFFICES ASSUME Libre, NEW m \in Miembros \ sospechosa
             PROVE  /\ miembro[m].importe = MapThenSumSet(LAMBDA i : cobro[i].importe, DeMiembro(m))
                    /\ m \notin Ignoran => /\ miembro[m].pagos = Pagado(m)
                                          /\ miembro[m].resto = miembro[m].importe - miembro[m].pagos
  BY DEF TotalesDelMiembro
<1>1. Bien(m)  BY Descanso
<1>2. Importes(cobro, m) = MapThenSumSet(LAMBDA i : cobro[i].importe, DeMiembro(m))
  BY DEF Importes, DeMiembro
<1>3. Pagado(m) = Cobros(cobro, m)  BY PagadoEs DEF TotInv, EnRegla
<1> QED  BY <1>1, <1>2, <1>3 DEF Bien, RestoBien

\* Between two operations a member owes what its receipts say, after any sequence of receipts
\* charged, changed, paid, cancelled, removed and generated in any number of windows, unless one
\* held the member as it was before, or another member: CobroBehavior::save and remove, and
\* RecCobro::actPagos.
THEOREM TotalesSiempre ==
  SpecSocias => []TotalesDelMiembro
<1>1. InitSocias => TotInv  BY InitIInv, InitEnRegla DEF TotInv
<1>2. TotInv /\ [NextSocias]_varSocias => TotInv'  BY PasoTotInv
<1>3. TotInv => TotalesDelMiembro  BY TotInvTotales
<1> QED  BY <1>1, <1>2, <1>3, PTL DEF SpecSocias
===============================================================================
