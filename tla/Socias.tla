-------------------------------- MODULE Socias --------------------------------
(***************************************************************************)
(* What a member of a project owes (module socias): the receipts (COBRO) of *)
(* a member keep IMPORTETOTAL, PAGOSTOTAL and RESTOTOTAL of its MIEMBRO row *)
(* up to date.  A behaviour of the table COBRO, CobroBehavior, adds what a  *)
(* receipt changed to the member object that the receipt object holds;      *)
(* RecCobro then sums the payments of the receipts (actPagos).              *)
(*                                                                         *)
(* A window is a form on receipts, or on members, or the one that generates *)
(* the receipts of a batch (remesa).  "sospechosa" collects the members to  *)
(* whom something happened that the code does not allow for.                *)
(***************************************************************************)
EXTENDS Integers, Sequences, FiniteSets, FiniteSetsExt, SequencesExt

CONSTANTS
  Ventanas,   (* Windows of a workstation.                                 *)
  Miembros,   (* Members.                                                  *)
  Ignoran,    (* Those whose form of payment is SeIgnora: nothing is owed. *)
  Cuota,      (* What a batch charges a member.                            *)
  Cargos,     (* What a user may charge a member.                          *)
  Ninguna,    (* No row, no object.                                        *)
  MaxCobros,   (* Receipts ever inserted: bounds the model.                *)
  MaxSospechas (* Members that may come to be in doubt before all stops.   *)

ASSUME MaxCobrosAssumption  == MaxCobros \in Nat
ASSUME CantidadesAssumption == Cuota \in Int /\ Cargos \subseteq Int
ASSUME MiembrosAssumption   == IsFiniteSet(Miembros)

VARIABLES
  miembro,     (* miembro[m]: the totals stored of member m.               *)
  cobro,       (* The receipts stored, by id.                              *)
  ultimoCobro, (* The last id given to a receipt.                          *)
  ventana,     (* ventana[w]: the receipt object w shows, as it was read.  *)
  titular,     (* titular[w]: the member object it holds (pRecFactura).    *)
  pasos,       (* pasos[w]: what remains of w's operation.                 *)
  sospechosa   (* Members to whom something happened.                      *)

tablas    == <<miembro, cobro, ultimoCobro>>
varSocias == <<tablas, ventana, titular, pasos, sospechosa>>

IdsCobro == 1 .. MaxCobros
SinTotales == [importe |-> 0, pagos |-> 0, resto |-> 0]

InitSocias ==
  /\ miembro = [m \in Miembros |-> SinTotales]
  /\ cobro = [i \in IdsCobro |-> Ninguna]
  /\ ultimoCobro = 0
  /\ ventana = [w \in Ventanas |-> Ninguna]
  /\ titular = [w \in Ventanas |-> Ninguna]
  /\ pasos = [w \in Ventanas |-> <<>>]
  /\ sospechosa = {}

-------------------------------------------------------------------------------
(* Objects.                                                                *)

Cambiado(f, w, x) == [f EXCEPT ![w] = x]

\* The windows of one workstation: what a user asks for is done before anything else.
Libre == \A w \in Ventanas : pasos[w] = <<>>
Puede == Libre /\ Cardinality(sospechosa) <= MaxSospechas

DeMiembro(m) == {i \in IdsCobro : cobro[i] # Ninguna /\ cobro[i].m = m}
Pagado(m) == MapThenSumSet(LAMBDA i : cobro[i].importe - cobro[i].resto, DeMiembro(m))

LeeMiembro(m) == [m |-> m, tot |-> miembro[m]]

\* RecCobro::getRecFactura: an object that has read a member reads no other.
RecFactura(w, m) == IF titular[w] = Ninguna THEN LeeMiembro(m) ELSE titular[w]

\* RecMiembro::save begins with actRestoFactura.
ActResto(m, t) ==
  [t EXCEPT !.resto = IF m \in Ignoran THEN 0 ELSE t.importe - t.pagos]

\* Mutant: the amount that was read is not taken away.
AlGuardarSinOriginal(m, t, original, nuevo) ==
  LET importe == t.importe + nuevo.importe
      resto   == t.resto - original.resto + nuevo.resto
  IN  ActResto(m, [importe |-> importe, resto |-> resto, pagos |-> importe - resto])

\* CobroBehavior::save, with the receipt as it was read and as it is saved.
AlGuardar(m, t, original, nuevo) ==
  LET importe == t.importe - original.importe + nuevo.importe
      resto   == t.resto - original.resto + nuevo.resto
  IN  ActResto(m, [importe |-> importe, resto |-> resto, pagos |-> importe - resto])

\* CobroBehavior::remove: there is no field PAGOS in COBRO.
AlBorrar(m, t, original) ==
  ActResto(m, [importe |-> t.importe - original.importe,
               resto |-> t.resto - original.resto, pagos |-> t.pagos])

Vacio == [importe |-> 0, resto |-> 0]
De(f) == [importe |-> f.importe, resto |-> f.resto]

AlGuardarPaso(m, o, n) == [hace |-> "guarda", m |-> m, original |-> o, nuevo |-> n]
AlBorrarPaso(m, o)     == [hace |-> "borra", m |-> m, original |-> o]
ActPagosPaso           == [hace |-> "pagos"]
SueltaPaso             == [hace |-> "suelta"]
QuitaPaso(i)           == [hace |-> "quita", id |-> i]
GeneraPaso(m)          == [hace |-> "genera", m |-> m]

Anade(S) == sospechosa' = sospechosa \cup S
Siguen(w, ps) == pasos' = Cambiado(pasos, w, ps \o Tail(pasos[w]))
Hace(w, que) == pasos[w] # <<>> /\ Head(pasos[w]).hace = que
Fila(m, n, r, b) == [m |-> m, importe |-> n, resto |-> r, remesa |-> b]

\* What a member object in memory no longer agrees with.
Anticuado(o) == miembro[o.m] # o.tot

Dudosa(o) == IF Anticuado(o) THEN {o.m} ELSE {}

-------------------------------------------------------------------------------
(* The windows.                                                            *)

\* A form on receipts goes to one: scatterFactura asks for its member.
VeCobro(w) ==
  /\ Puede
  /\ \E i \in IdsCobro :
       /\ cobro[i] # Ninguna
       /\ ventana' = Cambiado(ventana, w, [id |-> i, fila |-> cobro[i]])
       /\ titular' = Cambiado(titular, w, RecFactura(w, cobro[i].m))
  /\ UNCHANGED <<tablas, pasos, sospechosa>>

CierraVentana(w) ==
  /\ Puede /\ (ventana[w] # Ninguna \/ titular[w] # Ninguna)
  /\ ventana' = Cambiado(ventana, w, Ninguna)
  /\ titular' = Cambiado(titular, w, Ninguna)
  /\ UNCHANGED <<tablas, pasos, sospechosa>>

\* Mutant: the receipt is deleted before the payments are summed.
NuevoCobroSueltaAntes(w) ==
  /\ Puede /\ ventana[w] = Ninguna /\ titular[w] = Ninguna /\ ultimoCobro < MaxCobros
  /\ \E m \in Miembros, n \in Cargos :
       /\ ultimoCobro' = ultimoCobro + 1
       /\ cobro' = [cobro EXCEPT ![ultimoCobro'] = Fila(m, n, n, FALSE)]
       /\ titular' = Cambiado(titular, w, LeeMiembro(m))
       /\ pasos' = Cambiado(pasos, w,
            <<AlGuardarPaso(m, Vacio, [importe |-> n, resto |-> n]), SueltaPaso, ActPagosPaso>>)
  /\ UNCHANGED <<miembro, ventana, sospechosa>>

\* slotGenerarRecibo: a form of its own for a new receipt, whose member the user
\* chooses; it is closed when the receipt is saved.
NuevoCobro(w) ==
  /\ Puede /\ ventana[w] = Ninguna /\ titular[w] = Ninguna /\ ultimoCobro < MaxCobros
  /\ \E m \in Miembros, n \in Cargos :
       /\ ultimoCobro' = ultimoCobro + 1
       /\ cobro' = [cobro EXCEPT ![ultimoCobro'] = Fila(m, n, n, FALSE)]
       /\ titular' = Cambiado(titular, w, LeeMiembro(m))
       /\ pasos' = Cambiado(pasos, w,
            <<AlGuardarPaso(m, Vacio, [importe |-> n, resto |-> n]), ActPagosPaso, SueltaPaso>>)
  /\ UNCHANGED <<miembro, ventana, sospechosa>>

\* What a receipt's form writes: the row may have changed since it was read.
Escribe(w, f) ==
  LET i == ventana[w].id
  IN  /\ cobro' = [cobro EXCEPT ![i] = IF @ = Ninguna THEN Ninguna ELSE f]
      /\ ventana' = Cambiado(ventana, w, [id |-> i, fila |-> f])
      /\ Anade(IF cobro[i] = ventana[w].fila THEN {} ELSE {f.m})

\* accept: a pending receipt has its whole amount to pay.
ModificaCobro(w) ==
  /\ Puede /\ ventana[w] # Ninguna /\ ventana[w].fila.resto # 0
  /\ \E n \in Cargos :
       LET o == ventana[w].fila
           f == Fila(o.m, n, n, o.remesa)
       IN  /\ Escribe(w, f)
           /\ pasos' = Cambiado(pasos, w, <<AlGuardarPaso(o.m, De(o), De(f)), ActPagosPaso>>)
  /\ UNCHANGED <<miembro, ultimoCobro, titular>>

\* pushPagar: pagarRecibo with the whole amount, on the receipt read again, and
\* save(false), after which the payments are not summed.
PagaCobro(w) ==
  /\ Puede /\ ventana[w] # Ninguna /\ ventana[w].fila.resto # 0
  /\ cobro[ventana[w].id] # Ninguna
  /\ LET o == cobro[ventana[w].id]
         f == [o EXCEPT !.resto = 0]
     IN  /\ cobro' = [cobro EXCEPT ![ventana[w].id] = f]
         /\ ventana' = Cambiado(ventana, w, [id |-> ventana[w].id, fila |-> f])
         /\ pasos' = Cambiado(pasos, w, <<AlGuardarPaso(o.m, De(o), De(f))>>)
  /\ UNCHANGED <<miembro, ultimoCobro, titular, sospechosa>>

\* anularPagoRecibo, on the object as it was read when the form was refreshed.
AnulaCobro(w) ==
  /\ Puede /\ ventana[w] # Ninguna /\ ventana[w].fila.resto = 0
  /\ LET o == ventana[w].fila
         f == [o EXCEPT !.resto = o.importe]
     IN  /\ Escribe(w, f)
         /\ pasos' = Cambiado(pasos, w, <<AlGuardarPaso(o.m, De(o), De(f))>>)
  /\ UNCHANGED <<miembro, ultimoCobro, titular>>

\* canBeginEdit refuses a paid receipt.
BorraCobro(w) ==
  /\ Puede /\ ventana[w] # Ninguna /\ ventana[w].fila.resto # 0
  /\ LET o == ventana[w].fila
     IN  /\ cobro' = [cobro EXCEPT ![ventana[w].id] = Ninguna]
         /\ pasos' = Cambiado(pasos, w, <<AlBorrarPaso(o.m, De(o)), ActPagosPaso>>)
         /\ Anade(IF cobro[ventana[w].id] = o THEN {} ELSE {o.m})
  /\ ventana' = Cambiado(ventana, w, Ninguna)
  /\ UNCHANGED <<miembro, ultimoCobro, titular>>

\* FrmGenerarRecibos::accept: those who meet the user's conditions, are active and
\* have a quota, one after the other.
GeneraRecibos(w) ==
  /\ Puede /\ ventana[w] = Ninguna /\ titular[w] = Ninguna /\ ultimoCobro < MaxCobros
  /\ \E S \in SUBSET Miembros \ {{}} :
       LET ms == SetToSeq(S)
       IN  pasos' = Cambiado(pasos, w, [n \in DOMAIN ms |-> GeneraPaso(ms[n])])
  /\ UNCHANGED <<tablas, ventana, titular, sospechosa>>

\* RecMiembro::save(true): delCobros(true) removes every receipt, in the order in which
\* the server returns them, all through one receipt object; genCobros looks for a field
\* RESTO that MIEMBRO does not have, and makes none.
GuardaMiembro(w) ==
  /\ Puede /\ ventana[w] = Ninguna /\ titular[w] = Ninguna
  /\ \E m \in Miembros :
       LET is == SetToSeq(DeMiembro(m))
       IN  /\ is # <<>>
           /\ pasos' = Cambiado(pasos, w, [n \in DOMAIN is |-> QuitaPaso(is[n])] \o <<SueltaPaso>>)
  /\ UNCHANGED <<tablas, ventana, titular, sospechosa>>

-------------------------------------------------------------------------------
(* Statements.                                                             *)

\* The behaviour stores what it changed of the member object, whatever the row holds.
Guarda(w, o, t) ==
  /\ miembro' = [miembro EXCEPT ![o.m] =
                   [k \in DOMAIN t |-> IF t[k] = o.tot[k] THEN @[k] ELSE t[k]]]
  /\ titular' = Cambiado(titular, w, [m |-> o.m, tot |-> t])

\* afterSave of CobroBehavior.
GuardaTotales(w) ==
  /\ Hace(w, "guarda")
  /\ LET p == Head(pasos[w])
         o == RecFactura(w, p.m)
     IN  /\ Guarda(w, o, AlGuardar(o.m, o.tot, p.original, p.nuevo))
         /\ Anade(IF o.m # p.m THEN {o.m, p.m} ELSE Dudosa(o))
  /\ Siguen(w, <<>>)
  /\ UNCHANGED <<cobro, ultimoCobro, ventana>>

QuitaTotales(w) ==
  /\ Hace(w, "borra")
  /\ LET p == Head(pasos[w])
         o == RecFactura(w, p.m)
     IN  /\ Guarda(w, o, AlBorrar(o.m, o.tot, p.original))
         /\ Anade(IF o.m # p.m THEN {o.m, p.m} ELSE Dudosa(o))
  /\ Siguen(w, <<>>)
  /\ UNCHANGED <<cobro, ultimoCobro, ventana>>

\* actPagos sums the payments of the member held and stores the sum if it is not what
\* the object holds.
ActPagos(w) ==
  /\ Hace(w, "pagos")
  /\ LET o == titular[w]
         t == ActResto(o.m, [o.tot EXCEPT !.pagos = Pagado(o.m)])
     IN  IF Pagado(o.m) = o.tot.pagos THEN UNCHANGED <<miembro, titular, sospechosa>>
         ELSE Guarda(w, o, t) /\ Anade(Dudosa(o))
  /\ Siguen(w, <<>>)
  /\ UNCHANGED <<cobro, ultimoCobro, ventana>>

\* The receipt object is deleted.
SueltaCobro(w) ==
  /\ Hace(w, "suelta")
  /\ titular' = Cambiado(titular, w, Ninguna)
  /\ Siguen(w, <<>>)
  /\ UNCHANGED <<tablas, ventana, sospechosa>>

\* delPagos reads each receipt that it selected and removes it.
QuitaCobro(w) ==
  /\ Hace(w, "quita")
  /\ LET i == Head(pasos[w]).id
     IN  IF cobro[i] = Ninguna THEN Siguen(w, <<>>) /\ UNCHANGED cobro
         ELSE /\ cobro' = [cobro EXCEPT ![i] = Ninguna]
              /\ Siguen(w, <<AlBorrarPaso(cobro[i].m, De(cobro[i])), ActPagosPaso>>)
  /\ UNCHANGED <<miembro, ultimoCobro, ventana, titular, sospechosa>>

\* Mutant: the batch does not look whether the member has its receipt.
GeneraSiempre(w) ==
  /\ Hace(w, "genera")
  /\ LET m == Head(pasos[w]).m
     IN  IF ultimoCobro = MaxCobros
         THEN Siguen(w, <<>>) /\ UNCHANGED <<cobro, ultimoCobro>>
         ELSE /\ ultimoCobro' = ultimoCobro + 1
              /\ cobro' = [cobro EXCEPT ![ultimoCobro'] = Fila(m, Cuota, Cuota, TRUE)]
              /\ Siguen(w, <<AlGuardarPaso(m, Vacio, [importe |-> Cuota, resto |-> Cuota]),
                             ActPagosPaso, SueltaPaso>>)
  /\ UNCHANGED <<miembro, ventana, titular, sospechosa>>

\* A member gets one receipt in the batch, whatever the number of instalments of its
\* form of payment: the second is taken for the first.
Genera(w) ==
  /\ Hace(w, "genera")
  /\ LET m == Head(pasos[w]).m
     IN  IF (\E i \in DeMiembro(m) : cobro[i].remesa) \/ ultimoCobro = MaxCobros
         THEN Siguen(w, <<>>) /\ UNCHANGED <<cobro, ultimoCobro>>
         ELSE /\ ultimoCobro' = ultimoCobro + 1
              /\ cobro' = [cobro EXCEPT ![ultimoCobro'] = Fila(m, Cuota, Cuota, TRUE)]
              /\ Siguen(w, <<AlGuardarPaso(m, Vacio, [importe |-> Cuota, resto |-> Cuota]),
                             ActPagosPaso, SueltaPaso>>)
  /\ UNCHANGED <<miembro, ventana, titular, sospechosa>>

-------------------------------------------------------------------------------

Operacion(w) ==
  \/ VeCobro(w) \/ CierraVentana(w) \/ NuevoCobro(w) \/ ModificaCobro(w) \/ PagaCobro(w)
  \/ AnulaCobro(w) \/ BorraCobro(w) \/ GeneraRecibos(w) \/ GuardaMiembro(w)

Paso(w) ==
  \/ GuardaTotales(w) \/ QuitaTotales(w) \/ ActPagos(w)
  \/ SueltaCobro(w) \/ QuitaCobro(w) \/ Genera(w)

NextSocias == \E w \in Ventanas : Operacion(w) \/ Paso(w)

SpecSocias == InitSocias /\ [][NextSocias]_varSocias

-------------------------------------------------------------------------------
(* Properties.                                                             *)

Totales == [importe : Int, pagos : Int, resto : Int]
Partes  == [importe : Int, resto : Int]
FilasCobro == [m : Miembros, importe : Int, resto : Int, remesa : BOOLEAN]

ASSUME NingunaAssumption ==
  Ninguna \notin FilasCobro \cup [id : IdsCobro, fila : FilasCobro] \cup [m : Miembros, tot : Totales]

\* Types, and: the receipt object that sums the payments still holds a member.
TypeOKSocias ==
  /\ miembro \in [Miembros -> Totales]
  /\ cobro \in [IdsCobro -> FilasCobro \cup {Ninguna}]
  /\ ultimoCobro \in 0 .. MaxCobros
  /\ ventana \in [Ventanas -> [id : IdsCobro, fila : FilasCobro] \cup {Ninguna}]
  /\ titular \in [Ventanas -> [m : Miembros, tot : Totales] \cup {Ninguna}]
  /\ \A w \in Ventanas : Hace(w, "pagos") => titular[w] # Ninguna
  /\ sospechosa \subseteq Miembros

\* Between two operations a member owes what its receipts say, and its three totals
\* agree, after any sequence of receipts charged, changed, paid, cancelled, removed
\* and generated in several windows, unless a window held the member as it was
\* before, or held another member.  Of one whose payments are ignored only the amount
\* charged is right.
TotalesDelMiembro ==
  Libre =>
    \A m \in Miembros \ sospechosa :
      /\ miembro[m].importe = MapThenSumSet(LAMBDA i : cobro[i].importe, DeMiembro(m))
      /\ m \notin Ignoran => /\ miembro[m].pagos = Pagado(m)
                            /\ miembro[m].resto = miembro[m].importe - miembro[m].pagos

\* A batch charges a member once, however many times it is generated.
UnCobroPorRemesa ==
  \A m \in Miembros : Cardinality({i \in DeMiembro(m) : cobro[i].remesa}) <= 1
===============================================================================
