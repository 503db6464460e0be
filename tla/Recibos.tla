-------------------------------- MODULE Recibos --------------------------------
(***************************************************************************)
(* The receipts of an invoice (module pagos): saving the invoice deletes   *)
(* its pending receipts and generates them again, the receipts form pays,  *)
(* splits and cancels them, and the invoice keeps the amount collected     *)
(* (COBROS) and what is left (RESTO).                                      *)
(*                                                                         *)
(* Each workstation has an invoice form and a receipts form.  An object    *)
(* that a form has read is a copy; a save writes the fields that changed   *)
(* in the copy.  Amounts are whole cents, net of down payments (ENTREGA).  *)
(***************************************************************************)
EXTENDS Integers, FiniteSets, FiniteSetsExt

CONSTANTS
  Puestos,        (* Workstations, each with its two forms.                *)
  Facturas,       (* Invoices, by the id they have or will be given.       *)
  Nada,           (* No row, no object.                                    *)
  Borrada,        (* An invoice that was removed: its id is not used again.*)
  Totales,        (* What an invoice may add up to.                        *)
  TipoFormaPago,  (* "Contado", "GeneraRecibos", "Pendiente", "SeIgnora".  *)
  NumPlazos,      (* Instalments of the form of payment.                   *)
  DiasEntrePlazos,(* Days between them.                                    *)
  FechasNuevas,   (* Dates a user may type over a receipt's FECHAVALOR.    *)
  Cantidades,     (* What a user may type as the amount paid.              *)
  Reabrir,        (* The receipts form is closed between two receipts.     *)
  UnaVentana,     (* One form at a time in a workstation.                  *)
  Fallos,         (* Statements may fail and processes may die.            *)
  MaxRecibos      (* Receipts ever inserted: bounds the model.             *)

ASSUME TipoAssumption ==
  TipoFormaPago \in {"Contado", "GeneraRecibos", "Pendiente", "SeIgnora"}
ASSUME PlazosAssumption == NumPlazos \in Nat /\ DiasEntrePlazos \in Nat
ASSUME NumeroAssumption == MaxRecibos \in Nat
ASSUME CantidadAssumption == Cantidades \subseteq Nat \ {0} /\ Totales \subseteq Nat
ASSUME FechaAssumption == FechasNuevas \subseteq Nat
ASSUME NadaAssumption == Nada # Borrada

VARIABLES
  factura,  (* The invoices stored.                                        *)
  recibo,   (* The receipts stored.                                        *)
  ultimo,   (* The last receipt id given.                                  *)
  fra,      (* fra[p]: the invoice p's form edits.                         *)
  paso,     (* paso[p]: where p's invoice form is.                         *)
  quitar,   (* quitar[p]: receipts that delPagos selected and has not read.*)
  copia,    (* copia[p]: the invoice that delPagos' receipt object read.   *)
  plazo,    (* plazo[p]: the next instalment to generate.                  *)
  rec,      (* rec[p]: the receipt in p's receipts form, with its id.      *)
  cache,    (* cache[p]: the invoice that receipt object read (pRecFactura)*)
  pago      (* pago[p]: the payment in course: its phase, amount to go on. *)

bd     == <<factura, recibo, ultimo>>
forma  == <<fra, paso, quitar, copia, plazo>>
cobro  == <<rec, cache, pago>>
vars   == <<bd, forma, cobro>>

Ids     == 1 .. MaxRecibos
SinPago == [fase |-> "no", queda |-> 0]

Init ==
  /\ factura = [f \in Facturas |-> Nada]
  /\ recibo = [i \in Ids |-> Nada]
  /\ ultimo = 0
  /\ fra = [p \in Puestos |-> Nada]
  /\ paso = [p \in Puestos |-> "libre"]
  /\ quitar = [p \in Puestos |-> {}]
  /\ copia = [p \in Puestos |-> Nada]
  /\ plazo = [p \in Puestos |-> 1]
  /\ rec = [p \in Puestos |-> Nada]
  /\ cache = [p \in Puestos |-> Nada]
  /\ pago = [p \in Puestos |-> SinPago]

Pon(g, p, v) == [g EXCEPT ![p] = v]

-------------------------------------------------------------------------------
(* Rows, copies and the receipts of an invoice.                            *)

\* UPDATE: only the fields modified in the copy are written.
Modifica(fila, leido, nuevo) ==
  [k \in DOMAIN fila |-> IF nuevo[k] # leido[k] THEN nuevo[k] ELSE fila[k]]

Existe(f) == factura[f] \notin {Nada, Borrada}
LeeFactura(f) ==
  IF ~Existe(f) THEN Nada
  ELSE [fac |-> f, total |-> factura[f].total, cobros |-> factura[f].cobros,
        resto |-> factura[f].resto]
Campos(o) == [total |-> o.total, cobros |-> o.cobros, resto |-> o.resto]

\* getFacturaWhere, and the same with a state.
De(f)           == {i \in Ids : recibo[i] # Nada /\ recibo[i].fac = f}
DeEstado(f, e)  == {i \in De(f) : recibo[i].est = e}
\* SELECT SUM( IMPORTE - RESTO ), after the receipts have become rs.
Cobrado(rs, f) ==
  MapThenSumSet(LAMBDA i : rs[i].imp - rs[i].resto,
                {i \in Ids : rs[i] # Nada /\ rs[i].fac = f})

\* actRestoFactura: in the copy only.
Resto(total, cobros) == IF TipoFormaPago = "SeIgnora" THEN 0 ELSE total - cobros
ActResto(o) == [o EXCEPT !.resto = Resto(o.total, o.cobros)]

\* Mutant: RESTO is not brought up to date with COBROS.
ActPagosSinResto(o, rs) ==
  IF o = Nada \/ Cobrado(rs, o.fac) = o.cobros THEN o
  ELSE [o EXCEPT !.cobros = Cobrado(rs, o.fac)]

\* actPagos, called on copy o after the receipts have become rs: what it leaves
\* in the copy, and in the invoices.
ActPagos(o, rs) ==
  IF o = Nada \/ Cobrado(rs, o.fac) = o.cobros THEN o
  ELSE ActResto([o EXCEPT !.cobros = Cobrado(rs, o.fac)])
Guarda(o, n) ==
  IF o = Nada \/ o = n \/ ~Existe(o.fac) THEN factura
  ELSE [factura EXCEPT ![o.fac] = Modifica(@, Campos(o), Campos(n))]

\* RecCobro::getRecFactura reads an invoice once: the object that has read one
\* keeps it, whatever receipt it reads next.
RecFactura(o, f) == IF o = Nada THEN LeeFactura(f) ELSE o

-------------------------------------------------------------------------------
(* The invoice form.                                                       *)

Abre(p, o, siguiente) ==
  /\ paso[p] = "libre" /\ pago[p] = SinPago
  /\ UnaVentana => rec[p] = Nada /\ cache[p] = Nada
  /\ fra' = Pon(fra, p, o)
  /\ paso' = Pon(paso, p, siguiente)
  /\ UNCHANGED <<bd, quitar, copia, plazo, cobro>>

\* The total follows from the lines the user types.
NuevaFactura(p) ==
  \E f \in Facturas, t \in Totales :
    /\ factura[f] = Nada /\ f \notin {fra[q].fac : q \in {r \in Puestos : fra[r] # Nada}}
    /\ Abre(p, [fac |-> f, nueva |-> TRUE, leida |-> [total |-> 0, cobros |-> 0, resto |-> 0],
                total |-> t, cobros |-> 0, resto |-> Resto(t, 0)], "editando")

\* Mutant: the total can always change.
ModificaTotal(p) ==
  \E f \in Facturas, t \in Totales :
    /\ Existe(f)
    /\ Abre(p, [fac |-> f, nueva |-> FALSE, leida |-> factura[f],
                total |-> t, cobros |-> factura[f].cobros,
                resto |-> Resto(t, factura[f].cobros)], "editando")

\* canBeginEdit: with receipts already paid the total cannot change.
ModificaFactura(p) ==
  \E f \in Facturas, t \in Totales :
    /\ Existe(f)
    /\ DeEstado(f, "pagado") # {} => t = factura[f].total
    /\ Abre(p, [fac |-> f, nueva |-> FALSE, leida |-> factura[f],
                total |-> t, cobros |-> factura[f].cobros,
                resto |-> Resto(t, factura[f].cobros)], "editando")

\* The form goes back to browsing.
Cierra(p) ==
  /\ fra' = Pon(fra, p, Nada)
  /\ paso' = Pon(paso, p, "libre")
  /\ quitar' = Pon(quitar, p, {})
  /\ copia' = Pon(copia, p, Nada)
  /\ plazo' = Pon(plazo, p, 1)

Cancela(p) ==
  /\ paso[p] \in {"editando", "confirmando"} /\ pago[p] = SinPago
  /\ Cierra(p)
  /\ UNCHANGED <<bd, cobro>>

\* Mutant: delCobros(true).
GuardaBorrandoTodo(p) ==
  LET o == fra[p] IN
  /\ paso[p] = "editando" /\ pago[p] = SinPago
  /\ factura' = [factura EXCEPT ![o.fac] =
                   IF o.nueva THEN Campos(o)
                   ELSE IF Existe(o.fac) THEN Modifica(@, o.leida, Campos(o)) ELSE @]
  /\ fra' = Pon(fra, p, [o EXCEPT !.nueva = FALSE, !.leida = Campos(o)])
  /\ quitar' = Pon(quitar, p, De(o.fac))
  /\ copia' = Pon(copia, p, Nada)
  /\ paso' = Pon(paso, p, "quitar")
  /\ UNCHANGED <<recibo, ultimo, plazo, cobro>>

\* Mutant: the pending receipts are not deleted.
GuardaSinBorrar(p) ==
  LET o == fra[p] IN
  /\ paso[p] = "editando" /\ pago[p] = SinPago
  /\ factura' = [factura EXCEPT ![o.fac] =
                   IF o.nueva THEN Campos(o)
                   ELSE IF Existe(o.fac) THEN Modifica(@, o.leida, Campos(o)) ELSE @]
  /\ fra' = Pon(fra, p, [o EXCEPT !.nueva = FALSE, !.leida = Campos(o)])
  /\ quitar' = Pon(quitar, p, {})
  /\ copia' = Pon(copia, p, Nada)
  /\ paso' = Pon(paso, p, "quitar")
  /\ UNCHANGED <<recibo, ultimo, plazo, cobro>>

\* RecFacturaVenta::save: actRestoFactura, dbRecord::save, and then delCobros(false)
\* selects the pending receipts.
GuardaFactura(p) ==
  LET o == fra[p] IN
  /\ paso[p] = "editando" /\ pago[p] = SinPago
  /\ factura' = [factura EXCEPT ![o.fac] =
                   IF o.nueva THEN Campos(o)
                   ELSE IF Existe(o.fac) THEN Modifica(@, o.leida, Campos(o)) ELSE @]
  /\ fra' = Pon(fra, p, [o EXCEPT !.nueva = FALSE, !.leida = Campos(o)])
  /\ quitar' = Pon(quitar, p, DeEstado(o.fac, "pendiente"))
  /\ copia' = Pon(copia, p, Nada)
  /\ paso' = Pon(paso, p, "quitar")
  /\ UNCHANGED <<recibo, ultimo, plazo, cobro>>

\* canBeginEdit refuses to remove an invoice with receipts already paid, and asks.
PideBorrar(p) ==
  \E f \in Facturas :
    /\ Existe(f) /\ DeEstado(f, "pagado") = {}
    /\ Abre(p, [fac |-> f, nueva |-> FALSE, leida |-> factura[f], total |-> factura[f].total,
                cobros |-> factura[f].cobros, resto |-> factura[f].resto], "confirmando")

\* RecFacturaVenta::remove: the invoice goes, and delCobros(true) selects all its
\* receipts.
BorraFactura(p) ==
  /\ paso[p] = "confirmando"
  /\ factura' = [factura EXCEPT ![fra[p].fac] = Borrada]
  /\ quitar' = Pon(quitar, p, De(fra[p].fac))
  /\ paso' = Pon(paso, p, "borrar")
  /\ UNCHANGED <<recibo, ultimo, fra, copia, plazo, cobro>>

\* One round of delPagos: read the receipt, whichever the unordered SELECT gives,
\* and remove it; RecCobro::remove brings the invoice up to date, through a copy
\* that the receipt object reads.
QuitaRecibo(p) ==
  /\ paso[p] \in {"quitar", "borrar"}
  /\ \E i \in quitar[p] :
       /\ quitar' = Pon(quitar, p, quitar[p] \ {i})
       /\ IF recibo[i] = Nada
            THEN UNCHANGED <<factura, recibo, copia>>
            ELSE LET rs == [recibo EXCEPT ![i] = Nada]
                     o  == RecFactura(copia[p], recibo[i].fac)
                 IN  /\ recibo' = rs
                     /\ copia' = Pon(copia, p, ActPagos(o, rs))
                     /\ factura' = Guarda(o, ActPagos(o, rs))
  /\ UNCHANGED <<ultimo, fra, paso, plazo, cobro>>

\* genPagos returns at once unless the form of payment generates receipts and the
\* copy that the form saved has something left to collect.
GeneraAlgo(o) == TipoFormaPago = "GeneraRecibos" /\ o.resto # 0
EmpiezaAGenerar(p) ==
  /\ paso[p] = "quitar" /\ quitar[p] = {}
  /\ IF GeneraAlgo(fra[p])
       THEN /\ paso' = Pon(paso, p, "generar")
            /\ plazo' = Pon(plazo, p, 1)
            /\ UNCHANGED <<fra, quitar, copia>>
       ELSE Cierra(p)
  /\ UNCHANGED <<bd, cobro>>
AcabaDeBorrar(p) ==
  /\ paso[p] = "borrar" /\ quitar[p] = {}
  /\ Cierra(p)
  /\ UNCHANGED <<bd, cobro>>

\* IMPORTE is a double that the field rounds to cents when it is stored.
Plazos == IF NumPlazos = 0 THEN 1 ELSE NumPlazos
Redondea(a) ==
  IF a >= 0 THEN (2 * a + Plazos) \div (2 * Plazos) ELSE -((Plazos - 2 * a) \div (2 * Plazos))
Vence(k) == (k - 1) * DiasEntrePlazos

\* existsAnother compares the stored amounts with the double: when the division
\* is not exact none is equal to it.
YaExiste(o, k) ==
  \E i \in De(o.fac) : recibo[i].fecha = Vence(k) /\ recibo[i].imp * Plazos = o.resto

\* Mutant: one instalment too many.
SiguientePlazoDeMas(p) ==
  IF plazo[p] > Plazos THEN Cierra(p)
  ELSE plazo' = Pon(plazo, p, plazo[p] + 1) /\ UNCHANGED <<fra, paso, quitar, copia>>

\* One instalment; after the last one the form goes back to browsing.
SiguientePlazo(p) ==
  IF plazo[p] = Plazos THEN Cierra(p)
  ELSE plazo' = Pon(plazo, p, plazo[p] + 1) /\ UNCHANGED <<fra, paso, quitar, copia>>
GeneraRecibo(p) ==
  LET o == fra[p] IN
  /\ paso[p] = "generar"
  /\ IF YaExiste(o, plazo[p])
       THEN UNCHANGED <<recibo, ultimo>>
       ELSE /\ ultimo < MaxRecibos
            /\ ultimo' = ultimo + 1
            /\ recibo' = [recibo EXCEPT ![ultimo + 1] =
                 [fac |-> o.fac, imp |-> Redondea(o.resto), resto |-> Redondea(o.resto),
                  est |-> "pendiente", fecha |-> Vence(plazo[p])]]
  /\ SiguientePlazo(p)
  /\ UNCHANGED <<factura, cobro>>

-------------------------------------------------------------------------------
(* The receipts form.                                                      *)

\* The user interface is not inside a save, nor in a modal question, of the
\* invoice form.
Atiende(p) == paso[p] = "libre" \/ (paso[p] = "editando" /\ ~UnaVentana)

LeeRecibo(i) ==
  [id |-> i, fac |-> recibo[i].fac, imp |-> recibo[i].imp, resto |-> recibo[i].resto,
   est |-> recibo[i].est, fecha |-> recibo[i].fecha]
Fila(o) == [fac |-> o.fac, imp |-> o.imp, resto |-> o.resto, est |-> o.est, fecha |-> o.fecha]
\* save(false) on what the form holds, made into n.
GuardaRecibo(o, n) ==
  IF recibo[o.id] = Nada THEN recibo
  ELSE [recibo EXCEPT ![o.id] = Modifica(@, Fila(o), Fila(n))]

\* The form goes to a receipt of the list: the object is read again and asked for
\* its invoice.
VeRecibo(p) ==
  \E i \in Ids :
    /\ Atiende(p) /\ pago[p] = SinPago /\ recibo[i] # Nada
    /\ Reabrir => rec[p] = Nada /\ cache[p] = Nada
    /\ rec' = Pon(rec, p, LeeRecibo(i))
    /\ cache' = Pon(cache, p, RecFactura(cache[p], recibo[i].fac))
    /\ UNCHANGED <<bd, forma, pago>>

CierraRecibos(p) ==
  /\ rec[p] # Nada \/ cache[p] # Nada
  /\ Atiende(p) /\ pago[p] = SinPago
  /\ rec' = Pon(rec, p, Nada)
  /\ cache' = Pon(cache, p, Nada)
  /\ UNCHANGED <<bd, forma, pago>>

\* Mutant: the form saves without what depends on the receipt.
AceptaSinFactura(p) ==
  /\ rec[p] # Nada /\ Atiende(p) /\ pago[p] = SinPago
  /\ \E d \in FechasNuevas \cup {rec[p].fecha} :
       /\ rec[p].est = "pagado" => d = rec[p].fecha
       /\ LET n == [rec[p] EXCEPT !.fecha = d]
          IN  recibo' = GuardaRecibo(rec[p], n) /\ rec' = Pon(rec, p, n)
  /\ UNCHANGED <<factura, ultimo, forma, cache, pago>>

\* accept after an edition: only the dates of an automatic receipt can change.
\* RecCobro::save(true) then brings the invoice it holds up to date.
AceptaRecibo(p) ==
  /\ rec[p] # Nada /\ Atiende(p) /\ pago[p] = SinPago
  /\ \E d \in FechasNuevas \cup {rec[p].fecha} :
       /\ rec[p].est = "pagado" => d = rec[p].fecha
       /\ LET n  == [rec[p] EXCEPT !.fecha = d]
              rs == GuardaRecibo(rec[p], n)
          IN  /\ recibo' = rs
              /\ rec' = Pon(rec, p, n)
              /\ cache' = Pon(cache, p, ActPagos(cache[p], rs))
              /\ factura' = Guarda(cache[p], ActPagos(cache[p], rs))
  /\ UNCHANGED <<ultimo, forma, pago>>

\* canBeginEdit refuses a paid receipt; RecCobro::remove.
BorraRecibo(p) ==
  /\ rec[p] # Nada /\ Atiende(p) /\ pago[p] = SinPago
  /\ rec[p].est = "pendiente"
  /\ LET rs == [recibo EXCEPT ![rec[p].id] = Nada]
     IN  /\ recibo' = rs
         /\ cache' = Pon(cache, p, ActPagos(cache[p], rs))
         /\ factura' = Guarda(cache[p], ActPagos(cache[p], rs))
  /\ rec' = Pon(rec, p, Nada)
  /\ UNCHANGED <<ultimo, forma, pago>>

\* pushPagar: pagarRecibo reads the receipt again, not its state, and asks for the
\* amount.
EmpiezaAPagar(p) ==
  /\ rec[p] # Nada /\ Atiende(p) /\ pago[p] = SinPago
  /\ rec[p].est = "pendiente" /\ recibo[rec[p].id] # Nada
  /\ rec' = Pon(rec, p, LeeRecibo(rec[p].id))
  /\ pago' = Pon(pago, p, [fase |-> "preguntar", queda |-> 0])
  /\ UNCHANGED <<bd, forma, cache>>

\* What may be paid: the amount of the receipt, unless the user types another; or
\* what is left of a payment of several receipts.
Importes(p) ==
  CASE pago[p].fase = "preguntar" -> (Cantidades \cup {rec[p].imp}) \ {0}
    [] pago[p].fase = "multiple"  -> {pago[p].queda}
    [] OTHER                      -> {}

\* The payment ends; if something was paid, actRestoFactura on the invoice held.
AcabaPago(p, hecho) ==
  /\ pago' = Pon(pago, p, SinPago)
  /\ cache' = IF hecho /\ cache[p] # Nada THEN Pon(cache, p, ActResto(cache[p])) ELSE cache

CancelaPago(p) ==
  /\ pago[p].fase = "preguntar"
  /\ AcabaPago(p, FALSE)
  /\ UNCHANGED <<bd, forma, rec>>

\* The user does not go on with an amount, or moneda_id, which is not initialised
\* for the second receipt of a payment, happens to be 0: the loop starts again.
VuelveAEmpezar(p) ==
  /\ pago[p].fase \in {"preguntar", "multiple"} /\ recibo[rec[p].id] # Nada
  /\ rec' = Pon(rec, p, LeeRecibo(rec[p].id))
  /\ UNCHANGED <<bd, forma, cache, pago>>

Pagado(o, q) == [o EXCEPT !.est = "pagado", !.imp = q, !.resto = 0]

PagaExacto(p) ==
  /\ rec[p] # Nada /\ rec[p].imp \in Importes(p)
  /\ recibo' = GuardaRecibo(rec[p], Pagado(rec[p], rec[p].imp))
  /\ rec' = Pon(rec, p, Pagado(rec[p], rec[p].imp))
  /\ AcabaPago(p, TRUE)
  /\ UNCHANGED <<factura, ultimo, forma>>

\* Mutant: the receipt keeps its amount.
PagaParteEntera(p) ==
  \E q \in Importes(p) :
    /\ q < rec[p].imp
    /\ recibo' = GuardaRecibo(rec[p], Pagado(rec[p], rec[p].imp))
    /\ rec' = Pon(rec, p, Pagado(rec[p], rec[p].imp))
    /\ pago' = Pon(pago, p, [fase |-> "nuevo", queda |-> rec[p].imp - q])
    /\ UNCHANGED <<factura, ultimo, forma, cache>>

\* Less than the receipt: it is left paid with that amount ...
PagaParte(p) ==
  \E q \in Importes(p) :
    /\ q < rec[p].imp
    /\ recibo' = GuardaRecibo(rec[p], Pagado(rec[p], q))
    /\ rec' = Pon(rec, p, Pagado(rec[p], q))
    /\ pago' = Pon(pago, p, [fase |-> "nuevo", queda |-> rec[p].imp - q])
    /\ UNCHANGED <<factura, ultimo, forma, cache>>

\* ... and the same object, as new, is saved with the rest.
NuevoRecibo(p) ==
  /\ pago[p].fase = "nuevo"
  /\ ultimo < MaxRecibos
  /\ ultimo' = ultimo + 1
  /\ LET n == [rec[p] EXCEPT !.id = ultimo + 1, !.est = "pendiente",
                             !.imp = pago[p].queda, !.resto = pago[p].queda]
     IN  recibo' = [recibo EXCEPT ![ultimo + 1] = Fila(n)] /\ rec' = Pon(rec, p, n)
  /\ AcabaPago(p, TRUE)
  /\ UNCHANGED <<factura, forma>>

\* More than the receipt: it is paid, and the user chooses another pending receipt
\* of the invoice held for the difference, or none.
PagaDeMas(p) ==
  \E q \in Importes(p) :
    /\ q > rec[p].imp
    /\ recibo' = GuardaRecibo(rec[p], Pagado(rec[p], rec[p].imp))
    /\ \/ /\ rec' = Pon(rec, p, Pagado(rec[p], rec[p].imp))
          /\ AcabaPago(p, TRUE)
       \/ \E i \in Ids \ {rec[p].id} :
            /\ cache[p] # Nada /\ i \in DeEstado(cache[p].fac, "pendiente")
            /\ rec' = Pon(rec, p, LeeRecibo(i))
            /\ pago' = Pon(pago, p, [fase |-> "multiple", queda |-> q - rec[p].imp])
            /\ UNCHANGED cache
    /\ UNCHANGED <<factura, ultimo, forma>>

\* Mutant: RESTO is left at 0.
AnulaSinResto(p) ==
  /\ rec[p] # Nada /\ Atiende(p) /\ pago[p] = SinPago
  /\ rec[p].est = "pagado"
  /\ LET n == [rec[p] EXCEPT !.est = "pendiente"]
     IN  recibo' = GuardaRecibo(rec[p], n) /\ rec' = Pon(rec, p, n)
  /\ AcabaPago(p, TRUE)
  /\ UNCHANGED <<factura, ultimo, forma>>

\* anularPagoRecibo, on the object as the form last read it.
AnulaPago(p) ==
  /\ rec[p] # Nada /\ Atiende(p) /\ pago[p] = SinPago
  /\ rec[p].est = "pagado"
  /\ LET n == [rec[p] EXCEPT !.est = "pendiente", !.resto = rec[p].imp]
     IN  recibo' = GuardaRecibo(rec[p], n) /\ rec' = Pon(rec, p, n)
  /\ AcabaPago(p, TRUE)
  /\ UNCHANGED <<factura, ultimo, forma>>

-------------------------------------------------------------------------------
(* What may go wrong.                                                      *)

\* A removal throws: the form stays open on an invoice that is already saved.
QuitarFalla(p) ==
  /\ Fallos
  /\ paso[p] = "quitar" /\ quitar[p] # {}
  /\ paso' = Pon(paso, p, "editando")
  /\ quitar' = Pon(quitar, p, {})
  /\ copia' = Pon(copia, p, Nada)
  /\ UNCHANGED <<bd, fra, plazo, cobro>>

\* genPagos notes the error of one receipt in a report and goes on.
GenerarFalla(p) ==
  /\ Fallos
  /\ paso[p] = "generar"
  /\ SiguientePlazo(p)
  /\ UNCHANGED <<bd, cobro>>

\* The receipt with the rest of a partial payment is not saved.
NuevoFalla(p) ==
  /\ Fallos
  /\ pago[p].fase = "nuevo"
  /\ AcabaPago(p, FALSE)
  /\ rec' = Pon(rec, p, Nada)
  /\ UNCHANGED <<bd, forma>>

Muere(p) ==
  /\ Fallos
  /\ Cierra(p)
  /\ rec' = Pon(rec, p, Nada)
  /\ cache' = Pon(cache, p, Nada)
  /\ pago' = Pon(pago, p, SinPago)
  /\ UNCHANGED bd

-------------------------------------------------------------------------------

FormaFactura(p) ==
  \/ NuevaFactura(p) \/ ModificaFactura(p) \/ Cancela(p) \/ GuardaFactura(p)
  \/ PideBorrar(p) \/ BorraFactura(p) \/ QuitaRecibo(p) \/ EmpiezaAGenerar(p)
  \/ AcabaDeBorrar(p) \/ GeneraRecibo(p)

FormaRecibo(p) ==
  \/ VeRecibo(p) \/ CierraRecibos(p) \/ AceptaRecibo(p) \/ BorraRecibo(p)
  \/ EmpiezaAPagar(p) \/ CancelaPago(p) \/ VuelveAEmpezar(p) \/ PagaExacto(p)
  \/ PagaParte(p) \/ NuevoRecibo(p) \/ PagaDeMas(p) \/ AnulaPago(p)

Fallo(p) == QuitarFalla(p) \/ GenerarFalla(p) \/ NuevoFalla(p) \/ Muere(p)

Next == \E p \in Puestos : FormaFactura(p) \/ FormaRecibo(p) \/ Fallo(p)

Spec == Init /\ [][Next]_vars

-------------------------------------------------------------------------------
(* Properties.                                                             *)

Facturas0 == [fac : Facturas, total : Int, cobros : Int, resto : Int]
FilasFactura == [total : Int, cobros : Int, resto : Int]
FilasRecibo  == [fac : Facturas, imp : Int, resto : Int,
                 est : {"pendiente", "pagado"}, fecha : Nat]

\* Types, and: no receipt beyond the last id, and an invoice is held only while it is edited.
TypeOK ==
  /\ \A f \in Facturas : factura[f] \in {Nada, Borrada} \/ factura[f] \in FilasFactura
  /\ \A i \in Ids : recibo[i] = Nada \/ (i <= ultimo /\ recibo[i] \in FilasRecibo)
  /\ ultimo \in 0 .. MaxRecibos
  /\ \A p \in Puestos :
       /\ fra[p] = Nada <=> paso[p] = "libre"
       /\ paso[p] \in {"libre", "editando", "confirmando", "quitar", "borrar", "generar"}
       /\ quitar[p] \subseteq Ids
       /\ copia[p] = Nada \/ copia[p] \in Facturas0
       /\ plazo[p] \in 1 .. Plazos
       /\ rec[p] = Nada \/ (rec[p].id \in 1 .. ultimo /\ Fila(rec[p]) \in FilasRecibo)
       /\ cache[p] = Nada \/ cache[p] \in Facturas0
       /\ pago[p].fase \in {"no", "preguntar", "multiple", "nuevo"} /\ pago[p].queda \in Nat

\* A pending receipt is owed in full and a paid one owes nothing, through every
\* split and every cancelled payment: SUM(IMPORTE - RESTO), from which actPagos
\* takes what was collected, is then the amount of the paid receipts.
RecibosCuadrados ==
  \A i \in Ids : recibo[i] # Nada =>
    recibo[i].resto = IF recibo[i].est = "pagado" THEN 0 ELSE recibo[i].imp

\* What is left to collect of a stored invoice follows from its own total and
\* what it says was collected, although three different copies of it are saved,
\* each with only the fields that changed in it.
RestoCuadrado ==
  \A f \in Facturas : Existe(f) => factura[f].resto = Resto(factura[f].total, factura[f].cobros)

\* A paid receipt stays as it was paid until its own payment is cancelled: not
\* regenerated, not removed with its invoice, not paid twice.
PagadoNoSePierde ==
  [][\A i \in Ids : recibo[i] # Nada /\ recibo[i].est = "pagado" =>
       \/ recibo'[i] = recibo[i]
       \/ \E p \in Puestos : AnulaPago(p) /\ rec[p].id = i]_vars

\* An invoice with receipts already paid does not change its total, nor goes.
TotalConCobros ==
  [][\A f \in Facturas : Existe(f) /\ DeEstado(f, "pagado") # {} =>
       Existe(f)' /\ factura'[f].total = factura[f].total]_vars

\* Whatever is paid, in part, in excess or of several receipts at once, and
\* whatever payment is cancelled, the receipts of an invoice still add up to the
\* same: what is not paid of one becomes another.
Facturado(rs, f) ==
  MapThenSumSet(LAMBDA i : rs[i].imp, {i \in Ids : rs[i] # Nada /\ rs[i].fac = f})
PorCrear(f) ==
  MapThenSumSet(LAMBDA p : pago[p].queda,
                {p \in Puestos : pago[p].fase = "nuevo" /\ rec[p].fac = f})
LoFacturadoSeConserva ==
  [][UNCHANGED forma /\ (\A i \in Ids : recibo[i] # Nada => recibo'[i] # Nada) =>
       \A f \in Facturas :
         Facturado(recibo', f) + PorCrear(f)' = Facturado(recibo, f) + PorCrear(f)]_vars

\* Whoever removes a receipt, or accepts it in its form, leaves in its invoice
\* what is collected with the receipts that are left, be the payments made
\* before in the invoice or not.
CobrosAlDia ==
  [][\A f \in Facturas, i \in Ids :
       /\ Existe(f) /\ Existe(f)' /\ i \in De(f)
       /\ recibo'[i] = Nada \/ \E p \in Puestos : AceptaRecibo(p) /\ rec[p].id = i
       => factura'[f].cobros = Cobrado(recibo', f)]_vars

\* After an invoice is saved with its COBROS up to date, its receipts, the paid
\* ones and those just generated, add up to its total, when the instalments are
\* whole cents and none is taken for a paid one: nothing of what was deleted is
\* missing and nothing is there twice.
AcabaDeGenerar(p) == GeneraRecibo(p) /\ plazo[p] = Plazos
SeFacturaElResto ==
  [][\A p \in Puestos : LET o == fra[p] IN
       /\ AcabaDeGenerar(p)
       /\ o.cobros = Cobrado(recibo, o.fac) /\ o.resto % Plazos = 0
       /\ \A i \in DeEstado(o.fac, "pagado") : recibo[i].imp * Plazos # o.resto
       => Facturado(recibo', o.fac) = o.total]_vars

\* No receipt is stored for an invoice that is collected in full ("%s se considera pagada.
\* No se ha generado ningun recibo", genPagos): one that is found to exist already is not.
PagadaNoGenera ==
  [][\A p \in Puestos :
       GeneraRecibo(p) /\ ultimo' # ultimo
         => Cobrado(recibo, fra[p].fac) < fra[p].total]_vars
===============================================================================
