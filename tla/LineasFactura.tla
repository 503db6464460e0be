------------------------------ MODULE LineasFactura ------------------------------
(***************************************************************************)
(* An invoice that is being edited and the grid of its details             *)
(* (FrmEditRecDetail in FrmEditFacturaVenta): a detail is edited in a form *)
(* of its own, on a copy, while the grid waits; details are moved, deleted *)
(* and brought from delivery notes and other documents; the invoice is     *)
(* numbered and totalled again (updateFromDetails).  The invoice is of the *)
(* list in memory: what a save writes is in DbRecord.                      *)
(*                                                                         *)
(* A detail is what was typed in it ("texto"), the note it came from and   *)
(* its NLINEA.  Amounts have one tax and no discount.                      *)
(***************************************************************************)
EXTENDS Integers, FiniteSets, SequencesExt

CONSTANTS
  Textos,       (* What a detail may say.                                   *)
  ImporteDe,    (* ImporteDe[t]: its amount with taxes.                     *)
  SinTexto,     (* What an empty detail says.                               *)
  Notas,        (* Delivery notes of the client, not invoiced.              *)
  LineasNota,   (* LineasNota[x]: what the details of note x say.           *)
  PagadoNota,   (* PagadoNota[x]: ENTREGA + COBROS of note x.               *)
  SinNota,      (* No note.                                                 *)
  Origenes,     (* Documents whose details may be brought.                  *)
  Pagos,        (* Amounts of FrmPagar.                                     *)
  MaxRenglones  (* Most details, empty ones too: bounds the model.          *)

ASSUME ImporteDeAssumption  == ImporteDe \in [Textos -> Int]
ASSUME SinTextoAssumption   == SinTexto \notin Textos
ASSUME LineasNotaAssumption == LineasNota \in [Notas -> Seq(Textos)]
ASSUME PagadoNotaAssumption == PagadoNota \in [Notas -> Int] /\ SinNota \notin Notas
ASSUME OrigenesAssumption   ==
  \A o \in Origenes :
    /\ o.forma \in {"contado", "ignora", "aplazada"} /\ {o.cobros, o.entrega} \subseteq Int
    /\ o.renglones \in Seq([texto : Textos, nota : Notas \cup {SinNota}, nlinea : Nat])
ASSUME PagosAssumption      == Pagos \subseteq Int
ASSUME CotaLineasAssumption == MaxRenglones \in Nat

VARIABLES
  renglones,  \* pDetalles: the details, in the order of the grid
  cursor,     \* the row of the grid that is current, 0 if there is none
  detalle,    \* the form of a detail
  cabecera,   \* of the invoice: client chosen, FORMAPAGO
  totales     \* of the invoice: TOTAL, ENTREGAALBARANES, COBROS, ENTREGA, RESTO

varLineas == <<renglones, cursor, detalle, cabecera, totales>>

Vacio   == [texto |-> SinTexto, nota |-> SinNota, nlinea |-> 0]
SinDetalle == [modo |-> "cerrado", renglon |-> 0, copia |-> Vacio]

\* The details of ls in the places ns, in their order.
Elegidos(ls, ns) ==
  LET k == Cardinality(ns)
      s == CHOOSE s \in [1 .. k -> ns] : \A i, j \in 1 .. k : i < j => s[i] < s[j]
  IN  [i \in 1 .. k |-> ls[s[i]]]

EsVacio(l)    == l = Vacio
Escritos(ls)  == Elegidos(ls, {n \in DOMAIN ls : ~EsVacio(ls[n])})
UltimoVacio(ls) == ls # <<>> /\ EsVacio(Last(ls))
Posiciones(ls)  == IF ls = <<>> THEN {0} ELSE DOMAIN ls

\* addDetailIfNeeded: the last detail is an empty one to type in.
ConVacio(ls) == IF UltimoVacio(ls) THEN ls ELSE Append(ls, Vacio)

-------------------------------------------------------------------------------
(* The invoice after a change of its details.                              *)

\* numeraLineas: empty details take a place and no number.
Numera(ls) == [n \in DOMAIN ls |-> IF EsVacio(ls[n]) THEN ls[n] ELSE [ls[n] EXCEPT !.nlinea = n]]

Importe(l)   == IF EsVacio(l) THEN 0 ELSE ImporteDe[l.texto]
SumaDe(ls)   == SumFunction([n \in DOMAIN ls |-> Importe(ls[n])])
DeNotas(ls)  == Elegidos(ls, {n \in DOMAIN ls : ls[n].nota # SinNota})

\* What notes were paid is counted when the note changes from one detail to the next.
Entregas(ls) ==
  LET ds == DeNotas(ls)
      cambia == {n \in DOMAIN ds : n = 1 \/ ds[n].nota # ds[n - 1].nota}
  IN  SumFunction([n \in cambia |-> PagadoNota[ds[n].nota]])

\* ITotalizableRecord::actTotales.  Without details ENTREGAALBARANES stays as it was.
ActTotales(ls, t, forma) ==
  LET total     == SumaDe(ls)
      pendiente == total - t.cobros - (IF ls = <<>> THEN 0 ELSE Entregas(ls))
      entrega   == CASE forma = "contado"  -> pendiente
                     [] forma = "ignora"   -> 0
                     [] forma = "aplazada" -> t.entrega
  IN  [total |-> total, cobros |-> t.cobros, entrega |-> entrega,
       albaranes |-> IF ls = <<>> THEN t.albaranes ELSE Entregas(ls),
       resto |-> IF forma = "ignora" THEN 0 ELSE pendiente - entrega]

\* FrmEditFacturaVenta::updateFromDetails, with details ls.
UpdateFromDetails(ls) ==
  /\ renglones' = Numera(ls)
  /\ totales' = ActTotales(ls, totales, cabecera.forma)

InitLineas ==
  /\ renglones = <<Vacio>> /\ cursor = 1 /\ detalle = SinDetalle
  /\ cabecera \in [cliente : BOOLEAN, forma : {"contado", "ignora", "aplazada"}]
  /\ totales = [total |-> 0, albaranes |-> 0, cobros |-> 0, entrega |-> 0, resto |-> 0]

-------------------------------------------------------------------------------
(* FrmEditRecDetail: the form of one detail.                               *)

EnRejilla == detalle = SinDetalle

\* FrmEditFacturaVentaDet::canBeginEdit.
PuedeEditar(l, modo) == l.nota = SinNota \/ modo \in {"selecting", "inserting", "duplicating"}

\* What the default is for the detail: no deletion.
ModoDe(l, modo) ==
  IF modo # "default" THEN modo ELSE IF EsVacio(l) THEN "inserting" ELSE "updating"

\* beginEdit: when an empty detail has to be added the cursor goes to it, and the form is on it
\* and not on the detail the user was on.
BeginEdit(modo) ==
  LET ls == IF modo \in {"deleting", "selecting"} THEN renglones ELSE ConVacio(renglones)
      n  == IF ls = renglones THEN cursor ELSE Len(ls)
      m  == ModoDe(ls[n], modo)
      r  == IF m = "inserting" THEN Len(ls) ELSE n
  IN
  /\ EnRejilla /\ n # 0 /\ Len(ls) <= MaxRenglones
  /\ PuedeEditar(ls[n], m)
  /\ renglones' = ls /\ cursor' = n
  /\ detalle' = [modo |-> m, renglon |-> r, copia |-> ls[r]]
  /\ UNCHANGED <<cabecera, totales>>

\* Mutant: what is removed is the detail that the grid edited last.
QuitaElUltimo(ls, d) == RemoveAt(ls, Len(ls))

\* remove of the form of the detail.
QuitaDetalle(ls, d) == RemoveAt(ls, d.renglon)

\* save of the form of the detail: also to duplicate is to write over the detail.
PonDetalle(ls, d, t) == [ls EXCEPT ![d.renglon] = [d.copia EXCEPT !.texto = t]]

\* The form of the detail is accepted, and beginEdit goes on: the cursor goes to the next one.
AceptaDetalle ==
  /\ ~EnRejilla
  /\ \E t \in Textos :
       LET ls == ConVacio(CASE detalle.modo = "deleting"  -> QuitaDetalle(renglones, detalle)
                            [] detalle.modo = "selecting" -> renglones
                            [] OTHER -> PonDetalle(renglones, detalle, t))
           r  == CASE detalle.modo = "inserting" -> Len(ls)
                   [] detalle.modo = "updating"  -> detalle.renglon + 1
                   [] OTHER -> detalle.renglon
       IN
       /\ Len(ls) <= MaxRenglones
       /\ UpdateFromDetails(ls)
       /\ cursor' = IF r <= Len(ls) THEN r ELSE Len(ls)
  /\ detalle' = SinDetalle
  /\ UNCHANGED cabecera

CancelaDetalle ==
  /\ ~EnRejilla
  /\ cursor' = detalle.renglon /\ detalle' = SinDetalle
  /\ UNCHANGED <<renglones, cabecera, totales>>

-------------------------------------------------------------------------------
(* The grid.                                                               *)

\* The arrows and the mouse.
MueveCursor ==
  /\ EnRejilla /\ cursor' \in Posiciones(renglones)
  /\ UNCHANGED <<renglones, detalle, cabecera, totales>>

Intercambia(i, j) ==
  /\ EnRejilla /\ {i, j} \subseteq DOMAIN renglones
  /\ UpdateFromDetails([renglones EXCEPT ![i] = renglones[j], ![j] = renglones[i]])
  /\ cursor' = j
  /\ UNCHANGED <<detalle, cabecera>>

SlotDetailUp   == Intercambia(cursor, cursor - 1)
SlotDetailDown == Intercambia(cursor, cursor + 1)

\* The details of a document fill the empty one that is last, and then follow.
Tras(ls, nuevos) == IF UltimoVacio(ls) /\ nuevos # <<>> THEN Front(ls) \o nuevos ELSE ls \o nuevos

\* slotAddAlbaran: a note that is not in the invoice yet.  The client may come with it.
SlotAddAlbaran ==
  /\ EnRejilla
  /\ \E x \in Notas :
       LET suyos == [n \in DOMAIN LineasNota[x] |->
                       [texto |-> LineasNota[x][n], nota |-> x, nlinea |-> 0]]
           ls    == Tras(renglones, suyos)
       IN
       /\ \A n \in DOMAIN renglones : renglones[n].nota # x
       /\ Len(ls) <= MaxRenglones
       /\ UpdateFromDetails(ls) /\ cursor' \in Posiciones(ls)
  /\ \E c \in {cabecera.cliente, TRUE} : cabecera' = [cabecera EXCEPT !.cliente = c]
  /\ UNCHANGED detalle

SinLaNota(ls, x) == Elegidos(ls, {n \in DOMAIN ls : ls[n].nota # x})

\* Mutant: the totals are left for the next change.
QuitaSinTotales ==
  /\ EnRejilla /\ cursor # 0
  /\ LET x == renglones[cursor].nota IN
       /\ x # SinNota
       /\ renglones' = Numera(SinLaNota(renglones, x))
       /\ cursor' \in Posiciones(SinLaNota(renglones, x))
  /\ UNCHANGED <<detalle, cabecera, totales>>

\* canBeginEdit deletes the whole note of the detail that was to be deleted; it does not add an
\* empty detail.
QuitaLaNota ==
  /\ EnRejilla /\ cursor # 0
  /\ LET x == renglones[cursor].nota IN
       /\ x # SinNota
       /\ UpdateFromDetails(SinLaNota(renglones, x))
       /\ cursor' \in Posiciones(SinLaNota(renglones, x))
  /\ UNCHANGED <<detalle, cabecera>>

\* insertDetails: into an invoice without client the document is copied too, with what
\* was paid of it, and then its details, with their notes.
InsertDetails ==
  /\ EnRejilla
  /\ \E o \in Origenes :
       LET ls == ConVacio(Numera(Tras(renglones, o.renglones)))
           c  == IF cabecera.cliente THEN cabecera ELSE [cliente |-> TRUE, forma |-> o.forma]
           t  == IF cabecera.cliente THEN totales
                 ELSE [totales EXCEPT !.cobros = o.cobros, !.entrega = o.entrega]
       IN
       /\ Len(ls) <= MaxRenglones
       /\ renglones' = ls /\ cursor' = Len(ls)
       /\ cabecera' = c /\ totales' = ActTotales(ls, t, c.forma)
  /\ UNCHANGED detalle

-------------------------------------------------------------------------------
(* The invoice.                                                            *)

\* scatterFormaPago, when another FORMAPAGO is chosen.
CambiaFormaPago ==
  /\ EnRejilla
  /\ \E forma \in {"contado", "ignora", "aplazada"} \ {cabecera.forma} :
       /\ cabecera' = [cabecera EXCEPT !.forma = forma]
       /\ totales' = ActTotales(renglones, totales, forma)
  /\ UNCHANGED <<renglones, cursor, detalle>>

\* slotCobrar: takes ENTREGA away when there is one, and asks for it otherwise.
SlotCobrar ==
  /\ EnRejilla /\ cabecera.forma = "aplazada"
  /\ IF totales.entrega # 0
     THEN totales' = [totales EXCEPT !.resto = @ + totales.entrega, !.entrega = 0]
     ELSE \E p \in Pagos : totales' = [totales EXCEPT !.resto = @ - p, !.entrega = p]
  /\ UNCHANGED <<renglones, cursor, detalle, cabecera>>

\* The invoice is saved, which skips empty details, and is read and modified again.
GrabaYModifica ==
  /\ EnRejilla /\ cabecera.cliente
  /\ renglones' = ConVacio(Escritos(renglones))
  /\ cursor' \in DOMAIN renglones'
  /\ UNCHANGED <<detalle, cabecera, totales>>

NextLineas ==
  \/ \E m \in {"default", "inserting", "updating", "duplicating", "deleting", "selecting"} : BeginEdit(m)
  \/ AceptaDetalle \/ CancelaDetalle
  \/ MueveCursor \/ SlotDetailUp \/ SlotDetailDown
  \/ SlotAddAlbaran \/ QuitaLaNota \/ InsertDetails
  \/ CambiaFormaPago \/ SlotCobrar \/ GrabaYModifica

SpecLineas == InitLineas /\ [][NextLineas]_varLineas

-------------------------------------------------------------------------------
(* Properties.                                                             *)

\* Types, and the cursor is on a row of the grid.
TypeOKLineas ==
  /\ renglones \in Seq([texto : Textos \cup {SinTexto}, nota : Notas \cup {SinNota}, nlinea : Nat])
  /\ cursor \in Posiciones(renglones)
  /\ detalle.renglon \in 0 .. Len(renglones)
  /\ cabecera \in [cliente : BOOLEAN, forma : {"contado", "ignora", "aplazada"}]
  /\ totales \in [total : Int, albaranes : Int, cobros : Int, entrega : Int, resto : Int]

\* The details of a note with those of another in between.
Separados(ls) ==
  LET ds == DeNotas(ls)
  IN  \E i, j, k \in DOMAIN ds : i < j /\ j < k /\ ds[i].nota = ds[k].nota /\ ds[i].nota # ds[j].nota

\* An invoice with details is the sum of them after anything that is done in the grid or
\* in the forms of the details, less what each of its notes was paid, once, unless the details of
\* a note were taken apart; what was paid and what is owed add up to it.  Numbers rise
\* in the order of the grid.
TotalesDeLasLineas ==
  Escritos(renglones) # <<>> =>
    /\ totales.total = SumaDe(renglones)
    /\ ~Separados(renglones) =>
         totales.albaranes =
           SumFunctionOnSet(PagadoNota, {renglones[n].nota : n \in DOMAIN renglones} \ {SinNota})
    /\ cabecera.forma # "ignora" =>
         totales.total = totales.albaranes + totales.cobros + totales.entrega + totales.resto
    /\ \A i, j \in DOMAIN Escritos(renglones) :
         i < j => Escritos(renglones)[i].nlinea < Escritos(renglones)[j].nlinea

Dicho(ls) == [n \in DOMAIN Escritos(ls) |-> <<Escritos(ls)[n].texto, Escritos(ls)[n].nota>>]

\* The form of a detail opens on the detail the cursor is on, or on an empty one to type
\* in; and when it ends the invoice has the same details in the same order, but for the one it
\* showed, which was deleted, or written over, or is new and the last.
CadaFormularioLoSuyo ==
  [][/\ EnRejilla /\ detalle'.modo # "cerrado" =>
          EsVacio(detalle'.copia) \/ detalle'.copia = renglones[cursor]
     /\ ~EnRejilla /\ detalle'.modo = "cerrado" =>
          LET antes   == Dicho(SubSeq(renglones, 1, detalle.renglon - 1))
              despues == Dicho(SubSeq(renglones, detalle.renglon + 1, Len(renglones)))
              mio     == <<detalle.copia.texto, detalle.copia.nota>>
          IN  \/ Dicho(renglones') = Dicho(renglones)
              \/ detalle.modo = "deleting" /\ Dicho(renglones') = antes \o despues
              \/ /\ detalle.modo \in {"updating", "duplicating"}
                 /\ \E t \in Textos : Dicho(renglones') = antes \o <<<<t, mio[2]>>>> \o despues
              \/ /\ detalle.modo = "inserting" /\ EsVacio(detalle.copia)
                 /\ \E t \in Textos : Dicho(renglones') = Append(Dicho(renglones), <<t, SinNota>>)]_varLineas
===============================================================================
