------------------------------ MODULE Contadores ------------------------------
(***************************************************************************)
(* The counter that entries, receipts and purchases share (CONTADOR, with  *)
(* the setting USAR_MAXCONTADOR): the next number is one more than the     *)
(* greatest of all their tables, and is asked for when a form is shown,    *)
(* again when it is accepted, and again by "save" where there is none.     *)
(*                                                                         *)
(* Each form is that of a workstation of its own, so that the statements   *)
(* of one come between those of another.  PAGO and ALBARANCOMPRA do what   *)
(* COBRO and FACTURACOMPRA do.  A row is "limpia" if nothing was saved     *)
(* between the last count its save made and its own INSERT, and if the     *)
(* number saved is the one that was counted.  What is left of a receipt    *)
(* that is paid in part becomes another receipt with the number of the     *)
(* first: both have the same "origen", and it is "limpia" if the first is. *)
(***************************************************************************)
EXTENDS Integers

CONSTANTS
  Fichas,      (* Forms, each of a workstation.                            *)
  Ejercicios,  (* Years a session may be of.                               *)
  Registros,   (* Rows there may be, with their ids.                       *)
  Numeros,     (* Values of CONTADOR, 0 among them: bounds the model.      *)
  SinFila      (* No row, nor year: the form has a new record.             *)

ASSUME NumerosAssumption == Numeros \subseteq Nat /\ 0 \in Numeros
ASSUME SinFilaAssumption == SinFila \notin Registros

VARIABLES
  usaContador, (* USAR_MAXCONTADOR.                                        *)
  fila,        (* fila[i]: the row of id i as stored.                      *)
  ficha        (* ficha[f]: what form f is doing.                          *)

varContadores == <<usaContador, fila, ficha>>

Tablas == {"ASIENTO", "COBRO", "FACTURACOMPRA"}

\* A row: its table, the year of the session that gave it its number, its CONTADOR, and the
\* row whose number it is.
FilaVacia == [hay |-> FALSE, tabla |-> "COBRO", ejercicio |-> SinFila, contador |-> 0,
              limpia |-> FALSE, origen |-> SinFila]

\* A form: the row it edits, its CONTADOR in the record ("rec") and in the control ("edit"),
\* whether it pays a part of that row, and the row whose number it has kept in a new record.
FichaLibre(e) == [paso |-> "libre", tabla |-> "COBRO", ejercicio |-> e, id |-> SinFila,
                  rec |-> 0, edit |-> 0, limpia |-> FALSE, parte |-> FALSE, origen |-> SinFila]

Nueva(f) == ficha[f].id = SinFila

\* An id that neither a row, nor what is left of one, nor another form has: none is given twice.
Libre(f, i) ==
  /\ ~fila[i].hay
  /\ \A j \in Registros : fila[j].origen # i
  /\ \A g \in Fichas \ {f} : ficha[g].id # i /\ ficha[g].origen # i

InitContadores ==
  /\ usaContador \in BOOLEAN
  /\ fila = [i \in Registros |-> FilaVacia]
  /\ \E e \in [Fichas -> Ejercicios] : ficha = [f \in Fichas |-> FichaLibre(e[f])]

-------------------------------------------------------------------------------
(* EmpresaModule::getMaxContador.                                          *)

\* The rows a session of year e sees.  Receipts are not of a year.
Visibles(e) ==
  {i \in Registros : fila[i].hay /\ (fila[i].ejercicio = e \/ fila[i].tabla = "COBRO")}

\* n is what getMaxContador returns; a table without rows gives 1.
EsMaxContador(n, e) ==
  IF ~usaContador THEN n = 0
  ELSE /\ n >= 1
       /\ \A i \in Visibles(e) : fila[i].contador < n
       /\ n = 1 \/ \E i \in Visibles(e) : fila[i].contador + 1 = n

Pon(f, v) == ficha' = [ficha EXCEPT ![f] = v]
EnPaso(f, s) == ficha[f].paso = s
SinGrabar == UNCHANGED <<usaContador, fila>>

-------------------------------------------------------------------------------
(* The form.                                                               *)

\* scatterFields: entries and receipts are counted when shown, purchases only if they
\* are copied from something, since else the kind of document is not known yet.
AbreNueva(f) ==
  /\ EnPaso(f, "libre")
  /\ \E t \in Tablas, n \in Numeros :
       /\ EsMaxContador(n, ficha[f].ejercicio) \/ (t = "FACTURACOMPRA" /\ n = 0)
       /\ Pon(f, [ficha[f] EXCEPT !.paso = "edita", !.tabla = t, !.edit = n])
  /\ SinGrabar

\* A row without a number gets one when it is modified, but for purchases.
AbreFila(f) ==
  /\ EnPaso(f, "libre")
  /\ \E i \in Visibles(ficha[f].ejercicio), n \in Numeros :
       /\ IF fila[i].contador = 0 /\ fila[i].tabla # "FACTURACOMPRA"
          THEN EsMaxContador(n, ficha[f].ejercicio)
          ELSE n = fila[i].contador
       /\ Pon(f, [ficha[f] EXCEPT !.paso = "edita", !.tabla = fila[i].tabla, !.id = i,
                                  !.edit = n])
  /\ SinGrabar

\* The user answers the warning: the form goes on as it is, or goes back.
TrasAviso(f, n) ==
  \/ Pon(f, [ficha[f] EXCEPT !.rec = ficha[f].edit, !.paso = "graba", !.edit = n])
  \/ Pon(f, [ficha[f] EXCEPT !.edit = n])

SinAviso(f) ==
  Pon(f, [ficha[f] EXCEPT !.rec = ficha[f].edit, !.paso = "graba", !.limpia = Nueva(f)])

\* Mutant: a form that has a number is not counted again.
AceptaSinContar(f, n) ==
  /\ EsMaxContador(n, ficha[f].ejercicio)
  /\ IF Nueva(f) /\ ficha[f].edit = 0 /\ n > 0 THEN TrasAviso(f, n) ELSE SinAviso(f)

\* gather, then validate(NULL): a number that others have reached changes in the control
\* and not in the record, which was gathered before; "El contador ha cambiado durante la
\* edicion ... Estas segura de grabar?"
CuentaAlAceptar(f, n) ==
  /\ EsMaxContador(n, ficha[f].ejercicio)
  /\ IF Nueva(f) /\ n > ficha[f].edit THEN TrasAviso(f, n) ELSE SinAviso(f)

Acepta(f) ==
  /\ EnPaso(f, "edita")
  /\ \E n \in Numeros : CuentaAlAceptar(f, n)
  /\ SinGrabar

Cancela(f) == EnPaso(f, "edita") /\ Pon(f, FichaLibre(ficha[f].ejercicio)) /\ SinGrabar

\* genPagos: the receipts of a document are saved without a form.
GeneraCobro(f) ==
  /\ EnPaso(f, "libre")
  /\ Pon(f, [ficha[f] EXCEPT !.paso = "graba"])
  /\ SinGrabar

\* pagarRecibo reads the receipt again and saves it without a form, paid in full or in part.
PagaCobro(f) ==
  /\ EnPaso(f, "libre")
  /\ \E i \in Registros, parte \in BOOLEAN :
       /\ fila[i].hay /\ fila[i].tabla = "COBRO"
       /\ Pon(f, [ficha[f] EXCEPT !.paso = "graba", !.id = i, !.rec = fila[i].contador,
                                  !.parte = parte])
  /\ SinGrabar

-------------------------------------------------------------------------------
(* save.                                                                   *)

\* RecCobro::save, RecFacturaCompra::save: a record without a number is counted now.
SinNumero(f) == ficha[f].rec = 0 /\ ficha[f].tabla # "ASIENTO"

NumeraAlGrabar(f) ==
  /\ EnPaso(f, "graba") /\ SinNumero(f)
  /\ \E n \in Numeros :
       /\ EsMaxContador(n, ficha[f].ejercicio)
       /\ Pon(f, [ficha[f] EXCEPT !.paso = "escribe", !.rec = n, !.limpia = TRUE,
                                  !.origen = SinFila])
  /\ SinGrabar

\* INSERT or UPDATE is next.
Escribe(f) == EnPaso(f, "escribe") \/ (EnPaso(f, "graba") /\ ~SinNumero(f))

\* The unique index of ASIENTO is on CONTADOR alone: all the years together, and 0 is NULL.
Repetido(f) ==
  /\ ficha[f].tabla = "ASIENTO" /\ ficha[f].rec # 0
  /\ \E i \in Registros : /\ fila[i].hay /\ fila[i].tabla = "ASIENTO"
                      /\ fila[i].contador = ficha[f].rec
                      /\ i # ficha[f].id

\* Saving f makes stale what the others have counted; f goes on as v.
TrasGrabar(f, v) ==
  ficha' = [g \in Fichas |-> IF g = f THEN v ELSE [ficha[g] EXCEPT !.limpia = FALSE]]

\* The row that f inserts with id i.  A number that was kept is that of the receipt it was
\* read from, while that one is there and has it.
FilaNueva(f, i) ==
  LET o == ficha[f].origen
      deOtra == o # SinFila /\ fila[o].hay /\ fila[o].contador = ficha[f].rec
  IN [hay |-> TRUE, tabla |-> ficha[f].tabla, contador |-> ficha[f].rec,
      ejercicio |-> IF deOtra THEN fila[o].ejercicio ELSE ficha[f].ejercicio,
      limpia    |-> IF deOtra THEN fila[o].limpia ELSE ficha[f].limpia,
      origen    |-> IF deOtra THEN fila[o].origen ELSE i]

Inserta(f) ==
  /\ Escribe(f) /\ Nueva(f) /\ ~Repetido(f)
  /\ \E i \in Registros : Libre(f, i) /\ fila' = [fila EXCEPT ![i] = FilaNueva(f, i)]
  /\ TrasGrabar(f, FichaLibre(ficha[f].ejercicio))
  /\ UNCHANGED usaContador

\* setNew(true) leaves the fields of the receipt as they are, its CONTADOR too: with what is
\* left to pay, it is saved again as another.
Resto(f) == [FichaLibre(ficha[f].ejercicio) EXCEPT !.paso = "graba", !.rec = ficha[f].rec,
                                                   !.origen = ficha[f].id]

\* UPDATE writes the fields that differ from those read, and nothing when the row has gone.
Actualiza(f) ==
  /\ Escribe(f) /\ ~Nueva(f) /\ ~Repetido(f)
  /\ LET i == ficha[f].id IN
     fila' = IF fila[i].hay /\ fila[i].contador # ficha[f].rec
             THEN [fila EXCEPT ![i].contador = ficha[f].rec, ![i].limpia = ficha[f].limpia,
                               ![i].ejercicio = ficha[f].ejercicio]
             ELSE fila
  /\ TrasGrabar(f, IF ficha[f].parte THEN Resto(f) ELSE FichaLibre(ficha[f].ejercicio))
  /\ UNCHANGED usaContador

\* The error is shown and the form stays as it is.
IndiceRechaza(f) ==
  /\ Escribe(f) /\ Repetido(f)
  /\ Pon(f, [ficha[f] EXCEPT !.paso = "edita", !.rec = 0, !.limpia = FALSE])
  /\ SinGrabar

BorraRegistro ==
  /\ \E i \in Registros : fila[i].hay /\ fila' = [fila EXCEPT ![i] = FilaVacia]
  /\ UNCHANGED <<usaContador, ficha>>

\* Someone begins to use the counter.
ActivaContador == ~usaContador /\ usaContador' = TRUE /\ UNCHANGED <<fila, ficha>>

NextContadores ==
  \/ \E f \in Fichas :
       \/ AbreNueva(f) \/ AbreFila(f) \/ Acepta(f) \/ Cancela(f)
       \/ GeneraCobro(f) \/ PagaCobro(f) \/ NumeraAlGrabar(f) \/ Inserta(f) \/ Actualiza(f) \/ IndiceRechaza(f)
  \/ BorraRegistro \/ ActivaContador

SpecContadores == InitContadores /\ [][NextContadores]_varContadores

-------------------------------------------------------------------------------
(* Properties.                                                             *)

TypeOKContadores ==
  /\ usaContador \in BOOLEAN
  /\ fila \in [Registros -> [hay : BOOLEAN, tabla : Tablas, ejercicio : Ejercicios \cup {SinFila},
                         contador : Numeros, limpia : BOOLEAN, origen : Registros \cup {SinFila}]]
  /\ ficha \in [Fichas -> [paso : {"libre", "edita", "graba", "escribe"},
                           tabla : Tablas, ejercicio : Ejercicios,
                           id : Registros \cup {SinFila}, rec : Numeros, edit : Numeros, limpia : BOOLEAN,
                           parte : BOOLEAN, origen : Registros \cup {SinFila}]]

\* A number identifies a document among all those of its year, whatever their tables, however
\* many forms were open and whatever was removed, but for a receipt and what was left of it to
\* pay, unless it was saved over the warning, or given to a row that had none, or another was
\* saved between its count and its INSERT.
ContadoresDistintos ==
  \A i, j \in Registros :
    /\ fila[i].origen # fila[j].origen
    /\ fila[i].hay /\ fila[j].hay /\ fila[i].limpia /\ fila[j].limpia
    /\ fila[i].ejercicio = fila[j].ejercicio /\ fila[i].contador # 0
    => fila[i].contador # fila[j].contador
===============================================================================
