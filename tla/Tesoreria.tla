------------------------------- MODULE Tesoreria -------------------------------
(***************************************************************************)
(* The treasury (module tesoreria): every entry (APUNTETESORERIA) moves    *)
(* the balance (SALDO) of its account.  Entries are typed in their form or *)
(* made by a document (an invoice, a receipt that is paid), which replaces *)
(* its entry every time it is saved and removes it when it is removed.     *)
(*                                                                         *)
(* A save is a row followed by the balances it moves, each read and saved  *)
(* in statements of its own after the row is committed.  "sospechoso"      *)
(* collects the accounts and documents to which something happened that    *)
(* the code does not allow for; the properties are about all the others.   *)
(***************************************************************************)
EXTENDS Integers, Sequences, FiniteSets, Functions

CONSTANTS
  Puestos,     (* Workstations.                                            *)
  Cuentas,     (* Treasury accounts.                                       *)
  Documentos,  (* Documents that may have an entry.                        *)
  Importes,    (* IMPORTE of an entry or of a document.                    *)
  Nada,        (* No account, no document, no row, nothing read.           *)
  Borrado,     (* A document that was removed.                             *)
  MaxApuntes,  (* Entries ever inserted: bounds the model.                 *)
  MaxSaldo,    (* No operation begins beyond this balance: a bound.        *)
  MaxFallos,   (* Failed statements and deaths of processes: a bound.      *)
  MaxSospechosos, (* Nothing begins with more in doubt: a bound.           *)
  Duplica      (* The user duplicates entries.                             *)

ASSUME NadaAssumption    == {Nada, Borrado} \cap (Cuentas \cup Documentos) = {} /\ Nada # Borrado
ASSUME TablasAssumption  == Cuentas \cap Documentos = {}
ASSUME PuestosAssumption == IsFiniteSet(Puestos)
ASSUME ImporteAssumption == Importes \subseteq Int
ASSUME CotaAssumption    == {MaxApuntes, MaxSaldo, MaxFallos, MaxSospechosos} \subseteq Nat
ASSUME DuplicaAssumption == Duplica \in BOOLEAN

VARIABLES
  saldo,      (* saldo[q]: SALDO of account q.                             *)
  apunte,     (* The entries stored, by id.                                *)
  ultimo,     (* The last id given to an entry.                            *)
  doc,        (* doc[d]: the document stored, with its APUNTE_ID.          *)
  ficha,      (* ficha[p]: the record p's form has read, with what it read.*)
  tareas,     (* tareas[p]: the statements that remain of p's operation.   *)
  leido,      (* leido[p]: the balance p has read and not yet saved.       *)
  fallos,     (* Failures so far.                                          *)
  sospechoso  (* Accounts and documents to which something happened.       *)

bd   == <<saldo, apunte, ultimo, doc>>
vars == <<bd, ficha, tareas, leido, fallos, sospechoso>>

Ids == 1 .. MaxApuntes

Init ==
  /\ saldo = [q \in Cuentas |-> 0]
  /\ apunte = [i \in Ids |-> Nada]
  /\ ultimo = 0
  /\ doc = [d \in Documentos |-> Nada]
  /\ ficha = [p \in Puestos |-> Nada]
  /\ tareas = [p \in Puestos |-> <<>>]
  /\ leido = [p \in Puestos |-> Nada]
  /\ fallos = 0
  /\ sospechoso = {}

\* Of an entry: its number, account, amount, the account on the other side when
\* TABLATERCEROS is CUENTATESORERIA, and the document it comes from (AUTOMATICO).
Filas ==
  [num : 0 .. MaxApuntes, cuenta : Cuentas, importe : Int, contra : Cuentas \cup {Nada},
   origen : Documentos \cup {Nada}]
Docs  == [importe : Importes, cuenta : Cuentas \cup {Nada}, apunte : 0 .. MaxApuntes]

ASSUME FilasAssumption == Nada \notin Filas /\ {Nada, Borrado} \cap Docs = {}

-------------------------------------------------------------------------------
(* What remains of an operation.                                           *)

ActSaldo(q, n)    == [hace |-> "saldo", cuenta |-> q, importe |-> n]
Mueve(q, n)       == IF n = 0 THEN <<>> ELSE <<ActSaldo(q, n)>>
Busca(f)          == [hace |-> "busca", fila |-> f]
Inserta(f)        == [hace |-> "inserta", fila |-> f]
Lee(d, i)         == [hace |-> "lee", documento |-> d, id |-> i]
Borra(d, i, f)    == [hace |-> "borra", documento |-> d, id |-> i, fila |-> f]
Anota(d, i)       == [hace |-> "anota", documento |-> d, id |-> i]

\* RecApunteTesoreria::save once the row is written: the amount that was read is
\* taken from its account and the new one added to its own.
Cambia(original, f) ==
  Mueve(original.cuenta, -original.importe) \o Mueve(f.cuenta, f.importe)

\* generaContrapartida is tried for entries of the user against another account.
Contrapartida(f) == IF f.contra # Nada /\ f.origen = Nada THEN <<Busca(f)>> ELSE <<>>

\* Mutant: the document keeps its old entry and makes a new one.
RegenApunteSinBorrar(d, f, viejo) ==
  IF f.importe = 0 \/ f.cuenta = Nada THEN <<>>
  ELSE <<Inserta([num |-> 0, cuenta |-> f.cuenta, importe |-> f.importe,
                  contra |-> Nada, origen |-> d])>>

\* regenApunte: borraApunte removes the entry the document says it has, if it is
\* there; creaApunte makes another one if there is an amount and an account.
RegenApunte(d, f, viejo) ==
  (IF viejo = 0 THEN <<>> ELSE <<Lee(d, viejo)>>)
    \o (IF f.importe = 0 \/ f.cuenta = Nada THEN <<>>
        ELSE <<Inserta([num |-> 0, cuenta |-> f.cuenta, importe |-> f.importe,
                        contra |-> Nada, origen |-> d])>>)

\* The account or document that is left wrong if a statement is not executed.
Afecta(t) ==
  CASE t.hace = "saldo" -> t.cuenta
    [] t.hace = "busca" -> Nada
    [] t.hace = "inserta" -> t.fila.origen
    [] OTHER -> t.documento

EnObra(x) == \E p \in Puestos : \E n \in DOMAIN tareas[p] : Afecta(tareas[p][n]) = x

Sigue(p, ts)   == tareas' = [tareas EXCEPT ![p] = ts \o Tail(@)]
Ocioso(p)      ==
  tareas[p] = <<>> /\ ficha[p] = Nada /\ Cardinality(sospechoso) <= MaxSospechosos
Sospecha(S)    == sospechoso' = sospechoso \cup (S \ {Nada})
\* The bounds: an operation begins only with room for what it may insert.
PorInsertar    ==
  {p \in Puestos : \E n \in DOMAIN tareas[p] : tareas[p][n].hace \in {"busca", "inserta"}}
Acotado        ==
  /\ \A q \in Cuentas : saldo[q] \in -MaxSaldo .. MaxSaldo
  /\ ultimo + Cardinality(PorInsertar) < MaxApuntes

-------------------------------------------------------------------------------
(* The forms: a record is read, edited and accepted.                       *)

AbreNuevo(p) ==
  /\ Ocioso(p)
  /\ ficha' = [ficha EXCEPT ![p] = [tipo |-> "nuevo"]]
  /\ UNCHANGED <<bd, tareas, leido, fallos, sospechoso>>

AbreApunte(p) ==
  /\ Ocioso(p)
  /\ \E i \in Ids :
       /\ apunte[i] # Nada
       /\ ficha' = [ficha EXCEPT ![p] = [tipo |-> "apunte", id |-> i, fila |-> apunte[i]]]
  /\ UNCHANGED <<bd, tareas, leido, fallos, sospechoso>>

AbreDocumento(p) ==
  /\ Ocioso(p)
  /\ \E d \in Documentos :
       /\ doc[d] \notin {Nada, Borrado}
       /\ ficha' = [ficha EXCEPT ![p] = [tipo |-> "documento", id |-> d, fila |-> doc[d]]]
  /\ UNCHANGED <<bd, tareas, leido, fallos, sospechoso>>

Editado(p, tipo) == ficha[p] # Nada /\ ficha[p].tipo = tipo /\ tareas[p] = <<>>

\* The record is accepted: what remains to be done, and the form is closed.
Empieza(p, ts) ==
  /\ tareas' = [tareas EXCEPT ![p] = ts]
  /\ ficha' = [ficha EXCEPT ![p] = Nada]

\* A row without a number gets the next one (selectNextInt).
InsertaFila(f) ==
  /\ ultimo < MaxApuntes
  /\ ultimo' = ultimo + 1
  /\ apunte' = [apunte EXCEPT ![ultimo'] = IF f.num = 0 THEN [f EXCEPT !.num = ultimo'] ELSE f]

NuevoApunte(p) ==
  /\ Editado(p, "nuevo") /\ Acotado
  /\ \E q \in Cuentas, n \in Importes, c \in Cuentas \cup {Nada} :
       LET f == [num |-> 0, cuenta |-> q, importe |-> n, contra |-> c, origen |-> Nada]
       IN  c # q /\ InsertaFila(f) /\ Empieza(p, Mueve(q, n))
  /\ UNCHANGED <<saldo, doc, leido, fallos, sospechoso>>

\* Mutant: save takes from the account what the form shows, not what was read.
ModificaApunteSinOriginal(p) ==
  /\ Editado(p, "apunte") /\ Acotado
  /\ \E q \in Cuentas, n \in Importes :
       LET i == ficha[p].id
           original == ficha[p].fila
           f == [original EXCEPT !.cuenta = q, !.importe = n]
       IN
       /\ original.origen = Nada /\ original.contra # q
       /\ apunte' = [apunte EXCEPT ![i] = IF @ = Nada THEN Nada ELSE f]
       /\ Empieza(p, Mueve(q, n) \o Contrapartida(f))
       /\ Sospecha(IF apunte[i] = original THEN {} ELSE {q})
  /\ UNCHANGED <<saldo, ultimo, doc, leido, fallos>>

\* The user changes the amount or the account, or in an automatic entry nothing that
\* matters here.  The row may be gone, or be another than the one that was read.
ModificaApunte(p) ==
  /\ Editado(p, "apunte") /\ Acotado
  /\ \E q \in Cuentas, n \in Importes \cup {ficha[p].fila.importe} :
       LET i == ficha[p].id
           original == ficha[p].fila
           f == [original EXCEPT !.cuenta = q, !.importe = n]
       IN
       /\ original.contra # q
       /\ IF original.origen = Nada THEN n \in Importes ELSE f = original
       /\ apunte' = [apunte EXCEPT ![i] = IF @ = Nada THEN Nada ELSE f]
       /\ Empieza(p, Cambia(original, f) \o Contrapartida(f))
       /\ Sospecha(IF apunte[i] = original THEN {}
                   ELSE {q, original.cuenta}
                          \cup IF apunte[i] = Nada THEN {} ELSE {apunte[i].cuenta})
  /\ UNCHANGED <<saldo, ultimo, doc, leido, fallos>>

\* clearRecord(duplicating) only makes the record new: what was read of the entry it
\* copies is still what save takes from its account.
DuplicaApunte(p) ==
  /\ Duplica /\ Editado(p, "apunte") /\ Acotado
  /\ LET original == ficha[p].fila
     IN  /\ InsertaFila(original)
         /\ Empieza(p, Cambia(original, original))
         /\ Sospecha({original.cuenta, original.origen})
  /\ UNCHANGED <<saldo, doc, leido, fallos>>

\* canBeginEdit refuses to delete automatic entries.
BorraApunte(p) ==
  /\ Editado(p, "apunte") /\ ficha[p].fila.origen = Nada
  /\ LET i == ficha[p].id
         f == ficha[p].fila
     IN  /\ apunte' = [apunte EXCEPT ![i] = Nada]
         /\ Empieza(p, Mueve(f.cuenta, -f.importe))
         /\ Sospecha(IF apunte[i] = f THEN {}
                     ELSE {f.cuenta} \cup IF apunte[i] = Nada THEN {} ELSE {apunte[i].cuenta})
  /\ UNCHANGED <<saldo, ultimo, doc, leido, fallos>>

\* RecFacturaVenta::save, and a receipt when it is paid: the document is saved and
\* its entry made again.
NuevoDocumento(p) ==
  /\ Editado(p, "nuevo") /\ Acotado
  /\ \E d \in Documentos, n \in Importes, q \in Cuentas \cup {Nada} :
       LET f == [importe |-> n, cuenta |-> q, apunte |-> 0]
       IN  doc[d] = Nada /\ doc' = [doc EXCEPT ![d] = f] /\ Empieza(p, RegenApunte(d, f, 0))
  /\ UNCHANGED <<saldo, apunte, ultimo, leido, fallos, sospechoso>>

GuardaDocumento(p) ==
  /\ Editado(p, "documento") /\ Acotado
  /\ \E n \in Importes, q \in Cuentas \cup {Nada} :
       LET d == ficha[p].id
           f == [importe |-> n, cuenta |-> q, apunte |-> ficha[p].fila.apunte]
       IN
       /\ doc' = [doc EXCEPT ![d] = IF @ = Borrado THEN Borrado
                                    ELSE [@ EXCEPT !.importe = n, !.cuenta = q]]
       /\ Empieza(p, RegenApunte(d, f, f.apunte))
       /\ Sospecha(IF doc[d] = ficha[p].fila /\ ~EnObra(d) THEN {} ELSE {d})
  /\ UNCHANGED <<saldo, apunte, ultimo, leido, fallos>>

\* RecFacturaVenta::remove.
BorraDocumento(p) ==
  /\ Editado(p, "documento")
  /\ LET d == ficha[p].id
     IN  /\ doc' = [doc EXCEPT ![d] = Borrado]
         /\ Empieza(p, IF ficha[p].fila.apunte = 0 THEN <<>>
                       ELSE <<Lee(d, ficha[p].fila.apunte)>>)
         /\ Sospecha(IF doc[d] = ficha[p].fila /\ ~EnObra(d) THEN {} ELSE {d})
  /\ UNCHANGED <<saldo, apunte, ultimo, leido, fallos>>

-------------------------------------------------------------------------------
(* Statements.                                                             *)

Toca(p, que) == tareas[p] # <<>> /\ Head(tareas[p]).hace = que

\* actSaldoCuenta reads the account ...
LeeSaldo(p) ==
  /\ Toca(p, "saldo") /\ leido[p] = Nada
  /\ leido' = [leido EXCEPT ![p] = saldo[Head(tareas[p]).cuenta]]
  /\ UNCHANGED <<bd, ficha, tareas, fallos, sospechoso>>

\* ... adds to what it read and saves it, whatever it holds by then.
GuardaSaldo(p) ==
  LET t == Head(tareas[p])
  IN
  /\ Toca(p, "saldo") /\ leido[p] # Nada
  /\ saldo' = [saldo EXCEPT ![t.cuenta] = leido[p] + t.importe]
  /\ leido' = [leido EXCEPT ![p] = Nada]
  /\ Sospecha(IF saldo[t.cuenta] = leido[p] THEN {} ELSE {t.cuenta})
  /\ Sigue(p, <<>>)
  /\ UNCHANGED <<apunte, ultimo, doc, ficha, fallos>>

\* generaContrapartida looks for an entry with the accounts exchanged and the same
\* amount, and makes one with the opposite amount if there is none.
BuscaContrapartida(p) ==
  LET f == Head(tareas[p]).fila
      esta == \E i \in Ids : /\ apunte[i] # Nada
                             /\ apunte[i].num = f.num /\ apunte[i].importe = f.importe
                             /\ apunte[i].cuenta = f.contra /\ apunte[i].contra = f.cuenta
  IN
  /\ Toca(p, "busca")
  /\ Sigue(p, IF esta THEN <<>>
              ELSE <<Inserta([f EXCEPT !.importe = -f.importe,
                                       !.cuenta = f.contra, !.contra = f.cuenta])>>)
  /\ UNCHANGED <<bd, ficha, leido, fallos, sospechoso>>

\* save of a new entry, and for a document the save of its APUNTE_ID.
InsertaApunte(p) ==
  LET f == Head(tareas[p]).fila
  IN
  /\ Toca(p, "inserta")
  /\ InsertaFila(f)
  /\ Sigue(p, Mueve(f.cuenta, f.importe)
                \o IF f.origen = Nada THEN <<>> ELSE <<Anota(f.origen, ultimo + 1)>>)
  /\ UNCHANGED <<saldo, doc, ficha, leido, fallos, sospechoso>>

\* borraApunte reads the entry ...
LeeApunte(p) ==
  LET t == Head(tareas[p])
  IN
  /\ Toca(p, "lee")
  /\ Sigue(p, IF apunte[t.id] = Nada THEN <<>> ELSE <<Borra(t.documento, t.id, apunte[t.id])>>)
  /\ UNCHANGED <<bd, ficha, leido, fallos, sospechoso>>

\* ... and removes it.
BorraFila(p) ==
  LET t == Head(tareas[p])
  IN
  /\ Toca(p, "borra")
  /\ apunte' = [apunte EXCEPT ![t.id] = Nada]
  /\ Sigue(p, Mueve(t.fila.cuenta, -t.fila.importe))
  /\ Sospecha(IF apunte[t.id] = t.fila THEN {}
              ELSE {t.fila.cuenta} \cup IF apunte[t.id] = Nada THEN {} ELSE {apunte[t.id].cuenta})
  /\ UNCHANGED <<saldo, ultimo, doc, ficha, leido, fallos>>

AnotaApunte(p) ==
  LET t == Head(tareas[p])
  IN
  /\ Toca(p, "anota")
  /\ doc' = [doc EXCEPT ![t.documento] = IF @ = Borrado THEN @ ELSE [@ EXCEPT !.apunte = t.id]]
  /\ Sospecha(IF doc[t.documento] = Borrado THEN {t.documento} ELSE {})
  /\ Sigue(p, <<>>)
  /\ UNCHANGED <<saldo, apunte, ultimo, ficha, leido, fallos>>

\* The user closes the form without accepting.
Cierra(p) ==
  /\ ficha[p] # Nada
  /\ ficha' = [ficha EXCEPT ![p] = Nada]
  /\ UNCHANGED <<bd, tareas, leido, fallos, sospechoso>>

\* A statement throws and the user gives up, or the process dies: what was done was
\* committed and nothing undoes it.
Falla(p) ==
  /\ fallos < MaxFallos /\ tareas[p] # <<>>
  /\ fallos' = fallos + 1
  /\ Sospecha({Afecta(tareas[p][n]) : n \in DOMAIN tareas[p]})
  /\ tareas' = [tareas EXCEPT ![p] = <<>>]
  /\ leido' = [leido EXCEPT ![p] = Nada]
  /\ UNCHANGED <<bd, ficha>>

-------------------------------------------------------------------------------

Usuario(p) ==
  \/ AbreNuevo(p) \/ AbreApunte(p) \/ AbreDocumento(p) \/ Cierra(p)
  \/ NuevoApunte(p) \/ ModificaApunte(p) \/ DuplicaApunte(p) \/ BorraApunte(p)
  \/ NuevoDocumento(p) \/ GuardaDocumento(p) \/ BorraDocumento(p)

Sentencia(p) ==
  \/ LeeSaldo(p) \/ GuardaSaldo(p) \/ BuscaContrapartida(p) \/ InsertaApunte(p)
  \/ LeeApunte(p) \/ BorraFila(p) \/ AnotaApunte(p)

Next == \E p \in Puestos : Usuario(p) \/ Sentencia(p) \/ Falla(p)

Spec == Init /\ [][Next]_vars

-------------------------------------------------------------------------------
(* Properties.                                                             *)

Tareas ==
  [hace : {"saldo"}, cuenta : Cuentas, importe : Int]
    \cup [hace : {"busca"}, fila : {f \in Filas : f.contra # Nada /\ f.origen = Nada}]
    \cup [hace : {"inserta"}, fila : Filas]
    \cup [hace : {"lee", "anota"}, documento : Documentos, id : Ids]
    \cup [hace : {"borra"}, documento : Documentos, id : Ids, fila : Filas]
Fichas ==
  [tipo : {"nuevo"}] \cup [tipo : {"apunte"}, id : Ids, fila : Filas]
    \cup [tipo : {"documento"}, id : Documentos, fila : Docs]

\* Types, and: no entry beyond the last id, and no operation goes on while its form
\* is still edited.
TypeOK ==
  /\ saldo \in [Cuentas -> Int]
  /\ apunte \in [Ids -> Filas \cup {Nada}]
  /\ ultimo \in 0 .. MaxApuntes
  /\ \A i \in Ids : i > ultimo => apunte[i] = Nada
  /\ doc \in [Documentos -> Docs \cup {Nada, Borrado}]
  /\ ficha \in [Puestos -> Fichas \cup {Nada}]
  /\ tareas \in [Puestos -> Seq(Tareas)]
  /\ \A p \in Puestos : ficha[p] = Nada \/ tareas[p] = <<>>
  /\ leido \in [Puestos -> Int \cup {Nada}]
  /\ fallos \in 0 .. MaxFallos
  /\ sospechoso \subseteq Cuentas \cup Documentos

\* What entry a, and statement t, put in account q.
Valor(q, a)  == IF a # Nada /\ a.cuenta = q THEN a.importe ELSE 0
Aporta(q, t) == IF t.hace = "saldo" /\ t.cuenta = q THEN t.importe ELSE 0

\* What the entries stored add up to in account q; what is on its way to it.
Apuntado(q)   == SumFunction([i \in Ids |-> Valor(q, apunte[i])])
Mueven(q, ts) == SumFunction([n \in DOMAIN ts |-> Aporta(q, ts[n])])
Pendiente(q)  == SumFunction([p \in Puestos |-> Mueven(q, tareas[p])])

\* At every moment the balance of an account, with what is on its way to it, is what
\* the entries stored add up to, unless a save was cut short, two saves moved it at
\* once, an entry had changed since its form read it, or one was duplicated.
SaldosCuadran ==
  \A q \in Cuentas \ sospechoso : saldo[q] + Pendiente(q) = Apuntado(q)

\* The entries of document d; what makes it have none; its entry is i.
Suyos(d)         == {i \in Ids : apunte[i] # Nada /\ apunte[i].origen = d}
SinApunte(f)     == f \in {Nada, Borrado} \/ f.importe = 0 \/ f.cuenta = Nada
SuApunteEs(d, i) ==
  Suyos(d) = {i} /\ apunte[i].importe = doc[d].importe /\ apunte[i].cuenta = doc[d].cuenta

\* A document nobody is saving has the one entry it says it has, with its amount in
\* its account, or none at all: saving it again, whatever the amount and the account
\* were before, never leaves the old entry behind.
UnApuntePorDocumento ==
  \A d \in Documentos \ sospechoso :
    ~EnObra(d) => IF SinApunte(doc[d]) THEN Suyos(d) = {} ELSE SuApunteEs(d, doc[d].apunte)
===============================================================================
