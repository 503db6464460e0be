------------------------------- MODULE Asientos -------------------------------
(***************************************************************************)
(* The balances of the accounts (module contab): saving or removing an     *)
(* accounting entry (ASIENTO) adds or subtracts each of its lines (APUNTE) *)
(* to its account and to the groups above it; a document regenerates its   *)
(* entry; a menu option recalculates every balance from the entries.       *)
(*                                                                         *)
(* Every table here has relations, so that on MySQL the save of an account *)
(* or of a line BEGINs and COMMITs on its own inside the save of the entry *)
(* (module DbRecord): each statement below is committed when it is done.   *)
(* Of DEBE, HABER and SALDO, which are treated alike, SALDO is modelled.   *)
(* The row of ASIENTO itself is in DbRecord: here an entry is its lines.   *)
(***************************************************************************)
EXTENDS Integers, Sequences, FiniteSets, FiniteSetsExt, SequencesExt

CONSTANTS
  Puestos,     (* Workstations.                                            *)
  Empresas,    (* Companies of the database.                               *)
  Codigos,     (* Codes of accounts and groups: "57000001", "570", "5".    *)
  Superior,    (* Superior[k]: getPadre of code k, or Nada.                *)
  Cuentas,     (* Accounts created: pairs of a company and a code.         *)
  Apuntables,  (* Codes that lines use: the working accounts.              *)
  Nada,        (* No code, no line, nothing read.                          *)
  Asientos,    (* Entries there may be.                                    *)
  Importes,    (* DEBE - HABER of a line.                                  *)
  MaxLineas,   (* Most lines of an entry.                                  *)
  MaxApuntes,  (* Lines ever inserted: bounds the model.                   *)
  MaxFallos,   (* Failed statements and deaths of processes: a bound.      *)
  Simple       (* Documents rebuild their entry with creaAsientoSimple.    *)

ASSUME CuentaAssumption  == Cuentas \subseteq Empresas \X Codigos
ASSUME CodigoAssumption  ==
  Superior \in [Codigos -> Codigos \cup {Nada}] /\ Apuntables \subseteq Codigos
\* The code of a group is shorter than those below it.
ASSUME SuperiorAssumption ==
  /\ IsFiniteSet(Codigos)
  /\ \E nivel \in [Codigos -> 0 .. Cardinality(Codigos)] :
       \A k \in Codigos : Superior[k] # Nada => nivel[Superior[k]] < nivel[k]
ASSUME AsientoAssumption == IsFiniteSet(Asientos)
ASSUME ImporteAssumption == Importes \subseteq Int \ {0}
ASSUME CotaAssumption    == {MaxLineas, MaxApuntes, MaxFallos} \subseteq Nat
ASSUME SimpleAssumption  == Simple \in BOOLEAN
\* The mark of absence is no line.
ASSUME NadaAssumption    == Nada \notin [asiento : Asientos, cuenta : Cuentas, importe : Importes]

VARIABLES
  saldo,   (* The balance stored in each account.                          *)
  apunte,  (* The lines stored, by id: entry, account and amount.          *)
  ultimo,  (* The last id of a line.                                       *)
  obra,    (* obra[p]: what p is doing: "libre", "asiento", "recalculo".   *)
  sesion,  (* sesion[p]: the company p works in: that of every filter.     *)
  tareas,  (* tareas[p]: the statements that remain of what p is doing.    *)
  leido,   (* leido[p]: the balance p has read and not yet saved.          *)
  fallos   (* Failures so far.                                             *)

bd      == <<saldo, apunte, ultimo>>
trabajo == <<obra, sesion, tareas, leido>>
vars    == <<bd, trabajo, fallos>>

Ids == 1 .. MaxApuntes

Init ==
  /\ saldo = [q \in Cuentas |-> 0]
  /\ apunte = [i \in Ids |-> Nada]
  /\ ultimo = 0
  /\ obra = [p \in Puestos |-> "libre"]
  /\ sesion \in [Puestos -> Empresas]
  /\ tareas = [p \in Puestos |-> <<>>]
  /\ leido = [p \in Puestos |-> Nada]
  /\ fallos = 0

-------------------------------------------------------------------------------
(* Accounts, entries and what is to be done with them.                     *)

\* The do-while of actSaldosCuenta: the nearest group above that has been created,
\* which is looked for in company e with RecCuenta's structural filter.
CuentaPadre(e, k) ==
  LET Sube[c \in Codigos] ==
        IF Superior[c] = Nada THEN {}
        ELSE IF <<e, Superior[c]>> \in Cuentas THEN {<<e, Superior[c]>>}
        ELSE Sube[Superior[c]]
  IN  Sube[k]

ApuntesDe(a) == {i \in Ids : apunte[i] # Nada /\ apunte[i].asiento = a}
Existe(a)    == ApuntesDe(a) # {}
DeEmpresa(a, e) == \A i \in ApuntesDe(a) : apunte[i].cuenta[1] = e

ActSaldo(q, n)   == [hace |-> "saldo", cuenta |-> q, importe |-> n]
BorraFila(i)     == [hace |-> "borra", id |-> i]
InsertaFila(a, l) ==
  [hace |-> "inserta", fila |-> [asiento |-> a, cuenta |-> l.cuenta, importe |-> l.importe]]
PonCeros         == [hace |-> "ceros"]
LeeAsiento(a)    == [hace |-> "lee", asiento |-> a]

\* The lines of an entry as readRelated reads them, in the order of their ids.
Leidos(a) ==
  LET n == Cardinality(ApuntesDe(a))
  IN  CHOOSE s \in [1 .. n -> ApuntesDe(a)] : \A i, j \in 1 .. n : i < j => s[i] < s[j]

\* What is done with each line is two things, one after the other.
Alterna(antes, luego) ==
  [n \in 1 .. 2 * Len(antes) |-> IF n % 2 = 1 THEN antes[(n + 1) \div 2] ELSE luego[n \div 2]]

\* removeRelated of an entry, line by line: beforeDeleteRelated and then remove.
Quita(a) ==
  LET ids == Leidos(a)
  IN  Alterna([n \in DOMAIN ids |-> ActSaldo(apunte[ids[n]].cuenta, -apunte[ids[n]].importe)],
              [n \in DOMAIN ids |-> BorraFila(ids[n])])

\* saveRelated of an entry, line by line: beforeSaveRelated and then save.
Pone(a, ls) ==
  Alterna([n \in DOMAIN ls |-> ActSaldo(ls[n].cuenta, ls[n].importe)],
          [n \in DOMAIN ls |-> InsertaFila(a, ls[n])])

\* The lines a user, or a document of company e, may give an entry.
Lineas(e) ==
  UNION {[1 .. n -> [cuenta : Cuentas \cap ({e} \X Apuntables), importe : Importes]]
         : n \in 1 .. MaxLineas}

-------------------------------------------------------------------------------
(* What a workstation starts.                                              *)

\* slotMenuEmpresaCambiarEjercicio: the user may change company with every window
\* closed, which is to say between two of these.
CambiaEmpresa(p, e) == sesion' = [sesion EXCEPT ![p] = e]

Empieza(p, e, que, ts) ==
  /\ CambiaEmpresa(p, e)
  /\ obra' = [obra EXCEPT ![p] = que]
  /\ tareas' = [tareas EXCEPT ![p] = ts]
  /\ UNCHANGED <<bd, leido, fallos>>

NadieLoUsa(a) ==
  ~Existe(a) /\ \A p \in Puestos : \A n \in DOMAIN tareas[p] :
    tareas[p][n].hace = "inserta" => tareas[p][n].fila.asiento # a

\* An entry typed by the user, or created by a document.
NuevoAsiento(p) ==
  \E e \in Empresas, a \in Asientos : \E ls \in Lineas(e) :
    /\ NadieLoUsa(a)
    /\ ultimo + Len(ls) <= MaxApuntes
    /\ Empieza(p, e, "asiento", Pone(a, ls))

ModificaAsiento(p) ==
  \E e \in Empresas, a \in Asientos : \E ls \in Lineas(e) :
    /\ Existe(a) /\ DeEmpresa(a, e)
    /\ ultimo + Len(ls) <= MaxApuntes
    /\ Empieza(p, e, "asiento", Quita(a) \o Pone(a, ls))

\* The form removes an entry, or a document that is removed or whose date is
\* already closed removes its own.
BorraAsiento(p) ==
  \E e \in Empresas, a \in Asientos :
    /\ Existe(a) /\ DeEmpresa(a, e)
    /\ Empieza(p, e, "asiento", Quita(a))

\* regenAsiento: borraAsiento removes the old entry; creaAsientoSimple removes the
\* same object again before it saves the new one, creaAsientoMultiple does not.
\* A removed object keeps its values and its list of original lines.
RegenAsiento(p) ==
  \E e \in Empresas, a \in Asientos : \E ls \in Lineas(e) :
    /\ Existe(a) /\ DeEmpresa(a, e)
    /\ ultimo + Len(ls) <= MaxApuntes
    /\ Empieza(p, e, "asiento",
               Quita(a) \o (IF Simple THEN Quita(a) ELSE <<>>) \o Pone(a, ls))

RecalcularSaldosCuentas(p) ==
  \E e \in Empresas : Empieza(p, e, "recalculo", <<PonCeros>>)

-------------------------------------------------------------------------------
(* Statements.                                                             *)

Toca(p, que) == tareas[p] # <<>> /\ Head(tareas[p]).hace = que
Sigue(p, ts) == tareas' = [tareas EXCEPT ![p] = ts \o Tail(@)]

\* actSaldosCuenta reads the account ...
LeeSaldo(p) ==
  /\ Toca(p, "saldo") /\ leido[p] = Nada
  /\ leido' = [leido EXCEPT ![p] = saldo[Head(tareas[p]).cuenta]]
  /\ UNCHANGED <<bd, obra, sesion, tareas, fallos>>

\* Mutant: only the group right above is looked for.
GuardaSaldoYPadre(p) ==
  LET t == Head(tareas[p])
      q == <<sesion[p], Superior[t.cuenta[2]]>>
  IN
  /\ Toca(p, "saldo") /\ leido[p] # Nada
  /\ saldo' = [saldo EXCEPT ![t.cuenta] = leido[p] + t.importe]
  /\ leido' = [leido EXCEPT ![p] = Nada]
  /\ Sigue(p, IF q \in Cuentas THEN <<ActSaldo(q, t.importe)>> ELSE <<>>)
  /\ UNCHANGED <<apunte, ultimo, obra, sesion, fallos>>

\* ... adds to what it read, saves it, and goes on with the group above.
GuardaSaldo(p) ==
  LET t == Head(tareas[p])
      superiores == CuentaPadre(sesion[p], t.cuenta[2])
  IN
  /\ Toca(p, "saldo") /\ leido[p] # Nada
  /\ saldo' = [saldo EXCEPT ![t.cuenta] = leido[p] + t.importe]
  /\ leido' = [leido EXCEPT ![p] = Nada]
  /\ Sigue(p, SetToSeq({ActSaldo(q, t.importe) : q \in superiores}))
  /\ UNCHANGED <<apunte, ultimo, obra, sesion, fallos>>

BorraApunte(p) ==
  /\ Toca(p, "borra")
  /\ apunte' = [apunte EXCEPT ![Head(tareas[p]).id] = Nada]
  /\ Sigue(p, <<>>)
  /\ UNCHANGED <<saldo, ultimo, obra, sesion, leido, fallos>>

\* Mutant: the server gives the same id twice.
InsertaSinContar(p) ==
  /\ Toca(p, "inserta")
  /\ ultimo < MaxApuntes
  /\ apunte' = [apunte EXCEPT ![ultimo + 1] = Head(tareas[p]).fila]
  /\ Sigue(p, <<>>)
  /\ UNCHANGED <<saldo, ultimo, obra, sesion, leido, fallos>>

InsertaApunte(p) ==
  /\ Toca(p, "inserta")
  /\ ultimo < MaxApuntes
  /\ ultimo' = ultimo + 1
  /\ apunte' = [apunte EXCEPT ![ultimo'] = Head(tareas[p]).fila]
  /\ Sigue(p, <<>>)
  /\ UNCHANGED <<saldo, obra, sesion, leido, fallos>>

\* Mutant: the balances are not reset.
SinPonerACero(p) ==
  /\ Toca(p, "ceros")
  /\ Sigue(p, SetToSeq({LeeAsiento(a) : a \in {b \in Asientos : Existe(b)}}))
  /\ UNCHANGED <<bd, obra, sesion, leido, fallos>>

\* UPDATE CUENTA SET saldo=0 and SELECT id FROM ASIENTO: those of every company
\* (the second one takes no lock, so that nothing changes between the two).
PoneACero(p) ==
  /\ Toca(p, "ceros")
  /\ saldo' = [q \in Cuentas |-> 0]
  /\ Sigue(p, SetToSeq({LeeAsiento(a) : a \in {b \in Asientos : Existe(b)}}))
  /\ UNCHANGED <<apunte, ultimo, obra, sesion, leido, fallos>>

\* The entry is read and its lines are added one after the other.
SumaAsiento(p) ==
  /\ Toca(p, "lee")
  /\ LET ids == Leidos(Head(tareas[p]).asiento)
     IN  Sigue(p, [n \in DOMAIN ids |->
                     ActSaldo(apunte[ids[n]].cuenta, apunte[ids[n]].importe)])
  /\ UNCHANGED <<bd, obra, sesion, leido, fallos>>

Acaba(p) ==
  /\ obra[p] # "libre" /\ tareas[p] = <<>>
  /\ obra' = [obra EXCEPT ![p] = "libre"]
  /\ UNCHANGED <<bd, sesion, tareas, leido, fallos>>

\* A statement throws and the user gives up, or the process dies: what was done
\* was committed.
Falla(p) ==
  /\ fallos < MaxFallos /\ obra[p] # "libre" /\ tareas[p] # <<>>
  /\ fallos' = fallos + 1
  /\ obra' = [obra EXCEPT ![p] = "libre"]
  /\ tareas' = [tareas EXCEPT ![p] = <<>>]
  /\ leido' = [leido EXCEPT ![p] = Nada]
  /\ UNCHANGED <<bd, sesion>>

-------------------------------------------------------------------------------

Usuario(p) ==
  /\ obra[p] = "libre"
  /\ \/ NuevoAsiento(p) \/ ModificaAsiento(p) \/ BorraAsiento(p) \/ RegenAsiento(p)
     \/ RecalcularSaldosCuentas(p)

Sentencia(p) ==
  \/ LeeSaldo(p) \/ GuardaSaldo(p) \/ BorraApunte(p) \/ InsertaApunte(p)
  \/ PoneACero(p) \/ SumaAsiento(p) \/ Acaba(p)

Next == \E p \in Puestos : Usuario(p) \/ Sentencia(p) \/ Falla(p)

Spec == Init /\ [][Next]_vars

-------------------------------------------------------------------------------
(* Properties.                                                             *)

Filas  == [asiento : Asientos, cuenta : Cuentas, importe : Importes]
Tareas ==
  [hace : {"saldo"}, cuenta : Cuentas, importe : Int]
    \cup [hace : {"borra"}, id : Ids] \cup [hace : {"inserta"}, fila : Filas]
    \cup [hace : {"lee"}, asiento : Asientos] \cup {PonCeros}

\* Types, and: no line beyond the last id, and a workstation that rests has nothing to do.
TypeOK ==
  /\ saldo \in [Cuentas -> Int]
  /\ apunte \in [Ids -> Filas \cup {Nada}]
  /\ ultimo \in 0 .. MaxApuntes
  /\ \A i \in Ids : i > ultimo => apunte[i] = Nada
  /\ obra \in [Puestos -> {"libre", "asiento", "recalculo"}]
  /\ sesion \in [Puestos -> Empresas]
  /\ tareas \in [Puestos -> Seq(Tareas)]
  /\ \A p \in Puestos : obra[p] = "libre" => tareas[p] = <<>> /\ leido[p] = Nada
  /\ leido \in [Puestos -> Int \cup {Nada}]
  /\ fallos \in 0 .. MaxFallos

\* What an account should hold: the lines of its company on it and on every account
\* of the group it stands for, whatever groups in between have been created.
Grupos[k \in Codigos] == {k} \cup IF Superior[k] = Nada THEN {} ELSE Grupos[Superior[k]]
Suma(q) ==
  MapThenSumSet(LAMBDA i : apunte[i].importe,
    {i \in Ids : /\ apunte[i] # Nada
                 /\ apunte[i].cuenta[1] = q[1] /\ q[2] \in Grupos[apunte[i].cuenta[2]]})
TodoCuadra == \A q \in Cuentas : saldo[q] = Suma(q)

\* While nothing has failed, whenever nobody is working every balance is what the
\* lines stored add up to, through any sequence of new, changed, removed and
\* regenerated entries: each line is added once and subtracted once.
SaldosCuadran ==
  fallos = 0 /\ (\A p \in Puestos : obra[p] = "libre") => TodoCuadra

\* A recalculation that gets to its end repairs every balance of every company,
\* whatever failed before it ("Recalcula los saldos de todas las cuentas",
\* contabmodule.cpp).
RecalculoCuadra ==
  \A p \in Puestos : obra[p] = "recalculo" /\ tareas[p] = <<>> => TodoCuadra
===============================================================================
