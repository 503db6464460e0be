---------------------------- MODULE Tesoreria_proofs ----------------------------
(***************************************************************************)
(* That balances and documents of the treasury agree with the entries      *)
(* stored, for any workstations, accounts, documents and amounts, and      *)
(* however saves overlap and fail.                                         *)
(***************************************************************************)
EXTENDS Tesoreria, Sumas_proofs

-------------------------------------------------------------------------------
(* The inductive invariant.                                                *)

\* The entry whose id the document d keeps, if it is still there, is one of d.
Referida(d, i) == i # 0 => i <= ultimo /\ (apunte[i] # Nada => apunte[i].origen = d)

\* No form has an entry other than the stored one if a document made it, and an entry
\* stored never changes the document it comes from.
FichaReferida(f) ==
  /\ f.tipo = "documento" => doc[f.id] # Nada /\ Referida(f.id, f.fila.apunte)
  /\ f.tipo = "apunte" =>
       /\ f.id <= ultimo
       /\ apunte[f.id] # Nada => /\ apunte[f.id].origen = f.fila.origen
                                 /\ f.fila.origen # Nada => apunte[f.id] = f.fila

TareaReferida(t) ==
  /\ t.hace \in {"lee", "borra", "anota"} => doc[t.documento] # Nada /\ Referida(t.documento, t.id)
  /\ t.hace = "inserta" /\ t.fila.origen # Nada => doc[t.fila.origen] # Nada

Referencias ==
  /\ \A d \in Documentos : doc[d] \in Docs => Referida(d, doc[d].apunte)
  /\ \A p \in Puestos : ficha[p] # Nada => FichaReferida(ficha[p])
  /\ \A p \in Puestos : \A n \in DOMAIN tareas[p] : TareaReferida(tareas[p][n])

Tipos == TypeOK /\ Referencias

\* What regenApunte does last: the new entry of document d, if it is to have one.
Resto(d) ==
  IF SinApunte(doc[d]) THEN <<>>
  ELSE <<Inserta([num |-> 0, cuenta |-> doc[d].cuenta, importe |-> doc[d].importe,
                  contra |-> Nada, origen |-> d])>>

\* ts is rs, perhaps after one balance.
SaldoY(ts, rs) == ts = rs \/ \E q \in Cuentas, n \in Int : ts = <<ActSaldo(q, n)>> \o rs

Atiende(p, d) == \E n \in DOMAIN tareas[p] : Afecta(tareas[p][n]) = d

\* The four moments of p's save of document d: it will look for the old entry, has
\* found it and will remove it, will insert the new one, or has inserted it.
EnFase(p, d) ==
  \/ \E v \in Ids : tareas[p] = <<Lee(d, v)>> \o Resto(d) /\ Suyos(d) \subseteq {v}
  \/ \E v \in Ids : tareas[p] = <<Borra(d, v, apunte[v])>> \o Resto(d) /\ Suyos(d) = {v}
  \/ Resto(d) # <<>> /\ SaldoY(tareas[p], Resto(d)) /\ Suyos(d) = {}
  \/ /\ ~SinApunte(doc[d])
     /\ \E i \in Ids : SaldoY(tareas[p], <<Anota(d, i)>>) /\ SuApunteEs(d, i)

Quieto(d) == IF SinApunte(doc[d]) THEN Suyos(d) = {} ELSE SuApunteEs(d, doc[d].apunte)

\* Nobody saves d, and it has its entry; or one workstation does and no other.
DocumentoEnOrden(d) ==
  \/ ~EnObra(d) /\ Quieto(d)
  \/ /\ doc[d] # Nada
     /\ \E p \in Puestos : EnFase(p, d) /\ \A o \in Puestos \ {p} : ~Atiende(o, d)

Documental == \A d \in Documentos \ sospechoso : DocumentoEnOrden(d)

-------------------------------------------------------------------------------
(* Statements and sequences of them.                                       *)

\* What a statement of each kind is made of.
LEMMA PartesDeTarea ==
  ASSUME NEW t \in Tareas
  PROVE  /\ t.hace = "saldo" => t.cuenta \in Cuentas /\ t.importe \in Int
         /\ t.hace = "busca" => t.fila \in Filas /\ t.fila.contra \in Cuentas /\ t.fila.origen = Nada
         /\ t.hace = "inserta" => t.fila \in Filas
         /\ t.hace \in {"lee", "anota", "borra"} => t.documento \in Documentos /\ t.id \in Ids
         /\ t.hace = "borra" => t.fila \in Filas
         /\ t.hace \in {"saldo", "busca", "inserta", "lee", "anota", "borra"}
         /\ Afecta(t) \in Cuentas \cup Documentos \cup {Nada}
  <1>1. CASE t \in [hace : {"saldo"}, cuenta : Cuentas, importe : Int]
    BY <1>1 DEF Afecta
  <1>2. CASE t \in [hace : {"busca"}, fila : {f \in Filas : f.contra # Nada /\ f.origen = Nada}]
    BY <1>2 DEF Afecta, Filas
  <1>3. CASE t \in [hace : {"inserta"}, fila : Filas]
    BY <1>3 DEF Afecta, Filas
  <1>4. CASE t \in [hace : {"lee", "anota"}, documento : Documentos, id : Ids]
    BY <1>4 DEF Afecta
  <1>5. CASE t \in [hace : {"borra"}, documento : Documentos, id : Ids, fila : Filas]
    BY <1>5 DEF Afecta
  <1> QED  BY <1>1, <1>2, <1>3, <1>4, <1>5 DEF Tareas

LEMMA TareasBien ==
  /\ \A q \in Cuentas, n \in Int : ActSaldo(q, n) \in Tareas
  /\ \A f \in Filas : f.contra # Nada /\ f.origen = Nada => Busca(f) \in Tareas
  /\ \A f \in Filas : Inserta(f) \in Tareas
  /\ \A d \in Documentos, i \in Ids : Lee(d, i) \in Tareas /\ Anota(d, i) \in Tareas
  /\ \A d \in Documentos, i \in Ids, f \in Filas : Borra(d, i, f) \in Tareas
  BY DEF Tareas, ActSaldo, Busca, Inserta, Lee, Anota, Borra

\* One statement, and the statements that follow it.
LEMMA UnaTarea ==
  ASSUME NEW T, NEW t \in T, NEW s \in Seq(T)
  PROVE  /\ <<t>> \in Seq(T) /\ <<t>> \o s \in Seq(T) /\ <<t>> \o s # <<>>
         /\ Head(<<t>> \o s) = t /\ Tail(<<t>> \o s) = s
         /\ DOMAIN (<<t>> \o s) = 1 .. Len(s) + 1
         /\ (<<t>> \o s)[1] = t
         /\ \A n \in DOMAIN s : n + 1 \in DOMAIN (<<t>> \o s) /\ (<<t>> \o s)[n + 1] = s[n]
         /\ \A n \in DOMAIN (<<t>> \o s) : n = 1 \/ (n - 1 \in DOMAIN s /\ (<<t>> \o s)[n] = s[n - 1])
  OBVIOUS

LEMMA MueveBien ==
  ASSUME NEW q \in Cuentas, NEW n \in Int
  PROVE  Mueve(q, n) \in Seq(Tareas)
  <1>1. ActSaldo(q, n) \in Tareas  BY TareasBien
  <1> QED  BY <1>1 DEF Mueve

\* The statements of s and t are those of s followed by those of t.
LEMMA TareasDeLasDos ==
  ASSUME NEW T, NEW s \in Seq(T), NEW t \in Seq(T)
  PROVE  /\ s \o t \in Seq(T) /\ Len(s \o t) = Len(s) + Len(t)
         /\ \A r \in Seq(T) : Len(r) \in Nat /\ DOMAIN r = 1 .. Len(r) /\ \A n \in DOMAIN r : r[n] \in T
         /\ \A n \in DOMAIN (s \o t) :
              \/ n \in DOMAIN s /\ (s \o t)[n] = s[n]
              \/ n - Len(s) \in DOMAIN t /\ (s \o t)[n] = t[n - Len(s)]
         /\ \A n \in DOMAIN s : n \in DOMAIN (s \o t) /\ (s \o t)[n] = s[n]
         /\ \A n \in DOMAIN t : n + Len(s) \in DOMAIN (s \o t) /\ (s \o t)[n + Len(s)] = t[n]
  OBVIOUS

LEMMA TareasDeLaCola ==
  ASSUME NEW T, NEW s \in Seq(T), s # <<>>
  PROVE  /\ Head(s) \in T /\ Tail(s) \in Seq(T) /\ 1 \in DOMAIN s /\ s[1] = Head(s)
         /\ s = <<Head(s)>> \o Tail(s)
         /\ \A n \in DOMAIN Tail(s) : n + 1 \in DOMAIN s /\ Tail(s)[n] = s[n + 1]
         /\ \A n \in DOMAIN s : n = 1 \/ (n - 1 \in DOMAIN Tail(s) /\ s[n] = Tail(s)[n - 1])
  OBVIOUS

-------------------------------------------------------------------------------
(* Types, and what entries and documents refer to.                         *)

\* What accepting a form does to tasks and forms, whatever remains to be done.
LEMMA Empezada ==
  ASSUME TypeOK, NEW p \in Puestos, NEW ts \in Seq(Tareas), Empieza(p, ts)
  PROVE  /\ tareas' \in [Puestos -> Seq(Tareas)] /\ tareas'[p] = ts
         /\ ficha' \in [Puestos -> Fichas \cup {Nada}] /\ ficha'[p] = Nada
         /\ \A o \in Puestos \ {p} : tareas'[o] = tareas[o] /\ ficha'[o] = ficha[o]
         /\ \A o \in Puestos : ficha'[o] = Nada \/ tareas'[o] = <<>>
  BY DEF TypeOK, Empieza

\* What a statement does to tasks and forms, whatever it is followed by.
LEMMA Seguida ==
  ASSUME TypeOK, NEW p \in Puestos, NEW ts \in Seq(Tareas), tareas[p] # <<>>, Sigue(p, ts),
         UNCHANGED ficha
  PROVE  /\ tareas' \in [Puestos -> Seq(Tareas)] /\ tareas'[p] = ts \o Tail(tareas[p])
         /\ \A o \in Puestos \ {p} : tareas'[o] = tareas[o]
         /\ \A o \in Puestos : ficha'[o] = Nada \/ tareas'[o] = <<>>
  <1>1. tareas[p] \in Seq(Tareas) /\ ficha[p] = Nada  BY DEF TypeOK
  <1>2. ts \o Tail(tareas[p]) \in Seq(Tareas)  BY <1>1, TareasDeLaCola, TareasDeLasDos
  <1> QED  BY <1>1, <1>2 DEF TypeOK, Sigue

\* A statement to be executed is one of the kinds there are.
LEMMA Primera ==
  ASSUME TypeOK, NEW p \in Puestos, tareas[p] # <<>>
  PROVE  /\ Head(tareas[p]) \in Tareas /\ Tail(tareas[p]) \in Seq(Tareas)
         /\ 1 \in DOMAIN tareas[p] /\ tareas[p][1] = Head(tareas[p])
  <1>1. tareas[p] \in Seq(Tareas)  BY DEF TypeOK
  <1> QED  BY <1>1, TareasDeLaCola

\* An entry inserted is the last one, and takes the place of none.
LEMMA Insertada ==
  ASSUME TypeOK, NEW f \in Filas, InsertaFila(f)
  PROVE  /\ ultimo' = ultimo + 1 /\ ultimo' \in Ids /\ apunte[ultimo'] = Nada
         /\ apunte' \in [Ids -> Filas \cup {Nada}]
         /\ apunte'[ultimo'] \in Filas
         /\ apunte'[ultimo'].cuenta = f.cuenta /\ apunte'[ultimo'].importe = f.importe
         /\ apunte'[ultimo'].origen = f.origen
         /\ \A i \in Ids \ {ultimo'} : apunte'[i] = apunte[i]
         /\ \A i \in Ids : i > ultimo' => apunte'[i] = Nada
         /\ apunte' = [apunte EXCEPT ![ultimo'] = apunte'[ultimo']]
  <1> DEFINE r == IF f.num = 0 THEN [f EXCEPT !.num = ultimo'] ELSE f
  <1>0. MaxApuntes \in Nat  BY CotaAssumption
  <1>1. ultimo' = ultimo + 1 /\ ultimo' \in Ids /\ ultimo' \in 0 .. MaxApuntes
    BY <1>0 DEF TypeOK, InsertaFila, Ids
  <1>2. apunte[ultimo'] = Nada  BY <1>1 DEF TypeOK, Ids
  <1>3. r \in Filas /\ r.cuenta = f.cuenta /\ r.importe = f.importe /\ r.origen = f.origen
    BY <1>1 DEF Filas
  <1>4. apunte' = [apunte EXCEPT ![ultimo'] = r]  BY DEF InsertaFila
  <1> HIDE DEF r
  <1>5. apunte'[ultimo'] = r /\ \A i \in Ids \ {ultimo'} : apunte'[i] = apunte[i]
    BY <1>1, <1>4 DEF TypeOK
  <1>6. apunte' \in [Ids -> Filas \cup {Nada}]  BY <1>1, <1>3, <1>4 DEF TypeOK
  <1>7. \A i \in Ids : i > ultimo' => apunte'[i] = Nada
    BY <1>1, <1>5 DEF TypeOK, Ids
  <1> QED  BY <1>1, <1>2, <1>3, <1>4, <1>5, <1>6, <1>7

LEMMA FilaDeDocumento ==
  ASSUME NEW d \in Documentos, NEW n \in Importes, NEW q \in Cuentas
  PROVE  [num |-> 0, cuenta |-> q, importe |-> n, contra |-> Nada, origen |-> d] \in Filas
  BY ImporteAssumption, CotaAssumption DEF Filas

\* What remains after a document is saved.
LEMMA RegenBien ==
  ASSUME NEW d \in Documentos, NEW n \in Importes, NEW q \in Cuentas \cup {Nada},
         NEW v \in 0 .. MaxApuntes, NEW f, f.importe = n, f.cuenta = q
  PROVE  RegenApunte(d, f, v) \in Seq(Tareas)
  <1> DEFINE A == IF v = 0 THEN <<>> ELSE <<Lee(d, v)>>
             B == IF f.importe = 0 \/ f.cuenta = Nada THEN <<>>
                  ELSE <<Inserta([num |-> 0, cuenta |-> f.cuenta, importe |-> f.importe,
                                  contra |-> Nada, origen |-> d])>>
  <1>1. v # 0 => v \in Ids  BY DEF Ids
  <1>2. A \in Seq(Tareas)  BY <1>1, TareasBien
  <1>3. f.cuenta # Nada => Inserta([num |-> 0, cuenta |-> f.cuenta, importe |-> f.importe,
                                    contra |-> Nada, origen |-> d]) \in Tareas
    BY FilaDeDocumento, TareasBien
  <1>4. B \in Seq(Tareas)  BY <1>3
  <1>5. A \o B \in Seq(Tareas)  BY <1>2, <1>4, TareasDeLasDos
  <1> QED  BY <1>5 DEF RegenApunte

LEMMA ContrapartidaBien ==
  ASSUME NEW f \in Filas
  PROVE  Contrapartida(f) \in Seq(Tareas)
  <1>1. f.contra # Nada /\ f.origen = Nada => Busca(f) \in Tareas  BY TareasBien
  <1> QED  BY <1>1 DEF Contrapartida

LEMMA CambiaBien ==
  ASSUME NEW f \in Filas, NEW g \in Filas
  PROVE  Cambia(f, g) \in Seq(Tareas)
  <1>1. Mueve(f.cuenta, -f.importe) \in Seq(Tareas) /\ Mueve(g.cuenta, g.importe) \in Seq(Tareas)
    BY MueveBien DEF Filas
  <1> QED  BY <1>1, TareasDeLasDos DEF Cambia

\* What the record of a form is made of.
LEMMA PartesDeFicha ==
  ASSUME TypeOK, NEW p \in Puestos
  PROVE  /\ Editado(p, "apunte") => ficha[p].id \in Ids /\ ficha[p].fila \in Filas
         /\ Editado(p, "documento") => ficha[p].id \in Documentos /\ ficha[p].fila \in Docs
         /\ ficha[p] # Nada => ficha[p].tipo \in {"nuevo", "apunte", "documento"}
  <1>1. ficha[p] \in Fichas \cup {Nada}  BY DEF TypeOK
  <1> QED  BY <1>1 DEF Editado, Fichas

LEMMA TiposInit ==
  ASSUME Init
  PROVE  TypeOK
  <1>1. 0 \in 0 .. MaxApuntes /\ 0 \in 0 .. MaxFallos  BY CotaAssumption
  <1> QED  BY <1>1 DEF Init, TypeOK

\* The types after each action of a user, one step per action.
LEMMA TiposUsuario ==
  ASSUME Tipos, NEW p \in Puestos, Usuario(p)
  PROVE  TypeOK'
  <1> USE DEF Tipos
  <1>1. CASE AbreNuevo(p)
    BY <1>1 DEF AbreNuevo, Ocioso, TypeOK, Fichas, bd
  <1>2. CASE AbreApunte(p)
    <2>1. PICK i \in Ids : apunte[i] # Nada
                             /\ ficha' = [ficha EXCEPT ![p] = [tipo |-> "apunte", id |-> i, fila |-> apunte[i]]]
      BY <1>2 DEF AbreApunte
    <2>2. [tipo |-> "apunte", id |-> i, fila |-> apunte[i]] \in Fichas  BY <2>1 DEF TypeOK, Fichas
    <2> QED  BY <1>2, <2>1, <2>2 DEF AbreApunte, Ocioso, TypeOK, bd
  <1>3. CASE AbreDocumento(p)
    <2>1. PICK d \in Documentos :
            /\ doc[d] \notin {Nada, Borrado}
            /\ ficha' = [ficha EXCEPT ![p] = [tipo |-> "documento", id |-> d, fila |-> doc[d]]]
      BY <1>3 DEF AbreDocumento
    <2>2. [tipo |-> "documento", id |-> d, fila |-> doc[d]] \in Fichas  BY <2>1 DEF TypeOK, Fichas
    <2> QED  BY <1>3, <2>1, <2>2 DEF AbreDocumento, Ocioso, TypeOK, bd
  <1>4. CASE Cierra(p)
    BY <1>4 DEF Cierra, TypeOK, bd
  <1>5. CASE NuevoApunte(p)
    <2>1. PICK q \in Cuentas, n \in Importes, c \in Cuentas \cup {Nada} :
            LET f == [num |-> 0, cuenta |-> q, importe |-> n, contra |-> c, origen |-> Nada]
            IN  InsertaFila(f) /\ Empieza(p, Mueve(q, n))
      BY <1>5 DEF NuevoApunte
    <2> DEFINE f == [num |-> 0, cuenta |-> q, importe |-> n, contra |-> c, origen |-> Nada]
    <2>2. f \in Filas /\ n \in Int  BY ImporteAssumption, CotaAssumption DEF Filas
    <2>3. Mueve(q, n) \in Seq(Tareas)  BY <2>2, MueveBien
    <2>4. InsertaFila(f) /\ Empieza(p, Mueve(q, n))  BY <2>1
    <2> HIDE DEF f
    <2>5. ultimo' \in 0 .. MaxApuntes  BY <2>2, <2>4, Insertada DEF Ids
    <2> QED  BY <1>5, <2>2, <2>3, <2>4, <2>5, Insertada, Empezada DEF NuevoApunte, TypeOK
  <1>6. CASE ModificaApunte(p)
    <2>1. ficha[p].id \in Ids /\ ficha[p].fila \in Filas  BY <1>6, PartesDeFicha DEF ModificaApunte
    <2>2. PICK q \in Cuentas, n \in Importes \cup {ficha[p].fila.importe} :
            LET i == ficha[p].id
                original == ficha[p].fila
                f == [original EXCEPT !.cuenta = q, !.importe = n]
            IN  /\ apunte' = [apunte EXCEPT ![i] = IF @ = Nada THEN Nada ELSE f]
                /\ Empieza(p, Cambia(original, f) \o Contrapartida(f))
                /\ Sospecha(IF apunte[i] = original THEN {}
                            ELSE {q, original.cuenta}
                                   \cup IF apunte[i] = Nada THEN {} ELSE {apunte[i].cuenta})
      BY <1>6 DEF ModificaApunte
    <2> DEFINE f == [ficha[p].fila EXCEPT !.cuenta = q, !.importe = n]
    <2>3. f \in Filas  BY <2>1, ImporteAssumption DEF Filas
    <2>4. Cambia(ficha[p].fila, f) \o Contrapartida(f) \in Seq(Tareas)
      BY <2>1, <2>3, CambiaBien, ContrapartidaBien, TareasDeLasDos
    <2>5. Empieza(p, Cambia(ficha[p].fila, f) \o Contrapartida(f))  BY <2>2
    <2>6. apunte' = [apunte EXCEPT ![ficha[p].id] = IF apunte[ficha[p].id] = Nada THEN Nada ELSE f]
      BY <2>2
    <2>7. sospechoso' \subseteq Cuentas \cup Documentos
      BY <2>1, <2>2 DEF Sospecha, TypeOK, Filas
    <2> HIDE DEF f
    <2>8. /\ apunte' \in [Ids -> Filas \cup {Nada}]
          /\ \A i \in Ids : i > ultimo => apunte'[i] = Nada
      BY <2>1, <2>3, <2>6 DEF TypeOK
    <2> QED  BY <1>6, <2>4, <2>5, <2>7, <2>8, Empezada DEF ModificaApunte, TypeOK
  <1>7. CASE DuplicaApunte(p)
    <2> DEFINE f == ficha[p].fila
    <2>1. f \in Filas  BY <1>7, PartesDeFicha DEF DuplicaApunte
    <2>2. InsertaFila(f) /\ Empieza(p, Cambia(f, f))  BY <1>7 DEF DuplicaApunte
    <2>3. sospechoso' \subseteq Cuentas \cup Documentos
      BY <1>7, <2>1 DEF DuplicaApunte, Sospecha, TypeOK, Filas
    <2> HIDE DEF f
    <2>4. ultimo' \in 0 .. MaxApuntes  BY <2>1, <2>2, Insertada DEF Ids
    <2> QED  BY <1>7, <2>1, <2>2, <2>3, <2>4, Insertada, CambiaBien, Empezada DEF DuplicaApunte, TypeOK
  <1>8. CASE BorraApunte(p)
    <2> DEFINE f == ficha[p].fila
               i == ficha[p].id
    <2>1. f \in Filas /\ i \in Ids  BY <1>8, PartesDeFicha DEF BorraApunte
    <2>2. apunte' = [apunte EXCEPT ![i] = Nada] /\ Empieza(p, Mueve(f.cuenta, -f.importe))
      BY <1>8 DEF BorraApunte
    <2>3. sospechoso' \subseteq Cuentas \cup Documentos
      BY <1>8, <2>1 DEF BorraApunte, Sospecha, TypeOK, Filas
    <2>4. Mueve(f.cuenta, -f.importe) \in Seq(Tareas)  BY <2>1, MueveBien DEF Filas
    <2> HIDE DEF f, i
    <2>5. /\ apunte' \in [Ids -> Filas \cup {Nada}]
          /\ \A j \in Ids : j > ultimo => apunte'[j] = Nada
      BY <2>1, <2>2 DEF TypeOK
    <2> QED  BY <1>8, <2>1, <2>2, <2>3, <2>4, <2>5, Empezada DEF BorraApunte, TypeOK
  <1>9. CASE NuevoDocumento(p)
    <2>1. PICK d \in Documentos, n \in Importes, q \in Cuentas \cup {Nada} :
            LET f == [importe |-> n, cuenta |-> q, apunte |-> 0]
            IN  doc' = [doc EXCEPT ![d] = f] /\ Empieza(p, RegenApunte(d, f, 0))
      BY <1>9 DEF NuevoDocumento
    <2> DEFINE f == [importe |-> n, cuenta |-> q, apunte |-> 0]
    <2>2. 0 \in 0 .. MaxApuntes  BY CotaAssumption
    <2>3. f \in Docs /\ f.importe = n /\ f.cuenta = q  BY <2>2 DEF Docs
    <2>4. doc' = [doc EXCEPT ![d] = f] /\ Empieza(p, RegenApunte(d, f, 0))  BY <2>1
    <2> HIDE DEF f
    <2>5. RegenApunte(d, f, 0) \in Seq(Tareas)  BY <2>2, <2>3, RegenBien
    <2>6. doc' \in [Documentos -> Docs \cup {Nada, Borrado}]  BY <2>3, <2>4 DEF TypeOK
    <2> QED  BY <1>9, <2>4, <2>5, <2>6, Empezada DEF NuevoDocumento, TypeOK
  <1>10. CASE GuardaDocumento(p)
    <2> DEFINE d == ficha[p].id
               v == ficha[p].fila.apunte
    <2>1. d \in Documentos /\ v \in 0 .. MaxApuntes  BY <1>10, PartesDeFicha DEF GuardaDocumento, Docs
    <2>2. doc[d] # Nada
      BY <1>10 DEF GuardaDocumento, Editado, Referencias, FichaReferida
    <2>3. PICK n \in Importes, q \in Cuentas \cup {Nada} :
            /\ doc' = [doc EXCEPT ![d] = IF @ = Borrado THEN Borrado
                                         ELSE [@ EXCEPT !.importe = n, !.cuenta = q]]
            /\ Empieza(p, RegenApunte(d, [importe |-> n, cuenta |-> q, apunte |-> v], v))
      BY <1>10 DEF GuardaDocumento
    <2> DEFINE f == [importe |-> n, cuenta |-> q, apunte |-> v]
    <2>4. f.importe = n /\ f.cuenta = q /\ Empieza(p, RegenApunte(d, f, v))  BY <2>3
    <2>5. sospechoso' \subseteq Cuentas \cup Documentos
      BY <1>10, <2>1 DEF GuardaDocumento, Sospecha, TypeOK
    <2>6. doc' \in [Documentos -> Docs \cup {Nada, Borrado}]
      <3>0. doc[d] # Borrado => doc[d] \in Docs  BY <2>1, <2>2 DEF TypeOK
      <3>1. doc[d] # Borrado => [doc[d] EXCEPT !.importe = n, !.cuenta = q] \in Docs
        BY <3>0 DEF Docs
      <3> HIDE DEF d
      <3> QED  BY <2>1, <2>3, <3>1 DEF TypeOK
    <2> HIDE DEF f, d, v
    <2>7. RegenApunte(d, f, v) \in Seq(Tareas)  BY <2>1, <2>4, RegenBien
    <2> QED  BY <1>10, <2>4, <2>5, <2>6, <2>7, Empezada DEF GuardaDocumento, TypeOK
  <1>11. CASE BorraDocumento(p)
    <2> DEFINE d == ficha[p].id
               v == ficha[p].fila.apunte
               ts == IF v = 0 THEN <<>> ELSE <<Lee(d, v)>>
    <2>1. d \in Documentos /\ v \in 0 .. MaxApuntes  BY <1>11, PartesDeFicha DEF BorraDocumento, Docs
    <2>2. doc' = [doc EXCEPT ![d] = Borrado] /\ Empieza(p, ts)  BY <1>11 DEF BorraDocumento
    <2>3. v # 0 => v \in Ids  BY <2>1 DEF Ids
    <2>4. ts \in Seq(Tareas)  BY <2>1, <2>3, TareasBien
    <2>5. sospechoso' \subseteq Cuentas \cup Documentos
      BY <1>11, <2>1 DEF BorraDocumento, Sospecha, TypeOK
    <2>6. doc' \in [Documentos -> Docs \cup {Nada, Borrado}]  BY <2>1, <2>2 DEF TypeOK
    <2> HIDE DEF d, v, ts
    <2> QED  BY <1>11, <2>2, <2>4, <2>5, <2>6, Empezada DEF BorraDocumento, TypeOK
  <1> QED
    BY <1>1, <1>2, <1>3, <1>4, <1>5, <1>6, <1>7, <1>8, <1>9, <1>10, <1>11 DEF Usuario

\* The types after each statement, one step per action.
LEMMA TiposSentencia ==
  ASSUME Tipos, NEW p \in Puestos, Sentencia(p) \/ Falla(p)
  PROVE  TypeOK'
  <1> USE DEF Tipos
  <1> DEFINE t == Head(tareas[p])
  <1>1. CASE LeeSaldo(p)
    <2>1. t \in Tareas /\ t.hace = "saldo"  BY <1>1, Primera DEF LeeSaldo, Toca
    <2>2. t.cuenta \in Cuentas  BY <2>1, PartesDeTarea
    <2> HIDE DEF t
    <2>3. leido' = [leido EXCEPT ![p] = saldo[t.cuenta]]  BY <1>1 DEF LeeSaldo, t
    <2> QED  BY <1>1, <2>2, <2>3 DEF LeeSaldo, TypeOK, bd
  <1>2. CASE GuardaSaldo(p)
    <2>1. t \in Tareas /\ t.hace = "saldo" /\ tareas[p] # <<>>  BY <1>2, Primera DEF GuardaSaldo, Toca
    <2>2. t.cuenta \in Cuentas /\ t.importe \in Int  BY <2>1, PartesDeTarea
    <2>3. leido[p] \in Int  BY <1>2 DEF GuardaSaldo, TypeOK
    <2>4. /\ saldo' = [saldo EXCEPT ![t.cuenta] = leido[p] + t.importe]
          /\ Sospecha(IF saldo[t.cuenta] = leido[p] THEN {} ELSE {t.cuenta})
          /\ Sigue(p, <<>>) /\ UNCHANGED ficha
      BY <1>2 DEF GuardaSaldo
    <2> HIDE DEF t
    <2>5. saldo' \in [Cuentas -> Int]  BY <2>2, <2>3, <2>4 DEF TypeOK
    <2>6. sospechoso' \subseteq Cuentas \cup Documentos  BY <2>2, <2>4 DEF Sospecha, TypeOK
    <2>7. <<>> \in Seq(Tareas)  OBVIOUS
    <2> QED  BY <1>2, <2>1, <2>4, <2>5, <2>6, <2>7, Seguida DEF GuardaSaldo, TypeOK
  <1>3. CASE BuscaContrapartida(p)
    <2> DEFINE f == t.fila
               g == [f EXCEPT !.importe = -f.importe, !.cuenta = f.contra, !.contra = f.cuenta]
    <2>1. t \in Tareas /\ t.hace = "busca" /\ tareas[p] # <<>>
      BY <1>3, Primera DEF BuscaContrapartida, Toca
    <2>2. f \in Filas /\ f.contra \in Cuentas  BY <2>1, PartesDeTarea
    <2>3. g \in Filas
      <3> HIDE DEF f
      <3>1. f.num \in 0 .. MaxApuntes /\ -f.importe \in Int /\ f.cuenta \in Cuentas
        BY <2>2 DEF Filas
      <3> QED  BY <2>2, <3>1 DEF Filas
    <2>4. PICK ts : (ts = <<>> \/ ts = <<Inserta(g)>>) /\ Sigue(p, ts) /\ UNCHANGED ficha
      BY <1>3 DEF BuscaContrapartida
    <2> HIDE DEF t, f, g
    <2>5. ts \in Seq(Tareas)
      <3> DEFINE u == Inserta(g)
      <3>1. u \in Tareas  BY <2>3, TareasBien
      <3>2. <<>> \in Seq(Tareas) /\ <<u>> \in Seq(Tareas)  BY <3>1
      <3> QED  BY <2>4, <3>2
    <2> QED  BY <1>3, <2>1, <2>4, <2>5, Seguida DEF BuscaContrapartida, TypeOK, bd
  <1>4. CASE InsertaApunte(p)
    <2> DEFINE f == t.fila
               ts == Mueve(f.cuenta, f.importe)
                       \o IF f.origen = Nada THEN <<>> ELSE <<Anota(f.origen, ultimo + 1)>>
    <2>1. t \in Tareas /\ t.hace = "inserta" /\ tareas[p] # <<>>
      BY <1>4, Primera DEF InsertaApunte, Toca
    <2>2. f \in Filas /\ f.cuenta \in Cuentas /\ f.importe \in Int /\ f.origen \in Documentos \cup {Nada}
      BY <2>1, PartesDeTarea DEF Filas
    <2>3. InsertaFila(f) /\ Sigue(p, ts) /\ UNCHANGED ficha  BY <1>4 DEF InsertaApunte
    <2> HIDE DEF t, f
    <2>4. ultimo + 1 \in Ids /\ ultimo' \in 0 .. MaxApuntes  BY <2>2, <2>3, Insertada DEF Ids
    <2>5. ts \in Seq(Tareas)
      <3> DEFINE A == Mueve(f.cuenta, f.importe)
                 B == IF f.origen = Nada THEN <<>> ELSE <<Anota(f.origen, ultimo + 1)>>
      <3>1. A \in Seq(Tareas)  BY <2>2, MueveBien
      <3>2. B \in Seq(Tareas)  BY <2>2, <2>4, TareasBien
      <3> HIDE DEF A, B
      <3>3. A \o B \in Seq(Tareas)  BY <3>1, <3>2, TareasDeLasDos
      <3> QED  BY <3>3 DEF A, B
    <2> HIDE DEF ts
    <2> QED  BY <1>4, <2>1, <2>2, <2>3, <2>4, <2>5, Insertada, Seguida DEF InsertaApunte, TypeOK
  <1>5. CASE LeeApunte(p)
    <2>1. t \in Tareas /\ t.hace = "lee" /\ tareas[p] # <<>>  BY <1>5, Primera DEF LeeApunte, Toca
    <2>2. t.documento \in Documentos /\ t.id \in Ids  BY <2>1, PartesDeTarea
    <2> DEFINE ts == IF apunte[t.id] = Nada THEN <<>> ELSE <<Borra(t.documento, t.id, apunte[t.id])>>
    <2>3. Sigue(p, ts) /\ UNCHANGED ficha  BY <1>5 DEF LeeApunte
    <2> HIDE DEF t
    <2>4. apunte[t.id] = Nada \/ apunte[t.id] \in Filas  BY <2>2 DEF TypeOK
    <2>5. ts \in Seq(Tareas)  BY <2>2, <2>4, TareasBien
    <2> HIDE DEF ts
    <2> QED  BY <1>5, <2>1, <2>3, <2>5, Seguida DEF LeeApunte, TypeOK, bd
  <1>6. CASE BorraFila(p)
    <2> DEFINE ts == Mueve(t.fila.cuenta, -t.fila.importe)
    <2>1. t \in Tareas /\ t.hace = "borra" /\ tareas[p] # <<>>  BY <1>6, Primera DEF BorraFila, Toca
    <2>2. t.fila \in Filas /\ t.id \in Ids  BY <2>1, PartesDeTarea
    <2>3. /\ apunte' = [apunte EXCEPT ![t.id] = Nada] /\ Sigue(p, ts) /\ UNCHANGED ficha
          /\ Sospecha(IF apunte[t.id] = t.fila THEN {}
                      ELSE {t.fila.cuenta} \cup IF apunte[t.id] = Nada THEN {} ELSE {apunte[t.id].cuenta})
      BY <1>6 DEF BorraFila
    <2> HIDE DEF t
    <2>4. sospechoso' \subseteq Cuentas \cup Documentos  BY <2>2, <2>3 DEF Sospecha, TypeOK, Filas
    <2>5. ts \in Seq(Tareas)  BY <2>2, MueveBien DEF Filas
    <2>6. /\ apunte' \in [Ids -> Filas \cup {Nada}]
          /\ \A j \in Ids : j > ultimo => apunte'[j] = Nada
      BY <2>2, <2>3 DEF TypeOK
    <2> HIDE DEF ts
    <2> QED  BY <1>6, <2>1, <2>3, <2>4, <2>5, <2>6, Seguida DEF BorraFila, TypeOK
  <1>7. CASE AnotaApunte(p)
    <2>1. /\ t \in Tareas /\ t.hace = "anota" /\ tareas[p] # <<>>
          /\ 1 \in DOMAIN tareas[p] /\ tareas[p][1] = t
      BY <1>7, Primera DEF AnotaApunte, Toca
    <2>2. t.documento \in Documentos /\ t.id \in Ids /\ t.id \in 0 .. MaxApuntes
      BY <2>1, PartesDeTarea DEF Ids
    <2>3. doc[t.documento] # Nada  BY <2>1 DEF Referencias, TareaReferida
    <2>4. /\ doc' = [doc EXCEPT ![t.documento] = IF @ = Borrado THEN @ ELSE [@ EXCEPT !.apunte = t.id]]
          /\ Sospecha(IF doc[t.documento] = Borrado THEN {t.documento} ELSE {})
          /\ Sigue(p, <<>>) /\ UNCHANGED ficha
      BY <1>7 DEF AnotaApunte
    <2> HIDE DEF t
    <2>5. sospechoso' \subseteq Cuentas \cup Documentos  BY <2>2, <2>4 DEF Sospecha, TypeOK
    <2>6. doc[t.documento] # Borrado => doc[t.documento] \in Docs  BY <2>2, <2>3 DEF TypeOK
    <2>7. doc[t.documento] # Borrado => [doc[t.documento] EXCEPT !.apunte = t.id] \in Docs
      BY <2>2, <2>6 DEF Docs
    <2>8. doc' \in [Documentos -> Docs \cup {Nada, Borrado}]  BY <2>2, <2>4, <2>7 DEF TypeOK
    <2>9. <<>> \in Seq(Tareas)  OBVIOUS
    <2> QED  BY <1>7, <2>1, <2>4, <2>5, <2>8, <2>9, Seguida DEF AnotaApunte, TypeOK
  <1>8. CASE Falla(p)
    <2>1. tareas[p] \in Seq(Tareas)  BY DEF TypeOK
    <2>2. \A n \in DOMAIN tareas[p] : Afecta(tareas[p][n]) \in Cuentas \cup Documentos \cup {Nada}
      <3>1. \A n \in DOMAIN tareas[p] : tareas[p][n] \in Tareas  BY <2>1
      <3> QED  BY <3>1, PartesDeTarea
    <2>3. sospechoso' \subseteq Cuentas \cup Documentos  BY <1>8, <2>2 DEF Falla, Sospecha, TypeOK
    <2>4. fallos' \in 0 .. MaxFallos  BY <1>8, CotaAssumption DEF Falla, TypeOK
    <2> QED  BY <1>8, <2>3, <2>4 DEF Falla, TypeOK, bd
  <1> QED  BY <1>1, <1>2, <1>3, <1>4, <1>5, <1>6, <1>7, <1>8 DEF Sentencia

\* What no step may do: forget a document, give an id again, take an entry to another
\* document, or change an entry that a document made.
Conserva ==
  /\ ultimo' >= ultimo
  /\ \A d \in Documentos : doc[d] # Nada => doc'[d] # Nada
  /\ \A i \in Ids : i <= ultimo /\ apunte'[i] # Nada =>
       /\ apunte[i] # Nada /\ apunte'[i].origen = apunte[i].origen
       /\ apunte[i].origen # Nada => apunte'[i] = apunte[i]

LEMMA NadaBien ==
  /\ Nada \notin Documentos /\ Nada \notin Cuentas /\ Nada # Borrado /\ Nada \notin Filas
  /\ Nada \notin Docs /\ Borrado \notin Docs /\ Borrado \notin Documentos
  BY NadaAssumption, FilasAssumption

LEMMA ConservaUsuario ==
  ASSUME Tipos, NEW p \in Puestos, Usuario(p)
  PROVE  Conserva
  <1> USE DEF Tipos
  <1>0. ultimo \in Int  BY DEF TypeOK
  <1>1. CASE AbreNuevo(p) \/ AbreApunte(p) \/ AbreDocumento(p) \/ Cierra(p)
    BY <1>0, <1>1 DEF AbreNuevo, AbreApunte, AbreDocumento, Cierra, bd, Conserva
  <1>2. CASE NuevoApunte(p)
    <2>1. PICK f \in Filas : InsertaFila(f)
      <3>1. PICK q \in Cuentas, n \in Importes, c \in Cuentas \cup {Nada} :
              InsertaFila([num |-> 0, cuenta |-> q, importe |-> n, contra |-> c, origen |-> Nada])
        BY <1>2 DEF NuevoApunte
      <3>2. [num |-> 0, cuenta |-> q, importe |-> n, contra |-> c, origen |-> Nada] \in Filas
        BY ImporteAssumption, CotaAssumption DEF Filas
      <3> QED  BY <3>1, <3>2
    <2> QED  BY <1>0, <1>2, <2>1, Insertada DEF NuevoApunte, Conserva, Ids
  <1>3. CASE ModificaApunte(p)
    <2> DEFINE i == ficha[p].id
               original == ficha[p].fila
    <2>1. i \in Ids /\ original \in Filas /\ ficha[p] # Nada /\ ficha[p].tipo = "apunte"
      BY <1>3, PartesDeFicha DEF ModificaApunte, Editado
    <2>2. PICK q \in Cuentas, n \in Importes \cup {original.importe} :
            LET f == [original EXCEPT !.cuenta = q, !.importe = n]
            IN  /\ IF original.origen = Nada THEN n \in Importes ELSE f = original
                /\ apunte' = [apunte EXCEPT ![i] = IF @ = Nada THEN Nada ELSE f]
      BY <1>3 DEF ModificaApunte
    <2> DEFINE f == [original EXCEPT !.cuenta = q, !.importe = n]
    <2>3. apunte[i] # Nada => apunte[i].origen = original.origen
                                /\ (original.origen # Nada => apunte[i] = original)
      BY <2>1 DEF Referencias, FichaReferida
    <2>4. f.origen = original.origen  BY <2>1 DEF Filas
    <2>5. (original.origen # Nada => f = original)
            /\ apunte' = [apunte EXCEPT ![i] = IF apunte[i] = Nada THEN Nada ELSE f]
      BY <2>2
    <2>6. apunte'[i] = (IF apunte[i] = Nada THEN Nada ELSE f) /\ \A j \in Ids \ {i} : apunte'[j] = apunte[j]
      BY <2>1, <2>5 DEF TypeOK
    <2> HIDE DEF f, original, i
    <2>7. \A j \in Ids : apunte'[j] # Nada =>
            /\ apunte[j] # Nada /\ apunte'[j].origen = apunte[j].origen
            /\ apunte[j].origen # Nada => apunte'[j] = apunte[j]
      BY <2>1, <2>3, <2>4, <2>5, <2>6
    <2> QED  BY <1>0, <1>3, <2>7 DEF ModificaApunte, Conserva
  <1>4. CASE DuplicaApunte(p)
    <2>1. ficha[p].fila \in Filas  BY <1>4, PartesDeFicha DEF DuplicaApunte
    <2> QED  BY <1>0, <1>4, <2>1, Insertada DEF DuplicaApunte, Conserva, Ids
  <1>5. CASE BorraApunte(p)
    <2>1. apunte' = [apunte EXCEPT ![ficha[p].id] = Nada]  BY <1>5 DEF BorraApunte
    <2> QED  BY <1>0, <1>5, <2>1 DEF BorraApunte, Conserva, TypeOK
  <1>6. CASE NuevoDocumento(p)
    <2>1. PICK d \in Documentos : doc[d] = Nada /\ \E f : doc' = [doc EXCEPT ![d] = f]
      BY <1>6 DEF NuevoDocumento
    <2> QED  BY <1>0, <1>6, <2>1 DEF NuevoDocumento, Conserva, TypeOK
  <1>7. CASE GuardaDocumento(p)
    <2>1. ficha[p].id \in Documentos  BY <1>7, PartesDeFicha DEF GuardaDocumento
    <2>2. PICK f : doc' = [doc EXCEPT ![ficha[p].id] = f] /\ (f = Borrado \/ f \in Docs)
      <3>1. PICK n \in Importes, q \in Cuentas \cup {Nada} :
              doc' = [doc EXCEPT ![ficha[p].id] =
                        IF @ = Borrado THEN Borrado ELSE [@ EXCEPT !.importe = n, !.cuenta = q]]
        BY <1>7 DEF GuardaDocumento
      <3>2. doc[ficha[p].id] # Nada  BY <1>7 DEF GuardaDocumento, Editado, Referencias, FichaReferida
      <3>3. doc[ficha[p].id] = Borrado \/ doc[ficha[p].id] \in Docs  BY <2>1, <3>2 DEF TypeOK
      <3>4. doc[ficha[p].id] \in Docs => [doc[ficha[p].id] EXCEPT !.importe = n, !.cuenta = q] \in Docs
        BY DEF Docs
      <3> QED  BY <3>1, <3>3, <3>4
    <2>3. f # Nada  BY <2>2, NadaBien
    <2> QED  BY <1>0, <1>7, <2>1, <2>2, <2>3 DEF GuardaDocumento, Conserva, TypeOK
  <1>8. CASE BorraDocumento(p)
    <2>1. doc' = [doc EXCEPT ![ficha[p].id] = Borrado]  BY <1>8 DEF BorraDocumento
    <2> QED  BY <1>0, <1>8, <2>1, NadaBien DEF BorraDocumento, Conserva, TypeOK
  <1> QED  BY <1>1, <1>2, <1>3, <1>4, <1>5, <1>6, <1>7, <1>8 DEF Usuario

LEMMA ConservaSentencia ==
  ASSUME Tipos, NEW p \in Puestos, Sentencia(p) \/ Falla(p)
  PROVE  Conserva
  <1> USE DEF Tipos
  <1>0. ultimo \in Int  BY DEF TypeOK
  <1>1. CASE LeeSaldo(p) \/ GuardaSaldo(p) \/ BuscaContrapartida(p) \/ LeeApunte(p) \/ Falla(p)
    BY <1>0, <1>1 DEF LeeSaldo, GuardaSaldo, BuscaContrapartida, LeeApunte, Falla, bd, Conserva
  <1>2. CASE InsertaApunte(p)
    <2>1. Head(tareas[p]).fila \in Filas
      BY <1>2, Primera, PartesDeTarea DEF InsertaApunte, Toca
    <2>2. InsertaFila(Head(tareas[p]).fila)  BY <1>2 DEF InsertaApunte
    <2> QED  BY <1>0, <1>2, <2>1, <2>2, Insertada DEF InsertaApunte, Conserva, Ids
  <1>3. CASE BorraFila(p)
    <2>1. apunte' = [apunte EXCEPT ![Head(tareas[p]).id] = Nada]  BY <1>3 DEF BorraFila
    <2> QED  BY <1>0, <1>3, <2>1 DEF BorraFila, Conserva, TypeOK
  <1>4. CASE AnotaApunte(p)
    <2> DEFINE t == Head(tareas[p])
    <2>1. t.documento \in Documentos /\ t.id \in 0 .. MaxApuntes
      BY <1>4, Primera, PartesDeTarea DEF AnotaApunte, Toca, Ids
    <2>2. doc' = [doc EXCEPT ![t.documento] = IF @ = Borrado THEN @ ELSE [@ EXCEPT !.apunte = t.id]]
      BY <1>4 DEF AnotaApunte
    <2> HIDE DEF t
    <2>3. doc[t.documento] \in Docs => [doc[t.documento] EXCEPT !.apunte = t.id] \in Docs
      BY <2>1 DEF Docs
    <2>4. ASSUME NEW d \in Documentos, doc[d] # Nada  PROVE doc'[d] # Nada
      <3>1. CASE d = t.documento
        <4>1. doc[d] = Borrado \/ doc[d] \in Docs  BY <2>4 DEF TypeOK
        <4>2. doc'[d] = IF doc[d] = Borrado THEN Borrado ELSE [doc[d] EXCEPT !.apunte = t.id]
          BY <2>2, <3>1 DEF TypeOK
        <4> QED  BY <2>3, <3>1, <4>1, <4>2, NadaBien
      <3>2. CASE d # t.documento  BY <2>2, <2>4, <3>2 DEF TypeOK
      <3> QED  BY <3>1, <3>2
    <2> QED  BY <1>0, <1>4, <2>4 DEF AnotaApunte, Conserva
  <1> QED  BY <1>1, <1>2, <1>3, <1>4 DEF Sentencia

\* What conserves entries and documents keeps every reference to them.
LEMMA ReferidaSigue ==
  ASSUME Tipos, TypeOK', Conserva, NEW d, NEW i \in 0 .. MaxApuntes, Referida(d, i)
  PROVE  Referida(d, i)'
  <1>1. ultimo \in Int /\ ultimo' \in Int /\ ultimo' >= ultimo  BY DEF Tipos, TypeOK, Conserva
  <1>2. i # 0 => i \in Ids  BY DEF Ids
  <1> QED  BY <1>1, <1>2 DEF Referida, Conserva

LEMMA FichaSigue ==
  ASSUME Tipos, TypeOK', Conserva, NEW f \in Fichas, FichaReferida(f)
  PROVE  FichaReferida(f)'
  <1>1. CASE f.tipo = "documento"
    <2>1. f.id \in Documentos /\ f.fila.apunte \in 0 .. MaxApuntes  BY <1>1 DEF Fichas, Docs
    <2>2. doc'[f.id] # Nada /\ Referida(f.id, f.fila.apunte)'
      BY <1>1, <2>1, ReferidaSigue DEF FichaReferida, Conserva
    <2> QED  BY <1>1, <2>2 DEF FichaReferida
  <1>2. CASE f.tipo = "apunte"
    <2>1. f.id \in Ids /\ f.id \in Int /\ ultimo \in Int /\ ultimo' \in Int
      BY <1>2 DEF Fichas, Tipos, TypeOK, Ids
    <2> QED  BY <1>2, <2>1 DEF FichaReferida, Conserva
  <1> QED  BY <1>1, <1>2 DEF FichaReferida

LEMMA TareaSigue ==
  ASSUME Tipos, TypeOK', Conserva, NEW t \in Tareas, TareaReferida(t)
  PROVE  TareaReferida(t)'
  <1>1. CASE t.hace \in {"lee", "borra", "anota"}
    <2>1. t.documento \in Documentos /\ t.id \in Ids /\ t.id \in 0 .. MaxApuntes
      BY <1>1, PartesDeTarea DEF Ids
    <2>2. doc'[t.documento] # Nada /\ Referida(t.documento, t.id)'
      BY <1>1, <2>1, ReferidaSigue DEF TareaReferida, Conserva
    <2> QED  BY <1>1, <2>2 DEF TareaReferida
  <1>2. CASE t.hace = "inserta"
    <2>1. t.fila.origen \in Documentos \cup {Nada}  BY <1>2, PartesDeTarea DEF Filas
    <2> QED  BY <1>2, <2>1 DEF TareaReferida, Conserva
  <1> QED  BY <1>1, <1>2 DEF TareaReferida

Referidas(ts) == \A n \in DOMAIN ts : TareaReferida(ts[n])

LEMMA ReferidasLasDos ==
  ASSUME NEW s \in Seq(Tareas), NEW t \in Seq(Tareas), Referidas(s)', Referidas(t)'
  PROVE  Referidas(s \o t)'
  BY TareasDeLasDos DEF Referidas

LEMMA ReferidaUna ==
  ASSUME NEW t, TareaReferida(t)'
  PROVE  Referidas(<<t>>)'
  BY DEF Referidas

LEMMA ReferidasNinguna ==
  Referidas(<<>>)'
  BY DEF Referidas

\* Balances and counterparts refer to no document.
LEMMA ReferidasSaldos ==
  ASSUME NEW f \in Filas, NEW g \in Filas, NEW q, NEW n
  PROVE  /\ Referidas(Mueve(q, n))'
         /\ Referidas(Cambia(f, g) \o Contrapartida(g))'
         /\ Referidas(Cambia(f, g))'
  <1>1. \A c, m : TareaReferida(ActSaldo(c, m))'  BY DEF TareaReferida, ActSaldo
  <1>2. TareaReferida(Busca(g))'  BY DEF TareaReferida, Busca
  <1>3. \A c, m : Referidas(Mueve(c, m))'
    BY <1>1, ReferidaUna, ReferidasNinguna DEF Mueve
  <1>4. Referidas(Contrapartida(g))'  BY <1>2, ReferidaUna, ReferidasNinguna DEF Contrapartida
  <1>5. Mueve(f.cuenta, -f.importe) \in Seq(Tareas) /\ Mueve(g.cuenta, g.importe) \in Seq(Tareas)
    BY MueveBien DEF Filas
  <1>6. Referidas(Cambia(f, g))'  BY <1>3, <1>5, ReferidasLasDos DEF Cambia
  <1>7. Cambia(f, g) \in Seq(Tareas) /\ Contrapartida(g) \in Seq(Tareas)
    BY CambiaBien, ContrapartidaBien
  <1> QED  BY <1>3, <1>4, <1>6, <1>7, ReferidasLasDos

LEMMA ReferidasRegen ==
  ASSUME NEW d \in Documentos, NEW n \in Importes, NEW q \in Cuentas \cup {Nada},
         NEW v \in 0 .. MaxApuntes, NEW f, f.importe = n, f.cuenta = q,
         doc'[d] # Nada, Referida(d, v)'
  PROVE  Referidas(RegenApunte(d, f, v))'
  <1> DEFINE r == [num |-> 0, cuenta |-> f.cuenta, importe |-> f.importe, contra |-> Nada, origen |-> d]
             A == IF v = 0 THEN <<>> ELSE <<Lee(d, v)>>
             B == IF f.importe = 0 \/ f.cuenta = Nada THEN <<>> ELSE <<Inserta(r)>>
  <1>1. v # 0 => v \in Ids  BY DEF Ids
  <1>2. f.cuenta # Nada => r \in Filas  BY FilaDeDocumento
  <1>3. A \in Seq(Tareas)  BY <1>1, TareasBien
  <1>4. f.cuenta # Nada => Inserta(r) \in Tareas
    <2> HIDE DEF r
    <2> QED  BY <1>2, TareasBien
  <1>5. B \in Seq(Tareas)  BY <1>4
  <1>6. TareaReferida(Lee(d, v))'  BY DEF TareaReferida, Lee
  <1>7. TareaReferida(Inserta(r))'  BY DEF TareaReferida, Inserta
  <1>8. Referidas(A)' /\ Referidas(B)'
    <2> HIDE DEF r
    <2> QED  BY <1>6, <1>7, ReferidaUna, ReferidasNinguna
  <1>9. RegenApunte(d, f, v) = A \o B  BY DEF RegenApunte
  <1> HIDE DEF A, B
  <1> QED  BY <1>3, <1>5, <1>8, <1>9, ReferidasLasDos

LEMMA FichasTras ==
  ASSUME Tipos, TypeOK', Conserva, NEW p \in Puestos,
         \A o \in Puestos \ {p} : ficha'[o] = ficha[o],
         ficha'[p] \in {Nada, ficha[p]} \/ FichaReferida(ficha[p])'
  PROVE  (\A o \in Puestos : ficha[o] # Nada => FichaReferida(ficha[o]))'
  <1> SUFFICES ASSUME NEW o \in Puestos, ficha'[o] # Nada  PROVE FichaReferida(ficha[o])'
    OBVIOUS
  <1>1. CASE ficha'[o] = ficha[o]
    <2> DEFINE f == ficha[o]
    <2>1. f \in Fichas /\ FichaReferida(f)  BY <1>1 DEF Tipos, TypeOK, Referencias
    <2>2. ASSUME NEW g \in Fichas, FichaReferida(g)  PROVE FichaReferida(g)'
      BY <2>2, FichaSigue
    <2> QED  BY <1>1, <2>1, <2>2 DEF FichaReferida, Referida
  <1>2. CASE ficha'[o] # ficha[o]  BY <1>2
  <1> QED  BY <1>1, <1>2

LEMMA TareasTras ==
  ASSUME Tipos, TypeOK', Conserva, NEW p \in Puestos, NEW ts \in Seq(Tareas),
         \A o \in Puestos \ {p} : tareas'[o] = tareas[o],
         tareas'[p] = ts, Referidas(ts)'
  PROVE  (\A o \in Puestos : \A n \in DOMAIN tareas[o] : TareaReferida(tareas[o][n]))'
  <1> SUFFICES ASSUME NEW o \in Puestos, NEW n \in DOMAIN tareas'[o]
               PROVE  TareaReferida(tareas[o][n])'
    OBVIOUS
  <1>1. CASE o = p  BY <1>1 DEF Referidas, TareaReferida, Referida
  <1>2. CASE o # p
    <2> DEFINE t == tareas[o][n]
    <2>0. tareas'[o] = tareas[o]  BY <1>2
    <2>1. t \in Tareas /\ TareaReferida(t)  BY <2>0 DEF Tipos, TypeOK, Referencias
    <2>2. ASSUME NEW g \in Tareas, TareaReferida(g)  PROVE TareaReferida(g)'
      BY <2>2, TareaSigue
    <2> QED  BY <2>0, <2>1, <2>2 DEF TareaReferida, Referida
  <1> QED  BY <1>1, <1>2

LEMMA ColaReferida ==
  ASSUME Tipos, TypeOK', Conserva, NEW p \in Puestos, tareas[p] # <<>>,
         NEW ts \in Seq(Tareas), Referidas(ts)'
  PROVE  \E r \in Seq(Tareas) : r = ts \o Tail(tareas[p]) /\ Referidas(r)'
  <1> PICK r \in Seq(Tareas) : r = Tail(tareas[p])  BY Primera DEF Tipos
  <1>0. tareas[p] \in Seq(Tareas)  BY DEF Tipos, TypeOK
  <1>1. \A n \in DOMAIN r : r[n] \in Tareas /\ \E m \in DOMAIN tareas[p] : r[n] = tareas[p][m]
    BY <1>0, TareasDeLaCola
  <1>2. \A n \in DOMAIN r : TareaReferida(r[n])  BY <1>1 DEF Tipos, Referencias
  <1>3. ASSUME NEW g \in Tareas, TareaReferida(g)  PROVE TareaReferida(g)'
    BY <1>3, TareaSigue
  <1>4. Referidas(r)'
    <2> SUFFICES ASSUME NEW n \in DOMAIN r  PROVE TareaReferida(r[n])'  BY DEF Referidas
    <2> PICK g \in Tareas : g = r[n] /\ TareaReferida(g)  BY <1>1, <1>2
    <2> QED  BY <1>3 DEF TareaReferida, Referida
  <1>5. Referidas(ts \o r)' /\ ts \o r \in Seq(Tareas)  BY <1>4, ReferidasLasDos, TareasDeLasDos
  <1> QED  BY <1>5

LEMMA DocsTras ==
  ASSUME Tipos, TypeOK', Conserva,
         \A d \in Documentos : doc'[d] \in Docs =>
           \/ doc[d] \in Docs /\ doc'[d].apunte = doc[d].apunte
           \/ Referida(d, doc[d].apunte)'
  PROVE  (\A d \in Documentos : doc[d] \in Docs => Referida(d, doc[d].apunte))'
  <1> SUFFICES ASSUME NEW d \in Documentos, doc'[d] \in Docs  PROVE Referida(d, doc[d].apunte)'
    OBVIOUS
  <1>1. CASE doc[d] \in Docs /\ doc'[d].apunte = doc[d].apunte
    <2>1. doc[d].apunte \in 0 .. MaxApuntes /\ Referida(d, doc[d].apunte)
      BY <1>1 DEF Docs, Tipos, Referencias
    <2>2. ASSUME NEW i \in 0 .. MaxApuntes, Referida(d, i)  PROVE Referida(d, i)'
      BY <2>2, ReferidaSigue
    <2> QED  BY <1>1, <2>1, <2>2 DEF Referida
  <1> QED  BY <1>1

\* What is referred to after each action of a user.
LEMMA ReferenciasUsuario ==
  ASSUME Tipos, TypeOK', Conserva, NEW p \in Puestos, Usuario(p)
  PROVE  Referencias'
  <1>0. TypeOK /\ Referencias /\ 0 \in 0 .. MaxApuntes  BY CotaAssumption DEF Tipos
  <1>1. CASE AbreNuevo(p) \/ AbreApunte(p) \/ AbreDocumento(p) \/ Cierra(p)
    <2>1. UNCHANGED <<apunte, ultimo, doc, tareas>>
      BY <1>1 DEF AbreNuevo, AbreApunte, AbreDocumento, Cierra, bd
    <2>2. \A o \in Puestos \ {p} : ficha'[o] = ficha[o]
      BY <1>0, <1>1 DEF AbreNuevo, AbreApunte, AbreDocumento, Cierra, TypeOK
    <2>3. ficha'[p] = Nada \/ FichaReferida(ficha[p])'
      <3>1. CASE AbreNuevo(p)
        <4>1. ficha'[p] = [tipo |-> "nuevo"]  BY <1>0, <3>1 DEF AbreNuevo, TypeOK
        <4> QED  BY <4>1 DEF FichaReferida
      <3>2. CASE AbreApunte(p)
        <4>1. PICK i \in Ids : /\ apunte[i] # Nada
                               /\ ficha'[p] = [tipo |-> "apunte", id |-> i, fila |-> apunte[i]]
          BY <1>0, <3>2 DEF AbreApunte, TypeOK
        <4>2. i <= ultimo  BY <1>0, <4>1 DEF TypeOK, Ids
        <4> QED  BY <2>1, <4>1, <4>2 DEF FichaReferida
      <3>3. CASE AbreDocumento(p)
        <4>1. PICK d \in Documentos : /\ doc[d] \notin {Nada, Borrado}
                                      /\ ficha'[p] = [tipo |-> "documento", id |-> d, fila |-> doc[d]]
          BY <1>0, <3>3 DEF AbreDocumento, TypeOK
        <4>2. Referida(d, doc[d].apunte)  BY <1>0, <4>1 DEF Referencias, TypeOK
        <4> QED  BY <2>1, <4>1, <4>2 DEF FichaReferida, Referida
      <3>4. CASE Cierra(p)  BY <1>0, <3>4 DEF Cierra, TypeOK
      <3> QED  BY <1>1, <3>1, <3>2, <3>3, <3>4
    <2>4. (\A o \in Puestos : ficha[o] # Nada => FichaReferida(ficha[o]))'
      BY <2>2, <2>3, FichasTras
    <2> QED  BY <1>0, <2>1, <2>4 DEF Referencias, TareaReferida, Referida
  <1>2. ASSUME NEW ts \in Seq(Tareas), Empieza(p, ts), Referidas(ts)',
               \A d \in Documentos : doc'[d] \in Docs =>
                 \/ doc[d] \in Docs /\ doc'[d].apunte = doc[d].apunte
                 \/ Referida(d, doc[d].apunte)'
        PROVE  Referencias'
    <2>1. /\ ficha'[p] = Nada /\ tareas'[p] = ts
          /\ \A o \in Puestos \ {p} : tareas'[o] = tareas[o] /\ ficha'[o] = ficha[o]
      BY <1>0, <1>2, Empezada
    <2>2. (\A o \in Puestos : ficha[o] # Nada => FichaReferida(ficha[o]))'  BY <2>1, FichasTras
    <2>3. (\A o \in Puestos : \A n \in DOMAIN tareas[o] : TareaReferida(tareas[o][n]))'
      BY <1>2, <2>1, TareasTras
    <2>4. (\A d \in Documentos : doc[d] \in Docs => Referida(d, doc[d].apunte))'  BY <1>2, DocsTras
    <2> QED  BY <2>2, <2>3, <2>4 DEF Referencias
  <1>3. UNCHANGED doc => \A d \in Documentos : doc'[d] \in Docs => doc[d] \in Docs /\ doc'[d].apunte = doc[d].apunte
    OBVIOUS
  <1>4. CASE NuevoApunte(p)
    <2>1. PICK q \in Cuentas, n \in Importes : Empieza(p, Mueve(q, n)) /\ UNCHANGED doc
      BY <1>4 DEF NuevoApunte
    <2>2. PICK f \in Filas : InsertaFila(f)
      <3>1. PICK b \in Cuentas, m \in Importes, c \in Cuentas \cup {Nada} :
              InsertaFila([num |-> 0, cuenta |-> b, importe |-> m, contra |-> c, origen |-> Nada])
        BY <1>4 DEF NuevoApunte
      <3>2. [num |-> 0, cuenta |-> b, importe |-> m, contra |-> c, origen |-> Nada] \in Filas
        BY ImporteAssumption, CotaAssumption DEF Filas
      <3> QED  BY <3>1, <3>2
    <2>3. PICK ts \in Seq(Tareas) : ts = Mueve(q, n)  BY ImporteAssumption, MueveBien
    <2>4. Referidas(ts)'  BY <2>2, <2>3, ReferidasSaldos
    <2> QED  BY <1>2, <1>3, <2>1, <2>3, <2>4
  <1>5. CASE ModificaApunte(p)
    <2>1. PICK original \in Filas : original = ficha[p].fila
      BY <1>0, <1>5, PartesDeFicha DEF ModificaApunte
    <2>2. PICK q \in Cuentas, n \in Importes \cup {original.importe} :
            LET f == [original EXCEPT !.cuenta = q, !.importe = n]
            IN  Empieza(p, Cambia(original, f) \o Contrapartida(f)) /\ UNCHANGED doc
      BY <1>5, <2>1 DEF ModificaApunte
    <2>3. PICK f \in Filas : f = [original EXCEPT !.cuenta = q, !.importe = n]
      BY ImporteAssumption DEF Filas
    <2>4. PICK ts \in Seq(Tareas) : ts = Cambia(original, f) \o Contrapartida(f)
      BY CambiaBien, ContrapartidaBien, TareasDeLasDos
    <2>5. Referidas(ts)'  BY <2>4, ReferidasSaldos
    <2>6. Empieza(p, ts) /\ UNCHANGED doc  BY <2>2, <2>3, <2>4
    <2> QED  BY <1>2, <1>3, <2>5, <2>6
  <1>6. CASE DuplicaApunte(p)
    <2>1. PICK f \in Filas : f = ficha[p].fila
      BY <1>0, <1>6, PartesDeFicha DEF DuplicaApunte
    <2>2. PICK ts \in Seq(Tareas) : ts = Cambia(f, f)  BY CambiaBien
    <2>3. Empieza(p, ts) /\ UNCHANGED doc  BY <1>6, <2>1, <2>2 DEF DuplicaApunte
    <2>4. Referidas(ts)'  BY <2>2, ReferidasSaldos
    <2> QED  BY <1>2, <1>3, <2>3, <2>4
  <1>7. CASE BorraApunte(p)
    <2>1. PICK f \in Filas : f = ficha[p].fila
      BY <1>0, <1>7, PartesDeFicha DEF BorraApunte
    <2>2. PICK ts \in Seq(Tareas) : ts = Mueve(f.cuenta, -f.importe)  BY MueveBien DEF Filas
    <2>3. Empieza(p, ts) /\ UNCHANGED doc  BY <1>7, <2>1, <2>2 DEF BorraApunte
    <2>4. Referidas(ts)'  BY <2>2, ReferidasSaldos
    <2> QED  BY <1>2, <1>3, <2>3, <2>4
  <1>8. CASE NuevoDocumento(p)
    <2>1. PICK d \in Documentos, n \in Importes, q \in Cuentas \cup {Nada} :
            LET f == [importe |-> n, cuenta |-> q, apunte |-> 0]
            IN  doc' = [doc EXCEPT ![d] = f] /\ Empieza(p, RegenApunte(d, f, 0))
      BY <1>8 DEF NuevoDocumento
    <2>2. PICK f \in Docs : f = [importe |-> n, cuenta |-> q, apunte |-> 0]  BY <1>0 DEF Docs
    <2>3. doc' = [doc EXCEPT ![d] = f] /\ Empieza(p, RegenApunte(d, f, 0))  BY <2>1, <2>2
    <2>4. PICK ts \in Seq(Tareas) : ts = RegenApunte(d, f, 0)  BY <1>0, <2>2, RegenBien
    <2>5. doc'[d] = f /\ doc'[d] # Nada /\ \A e \in Documentos \ {d} : doc'[e] = doc[e]
      BY <1>0, <2>2, <2>3, NadaBien DEF TypeOK
    <2>6. Referida(d, 0)' /\ Referida(d, doc[d].apunte)'  BY <2>2, <2>5 DEF Referida
    <2>7. Referidas(ts)'  BY <1>0, <2>2, <2>4, <2>5, <2>6, ReferidasRegen
    <2>8. \A e \in Documentos : doc'[e] \in Docs =>
            (doc[e] \in Docs /\ doc'[e].apunte = doc[e].apunte) \/ Referida(e, doc[e].apunte)'
      BY <2>5, <2>6
    <2> QED  BY <1>2, <2>3, <2>4, <2>7, <2>8
  <1>9. CASE GuardaDocumento(p)
    <2>1. PICK d \in Documentos, v \in 0 .. MaxApuntes : d = ficha[p].id /\ v = ficha[p].fila.apunte
      BY <1>0, <1>9, PartesDeFicha DEF GuardaDocumento, Docs
    <2>2. doc[d] # Nada /\ Referida(d, v)
      BY <1>0, <1>9, <2>1 DEF GuardaDocumento, Editado, Referencias, FichaReferida
    <2>3. doc'[d] # Nada /\ Referida(d, v)'  BY <2>2, ReferidaSigue DEF Conserva
    <2>4. PICK n \in Importes, q \in Cuentas \cup {Nada} :
            /\ doc' = [doc EXCEPT ![d] = IF @ = Borrado THEN Borrado
                                         ELSE [@ EXCEPT !.importe = n, !.cuenta = q]]
            /\ Empieza(p, RegenApunte(d, [importe |-> n, cuenta |-> q, apunte |-> v], v))
      BY <1>9, <2>1 DEF GuardaDocumento
    <2>5. PICK f : f = [importe |-> n, cuenta |-> q, apunte |-> v]  OBVIOUS
    <2>6. PICK ts \in Seq(Tareas) : ts = RegenApunte(d, f, v)  BY <2>5, RegenBien
    <2>7. Referidas(ts)'  BY <2>3, <2>5, <2>6, ReferidasRegen
    <2>8. \A e \in Documentos : doc'[e] \in Docs => doc[e] \in Docs /\ doc'[e].apunte = doc[e].apunte
      <3>1. doc[d] = Borrado \/ doc[d] \in Docs  BY <1>0, <2>2 DEF TypeOK
      <3>2. doc[d] \in Docs => [doc[d] EXCEPT !.importe = n, !.cuenta = q].apunte = doc[d].apunte
        BY DEF Docs
      <3> QED  BY <1>0, <2>4, <3>1, <3>2, NadaBien DEF TypeOK
    <2> QED  BY <1>2, <2>4, <2>5, <2>6, <2>7, <2>8
  <1>10. CASE BorraDocumento(p)
    <2>1. PICK d \in Documentos, v \in 0 .. MaxApuntes : d = ficha[p].id /\ v = ficha[p].fila.apunte
      BY <1>0, <1>10, PartesDeFicha DEF BorraDocumento, Docs
    <2>2. doc[d] # Nada /\ Referida(d, v)
      BY <1>0, <1>10, <2>1 DEF BorraDocumento, Editado, Referencias, FichaReferida
    <2>3. doc'[d] # Nada /\ Referida(d, v)'  BY <2>2, ReferidaSigue DEF Conserva
    <2>4. doc' = [doc EXCEPT ![d] = Borrado] /\ Empieza(p, IF v = 0 THEN <<>> ELSE <<Lee(d, v)>>)
      BY <1>10, <2>1 DEF BorraDocumento
    <2>5. v # 0 => v \in Ids  BY DEF Ids
    <2>6. PICK ts \in Seq(Tareas) : ts = IF v = 0 THEN <<>> ELSE <<Lee(d, v)>>
      <3>1. v # 0 => Lee(d, v) \in Tareas  BY <2>5, TareasBien
      <3>2. <<>> \in Seq(Tareas) /\ (v # 0 => <<Lee(d, v)>> \in Seq(Tareas))  BY <3>1
      <3> QED  BY <3>2
    <2>7. TareaReferida(Lee(d, v))'  BY <2>3 DEF TareaReferida, Lee
    <2>8. Referidas(ts)'  BY <2>6, <2>7, ReferidaUna, ReferidasNinguna
    <2>9. \A e \in Documentos : doc'[e] \in Docs => doc[e] \in Docs /\ doc'[e].apunte = doc[e].apunte
      BY <1>0, <2>4, NadaBien DEF TypeOK
    <2> QED  BY <1>2, <2>4, <2>6, <2>8, <2>9
  <1> QED
    BY <1>1, <1>4, <1>5, <1>6, <1>7, <1>8, <1>9, <1>10 DEF Usuario

\* What is referred to after each statement.
LEMMA ReferenciasSentencia ==
  ASSUME Tipos, TypeOK', Conserva, NEW p \in Puestos, Sentencia(p) \/ Falla(p)
  PROVE  Referencias'
  <1>0. TypeOK /\ Referencias  BY DEF Tipos
  <1>1. \A d \in Documentos : UNCHANGED doc => (doc'[d] \in Docs => doc[d] \in Docs /\ doc'[d].apunte = doc[d].apunte)
    OBVIOUS
  <1>2. ASSUME NEW ts \in Seq(Tareas), tareas[p] # <<>>, Sigue(p, ts), UNCHANGED ficha, Referidas(ts)',
               \A d \in Documentos : doc'[d] \in Docs =>
                 \/ doc[d] \in Docs /\ doc'[d].apunte = doc[d].apunte
                 \/ Referida(d, doc[d].apunte)'
        PROVE  Referencias'
    <2>1. /\ tareas'[p] = ts \o Tail(tareas[p])
          /\ \A o \in Puestos \ {p} : tareas'[o] = tareas[o]
      BY <1>0, <1>2, Seguida
    <2>2. PICK r \in Seq(Tareas) : r = ts \o Tail(tareas[p]) /\ Referidas(r)'  BY <1>2, ColaReferida
    <2>3. (\A o \in Puestos : ficha[o] # Nada => FichaReferida(ficha[o]))'  BY <1>2, FichasTras
    <2>4. (\A o \in Puestos : \A n \in DOMAIN tareas[o] : TareaReferida(tareas[o][n]))'
      BY <2>1, <2>2, TareasTras
    <2>5. (\A d \in Documentos : doc[d] \in Docs => Referida(d, doc[d].apunte))'  BY <1>2, DocsTras
    <2> QED  BY <2>3, <2>4, <2>5 DEF Referencias
  <1>3. Referidas(<<>>)' /\ <<>> \in Seq(Tareas)  BY ReferidasNinguna
  <1>4. CASE LeeSaldo(p)
    BY <1>0, <1>4 DEF LeeSaldo, bd, Referencias, TareaReferida, FichaReferida, Referida
  <1>5. CASE GuardaSaldo(p)
    <2>1. tareas[p] # <<>> /\ Sigue(p, <<>>) /\ UNCHANGED <<ficha, doc>>
      BY <1>5 DEF GuardaSaldo, Toca
    <2> QED  BY <1>1, <1>2, <1>3, <2>1
  <1>6. CASE BuscaContrapartida(p)
    <2>1. PICK t \in Tareas : t = Head(tareas[p]) /\ t.hace = "busca" /\ tareas[p] # <<>>
      BY <1>0, <1>6, Primera DEF BuscaContrapartida, Toca
    <2>2. PICK f \in Filas : f = t.fila /\ f.contra \in Cuentas /\ f.origen = Nada
      BY <2>1, PartesDeTarea
    <2>3. PICK g \in Filas : g = [f EXCEPT !.importe = -f.importe, !.cuenta = f.contra, !.contra = f.cuenta]
      <3>1. f.num \in 0 .. MaxApuntes /\ -f.importe \in Int /\ f.cuenta \in Cuentas
        BY <2>2 DEF Filas
      <3>2. [f EXCEPT !.importe = -f.importe, !.cuenta = f.contra, !.contra = f.cuenta] \in Filas
        BY <2>2, <3>1 DEF Filas
      <3> QED  BY <3>2
    <2>4. g.origen = Nada  BY <2>2, <2>3 DEF Filas
    <2>5. Inserta(g) \in Tareas /\ TareaReferida(Inserta(g))'
      BY <2>4, TareasBien DEF TareaReferida, Inserta
    <2>6. <<Inserta(g)>> \in Seq(Tareas) /\ Referidas(<<Inserta(g)>>)'  BY <2>5, ReferidaUna
    <2>7. /\ Sigue(p, <<>>) \/ Sigue(p, <<Inserta(g)>>)
          /\ UNCHANGED <<ficha, doc>>
      BY <1>6, <2>1, <2>2, <2>3 DEF BuscaContrapartida, bd
    <2>8. PICK ts \in Seq(Tareas) : Sigue(p, ts) /\ Referidas(ts)'  BY <1>3, <2>6, <2>7
    <2> QED  BY <1>1, <1>2, <2>1, <2>7, <2>8
  <1>7. CASE InsertaApunte(p)
    <2>1. PICK t \in Tareas : /\ t = Head(tareas[p]) /\ t.hace = "inserta" /\ tareas[p] # <<>>
                              /\ TareaReferida(t)
      BY <1>0, <1>7, Primera DEF InsertaApunte, Toca, Referencias
    <2>2. PICK f \in Filas : f = t.fila  BY <2>1, PartesDeTarea
    <2>3. f.cuenta \in Cuentas /\ f.importe \in Int /\ f.origen \in Documentos \cup {Nada}
      BY <2>2 DEF Filas
    <2>4. InsertaFila(f)  BY <1>7, <2>1, <2>2 DEF InsertaApunte
    <2>5. PICK u \in Ids : /\ u = ultimo + 1 /\ u = ultimo' /\ apunte'[u].origen = f.origen
      BY <1>0, <2>4, Insertada
    <2>6. f.origen # Nada => TareaReferida(Anota(f.origen, u))'
      <3> SUFFICES ASSUME f.origen # Nada  PROVE TareaReferida(Anota(f.origen, u))'  OBVIOUS
      <3>1. doc'[f.origen] # Nada  BY <2>1, <2>2, <2>3 DEF TareaReferida, Conserva
      <3>2. Referida(f.origen, u)'  BY <2>5 DEF Referida, Ids
      <3> QED  BY <3>1, <3>2 DEF TareaReferida, Anota
    <2>7. PICK A \in Seq(Tareas) : A = Mueve(f.cuenta, f.importe)  BY <2>3, MueveBien
    <2>8. PICK B \in Seq(Tareas) : B = IF f.origen = Nada THEN <<>> ELSE <<Anota(f.origen, u)>>
      <3>1. f.origen # Nada => Anota(f.origen, u) \in Tareas  BY <2>3, TareasBien
      <3>2. f.origen # Nada => <<Anota(f.origen, u)>> \in Seq(Tareas)  BY <3>1
      <3> QED  BY <1>3, <3>2
    <2>9. Referidas(A)' /\ Referidas(B)'
      BY <1>3, <2>6, <2>7, <2>8, ReferidaUna, ReferidasSaldos
    <2>10. A \o B \in Seq(Tareas) /\ Referidas(A \o B)'  BY <2>9, TareasDeLasDos, ReferidasLasDos
    <2>11. Sigue(p, A \o B) /\ UNCHANGED <<ficha, doc>>
      BY <1>7, <2>1, <2>2, <2>5, <2>7, <2>8 DEF InsertaApunte
    <2> QED  BY <1>1, <1>2, <2>1, <2>10, <2>11
  <1>8. CASE LeeApunte(p)
    <2>1. PICK t \in Tareas : /\ t = Head(tareas[p]) /\ t.hace = "lee" /\ tareas[p] # <<>>
                              /\ TareaReferida(t)
      BY <1>0, <1>8, Primera DEF LeeApunte, Toca, Referencias
    <2>2. t.documento \in Documentos /\ t.id \in Ids  BY <2>1, PartesDeTarea
    <2>3. TareaReferida(t)'  BY <2>1, TareaSigue
    <2>4. PICK f : f = apunte[t.id]  OBVIOUS
    <2>5. f # Nada => Borra(t.documento, t.id, f) \in Tareas  BY <1>0, <2>2, <2>4, TareasBien DEF TypeOK
    <2>6. TareaReferida(Borra(t.documento, t.id, f))'  BY <2>1, <2>3 DEF TareaReferida, Borra
    <2>7. /\ f # Nada => <<Borra(t.documento, t.id, f)>> \in Seq(Tareas)
          /\ Referidas(<<Borra(t.documento, t.id, f)>>)'
      BY <2>5, <2>6, ReferidaUna
    <2>8. PICK ts \in Seq(Tareas) : Sigue(p, ts) /\ Referidas(ts)'
      <3>1. Sigue(p, IF f = Nada THEN <<>> ELSE <<Borra(t.documento, t.id, f)>>)
        BY <1>8, <2>1, <2>4 DEF LeeApunte
      <3> QED  BY <1>3, <2>7, <3>1
    <2>9. UNCHANGED <<ficha, doc>>  BY <1>8 DEF LeeApunte, bd
    <2> QED  BY <1>1, <1>2, <2>1, <2>8, <2>9
  <1>9. CASE BorraFila(p)
    <2>1. PICK t \in Tareas : t = Head(tareas[p]) /\ t.hace = "borra" /\ tareas[p] # <<>>
      BY <1>0, <1>9, Primera DEF BorraFila, Toca
    <2>2. PICK f \in Filas : f = t.fila  BY <2>1, PartesDeTarea
    <2>3. PICK ts \in Seq(Tareas) : ts = Mueve(f.cuenta, -f.importe)  BY MueveBien DEF Filas
    <2>4. Referidas(ts)'  BY <2>3, ReferidasSaldos
    <2>5. Sigue(p, ts) /\ UNCHANGED <<ficha, doc>>  BY <1>9, <2>1, <2>2, <2>3 DEF BorraFila
    <2> QED  BY <1>1, <1>2, <2>1, <2>4, <2>5
  <1>10. CASE AnotaApunte(p)
    <2>1. PICK t \in Tareas : /\ t = Head(tareas[p]) /\ t.hace = "anota" /\ tareas[p] # <<>>
                              /\ TareaReferida(t)
      BY <1>0, <1>10, Primera DEF AnotaApunte, Toca, Referencias
    <2>2. t.documento \in Documentos /\ t.id \in Ids  BY <2>1, PartesDeTarea
    <2>3. TareaReferida(t)'  BY <2>1, TareaSigue
    <2>4. Referida(t.documento, t.id)'  BY <2>1, <2>3 DEF TareaReferida
    <2>5. /\ doc' = [doc EXCEPT ![t.documento] = IF @ = Borrado THEN @ ELSE [@ EXCEPT !.apunte = t.id]]
          /\ Sigue(p, <<>>) /\ UNCHANGED ficha
      BY <1>10, <2>1 DEF AnotaApunte
    <2>6. \A d \in Documentos : doc'[d] \in Docs =>
            (doc[d] \in Docs /\ doc'[d].apunte = doc[d].apunte) \/ Referida(d, doc[d].apunte)'
      <3> SUFFICES ASSUME NEW d \in Documentos, doc'[d] \in Docs
                   PROVE  \/ doc[d] \in Docs /\ doc'[d].apunte = doc[d].apunte
                          \/ Referida(d, doc[d].apunte)'
        OBVIOUS
      <3>1. CASE d # t.documento  BY <1>0, <2>5, <3>1 DEF TypeOK
      <3>2. CASE d = t.documento
        <4>1. doc[d] \in Docs
          BY <1>0, <2>1, <2>2, <2>5, <3>2, NadaBien DEF TypeOK, TareaReferida
        <4>2. doc'[d].apunte = t.id  BY <1>0, <2>2, <2>5, <3>2, <4>1, NadaBien DEF TypeOK, Docs
        <4> QED  BY <2>4, <3>2, <4>2 DEF Referida
      <3> QED  BY <3>1, <3>2
    <2> QED  BY <1>2, <1>3, <2>1, <2>5, <2>6
  <1>11. CASE Falla(p)
    <2>1. UNCHANGED <<ficha, doc>> /\ tareas'[p] = <<>> /\ \A o \in Puestos \ {p} : tareas'[o] = tareas[o]
      BY <1>0, <1>11 DEF Falla, bd, TypeOK
    <2>2. (\A o \in Puestos : ficha[o] # Nada => FichaReferida(ficha[o]))'  BY <2>1, FichasTras
    <2>3. (\A o \in Puestos : \A n \in DOMAIN tareas[o] : TareaReferida(tareas[o][n]))'
      BY <1>3, <2>1, TareasTras
    <2>4. (\A d \in Documentos : doc[d] \in Docs => Referida(d, doc[d].apunte))'
      BY <1>1, <2>1, DocsTras
    <2> QED  BY <2>2, <2>3, <2>4 DEF Referencias
  <1> QED
    BY <1>4, <1>5, <1>6, <1>7, <1>8, <1>9, <1>10, <1>11 DEF Sentencia

-------------------------------------------------------------------------------
(* The balances.                                                           *)

LEMMA SonEnteros ==
  ASSUME NEW q
  PROVE  /\ \A a \in Filas \cup {Nada} : Valor(q, a) \in Int
         /\ \A t \in Tareas : Aporta(q, t) \in Int
  <1>1. \A a \in Filas : a.importe \in Int  BY DEF Filas
  <1> QED  BY <1>1, PartesDeTarea DEF Valor, Aporta

LEMMA CuadranTipos ==
  ASSUME TypeOK, NEW q
  PROVE  /\ IsFiniteSet(Ids) /\ IsFiniteSet(Puestos)
         /\ \A i \in Ids : Valor(q, apunte[i]) \in Int
         /\ Apuntado(q) \in Int
  <1> DEFINE f == [i \in Ids |-> Valor(q, apunte[i])]
  <1>1. IsFiniteSet(Ids)  BY CotaAssumption, FS_Interval DEF Ids
  <1>2. \A i \in Ids : Valor(q, apunte[i]) \in Int  BY SonEnteros DEF TypeOK
  <1>3. DOMAIN f = Ids /\ \A i \in Ids : f[i] \in Int  BY <1>2
  <1> HIDE DEF f
  <1>4. SumFunctionOnSet(f, Ids) \in Int  BY <1>1, <1>3, SumInt
  <1>5. Apuntado(q) = SumFunctionOnSet(f, Ids)  BY <1>3 DEF Apuntado, f, SumFunction
  <1> QED  BY <1>1, <1>2, <1>4, <1>5, PuestosAssumption

\* An entry that changes changes the sum of its account, or of both of its accounts.
LEMMA ApuntadoTras ==
  ASSUME TypeOK, TypeOK', NEW q, NEW i \in Ids, \A j \in Ids \ {i} : apunte'[j] = apunte[j]
  PROVE  Apuntado(q)' = Apuntado(q) - Valor(q, apunte[i]) + Valor(q, apunte'[i])
  <1> DEFINE f == [j \in Ids |-> Valor(q, apunte[j])]
             g == [j \in Ids |-> Valor(q, apunte'[j])]
  <1>1. DOMAIN f = Ids /\ DOMAIN g = Ids /\ IsFiniteSet(Ids)  BY CuadranTipos
  <1>2. \A j \in Ids : f[j] \in Int /\ g[j] \in Int
    <2>1. \A j \in Ids : apunte[j] \in Filas \cup {Nada} /\ apunte'[j] \in Filas \cup {Nada}
      BY DEF TypeOK
    <2> QED  BY <2>1, SonEnteros
  <1>3. \A j \in Ids \ {i} : f[j] = g[j]  OBVIOUS
  <1>4. f[i] = Valor(q, apunte[i]) /\ g[i] = Valor(q, apunte'[i])  OBVIOUS
  <1>5. Apuntado(q) = SumFunctionOnSet(f, Ids) /\ Apuntado(q)' = SumFunctionOnSet(g, Ids)
    BY <1>1 DEF Apuntado, SumFunction, Valor
  <1> HIDE DEF f, g
  <1>6. SumFunctionOnSet(g, Ids) = SumFunctionOnSet(f, Ids) - f[i] + g[i]
    BY <1>1, <1>2, <1>3, SumChange
  <1> QED  BY <1>4, <1>5, <1>6

LEMMA ApuntadoIgual ==
  ASSUME UNCHANGED apunte, NEW q
  PROVE  Apuntado(q)' = Apuntado(q)
  BY DEF Apuntado, Valor

\* What a sequence of statements adds to an account, by its parts.
Movidos(q, r) == [n \in DOMAIN r |-> Aporta(q, r[n])]

LEMMA MovidosBien ==
  ASSUME NEW q, NEW r \in Seq(Tareas)
  PROVE  /\ Movidos(q, r) \in Seq(Int) /\ Len(Movidos(q, r)) = Len(r)
         /\ \A n \in DOMAIN r : Movidos(q, r)[n] = Aporta(q, r[n])
  <1>1. \A n \in DOMAIN r : Aporta(q, r[n]) \in Int  BY TareasDeLasDos, SonEnteros
  <1>2. DOMAIN r = 1 .. Len(r) /\ Len(r) \in Nat  BY TareasDeLasDos
  <1>3. PICK k \in Nat : k = Len(r)  BY <1>2
  <1>4. Movidos(q, r) \in [1 .. k -> Int]  BY <1>1, <1>2, <1>3 DEF Movidos
  <1>5. \A M \in [1 .. k -> Int] : M \in Seq(Int) /\ Len(M) = k  OBVIOUS
  <1> QED  BY <1>3, <1>4, <1>5 DEF Movidos

LEMMA MovidosLosDos ==
  ASSUME NEW q, NEW s \in Seq(Tareas), NEW t \in Seq(Tareas)
  PROVE  Movidos(q, s \o t) = Movidos(q, s) \o Movidos(q, t)
  <1>1. PICK u \in Seq(Tareas) :
          /\ u = s \o t /\ Len(u) = Len(s) + Len(t)
          /\ \A n \in DOMAIN s : n \in DOMAIN u /\ u[n] = s[n]
          /\ \A n \in DOMAIN t : n + Len(s) \in DOMAIN u /\ u[n + Len(s)] = t[n]
          /\ DOMAIN s = 1 .. Len(s) /\ DOMAIN t = 1 .. Len(t)
    <2>1. s \o t \in Seq(Tareas) /\ Len(s \o t) = Len(s) + Len(t)  BY TareasDeLasDos
    <2>2. \A n \in DOMAIN s : n \in DOMAIN (s \o t) /\ (s \o t)[n] = s[n]  BY TareasDeLasDos
    <2>3. \A n \in DOMAIN t : n + Len(s) \in DOMAIN (s \o t) /\ (s \o t)[n + Len(s)] = t[n]
      BY TareasDeLasDos
    <2>4. DOMAIN s = 1 .. Len(s) /\ DOMAIN t = 1 .. Len(t)  BY TareasDeLasDos
    <2>5. PICK u : u = s \o t  OBVIOUS
    <2> QED  BY <2>1, <2>2, <2>3, <2>4, <2>5
  <1>2. PICK a, b, c : a = Movidos(q, s) /\ b = Movidos(q, t) /\ c = Movidos(q, u)  OBVIOUS
  <1>3. /\ a \in Seq(Int) /\ Len(a) = Len(s)
        /\ b \in Seq(Int) /\ Len(b) = Len(t)
        /\ c \in Seq(Int) /\ Len(c) = Len(u)
    BY <1>2, MovidosBien
  <1>4. /\ \A n \in DOMAIN s : a[n] = Aporta(q, s[n])
        /\ \A n \in DOMAIN t : b[n] = Aporta(q, t[n])
        /\ \A n \in DOMAIN u : c[n] = Aporta(q, u[n])
    BY <1>2, MovidosBien
  <1>5. \A n \in 1 .. Len(s) : c[n] = a[n]  BY <1>1, <1>4
  <1>6. \A n \in 1 .. Len(t) : c[n + Len(s)] = b[n]  BY <1>1, <1>4
  <1>7. Parts(a, b, c)  BY <1>1, <1>3, <1>5, <1>6 DEF Parts
  <1>8. c = a \o b  BY <1>3, <1>7, TwoParts
  <1> QED  BY <1>1, <1>2, <1>8

LEMMA MuevenNada ==
  \A q : Mueven(q, <<>>) = 0
  BY SumNone DEF Mueven

LEMMA MuevenEntero ==
  ASSUME NEW q, NEW s \in Seq(Tareas)
  PROVE  Mueven(q, s) \in Int
  <1>1. Movidos(q, s) \in Seq(Int)  BY MovidosBien
  <1> QED  BY <1>1, SumOfSequence DEF Mueven, Movidos

LEMMA MuevenSuma ==
  ASSUME NEW q, NEW s \in Seq(Tareas), NEW t \in Seq(Tareas)
  PROVE  Mueven(q, s \o t) = Mueven(q, s) + Mueven(q, t)
  <1>1. PICK a \in Seq(Int), b \in Seq(Int) : a = Movidos(q, s) /\ b = Movidos(q, t)
    BY MovidosBien
  <1>2. Movidos(q, s \o t) = a \o b  BY <1>1, MovidosLosDos
  <1>3. SumFunction(a \o b) = SumFunction(a) + SumFunction(b)  BY SumConcat
  <1>4. /\ Mueven(q, s \o t) = SumFunction(Movidos(q, s \o t))
        /\ Mueven(q, s) = SumFunction(Movidos(q, s))
        /\ Mueven(q, t) = SumFunction(Movidos(q, t))
    BY DEF Mueven, Movidos
  <1>5. Mueven(q, s \o t) = SumFunction(a \o b)  BY <1>2, <1>4
  <1>6. Mueven(q, s) = SumFunction(a) /\ Mueven(q, t) = SumFunction(b)  BY <1>1, <1>4
  <1> QED  BY <1>3, <1>5, <1>6

LEMMA MuevenSola ==
  ASSUME NEW q, NEW u \in Tareas
  PROVE  Aporta(q, u) \in Int /\ Mueven(q, <<u>>) = Aporta(q, u)
  <1>1. Aporta(q, u) \in Int  BY SonEnteros
  <1>2. Movidos(q, <<u>>) = <<Aporta(q, u)>>  BY DEF Movidos
  <1>3. Mueven(q, <<u>>) = SumFunction(Movidos(q, <<u>>))  BY DEF Mueven, Movidos
  <1> QED  BY <1>1, <1>2, <1>3, SumSingle

LEMMA MuevenUna ==
  ASSUME NEW q, NEW c \in Cuentas, NEW n \in Int
  PROVE  Mueven(q, Mueve(c, n)) = IF c = q THEN n ELSE 0
  <1>1. ActSaldo(c, n) \in Tareas /\ <<>> \in Seq(Tareas)  BY TareasBien
  <1>2. Aporta(q, ActSaldo(c, n)) = IF c = q THEN n ELSE 0  BY DEF Aporta, ActSaldo
  <1> QED  BY <1>1, <1>2, MuevenSola, MuevenNada DEF Mueve

\* The statements of one workstation change what is on its way to an account.
LEMMA PendienteTras ==
  ASSUME TypeOK, TypeOK', NEW q, NEW p \in Puestos, \A o \in Puestos \ {p} : tareas'[o] = tareas[o]
  PROVE  /\ Pendiente(q) \in Int
         /\ Pendiente(q)' = Pendiente(q) - Mueven(q, tareas[p]) + Mueven(q, tareas'[p])
  <1> DEFINE f == [o \in Puestos |-> Mueven(q, tareas[o])]
             g == [o \in Puestos |-> Mueven(q, tareas'[o])]
  <1>1. DOMAIN f = Puestos /\ DOMAIN g = Puestos /\ IsFiniteSet(Puestos)  BY PuestosAssumption
  <1>2. \A o \in Puestos : f[o] \in Int /\ g[o] \in Int
    <2>1. \A o \in Puestos : tareas[o] \in Seq(Tareas) /\ tareas'[o] \in Seq(Tareas)
      BY DEF TypeOK
    <2>2. \A s \in Seq(Tareas) : Mueven(q, s) \in Int  BY MuevenEntero
    <2> QED  BY <2>1, <2>2
  <1>3. \A o \in Puestos \ {p} : f[o] = g[o]  OBVIOUS
  <1>4. f[p] = Mueven(q, tareas[p]) /\ g[p] = Mueven(q, tareas'[p])  OBVIOUS
  <1>5. Pendiente(q) = SumFunctionOnSet(f, Puestos) /\ Pendiente(q)' = SumFunctionOnSet(g, Puestos)
    BY <1>1 DEF Pendiente, SumFunction, Mueven, Aporta
  <1> HIDE DEF f, g
  <1>6. SumFunctionOnSet(g, Puestos) = SumFunctionOnSet(f, Puestos) - f[p] + g[p]
    BY <1>1, <1>2, <1>3, SumChange
  <1>7. SumFunctionOnSet(f, Puestos) \in Int  BY <1>1, <1>2, SumInt
  <1> QED  BY <1>4, <1>5, <1>6, <1>7

LEMMA PendienteIgual ==
  ASSUME UNCHANGED tareas, NEW q
  PROVE  Pendiente(q)' = Pendiente(q)
  BY DEF Pendiente, Mueven, Aporta

\* What is on its way to an account after a statement is executed, and after a form
\* is accepted.
LEMMA PendienteSigue ==
  ASSUME TypeOK, TypeOK', NEW q, NEW p \in Puestos, tareas[p] # <<>>, NEW ts \in Seq(Tareas),
         Sigue(p, ts)
  PROVE  /\ Pendiente(q) \in Int /\ Mueven(q, ts) \in Int /\ Aporta(q, Head(tareas[p])) \in Int
         /\ Pendiente(q)' = Pendiente(q) - Aporta(q, Head(tareas[p])) + Mueven(q, ts)
  <1>1. tareas[p] \in Seq(Tareas) /\ \A o \in Puestos \ {p} : tareas'[o] = tareas[o]
    BY DEF TypeOK, Sigue
  <1>a. /\ Head(tareas[p]) \in Tareas /\ Tail(tareas[p]) \in Seq(Tareas)
        /\ tareas[p] = <<Head(tareas[p])>> \o Tail(tareas[p])
    BY <1>1, TareasDeLaCola
  <1>2. PICK u \in Tareas, r \in Seq(Tareas) :
          u = Head(tareas[p]) /\ r = Tail(tareas[p]) /\ tareas[p] = <<u>> \o r
    BY <1>a
  <1>3. tareas'[p] = ts \o r  BY <1>2 DEF Sigue, TypeOK
  <1>4. <<u>> \in Seq(Tareas)  BY <1>2, UnaTarea
  <1>5. Mueven(q, tareas[p]) = Aporta(q, u) + Mueven(q, r)
    <2>1. Mueven(q, <<u>> \o r) = Mueven(q, <<u>>) + Mueven(q, r)  BY <1>4, MuevenSuma
    <2>2. Mueven(q, <<u>>) = Aporta(q, u)  BY MuevenSola
    <2> QED  BY <1>2, <2>1, <2>2
  <1>6. Mueven(q, tareas'[p]) = Mueven(q, ts) + Mueven(q, r)  BY <1>3, MuevenSuma
  <1>7. Mueven(q, r) \in Int /\ Mueven(q, ts) \in Int /\ Aporta(q, u) \in Int  BY MuevenEntero, MuevenSola
  <1>8. /\ Pendiente(q) \in Int
        /\ Pendiente(q)' = Pendiente(q) - Mueven(q, tareas[p]) + Mueven(q, tareas'[p])
    BY <1>1, PendienteTras
  <1>9. Aporta(q, Head(tareas[p])) = Aporta(q, u)  BY <1>2
  <1> QED  BY <1>9, <1>5, <1>6, <1>7, <1>8

LEMMA PendienteEmpieza ==
  ASSUME TypeOK, TypeOK', NEW q, NEW p \in Puestos, tareas[p] = <<>>, NEW ts \in Seq(Tareas),
         Empieza(p, ts)
  PROVE  /\ Pendiente(q) \in Int /\ Mueven(q, ts) \in Int
         /\ Pendiente(q)' = Pendiente(q) + Mueven(q, ts)
  <1>1. tareas'[p] = ts /\ \A o \in Puestos \ {p} : tareas'[o] = tareas[o]
    BY DEF TypeOK, Empieza
  <1>2. Mueven(q, tareas[p]) = 0  BY MuevenNada
  <1>3. /\ Pendiente(q) \in Int
        /\ Pendiente(q)' = Pendiente(q) - Mueven(q, tareas[p]) + Mueven(q, tareas'[p])
    BY <1>1, PendienteTras
  <1>4. Mueven(q, ts) \in Int  BY MuevenEntero
  <1> QED  BY <1>1, <1>2, <1>3, <1>4

\* The statements that change an entry move what it is less what it was; a counterpart
\* still to be looked for, and an entry to be inserted, have moved nothing yet.
LEMMA MuevenCambia ==
  ASSUME NEW q, NEW f \in Filas, NEW g \in Filas
  PROVE  Mueven(q, Cambia(f, g) \o Contrapartida(g)) = Valor(q, g) - Valor(q, f)
         /\ Mueven(q, Cambia(f, g)) = Valor(q, g) - Valor(q, f)
  <1>1. /\ f.cuenta \in Cuentas /\ f.importe \in Int /\ -f.importe \in Int /\ f # Nada
        /\ g.cuenta \in Cuentas /\ g.importe \in Int /\ g # Nada
    BY NadaBien DEF Filas
  <1>2. Mueven(q, Mueve(f.cuenta, -f.importe)) = -Valor(q, f)  BY <1>1, MuevenUna DEF Valor
  <1>3. Mueven(q, Mueve(g.cuenta, g.importe)) = Valor(q, g)  BY <1>1, MuevenUna DEF Valor
  <1>4. /\ Mueve(f.cuenta, -f.importe) \in Seq(Tareas) /\ Mueve(g.cuenta, g.importe) \in Seq(Tareas)
        /\ Cambia(f, g) \in Seq(Tareas) /\ Contrapartida(g) \in Seq(Tareas)
    BY <1>1, MueveBien, CambiaBien, ContrapartidaBien
  <1>5. Mueven(q, Cambia(f, g)) = -Valor(q, f) + Valor(q, g)
    BY <1>2, <1>3, <1>4, MuevenSuma DEF Cambia
  <1>6. Mueven(q, Contrapartida(g)) = 0
    <2>1. CASE Contrapartida(g) = <<>>  BY <2>1, MuevenNada
    <2>2. CASE g.contra # Nada /\ g.origen = Nada /\ Contrapartida(g) = <<Busca(g)>>
      <3>1. Busca(g) \in Tareas /\ Aporta(q, Busca(g)) = 0  BY <2>2, TareasBien DEF Aporta, Busca
      <3> QED  BY <2>2, <3>1, MuevenSola
    <2> QED  BY <2>1, <2>2 DEF Contrapartida
  <1>7. Mueven(q, Cambia(f, g) \o Contrapartida(g)) = Mueven(q, Cambia(f, g)) + Mueven(q, Contrapartida(g))
    BY <1>4, MuevenSuma
  <1>8. Valor(q, f) \in Int /\ Valor(q, g) \in Int  BY <1>1 DEF Valor
  <1> QED  BY <1>5, <1>6, <1>7, <1>8

LEMMA MuevenRegen ==
  ASSUME NEW q, NEW d \in Documentos, NEW n \in Importes, NEW c \in Cuentas \cup {Nada},
         NEW v \in 0 .. MaxApuntes, NEW f, f.importe = n, f.cuenta = c
  PROVE  Mueven(q, RegenApunte(d, f, v)) = 0
  <1> DEFINE r == [num |-> 0, cuenta |-> c, importe |-> n, contra |-> Nada, origen |-> d]
             A == IF v = 0 THEN <<>> ELSE <<Lee(d, v)>>
             B == IF n = 0 \/ c = Nada THEN <<>> ELSE <<Inserta(r)>>
  <1>1. RegenApunte(d, f, v) = A \o B  BY DEF RegenApunte
  <1>2. A \in Seq(Tareas) /\ Mueven(q, A) = 0
    <2>1. CASE v = 0  BY <2>1, MuevenNada
    <2>2. CASE v # 0
      <3>1. Lee(d, v) \in Tareas /\ Aporta(q, Lee(d, v)) = 0
        BY <2>2, TareasBien DEF Aporta, Lee, Ids
      <3> QED  BY <2>2, <3>1, MuevenSola
    <2> QED  BY <2>1, <2>2
  <1>3. B \in Seq(Tareas) /\ Mueven(q, B) = 0
    <2>1. CASE n = 0 \/ c = Nada  BY <2>1, MuevenNada
    <2>2. CASE ~(n = 0 \/ c = Nada)
      <3>1. Inserta(r) \in Tareas /\ Aporta(q, Inserta(r)) = 0
        BY <2>2, FilaDeDocumento, TareasBien DEF Aporta, Inserta
      <3> QED  BY <2>2, <3>1, MuevenSola
    <2> QED  BY <2>1, <2>2
  <1> HIDE DEF A, B
  <1>4. Mueven(q, A \o B) = Mueven(q, A) + Mueven(q, B)  BY <1>2, <1>3, MuevenSuma
  <1> QED  BY <1>1, <1>2, <1>3, <1>4

\* The balances after each action of a user, one step per action: what the entry of
\* the form adds to its account is on its way to it.
LEMMA CuadranUsuario ==
  ASSUME Tipos, TypeOK', SaldosCuadran, NEW p \in Puestos, Usuario(p)
  PROVE  SaldosCuadran'
  <1> SUFFICES ASSUME NEW q \in Cuentas, q \notin sospechoso'
               PROVE  saldo'[q] + Pendiente(q)' = Apuntado(q)'
    BY DEF SaldosCuadran
  <1>0. TypeOK /\ saldo[q] \in Int /\ Apuntado(q) \in Int  BY CuadranTipos DEF Tipos, TypeOK
  <1>1. CASE AbreNuevo(p) \/ AbreApunte(p) \/ AbreDocumento(p) \/ Cierra(p)
    <2>1. UNCHANGED <<saldo, apunte, tareas, sospechoso>>
      BY <1>1 DEF AbreNuevo, AbreApunte, AbreDocumento, Cierra, bd
    <2> QED  BY <2>1, ApuntadoIgual, PendienteIgual DEF SaldosCuadran
  \* An account whose entries change is doubted, unless they change as the form knows.
  <1>2. ASSUME UNCHANGED saldo, q \notin sospechoso, tareas[p] = <<>>,
               NEW ts \in Seq(Tareas), Empieza(p, ts),
               Apuntado(q)' = Apuntado(q) + Mueven(q, ts)
        PROVE  saldo'[q] + Pendiente(q)' = Apuntado(q)'
    <2>1. saldo[q] + Pendiente(q) = Apuntado(q)  BY <1>2 DEF SaldosCuadran
    <2>2. /\ Pendiente(q) \in Int /\ Mueven(q, ts) \in Int
          /\ Pendiente(q)' = Pendiente(q) + Mueven(q, ts)
      BY <1>0, <1>2, PendienteEmpieza
    <2> QED  BY <1>0, <1>2, <2>1, <2>2
  <1>3. CASE NuevoApunte(p)
    <2>1. PICK c \in Cuentas, n \in Importes, o \in Cuentas \cup {Nada} :
            LET f == [num |-> 0, cuenta |-> c, importe |-> n, contra |-> o, origen |-> Nada]
            IN  InsertaFila(f) /\ Empieza(p, Mueve(c, n))
      BY <1>3 DEF NuevoApunte
    <2> DEFINE f == [num |-> 0, cuenta |-> c, importe |-> n, contra |-> o, origen |-> Nada]
    <2>2. f \in Filas /\ f.cuenta = c /\ f.importe = n /\ n \in Int
      BY ImporteAssumption, CotaAssumption DEF Filas
    <2>3. InsertaFila(f)  BY <2>1
    <2> HIDE DEF f
    <2>4. PICK i \in Ids :
            /\ apunte[i] = Nada /\ apunte'[i] \in Filas
            /\ apunte'[i].cuenta = c /\ apunte'[i].importe = n
            /\ \A j \in Ids \ {i} : apunte'[j] = apunte[j]
      BY <1>0, <2>2, <2>3, Insertada
    <2>5. Valor(q, apunte[i]) = 0 /\ Valor(q, apunte'[i]) = Mueven(q, Mueve(c, n))
      BY <2>2, <2>4, NadaBien, MuevenUna DEF Valor
    <2>6. Apuntado(q)' = Apuntado(q) - Valor(q, apunte[i]) + Valor(q, apunte'[i])
      BY <1>0, <2>4, ApuntadoTras
    <2>7. Apuntado(q)' = Apuntado(q) + Mueven(q, Mueve(c, n))
      BY <1>0, <2>5, <2>6
    <2>8. UNCHANGED <<saldo, sospechoso>> /\ tareas[p] = <<>>  BY <1>3 DEF NuevoApunte, Editado
    <2> QED  BY <1>2, <2>1, <2>2, <2>7, <2>8, MueveBien
  <1>4. CASE ModificaApunte(p)
    <2>0. PICK i \in Ids, original \in Filas : i = ficha[p].id /\ original = ficha[p].fila
      BY <1>0, <1>4, PartesDeFicha DEF ModificaApunte
    <2>1. PICK c \in Cuentas, n \in Importes \cup {original.importe} :
            LET f == [original EXCEPT !.cuenta = c, !.importe = n]
            IN  /\ apunte' = [apunte EXCEPT ![i] = IF @ = Nada THEN Nada ELSE f]
                /\ Empieza(p, Cambia(original, f) \o Contrapartida(f))
                /\ Sospecha(IF apunte[i] = original THEN {}
                            ELSE {c, original.cuenta}
                                   \cup IF apunte[i] = Nada THEN {} ELSE {apunte[i].cuenta})
      BY <1>4, <2>0 DEF ModificaApunte
    <2> DEFINE f == [original EXCEPT !.cuenta = c, !.importe = n]
               ts == Cambia(original, f) \o Contrapartida(f)
    <2>2. f \in Filas /\ f.cuenta = c /\ f.importe = n
      BY ImporteAssumption DEF Filas
    <2>3. Empieza(p, ts) /\ apunte' = [apunte EXCEPT ![i] = IF @ = Nada THEN Nada ELSE f]  BY <2>1
    <2> HIDE DEF f
    <2>4. ts \in Seq(Tareas)  BY <2>2, CambiaBien, ContrapartidaBien, TareasDeLasDos
    <2>5. Mueven(q, ts) = Valor(q, f) - Valor(q, original)  BY <2>2, MuevenCambia
    <2>6. Valor(q, f) \in Int /\ Valor(q, original) \in Int  BY <2>2, SonEnteros
    <2>7. /\ apunte'[i] = IF apunte[i] = Nada THEN Nada ELSE f
          /\ \A j \in Ids \ {i} : apunte'[j] = apunte[j]
      BY <1>0, <2>3 DEF TypeOK
    <2>8. Apuntado(q)' = Apuntado(q) - Valor(q, apunte[i]) + Valor(q, apunte'[i])
      BY <1>0, <2>7, ApuntadoTras
    <2>9. Valor(q, apunte'[i]) - Valor(q, apunte[i]) = Valor(q, f) - Valor(q, original)
      <3>1. CASE apunte[i] = original  BY <2>2, <2>7, <3>1, NadaBien
      <3>2. CASE apunte[i] # original
        <4>1. /\ q # c /\ q # original.cuenta /\ (apunte[i] # Nada => q # apunte[i].cuenta)
          BY <2>1, <3>2, NadaBien DEF Sospecha
        <4> QED  BY <2>2, <2>7, <4>1 DEF Valor
      <3> QED  BY <3>1, <3>2
    <2>10. Valor(q, apunte[i]) \in Int /\ Valor(q, apunte'[i]) \in Int
      BY <1>0, SonEnteros DEF TypeOK
    <2>11. Apuntado(q)' = Apuntado(q) + Mueven(q, ts)
      BY <1>0, <2>5, <2>6, <2>8, <2>9, <2>10
    <2>12. UNCHANGED saldo /\ tareas[p] = <<>>  BY <1>4 DEF ModificaApunte, Editado
    <2>13. q \notin sospechoso  BY <2>1 DEF Sospecha
    <2> HIDE DEF ts
    <2> QED  BY <1>2, <2>3, <2>4, <2>11, <2>12, <2>13
  <1>5. CASE DuplicaApunte(p)
    <2>0. PICK original \in Filas : original = ficha[p].fila
      BY <1>0, <1>5, PartesDeFicha DEF DuplicaApunte
    <2>1. /\ InsertaFila(original) /\ Empieza(p, Cambia(original, original))
          /\ Sospecha({original.cuenta, original.origen}) /\ UNCHANGED saldo /\ tareas[p] = <<>>
      BY <1>5, <2>0 DEF DuplicaApunte, Editado
    <2>2. PICK i \in Ids :
            /\ apunte[i] = Nada /\ apunte'[i] \in Filas
            /\ apunte'[i].cuenta = original.cuenta
            /\ \A j \in Ids \ {i} : apunte'[j] = apunte[j]
      BY <1>0, <2>0, <2>1, Insertada
    <2>3. q # original.cuenta /\ q \notin sospechoso  BY <2>1, NadaBien DEF Sospecha
    <2>4. Valor(q, apunte[i]) = 0 /\ Valor(q, apunte'[i]) = 0  BY <2>2, <2>3 DEF Valor
    <2>5. Apuntado(q)' = Apuntado(q) - Valor(q, apunte[i]) + Valor(q, apunte'[i])
      BY <1>0, <2>2, ApuntadoTras
    <2>6. Mueven(q, Cambia(original, original)) = 0
      <3>1. Valor(q, original) \in Int  BY SonEnteros
      <3> QED  BY <3>1, MuevenCambia
    <2>7. Apuntado(q)' = Apuntado(q) + Mueven(q, Cambia(original, original))
      BY <1>0, <2>4, <2>5, <2>6
    <2> QED  BY <1>2, <2>1, <2>3, <2>7, CambiaBien
  <1>6. CASE BorraApunte(p)
    <2>0. PICK i \in Ids, f \in Filas : i = ficha[p].id /\ f = ficha[p].fila
      BY <1>0, <1>6, PartesDeFicha DEF BorraApunte
    <2>1. /\ apunte' = [apunte EXCEPT ![i] = Nada] /\ Empieza(p, Mueve(f.cuenta, -f.importe))
          /\ Sospecha(IF apunte[i] = f THEN {}
                      ELSE {f.cuenta} \cup IF apunte[i] = Nada THEN {} ELSE {apunte[i].cuenta})
          /\ UNCHANGED saldo /\ tareas[p] = <<>>
      BY <1>6, <2>0 DEF BorraApunte, Editado
    <2>2. f.cuenta \in Cuentas /\ f.importe \in Int /\ -f.importe \in Int  BY DEF Filas
    <2>3. apunte'[i] = Nada /\ \A j \in Ids \ {i} : apunte'[j] = apunte[j]
      BY <1>0, <2>1 DEF TypeOK
    <2>4. Apuntado(q)' = Apuntado(q) - Valor(q, apunte[i]) + Valor(q, apunte'[i])
      BY <1>0, <2>3, ApuntadoTras
    <2>5. Mueven(q, Mueve(f.cuenta, -f.importe)) = IF f.cuenta = q THEN -f.importe ELSE 0
      BY <2>2, MuevenUna
    <2>6. Valor(q, apunte'[i]) = 0 /\ Valor(q, apunte[i]) = IF f.cuenta = q THEN f.importe ELSE 0
      <3>1. CASE apunte[i] = f  BY <2>3, <3>1, NadaBien DEF Valor
      <3>2. CASE apunte[i] # f
        <4>1. q # f.cuenta /\ (apunte[i] # Nada => q # apunte[i].cuenta)
          BY <2>1, <3>2, NadaBien DEF Sospecha
        <4> QED  BY <2>3, <4>1 DEF Valor
      <3> QED  BY <3>1, <3>2
    <2>7. Apuntado(q)' = Apuntado(q) + Mueven(q, Mueve(f.cuenta, -f.importe))
      BY <1>0, <2>2, <2>4, <2>5, <2>6
    <2>8. q \notin sospechoso  BY <2>1 DEF Sospecha
    <2> QED  BY <1>2, <2>1, <2>2, <2>7, <2>8, MueveBien
  <1>7. CASE NuevoDocumento(p)
    <2>1. PICK d \in Documentos, n \in Importes, c \in Cuentas \cup {Nada} :
            LET f == [importe |-> n, cuenta |-> c, apunte |-> 0]
            IN  Empieza(p, RegenApunte(d, f, 0))
      BY <1>7 DEF NuevoDocumento
    <2> DEFINE f == [importe |-> n, cuenta |-> c, apunte |-> 0]
    <2>2. f.importe = n /\ f.cuenta = c /\ 0 \in 0 .. MaxApuntes  BY CotaAssumption
    <2>3. Empieza(p, RegenApunte(d, f, 0))  BY <2>1
    <2> HIDE DEF f
    <2>4. RegenApunte(d, f, 0) \in Seq(Tareas) /\ Mueven(q, RegenApunte(d, f, 0)) = 0
      BY <2>2, RegenBien, MuevenRegen
    <2>5. UNCHANGED <<saldo, apunte, sospechoso>> /\ tareas[p] = <<>>
      BY <1>7 DEF NuevoDocumento, Editado
    <2>6. Apuntado(q)' = Apuntado(q) + Mueven(q, RegenApunte(d, f, 0))
      BY <1>0, <2>4, <2>5, ApuntadoIgual
    <2> QED  BY <1>2, <2>3, <2>4, <2>5, <2>6
  <1>8. CASE GuardaDocumento(p)
    <2>0. ficha[p].id \in Documentos /\ ficha[p].fila \in Docs
      BY <1>0, <1>8, PartesDeFicha DEF GuardaDocumento
    <2>1. PICK n \in Importes, c \in Cuentas \cup {Nada} :
            LET f == [importe |-> n, cuenta |-> c, apunte |-> ficha[p].fila.apunte]
            IN  Empieza(p, RegenApunte(ficha[p].id, f, f.apunte))
      BY <1>8 DEF GuardaDocumento
    <2> DEFINE f == [importe |-> n, cuenta |-> c, apunte |-> ficha[p].fila.apunte]
    <2>2. PICK v \in 0 .. MaxApuntes : v = f.apunte  BY <2>0 DEF Docs
    <2>3. f.importe = n /\ f.cuenta = c /\ Empieza(p, RegenApunte(ficha[p].id, f, v))
      BY <2>1, <2>2
    <2> HIDE DEF f
    <2>4. /\ RegenApunte(ficha[p].id, f, v) \in Seq(Tareas)
          /\ Mueven(q, RegenApunte(ficha[p].id, f, v)) = 0
      <3>1. PICK d \in Documentos : d = ficha[p].id  BY <2>0
      <3>2. RegenApunte(d, f, v) \in Seq(Tareas) /\ Mueven(q, RegenApunte(d, f, v)) = 0
        BY <2>3, RegenBien, MuevenRegen
      <3> QED  BY <3>1, <3>2
    <2>5. UNCHANGED <<saldo, apunte>> /\ tareas[p] = <<>> /\ q \notin sospechoso
      BY <1>8 DEF GuardaDocumento, Editado, Sospecha
    <2>6. Apuntado(q)' = Apuntado(q) + Mueven(q, RegenApunte(ficha[p].id, f, v))
      BY <1>0, <2>4, <2>5, ApuntadoIgual
    <2> QED  BY <1>2, <2>3, <2>4, <2>5, <2>6
  <1>9. CASE BorraDocumento(p)
    <2>0. PICK d \in Documentos, v \in 0 .. MaxApuntes : d = ficha[p].id /\ v = ficha[p].fila.apunte
      <3>1. ficha[p].id \in Documentos /\ ficha[p].fila \in Docs
        BY <1>0, <1>9, PartesDeFicha DEF BorraDocumento
      <3> QED  BY <3>1 DEF Docs
    <2>1. PICK ts : ts = IF v = 0 THEN <<>> ELSE <<Lee(d, v)>>  OBVIOUS
    <2>2. Empieza(p, ts) /\ UNCHANGED <<saldo, apunte>> /\ tareas[p] = <<>> /\ q \notin sospechoso
      BY <1>9, <2>0, <2>1 DEF BorraDocumento, Editado, Sospecha
    <2>3. ts \in Seq(Tareas) /\ Mueven(q, ts) = 0
      <3>1. CASE v = 0  BY <2>1, <3>1, MuevenNada
      <3>2. CASE v # 0
        <4>1. Lee(d, v) \in Tareas /\ Aporta(q, Lee(d, v)) = 0
          BY <3>2, TareasBien DEF Aporta, Lee, Ids
        <4> QED  BY <2>1, <3>2, <4>1, MuevenSola
      <3> QED  BY <3>1, <3>2
    <2>4. Apuntado(q)' = Apuntado(q) + Mueven(q, ts)  BY <1>0, <2>2, <2>3, ApuntadoIgual
    <2> QED  BY <1>2, <2>2, <2>3, <2>4
  <1> QED
    BY <1>1, <1>3, <1>4, <1>5, <1>6, <1>7, <1>8, <1>9 DEF Usuario

LEMMA SinTareas ==
  \E ts \in Seq(Tareas) : ts = <<>>
  <1>1. <<>> \in Seq(Tareas)  OBVIOUS
  <1> QED  BY <1>1

\* Statements none of which moves an account move nothing of it.
LEMMA MuevenNinguna ==
  ASSUME NEW q, NEW s \in Seq(Tareas), \A n \in DOMAIN s : Aporta(q, s[n]) = 0
  PROVE  Mueven(q, s) = 0
  <1>1. PICK f : f = Movidos(q, s)  OBVIOUS
  <1>2. f \in Seq(Int) /\ Len(f) = Len(s) /\ \A n \in DOMAIN s : f[n] = 0
    BY <1>1, MovidosBien
  <1>3. DOMAIN f = DOMAIN s /\ DOMAIN f = 1 .. Len(f) /\ Len(f) \in Nat
    BY <1>2, TareasDeLasDos
  <1>4. IsFiniteSet(DOMAIN f)  BY <1>3, FS_Interval
  <1>5. SumFunctionOnSet(f, DOMAIN f) = 0  BY <1>2, <1>3, <1>4, SumZero
  <1>6. Mueven(q, s) = SumFunction(f)  BY <1>1 DEF Mueven, Movidos
  <1> QED  BY <1>5, <1>6 DEF SumFunction

\* The balances after each statement: what it puts in an account was on its way to
\* it, and what it does to an entry is on its way from then on.
LEMMA CuadranSentencia ==
  ASSUME Tipos, TypeOK', SaldosCuadran, NEW p \in Puestos, Sentencia(p)
  PROVE  SaldosCuadran'
  <1> SUFFICES ASSUME NEW q \in Cuentas, q \notin sospechoso'
               PROVE  saldo'[q] + Pendiente(q)' = Apuntado(q)'
    BY DEF SaldosCuadran
  <1>0. TypeOK /\ saldo[q] \in Int /\ Apuntado(q) \in Int  BY CuadranTipos DEF Tipos, TypeOK
  <1>1. CASE LeeSaldo(p)
    <2>1. UNCHANGED <<saldo, apunte, tareas, sospechoso>>  BY <1>1 DEF LeeSaldo, bd
    <2> QED  BY <2>1, ApuntadoIgual, PendienteIgual DEF SaldosCuadran
  <1>2. ASSUME UNCHANGED saldo, q \notin sospechoso, tareas[p] # <<>>,
               NEW ts \in Seq(Tareas), Sigue(p, ts), Head(tareas[p]).hace # "saldo",
               Apuntado(q)' = Apuntado(q) + Mueven(q, ts)
        PROVE  saldo'[q] + Pendiente(q)' = Apuntado(q)'
    <2>1. saldo[q] + Pendiente(q) = Apuntado(q)  BY <1>2 DEF SaldosCuadran
    <2>2. /\ Pendiente(q) \in Int /\ Mueven(q, ts) \in Int
          /\ Pendiente(q)' = Pendiente(q) - Aporta(q, Head(tareas[p])) + Mueven(q, ts)
      BY <1>0, <1>2, PendienteSigue
    <2>3. Aporta(q, Head(tareas[p])) = 0  BY <1>2 DEF Aporta
    <2> QED  BY <1>0, <1>2, <2>1, <2>2, <2>3
  <1>3. CASE GuardaSaldo(p)
    <2>0. PICK t \in Tareas : t = Head(tareas[p])  BY <1>0, <1>3, Primera DEF GuardaSaldo, Toca
    <2>1. /\ t.hace = "saldo" /\ t.cuenta \in Cuentas /\ t.importe \in Int
          /\ leido[p] \in Int /\ tareas[p] # <<>>
      BY <1>0, <1>3, <2>0, PartesDeTarea DEF GuardaSaldo, Toca, TypeOK
    <2>2. /\ saldo' = [saldo EXCEPT ![t.cuenta] = leido[p] + t.importe]
          /\ Sospecha(IF saldo[t.cuenta] = leido[p] THEN {} ELSE {t.cuenta})
          /\ Sigue(p, <<>>) /\ UNCHANGED apunte
      BY <1>3, <2>0 DEF GuardaSaldo
    <2>3. /\ Pendiente(q) \in Int /\ Mueven(q, <<>>) = 0 /\ Aporta(q, t) \in Int
          /\ Pendiente(q)' = Pendiente(q) - Aporta(q, t) + Mueven(q, <<>>)
      <3>1. PICK ts \in Seq(Tareas) : ts = <<>>  BY SinTareas
      <3> QED  BY <1>0, <2>0, <2>1, <2>2, <3>1, PendienteSigue, MuevenNada
    <2>4. saldo'[q] = saldo[q] + Aporta(q, t)
      <3>1. CASE q = t.cuenta
        <4>1. saldo[q] = leido[p]  BY <2>2, <3>1, NadaBien DEF Sospecha
        <4> QED  BY <1>0, <2>1, <2>2, <3>1, <4>1 DEF Aporta, TypeOK
      <3>2. CASE q # t.cuenta  BY <1>0, <2>1, <2>2, <3>2 DEF Aporta, TypeOK
      <3> QED  BY <3>1, <3>2
    <2>5. saldo[q] + Pendiente(q) = Apuntado(q)  BY <2>2 DEF SaldosCuadran, Sospecha
    <2>6. Apuntado(q)' = Apuntado(q)  BY <2>2, ApuntadoIgual
    <2> QED  BY <1>0, <2>3, <2>4, <2>5, <2>6
  <1>4. CASE BuscaContrapartida(p)
    <2>0. PICK t \in Tareas : t = Head(tareas[p]) /\ t.hace = "busca" /\ tareas[p] # <<>>
      BY <1>0, <1>4, Primera DEF BuscaContrapartida, Toca
    <2>f. PICK f \in Filas : f = t.fila /\ f.contra \in Cuentas  BY <2>0, PartesDeTarea
    <2> DEFINE g == [f EXCEPT !.importe = -f.importe, !.cuenta = f.contra, !.contra = f.cuenta]
    <2>1. g \in Filas
      <3>1. f.num \in 0 .. MaxApuntes /\ -f.importe \in Int /\ f.cuenta \in Cuentas
        BY DEF Filas
      <3> QED  BY <2>f, <3>1 DEF Filas
    <2>2. PICK ts \in Seq(Tareas) : Sigue(p, ts) /\ ts \in {<<>>, <<Inserta(g)>>}
      <3>1. Inserta(g) \in Tareas  BY <2>1, TareasBien
      <3>2. <<>> \in Seq(Tareas) /\ <<Inserta(g)>> \in Seq(Tareas)  BY <3>1
      <3> HIDE DEF g
      <3>3. Sigue(p, <<>>) \/ Sigue(p, <<Inserta(g)>>)
        BY <1>4, <2>0, <2>f DEF BuscaContrapartida, g
      <3>4. PICK a \in Seq(Tareas), b \in Seq(Tareas) : a = <<>> /\ b = <<Inserta(g)>>
        BY <3>2
      <3> QED  BY <3>3, <3>4
    <2> HIDE DEF g
    <2>3. Mueven(q, ts) = 0
      <3>1. Inserta(g) \in Tareas /\ Aporta(q, Inserta(g)) = 0
        BY <2>1, TareasBien DEF Aporta, Inserta
      <3> QED  BY <2>2, <3>1, MuevenNada, MuevenSola
    <2>4. UNCHANGED <<saldo, apunte, sospechoso>>  BY <1>4 DEF BuscaContrapartida, bd
    <2>5. Apuntado(q)' = Apuntado(q) + Mueven(q, ts)  BY <1>0, <2>3, <2>4, ApuntadoIgual
    <2> QED  BY <1>2, <2>0, <2>2, <2>4, <2>5
  <1>5. CASE InsertaApunte(p)
    <2>0. PICK t \in Tareas : t = Head(tareas[p]) /\ t.hace = "inserta" /\ tareas[p] # <<>>
      BY <1>0, <1>5, Primera DEF InsertaApunte, Toca
    <2>1. PICK f \in Filas : f = t.fila  BY <2>0, PartesDeTarea
    <2>2. /\ InsertaFila(f) /\ UNCHANGED <<saldo, sospechoso>>
          /\ Sigue(p, Mueve(f.cuenta, f.importe)
                        \o IF f.origen = Nada THEN <<>> ELSE <<Anota(f.origen, ultimo + 1)>>)
      BY <1>5, <2>0, <2>1 DEF InsertaApunte
    <2>3. f.cuenta \in Cuentas /\ f.importe \in Int /\ f.origen \in Documentos \cup {Nada}
      BY DEF Filas
    <2>4. PICK i \in Ids :
            /\ i = ultimo + 1 /\ apunte[i] = Nada /\ apunte'[i] \in Filas
            /\ apunte'[i].cuenta = f.cuenta /\ apunte'[i].importe = f.importe
            /\ \A j \in Ids \ {i} : apunte'[j] = apunte[j]
      BY <1>0, <2>2, Insertada
    <2>5. PICK a \in Seq(Tareas) : a = Mueve(f.cuenta, f.importe)  BY <2>3, MueveBien
    <2>6. PICK b \in Seq(Tareas) :
            /\ b = IF f.origen = Nada THEN <<>> ELSE <<Anota(f.origen, i)>>
            /\ Mueven(q, b) = 0
      <3>1. f.origen # Nada =>
              Anota(f.origen, i) \in Tareas /\ Aporta(q, Anota(f.origen, i)) = 0
        BY <2>3, TareasBien DEF Aporta, Anota
      <3>2. CASE f.origen = Nada
        <4>1. <<>> \in Seq(Tareas) /\ Mueven(q, <<>>) = 0  BY MuevenNada
        <4> QED  BY <3>2, <4>1
      <3>3. CASE f.origen # Nada
        <4>1. <<Anota(f.origen, i)>> \in Seq(Tareas) /\ Mueven(q, <<Anota(f.origen, i)>>) = 0
          BY <3>1, <3>3, MuevenSola
        <4> QED  BY <3>3, <4>1
      <3> QED  BY <3>2, <3>3
    <2>7. a \o b \in Seq(Tareas) /\ Mueven(q, a \o b) = Mueven(q, a) + Mueven(q, b)
      BY TareasDeLasDos, MuevenSuma
    <2>8. Mueven(q, a) = IF f.cuenta = q THEN f.importe ELSE 0  BY <2>3, <2>5, MuevenUna
    <2>9. Valor(q, apunte[i]) = 0 /\ Valor(q, apunte'[i]) = Mueven(q, a)
      BY <2>4, <2>8, NadaBien DEF Valor
    <2>10. Apuntado(q)' = Apuntado(q) - Valor(q, apunte[i]) + Valor(q, apunte'[i])
      BY <1>0, <2>4, ApuntadoTras
    <2>11. Apuntado(q)' = Apuntado(q) + Mueven(q, a \o b)
      BY <1>0, <2>3, <2>6, <2>7, <2>8, <2>9, <2>10
    <2>12. Sigue(p, a \o b)  BY <2>2, <2>4, <2>5, <2>6
    <2> QED  BY <1>2, <2>0, <2>2, <2>7, <2>11, <2>12
  <1>6. CASE LeeApunte(p)
    <2>0. PICK t \in Tareas : t = Head(tareas[p]) /\ t.hace = "lee" /\ tareas[p] # <<>>
      BY <1>0, <1>6, Primera DEF LeeApunte, Toca
    <2>1. t.documento \in Documentos /\ t.id \in Ids  BY <2>0, PartesDeTarea
    <2>2. PICK ts \in Seq(Tareas) : Sigue(p, ts) /\ Mueven(q, ts) = 0
      <3> DEFINE b == Borra(t.documento, t.id, apunte[t.id])
      <3>1. apunte[t.id] # Nada => b \in Tareas /\ Aporta(q, b) = 0
        BY <1>0, <2>1, TareasBien DEF TypeOK, Aporta, Borra
      <3> HIDE DEF b
      <3>2. \E ts \in {<<>>, <<b>>} : Sigue(p, ts) /\ (ts = <<b>> => apunte[t.id] # Nada \/ ts = <<>>)
        BY <1>6, <2>0 DEF LeeApunte, b
      <3>3. <<>> \in Seq(Tareas) /\ Mueven(q, <<>>) = 0  BY MuevenNada
      <3>4. apunte[t.id] # Nada => <<b>> \in Seq(Tareas) /\ Mueven(q, <<b>>) = 0
        BY <3>1, MuevenSola
      <3> QED  BY <3>2, <3>3, <3>4
    <2>3. UNCHANGED <<saldo, apunte, sospechoso>>  BY <1>6 DEF LeeApunte, bd
    <2>4. Apuntado(q)' = Apuntado(q) + Mueven(q, ts)  BY <1>0, <2>2, <2>3, ApuntadoIgual
    <2> QED  BY <1>2, <2>0, <2>2, <2>3, <2>4
  <1>7. CASE BorraFila(p)
    <2>0. PICK t \in Tareas : t = Head(tareas[p]) /\ t.hace = "borra" /\ tareas[p] # <<>>
      BY <1>0, <1>7, Primera DEF BorraFila, Toca
    <2>1. PICK i \in Ids, f \in Filas : i = t.id /\ f = t.fila  BY <2>0, PartesDeTarea
    <2>2. /\ apunte' = [apunte EXCEPT ![i] = Nada] /\ Sigue(p, Mueve(f.cuenta, -f.importe))
          /\ Sospecha(IF apunte[i] = f THEN {}
                      ELSE {f.cuenta} \cup IF apunte[i] = Nada THEN {} ELSE {apunte[i].cuenta})
          /\ UNCHANGED saldo
      BY <1>7, <2>0, <2>1 DEF BorraFila
    <2>3. f.cuenta \in Cuentas /\ f.importe \in Int /\ -f.importe \in Int  BY DEF Filas
    <2>4. apunte'[i] = Nada /\ \A j \in Ids \ {i} : apunte'[j] = apunte[j]
      BY <1>0, <2>2 DEF TypeOK
    <2>5. Apuntado(q)' = Apuntado(q) - Valor(q, apunte[i]) + Valor(q, apunte'[i])
      BY <1>0, <2>4, ApuntadoTras
    <2>6. Mueven(q, Mueve(f.cuenta, -f.importe)) = IF f.cuenta = q THEN -f.importe ELSE 0
      BY <2>3, MuevenUna
    <2>7. Valor(q, apunte'[i]) = 0 /\ Valor(q, apunte[i]) = IF f.cuenta = q THEN f.importe ELSE 0
      <3>1. CASE apunte[i] = f  BY <2>4, <3>1, NadaBien DEF Valor
      <3>2. CASE apunte[i] # f
        <4>1. q # f.cuenta /\ (apunte[i] # Nada => q # apunte[i].cuenta)
          BY <2>2, <3>2, NadaBien DEF Sospecha
        <4> QED  BY <2>4, <4>1 DEF Valor
      <3> QED  BY <3>1, <3>2
    <2>8. Apuntado(q)' = Apuntado(q) + Mueven(q, Mueve(f.cuenta, -f.importe))
      BY <1>0, <2>3, <2>5, <2>6, <2>7
    <2>9. q \notin sospechoso  BY <2>2 DEF Sospecha
    <2> QED  BY <1>2, <2>0, <2>2, <2>3, <2>8, <2>9, MueveBien
  <1>8. CASE AnotaApunte(p)
    <2>0. Head(tareas[p]).hace = "anota" /\ tareas[p] # <<>>  BY <1>8 DEF AnotaApunte, Toca
    <2>1. Sigue(p, <<>>) /\ UNCHANGED <<saldo, apunte>> /\ q \notin sospechoso
      BY <1>8 DEF AnotaApunte, Sospecha
    <2>2. PICK ts \in Seq(Tareas) : ts = <<>>  BY SinTareas
    <2>3. Apuntado(q)' = Apuntado(q) + Mueven(q, ts)  BY <1>0, <2>1, <2>2, MuevenNada, ApuntadoIgual
    <2> QED  BY <1>2, <2>0, <2>1, <2>2, <2>3
  <1> QED
    BY <1>1, <1>3, <1>4, <1>5, <1>6, <1>7, <1>8 DEF Sentencia

\* A save cut short leaves in doubt the accounts it still had to move, and no other.
LEMMA CuadranFalla ==
  ASSUME Tipos, TypeOK', SaldosCuadran, NEW p \in Puestos, Falla(p)
  PROVE  SaldosCuadran'
  <1> SUFFICES ASSUME NEW q \in Cuentas, q \notin sospechoso'
               PROVE  saldo'[q] + Pendiente(q)' = Apuntado(q)'
    BY DEF SaldosCuadran
  <1>0. TypeOK /\ saldo[q] \in Int /\ Apuntado(q) \in Int  BY CuadranTipos DEF Tipos, TypeOK
  <1>1. /\ UNCHANGED <<saldo, apunte>> /\ tareas'[p] = <<>>
        /\ \A o \in Puestos \ {p} : tareas'[o] = tareas[o]
        /\ sospechoso' = sospechoso \cup ({Afecta(tareas[p][n]) : n \in DOMAIN tareas[p]} \ {Nada})
    BY <1>0 DEF Falla, bd, TypeOK, Sospecha
  <1>2. \A n \in DOMAIN tareas[p] : Aporta(q, tareas[p][n]) = 0
    BY <1>1, NadaBien DEF Aporta, Afecta
  <1>3. Mueven(q, tareas[p]) = 0
    <2>1. PICK s \in Seq(Tareas) : s = tareas[p]  BY <1>0 DEF TypeOK
    <2> QED  BY <1>2, <2>1, MuevenNinguna
  <1>4. Mueven(q, tareas'[p]) = 0  BY <1>1, MuevenNada
  <1>5. /\ Pendiente(q) \in Int
        /\ Pendiente(q)' = Pendiente(q) - Mueven(q, tareas[p]) + Mueven(q, tareas'[p])
    BY <1>0, <1>1, PendienteTras
  <1>6. saldo[q] + Pendiente(q) = Apuntado(q)  BY <1>1 DEF SaldosCuadran
  <1>7. Apuntado(q)' = Apuntado(q)  BY <1>1, ApuntadoIgual
  <1> QED  BY <1>0, <1>1, <1>3, <1>4, <1>5, <1>6, <1>7

LEMMA TiposPaso ==
  ASSUME Tipos, [Next]_vars
  PROVE  Tipos' /\ [Conserva]_vars
  <1>1. CASE UNCHANGED vars
    BY <1>1 DEF vars, bd, Tipos, TypeOK, Referencias, FichaReferida, TareaReferida, Referida
  <1>2. CASE Next
    <2>1. PICK p \in Puestos : Usuario(p) \/ Sentencia(p) \/ Falla(p)  BY <1>2 DEF Next
    <2>2. TypeOK' /\ Conserva  BY <2>1, TiposUsuario, TiposSentencia, ConservaUsuario, ConservaSentencia
    <2>3. Referencias'  BY <2>1, <2>2, ReferenciasUsuario, ReferenciasSentencia
    <2> QED  BY <2>2, <2>3 DEF Tipos
  <1> QED  BY <1>1, <1>2

LEMMA CuadranPaso ==
  ASSUME Tipos, SaldosCuadran, [Next]_vars
  PROVE  SaldosCuadran'
  <1>1. TypeOK'  BY TiposPaso DEF Tipos
  <1>2. CASE UNCHANGED vars
    BY <1>2, ApuntadoIgual, PendienteIgual DEF vars, bd, SaldosCuadran
  <1>3. CASE Next
    <2>1. PICK p \in Puestos : Usuario(p) \/ Sentencia(p) \/ Falla(p)  BY <1>3 DEF Next
    <2> QED  BY <1>1, <2>1, CuadranUsuario, CuadranSentencia, CuadranFalla
  <1> QED  BY <1>2, <1>3

LEMMA InicioBien ==
  ASSUME Init
  PROVE  Tipos /\ SaldosCuadran
  <1>1. TypeOK  BY TiposInit
  <1>2. Referencias  BY NadaBien DEF Init, Referencias
  <1>3. ASSUME NEW q \in Cuentas
        PROVE  saldo[q] + Pendiente(q) = Apuntado(q)
    <2> DEFINE f == [i \in Ids |-> Valor(q, apunte[i])]
               g == [p \in Puestos |-> Mueven(q, tareas[p])]
    <2>1. IsFiniteSet(Ids) /\ IsFiniteSet(Puestos)  BY <1>1, CuadranTipos
    <2>2. DOMAIN f = Ids /\ \A i \in Ids : f[i] = 0  BY DEF Init, Valor
    <2>3. DOMAIN g = Puestos /\ \A p \in Puestos : g[p] = 0  BY MuevenNada DEF Init
    <2> HIDE DEF f, g
    <2>4. SumFunctionOnSet(f, Ids) = 0 /\ SumFunctionOnSet(g, Puestos) = 0
      BY <2>1, <2>2, <2>3, SumZero
    <2>5. Apuntado(q) = SumFunctionOnSet(f, Ids)  BY <2>2 DEF Apuntado, f, SumFunction
    <2>6. Pendiente(q) = SumFunctionOnSet(g, Puestos)  BY <2>3 DEF Pendiente, g, SumFunction
    <2>7. saldo[q] = 0  BY DEF Init
    <2> QED  BY <2>4, <2>5, <2>6, <2>7
  <1> QED  BY <1>1, <1>2, <1>3 DEF Tipos, SaldosCuadran

\* Workstations, forms and entries always have their types, and no operation goes on
\* while its form is still edited (RecApunteTesoreria::save, FrmEditRec::accept).
THEOREM TypeOKSiempre == Spec => []TypeOK
  <1>1. Init => Tipos  BY InicioBien
  <1>2. Tipos /\ [Next]_vars => Tipos'  BY TiposPaso
  <1>3. Tipos => TypeOK  BY DEF Tipos
  <1> QED  BY <1>1, <1>2, <1>3, PTL DEF Spec

\* The balance of an account and what is on its way to it add up to the entries
\* stored in it, whatever number of saves are under way (actSaldoCuenta), unless the
\* account is doubted.
THEOREM SaldosCuadranSiempre == Spec => []SaldosCuadran
  <1>1. Init => Tipos /\ SaldosCuadran  BY InicioBien
  <1>2. Tipos /\ SaldosCuadran /\ [Next]_vars => Tipos' /\ SaldosCuadran'
    BY TiposPaso, CuadranPaso
  <1> QED  BY <1>1, <1>2, PTL DEF Spec

-------------------------------------------------------------------------------
(* The entry of a document.                                                *)

\* No statement of ts is about document d.
Ajenas(ts, d) == \A n \in DOMAIN ts : Afecta(ts[n]) # d

LEMMA AjenasLasDos ==
  ASSUME NEW d, NEW s \in Seq(Tareas), NEW t \in Seq(Tareas), Ajenas(s, d), Ajenas(t, d)
  PROVE  Ajenas(s \o t, d)
  <1>1. \A n \in DOMAIN (s \o t) :
          \/ n \in DOMAIN s /\ (s \o t)[n] = s[n]
          \/ n - Len(s) \in DOMAIN t /\ (s \o t)[n] = t[n - Len(s)]
    BY TareasDeLasDos
  <1> QED  BY <1>1 DEF Ajenas

LEMMA AjenaUna ==
  ASSUME NEW d, NEW t, Afecta(t) # d
  PROVE  Ajenas(<<t>>, d)
  BY DEF Ajenas

LEMMA AjenasNinguna ==
  \A d : Ajenas(<<>>, d)
  BY DEF Ajenas

LEMMA AjenasCola ==
  ASSUME NEW d, NEW s \in Seq(Tareas), s # <<>>, Ajenas(s, d)
  PROVE  Ajenas(Tail(s), d) /\ Afecta(Head(s)) # d
  <1>1. /\ \A n \in DOMAIN Tail(s) : n + 1 \in DOMAIN s /\ Tail(s)[n] = s[n + 1]
        /\ 1 \in DOMAIN s /\ s[1] = Head(s)
    BY TareasDeLaCola
  <1> QED  BY <1>1 DEF Ajenas

\* Balances and counterparts are about no document.
LEMMA AjenosSaldos ==
  ASSUME NEW d \in Documentos, NEW f \in Filas, NEW g \in Filas, NEW q \in Cuentas, NEW n \in Int
  PROVE  /\ Afecta(ActSaldo(q, n)) # d
         /\ Ajenas(Mueve(q, n), d)
         /\ Ajenas(Cambia(f, g) \o Contrapartida(g), d)
         /\ Ajenas(Cambia(f, g), d)
  <1>1. \A c \in Cuentas, m \in Int : Afecta(ActSaldo(c, m)) # d
    BY TablasAssumption DEF Afecta, ActSaldo
  <1>2. Afecta(Busca(g)) # d  BY NadaBien DEF Afecta, Busca
  <1>3. \A c \in Cuentas, m \in Int : Ajenas(Mueve(c, m), d) /\ Mueve(c, m) \in Seq(Tareas)
    <2> SUFFICES ASSUME NEW c \in Cuentas, NEW m \in Int
                 PROVE  Ajenas(Mueve(c, m), d) /\ Mueve(c, m) \in Seq(Tareas)
      OBVIOUS
    <2>1. Ajenas(<<ActSaldo(c, m)>>, d)  BY <1>1, AjenaUna
    <2> QED  BY <2>1, AjenasNinguna, MueveBien DEF Mueve
  <1>4. Ajenas(Contrapartida(g), d) /\ Contrapartida(g) \in Seq(Tareas)
    <2>1. Ajenas(<<Busca(g)>>, d)  BY <1>2, AjenaUna
    <2> QED  BY <2>1, AjenasNinguna, ContrapartidaBien DEF Contrapartida
  <1>5. f.cuenta \in Cuentas /\ -f.importe \in Int /\ g.cuenta \in Cuentas /\ g.importe \in Int
    BY DEF Filas
  <1>6. Ajenas(Cambia(f, g), d) /\ Cambia(f, g) \in Seq(Tareas)
    BY <1>3, <1>5, AjenasLasDos, CambiaBien DEF Cambia
  <1> QED  BY <1>1, <1>3, <1>4, <1>6, AjenasLasDos

\* What remains of the save of another document is not about this one.
LEMMA AjenasRegen ==
  ASSUME NEW d \in Documentos, NEW e \in Documentos, e # d, NEW n \in Importes,
         NEW c \in Cuentas \cup {Nada}, NEW v \in 0 .. MaxApuntes, NEW f, f.importe = n, f.cuenta = c
  PROVE  Ajenas(RegenApunte(e, f, v), d)
  <1> DEFINE r == [num |-> 0, cuenta |-> c, importe |-> n, contra |-> Nada, origen |-> e]
             A == IF v = 0 THEN <<>> ELSE <<Lee(e, v)>>
             B == IF n = 0 \/ c = Nada THEN <<>> ELSE <<Inserta(r)>>
  <1>1. RegenApunte(e, f, v) = A \o B  BY DEF RegenApunte
  <1>2. A \in Seq(Tareas) /\ Ajenas(A, d)
    <2>1. CASE v = 0  BY <2>1, AjenasNinguna
    <2>2. CASE v # 0
      <3>1. Lee(e, v) \in Tareas /\ Afecta(Lee(e, v)) # d
        BY <2>2, TareasBien DEF Afecta, Lee, Ids
      <3> QED  BY <2>2, <3>1, AjenaUna
    <2> QED  BY <2>1, <2>2
  <1>3. B \in Seq(Tareas) /\ Ajenas(B, d)
    <2>1. CASE n = 0 \/ c = Nada  BY <2>1, AjenasNinguna
    <2>2. CASE ~(n = 0 \/ c = Nada)
      <3>1. Inserta(r) \in Tareas /\ Afecta(Inserta(r)) # d
        BY <2>2, FilaDeDocumento, TareasBien DEF Afecta, Inserta
      <3> QED  BY <2>2, <3>1, AjenaUna
    <2> QED  BY <2>1, <2>2
  <1> HIDE DEF A, B
  <1> QED  BY <1>1, <1>2, <1>3, AjenasLasDos

\* What is left of a save that has its old entry removed.
LEMMA RestoBien ==
  ASSUME TypeOK, NEW d \in Documentos
  PROVE  /\ Resto(d) \in Seq(Tareas)
         /\ SinApunte(doc[d]) <=> Resto(d) = <<>>
         /\ ~SinApunte(doc[d]) =>
              /\ doc[d] \in Docs
              /\ \E r \in Filas : /\ Resto(d) = <<Inserta(r)>> /\ Resto(d) = <<Inserta(r)>> \o <<>>
                                  /\ r.cuenta = doc[d].cuenta /\ r.importe = doc[d].importe
                                  /\ r.origen = d
  <1>1. CASE SinApunte(doc[d])
    <2>1. Resto(d) = <<>>  BY <1>1 DEF Resto
    <2>2. <<>> \in Seq(Tareas)  OBVIOUS
    <2> QED  BY <1>1, <2>1, <2>2
  <1>2. CASE ~SinApunte(doc[d])
    <2>1. doc[d] \in Docs  BY <1>2 DEF TypeOK, SinApunte
    <2>2. PICK n \in Importes, q \in Cuentas : n = doc[d].importe /\ q = doc[d].cuenta
      BY <1>2, <2>1 DEF SinApunte, Docs
    <2>3. PICK r \in Filas :
            r = [num |-> 0, cuenta |-> q, importe |-> n, contra |-> Nada, origen |-> d]
      BY FilaDeDocumento
    <2>4. Resto(d) = <<Inserta(r)>>  BY <1>2, <2>2, <2>3 DEF Resto
    <2>5. Inserta(r) \in Tareas  BY TareasBien
    <2>6. PICK u \in Tareas : u = Inserta(r)  BY <2>5
    <2>7. <<u>> \in Seq(Tareas) /\ <<u>> # <<>> /\ <<u>> = <<u>> \o <<>>  OBVIOUS
    <2>8. r.cuenta = q /\ r.importe = n /\ r.origen = d  BY <2>3
    <2> QED  BY <1>2, <2>1, <2>2, <2>4, <2>6, <2>7, <2>8
  <1> QED  BY <1>1, <1>2

\* A save of d that goes on is about d.
LEMMA EnFaseAtiende ==
  ASSUME TypeOK, NEW d \in Documentos, NEW p \in Puestos, EnFase(p, d)
  PROVE  Atiende(p, d)
  <1>1. ASSUME NEW u \in Tareas, NEW s \in Seq(Tareas), Afecta(u) = d
        PROVE  ~Ajenas(<<u>> \o s, d) /\ ~Ajenas(<<u>>, d)
    <2>1. 1 \in DOMAIN (<<u>> \o s) /\ (<<u>> \o s)[1] = u
      <3>1. DOMAIN (<<u>> \o s) = 1 .. Len(s) + 1 /\ (<<u>> \o s)[1] = u /\ Len(s) \in Nat
        BY UnaTarea
      <3> QED  BY <3>1
    <2>2. 1 \in DOMAIN <<u>> /\ <<u>>[1] = u  OBVIOUS
    <2> QED  BY <1>1, <2>1, <2>2 DEF Ajenas
  <1>2. ASSUME NEW s \in Seq(Tareas), NEW rs \in Seq(Tareas), SaldoY(s, rs), ~Ajenas(rs, d)
        PROVE  ~Ajenas(s, d)
    <2>1. CASE s = rs  BY <1>2, <2>1
    <2>2. ASSUME NEW q \in Cuentas, NEW n \in Int, s = <<ActSaldo(q, n)>> \o rs
          PROVE  ~Ajenas(s, d)
      <3>1. PICK u \in Tareas : u = ActSaldo(q, n)  BY TareasBien
      <3>2. PICK m \in DOMAIN rs : Afecta(rs[m]) = d  BY <1>2 DEF Ajenas
      <3>3. m + 1 \in DOMAIN (<<u>> \o rs) /\ (<<u>> \o rs)[m + 1] = rs[m]  BY UnaTarea
      <3> QED  BY <2>2, <3>1, <3>2, <3>3 DEF Ajenas
    <2> QED  BY <1>2, <2>1, <2>2 DEF SaldoY
  <1>3. Resto(d) \in Seq(Tareas) /\ tareas[p] \in Seq(Tareas)  BY RestoBien DEF TypeOK
  <1>4. ASSUME NEW v \in Ids, tareas[p] = <<Lee(d, v)>> \o Resto(d)
        PROVE  ~Ajenas(tareas[p], d)
    <2>1. Lee(d, v) \in Tareas /\ Afecta(Lee(d, v)) = d  BY TareasBien DEF Afecta, Lee
    <2> QED  BY <1>1, <1>3, <1>4, <2>1
  <1>5. ASSUME NEW v \in Ids, tareas[p] = <<Borra(d, v, apunte[v])>> \o Resto(d), Suyos(d) = {v}
        PROVE  ~Ajenas(tareas[p], d)
    <2>0. apunte[v] \in Filas  BY <1>5 DEF Suyos, TypeOK
    <2>1. Borra(d, v, apunte[v]) \in Tareas /\ Afecta(Borra(d, v, apunte[v])) = d
      BY <2>0, TareasBien DEF Afecta, Borra
    <2> QED  BY <1>1, <1>3, <1>5, <2>1
  <1>6. ASSUME Resto(d) # <<>>, SaldoY(tareas[p], Resto(d))
        PROVE  ~Ajenas(tareas[p], d)
    <2>1. PICK r \in Filas : Resto(d) = <<Inserta(r)>> /\ r.origen = d  BY <1>6, RestoBien
    <2>2. Inserta(r) \in Tareas /\ Afecta(Inserta(r)) = d
      BY <2>1, TareasBien DEF Afecta, Inserta
    <2>3. ~Ajenas(<<Inserta(r)>>, d)  BY <1>1, <1>3, <2>2
    <2> QED  BY <1>2, <1>3, <1>6, <2>1, <2>3
  <1>7. ASSUME NEW i \in Ids, SaldoY(tareas[p], <<Anota(d, i)>>)
        PROVE  ~Ajenas(tareas[p], d)
    <2>1. Anota(d, i) \in Tareas /\ Afecta(Anota(d, i)) = d  BY TareasBien DEF Afecta, Anota
    <2>2. <<Anota(d, i)>> \in Seq(Tareas)  BY <1>3, <2>1, UnaTarea
    <2>3. ~Ajenas(<<Anota(d, i)>>, d)  BY <1>1, <1>3, <2>1
    <2> QED  BY <1>2, <1>3, <1>7, <2>2, <2>3
  <1>8. ~Ajenas(tareas[p], d)  BY <1>4, <1>5, <1>6, <1>7 DEF EnFase
  <1> QED  BY <1>8 DEF Ajenas, Atiende

\* The rows of document d, those it had and those it has, are the same.
MismasFilas(d) ==
  \A i \in Ids : (apunte[i] # Nada /\ apunte[i].origen = d) \/ (apunte'[i] # Nada /\ apunte'[i].origen = d)
                   => apunte'[i] = apunte[i]

\* What is not about d leaves d in order.
LEMMA AjenoSigue ==
  ASSUME TypeOK, TypeOK', NEW d \in Documentos, NEW p \in Puestos, DocumentoEnOrden(d),
         doc'[d] = doc[d], MismasFilas(d),
         \A o \in Puestos \ {p} : tareas'[o] = tareas[o],
         ~Atiende(p, d), Ajenas(tareas'[p], d)
  PROVE  DocumentoEnOrden(d)'
  <1>1. Suyos(d)' = Suyos(d) /\ \A i \in Suyos(d) : apunte'[i] = apunte[i]
    BY DEF Suyos, MismasFilas
  <1>2. (SinApunte(doc[d]))' = SinApunte(doc[d]) /\ Resto(d)' = Resto(d)
    BY DEF SinApunte, Resto
  <1>3. \A i : SuApunteEs(d, i)' = SuApunteEs(d, i)  BY <1>1 DEF SuApunteEs
  <1>4. ~Atiende(p, d)'  BY DEF Atiende, Ajenas
  <1>5. CASE ~EnObra(d) /\ Quieto(d)
    <2>1. \A o \in Puestos : ~Atiende(o, d)  BY <1>5 DEF EnObra, Atiende
    <2>2. \A o \in Puestos : ~Atiende(o, d)'  BY <1>4, <2>1 DEF Atiende
    <2>3. ~EnObra(d)'  BY <2>2 DEF EnObra, Atiende
    <2>4. Quieto(d)'  BY <1>1, <1>2, <1>3, <1>5 DEF Quieto
    <2> QED  BY <2>3, <2>4 DEF DocumentoEnOrden
  <1>6. ASSUME doc[d] # Nada, NEW o \in Puestos, EnFase(o, d), \A w \in Puestos \ {o} : ~Atiende(w, d)
        PROVE  DocumentoEnOrden(d)'
    <2>1. o # p  BY <1>6, EnFaseAtiende
    <2>2. tareas'[o] = tareas[o]  BY <2>1
    <2>3. \A w \in Puestos \ {o} : ~Atiende(w, d)'  BY <1>4, <1>6 DEF Atiende
    <2>4. EnFase(o, d)'
      <3>1. ASSUME NEW v \in Ids, tareas[o] = <<Lee(d, v)>> \o Resto(d), Suyos(d) \subseteq {v}
            PROVE  EnFase(o, d)'
        <4>1. tareas'[o] = <<Lee(d, v)>> \o Resto(d)' /\ Suyos(d)' \subseteq {v}
          BY <1>1, <1>2, <2>2, <3>1
        <4> QED  BY <4>1 DEF EnFase
      <3>2. ASSUME NEW v \in Ids, tareas[o] = <<Borra(d, v, apunte[v])>> \o Resto(d), Suyos(d) = {v}
            PROVE  EnFase(o, d)'
        <4>1. apunte'[v] = apunte[v]  BY <1>1, <3>2
        <4>2. tareas'[o] = <<Borra(d, v, apunte'[v])>> \o Resto(d)' /\ Suyos(d)' = {v}
          BY <1>1, <1>2, <2>2, <3>2, <4>1
        <4> QED  BY <4>2 DEF EnFase
      <3>3. ASSUME Resto(d) # <<>>, SaldoY(tareas[o], Resto(d)), Suyos(d) = {}
            PROVE  EnFase(o, d)'
        <4>1. Resto(d)' # <<>> /\ SaldoY(tareas'[o], Resto(d)') /\ Suyos(d)' = {}
          BY <1>1, <1>2, <2>2, <3>3
        <4> QED  BY <4>1 DEF EnFase, SaldoY
      <3>4. ASSUME ~SinApunte(doc[d]), NEW i \in Ids, SaldoY(tareas[o], <<Anota(d, i)>>), SuApunteEs(d, i)
            PROVE  EnFase(o, d)'
        <4>1. SaldoY(tareas'[o], <<Anota(d, i)>>) /\ SuApunteEs(d, i)'  BY <1>3, <2>2, <3>4
        <4> QED  BY <1>2, <3>4, <4>1 DEF EnFase, SaldoY
      <3> QED  BY <1>6, <3>1, <3>2, <3>3, <3>4 DEF EnFase
    <2>5. doc'[d] # Nada  BY <1>6
    <2> QED  BY <2>3, <2>4, <2>5 DEF DocumentoEnOrden
  <1> QED  BY <1>5, <1>6 DEF DocumentoEnOrden

\* RestoBien, of the next state.
LEMMA RestoPrima ==
  ASSUME TypeOK', NEW d \in Documentos
  PROVE  Resto(d)' \in Seq(Tareas) /\ ((SinApunte(doc[d]))' <=> Resto(d)' = <<>>)
  <1>1. PICK D : D = doc'[d]  OBVIOUS
  <1>2. CASE SinApunte(D)
    <2>1. Resto(d)' = <<>>  BY <1>1, <1>2 DEF Resto, SinApunte
    <2>2. <<>> \in Seq(Tareas)  OBVIOUS
    <2> QED  BY <1>1, <1>2, <2>1, <2>2 DEF SinApunte
  <1>3. CASE ~SinApunte(D)
    <2>1. D \in Docs  BY <1>1, <1>3 DEF TypeOK, SinApunte
    <2>2. PICK n \in Importes, q \in Cuentas : n = D.importe /\ q = D.cuenta
      BY <1>3, <2>1 DEF SinApunte, Docs
    <2>3. PICK r \in Filas :
            r = [num |-> 0, cuenta |-> q, importe |-> n, contra |-> Nada, origen |-> d]
      BY FilaDeDocumento
    <2>4. Resto(d)' = <<Inserta(r)>>  BY <1>1, <1>3, <2>2, <2>3 DEF Resto, SinApunte
    <2>5. PICK u \in Tareas : u = Inserta(r)  BY TareasBien
    <2>6. <<u>> \in Seq(Tareas) /\ <<u>> # <<>>  OBVIOUS
    <2> QED  BY <1>1, <1>3, <2>4, <2>5, <2>6 DEF SinApunte
  <1> QED  BY <1>2, <1>3

\* The save of d that begins will look for its old entry, whose id is v, or has none to
\* look for.
LEMMA DocumentoEmpieza ==
  ASSUME TypeOK, TypeOK', NEW d \in Documentos, NEW p \in Puestos, UNCHANGED apunte,
         \A o \in Puestos : ~Atiende(o, d), \A o \in Puestos \ {p} : tareas'[o] = tareas[o],
         doc'[d] # Nada, NEW v \in 0 .. MaxApuntes, Suyos(d) \subseteq {v},
         tareas'[p] = (IF v = 0 THEN <<>> ELSE <<Lee(d, v)>>) \o Resto(d)'
  PROVE  DocumentoEnOrden(d)'
  <1>1. Suyos(d)' = Suyos(d) /\ (v = 0 => Suyos(d) = {})  BY DEF Suyos, Ids
  <1>2. PICK rs \in Seq(Tareas) :
          rs = Resto(d)' /\ ((SinApunte(doc[d]))' <=> rs = <<>>) /\ <<>> \o rs = rs
    <2>1. Resto(d)' \in Seq(Tareas) /\ ((SinApunte(doc[d]))' <=> Resto(d)' = <<>>)  BY RestoPrima
    <2>2. \A s \in Seq(Tareas) : <<>> \o s = s  OBVIOUS
    <2> QED  BY <2>1, <2>2
  <1>3. \A o \in Puestos \ {p} : ~Atiende(o, d)'  BY DEF Atiende
  <1>4. CASE v # 0
    <2>1. v \in Ids  BY <1>4 DEF Ids
    <2>2. tareas'[p] = <<Lee(d, v)>> \o Resto(d)' /\ Suyos(d)' \subseteq {v}  BY <1>1, <1>4
    <2>3. EnFase(p, d)'  BY <2>1, <2>2 DEF EnFase
    <2> QED  BY <1>3, <2>3 DEF DocumentoEnOrden
  <1>5. CASE v = 0 /\ rs # <<>>
    <2>1. tareas'[p] = rs  BY <1>2, <1>5
    <2>2. SaldoY(tareas'[p], Resto(d)')  BY <1>2, <2>1 DEF SaldoY
    <2>3. EnFase(p, d)'  BY <1>1, <1>2, <1>5, <2>2 DEF EnFase, SaldoY
    <2> QED  BY <1>3, <2>3 DEF DocumentoEnOrden
  <1>6. CASE v = 0 /\ rs = <<>>
    <2>1. tareas'[p] = <<>>  BY <1>2, <1>6
    <2>2. ~Atiende(p, d)'  BY <2>1 DEF Atiende
    <2>3. ~EnObra(d)'  BY <1>3, <2>2 DEF EnObra, Atiende
    <2>4. Quieto(d)'  BY <1>1, <1>2, <1>6 DEF Quieto
    <2> QED  BY <2>3, <2>4 DEF DocumentoEnOrden
  <1> QED  BY <1>4, <1>5, <1>6

\* Documents after each action of a user, one step per action: the entries a user may
\* change are of no document, and the save of a document that is not doubted begins
\* when nobody else is saving it and its form has it as it is stored.
LEMMA DocumentalUsuario ==
  ASSUME Tipos, TypeOK', Documental, NEW p \in Puestos, Usuario(p)
  PROVE  Documental'
  <1> SUFFICES ASSUME NEW d \in Documentos, d \notin sospechoso'
               PROVE  DocumentoEnOrden(d)'
    BY DEF Documental
  <1>0. TypeOK /\ Referencias  BY DEF Tipos
  <1>1. tareas[p] = <<>> /\ ~Atiende(p, d)
    <2>1. tareas[p] = <<>>
      BY <1>0 DEF Usuario, AbreNuevo, AbreApunte, AbreDocumento, Cierra, NuevoApunte, ModificaApunte,
                  DuplicaApunte, BorraApunte, NuevoDocumento, GuardaDocumento, BorraDocumento, Editado,
                  Ocioso, TypeOK
    <2> QED  BY <2>1 DEF Atiende
  \* An action that is not about d.
  <1>2. ASSUME d \notin sospechoso, doc'[d] = doc[d], MismasFilas(d), NEW ts \in Seq(Tareas),
               Empieza(p, ts), Ajenas(ts, d)
        PROVE  DocumentoEnOrden(d)'
    <2>1. tareas'[p] = ts /\ \A o \in Puestos \ {p} : tareas'[o] = tareas[o]
      BY <1>0, <1>2, Empezada
    <2>2. DocumentoEnOrden(d)  BY <1>2 DEF Documental
    <2> QED  BY <1>0, <1>1, <1>2, <2>1, <2>2, AjenoSigue
  <1>3. CASE AbreNuevo(p) \/ AbreApunte(p) \/ AbreDocumento(p) \/ Cierra(p)
    <2>1. UNCHANGED <<apunte, tareas, doc, sospechoso>>
      BY <1>3 DEF AbreNuevo, AbreApunte, AbreDocumento, Cierra, bd
    <2>2. DocumentoEnOrden(d) /\ MismasFilas(d) /\ doc'[d] = doc[d]
      BY <2>1 DEF Documental, MismasFilas
    <2>3. Ajenas(tareas'[p], d) /\ \A o \in Puestos \ {p} : tareas'[o] = tareas[o]
      BY <1>1, <2>1, AjenasNinguna
    <2> QED  BY <1>0, <1>1, <2>2, <2>3, AjenoSigue
  <1>4. CASE NuevoApunte(p)
    <2>1. PICK c \in Cuentas, n \in Importes, o \in Cuentas \cup {Nada} :
            LET f == [num |-> 0, cuenta |-> c, importe |-> n, contra |-> o, origen |-> Nada]
            IN  InsertaFila(f) /\ Empieza(p, Mueve(c, n))
      BY <1>4 DEF NuevoApunte
    <2> DEFINE f == [num |-> 0, cuenta |-> c, importe |-> n, contra |-> o, origen |-> Nada]
    <2>2. f \in Filas /\ f.origen = Nada /\ n \in Int
      BY ImporteAssumption, CotaAssumption DEF Filas
    <2>3. InsertaFila(f)  BY <2>1
    <2> HIDE DEF f
    <2>4. PICK i \in Ids :
            /\ apunte[i] = Nada /\ apunte'[i].origen = Nada
            /\ \A j \in Ids \ {i} : apunte'[j] = apunte[j]
      BY <1>0, <2>2, <2>3, Insertada
    <2>5. MismasFilas(d)  BY <2>4, NadaBien DEF MismasFilas
    <2>6. UNCHANGED <<doc, sospechoso>>  BY <1>4 DEF NuevoApunte
    <2>7. Mueve(c, n) \in Seq(Tareas) /\ Ajenas(Mueve(c, n), d)
      BY <2>2, MueveBien, AjenosSaldos
    <2> QED  BY <1>2, <2>1, <2>5, <2>6, <2>7
  <1>5. CASE ModificaApunte(p)
    <2>0. PICK i \in Ids, original \in Filas : i = ficha[p].id /\ original = ficha[p].fila
      BY <1>0, <1>5, PartesDeFicha DEF ModificaApunte
    <2>1. PICK c \in Cuentas, n \in Importes \cup {original.importe} :
            LET f == [original EXCEPT !.cuenta = c, !.importe = n]
            IN  /\ original.origen # Nada => f = original
                /\ apunte' = [apunte EXCEPT ![i] = IF @ = Nada THEN Nada ELSE f]
                /\ Empieza(p, Cambia(original, f) \o Contrapartida(f))
      BY <1>5, <2>0 DEF ModificaApunte
    <2> DEFINE f == [original EXCEPT !.cuenta = c, !.importe = n]
               ts == Cambia(original, f) \o Contrapartida(f)
    <2>2. f \in Filas /\ f.origen = original.origen  BY ImporteAssumption DEF Filas
    <2>3. /\ original.origen # Nada => f = original
          /\ Empieza(p, ts) /\ apunte' = [apunte EXCEPT ![i] = IF @ = Nada THEN Nada ELSE f]
      BY <2>1
    <2> HIDE DEF f
    <2>4. ts \in Seq(Tareas)  BY <2>2, CambiaBien, ContrapartidaBien, TareasDeLasDos
    <2>5. Ajenas(ts, d)
      <3>1. original.cuenta \in Cuentas /\ original.importe \in Int  BY DEF Filas
      <3> QED  BY <2>2, <3>1, AjenosSaldos
    <2>6. /\ apunte'[i] = IF apunte[i] = Nada THEN Nada ELSE f
          /\ \A j \in Ids \ {i} : apunte'[j] = apunte[j]
      BY <1>0, <2>3 DEF TypeOK
    <2>7. apunte[i] # Nada => /\ apunte[i].origen = original.origen
                              /\ original.origen # Nada => apunte[i] = original
      <3>1. ficha[p] # Nada /\ ficha[p].tipo = "apunte"  BY <1>5 DEF ModificaApunte, Editado
      <3>2. FichaReferida(ficha[p])  BY <1>0, <3>1 DEF Referencias
      <3> QED  BY <2>0, <3>1, <3>2 DEF FichaReferida
    <2>8. MismasFilas(d)
      <3>1. CASE original.origen = Nada  BY <2>2, <2>6, <2>7, <3>1, NadaBien DEF MismasFilas
      <3>2. CASE original.origen # Nada  BY <2>3, <2>6, <2>7, <3>2 DEF MismasFilas
      <3> QED  BY <3>1, <3>2
    <2>9. UNCHANGED doc /\ d \notin sospechoso  BY <1>5 DEF ModificaApunte, Sospecha
    <2> HIDE DEF ts
    <2> QED  BY <1>2, <2>3, <2>4, <2>5, <2>8, <2>9
  <1>6. CASE DuplicaApunte(p)
    <2>0. PICK original \in Filas : original = ficha[p].fila
      BY <1>0, <1>6, PartesDeFicha DEF DuplicaApunte
    <2>1. /\ InsertaFila(original) /\ Empieza(p, Cambia(original, original))
          /\ Sospecha({original.cuenta, original.origen}) /\ UNCHANGED doc
      BY <1>6, <2>0 DEF DuplicaApunte
    <2>2. PICK i \in Ids :
            /\ apunte[i] = Nada /\ apunte'[i].origen = original.origen
            /\ \A j \in Ids \ {i} : apunte'[j] = apunte[j]
      BY <1>0, <2>0, <2>1, Insertada
    <2>3. original.origen # d /\ d \notin sospechoso  BY <2>1, NadaBien DEF Sospecha
    <2>4. MismasFilas(d)  BY <2>2, <2>3 DEF MismasFilas
    <2>5. Ajenas(Cambia(original, original), d)
      <3>1. original.cuenta \in Cuentas /\ original.importe \in Int  BY DEF Filas
      <3> QED  BY <3>1, AjenosSaldos
    <2> QED  BY <1>2, <2>1, <2>3, <2>4, <2>5, CambiaBien
  <1>7. CASE BorraApunte(p)
    <2>0. PICK i \in Ids, f \in Filas : i = ficha[p].id /\ f = ficha[p].fila
      BY <1>0, <1>7, PartesDeFicha DEF BorraApunte
    <2>1. /\ apunte' = [apunte EXCEPT ![i] = Nada] /\ Empieza(p, Mueve(f.cuenta, -f.importe))
          /\ f.origen = Nada /\ UNCHANGED doc /\ d \notin sospechoso
      BY <1>7, <2>0 DEF BorraApunte, Sospecha
    <2>2. f.cuenta \in Cuentas /\ f.importe \in Int /\ -f.importe \in Int  BY DEF Filas
    <2>3. apunte'[i] = Nada /\ \A j \in Ids \ {i} : apunte'[j] = apunte[j]
      BY <1>0, <2>1 DEF TypeOK
    <2>4. apunte[i] # Nada => apunte[i].origen = Nada
      <3>1. ficha[p] # Nada /\ ficha[p].tipo = "apunte"  BY <1>7 DEF BorraApunte, Editado
      <3>2. FichaReferida(ficha[p])  BY <1>0, <3>1 DEF Referencias
      <3> QED  BY <2>0, <2>1, <3>1, <3>2 DEF FichaReferida
    <2>5. MismasFilas(d)  BY <2>3, <2>4, NadaBien DEF MismasFilas
    <2>6. Mueve(f.cuenta, -f.importe) \in Seq(Tareas) /\ Ajenas(Mueve(f.cuenta, -f.importe), d)
      BY <2>2, MueveBien, AjenosSaldos
    <2> QED  BY <1>2, <2>1, <2>5, <2>6
  <1>8. CASE NuevoDocumento(p)
    <2>1. PICK e \in Documentos, n \in Importes, c \in Cuentas \cup {Nada} :
            LET f == [importe |-> n, cuenta |-> c, apunte |-> 0]
            IN  doc[e] = Nada /\ doc' = [doc EXCEPT ![e] = f] /\ Empieza(p, RegenApunte(e, f, 0))
      BY <1>8 DEF NuevoDocumento
    <2> DEFINE f == [importe |-> n, cuenta |-> c, apunte |-> 0]
    <2>2. f.importe = n /\ f.cuenta = c /\ 0 \in 0 .. MaxApuntes /\ f \in Docs
      BY CotaAssumption DEF Docs
    <2>3. doc[e] = Nada /\ doc' = [doc EXCEPT ![e] = f] /\ Empieza(p, RegenApunte(e, f, 0))  BY <2>1
    <2> HIDE DEF f
    <2>4. RegenApunte(e, f, 0) \in Seq(Tareas)  BY <2>2, RegenBien
    <2>5. UNCHANGED <<apunte, sospechoso>>  BY <1>8 DEF NuevoDocumento
    <2>6. CASE e # d
      <3>1. Ajenas(RegenApunte(e, f, 0), d)  BY <2>2, <2>6, AjenasRegen
      <3>2. doc'[d] = doc[d] /\ MismasFilas(d)  BY <1>0, <2>3, <2>5, <2>6 DEF TypeOK, MismasFilas
      <3> QED  BY <1>2, <2>3, <2>4, <2>5, <3>1, <3>2
    <2>7. CASE e = d
      <3>1. doc'[d] = f  BY <1>0, <2>3, <2>7 DEF TypeOK
      <3>2. ~EnObra(d) /\ Quieto(d)  BY <2>3, <2>5, <2>7 DEF Documental, DocumentoEnOrden
      <3>3. Suyos(d) \subseteq {0}  BY <2>3, <2>7, <3>2 DEF Quieto, SinApunte
      <3>4. RegenApunte(d, f, 0) = (IF 0 = 0 THEN <<>> ELSE <<Lee(d, 0)>>) \o Resto(d)'
        BY <2>2, <3>1, NadaBien DEF RegenApunte, Resto, SinApunte
      <3>5. tareas'[p] = RegenApunte(d, f, 0) /\ \A o \in Puestos \ {p} : tareas'[o] = tareas[o]
        BY <1>0, <2>3, <2>4, <2>7, Empezada
      <3>6. \A o \in Puestos : ~Atiende(o, d)  BY <3>2 DEF EnObra, Atiende
      <3>7. doc'[d] # Nada  BY <2>2, <3>1, NadaBien
      <3> QED  BY <1>0, <2>2, <2>5, <3>3, <3>4, <3>5, <3>6, <3>7, DocumentoEmpieza
    <2> QED  BY <2>6, <2>7
  <1>9. CASE GuardaDocumento(p)
    <2>0. PICK e \in Documentos, r \in Docs : e = ficha[p].id /\ r = ficha[p].fila
      BY <1>0, <1>9, PartesDeFicha DEF GuardaDocumento
    <2>1. PICK n \in Importes, c \in Cuentas \cup {Nada} :
            LET f == [importe |-> n, cuenta |-> c, apunte |-> r.apunte]
            IN  /\ doc' = [doc EXCEPT ![e] = IF @ = Borrado THEN Borrado
                                             ELSE [@ EXCEPT !.importe = n, !.cuenta = c]]
                /\ Empieza(p, RegenApunte(e, f, f.apunte))
                /\ Sospecha(IF doc[e] = r /\ ~EnObra(e) THEN {} ELSE {e})
      BY <1>9, <2>0 DEF GuardaDocumento
    <2> DEFINE f == [importe |-> n, cuenta |-> c, apunte |-> r.apunte]
    <2>2. PICK v \in 0 .. MaxApuntes : v = r.apunte  BY DEF Docs
    <2>3. /\ doc' = [doc EXCEPT ![e] = IF @ = Borrado THEN Borrado
                                       ELSE [@ EXCEPT !.importe = n, !.cuenta = c]]
          /\ f.importe = n /\ f.cuenta = c /\ Empieza(p, RegenApunte(e, f, v))
          /\ UNCHANGED apunte /\ d \notin sospechoso
      BY <1>9, <2>1, <2>2 DEF GuardaDocumento, Sospecha
    <2> HIDE DEF f
    <2>4. RegenApunte(e, f, v) \in Seq(Tareas)  BY <2>3, RegenBien
    <2>5. CASE e # d
      <3>1. Ajenas(RegenApunte(e, f, v), d)  BY <2>3, <2>5, AjenasRegen
      <3>2. doc'[d] = doc[d] /\ MismasFilas(d)  BY <1>0, <2>3, <2>5 DEF TypeOK, MismasFilas
      <3> QED  BY <1>2, <2>3, <2>4, <3>1, <3>2
    <2>6. CASE e = d
      <3>1. doc[d] = r /\ ~EnObra(d)  BY <2>1, <2>6, NadaBien DEF Sospecha
      <3>2. doc'[d] = [r EXCEPT !.importe = n, !.cuenta = c]
        BY <1>0, <2>3, <2>6, <3>1, NadaBien DEF TypeOK
      <3>3. doc'[d] \in Docs /\ doc'[d].importe = n /\ doc'[d].cuenta = c  BY <3>2 DEF Docs
      <3>4. \A o \in Puestos : ~Atiende(o, d)  BY <3>1 DEF EnObra, Atiende
      <3>5. Quieto(d)
        <4>1. DocumentoEnOrden(d)  BY <2>3 DEF Documental
        <4>2. \A o \in Puestos : ~EnFase(o, d)  BY <1>0, <3>4, EnFaseAtiende
        <4> QED  BY <4>1, <4>2 DEF DocumentoEnOrden
      <3>6. Suyos(d) \subseteq {v}  BY <2>2, <3>1, <3>5 DEF Quieto, SuApunteEs
      <3>7. RegenApunte(d, f, v) = (IF v = 0 THEN <<>> ELSE <<Lee(d, v)>>) \o Resto(d)'
        BY <2>3, <3>3, NadaBien DEF RegenApunte, Resto, SinApunte
      <3>8. tareas'[p] = RegenApunte(d, f, v) /\ \A o \in Puestos \ {p} : tareas'[o] = tareas[o]
        BY <1>0, <2>3, <2>4, <2>6, Empezada
      <3>9. doc'[d] # Nada  BY <3>3, NadaBien
      <3> QED  BY <1>0, <2>3, <3>4, <3>6, <3>7, <3>8, <3>9, DocumentoEmpieza
    <2> QED  BY <2>5, <2>6
  <1>10. CASE BorraDocumento(p)
    <2>0. PICK e \in Documentos, r \in Docs : e = ficha[p].id /\ r = ficha[p].fila
      BY <1>0, <1>10, PartesDeFicha DEF BorraDocumento
    <2>1. PICK v \in 0 .. MaxApuntes : v = r.apunte  BY DEF Docs
    <2>2. PICK ts : ts = IF v = 0 THEN <<>> ELSE <<Lee(e, v)>>  OBVIOUS
    <2>3. /\ doc' = [doc EXCEPT ![e] = Borrado] /\ Empieza(p, ts)
          /\ Sospecha(IF doc[e] = r /\ ~EnObra(e) THEN {} ELSE {e})
          /\ UNCHANGED apunte /\ d \notin sospechoso
      BY <1>10, <2>0, <2>1, <2>2 DEF BorraDocumento, Sospecha
    <2>4. ts \in Seq(Tareas) /\ (e # d => Ajenas(ts, d)) /\ ts \o <<>> = ts
      <3>1. CASE v = 0
        <4>1. <<>> \in Seq(Tareas) /\ <<>> \o <<>> = <<>>  OBVIOUS
        <4> QED  BY <2>2, <3>1, <4>1, AjenasNinguna
      <3>2. CASE v # 0
        <4>1. PICK u \in Tareas : u = Lee(e, v)  BY <3>2, TareasBien DEF Ids
        <4>2. e # d => Afecta(u) # d  BY <4>1 DEF Afecta, Lee
        <4>3. <<u>> \in Seq(Tareas) /\ <<u>> \o <<>> = <<u>>  OBVIOUS
        <4> QED  BY <2>2, <3>2, <4>1, <4>2, <4>3, AjenaUna
      <3> QED  BY <3>1, <3>2
    <2>5. CASE e # d
      <3>1. doc'[d] = doc[d] /\ MismasFilas(d)  BY <1>0, <2>3, <2>5 DEF TypeOK, MismasFilas
      <3> QED  BY <1>2, <2>3, <2>4, <2>5, <3>1
    <2>6. CASE e = d
      <3>1. doc[d] = r /\ ~EnObra(d)  BY <2>3, <2>6, NadaBien DEF Sospecha
      <3>2. doc'[d] = Borrado  BY <1>0, <2>3, <2>6 DEF TypeOK
      <3>4. \A o \in Puestos : ~Atiende(o, d)  BY <3>1 DEF EnObra, Atiende
      <3>5. Quieto(d)
        <4>1. DocumentoEnOrden(d)  BY <2>3 DEF Documental
        <4>2. \A o \in Puestos : ~EnFase(o, d)  BY <1>0, <3>4, EnFaseAtiende
        <4> QED  BY <4>1, <4>2 DEF DocumentoEnOrden
      <3>6. Suyos(d) \subseteq {v}  BY <2>1, <3>1, <3>5 DEF Quieto, SuApunteEs
      <3>7. Resto(d)' = <<>>  BY <3>2 DEF Resto, SinApunte
      <3>8. tareas'[p] = ts /\ \A o \in Puestos \ {p} : tareas'[o] = tareas[o]
        BY <1>0, <2>3, <2>4, Empezada
      <3>9. tareas'[p] = (IF v = 0 THEN <<>> ELSE <<Lee(d, v)>>) \o Resto(d)'
        BY <2>2, <2>4, <2>6, <3>7, <3>8
      <3>10. doc'[d] # Nada  BY <3>2, NadaBien
      <3> QED  BY <1>0, <2>3, <3>4, <3>6, <3>8, <3>9, <3>10, DocumentoEmpieza
    <2> QED  BY <2>5, <2>6
  <1> QED
    BY <1>3, <1>4, <1>5, <1>6, <1>7, <1>8, <1>9, <1>10 DEF Usuario

LEMMA AjenasIgual ==
  ASSUME NEW d \in Documentos, NEW p \in Puestos, \A o \in Puestos \ {p} : ~Atiende(o, d),
         \A o \in Puestos \ {p} : tareas'[o] = tareas[o]
  PROVE  /\ Ajenas(tareas'[p], d) /\ Quieto(d)' => DocumentoEnOrden(d)'
         /\ doc'[d] # Nada /\ EnFase(p, d)' => DocumentoEnOrden(d)'
  <1>1. \A o \in Puestos \ {p} : ~Atiende(o, d)'  BY DEF Atiende
  <1>2. ASSUME Ajenas(tareas'[p], d), Quieto(d)'  PROVE DocumentoEnOrden(d)'
    <2>1. ~Atiende(p, d)'  BY <1>2 DEF Atiende, Ajenas
    <2>2. ~EnObra(d)'  BY <1>1, <2>1 DEF EnObra, Atiende
    <2> QED  BY <1>2, <2>2 DEF DocumentoEnOrden
  <1>3. ASSUME doc'[d] # Nada, EnFase(p, d)'  PROVE DocumentoEnOrden(d)'
    BY <1>1, <1>3 DEF DocumentoEnOrden
  <1> QED  BY <1>2, <1>3

\* The statement executed is the first that remains.
LEMMA QueSentencia ==
  ASSUME NEW p \in Puestos, Sentencia(p)
  PROVE  /\ tareas[p] # <<>>
         /\ Head(tareas[p]).hace = "saldo" => LeeSaldo(p) \/ GuardaSaldo(p)
         /\ Head(tareas[p]).hace = "busca" => BuscaContrapartida(p)
         /\ Head(tareas[p]).hace = "inserta" => InsertaApunte(p)
         /\ Head(tareas[p]).hace = "lee" => LeeApunte(p)
         /\ Head(tareas[p]).hace = "borra" => BorraFila(p)
         /\ Head(tareas[p]).hace = "anota" => AnotaApunte(p)
  BY DEF Sentencia, LeeSaldo, GuardaSaldo, BuscaContrapartida, InsertaApunte, LeeApunte, BorraFila,
         AnotaApunte, Toca

\* Executing the statement u, with r after it.
LEMMA TrasUna ==
  ASSUME TypeOK, NEW p \in Puestos, NEW u \in Tareas, NEW r \in Seq(Tareas), tareas[p] = <<u>> \o r
  PROVE  /\ tareas[p] # <<>> /\ Head(tareas[p]) = u /\ Tail(tareas[p]) = r /\ ficha[p] = Nada
         /\ 1 \in DOMAIN tareas[p] /\ tareas[p][1] = u
         /\ \A ts : Sigue(p, ts) => /\ tareas'[p] = ts \o r
                                    /\ \A o \in Puestos \ {p} : tareas'[o] = tareas[o]
  <1>1. <<u>> \o r # <<>> /\ Head(<<u>> \o r) = u /\ Tail(<<u>> \o r) = r  BY UnaTarea
  <1>2. DOMAIN (<<u>> \o r) = 1 .. Len(r) + 1 /\ (<<u>> \o r)[1] = u /\ Len(r) \in Nat  BY UnaTarea
  <1>3. 1 \in DOMAIN tareas[p] /\ tareas[p][1] = u  BY <1>2
  <1>4. \A ts : Sigue(p, ts) => /\ tareas'[p] = ts \o r
                                /\ \A o \in Puestos \ {p} : tareas'[o] = tareas[o]
    BY <1>1 DEF Sigue, TypeOK
  <1> QED  BY <1>1, <1>3, <1>4 DEF TypeOK

\* A balance, if there is one to move, and then what follows.
LEMMA SaldoPrimero ==
  ASSUME NEW q \in Cuentas, NEW n \in Int, NEW rs \in Seq(Tareas)
  PROVE  SaldoY(Mueve(q, n) \o rs, rs)
  <1>1. CASE n = 0
    <2>1. <<>> \o rs = rs  OBVIOUS
    <2> QED  BY <1>1, <2>1 DEF Mueve, SaldoY
  <1>2. CASE n # 0  BY <1>2 DEF Mueve, SaldoY
  <1> QED  BY <1>1, <1>2

\* The old entry is read: it is there, or it is not.
LEMMA FaseLee ==
  ASSUME Tipos, TypeOK', NEW d \in Documentos, NEW p \in Puestos, Sentencia(p), doc[d] # Nada,
         \A o \in Puestos \ {p} : ~Atiende(o, d),
         NEW v \in Ids, tareas[p] = <<Lee(d, v)>> \o Resto(d), Suyos(d) \subseteq {v}
  PROVE  DocumentoEnOrden(d)'
  <1>0. TypeOK /\ Referencias  BY DEF Tipos
  <1>1. PICK u \in Tareas : u = Lee(d, v)  BY TareasBien
  <1>2. PICK r \in Seq(Tareas) : r = Resto(d) /\ <<>> \o r = r
    <2>1. Resto(d) \in Seq(Tareas)  BY <1>0, RestoBien
    <2>2. \A s \in Seq(Tareas) : <<>> \o s = s  OBVIOUS
    <2> QED  BY <2>1, <2>2
  <1>3. tareas[p] = <<u>> \o r  BY <1>1, <1>2
  <1>4. u.hace = "lee" /\ u.documento = d /\ u.id = v  BY <1>1 DEF Lee
  <1>5. LeeApunte(p)  BY <1>0, <1>3, <1>4, TrasUna, QueSentencia
  <1>6. /\ UNCHANGED <<apunte, doc>>
        /\ Sigue(p, IF apunte[v] = Nada THEN <<>> ELSE <<Borra(d, v, apunte[v])>>)
    <2>1. Head(tareas[p]) = u  BY <1>0, <1>3, TrasUna
    <2> QED  BY <1>4, <1>5, <2>1 DEF LeeApunte, bd
  <1>7. /\ tareas'[p] = (IF apunte[v] = Nada THEN <<>> ELSE <<Borra(d, v, apunte[v])>>) \o r
        /\ \A o \in Puestos \ {p} : tareas'[o] = tareas[o]
    <2>1. PICK ts : ts = IF apunte[v] = Nada THEN <<>> ELSE <<Borra(d, v, apunte[v])>>  OBVIOUS
    <2>2. Sigue(p, ts)  BY <1>6, <2>1
    <2>3. tareas'[p] = ts \o r /\ \A o \in Puestos \ {p} : tareas'[o] = tareas[o]
      BY <1>0, <1>3, <2>2, TrasUna
    <2> QED  BY <2>1, <2>3
  <1>8. Suyos(d)' = Suyos(d) /\ Resto(d)' = r /\ (SinApunte(doc[d]))' = SinApunte(doc[d])
    BY <1>2, <1>6 DEF Suyos, Resto, SinApunte
  <1>9. CASE apunte[v] = Nada
    <2>1. Suyos(d)' = {} /\ tareas'[p] = r  BY <1>2, <1>7, <1>8, <1>9 DEF Suyos
    <2>2. CASE r = <<>>
      <3>1. SinApunte(doc[d])  BY <1>0, <1>2, <2>2, RestoBien
      <3>2. Quieto(d)'  BY <1>8, <2>1, <3>1 DEF Quieto
      <3>3. Ajenas(tareas'[p], d)  BY <2>1, <2>2, AjenasNinguna
      <3> QED  BY <1>7, <3>2, <3>3, AjenasIgual
    <2>3. CASE r # <<>>
      <3>1. EnFase(p, d)'  BY <1>8, <2>1, <2>3 DEF EnFase, SaldoY
      <3> QED  BY <1>6, <1>7, <3>1, AjenasIgual
    <2> QED  BY <2>2, <2>3
  <1>10. CASE apunte[v] # Nada
    <2>1. TareaReferida(u)
      <3>1. 1 \in DOMAIN tareas[p] /\ tareas[p][1] = u  BY <1>0, <1>3, TrasUna
      <3> QED  BY <1>0, <3>1 DEF Referencias
    <2>2. apunte[v].origen = d  BY <1>4, <1>10, <2>1 DEF TareaReferida, Referida, Ids
    <2>3. Suyos(d)' = {v}  BY <1>8, <1>10, <2>2 DEF Suyos
    <2>4. tareas'[p] = <<Borra(d, v, apunte'[v])>> \o Resto(d)'  BY <1>6, <1>7, <1>8, <1>10
    <2>5. EnFase(p, d)'  BY <2>3, <2>4 DEF EnFase
    <2> QED  BY <1>6, <1>7, <2>5, AjenasIgual
  <1> QED  BY <1>9, <1>10

\* The old entry is removed, as it was read.
LEMMA FaseBorra ==
  ASSUME Tipos, TypeOK', NEW d \in Documentos, NEW p \in Puestos, Sentencia(p), doc[d] # Nada,
         \A o \in Puestos \ {p} : ~Atiende(o, d),
         NEW v \in Ids, tareas[p] = <<Borra(d, v, apunte[v])>> \o Resto(d), Suyos(d) = {v}
  PROVE  DocumentoEnOrden(d)'
  <1>0. TypeOK  BY DEF Tipos
  <1>1. PICK f \in Filas : f = apunte[v]  BY <1>0 DEF Suyos, TypeOK
  <1>2. PICK u \in Tareas : u = Borra(d, v, f)  BY TareasBien
  <1>3. PICK r \in Seq(Tareas) : r = Resto(d)  BY <1>0, RestoBien
  <1>4. tareas[p] = <<u>> \o r  BY <1>1, <1>2, <1>3
  <1>5. u.hace = "borra" /\ u.documento = d /\ u.id = v /\ u.fila = f  BY <1>2 DEF Borra
  <1>6. BorraFila(p)  BY <1>0, <1>4, <1>5, TrasUna, QueSentencia
  <1>7. /\ apunte' = [apunte EXCEPT ![v] = Nada] /\ UNCHANGED doc
        /\ Sigue(p, Mueve(f.cuenta, -f.importe))
    <2>1. Head(tareas[p]) = u  BY <1>0, <1>4, TrasUna
    <2> QED  BY <1>5, <1>6, <2>1 DEF BorraFila
  <1>8. f.cuenta \in Cuentas /\ -f.importe \in Int  BY DEF Filas
  <1>9. PICK m \in Seq(Tareas) :
          m = Mueve(f.cuenta, -f.importe) /\ Ajenas(m, d) /\ SaldoY(m \o r, r)
    <2>1. PICK q \in Cuentas, n \in Int : q = f.cuenta /\ n = -f.importe  BY <1>8
    <2>2. Mueve(q, n) \in Seq(Tareas) /\ SaldoY(Mueve(q, n) \o r, r)  BY MueveBien, SaldoPrimero
    <2>3. Ajenas(Mueve(q, n), d)  BY AjenosSaldos
    <2> QED  BY <2>1, <2>2, <2>3
  <1>10. tareas'[p] = m \o r /\ \A o \in Puestos \ {p} : tareas'[o] = tareas[o]
    <2>1. Sigue(p, m)  BY <1>7, <1>9
    <2> QED  BY <1>0, <1>4, <2>1, TrasUna
  <1>11. Suyos(d)' = {}
    <2>1. apunte'[v] = Nada /\ \A i \in Ids \ {v} : apunte'[i] = apunte[i]
      BY <1>0, <1>7 DEF TypeOK
    <2> QED  BY <2>1 DEF Suyos
  <1>12. Resto(d)' = r /\ (SinApunte(doc[d]))' = SinApunte(doc[d])
    BY <1>3, <1>7 DEF Resto, SinApunte
  <1>13. CASE r = <<>>
    <2>1. SinApunte(doc[d])  BY <1>0, <1>3, <1>13, RestoBien
    <2>2. Quieto(d)'  BY <1>11, <1>12, <2>1 DEF Quieto
    <2>3. Ajenas(tareas'[p], d)  BY <1>9, <1>10, <1>13, AjenasNinguna, AjenasLasDos
    <2> QED  BY <1>10, <2>2, <2>3, AjenasIgual
  <1>14. CASE r # <<>>
    <2>1. SaldoY(tareas'[p], Resto(d)')  BY <1>9, <1>10, <1>12
    <2>2. EnFase(p, d)'  BY <1>11, <1>12, <1>14, <2>1 DEF EnFase, SaldoY
    <2> QED  BY <1>7, <1>10, <2>2, AjenasIgual
  <1> QED  BY <1>13, <1>14

\* The new entry is inserted ...
LEMMA FaseInserta ==
  ASSUME Tipos, TypeOK', NEW d \in Documentos, NEW p \in Puestos, Sentencia(p), doc[d] # Nada,
         \A o \in Puestos \ {p} : ~Atiende(o, d),
         Resto(d) # <<>>, tareas[p] = Resto(d), Suyos(d) = {}
  PROVE  DocumentoEnOrden(d)'
  <1>0. TypeOK  BY DEF Tipos
  <1>1. ~SinApunte(doc[d]) /\ doc[d] \in Docs  BY <1>0, RestoBien
  <1>2. PICK f \in Filas :
          /\ tareas[p] = <<Inserta(f)>> \o <<>>
          /\ f.cuenta = doc[d].cuenta /\ f.importe = doc[d].importe /\ f.origen = d
    BY <1>0, <1>1, RestoBien
  <1>3. PICK u \in Tareas : u = Inserta(f)  BY TareasBien
  <1>4. PICK r \in Seq(Tareas) : r = <<>>  BY SinTareas
  <1>5. tareas[p] = <<u>> \o r  BY <1>2, <1>3, <1>4
  <1>6. u.hace = "inserta" /\ u.fila = f  BY <1>3 DEF Inserta
  <1>7. InsertaApunte(p)  BY <1>0, <1>5, <1>6, TrasUna, QueSentencia
  <1>8. /\ InsertaFila(f) /\ UNCHANGED doc
        /\ Sigue(p, Mueve(f.cuenta, f.importe) \o <<Anota(d, ultimo + 1)>>)
    <2>1. Head(tareas[p]) = u  BY <1>0, <1>5, TrasUna
    <2> QED  BY <1>2, <1>6, <1>7, <2>1, NadaBien DEF InsertaApunte
  <1>9. PICK i \in Ids :
          /\ i = ultimo + 1 /\ apunte'[i] # Nada
          /\ apunte'[i].cuenta = f.cuenta /\ apunte'[i].importe = f.importe /\ apunte'[i].origen = d
          /\ \A j \in Ids \ {i} : apunte'[j] = apunte[j]
    BY <1>0, <1>2, <1>8, Insertada, NadaBien
  <1>10. f.cuenta \in Cuentas /\ f.importe \in Int  BY DEF Filas
  <1>11. PICK a \in Tareas : a = Anota(d, i)  BY TareasBien
  <1>12. PICK b \in Seq(Tareas) : b = <<a>>  BY <1>4, UnaTarea
  <1>13. PICK m \in Seq(Tareas) : m = Mueve(f.cuenta, f.importe) /\ SaldoY(m \o b, b)
    BY <1>10, MueveBien, SaldoPrimero
  <1>14. Sigue(p, m \o b)  BY <1>8, <1>9, <1>11, <1>12, <1>13
  <1>15. tareas'[p] = m \o b /\ \A o \in Puestos \ {p} : tareas'[o] = tareas[o]
    <2>1. tareas'[p] = (m \o b) \o r /\ \A o \in Puestos \ {p} : tareas'[o] = tareas[o]
      BY <1>0, <1>5, <1>14, TrasUna
    <2>2. PICK s \in Seq(Tareas) : s = m \o b  BY TareasDeLasDos
    <2>3. s \o <<>> = s  OBVIOUS
    <2> QED  BY <1>4, <2>1, <2>2, <2>3
  <1>16. SaldoY(tareas'[p], <<Anota(d, i)>>)  BY <1>11, <1>12, <1>13, <1>15
  <1>17. SuApunteEs(d, i)'
    <2>1. Suyos(d)' = {i}  BY <1>9 DEF Suyos
    <2> QED  BY <1>2, <1>8, <1>9, <2>1 DEF SuApunteEs
  <1>18. EnFase(p, d)'
    <2>1. (~SinApunte(doc[d]))'  BY <1>1, <1>8 DEF SinApunte
    <2> QED  BY <1>16, <1>17, <2>1 DEF EnFase, SaldoY
  <1> QED  BY <1>8, <1>15, <1>18, AjenasIgual

\* ... and the document notes its id.
LEMMA FaseAnota ==
  ASSUME Tipos, TypeOK', NEW d \in Documentos, NEW p \in Puestos, Sentencia(p),
         \A o \in Puestos \ {p} : ~Atiende(o, d),
         ~SinApunte(doc[d]), NEW i \in Ids, tareas[p] = <<Anota(d, i)>>, SuApunteEs(d, i)
  PROVE  DocumentoEnOrden(d)'
  <1>0. TypeOK  BY DEF Tipos
  <1>1. doc[d] \in Docs  BY <1>0 DEF SinApunte, TypeOK
  <1>2. PICK u \in Tareas : u = Anota(d, i)  BY TareasBien
  <1>3. PICK r \in Seq(Tareas) : r = <<>>  BY SinTareas
  <1>4. tareas[p] = <<u>> \o r
    <2>1. <<u>> \o <<>> = <<u>>  OBVIOUS
    <2> QED  BY <1>2, <1>3, <2>1
  <1>5. u.hace = "anota" /\ u.documento = d /\ u.id = i  BY <1>2 DEF Anota
  <1>6. AnotaApunte(p)  BY <1>0, <1>4, <1>5, TrasUna, QueSentencia
  <1>7. /\ UNCHANGED apunte /\ Sigue(p, <<>>)
        /\ doc' = [doc EXCEPT ![d] = IF @ = Borrado THEN @ ELSE [@ EXCEPT !.apunte = i]]
    <2>1. Head(tareas[p]) = u  BY <1>0, <1>4, TrasUna
    <2> QED  BY <1>5, <1>6, <2>1 DEF AnotaApunte
  <1>8. doc'[d] = [doc[d] EXCEPT !.apunte = i]  BY <1>0, <1>1, <1>7, NadaBien DEF TypeOK
  <1>9. /\ doc'[d] \in Docs /\ doc'[d].apunte = i
        /\ doc'[d].importe = doc[d].importe /\ doc'[d].cuenta = doc[d].cuenta
    <2>1. i \in 0 .. MaxApuntes  BY DEF Ids
    <2> QED  BY <1>1, <1>8, <2>1 DEF Docs
  <1>10. tareas'[p] = <<>> /\ \A o \in Puestos \ {p} : tareas'[o] = tareas[o]
    <2>1. tareas'[p] = <<>> \o r /\ \A o \in Puestos \ {p} : tareas'[o] = tareas[o]
      BY <1>0, <1>4, <1>7, TrasUna
    <2>2. <<>> \o <<>> = <<>>  OBVIOUS
    <2> QED  BY <1>3, <2>1, <2>2
  <1>11. SuApunteEs(d, i)'
    <2>1. Suyos(d)' = Suyos(d)  BY <1>7 DEF Suyos
    <2> QED  BY <1>7, <1>9, <2>1 DEF SuApunteEs
  <1>12. Quieto(d)'  BY <1>9, <1>11, NadaBien DEF Quieto, SinApunte, SuApunteEs, Suyos
  <1>13. Ajenas(tareas'[p], d)  BY <1>10, AjenasNinguna
  <1> QED  BY <1>10, <1>12, <1>13, AjenasIgual

\* A balance is moved before the rest.
LEMMA FaseSaldo ==
  ASSUME TypeOK, NEW p \in Puestos, Sentencia(p), NEW q \in Cuentas, NEW n \in Int,
         NEW rs \in Seq(Tareas), tareas[p] = <<ActSaldo(q, n)>> \o rs
  PROVE  /\ UNCHANGED <<apunte, doc>> /\ SaldoY(tareas'[p], rs)
         /\ \A o \in Puestos \ {p} : tareas'[o] = tareas[o]
  <1>1. PICK u \in Tareas : u = ActSaldo(q, n)  BY TareasBien
  <1>2. tareas[p] = <<u>> \o rs /\ u.hace = "saldo"  BY <1>1 DEF ActSaldo
  <1>3. CASE LeeSaldo(p)
    <2>1. UNCHANGED <<apunte, doc, tareas>>  BY <1>3 DEF LeeSaldo, bd
    <2> QED  BY <2>1 DEF SaldoY
  <1>4. CASE GuardaSaldo(p)
    <2>1. Sigue(p, <<>>) /\ UNCHANGED <<apunte, doc>>  BY <1>4 DEF GuardaSaldo
    <2>2. tareas'[p] = <<>> \o rs /\ \A o \in Puestos \ {p} : tareas'[o] = tareas[o]
      BY <1>2, <2>1, TrasUna
    <2>3. <<>> \o rs = rs  OBVIOUS
    <2> QED  BY <2>1, <2>2, <2>3 DEF SaldoY
  <1> QED  BY <1>2, <1>3, <1>4, TrasUna, QueSentencia

\* The save of d goes on, phase by phase, until d has the entry it should.
LEMMA DocumentoAtendido ==
  ASSUME Tipos, TypeOK', NEW d \in Documentos, NEW p \in Puestos, Sentencia(p), doc[d] # Nada,
         EnFase(p, d), \A o \in Puestos \ {p} : ~Atiende(o, d)
  PROVE  DocumentoEnOrden(d)'
  <1>0. TypeOK  BY DEF Tipos
  <1>1. ASSUME NEW v \in Ids, tareas[p] = <<Lee(d, v)>> \o Resto(d), Suyos(d) \subseteq {v}
        PROVE  DocumentoEnOrden(d)'
    BY <1>1, FaseLee
  <1>2. ASSUME NEW v \in Ids, tareas[p] = <<Borra(d, v, apunte[v])>> \o Resto(d), Suyos(d) = {v}
        PROVE  DocumentoEnOrden(d)'
    BY <1>2, FaseBorra
  <1>3. ASSUME Resto(d) # <<>>, SaldoY(tareas[p], Resto(d)), Suyos(d) = {}
        PROVE  DocumentoEnOrden(d)'
    <2>1. CASE tareas[p] = Resto(d)  BY <1>3, <2>1, FaseInserta
    <2>2. ASSUME NEW q \in Cuentas, NEW n \in Int, tareas[p] = <<ActSaldo(q, n)>> \o Resto(d)
          PROVE  DocumentoEnOrden(d)'
      <3>1. PICK r \in Seq(Tareas) : r = Resto(d)  BY <1>0, RestoBien
      <3>2. /\ UNCHANGED <<apunte, doc>> /\ SaldoY(tareas'[p], r)
            /\ \A o \in Puestos \ {p} : tareas'[o] = tareas[o]
        BY <1>0, <2>2, <3>1, FaseSaldo
      <3>3. Resto(d)' = r /\ Suyos(d)' = {}  BY <1>3, <3>1, <3>2 DEF Resto, SinApunte, Suyos
      <3>4. EnFase(p, d)'  BY <1>3, <3>1, <3>2, <3>3 DEF EnFase, SaldoY
      <3> QED  BY <3>2, <3>4, AjenasIgual
    <2> QED  BY <1>3, <2>1, <2>2 DEF SaldoY
  <1>4. ASSUME ~SinApunte(doc[d]), NEW i \in Ids, SaldoY(tareas[p], <<Anota(d, i)>>), SuApunteEs(d, i)
        PROVE  DocumentoEnOrden(d)'
    <2>1. CASE tareas[p] = <<Anota(d, i)>>  BY <1>4, <2>1, FaseAnota
    <2>2. ASSUME NEW q \in Cuentas, NEW n \in Int, tareas[p] = <<ActSaldo(q, n)>> \o <<Anota(d, i)>>
          PROVE  DocumentoEnOrden(d)'
      <3>1. PICK r \in Seq(Tareas) : r = <<Anota(d, i)>>
        <4>1. PICK u \in Tareas : u = Anota(d, i)  BY TareasBien
        <4>2. <<u>> \in Seq(Tareas)  OBVIOUS
        <4> QED  BY <4>1, <4>2
      <3>2. /\ UNCHANGED <<apunte, doc>> /\ SaldoY(tareas'[p], r)
            /\ \A o \in Puestos \ {p} : tareas'[o] = tareas[o]
        BY <1>0, <2>2, <3>1, FaseSaldo
      <3>3. (~SinApunte(doc[d]))' /\ SuApunteEs(d, i)'
        BY <1>4, <3>2 DEF SinApunte, SuApunteEs, Suyos
      <3>4. EnFase(p, d)'  BY <3>1, <3>2, <3>3 DEF EnFase, SaldoY
      <3> QED  BY <3>2, <3>4, AjenasIgual
    <2> QED  BY <1>4, <2>1, <2>2 DEF SaldoY
  <1> QED  BY <1>1, <1>2, <1>3, <1>4 DEF EnFase

\* Documents after each statement, one step per statement for those it is not about.
LEMMA DocumentalSentencia ==
  ASSUME Tipos, TypeOK', Documental, NEW p \in Puestos, Sentencia(p) \/ Falla(p)
  PROVE  Documental'
  <1> SUFFICES ASSUME NEW d \in Documentos, d \notin sospechoso'
               PROVE  DocumentoEnOrden(d)'
    BY DEF Documental
  <1>0. TypeOK /\ Referencias  BY DEF Tipos
  <1>1. d \notin sospechoso
    BY DEF Sentencia, LeeSaldo, GuardaSaldo, BuscaContrapartida, InsertaApunte, LeeApunte, BorraFila,
           AnotaApunte, Falla, Sospecha
  <1>2. DocumentoEnOrden(d)  BY <1>1 DEF Documental
  <1>3. CASE Atiende(p, d) /\ Sentencia(p)
    <2>1. EnObra(d)  BY <1>3 DEF EnObra, Atiende
    <2>2. PICK o \in Puestos : EnFase(o, d) /\ \A w \in Puestos \ {o} : ~Atiende(w, d)
      BY <1>2, <2>1 DEF DocumentoEnOrden
    <2>3. o = p /\ doc[d] # Nada  BY <1>2, <1>3, <2>1, <2>2 DEF DocumentoEnOrden
    <2> QED  BY <1>3, <2>2, <2>3, DocumentoAtendido
  <1>4. ASSUME Falla(p)  PROVE DocumentoEnOrden(d)'
    <2>1. /\ UNCHANGED <<apunte, doc>> /\ tareas'[p] = <<>>
          /\ \A o \in Puestos \ {p} : tareas'[o] = tareas[o]
          /\ sospechoso' = sospechoso \cup ({Afecta(tareas[p][n]) : n \in DOMAIN tareas[p]} \ {Nada})
      BY <1>0, <1>4 DEF Falla, bd, TypeOK, Sospecha
    <2>2. ~Atiende(p, d)  BY <2>1, NadaBien DEF Atiende
    <2>3. MismasFilas(d) /\ doc'[d] = doc[d] /\ Ajenas(tareas'[p], d)
      BY <2>1, AjenasNinguna DEF MismasFilas
    <2> QED  BY <1>0, <1>2, <2>1, <2>2, <2>3, AjenoSigue
  \* A statement that is not about d, followed by others that are not.
  <1>5. ASSUME ~Atiende(p, d), tareas[p] # <<>>, doc'[d] = doc[d], MismasFilas(d),
               NEW ts \in Seq(Tareas), Ajenas(ts, d), Sigue(p, ts)
        PROVE  DocumentoEnOrden(d)'
    <2>1. PICK s \in Seq(Tareas) : s = tareas[p]  BY <1>0 DEF TypeOK
    <2>2. Ajenas(s, d)  BY <1>5, <2>1 DEF Ajenas, Atiende
    <2>3. Tail(s) \in Seq(Tareas) /\ Ajenas(Tail(s), d)  BY <1>5, <2>1, <2>2, TareasDeLaCola, AjenasCola
    <2>4. tareas'[p] = ts \o Tail(s) /\ \A o \in Puestos \ {p} : tareas'[o] = tareas[o]
      BY <1>0, <1>5, <2>1 DEF Sigue, TypeOK
    <2>5. Ajenas(tareas'[p], d)  BY <1>5, <2>3, <2>4, AjenasLasDos
    <2> QED  BY <1>0, <1>2, <1>5, <2>4, <2>5, AjenoSigue
  <1>6. CASE ~Atiende(p, d) /\ Sentencia(p)
    <2>0. tareas[p] # <<>>  BY <1>6, QueSentencia
    <2>1. PICK t \in Tareas :
            t = Head(tareas[p]) /\ Afecta(t) # d /\ \E n \in DOMAIN tareas[p] : tareas[p][n] = t
      BY <1>0, <1>6, <2>0, Primera DEF Atiende
    <2>2. TareaReferida(t)  BY <1>0, <2>1 DEF Referencias
    <2>n. PICK nt \in Seq(Tareas) : nt = <<>> /\ Ajenas(nt, d)  BY SinTareas, AjenasNinguna
    <2>3. CASE LeeSaldo(p)
      <3>1. UNCHANGED <<apunte, doc, tareas>>  BY <2>3 DEF LeeSaldo, bd
      <3>2. MismasFilas(d) /\ doc'[d] = doc[d] /\ Ajenas(tareas'[p], d)
        BY <1>6, <3>1 DEF MismasFilas, Ajenas, Atiende
      <3>3. \A o \in Puestos \ {p} : tareas'[o] = tareas[o]  BY <3>1
      <3> QED  BY <1>0, <1>2, <1>6, <3>2, <3>3, AjenoSigue
    <2>4. CASE GuardaSaldo(p)
      <3>1. UNCHANGED <<apunte, doc>> /\ Sigue(p, nt)  BY <2>4, <2>n DEF GuardaSaldo
      <3>2. MismasFilas(d) /\ doc'[d] = doc[d]  BY <3>1 DEF MismasFilas
      <3> QED  BY <1>5, <1>6, <2>0, <2>n, <3>1, <3>2
    <2>5. CASE BuscaContrapartida(p)
      <3>1. t.hace = "busca"  BY <2>1, <2>5 DEF BuscaContrapartida, Toca
      <3>2. PICK f \in Filas : f = t.fila /\ f.contra \in Cuentas /\ f.origen = Nada
        BY <3>1, PartesDeTarea
      <3>3. PICK g \in Filas : g = [f EXCEPT !.importe = -f.importe, !.cuenta = f.contra, !.contra = f.cuenta]
        <4>1. f.num \in 0 .. MaxApuntes /\ -f.importe \in Int /\ f.cuenta \in Cuentas  BY DEF Filas
        <4>2. [f EXCEPT !.importe = -f.importe, !.cuenta = f.contra, !.contra = f.cuenta] \in Filas
          BY <3>2, <4>1 DEF Filas
        <4> QED  BY <4>2
      <3>4. g.origen = Nada  BY <3>2, <3>3 DEF Filas
      <3>5. PICK u \in Tareas : u = Inserta(g) /\ Afecta(u) # d
        BY <3>4, NadaBien, TareasBien DEF Afecta, Inserta
      <3>6. PICK ut \in Seq(Tareas) : ut = <<u>> /\ Ajenas(ut, d)  BY <2>n, <3>5, UnaTarea, AjenaUna
      <3>7. (Sigue(p, nt) \/ Sigue(p, ut)) /\ UNCHANGED <<apunte, doc>>
        BY <2>1, <2>5, <2>n, <3>2, <3>3, <3>5, <3>6 DEF BuscaContrapartida, bd
      <3>8. MismasFilas(d) /\ doc'[d] = doc[d]  BY <3>7 DEF MismasFilas
      <3> QED  BY <1>5, <1>6, <2>0, <2>n, <3>6, <3>7, <3>8
    <2>6. CASE InsertaApunte(p)
      <3>1. t.hace = "inserta"  BY <2>1, <2>6 DEF InsertaApunte, Toca
      <3>2. PICK f \in Filas : f = t.fila /\ f.origen # d  BY <2>1, <3>1, PartesDeTarea DEF Afecta
      <3>3. /\ InsertaFila(f) /\ UNCHANGED doc
            /\ Sigue(p, Mueve(f.cuenta, f.importe)
                          \o IF f.origen = Nada THEN <<>> ELSE <<Anota(f.origen, ultimo + 1)>>)
        BY <2>1, <2>6, <3>2 DEF InsertaApunte
      <3>4. PICK i \in Ids :
              /\ i = ultimo + 1 /\ apunte[i] = Nada /\ apunte'[i].origen = f.origen
              /\ \A j \in Ids \ {i} : apunte'[j] = apunte[j]
        BY <1>0, <3>2, <3>3, Insertada
      <3>5. MismasFilas(d) /\ doc'[d] = doc[d]  BY <3>2, <3>3, <3>4 DEF MismasFilas
      <3>6. f.cuenta \in Cuentas /\ f.importe \in Int /\ f.origen \in Documentos \cup {Nada}
        BY DEF Filas
      <3>7. PICK a \in Seq(Tareas) : a = Mueve(f.cuenta, f.importe) /\ Ajenas(a, d)
        <4>1. PICK q \in Cuentas, n \in Int : q = f.cuenta /\ n = f.importe  BY <3>6
        <4>2. Mueve(q, n) \in Seq(Tareas) /\ Ajenas(Mueve(q, n), d)  BY MueveBien, AjenosSaldos
        <4> QED  BY <4>1, <4>2
      <3>8. PICK b \in Seq(Tareas) :
              /\ b = IF f.origen = Nada THEN <<>> ELSE <<Anota(f.origen, i)>>
              /\ Ajenas(b, d)
        <4>1. CASE f.origen = Nada  BY <2>n, <4>1
        <4>2. CASE f.origen # Nada
          <5>1. PICK u \in Tareas : u = Anota(f.origen, i) /\ Afecta(u) # d
            BY <3>2, <3>6, <4>2, TareasBien DEF Afecta, Anota
          <5>2. PICK ut \in Seq(Tareas) : ut = <<u>> /\ Ajenas(ut, d)  BY <2>n, <5>1, UnaTarea, AjenaUna
          <5> QED  BY <4>2, <5>1, <5>2
        <4> QED  BY <4>1, <4>2
      <3>9. PICK ab \in Seq(Tareas) : ab = a \o b /\ Ajenas(ab, d)
        <4>1. a \o b \in Seq(Tareas)  BY TareasDeLasDos
        <4>2. Ajenas(a \o b, d)  BY <3>7, <3>8, AjenasLasDos
        <4> QED  BY <4>1, <4>2
      <3>10. Sigue(p, ab)  BY <3>3, <3>4, <3>7, <3>8, <3>9
      <3> QED  BY <1>5, <1>6, <2>0, <3>5, <3>9, <3>10
    <2>7. CASE LeeApunte(p)
      <3>1. t.hace = "lee"  BY <2>1, <2>7 DEF LeeApunte, Toca
      <3>2. t.documento \in Documentos /\ t.id \in Ids /\ t.documento # d
        BY <2>1, <3>1, PartesDeTarea DEF Afecta
      <3>3. PICK ut \in Seq(Tareas) :
              Ajenas(ut, d) /\ (apunte[t.id] # Nada => ut = <<Borra(t.documento, t.id, apunte[t.id])>>)
        <4>1. CASE apunte[t.id] = Nada  BY <2>n, <4>1
        <4>2. CASE apunte[t.id] # Nada
          <5>1. PICK u \in Tareas : u = Borra(t.documento, t.id, apunte[t.id]) /\ Afecta(u) # d
            <6>1. apunte[t.id] \in Filas  BY <1>0, <3>2, <4>2 DEF TypeOK
            <6> QED  BY <3>2, <6>1, TareasBien DEF Afecta, Borra
          <5>2. PICK ut \in Seq(Tareas) : ut = <<u>> /\ Ajenas(ut, d)  BY <2>n, <5>1, UnaTarea, AjenaUna
          <5> QED  BY <4>2, <5>1, <5>2
        <4> QED  BY <4>1, <4>2
      <3>4. (Sigue(p, nt) \/ Sigue(p, ut)) /\ UNCHANGED <<apunte, doc>>
        <4>1. /\ UNCHANGED <<apunte, doc>>
              /\ Sigue(p, IF apunte[t.id] = Nada THEN <<>>
                          ELSE <<Borra(t.documento, t.id, apunte[t.id])>>)
          BY <2>1, <2>7 DEF LeeApunte, bd
        <4>2. CASE apunte[t.id] = Nada  BY <2>n, <4>1, <4>2
        <4>3. CASE apunte[t.id] # Nada  BY <3>3, <4>1, <4>3
        <4> QED  BY <4>1, <4>2, <4>3
      <3>5. MismasFilas(d) /\ doc'[d] = doc[d]  BY <3>4 DEF MismasFilas
      <3> QED  BY <1>5, <1>6, <2>0, <2>n, <3>3, <3>4, <3>5
    <2>8. CASE BorraFila(p)
      <3>1. t.hace = "borra"  BY <2>1, <2>8 DEF BorraFila, Toca
      <3>2. PICK i \in Ids, f \in Filas : i = t.id /\ f = t.fila  BY <3>1, PartesDeTarea
      <3>3. apunte' = [apunte EXCEPT ![i] = Nada] /\ UNCHANGED doc /\ Sigue(p, Mueve(f.cuenta, -f.importe))
        BY <2>1, <2>8, <3>2 DEF BorraFila
      <3>4. t.documento # d  BY <2>1, <3>1 DEF Afecta
      <3>5. apunte[i] # Nada => apunte[i].origen # d
        BY <2>2, <3>1, <3>2, <3>4 DEF TareaReferida, Referida, Ids
      <3>6. apunte'[i] = Nada /\ \A j \in Ids \ {i} : apunte'[j] = apunte[j]
        BY <1>0, <3>3 DEF TypeOK
      <3>7. MismasFilas(d) /\ doc'[d] = doc[d]  BY <3>3, <3>5, <3>6 DEF MismasFilas
      <3>8. PICK q \in Cuentas, n \in Int : q = f.cuenta /\ n = -f.importe  BY DEF Filas
      <3>9. PICK m \in Seq(Tareas) : m = Mueve(q, n) /\ Ajenas(m, d)  BY MueveBien, AjenosSaldos
      <3>10. Sigue(p, m)  BY <3>3, <3>8, <3>9
      <3> QED  BY <1>5, <1>6, <2>0, <3>7, <3>9, <3>10
    <2>9. CASE AnotaApunte(p)
      <3>1. t.hace = "anota"  BY <2>1, <2>9 DEF AnotaApunte, Toca
      <3>2. t.documento # d  BY <2>1, <3>1 DEF Afecta
      <3>3. UNCHANGED apunte /\ Sigue(p, nt) /\ doc'[d] = doc[d]
        BY <1>0, <2>1, <2>9, <2>n, <3>2 DEF AnotaApunte, TypeOK
      <3>4. MismasFilas(d)  BY <3>3 DEF MismasFilas
      <3> QED  BY <1>5, <1>6, <2>0, <2>n, <3>3, <3>4
    <2> QED  BY <1>6, <2>3, <2>4, <2>5, <2>6, <2>7, <2>8, <2>9 DEF Sentencia
  <1> QED  BY <1>3, <1>4, <1>6

LEMMA DocumentalPaso ==
  ASSUME Tipos, Documental, [Next]_vars
  PROVE  Documental'
  <1>1. TypeOK'  BY TiposPaso DEF Tipos
  <1>2. CASE UNCHANGED vars
    <2>0. UNCHANGED <<apunte, doc, tareas, sospechoso>>  BY <1>2 DEF vars, bd
    <2> SUFFICES ASSUME NEW d \in Documentos, d \notin sospechoso'
                 PROVE  DocumentoEnOrden(d)'
      BY DEF Documental
    <2>1. DocumentoEnOrden(d)  BY <2>0 DEF Documental
    <2>2. Suyos(d)' = Suyos(d) /\ (SinApunte(doc[d]))' = SinApunte(doc[d]) /\ Resto(d)' = Resto(d)
      BY <2>0 DEF Suyos, SinApunte, Resto
    <2>3. \A i : SuApunteEs(d, i)' = SuApunteEs(d, i)  BY <2>0, <2>2 DEF SuApunteEs
    <2>4. EnObra(d)' = EnObra(d) /\ \A p \in Puestos : Atiende(p, d)' = Atiende(p, d)
      BY <2>0 DEF EnObra, Atiende
    <2>5. Quieto(d)' = Quieto(d)
      BY <2>0, <2>2, <2>3 DEF Quieto
    <2>6. \A p \in Puestos : EnFase(p, d) => EnFase(p, d)'
      <3> SUFFICES ASSUME NEW p \in Puestos, EnFase(p, d)  PROVE EnFase(p, d)'  OBVIOUS
      <3>1. /\ tareas'[p] = tareas[p] /\ \A v : apunte'[v] = apunte[v]
            /\ \A rs : SaldoY(tareas[p], rs)' = SaldoY(tareas[p], rs)
        BY <2>0 DEF SaldoY
      <3> QED  BY <2>2, <2>3, <3>1 DEF EnFase, SaldoY
    <2> QED  BY <2>0, <2>1, <2>4, <2>5, <2>6 DEF DocumentoEnOrden
  <1>3. CASE Next
    <2>1. PICK p \in Puestos : Usuario(p) \/ Sentencia(p) \/ Falla(p)  BY <1>3 DEF Next
    <2> QED  BY <1>1, <2>1, DocumentalUsuario, DocumentalSentencia
  <1> QED  BY <1>2, <1>3

\* A document nobody saves is in no phase of a save.
LEMMA DocumentalBasta ==
  ASSUME Tipos, Documental
  PROVE  UnApuntePorDocumento
  <1> SUFFICES ASSUME NEW d \in Documentos \ sospechoso, ~EnObra(d)  PROVE Quieto(d)
    BY DEF UnApuntePorDocumento, Quieto
  <1>1. DocumentoEnOrden(d)  BY DEF Documental
  <1>2. \A p \in Puestos : ~Atiende(p, d)  BY DEF EnObra, Atiende
  <1>3. \A p \in Puestos : ~EnFase(p, d)  BY <1>2, EnFaseAtiende DEF Tipos
  <1> QED  BY <1>1, <1>3 DEF DocumentoEnOrden

\* Whatever the order in which invoices and receipts are saved, paid and removed, and
\* whatever fails, a document that is not doubted and that nobody is saving has exactly
\* the entry its APUNTE_ID says, with its amount in its account, or has none
\* (RecFacturaVenta::regenApunte).
THEOREM UnApuntePorDocumentoSiempre == Spec => []UnApuntePorDocumento
  <1>1. Init => Tipos /\ Documental
    <2>1. Init => Documental
      BY DEF Init, Documental, DocumentoEnOrden, EnObra, Quieto, Suyos, SinApunte
    <2> QED  BY <2>1, InicioBien
  <1>2. Tipos /\ Documental /\ [Next]_vars => Tipos' /\ Documental'
    BY TiposPaso, DocumentalPaso
  <1>3. Tipos /\ Documental => UnApuntePorDocumento  BY DocumentalBasta
  <1> QED  BY <1>1, <1>2, <1>3, PTL DEF Spec

\* No step forgets a document, gives an id again, takes an entry to another document, or
\* changes an entry that a document made, except to remove it.
THEOREM ConservaSiempre == Spec => [][Conserva]_vars
  <1>1. Init => Tipos  BY InicioBien
  <1>2. Tipos /\ [Next]_vars => Tipos' /\ [Conserva]_vars  BY TiposPaso
  <1> QED  BY <1>1, <1>2, PTL DEF Spec

===============================================================================
