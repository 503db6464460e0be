---------------------------- MODULE Documentos_proofs ----------------------------
(***************************************************************************)
(* That the stock of an article is what the documents stored say, and that *)
(* a delivery note is marked as invoiced exactly while one invoice has its *)
(* details, for any number of forms, documents and articles.               *)
(*                                                                         *)
(* Neither is inductive.  A save undoes what its form read and does what   *)
(* the form has now, so one must know that what was read is still what is  *)
(* stored unless another save came in between (LoLeido); that the invoices *)
(* of a note have all its details whether they are still there or not      *)
(* (NotaBien), for a save marks what it puts and unmarks what it takes     *)
(* out; and, of purchases, where a detail taken from a note counts again,  *)
(* that an article not in doubt was never taken from a note (Traidas).     *)
(* What a save does to the documents is said once, for saving and for      *)
(* removing (Graba, Deja, DejaStock), and the sums over the documents that *)
(* it changes in one place are those of Sumas_proofs.                      *)
(*                                                                         *)
(* That the totals of an invoice in the making are of its details, and     *)
(* that the form of a detail changes only that one. Totals are made again  *)
(* with each change of the details, so what has to be known is what leaves *)
(* them as they are: an empty detail more, the numbers, and to save and    *)
(* read again, which skips the empty ones (EscritosIgual, ConVacioIgual,   *)
(* NumeraIgual). A list of which some places are taken is said with what   *)
(* puts those places in order (Elegidos), which is unique (OrderUnique).   *)
(***************************************************************************)
EXTENDS Existencias, LineasFactura, Sumas_proofs, FiniteSetTheorems,
        SequenceTheorems, TLAPS

-------------------------------------------------------------------------------
(* The details that come from some notes.                                    *)

Mayor(S) == CHOOSE n \in S : \A m \in S : n >= m

ConUna(notas, r, l) == IF l.albaran \in notas THEN Append(r, l) ELSE r

\* g[s] are the details ls[n], n \in s, that come from notes.
Recoge(ls, notas, S, g) ==
  g = [s \in SUBSET S |->
        IF s = {} THEN <<>> ELSE ConUna(notas, g[s \ {Mayor(s)}], ls[Mayor(s)])]

LEMMA FiltraIs ==
  ASSUME NEW ls, NEW notas
  PROVE  Filtra(ls, notas) = (CHOOSE g : Recoge(ls, notas, DOMAIN ls, g))[DOMAIN ls]
  BY DEF Filtra, FoldLeft, MapThenFoldSet, Max, Recoge, Mayor, ConUna

\* A finite set of numbers that is not empty has a greatest one.
LEMMA MayorIn ==
  ASSUME NEW S \in SUBSET Nat, IsFiniteSet(S), S # {}
  PROVE  Mayor(S) \in S /\ \A m \in S : Mayor(S) >= m
  <1> DEFINE Arriba(k) == {j \in S : k <= j}
             F == {Arriba(k) : k \in S}
  <1>1. F \in Families(S) /\ F # {}  BY DEF Families
  <1>2. \E X : IsMinimal(X, F)
    <2> HIDE DEF F
    <2> QED  BY <1>1, Minimal
  <1>3. PICK m \in S : \A Y \in F : Y \subseteq Arriba(m) => Y = Arriba(m)  BY <1>2 DEF IsMinimal
  <1>4. ASSUME NEW k \in S  PROVE k <= m
    <2>1. k \in Nat /\ m \in Nat /\ \A j \in S : j \in Nat  OBVIOUS
    <2> SUFFICES ASSUME m < k PROVE FALSE  BY <2>1
    <2>2. \A j \in S : k <= j => m <= j  BY <2>1
    <2>3. Arriba(k) \subseteq Arriba(m)  BY <2>2
    <2>4. m \in Arriba(m) /\ m \notin Arriba(k)  BY <2>1
    <2>5. Arriba(k) \in F  OBVIOUS
    <2> QED  BY <1>3, <2>3, <2>4, <2>5
  <1>5. \A k \in S : k \in Nat /\ m >= k  BY <1>4
  <1> QED  BY <1>5 DEF Mayor

LEMMA RecogeAt ==
  ASSUME NEW ls, NEW notas, NEW S, NEW g, NEW s, Recoge(ls, notas, S, g), s \subseteq S
  PROVE  /\ s = {} => g[s] = <<>>
         /\ s # {} => g[s] = ConUna(notas, g[s \ {Mayor(s)}], ls[Mayor(s)])
  BY DEF Recoge

\* Two such functions agree on the sets both are defined for.
LEMMA RecogeUnique ==
  ASSUME NEW ls, NEW notas, NEW S, NEW g, Recoge(ls, notas, S, g),
         NEW T, NEW h, Recoge(ls, notas, T, h),
         NEW U, U \subseteq S, U \subseteq T, IsFiniteSet(U), U \in SUBSET Nat
  PROVE  g[U] = h[U]
  <1> DEFINE F == {V \in SUBSET U : g[V] # h[V]}
  <1> SUFFICES ASSUME F # {} PROVE FALSE  OBVIOUS
  <1>1. F \in Families(U)  BY DEF Families
  <1>2. PICK X : IsMinimal(X, F)
    <2> HIDE DEF F
    <2> QED  BY <1>1, Minimal
  <1>3. X \subseteq U /\ g[X] # h[X]  BY <1>2 DEF IsMinimal
  <1>0. /\ X = {} => g[X] = <<>>
        /\ X # {} => g[X] = ConUna(notas, g[X \ {Mayor(X)}], ls[Mayor(X)])
    <2>1. X \subseteq S  BY <1>3
    <2> HIDE DEF F
    <2> QED  BY <2>1 DEF Recoge
  <1>9. /\ X = {} => h[X] = <<>>
        /\ X # {} => h[X] = ConUna(notas, h[X \ {Mayor(X)}], ls[Mayor(X)])
    <2>1. X \subseteq T  BY <1>3
    <2> HIDE DEF F
    <2> QED  BY <2>1 DEF Recoge
  <1>4. X # {}  BY <1>0, <1>3, <1>9
  <1> DEFINE Y == X \ {Mayor(X)}
  <1>5. Mayor(X) \in X  BY <1>3, <1>4, MayorIn, FS_Subset
  <1>6. Y \notin F  BY <1>2, <1>5 DEF IsMinimal
  <1>7. g[Y] = h[Y]  BY <1>3, <1>6
  <1>8. g[X] = ConUna(notas, g[Y], ls[Mayor(X)]) /\ h[X] = ConUna(notas, h[Y], ls[Mayor(X)])
    BY <1>0, <1>4, <1>9
  <1> QED  BY <1>3, <1>7, <1>8

\* There is one over the subsets of a finite set of numbers.
LEMMA RecogeExists ==
  ASSUME NEW ls, NEW notas, NEW S \in SUBSET Nat, IsFiniteSet(S)
  PROVE  \E g : Recoge(ls, notas, S, g)
  <1> DEFINE F == {T \in SUBSET S : ~ \E g : Recoge(ls, notas, T, g)}
  <1> SUFFICES ASSUME F # {} PROVE FALSE  OBVIOUS
  <1>1. F \in Families(S)  BY DEF Families
  <1>2. PICK X : IsMinimal(X, F)
    <2> HIDE DEF F
    <2> QED  BY <1>1, Minimal
  <1>3. X \subseteq S /\ IsFiniteSet(X) /\ ~ \E g : Recoge(ls, notas, X, g)
    BY <1>2, FS_Subset DEF IsMinimal
  <1>4. \A Y : Y \subseteq X /\ Y # X => \E g : Recoge(ls, notas, Y, g)
    BY <1>2, <1>3 DEF IsMinimal
  <1> DEFINE Y(s) == s \ {Mayor(s)}
             sub(T) == CHOOSE g : Recoge(ls, notas, T, g)
             mas(s, r) == ConUna(notas, r, ls[Mayor(s)])
             g == [s \in SUBSET X |-> IF s = {} THEN <<>> ELSE mas(s, sub(Y(s))[Y(s)])]
  <1>5. ASSUME NEW s \in SUBSET X, s # {}
        PROVE  g[Y(s)] = sub(Y(s))[Y(s)]
    <2>0. IsFiniteSet(s) /\ s \in SUBSET Nat  BY <1>3, FS_Subset
    <2>1. Mayor(s) \in s  BY <1>5, <2>0, MayorIn
    <2>2. Y(s) \subseteq X /\ Y(s) # X  BY <2>1, Zenon
    <2>3. Recoge(ls, notas, Y(s), sub(Y(s)))  BY <1>4, <2>2
    <2> DEFINE t == Y(s)
    <2> HIDE DEF t
    <2>4. CASE t = {}
      <3>1. sub(t)[t] = <<>>
        <4> HIDE DEF sub
        <4> QED  BY <2>3, <2>4, RecogeAt DEF t
      <3>2. g[t] = <<>>
        <4> HIDE DEF sub, mas
        <4> QED  BY <2>4
      <3> QED  BY <3>1, <3>2 DEF t
    <2>5. CASE t # {}
      <3>0. IsFiniteSet(t) /\ t \in SUBSET Nat /\ t \subseteq X  BY <2>0, <2>2, <1>3, FS_Subset DEF t
      <3>1. Mayor(t) \in t  BY <2>5, <3>0, MayorIn
      <3>2. Y(t) \subseteq X /\ Y(t) # X /\ Y(t) \subseteq t  BY <3>1, <3>0
      <3>3. Recoge(ls, notas, Y(t), sub(Y(t)))  BY <1>4, <3>2
      <3>4. IsFiniteSet(Y(t)) /\ Y(t) \in SUBSET Nat  BY <3>0, <3>2, FS_Subset
      <3>5. Recoge(ls, notas, t, sub(t))  BY <2>3 DEF t
      <3> DEFINE u == Y(t)
      <3> HIDE DEF u
      <3>6. sub(t)[u] = sub(u)[u]
        <4> HIDE DEF sub
        <4> QED  BY <3>2, <3>3, <3>4, <3>5, RecogeUnique DEF u
      <3>7. sub(t)[t] = mas(t, sub(t)[u])
        <4> HIDE DEF sub
        <4>1. t \subseteq t  OBVIOUS
        <4> HIDE DEF sub, mas
        <4>2. sub(t)[t] = ConUna(notas, sub(t)[t \ {Mayor(t)}], ls[Mayor(t)])
          BY <2>5, <3>5, <4>1 DEF Recoge
        <4> QED  BY <4>2 DEF u, mas
      <3>8. g[t] = mas(t, sub(u)[u])
        <4> HIDE DEF sub, mas
        <4> QED  BY <2>5, <3>0 DEF u
      <3> QED  BY <3>6, <3>7, <3>8 DEF t
    <2> QED  BY <2>4, <2>5
  <1>6. Recoge(ls, notas, X, g)
    <2>1. g = [s \in SUBSET X |-> IF s = {} THEN <<>> ELSE mas(s, g[s \ {Mayor(s)}])]
      <3> HIDE DEF sub, mas
      <3> QED  BY <1>5
    <2> HIDE DEF g
    <2> QED  BY <2>1 DEF Recoge
  <1> QED  BY <1>3, <1>6

Elementos(s) == {s[n] : n \in DOMAIN s}

\* Filtra returns a sequence of details of the list, and has every one that comes from
\* the notes.
LEMMA FiltraOk ==
  ASSUME NEW D, NEW ls \in Seq(D), NEW notas
  PROVE  /\ Filtra(ls, notas) \in Seq(D)
         /\ Elementos(Filtra(ls, notas)) = {l \in Elementos(ls) : l.albaran \in notas}
  <1>0. DOMAIN ls = 1 .. Len(ls) /\ Len(ls) \in Nat /\ \A n \in DOMAIN ls : ls[n] \in D  OBVIOUS
  <1>1. IsFiniteSet(DOMAIN ls) /\ DOMAIN ls \in SUBSET Nat
    <2>1. IsFiniteSet(1 .. Len(ls))  BY <1>0, FS_Interval
    <2> QED  BY <1>0, <2>1
  <1> DEFINE S == DOMAIN ls
             g == CHOOSE g : Recoge(ls, notas, S, g)
  <1>2. Recoge(ls, notas, S, g)  BY <1>1, RecogeExists
  <1>3. Filtra(ls, notas) = g[S]  BY FiltraIs
  <1> HIDE DEF g, S
  <1> DEFINE Los(s) == {l \in {ls[n] : n \in s} : l.albaran \in notas}
             Ok(s) == g[s] \in Seq(D) /\ Elementos(g[s]) = Los(s)
             F == {s \in SUBSET S : ~Ok(s)}
  <1>4. F = {}
    <2> SUFFICES ASSUME F # {} PROVE FALSE  OBVIOUS
    <2>1. F \in Families(S)  BY DEF Families
    <2>2. PICK X : IsMinimal(X, F)
      <3> HIDE DEF F
      <3> QED  BY <1>1, <2>1, Minimal DEF S
    <2>3. X \subseteq S /\ ~Ok(X)
      <3> HIDE DEF Ok
      <3> QED  BY <2>2 DEF IsMinimal
    <2>4. IsFiniteSet(X) /\ X \in SUBSET Nat  BY <1>1, <2>3, FS_Subset DEF S
    <2>5. CASE X = {}
      <3>1. g[X] = <<>>  BY <1>2, <2>3, <2>5, RecogeAt
      <3> QED  BY <2>3, <2>5, <3>1 DEF Elementos
    <2>6. CASE X # {}
      <3> DEFINE k == Mayor(X)
                 Y == X \ {k}
      <3>1. k \in X  BY <2>4, <2>6, MayorIn
      <3>2. Ok(Y)
        <4>1. Y \in SUBSET X /\ Y # X /\ Y \in SUBSET S  BY <2>3, <3>1
        <4> HIDE DEF Y, Ok
        <4> QED  BY <2>2, <4>1 DEF IsMinimal
      <3>3. g[X] = ConUna(notas, g[Y], ls[k])
        BY <1>2, <2>3, <2>6, RecogeAt
      <3>4. ls[k] \in D /\ X = Y \cup {k}  BY <1>0, <2>3, <3>1 DEF S
      <3>5. {ls[n] : n \in X} = {ls[n] : n \in Y} \cup {ls[k]}  BY <3>4
      <3>6. CASE ls[k].albaran \in notas
        <4>1. g[X] = Append(g[Y], ls[k])  BY <3>3, <3>6 DEF ConUna
        <4>2. Los(X) = Los(Y) \cup {ls[k]}  BY <3>5, <3>6
        <4>3. ASSUME NEW r \in Seq(D), NEW e \in D
              PROVE  Append(r, e) \in Seq(D) /\ Elementos(Append(r, e)) = Elementos(r) \cup {e}
          <5>1. DOMAIN Append(r, e) = DOMAIN r \cup {Len(r) + 1}  OBVIOUS
          <5>2. \A n \in DOMAIN r : Append(r, e)[n] = r[n]  OBVIOUS
          <5>3. Append(r, e)[Len(r) + 1] = e  OBVIOUS
          <5> QED  BY <5>1, <5>2, <5>3 DEF Elementos
        <4>4. Append(g[Y], ls[k]) \in Seq(D)
              /\ Elementos(Append(g[Y], ls[k])) = Elementos(g[Y]) \cup {ls[k]}
          BY <3>2, <3>4, <4>3
        <4> QED  BY <2>3, <3>2, <4>1, <4>2, <4>4
      <3>7. CASE ls[k].albaran \notin notas
        <4>1. g[X] = g[Y]  BY <3>3, <3>7 DEF ConUna
        <4>2. Los(X) = Los(Y)  BY <3>5, <3>7
        <4> QED  BY <2>3, <3>2, <4>1, <4>2
      <3> QED  BY <3>6, <3>7
    <2> QED  BY <2>5, <2>6
  <1>5. Ok(S)
    <2> HIDE DEF Ok
    <2> QED  BY <1>4
  <1> QED  BY <1>3, <1>5 DEF S, Elementos

-------------------------------------------------------------------------------
(* The inductive invariant.                                                  *)

DeFormulario == [id : Papeles, leido : PapelesGuardados, lineas : Seq(Detalles)]

\* What TypeOKExistencias says, but for the stock.
TiposDeDocumentos ==
  /\ compra \in BOOLEAN
  /\ papel \in [Papeles -> PapelesGuardados]
  /\ formulario \in [Formularios -> DeFormulario \cup {Ninguno}]
  /\ dudoso \subseteq Articulos \cup Albaranes
  /\ \A d \in Papeles : Len(papel[d].lineas) <= MaxLineas
  /\ \A d \in Albaranes : TraeDe(papel[d].lineas) = {}
  /\ \A d \in Facturas : ~papel[d].facturado

\* What was never saved has no row and no details.
SinGrabar ==
  \A d \in Papeles : papel[d].grabada = 0 => ~papel[d].hay /\ papel[d].lineas = <<>>

\* What a form has read is what is stored until someone saves it, and no form puts in a
\* note details of another.
LeidoBien(v) ==
  /\ v.id \in Albaranes => TraeDe(v.lineas) = {} /\ TraeDe(v.leido.lineas) = {}
  /\ v.leido.grabada <= papel[v.id].grabada
  /\ ~v.leido.hay => v.leido = SinPapel
  /\ v.leido.hay /\ Vigente(v) => /\ papel[v.id].hay /\ papel[v.id].mueve = v.leido.mueve
                                  /\ papel[v.id].lineas = v.leido.lineas

LoLeido == \A f \in Formularios : Editando(f) => LeidoBien(formulario[f])

Copia(x) == [n \in DOMAIN papel[x].lineas |-> [papel[x].lineas[n] EXCEPT !.albaran = x]]
Tiene(d, x) == x \in TraeDe(papel[d].lineas)

\* The mark of a note and the invoices that have its details, whether they are still
\* there or not.
NotaBien(x) ==
  /\ papel[x].facturado => papel[x].hay
  /\ papel[x].facturado <=> \E d \in Facturas : Tiene(d, x)
  /\ \A d, e \in Facturas : Tiene(d, x) /\ Tiene(e, x) => d = e
  /\ \A d \in Facturas : Tiene(d, x) => papel[d].hay /\ DeAlbaran(papel[d].lineas, x) = Copia(x)

NotasBien == \A x \in Albaranes \ dudoso : NotaBien(x)

IInvExistencias == TiposDeDocumentos /\ SinGrabar /\ LoLeido /\ NotasBien

-------------------------------------------------------------------------------
(* The notes of the details.                                                 *)

LEMMA TraeDeNada == TraeDe(<<>>) = {}
  <1>1. DOMAIN <<>> = {}  OBVIOUS
  <1> QED  BY <1>1 DEF TraeDe

LEMMA TraeDeAlbaranes ==
  ASSUME NEW ls \in Seq(Detalles)
  PROVE  TraeDe(ls) \subseteq Albaranes
  <1>1. \A n \in DOMAIN ls : ls[n] \in Detalles  OBVIOUS
  <1> QED  BY <1>1 DEF TraeDe, Detalles

\* The notes and the articles of a list are those of its details.
LEMMA ElementosUnion ==
  ASSUME NEW r \in Seq(Detalles), NEW s \in Seq(Detalles)
  PROVE  r \o s \in Seq(Detalles) /\ Elementos(r \o s) = Elementos(r) \cup Elementos(s)
  <1> DEFINE t == r \o s
  <1>1. /\ t \in Seq(Detalles) /\ Len(t) = Len(r) + Len(s)
        /\ Len(r) \in Nat /\ Len(s) \in Nat
        /\ DOMAIN r = 1 .. Len(r) /\ DOMAIN s = 1 .. Len(s) /\ DOMAIN t = 1 .. Len(t)
    OBVIOUS
  <1>2. \A n \in 1 .. Len(r) : t[n] = r[n]  OBVIOUS
  <1>3. \A n \in 1 .. Len(s) : t[n + Len(r)] = s[n]  OBVIOUS
  <1> HIDE DEF t
  <1>4. ASSUME NEW n \in DOMAIN t
        PROVE  (\E k \in DOMAIN r : t[n] = r[k]) \/ (\E k \in DOMAIN s : t[n] = s[k])
    <2>1. CASE n <= Len(r)  BY <1>1, <1>2, <2>1
    <2>2. CASE n > Len(r)
      <3>1. n - Len(r) \in 1 .. Len(s) /\ n = (n - Len(r)) + Len(r)  BY <1>1, <2>2
      <3> QED  BY <1>1, <1>3, <3>1
    <2> QED  BY <1>1, <2>1, <2>2
  <1>5. \A k \in DOMAIN r : k \in DOMAIN t /\ t[k] = r[k]  BY <1>1, <1>2
  <1>6. \A k \in DOMAIN s : k + Len(r) \in DOMAIN t /\ t[k + Len(r)] = s[k]  BY <1>1, <1>3
  <1>7. Elementos(t) \subseteq Elementos(r) \cup Elementos(s)  BY <1>4 DEF Elementos
  <1>8. Elementos(r) \subseteq Elementos(t)  BY <1>5 DEF Elementos
  <1>9. Elementos(s) \subseteq Elementos(t)  BY <1>6 DEF Elementos
  <1> QED  BY <1>1, <1>7, <1>8, <1>9 DEF t

LEMMA DeElementos ==
  /\ \A s : TraeDe(s) = {l.albaran : l \in Elementos(s)} \ {Ninguno}
  /\ \A s : Tocados(s) = {b \in Articulos : \E l \in Elementos(s) : Factor[l.articulo][b] # 0}
  BY DEF TraeDe, Tocados, Elementos

LEMMA TraeDeUnion ==
  ASSUME NEW r \in Seq(Detalles), NEW s \in Seq(Detalles)
  PROVE  r \o s \in Seq(Detalles) /\ TraeDe(r \o s) = TraeDe(r) \cup TraeDe(s)
  <1> DEFINE t == r \o s
  <1>1. t \in Seq(Detalles) /\ Elementos(t) = Elementos(r) \cup Elementos(s)  BY ElementosUnion
  <1> HIDE DEF t
  <1>2. TraeDe(t) = TraeDe(r) \cup TraeDe(s)  BY <1>1, DeElementos
  <1> QED  BY <1>1, <1>2 DEF t

LEMMA TocadosUnion ==
  ASSUME NEW r \in Seq(Detalles), NEW s \in Seq(Detalles)
  PROVE  r \o s \in Seq(Detalles) /\ Tocados(r \o s) = Tocados(r) \cup Tocados(s)
  <1> DEFINE t == r \o s
  <1>1. t \in Seq(Detalles) /\ Elementos(t) = Elementos(r) \cup Elementos(s)  BY ElementosUnion
  <1> HIDE DEF t
  <1>2. Tocados(t) = Tocados(r) \cup Tocados(s)  BY <1>1, DeElementos
  <1> QED  BY <1>1, <1>2 DEF t

\* A copy of details, all of them as if from x.
LEMMA CopiaDe ==
  ASSUME NEW ls \in Seq(Detalles), NEW x \in Albaranes \cup {Ninguno}
  PROVE  LET copia == [n \in DOMAIN ls |-> [ls[n] EXCEPT !.albaran = x]]
         IN  copia \in Seq(Detalles) /\ Len(copia) = Len(ls) /\ TraeDe(copia) \subseteq {x} \ {Ninguno}
  <1> DEFINE copia == [n \in DOMAIN ls |-> [ls[n] EXCEPT !.albaran = x]]
  <1>1. DOMAIN ls = 1 .. Len(ls) /\ Len(ls) \in Nat /\ \A n \in DOMAIN ls : ls[n] \in Detalles
    OBVIOUS
  <1>2. \A n \in DOMAIN ls : [ls[n] EXCEPT !.albaran = x] \in Detalles /\ [ls[n] EXCEPT !.albaran = x].albaran = x
    BY <1>1 DEF Detalles
  <1>3. copia \in [1 .. Len(ls) -> Detalles]  BY <1>1, <1>2
  <1>4. copia \in Seq(Detalles) /\ Len(copia) = Len(ls)  BY <1>1, <1>3
  <1>5. \A n \in DOMAIN copia : copia[n].albaran = x  BY <1>2
  <1>6. TraeDe(copia) \subseteq {x} \ {Ninguno}
    <2> HIDE DEF copia
    <2> QED  BY <1>5 DEF TraeDe
  <1> QED  BY <1>4, <1>6

LEMMA TraeDeFiltra ==
  ASSUME NEW ls \in Seq(Detalles), NEW notas
  PROVE  /\ Filtra(ls, notas) \in Seq(Detalles)
         /\ TraeDe(Filtra(ls, notas)) = TraeDe(ls) \cap notas
  <1> DEFINE r == Filtra(ls, notas)
  <1>1. r \in Seq(Detalles) /\ Elementos(r) = {l \in Elementos(ls) : l.albaran \in notas}
    BY FiltraOk
  <1> HIDE DEF r
  <1>3. TraeDe(r) = {l.albaran : l \in Elementos(r)} \ {Ninguno}  BY DeElementos
  <1>4. TraeDe(ls) = {l.albaran : l \in Elementos(ls)} \ {Ninguno}  BY DeElementos
  <1> QED  BY <1>1, <1>3, <1>4 DEF r

LEMMA TraeDeAppend ==
  ASSUME NEW ls \in Seq(Detalles), NEW l \in Detalles, l.albaran = Ninguno
  PROVE  Append(ls, l) \in Seq(Detalles) /\ TraeDe(Append(ls, l)) = TraeDe(ls)
  <1> DEFINE t == Append(ls, l)
  <1>1. t \in Seq(Detalles) /\ DOMAIN t = DOMAIN ls \cup {Len(ls) + 1}  OBVIOUS
  <1>2. (\A n \in DOMAIN ls : t[n] = ls[n]) /\ t[Len(ls) + 1] = l  OBVIOUS
  <1> HIDE DEF t
  <1>3. TraeDe(t) = TraeDe(ls)  BY <1>1, <1>2 DEF TraeDe
  <1> QED  BY <1>1, <1>3 DEF t

LEMMA TraeDeRemove ==
  ASSUME NEW ls \in Seq(Detalles), NEW n \in DOMAIN ls
  PROVE  RemoveAt(ls, n) \in Seq(Detalles) /\ TraeDe(RemoveAt(ls, n)) \subseteq TraeDe(ls)
  <1> DEFINE r == SubSeq(ls, 1, n - 1)
             s == SubSeq(ls, n + 1, Len(ls))
  <1>1. n \in 1 .. Len(ls) /\ Len(ls) \in Nat  OBVIOUS
  <1>2. r \in Seq(Detalles) /\ s \in Seq(Detalles)  BY <1>1, SubSeqProperties
  <1>3. RemoveAt(ls, n) = r \o s  BY DEF RemoveAt
  <1>4. \A k \in DOMAIN r : k \in DOMAIN ls /\ r[k] = ls[k]  BY <1>1, SubSeqProperties
  <1>5. \A k \in DOMAIN s : k + n \in DOMAIN ls /\ s[k] = ls[k + n]
    <2>1. Len(s) = Len(ls) - n  BY <1>1, SubSeqProperties
    <2>2. ASSUME NEW k \in 1 .. Len(ls) - n  PROVE s[k] = ls[k + n]
      <3>1. s[k] = ls[(n + 1) + k - 1] BY <1>1, SubSeqProperties
      <3>2. (n + 1) + k - 1 = k + n  BY <1>1
      <3> QED  BY <3>1, <3>2
    <2>3. DOMAIN s = 1 .. Len(ls) - n  BY <1>1, <2>1
    <2> QED  BY <1>1, <2>2, <2>3
  <1> HIDE DEF r, s
  <1>6. TraeDe(r) \subseteq TraeDe(ls)  BY <1>4 DEF TraeDe
  <1>7. TraeDe(s) \subseteq TraeDe(ls)  BY <1>5 DEF TraeDe
  <1> QED  BY <1>2, <1>3, <1>6, <1>7, TraeDeUnion

-------------------------------------------------------------------------------
(* Editing.                                                                  *)

\* Only a form changes, and what it has is right.
LEMMA EditaBien ==
  ASSUME NEW f \in Formularios, NEW v, IInvExistencias, Quieto, Edita(f, v),
         v = Ninguno \/ (v \in DeFormulario /\ LeidoBien(v))
  PROVE  IInvExistencias'
  <1>1. /\ compra' = compra /\ papel' = papel /\ dudoso' = dudoso
        /\ formulario' = [formulario EXCEPT ![f] = v]
    BY DEF Quieto, Edita
  <1>2. TiposDeDocumentos'
    <2>1. formulario' \in [Formularios -> DeFormulario \cup {Ninguno}]
      BY <1>1 DEF IInvExistencias, TiposDeDocumentos
    <2> QED  BY <1>1, <2>1 DEF IInvExistencias, TiposDeDocumentos, TraeDe
  <1>3. SinGrabar'  BY <1>1 DEF IInvExistencias, SinGrabar
  <1>4. NotasBien'
    <2>1. \A x \in Albaranes \ dudoso : NotaBien(x)  BY DEF IInvExistencias, NotasBien
    <2> QED  BY <1>1, <2>1 DEF NotasBien, NotaBien, Tiene, Copia, DeAlbaran
  <1>5. ASSUME NEW g \in Formularios, Editando(g)'  PROVE LeidoBien(formulario[g])'
    <2>1. CASE g = f
      <3>1. formulario'[g] = v /\ v # Ninguno
        BY <1>1, <1>5, <2>1 DEF IInvExistencias, TiposDeDocumentos, Editando
      <3>2. LeidoBien(v)  BY <3>1
      <3> QED  BY <1>1, <3>1, <3>2 DEF LeidoBien, Vigente
    <2>2. CASE g # f
      <3>1. formulario'[g] = formulario[g]  BY <1>1, <2>2 DEF IInvExistencias, TiposDeDocumentos
      <3>2. LeidoBien(formulario[g])
        BY <1>5, <3>1 DEF IInvExistencias, LoLeido, Editando
      <3> QED  BY <1>1, <3>1, <3>2 DEF LeidoBien, Vigente
    <2> QED  BY <2>1, <2>2
  <1>6. LoLeido'  BY <1>5 DEF LoLeido
  <1> QED  BY <1>2, <1>3, <1>4, <1>6 DEF IInvExistencias

\* A form that only changes its details.
LEMMA LineasBien ==
  ASSUME NEW v \in DeFormulario, NEW ls \in Seq(Detalles), LeidoBien(v),
         v.id \in Albaranes => TraeDe(ls) = {}
  PROVE  [v EXCEPT !.lineas = ls] \in DeFormulario /\ LeidoBien([v EXCEPT !.lineas = ls])
  <1> DEFINE w == [v EXCEPT !.lineas = ls]
  <1>1. w \in DeFormulario /\ w.id = v.id /\ w.leido = v.leido /\ w.lineas = ls  BY DEF DeFormulario
  <1> HIDE DEF w
  <1>2. LeidoBien(w)  BY <1>1 DEF LeidoBien, Vigente
  <1> QED  BY <1>1, <1>2 DEF w

LEMMA SinPapelTipo ==
  /\ SinPapel \in PapelesGuardados /\ SinPapel.lineas = <<>> /\ ~SinPapel.hay
  /\ SinPapel.grabada = 0 /\ TraeDe(SinPapel.lineas) = {}
  <1>1. <<>> \in Seq(Detalles)  OBVIOUS
  <1>2. 0 \in 0 .. MaxGrabadas  BY ExistenciasAssumption
  <1>3. SinPapel.lineas = <<>>  BY DEF SinPapel
  <1> QED  BY <1>1, <1>2, <1>3, TraeDeNada DEF SinPapel, PapelesGuardados

\* A new document with some details.
LEMMA NuevoBien ==
  ASSUME NEW d \in Papeles, NEW ls \in Seq(Detalles), d \in Albaranes => TraeDe(ls) = {},
         IInvExistencias
  PROVE  LET v == [id |-> d, leido |-> SinPapel, lineas |-> ls]
         IN  v \in DeFormulario /\ LeidoBien(v)
  <1> DEFINE v == [id |-> d, leido |-> SinPapel, lineas |-> ls]
  <1>1. v \in DeFormulario /\ v.id = d /\ v.leido = SinPapel /\ v.lineas = ls
    BY SinPapelTipo DEF DeFormulario
  <1>2. papel[d].grabada \in Nat
    BY DEF IInvExistencias, TiposDeDocumentos, PapelesGuardados
  <1> HIDE DEF v
  <1>3. LeidoBien(v)  BY <1>1, <1>2, SinPapelTipo DEF LeidoBien
  <1> QED  BY <1>1, <1>3 DEF v

LEMMA PapelTipo ==
  ASSUME IInvExistencias, NEW d \in Papeles
  PROVE  /\ papel[d] \in PapelesGuardados /\ papel[d].lineas \in Seq(Detalles)
         /\ papel[d].grabada \in 0 .. MaxGrabadas /\ papel[d].grabada \in Nat
         /\ d \in Albaranes => TraeDe(papel[d].lineas) = {}
         /\ TraeDe(papel[d].lineas) \subseteq Albaranes
         /\ papel[d].hay \in BOOLEAN /\ papel[d].facturado \in BOOLEAN /\ papel[d].mueve \in BOOLEAN
         /\ Len(papel[d].lineas) <= MaxLineas
         /\ d \in Facturas => ~papel[d].facturado
  <1>1. papel[d] \in PapelesGuardados  BY DEF IInvExistencias, TiposDeDocumentos
  <1>2. papel[d].lineas \in Seq(Detalles)  BY <1>1 DEF PapelesGuardados
  <1>3. papel[d].grabada \in 0 .. MaxGrabadas /\ papel[d].hay \in BOOLEAN
        /\ papel[d].facturado \in BOOLEAN /\ papel[d].mueve \in BOOLEAN
    BY <1>1 DEF PapelesGuardados
  <1>4. papel[d].grabada \in Nat  BY <1>3
  <1> QED  BY <1>1, <1>2, <1>3, <1>4, TraeDeAlbaranes DEF IInvExistencias, TiposDeDocumentos

LEMMA FormularioTipo ==
  ASSUME IInvExistencias, NEW f \in Formularios, Editando(f)
  PROVE  /\ formulario[f] \in DeFormulario /\ LeidoBien(formulario[f])
         /\ formulario[f].id \in Papeles
         /\ formulario[f].lineas \in Seq(Detalles)
         /\ formulario[f].leido \in PapelesGuardados
         /\ formulario[f].leido.lineas \in Seq(Detalles)
  <1>1. formulario[f] \in DeFormulario /\ LeidoBien(formulario[f])
    BY DEF IInvExistencias, TiposDeDocumentos, LoLeido, Editando
  <1>2. /\ formulario[f].id \in Papeles /\ formulario[f].lineas \in Seq(Detalles)
        /\ formulario[f].leido \in PapelesGuardados
    BY <1>1 DEF DeFormulario
  <1>3. formulario[f].leido.lineas \in Seq(Detalles)  BY <1>2 DEF PapelesGuardados
  <1> QED  BY <1>1, <1>2, <1>3

LEMMA PasoNuevo ==
  ASSUME IInvExistencias, NEW f \in Formularios, NuevoPapel(f)
  PROVE  IInvExistencias'
  <1>1. PICK d \in Papeles : Edita(f, [id |-> d, leido |-> SinPapel, lineas |-> <<>>])
    BY DEF NuevoPapel
  <1> DEFINE v == [id |-> d, leido |-> SinPapel, lineas |-> <<>>]
  <1>2. v \in DeFormulario /\ LeidoBien(v)
    <2>1. <<>> \in Seq(Detalles)  OBVIOUS
    <2> QED  BY <2>1, NuevoBien, TraeDeNada
  <1>3. Quieto /\ Edita(f, v)  BY <1>1 DEF NuevoPapel
  <1> HIDE DEF v
  <1> QED  BY <1>2, <1>3, EditaBien

LEMMA PasoAbre ==
  ASSUME IInvExistencias, NEW f \in Formularios, AbrePapel(f)
  PROVE  IInvExistencias'
  <1>1. PICK d \in Papeles :
          papel[d].hay /\ Edita(f, [id |-> d, leido |-> papel[d], lineas |-> papel[d].lineas])
    BY DEF AbrePapel
  <1> DEFINE v == [id |-> d, leido |-> papel[d], lineas |-> papel[d].lineas]
  <1>2. v \in DeFormulario  BY PapelTipo DEF DeFormulario
  <1>3. LeidoBien(v)
    <2>1. v.id = d /\ v.leido = papel[d] /\ v.lineas = papel[d].lineas  OBVIOUS
    <2>2. papel[d].grabada \in Nat /\ (d \in Albaranes => TraeDe(papel[d].lineas) = {})
      BY PapelTipo
    <2>3. papel[d].grabada <= papel[d].grabada  BY <2>2
    <2> HIDE DEF v
    <2> QED  BY <1>1, <2>1, <2>2, <2>3 DEF LeidoBien
  <1>4. Quieto /\ Edita(f, v)  BY <1>1 DEF AbrePapel
  <1> HIDE DEF v
  <1> QED  BY <1>2, <1>3, <1>4, EditaBien

LEMMA PasoCierra ==
  ASSUME IInvExistencias, NEW f \in Formularios, CierraPapel(f)
  PROVE  IInvExistencias'
  BY EditaBien DEF CierraPapel

\* The steps that change the details of a form.
LEMMA PasoLineas ==
  ASSUME IInvExistencias, NEW f \in Formularios, Editando(f), Quieto,
         NEW ls \in Seq(Detalles), formulario[f].id \in Albaranes => TraeDe(ls) = {},
         Edita(f, [formulario[f] EXCEPT !.lineas = ls])
  PROVE  IInvExistencias'
  <1> DEFINE v == formulario[f]
             w == [v EXCEPT !.lineas = ls]
  <1>1. v \in DeFormulario /\ LeidoBien(v)  BY FormularioTipo
  <1>2. Edita(f, w)  OBVIOUS
  <1>3. w \in DeFormulario /\ LeidoBien(w)
    <2> HIDE DEF v
    <2>1. v.id \in Albaranes => TraeDe(ls) = {}  BY DEF v
    <2> QED  BY <1>1, <2>1, LineasBien
  <1> HIDE DEF w
  <1> QED  BY <1>2, <1>3, EditaBien

LEMMA PasoPonLinea ==
  ASSUME IInvExistencias, NEW f \in Formularios, PonLinea(f)
  PROVE  IInvExistencias'
  <1>1. PICK a \in EnVenta, n \in Cantidades :
          Edita(f, [formulario[f] EXCEPT !.lineas =
                     Append(@, [articulo |-> a, cantidad |-> n, albaran |-> Ninguno])])
    BY DEF PonLinea
  <1> DEFINE l == [articulo |-> a, cantidad |-> n, albaran |-> Ninguno]
             ls == Append(formulario[f].lineas, l)
  <1>2. l \in Detalles /\ l.albaran = Ninguno
    <2>1. a \in Articulos /\ n \in Int  BY ExistenciasAssumption
    <2> QED  BY <2>1 DEF Detalles
  <1>3. Editando(f) /\ Quieto /\ Edita(f, [formulario[f] EXCEPT !.lineas = ls])
    BY <1>1 DEF PonLinea
  <1>4. formulario[f].lineas \in Seq(Detalles) /\ LeidoBien(formulario[f])  BY <1>3, FormularioTipo
  <1> HIDE DEF l
  <1>5. ls \in Seq(Detalles) /\ TraeDe(ls) = TraeDe(formulario[f].lineas)
    BY <1>2, <1>4, TraeDeAppend
  <1>6. formulario[f].id \in Albaranes => TraeDe(ls) = {}  BY <1>4, <1>5 DEF LeidoBien
  <1> HIDE DEF ls
  <1> QED  BY <1>3, <1>5, <1>6, PasoLineas

LEMMA PasoQuitaLinea ==
  ASSUME IInvExistencias, NEW f \in Formularios, QuitaLinea(f)
  PROVE  IInvExistencias'
  <1>1. PICK n \in DOMAIN formulario[f].lineas :
          Edita(f, [formulario[f] EXCEPT !.lineas = RemoveAt(@, n)])
    BY DEF QuitaLinea
  <1> DEFINE ls == RemoveAt(formulario[f].lineas, n)
  <1>3. Editando(f) /\ Quieto /\ Edita(f, [formulario[f] EXCEPT !.lineas = ls])
    BY <1>1 DEF QuitaLinea
  <1>4. formulario[f].lineas \in Seq(Detalles) /\ LeidoBien(formulario[f])  BY <1>3, FormularioTipo
  <1>5. ls \in Seq(Detalles) /\ TraeDe(ls) \subseteq TraeDe(formulario[f].lineas)
    BY <1>1, <1>4, TraeDeRemove
  <1>6. formulario[f].id \in Albaranes => TraeDe(ls) = {}  BY <1>4, <1>5 DEF LeidoBien
  <1> HIDE DEF ls
  <1> QED  BY <1>3, <1>5, <1>6, PasoLineas

LEMMA PasoAnadeAlbaran ==
  ASSUME IInvExistencias, NEW f \in Formularios, AnadeAlbaran(f)
  PROVE  IInvExistencias'
  <1>1. PICK x \in Albaranes : Edita(f, [formulario[f] EXCEPT !.lineas = @ \o Copia(x)])
    BY DEF AnadeAlbaran, Copia
  <1> DEFINE ls == formulario[f].lineas \o Copia(x)
  <1>2. formulario[f].id \notin Albaranes  BY ExistenciasAssumption DEF AnadeAlbaran
  <1>3. Editando(f) /\ Quieto /\ Edita(f, [formulario[f] EXCEPT !.lineas = ls])
    BY <1>1 DEF AnadeAlbaran
  <1>4. formulario[f].lineas \in Seq(Detalles)  BY <1>3, FormularioTipo
  <1>5. papel[x].lineas \in Seq(Detalles)
    <2>1. x \in Papeles  BY DEF Papeles
    <2> QED  BY <2>1, PapelTipo
  <1>6. Copia(x) \in Seq(Detalles)
    <2>1. x \in Albaranes \cup {Ninguno}  OBVIOUS
    <2> QED  BY <1>5, <2>1, CopiaDe DEF Copia
  <1>7. ls \in Seq(Detalles)  BY <1>4, <1>6, TraeDeUnion
  <1> HIDE DEF ls
  <1> QED  BY <1>2, <1>3, <1>7, PasoLineas

LEMMA PasoQuitaAlbaran ==
  ASSUME IInvExistencias, NEW f \in Formularios, QuitaAlbaran(f)
  PROVE  IInvExistencias'
  <1>1. PICK x \in TraeDe(formulario[f].lineas) :
          Edita(f, [formulario[f] EXCEPT !.lineas = SinAlbaran(@, x)])
    BY DEF QuitaAlbaran
  <1> DEFINE ls == SinAlbaran(formulario[f].lineas, x)
  <1>3. Editando(f) /\ Quieto /\ Edita(f, [formulario[f] EXCEPT !.lineas = ls])
    BY <1>1 DEF QuitaAlbaran
  <1>4. formulario[f].lineas \in Seq(Detalles) /\ LeidoBien(formulario[f])  BY <1>3, FormularioTipo
  <1>5. ls \in Seq(Detalles)  BY <1>4, TraeDeFiltra DEF SinAlbaran
  <1>6. formulario[f].id \notin Albaranes  BY <1>1, <1>4 DEF LeidoBien
  <1> HIDE DEF ls
  <1> QED  BY <1>3, <1>5, <1>6, PasoLineas

LEMMA PasoInserta ==
  ASSUME IInvExistencias, NEW f \in Formularios, InsertaDetalles(f)
  PROVE  IInvExistencias'
  <1> DEFINE copia(d) == IF formulario[f].id \in Facturas THEN papel[d].lineas
                         ELSE [n \in DOMAIN papel[d].lineas |->
                                 [papel[d].lineas[n] EXCEPT !.albaran = Ninguno]]
  <1>1. PICK d \in Papeles : Edita(f, [formulario[f] EXCEPT !.lineas = @ \o copia(d)])
    BY DEF InsertaDetalles
  <1> DEFINE c == copia(d)
             ls == formulario[f].lineas \o c
  <1>3. Editando(f) /\ Quieto /\ Edita(f, [formulario[f] EXCEPT !.lineas = ls])
    BY <1>1 DEF InsertaDetalles
  <1>4. formulario[f].lineas \in Seq(Detalles) /\ LeidoBien(formulario[f])  BY <1>3, FormularioTipo
  <1>5. papel[d].lineas \in Seq(Detalles)  BY PapelTipo
  <1>6. c \in Seq(Detalles) /\ (formulario[f].id \in Albaranes => TraeDe(c) = {})
    <2>1. CASE formulario[f].id \in Facturas  BY <1>5, <2>1, ExistenciasAssumption
    <2>2. CASE formulario[f].id \notin Facturas
      <3>1. c = [n \in DOMAIN papel[d].lineas |-> [papel[d].lineas[n] EXCEPT !.albaran = Ninguno]]
        BY <2>2
      <3> HIDE DEF c
      <3> QED  BY <1>5, <3>1, CopiaDe
    <2> QED  BY <2>1, <2>2
  <1> HIDE DEF c
  <1>7. ls \in Seq(Detalles) /\ TraeDe(ls) = TraeDe(formulario[f].lineas) \cup TraeDe(c)
    BY <1>4, <1>6, TraeDeUnion
  <1>8. formulario[f].id \in Albaranes => TraeDe(ls) = {}  BY <1>4, <1>6, <1>7 DEF LeidoBien
  <1> HIDE DEF ls
  <1> QED  BY <1>3, <1>7, <1>8, PasoLineas

LEMMA PasoDuplica ==
  ASSUME IInvExistencias, NEW f \in Formularios, DuplicaPapel(f)
  PROVE  IInvExistencias'
  <1>1. PICK d \in Papeles, e \in Papeles :
          Edita(f, [id |-> e, leido |-> SinPapel, lineas |-> DeAlbaran(papel[d].lineas, Ninguno)])
    BY DEF DuplicaPapel
  <1> DEFINE ls == DeAlbaran(papel[d].lineas, Ninguno)
             v == [id |-> e, leido |-> SinPapel, lineas |-> ls]
  <1>2. papel[d].lineas \in Seq(Detalles)  BY PapelTipo
  <1>3. ls \in Seq(Detalles) /\ TraeDe(ls) = TraeDe(papel[d].lineas) \cap {Ninguno}
    BY <1>2, TraeDeFiltra DEF DeAlbaran
  <1>4. TraeDe(ls) = {}  BY <1>3 DEF TraeDe
  <1>5. Quieto /\ Edita(f, v)  BY <1>1 DEF DuplicaPapel
  <1> HIDE DEF ls
  <1>6. v \in DeFormulario /\ LeidoBien(v)  BY <1>3, <1>4, NuevoBien
  <1> HIDE DEF v
  <1> QED  BY <1>5, <1>6, EditaBien

LEMMA PasoCopia ==
  ASSUME IInvExistencias, NEW f \in Formularios, CopiaPapel(f)
  PROVE  IInvExistencias'
  <1>1. PICK d \in Papeles, e \in Papeles :
          /\ d \in Albaranes <=> e \in Albaranes
          /\ Edita(f, [id |-> e, leido |-> SinPapel, lineas |-> papel[d].lineas])
    BY DEF CopiaPapel
  <1> DEFINE ls == papel[d].lineas
             v == [id |-> e, leido |-> SinPapel, lineas |-> ls]
  <1>2. ls \in Seq(Detalles) /\ (e \in Albaranes => TraeDe(ls) = {})  BY <1>1, PapelTipo
  <1>5. Quieto /\ Edita(f, v)  BY <1>1 DEF CopiaPapel
  <1> HIDE DEF ls
  <1>6. v \in DeFormulario /\ LeidoBien(v)  BY <1>2, NuevoBien
  <1> HIDE DEF v
  <1> QED  BY <1>5, <1>6, EditaBien

-------------------------------------------------------------------------------
(* Saving and removing.                                                      *)

\* Only the marks of the notes that come or go change.
LEMMA FacturadosBien ==
  ASSUME IInvExistencias, NEW q \in Seq(Detalles), NEW r \in Seq(Detalles), NEW d \in Papeles
  PROVE  LET m == Facturados(q, r)[d]
         IN  /\ m \in PapelesGuardados
             /\ m.hay = papel[d].hay /\ m.mueve = papel[d].mueve
             /\ m.lineas = papel[d].lineas /\ m.grabada = papel[d].grabada
             /\ d \in TraeDe(r) => m.facturado
             /\ d \in TraeDe(q) /\ d \notin TraeDe(r) => ~m.facturado
             /\ d \notin TraeDe(q) /\ d \notin TraeDe(r) => m = papel[d]
             /\ d \in Facturas => m = papel[d]
  <1> DEFINE p == papel[d]
             m == Facturados(q, r)[d]
  <1>1. p \in PapelesGuardados  BY PapelTipo
  <1>2. m = IF d \in TraeDe(r) THEN [p EXCEPT !.facturado = TRUE]
            ELSE IF d \in TraeDe(q) THEN [p EXCEPT !.facturado = FALSE] ELSE p
    BY DEF Facturados
  <1>3. d \in Facturas => d \notin TraeDe(r) /\ d \notin TraeDe(q)
    BY TraeDeAlbaranes, ExistenciasAssumption
  <1> HIDE DEF p, m
  <1>4. /\ [p EXCEPT !.facturado = TRUE] \in PapelesGuardados
        /\ [p EXCEPT !.facturado = FALSE] \in PapelesGuardados
        /\ \A b \in BOOLEAN :
             LET t == [p EXCEPT !.facturado = b]
             IN  t.hay = p.hay /\ t.mueve = p.mueve /\ t.lineas = p.lineas
                 /\ t.grabada = p.grabada /\ t.facturado = b
    BY <1>1 DEF PapelesGuardados
  <1>5. CASE d \in TraeDe(r)
    <2>1. m = [p EXCEPT !.facturado = TRUE]  BY <1>2, <1>5
    <2> QED  BY <1>3, <1>4, <1>5, <2>1 DEF p, m
  <1>6. CASE d \notin TraeDe(r) /\ d \in TraeDe(q)
    <2>1. m = [p EXCEPT !.facturado = FALSE]  BY <1>2, <1>6
    <2> QED  BY <1>3, <1>4, <1>6, <2>1 DEF p, m
  <1>7. CASE d \notin TraeDe(r) /\ d \notin TraeDe(q)
    <2>1. m = p  BY <1>2, <1>7
    <2> QED  BY <1>1, <1>7, <2>1 DEF p, m
  <1> QED  BY <1>5, <1>6, <1>7

\* What a form leaves of its document, with the details ls, and the surprises there were.
Deja(v, ls, n) ==
  /\ n \in PapelesGuardados /\ Len(n.lineas) <= MaxLineas
  /\ n.facturado = Facturados(Originales(v), ls)[v.id].facturado
  /\ n.grabada = papel[v.id].grabada + 1
  /\ Vigente(v) => n.lineas = ls /\ (ls # <<>> => n.hay)
  /\ TraeDe(n.lineas) \subseteq TraeDe(ls) \cup TraeDe(papel[v.id].lineas)
  /\ v.id \in Albaranes => TraeDe(ls) = {}

Avisa(v, ls) ==
  /\ ~Vigente(v) => /\ TraeDe(Originales(v)) \subseteq dudoso'
                    /\ TraeDe(ls) \subseteq dudoso'
                    /\ TraeDe(papel[v.id].lineas) \subseteq dudoso'
                    /\ v.id \in Albaranes => v.id \in dudoso'
  /\ papel[v.id].facturado => v.id \in dudoso'
  /\ \A x \in TraeDe(ls) \ dudoso' :
       /\ papel[x].hay
       /\ papel[x].facturado => x \in TraeDe(Originales(v))
       /\ DeAlbaran(ls, x) = Copia(x)

Graba(f, ls, n) ==
  /\ papel' = [Facturados(Originales(formulario[f]), ls) EXCEPT ![formulario[f].id] = n]
  /\ formulario' = [formulario EXCEPT ![f] = Ninguno]
  /\ compra' = compra
  /\ dudoso \subseteq dudoso' /\ dudoso' \subseteq Articulos \cup Albaranes

\* The documents after a save.
LEMMA PapelesDespues ==
  ASSUME IInvExistencias, NEW f \in Formularios, Editando(f), NEW ls \in Seq(Detalles), NEW n,
         Graba(f, ls, n), Deja(formulario[f], ls, n)
  PROVE  /\ papel' \in [Papeles -> PapelesGuardados]
         /\ papel'[formulario[f].id] = n
         /\ \A d \in Papeles : d # formulario[f].id =>
              papel'[d] = Facturados(Originales(formulario[f]), ls)[d]
         /\ \A d \in Papeles : d # formulario[f].id =>
              /\ papel'[d].hay = papel[d].hay /\ papel'[d].mueve = papel[d].mueve
              /\ papel'[d].lineas = papel[d].lineas
              /\ papel'[d].grabada = papel[d].grabada
              /\ d \in Facturas => papel'[d] = papel[d]
  <1> DEFINE v == formulario[f]
             q == Originales(v)
             m == Facturados(q, ls)
  <1>1. v.id \in Papeles /\ q \in Seq(Detalles)  BY FormularioTipo DEF Originales
  <1>2. papel' = [m EXCEPT ![v.id] = n]  BY DEF Graba
  <1>3. \A d \in Papeles : m[d] \in PapelesGuardados
    <2> HIDE DEF v, q
    <2> QED  BY <1>1, FacturadosBien
  <1>4. m = [d \in Papeles |-> m[d]]  BY DEF Facturados
  <1>5. n \in PapelesGuardados  BY DEF Deja
  <1>6. \A d \in Papeles :
           /\ m[d].hay = papel[d].hay /\ m[d].lineas = papel[d].lineas
           /\ m[d].mueve = papel[d].mueve
           /\ m[d].grabada = papel[d].grabada /\ (d \in Facturas => m[d] = papel[d])
    <2> HIDE DEF v, q
    <2> QED  BY <1>1, FacturadosBien
  <1> HIDE DEF m
  <1>7. papel' \in [Papeles -> PapelesGuardados] /\ papel'[v.id] = n
        /\ \A d \in Papeles : d # v.id => papel'[d] = m[d]
    BY <1>1, <1>2, <1>3, <1>4, <1>5
  <1> QED  BY <1>6, <1>7 DEF m

LEMMA GrabaTipos ==
  ASSUME IInvExistencias, NEW f \in Formularios, Editando(f), NEW ls \in Seq(Detalles), NEW n,
         Graba(f, ls, n), Deja(formulario[f], ls, n), Avisa(formulario[f], ls)
  PROVE  TiposDeDocumentos' /\ SinGrabar' /\ LoLeido'
  <1> DEFINE v == formulario[f]
  <1>1. v \in DeFormulario /\ LeidoBien(v) /\ v.id \in Papeles  BY FormularioTipo
  <1>2. /\ papel' \in [Papeles -> PapelesGuardados]
        /\ papel'[v.id] = n
        /\ \A d \in Papeles : d # v.id =>
              /\ papel'[d].hay = papel[d].hay /\ papel'[d].mueve = papel[d].mueve
              /\ papel'[d].lineas = papel[d].lineas
              /\ papel'[d].grabada = papel[d].grabada
              /\ d \in Facturas => papel'[d] = papel[d]
    BY PapelesDespues
  <1>3. /\ n.grabada = papel[v.id].grabada + 1 /\ Len(n.lineas) <= MaxLineas
        /\ TraeDe(n.lineas) \subseteq TraeDe(ls) \cup TraeDe(papel[v.id].lineas)
        /\ v.id \in Albaranes => TraeDe(ls) = {}
        /\ n.facturado = Facturados(Originales(v), ls)[v.id].facturado
    BY DEF Deja
  <1>4. formulario' = [formulario EXCEPT ![f] = Ninguno] /\ compra' = compra
        /\ dudoso' \subseteq Articulos \cup Albaranes
    BY DEF Graba
  <1>5. \A d \in Papeles : papel[d].grabada \in Nat  BY PapelTipo
  <1>6. TiposDeDocumentos'
    <2>1. formulario' \in [Formularios -> DeFormulario \cup {Ninguno}]
      BY <1>4 DEF IInvExistencias, TiposDeDocumentos
    <2>2. \A d \in Papeles : Len(papel'[d].lineas) <= MaxLineas  BY <1>2, <1>3, PapelTipo
    <2>3. \A d \in Albaranes : TraeDe(papel'[d].lineas) = {}
      <3> SUFFICES ASSUME NEW d \in Albaranes PROVE TraeDe(papel'[d].lineas) = {}  OBVIOUS
      <3>1. d \in Papeles  BY DEF Papeles
      <3>2. TraeDe(papel[d].lineas) = {}  BY <3>1, PapelTipo
      <3> QED  BY <1>2, <1>3, <3>1, <3>2
    <2>4. \A d \in Facturas : ~papel'[d].facturado
      <3> SUFFICES ASSUME NEW d \in Facturas PROVE ~papel'[d].facturado  OBVIOUS
      <3>1. d \in Papeles  BY DEF Papeles
      <3>2. ~papel[d].facturado  BY <3>1, PapelTipo
      <3>3. d = v.id => ~n.facturado
        <4>1. Originales(v) \in Seq(Detalles)  BY FormularioTipo DEF Originales
        <4>2. Facturados(Originales(v), ls)[d] = papel[d]
          <5> HIDE DEF v
          <5> QED  BY <3>1, <4>1, FacturadosBien
        <4> QED  BY <1>3, <3>2, <4>2
      <3> QED  BY <1>2, <3>1, <3>2, <3>3
    <2>5. \A r : TraeDe(r)' = TraeDe(r')  BY DEF TraeDe
    <2>6. \A d \in Albaranes : TraeDe(papel[d].lineas)' = {}  BY <2>3 DEF TraeDe
    <2> QED
      BY <1>2, <1>4, <2>1, <2>2, <2>4, <2>6 DEF IInvExistencias, TiposDeDocumentos
  <1>7. SinGrabar'
    <2> SUFFICES ASSUME NEW d \in Papeles, papel'[d].grabada = 0
                 PROVE  ~papel'[d].hay /\ papel'[d].lineas = <<>>
      BY DEF SinGrabar
    <2>1. d # v.id  BY <1>1, <1>2, <1>3, <1>5
    <2> QED  BY <1>2, <2>1 DEF IInvExistencias, SinGrabar
  <1>8. ASSUME NEW g \in Formularios, Editando(g)'  PROVE LeidoBien(formulario[g])'
    <2>1. g # f /\ formulario'[g] = formulario[g] /\ Editando(g)
      BY <1>4, <1>8 DEF IInvExistencias, TiposDeDocumentos, Editando
    <2> DEFINE w == formulario[g]
    <2>2. LeidoBien(w) /\ w.id \in Papeles /\ w.leido.grabada \in Nat
      <3>1. LeidoBien(w) /\ w.id \in Papeles /\ w.leido \in PapelesGuardados  BY <2>1, FormularioTipo
      <3> QED  BY <3>1 DEF PapelesGuardados
    <2>3. formulario'[g] = w  BY <2>1
    <2> HIDE DEF w
    <2>4. \A r : TraeDe(r) = {r[k].albaran : k \in DOMAIN r} \ {Ninguno}  BY DEF TraeDe
    <2>5. CASE w.id # v.id
      <3>1. papel'[w.id].hay = papel[w.id].hay /\ papel'[w.id].lineas = papel[w.id].lineas
            /\ papel'[w.id].mueve = papel[w.id].mueve
            /\ papel'[w.id].grabada = papel[w.id].grabada
        BY <1>2, <2>2, <2>5
      <3>2. /\ w.id \in Albaranes => TraeDe(w.lineas) = {} /\ TraeDe(w.leido.lineas) = {}
            /\ w.leido.grabada <= papel'[w.id].grabada
            /\ ~w.leido.hay => w.leido = SinPapel
            /\ w.leido.hay /\ papel'[w.id].grabada = w.leido.grabada =>
                 /\ papel'[w.id].hay /\ papel'[w.id].mueve = w.leido.mueve
                 /\ papel'[w.id].lineas = w.leido.lineas
        BY <2>2, <3>1 DEF LeidoBien, Vigente
      <3> QED  BY <2>3, <3>2 DEF LeidoBien, Vigente, TraeDe
    <2>6. CASE w.id = v.id
      <3>1. papel'[w.id].grabada = papel[w.id].grabada + 1  BY <1>2, <1>3, <2>6
      <3>2. w.leido.grabada <= papel[w.id].grabada  BY <2>2 DEF LeidoBien
      <3>3. w.leido.grabada <= papel'[w.id].grabada /\ w.leido.grabada # papel'[w.id].grabada
        BY <1>5, <2>2, <3>1, <3>2
      <3> QED  BY <2>2, <2>3, <3>3 DEF LeidoBien, Vigente, TraeDe
    <2> QED  BY <2>5, <2>6
  <1>9. LoLeido'  BY <1>8 DEF LoLeido
  <1> QED  BY <1>6, <1>7, <1>9

\* What the note x has after the save of another document.
LEMMA NotaDespues ==
  ASSUME IInvExistencias, NEW f \in Formularios, Editando(f), NEW ls \in Seq(Detalles), NEW n,
         Graba(f, ls, n), Deja(formulario[f], ls, n), NEW x \in Albaranes, x # formulario[f].id
  PROVE  /\ papel'[x].hay = papel[x].hay /\ papel'[x].lineas = papel[x].lineas
         /\ x \in TraeDe(ls) => papel'[x].facturado
         /\ x \in TraeDe(Originales(formulario[f])) /\ x \notin TraeDe(ls) => ~papel'[x].facturado
         /\ x \notin TraeDe(Originales(formulario[f])) /\ x \notin TraeDe(ls) =>
              papel'[x] = papel[x]
  <1> DEFINE q == Originales(formulario[f])
  <1>1. x \in Papeles  BY DEF Papeles
  <1>2. q \in Seq(Detalles)  BY FormularioTipo DEF Originales
  <1>3. papel'[x] = Facturados(q, ls)[x]  BY <1>1, PapelesDespues
  <1> HIDE DEF q
  <1>4. LET m == Facturados(q, ls)[x]
        IN  /\ m.hay = papel[x].hay /\ m.lineas = papel[x].lineas
            /\ x \in TraeDe(ls) => m.facturado
            /\ x \in TraeDe(q) /\ x \notin TraeDe(ls) => ~m.facturado
            /\ x \notin TraeDe(q) /\ x \notin TraeDe(ls) => m = papel[x]
    BY <1>1, <1>2, FacturadosBien
  <1> QED  BY <1>3, <1>4 DEF q

LEMMA GrabaNotas ==
  ASSUME IInvExistencias, NEW f \in Formularios, Editando(f), NEW ls \in Seq(Detalles), NEW n,
         Graba(f, ls, n), Deja(formulario[f], ls, n), Avisa(formulario[f], ls)
  PROVE  NotasBien'
  <1> DEFINE v == formulario[f]
             d == v.id
             q == Originales(v)
  <1>1. LeidoBien(v) /\ d \in Papeles /\ q = v.leido.lineas  BY FormularioTipo DEF Originales
  <1>2. papel'[d] = n /\ \A e \in Facturas : e # d => papel'[e] = papel[e]
    BY PapelesDespues DEF Papeles
  <1> SUFFICES ASSUME NEW x \in Albaranes \ dudoso'  PROVE NotaBien(x)'
    BY DEF NotasBien
  <1>3. x \notin dudoso /\ NotaBien(x)  BY DEF Graba, IInvExistencias, NotasBien
  <1>4. x \notin Facturas  BY ExistenciasAssumption
  <1> DEFINE Trae(e) == x \in TraeDe(papel'[e].lineas)
             copia == [k \in DOMAIN papel'[x].lineas |-> [papel'[x].lineas[k] EXCEPT !.albaran = x]]
  <1>6. \A e \in Facturas : e # d => (Trae(e) <=> Tiene(e, x))  BY <1>2 DEF Tiene
  <1>9. /\ papel[x].facturado => papel[x].hay
        /\ papel[x].facturado <=> \E e \in Facturas : Tiene(e, x)
        /\ \A e, g \in Facturas : Tiene(e, x) /\ Tiene(g, x) => e = g
        /\ \A e \in Facturas : Tiene(e, x) => papel[e].hay /\ DeAlbaran(papel[e].lineas, x) = Copia(x)
    BY <1>3 DEF NotaBien
  <1>10. SUFFICES /\ papel'[x].facturado => papel'[x].hay
                  /\ papel'[x].facturado <=> \E e \in Facturas : Trae(e)
                  /\ \A e, g \in Facturas : Trae(e) /\ Trae(g) => e = g
                  /\ \A e \in Facturas : Trae(e) =>
                       papel'[e].hay /\ DeAlbaran(papel'[e].lineas, x) = copia
    <2>1. \A e : DeAlbaran(papel[e].lineas, x)' = DeAlbaran(papel'[e].lineas, x)
      OBVIOUS
    <2>2. \A e : Tiene(e, x)' <=> Trae(e)  BY DEF Tiene, TraeDe
    <2>3. Copia(x)' = copia  BY DEF Copia
    <2> HIDE DEF Trae, copia
    <2> QED  BY <2>1, <2>2, <2>3 DEF NotaBien
  <1>11. /\ ~Vigente(v) => x \notin TraeDe(q) /\ x \notin TraeDe(ls) /\ x \notin TraeDe(papel[d].lineas)
                           /\ x # d
         /\ papel[d].facturado => x # d
         /\ x \in TraeDe(ls) => /\ papel[x].hay
                                /\ papel[x].facturado => x \in TraeDe(q)
                                /\ DeAlbaran(ls, x) = Copia(x)
    BY DEF Avisa
  <1>12. /\ TraeDe(n.lineas) \subseteq TraeDe(ls) \cup TraeDe(papel[d].lineas)
         /\ Vigente(v) => n.lineas = ls /\ (ls # <<>> => n.hay)
         /\ d \in Albaranes => TraeDe(ls) = {}
         /\ n.facturado = Facturados(q, ls)[d].facturado
    BY DEF Deja
  <1>13. d \in Albaranes => TraeDe(q) = {}  BY <1>1 DEF LeidoBien
  \* The note itself is saved: no invoice had it, and it is not marked.
  <1>14. CASE x = d
    <2>1. ~papel[x].facturado /\ \A e \in Facturas : ~Tiene(e, x)  BY <1>9, <1>11, <1>14
    <2>2. \A e \in Facturas : ~Trae(e)  BY <1>4, <1>6, <1>14, <2>1
    <2>3. ~papel'[x].facturado
      <3>1. q \in Seq(Detalles) /\ x \in Papeles  BY <1>1, <1>14, FormularioTipo DEF Originales
      <3>2. x \notin TraeDe(q) /\ x \notin TraeDe(ls)  BY <1>12, <1>13, <1>14
      <3> HIDE DEF q
      <3>3. Facturados(q, ls)[x] = papel[x]  BY <3>1, <3>2, FacturadosBien
      <3> QED  BY <1>2, <1>12, <1>14, <2>1, <3>3
    <2> QED  BY <2>2, <2>3
  <1>15. CASE x # d
    <2>1. /\ papel'[x].hay = papel[x].hay /\ papel'[x].lineas = papel[x].lineas
          /\ x \in TraeDe(ls) => papel'[x].facturado
          /\ x \in TraeDe(q) /\ x \notin TraeDe(ls) => ~papel'[x].facturado
          /\ x \notin TraeDe(q) /\ x \notin TraeDe(ls) => papel'[x] = papel[x]
      BY <1>15, NotaDespues
    <2>2. copia = Copia(x)  BY <2>1 DEF Copia
    \* Another note is saved.
    <2>3. CASE d \notin Facturas
      <3>1. d \in Albaranes  BY <1>1, <2>3 DEF Papeles
      <3>2. papel'[x] = papel[x]  BY <1>12, <1>13, <2>1, <3>1
      <3>3. \A e \in Facturas : papel'[e] = papel[e] /\ (Trae(e) <=> Tiene(e, x))
        BY <1>2, <1>6, <2>3
      <3> HIDE DEF q, d, v, Trae, copia
      <3> QED  BY <1>9, <2>2, <3>2, <3>3
    <2>4. CASE d \in Facturas /\ ~Vigente(v)
      <3>1. ~Tiene(d, x) /\ ~Trae(d)  BY <1>2, <1>11, <1>12, <2>4 DEF Tiene
      <3>2. papel'[x] = papel[x]  BY <1>11, <2>1, <2>4
      <3>3. \A e \in Facturas : Trae(e) <=> Tiene(e, x)  BY <1>6, <3>1
      <3> HIDE DEF q, d, v, Trae, copia
      <3> QED  BY <1>2, <1>9, <2>2, <3>1, <3>2, <3>3
    <2>5. CASE d \in Facturas /\ Vigente(v)
      <3>1. Tiene(d, x) <=> x \in TraeDe(q)
        <4>1. CASE v.leido.hay  BY <1>1, <2>5, <4>1 DEF LeidoBien, Tiene
        <4>2. CASE ~v.leido.hay
          <5>1. v.leido = SinPapel  BY <1>1, <4>2 DEF LeidoBien
          <5>2. papel[d].grabada = 0 /\ q = <<>>  BY <1>1, <2>5, <5>1, SinPapelTipo DEF Vigente
          <5>3. papel[d].lineas = <<>>  BY <1>1, <5>2 DEF IInvExistencias, SinGrabar
          <5> QED  BY <5>2, <5>3 DEF Tiene
        <4> QED  BY <4>1, <4>2
      <3>2. Trae(d) <=> x \in TraeDe(ls)  BY <1>2, <1>12, <2>5
      <3>3. papel'[d].lineas = ls /\ (x \in TraeDe(ls) => papel'[d].hay)
        <4>1. x \in TraeDe(ls) => ls # <<>>  BY TraeDeNada
        <4> QED  BY <1>2, <1>12, <2>5, <4>1
      <3>4. CASE x \in TraeDe(ls)
        <4>1. papel[x].hay /\ DeAlbaran(ls, x) = Copia(x)
              /\ (papel[x].facturado => Tiene(d, x))
          BY <1>11, <3>1, <3>4
        <4>2. \A e \in Facturas : e # d => ~Tiene(e, x)  BY <1>9, <2>5, <4>1
        <4>3. \A e \in Facturas : Trae(e) <=> e = d  BY <1>6, <3>2, <3>4, <4>2
        <4>4. papel'[x].facturado /\ papel'[x].hay  BY <2>1, <3>4, <4>1
        <4>5. papel'[d].hay /\ DeAlbaran(papel'[d].lineas, x) = copia
          BY <2>2, <3>3, <3>4, <4>1
        <4> HIDE DEF q, d, v, Trae, copia
        <4> QED  BY <2>5, <4>3, <4>4, <4>5
      <3>5. CASE x \notin TraeDe(ls) /\ x \in TraeDe(q)
        <4>1. \A e \in Facturas : e # d => ~Tiene(e, x)  BY <1>9, <2>5, <3>1, <3>5
        <4>2. \A e \in Facturas : ~Trae(e)  BY <1>6, <3>2, <3>5, <4>1
        <4>3. ~papel'[x].facturado  BY <2>1, <3>5
        <4> HIDE DEF q, d, v, Trae, copia
        <4> QED  BY <4>2, <4>3
      <3>6. CASE x \notin TraeDe(ls) /\ x \notin TraeDe(q)
        <4>1. ~Tiene(d, x) /\ ~Trae(d)  BY <3>1, <3>2, <3>6
        <4>2. papel'[x] = papel[x]  BY <2>1, <3>6
        <4>3. \A e \in Facturas : Trae(e) <=> Tiene(e, x)  BY <1>6, <4>1
        <4> HIDE DEF q, d, v, Trae, copia
        <4> QED  BY <1>2, <1>9, <2>2, <4>1, <4>2, <4>3
      <3> QED  BY <3>4, <3>5, <3>6
    <2> QED  BY <2>3, <2>4, <2>5
  <1> QED  BY <1>14, <1>15

LEMMA GrabaBien ==
  ASSUME IInvExistencias, NEW f \in Formularios, Editando(f), NEW ls \in Seq(Detalles), NEW n,
         Graba(f, ls, n), Deja(formulario[f], ls, n), Avisa(formulario[f], ls)
  PROVE  IInvExistencias'
  BY GrabaTipos, GrabaNotas DEF IInvExistencias

LEMMA GrabadasEs ==
  ASSUME IsFiniteSet(Papeles)
  PROVE  Grabadas = SumFunctionOnSet([e \in Papeles |-> papel[e].grabada], Papeles)
  <1> DEFINE h == [e \in Papeles |-> papel[e].grabada]
             F(it) == [s \in SUBSET Papeles |->
               IF s = {} THEN 0 ELSE papel[Pick(s)].grabada + it[s \ {Pick(s)}]]
             suma == CHOOSE it : it = F(it)
  <1>1. Grabadas = suma[Papeles]
    BY DEF Grabadas, MapThenSumSet, MapThenFoldSet, Pick
  <1>2. \A s \in SUBSET Papeles : s # {} => h[Pick(s)] = papel[Pick(s)].grabada  BY PickIn
  <1> HIDE DEF h
  <1>3. ASSUME NEW it
        PROVE  F(it) = [s \in SUBSET Papeles |->
                         IF s = {} THEN 0 ELSE h[Pick(s)] + it[s \ {Pick(s)}]]
    BY <1>2
  <1>4. \A it : it = F(it) <=> Adds(h, Papeles, it)  BY <1>3 DEF Adds
  <1>5. Adds(h, Papeles, suma)
    <2>1. PICK it : it = F(it)  BY <1>4, AddsExists
    <2> HIDE DEF F
    <2>2. suma = F(suma)  BY <2>1
    <2> QED  BY <1>4, <2>2
  <1> QED  BY <1>1, <1>5, SumAdds DEF h

\* No document has been saved more times than all of them together.
LEMMA GrabadasCota ==
  ASSUME IInvExistencias, NEW d \in Papeles, Grabadas < MaxGrabadas
  PROVE  papel[d].grabada + 1 \in 0 .. MaxGrabadas
  <1> DEFINE h == [e \in Papeles |-> papel[e].grabada]
  <1>1. \A e \in Papeles : h[e] \in Nat  BY PapelTipo
  <1>2. IsFiniteSet(Papeles)  BY FS_Union, ExistenciasAssumption DEF Papeles
  <1>3. Grabadas = SumFunctionOnSet(h, Papeles)  BY <1>2, GrabadasEs
  <1> HIDE DEF h
  <1>4. h[d] \in Nat /\ SumFunctionOnSet(h, Papeles) \in Nat /\ h[d] <= SumFunctionOnSet(h, Papeles)
    BY <1>1, <1>2, SumAtLeast
  <1>5. h[d] = papel[d].grabada  BY DEF h
  <1>6. MaxGrabadas \in Nat  BY ExistenciasAssumption
  <1> QED  BY <1>3, <1>4, <1>5, <1>6

\* The surprises of a save are in doubt afterwards.
LEMMA SorpresasAvisan ==
  ASSUME IInvExistencias, NEW v \in DeFormulario, LeidoBien(v), v.id \in Papeles,
         NEW tipo, Sorpresas(v, tipo) \subseteq dudoso',
         v.lineas \in Seq(Detalles), Originales(v) \in Seq(Detalles)
  PROVE  Avisa(v, v.lineas)
  <1> DEFINE o == Originales(v)
             l == v.lineas
             p == papel[v.id].lineas
  <1>1. p \in Seq(Detalles)  BY PapelTipo
  <1>2. TraeDe(o \o l \o p) = TraeDe(o) \cup TraeDe(l) \cup TraeDe(p)
    <2> HIDE DEF o, l, p
    <2>1. o \o l \in Seq(Detalles) /\ TraeDe(o \o l) = TraeDe(o) \cup TraeDe(l)
      BY TraeDeUnion DEF o, l
    <2>2. TraeDe((o \o l) \o p) = TraeDe(o \o l) \cup TraeDe(p)  BY <1>1, <2>1, TraeDeUnion
    <2> QED  BY <2>1, <2>2
  <1>3. ~Vigente(v) => TraeDe(o \o l \o p) \subseteq dudoso' /\ Albaranes \cap {v.id} \subseteq dudoso'
    BY DEF Sorpresas
  <1>4. papel[v.id].facturado => v.id \in dudoso'  BY DEF Sorpresas
  <1>5. \A x \in TraeDe(l) \ dudoso' :
          /\ papel[x].hay
          /\ papel[x].facturado => x \in TraeDe(o)
          /\ DeAlbaran(l, x) = Copia(x)
    BY DEF Sorpresas, Copia
  <1> HIDE DEF o, l, p
  <1>6. ~Vigente(v) => /\ TraeDe(o) \subseteq dudoso' /\ TraeDe(l) \subseteq dudoso'
                       /\ TraeDe(p) \subseteq dudoso'
                       /\ v.id \in Albaranes => v.id \in dudoso'
    BY <1>2, <1>3
  <1> QED  BY <1>4, <1>5, <1>6 DEF Avisa, o, l, p

LEMMA SorpresasTipo ==
  ASSUME IInvExistencias, NEW v \in DeFormulario, v.id \in Papeles, NEW tipo,
         v.lineas \in Seq(Detalles), Originales(v) \in Seq(Detalles)
  PROVE  Sorpresas(v, tipo) \subseteq Articulos \cup Albaranes
  <1> DEFINE o == Originales(v)
             l == v.lineas
             p == papel[v.id].lineas
  <1>1. p \in Seq(Detalles)  BY PapelTipo
  <1>2. TraeDe(o \o l \o p) \subseteq Albaranes /\ TraeDe(l) \subseteq Albaranes
    <2> HIDE DEF o, l, p
    <2>1. o \o l \in Seq(Detalles) /\ l \in Seq(Detalles)  BY TraeDeUnion DEF o, l
    <2>2. (o \o l) \o p \in Seq(Detalles)  BY <1>1, <2>1, TraeDeUnion
    <2> QED  BY <2>1, <2>2, TraeDeAlbaranes
  <1>3. papel[v.id].facturado => v.id \in Albaranes  BY PapelTipo DEF Papeles
  <1>4. \A ls : Tocados(ls) \subseteq Articulos  BY DEF Tocados
  <1> HIDE DEF o, l, p
  <1> DEFINE A == IF v.leido.hay /\ tipo # v.leido.mueve THEN Tocados(o) ELSE {}
             B == IF Vigente(v) THEN {}
                  ELSE Tocados(o \o l \o p) \cup TraeDe(o \o l \o p) \cup (Albaranes \cap {v.id})
             C == IF papel[v.id].facturado THEN {v.id} ELSE {}
             D == IF compra THEN Tocados(SinAlbaran(l, Ninguno)) ELSE {}
             E == {x \in TraeDe(l) :
                     \/ ~papel[x].hay
                     \/ papel[x].facturado /\ x \notin TraeDe(o)
                     \/ DeAlbaran(l, x) # Copia(x)}
  <1>5. Sorpresas(v, tipo) = A \cup B \cup C \cup D \cup E
    BY DEF Sorpresas, Copia, o, l, p
  <1>6. A \subseteq Articulos /\ D \subseteq Articulos  BY <1>4
  <1>7. B \subseteq Articulos \cup Albaranes  BY <1>2, <1>4
  <1>8. C \subseteq Albaranes  BY <1>3
  <1>9. E \subseteq Albaranes  BY <1>2
  <1> HIDE DEF A, B, C, D, E
  <1> QED  BY <1>5, <1>6, <1>7, <1>8, <1>9

-------------------------------------------------------------------------------
(* How much a unit of an article moves.                                      *)

Valor(g, a) ==
  [b \in Articulos |->
    IF a \notin ConStock THEN 0
    ELSE (IF a = b THEN 1 ELSE 0)
           + (IF Base[a] = Ninguno THEN 0 ELSE Multiplo[a] * g[Base[a]][b])]

EsFactor(g, T) == g = [a \in T |-> Valor(g, a)]

\* The bases of the articles of T are in T.
Llega(a, T) == a \in ConStock /\ Base[a] # Ninguno => Base[a] \in T
Cerrado(T) == \A a \in T : Llega(a, T)

\* Of some articles with their bases there is one that is the base of none.
LEMMA Cima ==
  ASSUME NEW X \in SUBSET Articulos, X # {}, Cerrado(X)
  PROVE  \E a \in X : Cerrado(X \ {a}) /\ Llega(a, X \ {a})
  <1>1. PICK nivel \in [Articulos -> 0 .. Cardinality(Articulos)] :
          \A a \in Articulos \cap ConStock : Base[a] # Ninguno => nivel[Base[a]] < nivel[a]
    BY BaseAssumption
  <1> DEFINE N == {nivel[a] : a \in X}
  <1>2. IsFiniteSet(X)  BY FS_Subset, ExistenciasAssumption
  <1>3. IsFiniteSet(N)  BY <1>2, FiniteImage
  <1>4. \A a \in X : nivel[a] \in Nat
    <2>1. Cardinality(Articulos) \in Nat  BY FS_CardinalityType, ExistenciasAssumption
    <2>2. \A a \in X : nivel[a] \in 0 .. Cardinality(Articulos)  BY <1>1
    <2> QED  BY <2>1, <2>2
  <1>5. N \in SUBSET Nat /\ N # {}  BY <1>4
  <1> HIDE DEF N
  <1>6. Mayor(N) \in N /\ \A m \in N : Mayor(N) >= m  BY <1>3, <1>5, MayorIn
  <1>7. PICK a \in X : \A c \in X : nivel[a] >= nivel[c]  BY <1>6 DEF N
  <1>8. \A c \in X : c \in ConStock /\ Base[c] # Ninguno => nivel[Base[c]] < nivel[c]  BY <1>1
  <1>9. ASSUME NEW c \in X, c \in ConStock, Base[c] # Ninguno
        PROVE  Base[c] \in X \ {a}
    <2>1. Base[c] \in X  BY <1>9 DEF Cerrado, Llega
    <2>2. nivel[Base[c]] < nivel[c] /\ nivel[a] >= nivel[c] /\ nivel[a] \in Nat /\ nivel[c] \in Nat
      BY <1>4, <1>7, <1>8, <1>9
    <2>3. Base[c] # a  BY <2>2
    <2> QED  BY <2>1, <2>3
  <1> QED  BY <1>9 DEF Cerrado, Llega

LEMMA ValorMismo ==
  ASSUME NEW a, NEW g, NEW h, a \in ConStock /\ Base[a] # Ninguno => g[Base[a]] = h[Base[a]]
  PROVE  Valor(g, a) = Valor(h, a)
  BY DEF Valor

LEMMA FactorExiste == \E g : EsFactor(g, Articulos)
  <1> DEFINE F == {T \in SUBSET Articulos : Cerrado(T) /\ ~ \E g : EsFactor(g, T)}
  <1>0. Cerrado(Articulos)  BY BaseAssumption DEF Cerrado, Llega
  <1> SUFFICES ASSUME F # {} PROVE FALSE  BY <1>0
  <1>1. F \in Families(Articulos)  BY DEF Families
  <1>2. PICK X : IsMinimal(X, F)
    <2> HIDE DEF F
    <2> QED  BY <1>1, Minimal, ExistenciasAssumption
  <1>3. X \in SUBSET Articulos /\ Cerrado(X) /\ ~ \E g : EsFactor(g, X)  BY <1>2 DEF IsMinimal
  <1>4. X # {}
    <2> SUFFICES ASSUME X = {} PROVE FALSE  OBVIOUS
    <2> DEFINE g == [a \in {} |-> 0]
    <2>1. g = [a \in {} |-> Valor(g, a)]  OBVIOUS
    <2> QED  BY <1>3, <2>1 DEF EsFactor
  <1>5. PICK a \in X : Cerrado(X \ {a}) /\ Llega(a, X \ {a})  BY <1>3, <1>4, Cima
  <1> DEFINE Y == X \ {a}
  <1>6. Y \in SUBSET Articulos /\ Y \subseteq X /\ Y # X  BY <1>3
  <1>7. Y \notin F  BY <1>2, <1>6 DEF IsMinimal
  <1>8. PICK g : EsFactor(g, Y)  BY <1>5, <1>6, <1>7
  <1> DEFINE h == [x \in X |-> IF x = a THEN Valor(g, a) ELSE g[x]]
  <1>9. ASSUME NEW x \in X  PROVE h[x] = Valor(h, x)
    <2>1. x \in ConStock /\ Base[x] # Ninguno => Base[x] \in Y
      <3>1. CASE x = a  BY <1>5, <3>1 DEF Llega
      <3>2. CASE x # a  BY <1>5, <3>2 DEF Cerrado, Llega
      <3> QED  BY <3>1, <3>2
    <2>2. x \in ConStock /\ Base[x] # Ninguno => g[Base[x]] = h[Base[x]]  BY <2>1
    <2> HIDE DEF h
    <2>3. Valor(g, x) = Valor(h, x)  BY <2>2, ValorMismo
    <2>4. h[x] = Valor(g, x)
      <3>1. x # a => g[x] = Valor(g, x)  BY <1>8 DEF EsFactor
      <3> QED  BY <3>1 DEF h
    <2> QED  BY <2>3, <2>4
  <1>10. h = [x \in X |-> h[x]]  OBVIOUS
  <1> HIDE DEF h
  <1>11. h = [x \in X |-> Valor(h, x)]  BY <1>9, <1>10
  <1> QED  BY <1>3, <1>11 DEF EsFactor

\* Factor is defined, since no article is the base of itself.
LEMMA FactorEs == \A a \in Articulos : Factor[a] = Valor(Factor, a)
  <1>1. Factor = CHOOSE g : EsFactor(g, Articulos)  BY DEF Factor, EsFactor, Valor
  <1>2. EsFactor(Factor, Articulos)  BY <1>1, FactorExiste
  <1> QED  BY <1>2 DEF EsFactor

LEMMA FactorTipo == \A a \in Articulos : Factor[a] \in [Articulos -> Int]
  <1> DEFINE Bien(T) == \A a \in T : Factor[a] \in [Articulos -> Int]
             F == {T \in SUBSET Articulos : Cerrado(T) /\ ~Bien(T)}
  <1>0. Cerrado(Articulos)  BY BaseAssumption DEF Cerrado, Llega
  <1> SUFFICES ASSUME F # {} PROVE FALSE
    <2> HIDE DEF Bien
    <2>1. F = {} => Bien(Articulos)  BY <1>0
    <2> QED  BY <2>1 DEF Bien
  <1>1. F \in Families(Articulos)  BY DEF Families
  <1>2. PICK X : IsMinimal(X, F)
    <2> HIDE DEF F
    <2> QED  BY <1>1, Minimal, ExistenciasAssumption
  <1>3. X \in SUBSET Articulos /\ Cerrado(X) /\ ~Bien(X)
    <2> HIDE DEF Bien
    <2> QED  BY <1>2 DEF IsMinimal
  <1>4. X # {}  BY <1>3
  <1>5. PICK a \in X : Cerrado(X \ {a}) /\ Llega(a, X \ {a})
    <2> HIDE DEF Bien
    <2> QED  BY <1>3, <1>4, Cima
  <1> DEFINE Y == X \ {a}
  <1>6. Y \in SUBSET Articulos /\ Y \subseteq X /\ Y # X  BY <1>3
  <1>7. Y \notin F  BY <1>2, <1>6 DEF IsMinimal
  <1>8. Bien(Y)
    <2> HIDE DEF Bien
    <2> QED  BY <1>5, <1>6, <1>7
  <1>9. Factor[a] = Valor(Factor, a)  BY <1>3, FactorEs
  <1>10. Valor(Factor, a) \in [Articulos -> Int]
    <2>1. a \in Articulos /\ Multiplo[a] \in Int  BY <1>3, BaseAssumption
    <2>2. ASSUME NEW b \in Articulos
          PROVE  (IF a \notin ConStock THEN 0
                  ELSE (IF a = b THEN 1 ELSE 0)
                    + (IF Base[a] = Ninguno THEN 0 ELSE Multiplo[a] * Factor[Base[a]][b])) \in Int
      <3>1. a \in ConStock /\ Base[a] # Ninguno => Factor[Base[a]][b] \in Int
        BY <1>5, <1>8 DEF Llega
      <3>2. a \in ConStock /\ Base[a] # Ninguno => Multiplo[a] * Factor[Base[a]][b] \in Int
        BY <2>1, <3>1
      <3> QED  BY <3>2
    <2> QED  BY <2>2 DEF Valor
  <1> QED  BY <1>3, <1>8, <1>9, <1>10

-------------------------------------------------------------------------------
(* Units in a list of details.                                               *)

\* What the n-th detail counts, with no regard to the notes and with it.
Mueve(ls, mueve, b) == [n \in DOMAIN ls |-> Cuenta(ls[n], mueve) * Factor[ls[n].articulo][b]]
Suyo(ls, b) ==
  [n \in DOMAIN ls |-> IF ls[n].albaran # Ninguno THEN 0
                       ELSE ls[n].cantidad * Factor[ls[n].articulo][b]]

LEMMA DominioFinito ==
  ASSUME NEW ls \in Seq(Detalles)
  PROVE  IsFiniteSet(DOMAIN ls) /\ \A n \in DOMAIN ls : ls[n] \in Detalles
  <1>1. DOMAIN ls = 1 .. Len(ls) /\ Len(ls) \in Nat  OBVIOUS
  <1>2. IsFiniteSet(1 .. Len(ls))  BY <1>1, FS_Interval
  <1> QED  BY <1>1, <1>2

LEMMA DetalleTipo ==
  ASSUME NEW l \in Detalles, NEW b \in Articulos, NEW mueve \in BOOLEAN, compra \in BOOLEAN
  PROVE  /\ l.cantidad \in Int /\ l.articulo \in Articulos /\ Factor[l.articulo][b] \in Int
         /\ Cuenta(l, mueve) \in Int
         /\ l.cantidad * Factor[l.articulo][b] \in Int
         /\ Cuenta(l, mueve) * Factor[l.articulo][b] \in Int
  <1>1. l.cantidad \in Int /\ l.articulo \in Articulos  BY DEF Detalles
  <1>2. Factor[l.articulo][b] \in Int  BY <1>1, FactorTipo
  <1>3. Cuenta(l, mueve) \in Int  BY <1>1 DEF Cuenta
  <1>4. \A i, j \in Int : i * j \in Int  OBVIOUS
  <1> QED  BY <1>1, <1>2, <1>3, <1>4

LEMMA MovimientoEs ==
  ASSUME NEW ls \in Seq(Detalles), NEW mueve \in BOOLEAN, NEW b \in Articulos, compra \in BOOLEAN
  PROVE  /\ Movimiento(ls, mueve, b) = SumFunctionOnSet(Mueve(ls, mueve, b), DOMAIN ls)
         /\ \A n \in DOMAIN ls : Mueve(ls, mueve, b)[n] \in Int
         /\ Movimiento(ls, mueve, b) \in Int
  <1> DEFINE h == Mueve(ls, mueve, b)
             S == DOMAIN ls
             F(it) == [s \in SUBSET S |->
               IF s = {} THEN 0
               ELSE Cuenta(ls[Pick(s)], mueve) * Factor[ls[Pick(s)].articulo][b] + it[s \ {Pick(s)}]]
             suma == CHOOSE it : it = F(it)
  <1>0. IsFiniteSet(S) /\ \A n \in S : ls[n] \in Detalles  BY DominioFinito
  <1>1. Movimiento(ls, mueve, b) = suma[S]
    BY DEF Movimiento, MapThenSumSet, MapThenFoldSet, Pick
  <1>2. \A s \in SUBSET S : s # {} =>
          h[Pick(s)] = Cuenta(ls[Pick(s)], mueve) * Factor[ls[Pick(s)].articulo][b]
    BY PickIn DEF Mueve
  <1>6. \A n \in S : h[n] \in Int  BY <1>0, DetalleTipo DEF Mueve
  <1> HIDE DEF h, S
  <1>3. ASSUME NEW it
        PROVE  F(it) = [s \in SUBSET S |-> IF s = {} THEN 0 ELSE h[Pick(s)] + it[s \ {Pick(s)}]]
    BY <1>2
  <1>4. \A it : it = F(it) <=> Adds(h, S, it)  BY <1>3 DEF Adds
  <1>5. Adds(h, S, suma)
    <2>1. PICK it : it = F(it)  BY <1>0, <1>4, AddsExists
    <2> HIDE DEF F
    <2>2. suma = F(suma)  BY <2>1
    <2> QED  BY <1>4, <2>2
  <1>7. Movimiento(ls, mueve, b) = SumFunctionOnSet(h, S)  BY <1>0, <1>1, <1>5, SumAdds
  <1>8. SumFunctionOnSet(h, S) \in Int  BY <1>0, <1>6, SumInt
  <1> QED  BY <1>6, <1>7, <1>8 DEF h, S

LEMMA PropioEs ==
  ASSUME NEW ls \in Seq(Detalles), NEW b \in Articulos
  PROVE  /\ Propio(ls, b) = SumFunctionOnSet(Suyo(ls, b), DOMAIN ls)
         /\ \A n \in DOMAIN ls : Suyo(ls, b)[n] \in Int
         /\ Propio(ls, b) \in Int
  <1> DEFINE h == Suyo(ls, b)
             S == DOMAIN ls
             F(it) == [s \in SUBSET S |->
               IF s = {} THEN 0
               ELSE (IF ls[Pick(s)].albaran # Ninguno THEN 0
                     ELSE ls[Pick(s)].cantidad * Factor[ls[Pick(s)].articulo][b]) + it[s \ {Pick(s)}]]
             suma == CHOOSE it : it = F(it)
  <1>0. IsFiniteSet(S) /\ \A n \in S : ls[n] \in Detalles  BY DominioFinito
  <1>1. Propio(ls, b) = suma[S]
    BY DEF Propio, MapThenSumSet, MapThenFoldSet, Pick
  <1>2. \A s \in SUBSET S : s # {} =>
          h[Pick(s)] = IF ls[Pick(s)].albaran # Ninguno THEN 0
                       ELSE ls[Pick(s)].cantidad * Factor[ls[Pick(s)].articulo][b]
    BY PickIn DEF Suyo
  <1>6. \A n \in S : h[n] \in Int
    <2>1. ASSUME NEW n \in S  PROVE ls[n].cantidad * Factor[ls[n].articulo][b] \in Int
      <3>1. ls[n].cantidad \in Int /\ ls[n].articulo \in Articulos  BY <1>0 DEF Detalles
      <3>2. Factor[ls[n].articulo][b] \in Int  BY <3>1, FactorTipo
      <3>3. \A i, j \in Int : i * j \in Int  OBVIOUS
      <3> QED  BY <3>1, <3>2, <3>3
    <2> QED  BY <2>1 DEF Suyo
  <1> HIDE DEF h, S
  <1>3. ASSUME NEW it
        PROVE  F(it) = [s \in SUBSET S |-> IF s = {} THEN 0 ELSE h[Pick(s)] + it[s \ {Pick(s)}]]
    BY <1>2
  <1>4. \A it : it = F(it) <=> Adds(h, S, it)  BY <1>3 DEF Adds
  <1>5. Adds(h, S, suma)
    <2>1. PICK it : it = F(it)  BY <1>0, <1>4, AddsExists
    <2> HIDE DEF F
    <2>2. suma = F(suma)  BY <2>1
    <2> QED  BY <1>4, <2>2
  <1>7. Propio(ls, b) = SumFunctionOnSet(h, S)  BY <1>0, <1>1, <1>5, SumAdds
  <1>8. SumFunctionOnSet(h, S) \in Int  BY <1>0, <1>6, SumInt
  <1> QED  BY <1>6, <1>7, <1>8 DEF h, S

\* The details that come from notes, of purchases, are not of b nor of what has b as base.
SinTraidas(ls, b) == \A n \in DOMAIN ls : ls[n].albaran # Ninguno => Factor[ls[n].articulo][b] = 0

\* What a list moves is its own units, if the details that come from notes count nothing.
LEMMA MovimientoPropio ==
  ASSUME NEW ls \in Seq(Detalles), NEW mueve \in BOOLEAN, NEW b \in Articulos, compra \in BOOLEAN,
         compra => SinTraidas(ls, b)
  PROVE  Movimiento(ls, mueve, b) =
           IF ~mueve THEN 0 ELSE IF compra THEN Propio(ls, b) ELSE -Propio(ls, b)
  <1> DEFINE S == DOMAIN ls
             h == Mueve(ls, mueve, b)
             k == Suyo(ls, b)
  <1>1. Movimiento(ls, mueve, b) = SumFunctionOnSet(h, S)  BY MovimientoEs
  <1>2. Propio(ls, b) = SumFunctionOnSet(k, S) /\ \A n \in S : k[n] \in Int  BY PropioEs
  <1>3. IsFiniteSet(S) /\ \A n \in S : ls[n] \in Detalles  BY DominioFinito
  <1>4. \A n \in S : h[n] = IF ~mueve THEN 0 ELSE IF compra THEN k[n] ELSE -k[n]
    <2> SUFFICES ASSUME NEW n \in S
                 PROVE  h[n] = IF ~mueve THEN 0 ELSE IF compra THEN k[n] ELSE -k[n]
      OBVIOUS
    <2> DEFINE c == ls[n].cantidad
               x == Factor[ls[n].articulo][b]
    <2>1. c \in Int /\ x \in Int  BY <1>3, DetalleTipo
    <2>2. h[n] = Cuenta(ls[n], mueve) * x  BY DEF Mueve
    <2>3. k[n] = IF ls[n].albaran # Ninguno THEN 0 ELSE c * x  BY DEF Suyo
    <2>4. compra /\ ls[n].albaran # Ninguno => x = 0  BY DEF SinTraidas
    <2>5. Cuenta(ls[n], mueve) = IF ~mueve \/ (ls[n].albaran # Ninguno /\ ~compra) THEN 0
                                 ELSE IF compra THEN c ELSE -c
      BY DEF Cuenta
    <2>6. 0 * x = 0 /\ c * 0 = 0 /\ (-c) * x = -(c * x) /\ c * x \in Int  BY <2>1
    <2> HIDE DEF c, x, h, k
    <2> QED  BY <2>1, <2>2, <2>3, <2>4, <2>5, <2>6
  <1> HIDE DEF S, h, k
  <1>5. CASE ~mueve
    <2>1. \A n \in S : h[n] = 0  BY <1>4, <1>5
    <2> QED  BY <1>1, <1>3, <1>5, <2>1, SumZero
  <1>6. CASE mueve /\ compra
    <2>1. \A n \in S : h[n] = k[n]  BY <1>4, <1>6
    <2> QED  BY <1>1, <1>2, <1>3, <1>6, <2>1, SumSame
  <1>7. CASE mueve /\ ~compra
    <2>1. \A n \in S : k[n] \in Int /\ h[n] = -k[n]  BY <1>2, <1>4, <1>7
    <2>2. SumFunctionOnSet(h, S) = -SumFunctionOnSet(k, S)  BY <1>3, <2>1, SumOpposite
    <2> QED  BY <1>1, <1>2, <1>7, <2>2
  <1> QED  BY <1>5, <1>6, <1>7

\* Details that have nothing to do with b.
LEMMA SinTocar ==
  ASSUME NEW ls \in Seq(Detalles), NEW b \in Articulos, b \notin Tocados(ls)
  PROVE  Propio(ls, b) = 0 /\ SinTraidas(ls, b)
  <1>1. \A n \in DOMAIN ls : Factor[ls[n].articulo][b] = 0  BY DEF Tocados
  <1>2. IsFiniteSet(DOMAIN ls) /\ \A n \in DOMAIN ls : ls[n] \in Detalles  BY DominioFinito
  <1>3. \A n \in DOMAIN ls : Suyo(ls, b)[n] = 0
    <2>1. \A n \in DOMAIN ls : ls[n].cantidad \in Int  BY <1>2 DEF Detalles
    <2>2. \A i \in Int : i * 0 = 0  OBVIOUS
    <2> QED  BY <1>1, <2>1, <2>2 DEF Suyo
  <1>4. Propio(ls, b) = 0  BY <1>2, <1>3, PropioEs, SumZero
  <1> QED  BY <1>1, <1>4 DEF SinTraidas

-------------------------------------------------------------------------------
(* The stock.                                                                *)

\* What each document adds to the units of b, and all of them.
Aporta(pp, b) ==
  [d \in Papeles |-> IF pp[d].hay /\ pp[d].mueve THEN Propio(pp[d].lineas, b) ELSE 0]
Total(pp, b) == SumFunctionOnSet(Aporta(pp, b), Papeles)

Traidas ==
  compra => \A b \in Articulos \ dudoso :
              /\ \A d \in Papeles : SinTraidas(papel[d].lineas, b)
              /\ \A f \in Formularios : Editando(f) => SinTraidas(formulario[f].leido.lineas, b)

StockBien ==
  /\ stock \in [Articulos -> Int]
  /\ \A b \in Articulos \ dudoso : stock[b] = IF compra THEN Total(papel, b) ELSE -Total(papel, b)
  /\ Traidas

LEMMA AportaTipo ==
  ASSUME NEW pp \in [Papeles -> PapelesGuardados], NEW b \in Articulos
  PROVE  \A d \in Papeles : Aporta(pp, b)[d] \in Int
  <1> SUFFICES ASSUME NEW d \in Papeles PROVE Aporta(pp, b)[d] \in Int  OBVIOUS
  <1>1. pp[d].lineas \in Seq(Detalles)  BY DEF PapelesGuardados
  <1>2. Propio(pp[d].lineas, b) \in Int  BY <1>1, PropioEs
  <1> QED  BY <1>2 DEF Aporta

LEMMA MovidoEs ==
  ASSUME IInvExistencias, NEW b \in Articulos
  PROVE  Movido(b) = Total(papel, b)
  <1> DEFINE S == {d \in Papeles : papel[d].hay /\ papel[d].mueve}
             h == Aporta(papel, b)
             F(it) == [s \in SUBSET S |->
               IF s = {} THEN 0 ELSE Propio(papel[Pick(s)].lineas, b) + it[s \ {Pick(s)}]]
             suma == CHOOSE it : it = F(it)
  <1>0. IsFiniteSet(Papeles)  BY FS_Union, ExistenciasAssumption DEF Papeles
  <1>1. S \subseteq Papeles /\ IsFiniteSet(S)  BY <1>0, FS_Subset
  <1>2. Movido(b) = suma[S]
    BY DEF Movido, MapThenSumSet, MapThenFoldSet, Pick
  <1>3. \A s \in SUBSET S : s # {} => h[Pick(s)] = Propio(papel[Pick(s)].lineas, b)
    BY PickIn DEF Aporta
  <1>4. \A d \in Papeles \ S : h[d] = 0  BY DEF Aporta
  <1>5. \A d \in Papeles : h[d] \in Int  BY AportaTipo DEF IInvExistencias, TiposDeDocumentos
  <1> HIDE DEF h, S
  <1>6. ASSUME NEW it
        PROVE  F(it) = [s \in SUBSET S |-> IF s = {} THEN 0 ELSE h[Pick(s)] + it[s \ {Pick(s)}]]
    BY <1>3
  <1>7. \A it : it = F(it) <=> Adds(h, S, it)  BY <1>6 DEF Adds
  <1>8. Adds(h, S, suma)
    <2>1. PICK it : it = F(it)  BY <1>1, <1>7, AddsExists
    <2> HIDE DEF F
    <2>2. suma = F(suma)  BY <2>1
    <2> QED  BY <1>7, <2>2
  <1>9. Movido(b) = SumFunctionOnSet(h, S)  BY <1>1, <1>2, <1>8, SumAdds
  <1>10. SumFunctionOnSet(h, Papeles) = SumFunctionOnSet(h, S)
    BY <1>0, <1>1, <1>4, <1>5, SumOfPart
  <1> QED  BY <1>9, <1>10 DEF h, Total

\* Editing moves nothing.
LEMMA EditaStock ==
  ASSUME IInvExistencias, StockBien, NEW f \in Formularios, NEW v, Quieto, Edita(f, v),
         \/ v = Ninguno
         \/ v.leido.lineas = <<>>
         \/ \E d \in Papeles : v.leido.lineas = papel[d].lineas
         \/ Editando(f) /\ v.leido.lineas = formulario[f].leido.lineas
  PROVE  StockBien'
  <1>1. /\ compra' = compra /\ papel' = papel /\ dudoso' = dudoso /\ stock' = stock
        /\ formulario' = [formulario EXCEPT ![f] = v]
    BY DEF Quieto, Edita
  <1>2. Traidas'
    <2> SUFFICES ASSUME compra, NEW b \in Articulos \ dudoso
                 PROVE  /\ \A d \in Papeles : SinTraidas(papel[d].lineas, b)
                        /\ \A g \in Formularios : formulario'[g] # Ninguno =>
                             SinTraidas(formulario'[g].leido.lineas, b)
      BY <1>1 DEF Traidas, Editando, SinTraidas
    <2>1. /\ \A d \in Papeles : SinTraidas(papel[d].lineas, b)
          /\ \A g \in Formularios : Editando(g) => SinTraidas(formulario[g].leido.lineas, b)
      BY DEF StockBien, Traidas
    <2>2. SinTraidas(<<>>, b)
      <3>1. DOMAIN <<>> = {}  OBVIOUS
      <3> QED  BY <3>1 DEF SinTraidas
    <2> SUFFICES ASSUME NEW g \in Formularios, formulario'[g] # Ninguno
                 PROVE  SinTraidas(formulario'[g].leido.lineas, b)
      BY <2>1
    <2>3. CASE g = f
      <3>1. formulario'[g] = v /\ v # Ninguno
        BY <1>1, <2>3 DEF IInvExistencias, TiposDeDocumentos
      <3>2. SinTraidas(v.leido.lineas, b)  BY <2>1, <2>2, <3>1
      <3> QED  BY <3>1, <3>2
    <2>4. CASE g # f
      <3>1. formulario'[g] = formulario[g]  BY <1>1, <2>4 DEF IInvExistencias, TiposDeDocumentos
      <3> QED  BY <2>1, <3>1 DEF Editando
    <2> QED  BY <2>3, <2>4
  <1>3. \A b : Total(papel, b)' = Total(papel, b)  BY <1>1
  <1> QED  BY <1>1, <1>2, <1>3 DEF StockBien

\* What a save leaves of the stock.
DejaStock(v, ls, n, tipo) ==
  /\ Vigente(v) => (n.hay /\ n.mueve = tipo) \/ ls = <<>>
  /\ Tocados(n.lineas) \subseteq Tocados(ls) \cup Tocados(papel[v.id].lineas)
  /\ stock' = [b \in Articulos |-> stock[b] - Movimiento(Originales(v), tipo, b)
                                            + Movimiento(ls, tipo, b)]

AvisaStock(v, ls, tipo) ==
  /\ v.leido.hay /\ tipo # v.leido.mueve => Tocados(Originales(v)) \subseteq dudoso'
  /\ ~Vigente(v) => /\ Tocados(Originales(v)) \subseteq dudoso'
                    /\ Tocados(ls) \subseteq dudoso'
                    /\ Tocados(papel[v.id].lineas) \subseteq dudoso'
  /\ compra => \A b \in Articulos \ dudoso' : SinTraidas(ls, b)

\* The units of b that the document stored had, and those it has, are those that the stock
\* lost and those that it got.
LEMMA CambioDeStock ==
  ASSUME IInvExistencias, StockBien, NEW f \in Formularios, Editando(f), NEW ls \in Seq(Detalles),
         NEW n, NEW tipo \in BOOLEAN, Graba(f, ls, n), Deja(formulario[f], ls, n),
         DejaStock(formulario[f], ls, n, tipo), AvisaStock(formulario[f], ls, tipo),
         NEW b \in Articulos, b \notin dudoso'
  PROVE  LET v == formulario[f]
             antes == Aporta(papel, b)[v.id]
             despues == IF n.hay /\ n.mueve THEN Propio(n.lineas, b) ELSE 0
         IN  /\ Movimiento(Originales(v), tipo, b) = IF compra THEN antes ELSE -antes
             /\ Movimiento(ls, tipo, b) = IF compra THEN despues ELSE -despues
             /\ compra => SinTraidas(n.lineas, b)
  <1> DEFINE v == formulario[f]
             p == papel[v.id]
             o == Originales(v)
             antes == IF p.hay /\ p.mueve THEN Propio(p.lineas, b) ELSE 0
             despues == IF n.hay /\ n.mueve THEN Propio(n.lineas, b) ELSE 0
  <1>1. /\ LeidoBien(v) /\ v.id \in Papeles /\ o = v.leido.lineas /\ o \in Seq(Detalles)
        /\ v.leido \in PapelesGuardados
    BY FormularioTipo DEF Originales
  <1>2. p.lineas \in Seq(Detalles) /\ p.hay \in BOOLEAN /\ p.mueve \in BOOLEAN  BY <1>1, PapelTipo
  <1>3. n \in PapelesGuardados /\ (Vigente(v) => n.lineas = ls)  BY DEF Deja
  <1>4. n.lineas \in Seq(Detalles) /\ n.hay \in BOOLEAN /\ n.mueve \in BOOLEAN
    BY <1>3 DEF PapelesGuardados
  <1>5. compra \in BOOLEAN /\ v.leido.hay \in BOOLEAN /\ v.leido.mueve \in BOOLEAN
    BY <1>1 DEF IInvExistencias, TiposDeDocumentos, PapelesGuardados
  <1>6. b \notin dudoso  BY DEF Graba
  <1>7. compra => SinTraidas(o, b)  BY <1>1, <1>6 DEF StockBien, Traidas
  <1>8. compra => SinTraidas(ls, b)  BY DEF AvisaStock
  <1>9. Movimiento(o, tipo, b) = IF ~tipo THEN 0 ELSE IF compra THEN Propio(o, b) ELSE -Propio(o, b)
    BY <1>1, <1>5, <1>7, MovimientoPropio
  <1>10. Movimiento(ls, tipo, b) = IF ~tipo THEN 0 ELSE IF compra THEN Propio(ls, b) ELSE -Propio(ls, b)
    BY <1>5, <1>8, MovimientoPropio
  <1>11. /\ v.leido.hay /\ tipo # v.leido.mueve => b \notin Tocados(o)
         /\ ~Vigente(v) => b \notin Tocados(o) /\ b \notin Tocados(ls) /\ b \notin Tocados(p.lineas)
    BY DEF AvisaStock
  <1>12. /\ Vigente(v) => (n.hay /\ n.mueve = tipo) \/ ls = <<>>
         /\ Tocados(n.lineas) \subseteq Tocados(ls) \cup Tocados(p.lineas)
    BY DEF DejaStock
  <1>13. Propio(<<>>, b) = 0
    <2>1. <<>> \in Seq(Detalles) /\ DOMAIN <<>> = {}  OBVIOUS
    <2>2. b \notin Tocados(<<>>)  BY <2>1 DEF Tocados
    <2> QED  BY <2>1, <2>2, SinTocar
  <1>14. v.leido.hay /\ Vigente(v) => p.hay /\ p.mueve = v.leido.mueve /\ p.lineas = o
    BY <1>1 DEF LeidoBien
  <1>15. ~v.leido.hay => o = <<>> /\ v.leido.grabada = 0  BY <1>1, SinPapelTipo DEF LeidoBien
  <1>16. ~v.leido.hay /\ Vigente(v) => ~p.hay
    BY <1>1, <1>15 DEF Vigente, IInvExistencias, SinGrabar
  <1>17. Propio(o, b) \in Int /\ Propio(ls, b) \in Int /\ Propio(p.lineas, b) \in Int
         /\ Propio(n.lineas, b) \in Int
    BY <1>1, <1>2, <1>4, PropioEs
  <1>18. b \notin Tocados(o) => Propio(o, b) = 0  BY <1>1, SinTocar
  <1>19. b \notin Tocados(ls) => Propio(ls, b) = 0  BY SinTocar
  <1>20. b \notin Tocados(p.lineas) => Propio(p.lineas, b) = 0  BY <1>2, SinTocar
  <1>21. b \notin Tocados(n.lineas) => Propio(n.lineas, b) = 0 /\ SinTraidas(n.lineas, b)
    BY <1>4, SinTocar
  <1>22. Aporta(papel, b)[v.id] = antes  BY <1>1 DEF Aporta
  <1> HIDE DEF v, p, o
  <1>23. Movimiento(o, tipo, b) = IF compra THEN antes ELSE -antes
    <2>1. CASE ~Vigente(v)
      <3>1. Propio(o, b) = 0 /\ Propio(p.lineas, b) = 0  BY <1>11, <1>18, <1>20, <2>1
      <3>2. antes = 0  BY <3>1
      <3> QED  BY <1>9, <3>1, <3>2
    <2>2. CASE Vigente(v) /\ ~v.leido.hay
      <3>1. antes = 0 /\ Propio(o, b) = 0  BY <1>13, <1>15, <1>16, <2>2
      <3> QED  BY <1>9, <3>1
    <2>3. CASE Vigente(v) /\ v.leido.hay /\ tipo = v.leido.mueve
      <3>1. antes = IF tipo THEN Propio(o, b) ELSE 0  BY <1>14, <2>3
      <3> HIDE DEF antes
      <3> QED  BY <1>9, <3>1
    <2>4. CASE Vigente(v) /\ v.leido.hay /\ tipo # v.leido.mueve
      <3>1. Propio(o, b) = 0  BY <1>11, <1>18, <2>4
      <3>2. antes = 0  BY <1>14, <2>4, <3>1
      <3> QED  BY <1>9, <3>1, <3>2
    <2> QED  BY <1>5, <2>1, <2>2, <2>3, <2>4
  <1>24. Movimiento(ls, tipo, b) = IF compra THEN despues ELSE -despues
    <2>1. CASE ~Vigente(v)
      <3>1. Propio(ls, b) = 0 /\ Propio(n.lineas, b) = 0  BY <1>11, <1>12, <1>19, <1>21, <2>1
      <3>2. despues = 0  BY <3>1
      <3> QED  BY <1>10, <3>1, <3>2
    <2>2. CASE Vigente(v) /\ ls = <<>>
      <3>1. Propio(ls, b) = 0 /\ Propio(n.lineas, b) = 0  BY <1>3, <1>13, <2>2
      <3>2. despues = 0  BY <3>1
      <3> QED  BY <1>10, <3>1, <3>2
    <2>3. CASE Vigente(v) /\ n.hay /\ n.mueve = tipo
      <3>1. despues = IF tipo THEN Propio(ls, b) ELSE 0  BY <1>3, <2>3
      <3> HIDE DEF despues
      <3> QED  BY <1>10, <3>1
    <2> QED  BY <1>12, <2>1, <2>2, <2>3
  <1>25. compra => SinTraidas(n.lineas, b)
    <2>1. CASE ~Vigente(v)  BY <1>11, <1>12, <1>21, <2>1
    <2>2. CASE Vigente(v)  BY <1>3, <1>8, <2>2
    <2> QED  BY <2>1, <2>2
  <1> QED  BY <1>22, <1>23, <1>24, <1>25 DEF v, p, o

LEMMA GrabaStock ==
  ASSUME IInvExistencias, StockBien, NEW f \in Formularios, Editando(f), NEW ls \in Seq(Detalles),
         NEW n, NEW tipo \in BOOLEAN, Graba(f, ls, n), Deja(formulario[f], ls, n),
         DejaStock(formulario[f], ls, n, tipo), AvisaStock(formulario[f], ls, tipo)
  PROVE  StockBien'
  <1> DEFINE v == formulario[f]
             d == v.id
             o == Originales(v)
  <1>1. d \in Papeles /\ o \in Seq(Detalles)  BY FormularioTipo DEF Originales
  <1>2. /\ papel' \in [Papeles -> PapelesGuardados] /\ papel'[d] = n
        /\ \A e \in Papeles : e # d =>
              /\ papel'[e].hay = papel[e].hay /\ papel'[e].mueve = papel[e].mueve
              /\ papel'[e].lineas = papel[e].lineas
    BY PapelesDespues
  <1>3. /\ compra \in BOOLEAN /\ compra' = compra /\ papel \in [Papeles -> PapelesGuardados]
        /\ formulario' = [formulario EXCEPT ![f] = Ninguno] /\ dudoso \subseteq dudoso'
    BY DEF IInvExistencias, TiposDeDocumentos, Graba
  <1>4. stock' = [b \in Articulos |-> stock[b] - Movimiento(o, tipo, b) + Movimiento(ls, tipo, b)]
    BY DEF DejaStock
  <1>5. stock' \in [Articulos -> Int]
    <2>1. ASSUME NEW b \in Articulos
          PROVE  stock[b] - Movimiento(o, tipo, b) + Movimiento(ls, tipo, b) \in Int
      <3>1. Movimiento(o, tipo, b) \in Int /\ Movimiento(ls, tipo, b) \in Int
        <4> HIDE DEF o
        <4> QED  BY <1>1, <1>3, MovimientoEs
      <3>2. stock[b] \in Int  BY DEF StockBien
      <3> QED  BY <3>1, <3>2
    <2> QED  BY <1>4, <2>1
  <1>6. ASSUME NEW b \in Articulos \ dudoso'
        PROVE  /\ stock'[b] = IF compra THEN Total(papel', b) ELSE -Total(papel', b)
               /\ compra => SinTraidas(n.lineas, b)
    <2> DEFINE h == Aporta(papel, b)
               k == Aporta(papel', b)
    <2>1. /\ Movimiento(o, tipo, b) = IF compra THEN h[d] ELSE -h[d]
          /\ Movimiento(ls, tipo, b) =
               IF compra THEN IF n.hay /\ n.mueve THEN Propio(n.lineas, b) ELSE 0
               ELSE -(IF n.hay /\ n.mueve THEN Propio(n.lineas, b) ELSE 0)
          /\ compra => SinTraidas(n.lineas, b)
      BY <1>6, CambioDeStock
    <2>2. k[d] = IF n.hay /\ n.mueve THEN Propio(n.lineas, b) ELSE 0  BY <1>1, <1>2 DEF Aporta
    <2>3. \A e \in Papeles : h[e] \in Int /\ k[e] \in Int  BY <1>2, <1>3, AportaTipo
    <2>4. \A e \in Papeles \ {d} : h[e] = k[e]  BY <1>2 DEF Aporta
    <2>5. stock[b] = IF compra THEN Total(papel, b) ELSE -Total(papel, b)
      BY <1>3, <1>6 DEF StockBien
    <2>6. stock'[b] = stock[b] - Movimiento(o, tipo, b) + Movimiento(ls, tipo, b)  BY <1>4
    <2>7. IsFiniteSet(Papeles)  BY FS_Union, ExistenciasAssumption DEF Papeles
    <2> HIDE DEF h, k, d, o
    <2>8. SumFunctionOnSet(k, Papeles) = SumFunctionOnSet(h, Papeles) - h[d] + k[d]
      BY <1>1, <2>3, <2>4, <2>7, SumChange
    <2>9. SumFunctionOnSet(h, Papeles) \in Int  BY <2>3, <2>7, SumInt
    <2>10. Total(papel, b) = SumFunctionOnSet(h, Papeles)
           /\ Total(papel', b) = SumFunctionOnSet(k, Papeles)
      BY DEF Total, h, k
    <2>11. h[d] \in Int /\ k[d] \in Int  BY <1>1, <2>3
    <2>12. /\ Movimiento(o, tipo, b) = IF compra THEN h[d] ELSE -h[d]
           /\ Movimiento(ls, tipo, b) = IF compra THEN k[d] ELSE -k[d]
      BY <2>1, <2>2
    <2> QED  BY <2>1, <2>5, <2>6, <2>8, <2>9, <2>10, <2>11, <2>12
  <1>7. Traidas'
    <2> SUFFICES ASSUME compra, NEW b \in Articulos \ dudoso'
                 PROVE  /\ \A e \in Papeles : SinTraidas(papel'[e].lineas, b)
                        /\ \A g \in Formularios : formulario'[g] # Ninguno =>
                             SinTraidas(formulario'[g].leido.lineas, b)
      BY <1>3 DEF Traidas, Editando, SinTraidas
    <2>1. /\ \A e \in Papeles : SinTraidas(papel[e].lineas, b)
          /\ \A g \in Formularios : Editando(g) => SinTraidas(formulario[g].leido.lineas, b)
      BY <1>3 DEF StockBien, Traidas
    <2>2. SinTraidas(n.lineas, b)  BY <1>6
    <2>3. \A e \in Papeles : SinTraidas(papel'[e].lineas, b)  BY <1>2, <2>1, <2>2
    <2>4. \A g \in Formularios : formulario'[g] # Ninguno =>
            Editando(g) /\ formulario'[g] = formulario[g]
      BY <1>3 DEF IInvExistencias, TiposDeDocumentos, Editando
    <2> QED  BY <2>1, <2>3, <2>4
  <1>8. \A b \in Articulos \ dudoso' :
          stock'[b] = IF compra' THEN Total(papel', b) ELSE -Total(papel', b)
    BY <1>3, <1>6
  <1> QED  BY <1>5, <1>7, <1>8 DEF StockBien
\* The surprises that have to do with the stock.
LEMMA SorpresasDeStock ==
  ASSUME IInvExistencias, NEW v \in DeFormulario, v.id \in Papeles,
         NEW tipo, Sorpresas(v, tipo) \subseteq dudoso',
         v.lineas \in Seq(Detalles), Originales(v) \in Seq(Detalles)
  PROVE  AvisaStock(v, v.lineas, tipo)
  <1> DEFINE o == Originales(v)
             l == v.lineas
             p == papel[v.id].lineas
  <1>1. p \in Seq(Detalles)  BY PapelTipo
  <1>2. Tocados(o \o l \o p) = Tocados(o) \cup Tocados(l) \cup Tocados(p)
    <2> HIDE DEF o, l, p
    <2>1. o \o l \in Seq(Detalles) /\ Tocados(o \o l) = Tocados(o) \cup Tocados(l)
      BY TocadosUnion DEF o, l
    <2>2. Tocados((o \o l) \o p) = Tocados(o \o l) \cup Tocados(p)  BY <1>1, <2>1, TocadosUnion
    <2> QED  BY <2>1, <2>2
  <1>3. ~Vigente(v) => Tocados(o \o l \o p) \subseteq dudoso'  BY DEF Sorpresas
  <1>4. v.leido.hay /\ tipo # v.leido.mueve => Tocados(o) \subseteq dudoso'  BY DEF Sorpresas
  <1>5. compra => Tocados(SinAlbaran(l, Ninguno)) \subseteq dudoso'  BY DEF Sorpresas
  <1>6. ASSUME compra, NEW b \in Articulos \ dudoso'  PROVE SinTraidas(l, b)
    <2> DEFINE r == SinAlbaran(l, Ninguno)
    <2>1. Elementos(r) = {e \in Elementos(l) : e.albaran \in (Albaranes \cup {Ninguno}) \ {Ninguno}}
      BY FiltraOk DEF SinAlbaran
    <2> HIDE DEF r
    <2>2. Tocados(r) = {a \in Articulos : \E e \in Elementos(r) : Factor[e.articulo][a] # 0}
      BY DeElementos
    <2>3. b \notin Tocados(r)  BY <1>5, <1>6 DEF r
    <2> SUFFICES ASSUME NEW n \in DOMAIN l, l[n].albaran # Ninguno
                 PROVE  Factor[l[n].articulo][b] = 0
      BY DEF SinTraidas
    <2>4. l[n] \in Detalles /\ l[n] \in Elementos(l)  BY DEF Elementos
    <2>5. l[n].albaran \in Albaranes \cup {Ninguno}  BY <2>4 DEF Detalles
    <2>6. l[n] \in Elementos(r)  BY <2>1, <2>4, <2>5
    <2> QED  BY <2>2, <2>3, <2>6
  <1> HIDE DEF o, l, p
  <1> QED  BY <1>2, <1>3, <1>4, <1>5, <1>6 DEF AvisaStock, o, l, p

\* A save and a removal, in the terms of the lemmas above.
LEMMA GuardaEs ==
  ASSUME IInvExistencias, NEW f \in Formularios, GuardaPapel(f)
  PROVE  \E n : \E tipo \in BOOLEAN :
           LET v == formulario[f]
           IN  /\ Editando(f) /\ v.lineas \in Seq(Detalles)
               /\ Graba(f, v.lineas, n) /\ Deja(v, v.lineas, n) /\ Avisa(v, v.lineas)
               /\ DejaStock(v, v.lineas, n, tipo) /\ AvisaStock(v, v.lineas, tipo)
  <1> DEFINE v == formulario[f]
             ls == v.lineas
             m == Facturados(Originales(v), ls)
             p == papel[v.id]
             n(tipo) == [hay |-> p.hay \/ ~v.leido.hay, mueve |-> tipo,
                         facturado |-> m[v.id].facturado,
                         lineas |-> Ajenas(v) \o ls, grabada |-> p.grabada + 1]
  <1>1. Editando(f) /\ Grabadas < MaxGrabadas /\ Len(Ajenas(v)) + Len(ls) <= MaxLineas
    BY DEF GuardaPapel
  <1>2. PICK tipo \in BOOLEAN :
          /\ papel' = [m EXCEPT ![v.id] = [hay |-> p.hay \/ ~v.leido.hay, mueve |-> tipo,
                         facturado |-> @.facturado,
                         lineas |-> Ajenas(v) \o ls, grabada |-> p.grabada + 1]]
          /\ dudoso' = dudoso \cup Sorpresas(v, tipo)
          /\ stock' = [b \in Articulos |-> stock[b] - Movimiento(Originales(v), tipo, b)
                                                  + Movimiento(ls, tipo, b)]
    BY DEF GuardaPapel
  <1>3. /\ v \in DeFormulario /\ LeidoBien(v) /\ v.id \in Papeles /\ ls \in Seq(Detalles)
        /\ v.leido \in PapelesGuardados /\ Originales(v) \in Seq(Detalles)
    BY <1>1, FormularioTipo DEF Originales
  <1>4. v.leido.hay \in BOOLEAN  BY <1>3 DEF PapelesGuardados
  <1>5. Ajenas(v) \in Seq(Detalles) /\ TraeDe(Ajenas(v)) \subseteq TraeDe(papel[v.id].lineas)
    <2>1. papel[v.id].lineas \in Seq(Detalles)  BY <1>3, PapelTipo
    <2>2. <<>> \in Seq(Detalles)  OBVIOUS
    <2> QED  BY <2>1, <2>2, TraeDeNada DEF Ajenas
  <1>6. Ajenas(v) \o ls \in Seq(Detalles)
        /\ TraeDe(Ajenas(v) \o ls) = TraeDe(Ajenas(v)) \cup TraeDe(ls)
    BY <1>3, <1>5, TraeDeUnion
  <1>7. Deja(v, ls, n(tipo))
    <2>1. n(tipo) \in PapelesGuardados
      <3>1. m[v.id].facturado \in BOOLEAN
        <4>1. m[v.id] \in PapelesGuardados
          <5> HIDE DEF v, ls
          <5> QED  BY <1>3, FacturadosBien
        <4> QED  BY <4>1 DEF PapelesGuardados
      <3>2. p.grabada + 1 \in 0 .. MaxGrabadas  BY <1>1, <1>3, GrabadasCota
      <3>3. p.hay \in BOOLEAN  BY <1>3, PapelTipo
      <3> HIDE DEF v, ls, m, p
      <3> QED  BY <1>4, <1>6, <3>1, <3>2, <3>3 DEF PapelesGuardados
    <2>2. Len(n(tipo).lineas) <= MaxLineas
      <3>1. Len(Ajenas(v) \o ls) = Len(Ajenas(v)) + Len(ls)  BY <1>3, <1>5
      <3> QED  BY <1>1, <3>1
    <2>3. Vigente(v) => n(tipo).lineas = ls /\ n(tipo).hay
      <3>1. Vigente(v) => Ajenas(v) \o ls = ls  BY <1>3 DEF Ajenas
      <3>2. Vigente(v) /\ v.leido.hay => p.hay  BY <1>3 DEF LeidoBien
      <3> QED  BY <1>4, <3>1, <3>2
    <2>4. v.id \in Albaranes => TraeDe(ls) = {}  BY <1>3 DEF LeidoBien
    <2>5. TraeDe(n(tipo).lineas) \subseteq TraeDe(ls) \cup TraeDe(papel[v.id].lineas)
      BY <1>5, <1>6
    <2>6. n(tipo).facturado = Facturados(Originales(v), ls)[v.id].facturado
          /\ n(tipo).grabada = papel[v.id].grabada + 1
      OBVIOUS
    <2> HIDE DEF v, ls, n
    <2> QED  BY <2>1, <2>2, <2>3, <2>4, <2>5, <2>6 DEF Deja
  <1>8. Sorpresas(v, tipo) \subseteq dudoso' /\ dudoso \subseteq dudoso'  BY <1>2
  <1>9. Avisa(v, ls)
    <2> HIDE DEF v
    <2> QED  BY <1>3, <1>8, SorpresasAvisan DEF v
  <1>10. Graba(f, ls, n(tipo))
    <2>1. dudoso' \subseteq Articulos \cup Albaranes
      <3>1. Sorpresas(v, tipo) \subseteq Articulos \cup Albaranes
        <4> HIDE DEF v
        <4> QED  BY <1>3, SorpresasTipo DEF v
      <3> QED  BY <1>2, <3>1 DEF IInvExistencias, TiposDeDocumentos
    <2>2. papel' = [m EXCEPT ![v.id] = n(tipo)]  BY <1>2
    <2>3. formulario' = [formulario EXCEPT ![f] = Ninguno] /\ compra' = compra
      BY DEF GuardaPapel, Edita
    <2> QED  BY <1>8, <2>1, <2>2, <2>3 DEF Graba
  <1> DEFINE nn == n(tipo)
  <1>11. Deja(v, ls, nn) /\ Graba(f, ls, nn)  BY <1>7, <1>10
  <1>12. DejaStock(v, ls, nn, tipo)
    <2>1. Vigente(v) => nn.hay /\ nn.mueve = tipo
      <3>1. Vigente(v) /\ v.leido.hay => p.hay  BY <1>3 DEF LeidoBien
      <3> QED  BY <1>4, <3>1
    <2>2. Tocados(nn.lineas) \subseteq Tocados(ls) \cup Tocados(papel[v.id].lineas)
      <3>1. Tocados(Ajenas(v)) \subseteq Tocados(papel[v.id].lineas)
        <4>1. Tocados(<<>>) = {}
          <5>1. DOMAIN <<>> = {}  OBVIOUS
          <5> QED  BY <5>1 DEF Tocados
        <4> QED  BY <4>1 DEF Ajenas
      <3>2. Tocados(Ajenas(v) \o ls) = Tocados(Ajenas(v)) \cup Tocados(ls)
        BY <1>3, <1>5, TocadosUnion
      <3>3. nn.lineas = Ajenas(v) \o ls  OBVIOUS
      <3> HIDE DEF nn
      <3> QED  BY <3>1, <3>2, <3>3
    <2>3. stock' = [b \in Articulos |-> stock[b] - Movimiento(Originales(v), tipo, b)
                                              + Movimiento(ls, tipo, b)]
      BY <1>2
    <2> HIDE DEF nn, ls, v
    <2> QED  BY <2>1, <2>2, <2>3 DEF DejaStock
  <1>13. AvisaStock(v, ls, tipo)
    <2> HIDE DEF v
    <2> QED  BY <1>3, <1>8, SorpresasDeStock DEF v
  <1> HIDE DEF nn
  <1> QED  BY <1>1, <1>2, <1>3, <1>9, <1>11, <1>12, <1>13

LEMMA BorraEs ==
  ASSUME IInvExistencias, StockBien, NEW f \in Formularios, BorraPapel(f)
  PROVE  \E n : \E tipo \in BOOLEAN :
           LET v == formulario[f]
           IN  /\ Editando(f) /\ <<>> \in Seq(Detalles)
               /\ Graba(f, <<>>, n) /\ Deja(v, <<>>, n) /\ Avisa(v, <<>>)
               /\ DejaStock(v, <<>>, n, tipo) /\ AvisaStock(v, <<>>, tipo)
  <1> DEFINE w == formulario[f]
             v == [w EXCEPT !.lineas = <<>>]
             ls == <<>>
             m == Facturados(Originales(v), ls)
             p == papel[v.id]
             n == [m[v.id] EXCEPT !.hay = FALSE, !.lineas = Ajenas(v), !.grabada = p.grabada + 1]
  <1>1. /\ Editando(f) /\ v.leido.hay /\ Grabadas < MaxGrabadas
        /\ papel' = [m EXCEPT ![v.id] = n]
        /\ dudoso' = dudoso \cup Sorpresas(v, v.leido.mueve)
        /\ formulario' = [formulario EXCEPT ![f] = Ninguno] /\ compra' = compra
        /\ stock' = [b \in Articulos |-> stock[b] - Movimiento(Originales(v), v.leido.mueve, b)]
    <2>1. \A mm : [mm EXCEPT ![v.id] = [@ EXCEPT !.hay = FALSE, !.lineas = Ajenas(v),
                                             !.grabada = papel[v.id].grabada + 1]]
             = [mm EXCEPT ![v.id] = [mm[v.id] EXCEPT !.hay = FALSE, !.lineas = Ajenas(v),
                                             !.grabada = papel[v.id].grabada + 1]]
      OBVIOUS
    <2> QED  BY DEF BorraPapel, Edita
  <1>2. w \in DeFormulario /\ LeidoBien(w) /\ w.id \in Papeles /\ w.leido \in PapelesGuardados
        /\ w.leido.lineas \in Seq(Detalles)
    BY <1>1, FormularioTipo
  <1>3. v.id = w.id /\ v.leido = w.leido /\ v.lineas = ls /\ ls \in Seq(Detalles) /\ v \in DeFormulario
    <2>1. <<>> \in Seq(Detalles)  OBVIOUS
    <2> QED  BY <1>2, <2>1 DEF DeFormulario
  <1> HIDE DEF v
  <1>4. LeidoBien(v) /\ Originales(v) \in Seq(Detalles) /\ v.id \in Papeles
        /\ (Vigente(v) <=> Vigente(w)) /\ v.leido \in PapelesGuardados
    BY <1>2, <1>3, TraeDeNada DEF LeidoBien, Vigente, Originales
  <1>5. /\ Originales(w) = Originales(v) /\ w.id = v.id
    BY <1>3 DEF Originales
  <1>6. Ajenas(v) \in Seq(Detalles) /\ TraeDe(Ajenas(v)) \subseteq TraeDe(papel[v.id].lineas)
        /\ Len(Ajenas(v)) <= MaxLineas
    <2>1. papel[v.id].lineas \in Seq(Detalles) /\ Len(papel[v.id].lineas) <= MaxLineas
      BY <1>4, PapelTipo
    <2>2. <<>> \in Seq(Detalles) /\ Len(<<>>) = 0 /\ MaxLineas >= 0
      BY ExistenciasAssumption
    <2> QED  BY <2>1, <2>2, TraeDeNada DEF Ajenas
  <1>7. m[v.id] \in PapelesGuardados
    <2> HIDE DEF ls
    <2> QED  BY <1>3, <1>4, FacturadosBien
  <1>8. p.grabada + 1 \in 0 .. MaxGrabadas  BY <1>1, <1>4, GrabadasCota
  <1> HIDE DEF m, p
  <1>9. /\ n \in PapelesGuardados /\ n.lineas = Ajenas(v) /\ n.facturado = m[v.id].facturado
        /\ n.grabada = p.grabada + 1
    BY <1>6, <1>7, <1>8 DEF PapelesGuardados
  <1> HIDE DEF n
  <1>10. Deja(w, ls, n)
    <2>1. Vigente(w) => n.lineas = ls  BY <1>4, <1>9 DEF Ajenas
    <2>2. TraeDe(ls) = {}  BY TraeDeNada
    <2> HIDE DEF w
    <2> QED  BY <1>5, <1>6, <1>9, <2>1, <2>2 DEF Deja, m, p
  <1>11. Avisa(v, ls)
    <2>1. Sorpresas(v, v.leido.mueve) \subseteq dudoso'  BY <1>1
    <2> HIDE DEF w, ls
    <2> QED  BY <1>3, <1>4, <2>1, SorpresasAvisan
  <1>12. Avisa(w, ls)  BY <1>4, <1>5, <1>11 DEF Avisa
  <1>13. Graba(f, ls, n)
    <2>1. Sorpresas(v, v.leido.mueve) \subseteq Articulos \cup Albaranes
      BY <1>3, <1>4, SorpresasTipo
    <2>2. dudoso' \subseteq Articulos \cup Albaranes
      BY <1>1, <2>1 DEF IInvExistencias, TiposDeDocumentos
    <2>3. papel' = [Facturados(Originales(w), ls) EXCEPT ![w.id] = n]
      BY <1>1, <1>5 DEF m
    <2> QED  BY <1>1, <2>2, <2>3 DEF Graba
  <1> DEFINE tipo == v.leido.mueve
  <1>14. tipo \in BOOLEAN  BY <1>4 DEF PapelesGuardados
  <1> HIDE DEF tipo
  <1>15. DejaStock(w, ls, n, tipo)
    <2>1. Tocados(Ajenas(v)) \subseteq Tocados(papel[v.id].lineas)
      <3>1. DOMAIN <<>> = {}  OBVIOUS
      <3>2. Tocados(<<>>) = {}  BY <3>1 DEF Tocados
      <3> QED  BY <3>2 DEF Ajenas
    <2>2. \A b \in Articulos : Movimiento(ls, tipo, b) = 0 /\ Movimiento(Originales(v), tipo, b) \in Int
      <3> SUFFICES ASSUME NEW b \in Articulos
                   PROVE  Movimiento(ls, tipo, b) = 0 /\ Movimiento(Originales(v), tipo, b) \in Int
        OBVIOUS
      <3>1. compra \in BOOLEAN  BY DEF IInvExistencias, TiposDeDocumentos
      <3>2. DOMAIN ls = {}  OBVIOUS
      <3> HIDE DEF ls
      <3>3. Movimiento(ls, tipo, b) = SumFunctionOnSet(Mueve(ls, tipo, b), {})
        BY <1>3, <1>14, <3>1, <3>2, MovimientoEs
      <3> QED  BY <1>4, <1>14, <3>1, <3>3, MovimientoEs, SumEmpty
    <2>3. stock' = [b \in Articulos |-> stock[b] - Movimiento(Originales(w), tipo, b)
                                              + Movimiento(ls, tipo, b)]
      <3>1. \A b \in Articulos : stock[b] \in Int  BY DEF StockBien
      <3>2. \A b \in Articulos : stock[b] - Movimiento(Originales(v), tipo, b)
              = stock[b] - Movimiento(Originales(w), tipo, b) + Movimiento(ls, tipo, b)
        BY <1>5, <2>2, <3>1
      <3> QED  BY <1>1, <3>2 DEF tipo
    <2> HIDE DEF w
    <2> QED  BY <1>5, <1>9, <2>1, <2>3 DEF DejaStock
  <1>16. AvisaStock(w, ls, tipo)
    <2>1. Sorpresas(v, tipo) \subseteq dudoso'  BY <1>1 DEF tipo
    <2>2. AvisaStock(v, ls, tipo)
      <3> HIDE DEF w, ls
      <3> QED  BY <1>3, <1>4, <2>1, SorpresasDeStock
    <2> QED  BY <1>3, <1>4, <1>5, <2>2 DEF AvisaStock
  <1> QED  BY <1>1, <1>3, <1>10, <1>12, <1>13, <1>14, <1>15, <1>16

\* Editing keeps what the form has read.
LEMMA PasoEditaStock ==
  ASSUME IInvExistencias, StockBien, NEW f \in Formularios,
         \/ NuevoPapel(f) \/ AbrePapel(f) \/ CierraPapel(f) \/ PonLinea(f) \/ QuitaLinea(f)
         \/ AnadeAlbaran(f) \/ QuitaAlbaran(f) \/ InsertaDetalles(f)
         \/ DuplicaPapel(f) \/ CopiaPapel(f)
  PROVE  StockBien'
  <1>1. ASSUME Quieto, NEW d \in Papeles, NEW ls,
               Edita(f, [id |-> d, leido |-> SinPapel, lineas |-> ls])
        PROVE  StockBien'
    <2> DEFINE v == [id |-> d, leido |-> SinPapel, lineas |-> ls]
    <2>1. Edita(f, v) /\ v.leido.lineas = <<>>  BY <1>1, SinPapelTipo
    <2> HIDE DEF v
    <2> QED  BY <1>1, <2>1, EditaStock
  <1>2. ASSUME Quieto, Editando(f), NEW ls, Edita(f, [formulario[f] EXCEPT !.lineas = ls])
        PROVE  StockBien'
    <2> DEFINE v == [formulario[f] EXCEPT !.lineas = ls]
    <2>1. formulario[f] \in DeFormulario  BY <1>2, FormularioTipo
    <2>2. Edita(f, v) /\ v.leido.lineas = formulario[f].leido.lineas  BY <1>2, <2>1 DEF DeFormulario
    <2> HIDE DEF v
    <2> QED  BY <1>2, <2>2, EditaStock
  <1>3. CASE NuevoPapel(f)  BY <1>1, <1>3 DEF NuevoPapel
  <1>4. CASE AbrePapel(f)
    <2>1. PICK d \in Papeles :
            Edita(f, [id |-> d, leido |-> papel[d], lineas |-> papel[d].lineas])
      BY <1>4 DEF AbrePapel
    <2> DEFINE v == [id |-> d, leido |-> papel[d], lineas |-> papel[d].lineas]
    <2>2. Quieto /\ Edita(f, v) /\ v.leido.lineas = papel[d].lineas  BY <1>4, <2>1 DEF AbrePapel
    <2> HIDE DEF v
    <2> QED  BY <2>2, EditaStock
  <1>5. CASE CierraPapel(f)  BY <1>5, EditaStock DEF CierraPapel
  <1>6. CASE PonLinea(f)
    <2>1. PICK a \in EnVenta, n \in Cantidades :
            Edita(f, [formulario[f] EXCEPT !.lineas =
                       Append(@, [articulo |-> a, cantidad |-> n, albaran |-> Ninguno])])
      BY <1>6 DEF PonLinea
    <2> DEFINE ls == Append(formulario[f].lineas, [articulo |-> a, cantidad |-> n, albaran |-> Ninguno])
    <2>2. Edita(f, [formulario[f] EXCEPT !.lineas = ls])  BY <2>1
    <2> HIDE DEF ls
    <2> QED  BY <1>2, <1>6, <2>2 DEF PonLinea
  <1>7. CASE QuitaLinea(f)
    <2>1. PICK n : Edita(f, [formulario[f] EXCEPT !.lineas = RemoveAt(@, n)])
      BY <1>7 DEF QuitaLinea
    <2> DEFINE ls == RemoveAt(formulario[f].lineas, n)
    <2>2. Edita(f, [formulario[f] EXCEPT !.lineas = ls])  BY <2>1
    <2> HIDE DEF ls
    <2> QED  BY <1>2, <1>7, <2>2 DEF QuitaLinea
  <1>8. CASE AnadeAlbaran(f)
    <2>1. PICK x \in Albaranes : Edita(f, [formulario[f] EXCEPT !.lineas = @ \o Copia(x)])
      BY <1>8 DEF AnadeAlbaran, Copia
    <2> DEFINE ls == formulario[f].lineas \o Copia(x)
    <2>2. Edita(f, [formulario[f] EXCEPT !.lineas = ls])  BY <2>1
    <2> HIDE DEF ls
    <2> QED  BY <1>2, <1>8, <2>2 DEF AnadeAlbaran
  <1>9. CASE QuitaAlbaran(f)
    <2>1. PICK x : Edita(f, [formulario[f] EXCEPT !.lineas = SinAlbaran(@, x)])
      BY <1>9 DEF QuitaAlbaran
    <2> DEFINE ls == SinAlbaran(formulario[f].lineas, x)
    <2>2. Edita(f, [formulario[f] EXCEPT !.lineas = ls])  BY <2>1
    <2> HIDE DEF ls
    <2> QED  BY <1>2, <1>9, <2>2 DEF QuitaAlbaran
  <1>10. CASE InsertaDetalles(f)
    <2>1. PICK c : Edita(f, [formulario[f] EXCEPT !.lineas = @ \o c])
      BY <1>10 DEF InsertaDetalles
    <2> DEFINE ls == formulario[f].lineas \o c
    <2>2. Edita(f, [formulario[f] EXCEPT !.lineas = ls])  BY <2>1
    <2> HIDE DEF ls
    <2> QED  BY <1>2, <1>10, <2>2 DEF InsertaDetalles
  <1>11. CASE DuplicaPapel(f)
    <2>1. Quieto /\ \E e \in Papeles : \E ls :
            Edita(f, [id |-> e, leido |-> SinPapel, lineas |-> ls])
      BY <1>11 DEF DuplicaPapel
    <2> QED  BY <1>1, <2>1
  <1>12. CASE CopiaPapel(f)
    <2>1. Quieto /\ \E e \in Papeles : \E ls :
            Edita(f, [id |-> e, leido |-> SinPapel, lineas |-> ls])
      BY <1>12 DEF CopiaPapel
    <2> QED  BY <1>1, <2>1
  <1> QED  BY <1>3, <1>4, <1>5, <1>6, <1>7, <1>8, <1>9, <1>10, <1>11, <1>12

\* Saving the details ls on the form f writes the document n, and the stock with tipo.
Escribe(f, ls, n, tipo) ==
  /\ Editando(f)
  /\ Graba(f, ls, n) /\ Deja(formulario[f], ls, n) /\ Avisa(formulario[f], ls)
  /\ DejaStock(formulario[f], ls, n, tipo) /\ AvisaStock(formulario[f], ls, tipo)

LEMMA EscribeBien ==
  ASSUME IInvExistencias, StockBien, NEW f \in Formularios, NEW ls \in Seq(Detalles),
         NEW n, NEW tipo \in BOOLEAN, Escribe(f, ls, n, tipo)
  PROVE  IInvExistencias' /\ StockBien'
  <1>1. /\ Editando(f)
        /\ Graba(f, ls, n) /\ Deja(formulario[f], ls, n) /\ Avisa(formulario[f], ls)
        /\ DejaStock(formulario[f], ls, n, tipo) /\ AvisaStock(formulario[f], ls, tipo)
    BY DEF Escribe
  <1>2. IInvExistencias'  BY <1>1, GrabaBien
  <1>3. StockBien'  BY <1>1, GrabaStock
  <1> QED  BY <1>2, <1>3

LEMMA PasoGraba ==
  ASSUME IInvExistencias, StockBien, NEW f \in Formularios, GuardaPapel(f) \/ BorraPapel(f)
  PROVE  IInvExistencias' /\ StockBien'
  <1>1. CASE GuardaPapel(f)
    <2>1. /\ formulario[f].lineas \in Seq(Detalles)
          /\ \E n : \E tipo \in BOOLEAN : Escribe(f, formulario[f].lineas, n, tipo)
      BY <1>1, GuardaEs DEF Escribe
    <2> DEFINE ls == formulario[f].lineas
    <2>2. PICK n : \E tipo \in BOOLEAN : Escribe(f, ls, n, tipo)  BY <2>1
    <2>3. PICK tipo \in BOOLEAN : Escribe(f, ls, n, tipo)  BY <2>2
    <2>4. ls \in Seq(Detalles)  BY <2>1
    <2> HIDE DEF ls
    <2> QED  BY <2>3, <2>4, EscribeBien
  <1>2. CASE BorraPapel(f)
    <2>1. PICK n : \E tipo \in BOOLEAN : Escribe(f, <<>>, n, tipo)  BY <1>2, BorraEs DEF Escribe
    <2>2. PICK tipo \in BOOLEAN : Escribe(f, <<>>, n, tipo)  BY <2>1
    <2>3. <<>> \in Seq(Detalles)  OBVIOUS
    <2> QED  BY <2>2, <2>3, EscribeBien
  <1> QED  BY <1>1, <1>2

-------------------------------------------------------------------------------
(* The invariant.                                                            *)

LEMMA InicioIInv == IniciaExistencias => IInvExistencias
  <1> SUFFICES ASSUME IniciaExistencias PROVE IInvExistencias  OBVIOUS
  <1> USE DEF IniciaExistencias
  <1>1. \A d \in Papeles : papel[d] = SinPapel  OBVIOUS
  <1>2. TiposDeDocumentos
    <2>1. papel \in [Papeles -> PapelesGuardados]  BY SinPapelTipo
    <2>2. \A d \in Papeles : Len(papel[d].lineas) <= MaxLineas
      <3>1. Len(<<>>) = 0 /\ 0 <= MaxLineas  BY ExistenciasAssumption
      <3> QED  BY <1>1, <3>1, SinPapelTipo
    <2>3. \A d \in Albaranes : TraeDe(papel[d].lineas) = {}  BY <1>1, SinPapelTipo DEF Papeles
    <2>4. \A d \in Facturas : ~papel[d].facturado  BY <1>1 DEF Papeles, SinPapel
    <2> QED  BY <2>1, <2>2, <2>3, <2>4 DEF TiposDeDocumentos
  <1>3. SinGrabar  BY <1>1, SinPapelTipo DEF SinGrabar
  <1>4. LoLeido  BY DEF LoLeido, Editando
  <1>5. NotasBien
    <2> SUFFICES ASSUME NEW x \in Albaranes PROVE NotaBien(x)  BY DEF NotasBien
    <2>1. ~papel[x].facturado  BY <1>1 DEF Papeles, SinPapel
    <2>2. \A d \in Facturas : ~Tiene(d, x)  BY <1>1, SinPapelTipo DEF Tiene, Papeles
    <2> QED  BY <2>1, <2>2 DEF NotaBien
  <1> QED  BY <1>2, <1>3, <1>4, <1>5 DEF IInvExistencias

LEMMA InicioStock == IniciaExistencias => StockBien
  <1> SUFFICES ASSUME IniciaExistencias PROVE StockBien  OBVIOUS
  <1> USE DEF IniciaExistencias
  <1>1. \A d \in Papeles : ~papel[d].hay /\ papel[d].lineas = <<>>  BY SinPapelTipo
  <1>2. IsFiniteSet(Papeles)  BY FS_Union, ExistenciasAssumption DEF Papeles
  <1>3. \A b \in Articulos : Total(papel, b) = 0
    <2>1. \A b \in Articulos : \A d \in Papeles : Aporta(papel, b)[d] = 0  BY <1>1 DEF Aporta
    <2> QED  BY <1>2, <2>1, SumZero DEF Total
  <1>4. Traidas
    <2>1. DOMAIN <<>> = {}  OBVIOUS
    <2> QED  BY <1>1, <2>1 DEF Traidas, SinTraidas, Editando
  <1> QED  BY <1>3, <1>4 DEF StockBien

LEMMA NadaIInv ==
  IInvExistencias /\ StockBien /\ UNCHANGED varExistencias => IInvExistencias' /\ StockBien'
  <1> SUFFICES ASSUME IInvExistencias, StockBien, UNCHANGED varExistencias
               PROVE  IInvExistencias' /\ StockBien'
    OBVIOUS
  <1> USE DEF varExistencias
  <1>1. TiposDeDocumentos'  BY DEF IInvExistencias, TiposDeDocumentos, TraeDe
  <1>2. SinGrabar'  BY DEF IInvExistencias, SinGrabar
  <1>3. LoLeido'  BY DEF IInvExistencias, LoLeido, LeidoBien, Vigente, Editando
  <1>4. NotasBien'  BY DEF IInvExistencias, NotasBien, NotaBien, Tiene, Copia
  <1>5. Traidas'  BY DEF StockBien, Traidas, SinTraidas, Editando
  <1>6. StockBien'  BY <1>5 DEF StockBien
  <1> QED  BY <1>1, <1>2, <1>3, <1>4, <1>6 DEF IInvExistencias

LEMMA PasoIInv ==
  IInvExistencias /\ StockBien /\ [SigueExistencias]_varExistencias => IInvExistencias' /\ StockBien'
  <1> SUFFICES ASSUME IInvExistencias, StockBien, [SigueExistencias]_varExistencias
               PROVE  IInvExistencias' /\ StockBien'
    OBVIOUS
  <1>1. CASE UNCHANGED varExistencias  BY <1>1, NadaIInv
  <1>2. CASE SigueExistencias
    <2>1. PICK f \in Formularios : PasoExistencias(f)  BY <1>2 DEF SigueExistencias
    <2>2. CASE GuardaPapel(f) \/ BorraPapel(f)  BY <2>2, PasoGraba
    <2>3. CASE ~(GuardaPapel(f) \/ BorraPapel(f))
      <3>1. \/ NuevoPapel(f) \/ AbrePapel(f) \/ CierraPapel(f) \/ PonLinea(f) \/ QuitaLinea(f)
            \/ AnadeAlbaran(f) \/ QuitaAlbaran(f) \/ InsertaDetalles(f)
            \/ DuplicaPapel(f) \/ CopiaPapel(f)
        BY <2>1, <2>3 DEF PasoExistencias
      <3>2. IInvExistencias'
        BY <3>1, PasoNuevo, PasoAbre, PasoCierra, PasoPonLinea, PasoQuitaLinea, PasoAnadeAlbaran,
           PasoQuitaAlbaran, PasoInserta, PasoDuplica, PasoCopia
      <3> QED  BY <3>1, <3>2, PasoEditaStock
    <2> QED  BY <2>2, <2>3
  <1> QED  BY <1>1, <1>2

LEMMA SiempreIInv == SpecExistencias => [](IInvExistencias /\ StockBien)
  BY InicioIInv, InicioStock, PasoIInv, PTL DEF SpecExistencias

LEMMA IInvFacturado == IInvExistencias => FacturadoUnaVez
  <1> SUFFICES ASSUME IInvExistencias, NEW x \in Albaranes \ dudoso, papel[x].hay
               PROVE  LET suyas == {d \in Facturas : papel[d].hay /\ x \in TraeDe(papel[d].lineas)}
                      IN  /\ papel[x].lineas # <<>> => (papel[x].facturado <=> suyas # {})
                          /\ Cardinality(suyas) <= 1
                          /\ \A d \in suyas :
                               DeAlbaran(papel[d].lineas, x)
                                 = [n \in DOMAIN papel[x].lineas |->
                                      [papel[x].lineas[n] EXCEPT !.albaran = x]]
    BY DEF FacturadoUnaVez
  <1> DEFINE suyas == {d \in Facturas : papel[d].hay /\ x \in TraeDe(papel[d].lineas)}
  <1>1. NotaBien(x)  BY DEF IInvExistencias, NotasBien
  <1>2. \A d : d \in suyas <=> d \in Facturas /\ Tiene(d, x)  BY <1>1 DEF NotaBien, Tiene
  <1> HIDE DEF suyas
  <1>3. papel[x].facturado <=> suyas # {}  BY <1>1, <1>2 DEF NotaBien
  <1>4. Cardinality(suyas) <= 1
    <2>1. CASE suyas = {}
      <3>1. Cardinality(suyas) = 0  BY <2>1, FS_EmptySet
      <3> QED  BY <3>1
    <2>2. CASE suyas # {}
      <3>1. PICK d : d \in suyas  BY <2>2
      <3>2. suyas = {d}  BY <1>1, <1>2, <3>1 DEF NotaBien
      <3>3. Cardinality(suyas) = 1  BY <3>2, FS_Singleton
      <3> QED  BY <3>3
    <2> QED  BY <2>1, <2>2
  <1>5. \A d \in suyas : DeAlbaran(papel[d].lineas, x) = Copia(x)  BY <1>1, <1>2 DEF NotaBien
  <1> QED  BY <1>3, <1>4, <1>5 DEF suyas, Copia

\* A note that nothing happened to is marked as invoiced exactly while one invoice has its
\* details, all of them, for any number of forms, documents and articles: actAlbaranes and
\* the list of slotAddAlbaran keep the marks and the details together.
THEOREM FacturadoSiempre == SpecExistencias => []FacturadoUnaVez
  BY SiempreIInv, IInvFacturado, PTL

\* The types of the stock, the documents and the forms, no note with details of another and
\* no invoice marked as invoiced, for any number of them.
THEOREM TiposDeExistencias == SpecExistencias => []TypeOKExistencias
  <1>1. IInvExistencias /\ StockBien => TypeOKExistencias
    BY DEF IInvExistencias, StockBien, TiposDeDocumentos, DeFormulario, TypeOKExistencias
  <1> QED  BY <1>1, SiempreIInv, PTL

\* The stock of an article to which nothing happened is what the documents stored say that
\* came in or went out, after any number of documents saved, changed, invoiced, duplicated
\* and removed: actStocks is right by differences.
THEOREM ExistenciasSiempre == SpecExistencias => []ExistenciasCuadran
  <1>1. IInvExistencias /\ StockBien => ExistenciasCuadran
    <2> SUFFICES ASSUME IInvExistencias, StockBien, NEW a \in Articulos \ dudoso
                 PROVE  stock[a] = IF compra THEN Movido(a) ELSE -Movido(a)
      BY DEF ExistenciasCuadran
    <2> QED  BY MovidoEs DEF StockBien
  <1> QED  BY <1>1, SiempreIInv, PTL

-------------------------------------------------------------------------------
(* Details in order.                                                         *)

\* The places of a list.
LEMMA Lugares ==
  ASSUME NEW D, NEW ls \in Seq(D), NEW ns \in SUBSET DOMAIN ls
  PROVE  /\ DOMAIN ls = 1 .. Len(ls) /\ Len(ls) \in Nat
         /\ ns \in SUBSET Nat /\ IsFiniteSet(ns) /\ Cardinality(ns) \in Nat /\ IsFiniteSet(DOMAIN ls)
  <1>1. DOMAIN ls = 1 .. Len(ls) /\ Len(ls) \in Nat  OBVIOUS
  <1>2. IsFiniteSet(1 .. Len(ls))  BY <1>1, FS_Interval
  <1> QED  BY <1>1, <1>2, FS_Subset, FS_CardinalityType

LEMMA ElegidosEs ==
  ASSUME NEW D, NEW ls \in Seq(D), NEW ns \in SUBSET DOMAIN ls, NEW s, Ordered(s, ns)
  PROVE  Elegidos(ls, ns) = [i \in 1 .. Cardinality(ns) |-> ls[s[i]]]
  <1> DEFINE k == Cardinality(ns)
             Ord(r) == \A i, j \in 1 .. k : i < j => r[i] < r[j]
             t == CHOOSE r \in [1 .. k -> ns] : Ord(r)
  <1>1. ns \in SUBSET Nat /\ IsFiniteSet(ns)  BY Lugares
  <1>2. s \in [1 .. k -> ns] /\ Ord(s)  BY DEF Ordered
  <1>3. t \in [1 .. k -> ns] /\ Ord(t)
    <2> HIDE DEF k, Ord
    <2> QED  BY <1>2
  <1>4. Ordered(t, ns)
    <2> HIDE DEF t
    <2> QED  BY <1>3 DEF Ordered
  <1>5. t = s
    <2> HIDE DEF t
    <2> QED  BY <1>1, <1>4, OrderUnique
  <1>6. Elegidos(ls, ns) = [i \in 1 .. k |-> ls[t[i]]]  BY DEF Elegidos
  <1> QED  BY <1>5, <1>6

LEMMA HayOrden ==
  ASSUME NEW D, NEW ls \in Seq(D), NEW ns \in SUBSET DOMAIN ls
  PROVE  \E s : Ordered(s, ns)
  <1>1. ns \in SUBSET Nat /\ IsFiniteSet(ns)  BY Lugares
  <1> QED  BY <1>1, SortedExists

LEMMA ElegidosTipo ==
  ASSUME NEW D, NEW ls \in Seq(D), NEW ns \in SUBSET DOMAIN ls
  PROVE  Elegidos(ls, ns) \in Seq(D) /\ Len(Elegidos(ls, ns)) = Cardinality(ns)
  <1>1. PICK s : Ordered(s, ns)  BY HayOrden
  <1> DEFINE n == Cardinality(ns)
             e == [i \in 1 .. n |-> ls[s[i]]]
  <1>2. Elegidos(ls, ns) = e  BY <1>1, ElegidosEs
  <1>3. n \in Nat  BY Lugares
  <1>4. \A i \in 1 .. n : s[i] \in DOMAIN ls  BY <1>1 DEF Ordered
  <1>5. e \in [1 .. n -> D]  BY <1>4
  <1> HIDE DEF e, n
  <1>6. e \in Seq(D) /\ Len(e) = n  BY <1>3, <1>5
  <1> QED  BY <1>2, <1>6 DEF n

\* Of what was chosen, those in the places B are those that were there in the list.
LEMMA ElegidosDeElegidos ==
  ASSUME NEW D, NEW ls \in Seq(D), NEW A \in SUBSET DOMAIN ls, NEW B \in SUBSET A, NEW s, Ordered(s, A)
  PROVE  Elegidos(Elegidos(ls, A), {k \in 1 .. Cardinality(A) : s[k] \in B}) = Elegidos(ls, B)
  <1> DEFINE a == Cardinality(A)
             es == Elegidos(ls, A)
             C == {k \in 1 .. a : s[k] \in B}
             c == Cardinality(C)
  <1>1. es \in Seq(D) /\ Len(es) = a /\ DOMAIN es = 1 .. a
    <2>1. es \in Seq(D) /\ Len(es) = a  BY ElegidosTipo
    <2> HIDE DEF es, a
    <2> QED  BY <2>1
  <1>2. A \in SUBSET Nat /\ IsFiniteSet(A)  BY Lugares
  <1>3. s \in [1 .. a -> A] /\ \A i, j \in 1 .. a : i < j => s[i] < s[j]  BY DEF Ordered
  <1>4. C \in SUBSET DOMAIN es  BY <1>1
  <1>5. PICK t : Ordered(t, C)
    <2> HIDE DEF es, C
    <2> QED  BY <1>1, <1>4, HayOrden
  <1> DEFINE u == [i \in 1 .. c |-> s[t[i]]]
  <1>6. t \in [1 .. c -> C] /\ \A i, j \in 1 .. c : i < j => t[i] < t[j]  BY <1>5 DEF Ordered
  <1>7. IsFiniteSet(C)
    <2> HIDE DEF es, C
    <2> QED  BY <1>1, <1>4, Lugares
  <1>8. Cardinality(B) = c
    <2> DEFINE f == [k \in C |-> s[k]]
    <2>1. f \in [C -> B]  OBVIOUS
    <2>2. \A x, y \in C : f[x] = f[y] => x = y  BY <1>2, OrderedOnto
    <2>3. \A y \in B : \E x \in C : f[x] = y  BY <1>2, OrderedOnto
    <2>4. f \in Bijection(C, B)
      <3> HIDE DEF f, C
      <3> QED  BY <2>1, <2>2, <2>3 DEF Bijection, Injection, Surjection, IsInjective
    <2>5. ExistsBijection(C, B)  BY <2>4 DEF ExistsBijection
    <2> QED  BY <1>7, <2>5, FS_Bijection
  <1>9. Ordered(u, B)
    <2>1. \A i \in 1 .. c : t[i] \in 1 .. a /\ s[t[i]] \in B  BY <1>6
    <2>2. u \in [1 .. c -> B]  BY <2>1
    <2>3. \A i, j \in 1 .. c : i < j => u[i] < u[j]  BY <1>3, <1>6, <2>1
    <2> HIDE DEF u, c
    <2> QED  BY <1>8, <2>2, <2>3 DEF Ordered
  <1>10. B \in SUBSET DOMAIN ls  OBVIOUS
  <1>11. Elegidos(ls, B) = [i \in 1 .. c |-> ls[u[i]]]
    <2> HIDE DEF u, c
    <2> QED  BY <1>8, <1>9, <1>10, ElegidosEs
  <1>12. es = [i \in 1 .. a |-> ls[s[i]]]  BY ElegidosEs
  <1>13. Elegidos(es, C) = [i \in 1 .. c |-> es[t[i]]]
    <2> HIDE DEF es, C
    <2> QED  BY <1>1, <1>4, <1>5, ElegidosEs
  <1>14. \A i \in 1 .. c : es[t[i]] = ls[u[i]]
    <2> HIDE DEF es, C
    <2>1. \A i \in 1 .. c : t[i] \in 1 .. a  BY <1>6 DEF C
    <2> QED  BY <1>12, <2>1
  <1>15. Elegidos(es, C) = Elegidos(ls, B)
    <2> HIDE DEF es, C, c, u
    <2> QED  BY <1>11, <1>13, <1>14
  <1> QED  BY <1>15

LEMMA ElegidosDeAppend ==
  ASSUME NEW D, NEW ls \in Seq(D), NEW x \in D, NEW ns \in SUBSET DOMAIN ls
  PROVE  Elegidos(Append(ls, x), ns) = Elegidos(ls, ns)
  <1>1. PICK s : Ordered(s, ns)  BY HayOrden
  <1> DEFINE k == Cardinality(ns)
             ms == Append(ls, x)
  <1>2. ms \in Seq(D) /\ ns \in SUBSET DOMAIN ms /\ \A i \in DOMAIN ls : ms[i] = ls[i]  OBVIOUS
  <1>3. Elegidos(ms, ns) = [i \in 1 .. k |-> ms[s[i]]]
    <2> HIDE DEF ms
    <2> QED  BY <1>1, <1>2, ElegidosEs
  <1>4. Elegidos(ls, ns) = [i \in 1 .. k |-> ls[s[i]]]  BY <1>1, ElegidosEs
  <1>5. \A i \in 1 .. k : s[i] \in DOMAIN ls  BY <1>1 DEF Ordered
  <1> HIDE DEF ms, k
  <1>6. \A i \in 1 .. k : ms[s[i]] = ls[s[i]]  BY <1>2, <1>5
  <1>7. Elegidos(ms, ns) = Elegidos(ls, ns)  BY <1>3, <1>4, <1>6
  <1> QED  BY <1>7 DEF ms

-------------------------------------------------------------------------------
(* The details of an invoice.                                                *)

\* One that says nothing has nothing else.
Renglones == {l \in [texto : Textos \cup {SinTexto}, nota : Notas \cup {SinNota}, nlinea : Nat] :
                l.texto = SinTexto => l = Vacio}
DeLinea(ls) == {n \in DOMAIN ls : ~EsVacio(ls[n])}
DeNota(ls)  == {n \in DOMAIN ls : ls[n].nota # SinNota}
Montos(ls)  == [n \in DOMAIN ls |-> Importe(ls[n])]

LEMMA VacioTipo == Vacio \in Renglones /\ Vacio.nota = SinNota /\ EsVacio(Vacio)
  BY DEF Renglones, Vacio, EsVacio

LEMMA ImporteTipo ==
  ASSUME NEW l \in Renglones
  PROVE  Importe(l) \in Int /\ (EsVacio(l) => Importe(l) = 0) /\ (l.nota # SinNota => ~EsVacio(l))
  BY VacioTipo, ImporteDeAssumption DEF Renglones, Importe, EsVacio

LEMMA SumaDeEs ==
  ASSUME NEW ls \in Seq(Renglones)
  PROVE  /\ SumaDe(ls) = SumFunctionOnSet(Montos(ls), DOMAIN ls) /\ SumaDe(ls) \in Int
         /\ \A n \in DOMAIN ls : Montos(ls)[n] = Importe(ls[n]) /\ Montos(ls)[n] \in Int
         /\ IsFiniteSet(DOMAIN ls)
  <1>1. SumaDe(ls) = SumFunctionOnSet(Montos(ls), DOMAIN ls)  BY DEF SumaDe, SumFunction, Montos
  <1>2. \A n \in DOMAIN ls : ls[n] \in Renglones  OBVIOUS
  <1>3. \A n \in DOMAIN ls : Montos(ls)[n] = Importe(ls[n]) /\ Montos(ls)[n] \in Int
    BY <1>2, ImporteTipo DEF Montos
  <1>4. IsFiniteSet(DOMAIN ls)  BY Lugares
  <1> QED  BY <1>1, <1>3, <1>4, SumInt

\* What is saved of the details has them all but the empty ones.
LEMMA EscritosIgual ==
  ASSUME NEW ls \in Seq(Renglones)
  PROVE  /\ Escritos(ls) \in Seq(Renglones) /\ Escritos(Escritos(ls)) = Escritos(ls)
         /\ DeNotas(Escritos(ls)) = DeNotas(ls) /\ SumaDe(Escritos(ls)) = SumaDe(ls)
  <1> DEFINE A == DeLinea(ls)
             B == DeNota(ls)
             a == Cardinality(A)
             es == Escritos(ls)
  <1>1. A \in SUBSET DOMAIN ls /\ B \in SUBSET A  BY ImporteTipo DEF DeLinea, DeNota
  <1>2. es = Elegidos(ls, A)  BY DEF Escritos, DeLinea
  <1>3. PICK s : Ordered(s, A)  BY <1>1, HayOrden
  <1>4. es = [i \in 1 .. a |-> ls[s[i]]] /\ es \in Seq(Renglones)  BY <1>1, <1>2, <1>3, ElegidosEs, ElegidosTipo
  <1>5. s \in [1 .. a -> A] /\ A \in SUBSET Nat /\ IsFiniteSet(A)  BY <1>1, <1>3, Lugares DEF Ordered
  <1>6. DOMAIN es = 1 .. a /\ \A i \in 1 .. a : es[i] = ls[s[i]] /\ s[i] \in A  BY <1>4, <1>5
  <1> HIDE DEF A, B, a, es
  <1>7. Escritos(es) = es
    <2>0. \A k \in 1 .. a : ~EsVacio(es[k])  BY <1>6 DEF A, DeLinea
    <2>1. {k \in DOMAIN es : ~EsVacio(es[k])} = {k \in 1 .. a : s[k] \in A}  BY <1>6, <2>0
    <2>2. Escritos(es) = Elegidos(es, {k \in 1 .. a : s[k] \in A})  BY <2>1 DEF Escritos
    <2> QED  BY <1>1, <1>2, <1>3, <2>2, ElegidosDeElegidos DEF a
  <1>8. DeNotas(es) = DeNotas(ls)
    <2>0. \A k \in 1 .. a : es[k].nota # SinNota <=> s[k] \in B  BY <1>1, <1>6 DEF B, DeNota
    <2>1. {k \in DOMAIN es : es[k].nota # SinNota} = {k \in 1 .. a : s[k] \in B}  BY <1>6, <2>0
    <2>2. DeNotas(es) = Elegidos(es, {k \in 1 .. a : s[k] \in B})  BY <2>1 DEF DeNotas
    <2>3. DeNotas(ls) = Elegidos(ls, B)  BY DEF DeNotas, B, DeNota
    <2>4. Elegidos(Elegidos(ls, A), {k \in 1 .. a : s[k] \in B}) = Elegidos(ls, B)
      BY <1>1, <1>3, ElegidosDeElegidos DEF a
    <2> QED  BY <1>2, <2>2, <2>3, <2>4
  <1>9. SumaDe(es) = SumaDe(ls)
    <2> DEFINE f == Montos(ls)
               g == Montos(es)
    <2>1. SumaDe(es) = SumFunctionOnSet(g, 1 .. a) /\ \A k \in 1 .. a : g[k] = Importe(es[k]) /\ g[k] \in Int
      BY <1>4, <1>6, SumaDeEs
    <2>2. SumaDe(ls) = SumFunctionOnSet(f, DOMAIN ls) /\ IsFiniteSet(DOMAIN ls)
          /\ \A n \in DOMAIN ls : f[n] = Importe(ls[n]) /\ f[n] \in Int
      BY SumaDeEs
    <2>3. \A n \in DOMAIN ls \ A : f[n] = 0  BY <2>2, ImporteTipo DEF A, DeLinea
    <2>4. \A k \in 1 .. a : s[k] \in A /\ g[k] = f[s[k]]  BY <1>1, <1>6, <2>1, <2>2
    <2>5. /\ \A k, l \in 1 .. a : s[k] = s[l] => k = l
          /\ \A n \in A : \E k \in 1 .. a : n = s[k]
      BY <1>3, <1>5, OrderedOnto DEF a
    <2>6. IsFiniteSet(1 .. a)  BY <1>4, <1>6, Lugares
    <2> HIDE DEF f, g
    <2>7. Renames(g, 1 .. a, f, A, s)  BY <2>1, <2>4, <2>5 DEF Renames
    <2>8. SumFunctionOnSet(g, 1 .. a) = SumFunctionOnSet(f, A)  BY <2>6, <2>7, SumImage
    <2>9. SumFunctionOnSet(f, DOMAIN ls) = SumFunctionOnSet(f, A)  BY <1>1, <2>2, <2>3, SumOfPart
    <2> QED  BY <2>1, <2>2, <2>8, <2>9
  <1> QED  BY <1>4, <1>7, <1>8, <1>9 DEF es

\* An empty detail more changes nothing.
LEMMA ConVacioIgual ==
  ASSUME NEW ls \in Seq(Renglones)
  PROVE  /\ ConVacio(ls) \in Seq(Renglones) /\ Escritos(ConVacio(ls)) = Escritos(ls)
         /\ DeNotas(ConVacio(ls)) = DeNotas(ls) /\ SumaDe(ConVacio(ls)) = SumaDe(ls)
         /\ Len(ConVacio(ls)) # 0 /\ Len(ls) <= Len(ConVacio(ls))
  <1>1. CASE UltimoVacio(ls)
    <2>1. ConVacio(ls) = ls /\ Len(ls) # 0  BY <1>1, EmptySeq DEF ConVacio, UltimoVacio
    <2> QED  BY <2>1
  <1>2. CASE ~UltimoVacio(ls)
    <2> DEFINE ms == Append(ls, Vacio)
               f == Montos(ls)
               g == Montos(ms)
               n == Len(ls)
    <2>1. ConVacio(ls) = ms  BY <1>2 DEF ConVacio
    <2>2. /\ n \in Nat /\ ms \in Seq(Renglones) /\ DOMAIN ls = 1 .. n /\ DOMAIN ms = 1 .. n + 1 /\ Len(ms) = n + 1
          /\ \A i \in 1 .. n : ms[i] = ls[i]
          /\ ms[n + 1] = Vacio
      BY VacioTipo
    <2> HIDE DEF ms, n
    <2>3. DeLinea(ms) = DeLinea(ls) /\ DeNota(ms) = DeNota(ls)
      BY <2>2, VacioTipo DEF DeLinea, DeNota
    <2>4. Escritos(ms) = Escritos(ls) /\ DeNotas(ms) = DeNotas(ls)
      <3>1. DeLinea(ls) \in SUBSET DOMAIN ls /\ DeNota(ls) \in SUBSET DOMAIN ls  BY DEF DeLinea, DeNota
      <3>2. /\ Escritos(ms) = Elegidos(ms, DeLinea(ms)) /\ Escritos(ls) = Elegidos(ls, DeLinea(ls))
            /\ DeNotas(ms) = Elegidos(ms, DeNota(ms)) /\ DeNotas(ls) = Elegidos(ls, DeNota(ls))
        BY DEF Escritos, DeNotas, DeLinea, DeNota
      <3> QED  BY <2>3, <3>1, <3>2, ElegidosDeAppend, VacioTipo DEF ms
    <2>5. SumaDe(ms) = SumaDe(ls)
      <3>1. SumaDe(ms) = SumFunctionOnSet(g, 1 .. n + 1) /\ IsFiniteSet(1 .. n + 1)
            /\ \A i \in 1 .. n + 1 : g[i] = Importe(ms[i]) /\ g[i] \in Int
        BY <2>2, SumaDeEs
      <3>2. SumaDe(ls) = SumFunctionOnSet(f, 1 .. n) /\ IsFiniteSet(1 .. n)
            /\ \A i \in 1 .. n : f[i] = Importe(ls[i])
        BY <2>2, SumaDeEs
      <3>3. 1 .. n \subseteq 1 .. n + 1 /\ \A i \in (1 .. n + 1) \ (1 .. n) : i = n + 1  BY <2>2
      <3>4. \A i \in (1 .. n + 1) \ (1 .. n) : g[i] = 0  BY <2>2, <3>1, <3>3, VacioTipo, ImporteTipo
      <3>5. \A i \in 1 .. n : g[i] = f[i]  BY <2>2, <3>1, <3>2, <3>3
      <3> HIDE DEF f, g
      <3>6. SumFunctionOnSet(g, 1 .. n + 1) = SumFunctionOnSet(g, 1 .. n)  BY <3>1, <3>3, <3>4, SumOfPart
      <3>7. SumFunctionOnSet(g, 1 .. n) = SumFunctionOnSet(f, 1 .. n)  BY <3>2, <3>5, SumSame
      <3> QED  BY <3>1, <3>2, <3>6, <3>7
    <2> QED  BY <2>1, <2>2, <2>4, <2>5 DEF n
  <1> QED  BY <1>1, <1>2

-------------------------------------------------------------------------------
(* What the notes of an invoice were paid.                                   *)

Cambia(ds) == {n \in DOMAIN ds : n = 1 \/ ds[n].nota # ds[n - 1].nota}
Paga(ds)   == [n \in Cambia(ds) |-> PagadoNota[ds[n].nota]]

LEMMA DeNotasEs ==
  ASSUME NEW ls \in Seq(Renglones), NEW s, Ordered(s, DeNota(ls))
  PROVE  /\ DeNotas(ls) \in Seq(Renglones) /\ DOMAIN DeNotas(ls) = 1 .. Cardinality(DeNota(ls))
         /\ \A k \in 1 .. Cardinality(DeNota(ls)) :
              s[k] \in DeNota(ls) /\ DeNotas(ls)[k] = ls[s[k]] /\ DeNotas(ls)[k].nota \in Notas
         /\ \A n \in DeNota(ls) : \E k \in 1 .. Cardinality(DeNota(ls)) : n = s[k]
  <1> DEFINE B == DeNota(ls)
             b == Cardinality(B)
             ds == DeNotas(ls)
  <1>1. B \in SUBSET DOMAIN ls  BY DEF DeNota
  <1>2. ds = Elegidos(ls, B)  BY DEF DeNotas, DeNota
  <1>3. ds = [k \in 1 .. b |-> ls[s[k]]] /\ ds \in Seq(Renglones)  BY <1>1, <1>2, ElegidosEs, ElegidosTipo
  <1>4. s \in [1 .. b -> B] /\ B \in SUBSET Nat /\ IsFiniteSet(B)  BY <1>1, Lugares DEF Ordered
  <1>5. \A n \in B : ls[n] \in Renglones /\ ls[n].nota # SinNota  BY <1>1 DEF DeNota
  <1>6. \A n \in B : \E k \in 1 .. b : n = s[k]  BY <1>4, OrderedOnto
  <1> HIDE DEF B, b, ds
  <1>7. \A n \in B : ls[n].nota \in Notas  BY <1>5 DEF Renglones
  <1>8. DOMAIN ds = 1 .. b /\ \A k \in 1 .. b : s[k] \in B /\ ds[k] = ls[s[k]] /\ ds[k].nota \in Notas
    BY <1>3, <1>4, <1>7
  <1> QED  BY <1>3, <1>6, <1>8 DEF B, b, ds

LEMMA EntregasEs ==
  ASSUME NEW ls \in Seq(Renglones)
  PROVE  /\ Entregas(ls) = SumFunctionOnSet(Paga(DeNotas(ls)), Cambia(DeNotas(ls))) /\ Entregas(ls) \in Int
         /\ IsFiniteSet(Cambia(DeNotas(ls))) /\ Cambia(DeNotas(ls)) \in SUBSET DOMAIN DeNotas(ls)
         /\ \A n \in Cambia(DeNotas(ls)) : Paga(DeNotas(ls))[n] \in Int
  <1> DEFINE ds == DeNotas(ls)
  <1>1. Entregas(ls) = SumFunctionOnSet(Paga(ds), Cambia(ds))  BY DEF Entregas, SumFunction, Paga, Cambia
  <1>2. DeNota(ls) \in SUBSET DOMAIN ls  BY DEF DeNota
  <1>3. PICK s : Ordered(s, DeNota(ls))  BY <1>2, HayOrden
  <1>4. ds \in Seq(Renglones) /\ \A n \in DOMAIN ds : ds[n].nota \in Notas  BY <1>3, DeNotasEs
  <1> HIDE DEF ds
  <1>5. Cambia(ds) \in SUBSET DOMAIN ds  BY DEF Cambia
  <1>6. IsFiniteSet(Cambia(ds))  BY <1>4, <1>5, Lugares
  <1>7. \A n \in Cambia(ds) : Paga(ds)[n] \in Int  BY <1>4, <1>5, PagadoNotaAssumption DEF Paga
  <1>8. SumFunctionOnSet(Paga(ds), Cambia(ds)) \in Int  BY <1>6, <1>7, SumInt
  <1> QED  BY <1>1, <1>5, <1>6, <1>7, <1>8 DEF ds

\* When the details of each note are together each note counts once: where they begin.
LEMMA CadaNotaUnaVez ==
  ASSUME NEW ls \in Seq(Renglones), ~Separados(ls)
  PROVE  Entregas(ls) = SumFunctionOnSet(PagadoNota, {ls[n].nota : n \in DOMAIN ls} \ {SinNota})
  <1> DEFINE ds == DeNotas(ls)
             C == Cambia(ds)
             T == {ls[n].nota : n \in DOMAIN ls} \ {SinNota}
             h == [n \in C |-> ds[n].nota]
             g == Paga(ds)
  <1>1. DeNota(ls) \in SUBSET DOMAIN ls  BY DEF DeNota
  <1>2. PICK s : Ordered(s, DeNota(ls))  BY <1>1, HayOrden
  <1> DEFINE b == Cardinality(DeNota(ls))
  <1>3. /\ ds \in Seq(Renglones) /\ DOMAIN ds = 1 .. b
        /\ \A k \in 1 .. b : s[k] \in DeNota(ls) /\ ds[k] = ls[s[k]] /\ ds[k].nota \in Notas
        /\ \A n \in DeNota(ls) : \E k \in 1 .. b : n = s[k]
    BY <1>2, DeNotasEs
  <1>4. ~ \E i, j, k \in DOMAIN ds : i < j /\ j < k /\ ds[i].nota = ds[k].nota /\ ds[i].nota # ds[j].nota
    BY DEF Separados
  <1>5. /\ Entregas(ls) = SumFunctionOnSet(g, C) /\ IsFiniteSet(C) /\ C \in SUBSET DOMAIN ds
        /\ \A n \in C : g[n] \in Int
    BY EntregasEs
  <1>6. \A k \in 1 .. b : ds[k].nota \in T
    <2>1. \A k \in 1 .. b : s[k] \in DOMAIN ls /\ ls[s[k]].nota # SinNota  BY <1>3 DEF DeNota
    <2> HIDE DEF ds, b
    <2> QED  BY <1>3, <2>1
  <1>7. \A x \in T : \E k \in 1 .. b : x = ds[k].nota
    <2> SUFFICES ASSUME NEW x \in T PROVE \E k \in 1 .. b : x = ds[k].nota  OBVIOUS
    <2>1. PICK n \in DOMAIN ls : x = ls[n].nota /\ n \in DeNota(ls)  BY DEF DeNota
    <2> HIDE DEF ds, b
    <2> QED  BY <1>3, <2>1
  <1>8. b \in Nat  BY <1>1, Lugares
  <1> HIDE DEF ds, b, T
  <1>9. \A m, n \in C : h[m] = h[n] => m = n
    <2>1. \A m, n \in C : m < n => ds[m].nota # ds[n].nota
      <3> SUFFICES ASSUME NEW m \in C, NEW n \in C, m < n, ds[m].nota = ds[n].nota PROVE FALSE  OBVIOUS
      <3>1. m \in 1 .. b /\ n \in 1 .. b /\ n # 1  BY <1>3, <1>5
      <3>2. ds[n].nota # ds[n - 1].nota  BY <3>1 DEF Cambia
      <3>3. n - 1 \in 1 .. b /\ n - 1 < n /\ (m < n - 1 \/ m = n - 1)  BY <1>8, <3>1
      <3> QED  BY <1>3, <1>4, <3>1, <3>2, <3>3
    <2>2. \A m, n \in C : m \in Nat /\ n \in Nat  BY <1>3, <1>5
    <2>3. \A m, n \in C : m = n \/ m < n \/ n < m  BY <2>2
    <2> HIDE DEF C
    <2> QED  BY <2>1, <2>3
  <1>10. \A x \in T : \E n \in C : x = h[n]
    <2> SUFFICES ASSUME NEW x \in T PROVE \E n \in C : x = ds[n].nota  OBVIOUS
    <2> DEFINE P == {k \in 1 .. b : x = ds[k].nota}
    <2>1. P # {}  BY <1>7
    <2>2. P \in SUBSET Nat /\ IsFiniteSet(P)
      <3>1. IsFiniteSet(1 .. b)  BY <1>8, FS_Interval
      <3> QED  BY <1>8, <3>1, FS_Subset
    <2>3. PICK n \in P : \A k \in P : n <= k
      <3> HIDE DEF P
      <3> QED  BY <2>1, <2>2, Least
    <2>4. n \in 1 .. b /\ x = ds[n].nota  OBVIOUS
    <2>5. n = 1 \/ ds[n - 1].nota # ds[n].nota
      <3> SUFFICES ASSUME n # 1, ds[n - 1].nota = ds[n].nota PROVE FALSE  OBVIOUS
      <3>1. n - 1 \in 1 .. b /\ ~(n <= n - 1)  BY <1>8, <2>4
      <3>2. n - 1 \in P  BY <2>4, <3>1
      <3> QED  BY <2>3, <3>1, <3>2
    <2>6. n \in C  BY <1>3, <2>4, <2>5 DEF Cambia
    <2> QED  BY <2>4, <2>6
  <1>11. \A n \in C : h[n] \in T /\ g[n] = PagadoNota[h[n]]  BY <1>3, <1>5, <1>6 DEF Paga
  <1> HIDE DEF C, h, g
  <1>12. Renames(g, C, PagadoNota, T, h)  BY <1>5, <1>9, <1>10, <1>11 DEF Renames
  <1>13. SumFunctionOnSet(g, C) = SumFunctionOnSet(PagadoNota, T)  BY <1>5, <1>12, SumImage
  <1> QED  BY <1>5, <1>13 DEF T

-------------------------------------------------------------------------------
(* Numbers.                                                                  *)

Suben(ls) == \A i, j \in DOMAIN ls : i < j => ls[i].nlinea < ls[j].nlinea

LEMMA NumeraCada ==
  ASSUME NEW ls \in Seq(Renglones), NEW n \in DOMAIN ls
  PROVE  /\ Numera(ls)[n] \in Renglones /\ Numera(ls)[n].nota = ls[n].nota
         /\ EsVacio(Numera(ls)[n]) <=> EsVacio(ls[n])
         /\ Numera(ls)[n].texto = ls[n].texto /\ (~EsVacio(Numera(ls)[n]) => Numera(ls)[n].nlinea = n)
  <1> DEFINE ms == Numera(ls)
             Bien(m) == /\ m[n] \in Renglones /\ m[n].nota = ls[n].nota
                        /\ EsVacio(m[n]) <=> EsVacio(ls[n])
                        /\ m[n].texto = ls[n].texto /\ (~EsVacio(m[n]) => m[n].nlinea = n)
  <1>1. ms[n] = IF EsVacio(ls[n]) THEN ls[n] ELSE [ls[n] EXCEPT !.nlinea = n]  BY DEF Numera
  <1>2. ls[n] \in Renglones /\ n \in Nat \ {0}
    <2>1. DOMAIN ls = 1 .. Len(ls) /\ Len(ls) \in Nat  OBVIOUS
    <2> QED  BY <2>1
  <1> HIDE DEF ms
  <1>3. ASSUME EsVacio(ls[n])  PROVE Bien(ms)  BY <1>1, <1>2, <1>3
  <1>4. ASSUME ~EsVacio(ls[n])  PROVE Bien(ms)
    <2>1. ms[n] = [ls[n] EXCEPT !.nlinea = n]  BY <1>1, <1>4
    <2>2. ms[n].nlinea = n /\ ms[n].texto = ls[n].texto /\ ms[n].nota = ls[n].nota
          /\ ms[n] \in [texto : Textos \cup {SinTexto}, nota : Notas \cup {SinNota}, nlinea : Nat]
      BY <1>2, <2>1 DEF Renglones
    <2>3. ms[n].texto # SinTexto  BY <1>2, <1>4, <2>2 DEF Renglones, EsVacio
    <2>4. ~EsVacio(ms[n])  BY <2>3 DEF EsVacio, Vacio
    <2> QED  BY <1>4, <2>2, <2>3, <2>4 DEF Renglones
  <1>5. Bien(ms)  BY <1>3, <1>4
  <1> QED  BY <1>5 DEF ms

\* To number the details changes neither their sum nor the notes, and the numbers rise.
LEMMA NumeraIgual ==
  ASSUME NEW ls \in Seq(Renglones)
  PROVE  /\ Numera(ls) \in Seq(Renglones) /\ Len(Numera(ls)) = Len(ls)
         /\ SumaDe(Numera(ls)) = SumaDe(ls) /\ Entregas(Numera(ls)) = Entregas(ls)
         /\ Suben(Escritos(Numera(ls)))
  <1> DEFINE ms == Numera(ls)
             N == DOMAIN ls
  <1>1. N = 1 .. Len(ls) /\ Len(ls) \in Nat /\ DOMAIN ms = N
        /\ \A n \in N : ls[n] \in Renglones /\ n \in Nat \ {0}
    BY DEF Numera
  <1>2. ASSUME NEW n \in N
        PROVE  /\ ms[n] \in Renglones /\ ms[n].nota = ls[n].nota
               /\ EsVacio(ms[n]) <=> EsVacio(ls[n])
               /\ ms[n].texto = ls[n].texto /\ (~EsVacio(ms[n]) => ms[n].nlinea = n)
    BY NumeraCada
  <1>3. ms \in Seq(Renglones) /\ Len(ms) = Len(ls)
    <2>1. ms = [n \in N |-> ms[n]]  BY DEF Numera
    <2> HIDE DEF ms
    <2>2. ms \in [1 .. Len(ls) -> Renglones]  BY <1>1, <1>2, <2>1
    <2> QED  BY <1>1, <2>2
  <1> HIDE DEF ms
  <1>4. SumaDe(ms) = SumaDe(ls)
    <2>1. \A n \in N : Importe(ms[n]) = Importe(ls[n])  BY <1>2 DEF Importe
    <2>2. [n \in DOMAIN ms |-> Importe(ms[n])] = [n \in N |-> Importe(ls[n])]  BY <1>1, <2>1
    <2> QED  BY <2>2 DEF SumaDe
  <1>5. Entregas(ms) = Entregas(ls)
    <2> DEFINE B == DeNota(ls)
               ds == DeNotas(ls)
               es == DeNotas(ms)
    <2>1. B \in SUBSET DOMAIN ls  BY DEF DeNota
    <2>2. PICK s : Ordered(s, B)  BY <2>1, HayOrden
    <2>3. DeNota(ms) = B  BY <1>1, <1>2 DEF DeNota
    <2>4. DOMAIN ds = 1 .. Cardinality(B) /\ \A k \in 1 .. Cardinality(B) : s[k] \in B /\ ds[k] = ls[s[k]]
      BY <2>2, DeNotasEs
    <2>5. DOMAIN es = 1 .. Cardinality(B) /\ \A k \in 1 .. Cardinality(B) : es[k] = ms[s[k]]
      BY <1>3, <2>2, <2>3, DeNotasEs
    <2> HIDE DEF ds, es
    <2>6. \A k \in DOMAIN ds : ds[k].nota = es[k].nota  BY <1>2, <2>1, <2>4, <2>5
    <2>7. Cambia(ds) = Cambia(es) /\ Cambia(ds) \in SUBSET DOMAIN ds
      <3>1. \A k \in DOMAIN ds : k # 1 => k - 1 \in DOMAIN ds
        <4>1. Cardinality(B) \in Nat  BY <2>1, Lugares
        <4> QED  BY <2>4, <4>1
      <3> QED  BY <2>4, <2>5, <2>6, <3>1 DEF Cambia
    <2>8. Paga(ds) = Paga(es)  BY <2>6, <2>7 DEF Paga
    <2> QED  BY <1>3, <2>7, <2>8, EntregasEs DEF ds, es
  <1>6. Suben(Escritos(ms))
    <2> DEFINE A == DeLinea(ms)
    <2>1. A \in SUBSET DOMAIN ms  BY DEF DeLinea
    <2>2. PICK s : Ordered(s, A)  BY <1>3, <2>1, HayOrden
    <2>3. Escritos(ms) = Elegidos(ms, A)  BY DEF Escritos, DeLinea
    <2>4. Escritos(ms) = [i \in 1 .. Cardinality(A) |-> ms[s[i]]]  BY <1>3, <2>1, <2>2, <2>3, ElegidosEs
    <2>5. \A i \in 1 .. Cardinality(A) : s[i] \in A /\ ms[s[i]].nlinea = s[i]
      BY <1>1, <1>2, <2>1, <2>2 DEF Ordered, DeLinea
    <2>6. \A i, j \in 1 .. Cardinality(A) : i < j => s[i] < s[j]  BY <2>2 DEF Ordered
    <2> HIDE DEF A
    <2> QED  BY <2>4, <2>5, <2>6 DEF Suben
  <1> QED  BY <1>3, <1>4, <1>5, <1>6 DEF ms

-------------------------------------------------------------------------------
(* The invariant.                                                            *)

Formas  == {"contado", "ignora", "aplazada"}
Totales == [total : Int, albaranes : Int, cobros : Int, entrega : Int, resto : Int]

\* The totals are of the details; nothing is said of an invoice that has only empty ones.
Cuadrada(ls, t, forma) ==
  Escritos(ls) # <<>> =>
    /\ t.total = SumaDe(ls) /\ t.albaranes = Entregas(ls)
    /\ forma # "ignora" => t.total = t.albaranes + t.cobros + t.entrega + t.resto
    /\ Suben(Escritos(ls))

\* The form of a detail is on one of them, and to type a new one on the empty one that is last.
DetalleBien(d, ls) ==
  \/ d = SinDetalle
  \/ /\ d.renglon \in DOMAIN ls /\ d.copia \in Renglones
     /\ d.modo \in {"inserting", "updating", "duplicating", "deleting", "selecting"}
     /\ d.modo = "inserting" => d.renglon = Len(ls) /\ EsVacio(d.copia) /\ EsVacio(ls[d.renglon])

IInvLineas ==
  /\ renglones \in Seq(Renglones) /\ cursor \in Posiciones(renglones)
  /\ DetalleBien(detalle, renglones)
  /\ cabecera \in [cliente : BOOLEAN, forma : Formas]
  /\ totales \in Totales
  /\ Cuadrada(renglones, totales, cabecera.forma)

LEMMA NadaEscrito == Escritos(<<>>) = <<>>
  <1>1. {n \in DOMAIN << >> : ~EsVacio(<< >>[n])} = {}  OBVIOUS
  <1>2. << >> \in Seq(Renglones)  OBVIOUS
  <1>3. {} \in SUBSET DOMAIN << >>  OBVIOUS
  <1>4. Elegidos(<< >>, {}) \in Seq(Renglones) /\ Len(Elegidos(<< >>, {})) = Cardinality({})
    BY <1>2, <1>3, ElegidosTipo
  <1>5. Cardinality({}) = 0  BY FS_EmptySet
  <1> QED  BY <1>1, <1>4, <1>5, EmptySeq DEF Escritos

\* Other details that say the same.
LEMMA MismosDetalles ==
  ASSUME NEW ls, NEW ms, NEW t, NEW forma, Cuadrada(ls, t, forma),
         Escritos(ms) = Escritos(ls), DeNotas(ms) = DeNotas(ls), SumaDe(ms) = SumaDe(ls)
  PROVE  Cuadrada(ms, t, forma)
  <1>1. Entregas(ms) = Entregas(ls)  BY DEF Entregas
  <1> QED  BY <1>1 DEF Cuadrada

\* actTotales.
LEMMA TotalesAlDia ==
  ASSUME NEW ls \in Seq(Renglones), NEW ms, NEW t \in Totales, NEW forma \in Formas,
         SumaDe(ms) = SumaDe(ls), Entregas(ms) = Entregas(ls),
         Escritos(ms) # <<>> => ls # <<>> /\ Suben(Escritos(ms))
  PROVE  ActTotales(ls, t, forma) \in Totales /\ Cuadrada(ms, ActTotales(ls, t, forma), forma)
  <1>1. SumaDe(ls) \in Int /\ Entregas(ls) \in Int  BY SumaDeEs, EntregasEs
  <1> DEFINE suma == SumaDe(ls)
             paga == Entregas(ls)
             r == ActTotales(ls, t, forma)
             pendiente == suma - t.cobros - (IF ls = <<>> THEN 0 ELSE paga)
             entrega == CASE forma = "contado"  -> pendiente
                          [] forma = "ignora"   -> 0
                          [] forma = "aplazada" -> t.entrega
  <1>2. r = [total |-> suma, cobros |-> t.cobros, entrega |-> entrega,
             albaranes |-> IF ls = <<>> THEN t.albaranes ELSE paga,
             resto |-> IF forma = "ignora" THEN 0 ELSE pendiente - entrega]
    BY DEF ActTotales
  <1> HIDE DEF suma, paga, r
  <1>3. suma \in Int /\ paga \in Int  BY <1>1 DEF suma, paga
  <1>4. t.cobros \in Int /\ t.entrega \in Int /\ t.albaranes \in Int  BY DEF Totales
  <1>5. pendiente \in Int  BY <1>3, <1>4
  <1> HIDE DEF pendiente
  <1>6. entrega \in Int  BY <1>4, <1>5 DEF Formas
  <1> HIDE DEF entrega
  <1>7. r \in Totales  BY <1>2, <1>3, <1>4, <1>5, <1>6 DEF Totales
  <1>8. ASSUME Escritos(ms) # <<>>  PROVE Cuadrada(ms, r, forma)
    <2>1. ls # <<>> /\ Suben(Escritos(ms))  BY <1>8
    <2>2. r.total = SumaDe(ms) /\ r.albaranes = Entregas(ms)  BY <1>2, <2>1 DEF suma, paga
    <2>3. pendiente = suma - t.cobros - paga  BY <2>1 DEF pendiente
    <2>4. forma # "ignora" => r.total = r.albaranes + r.cobros + r.entrega + r.resto
      BY <1>2, <1>3, <1>4, <1>5, <1>6, <2>1, <2>3
    <2> QED  BY <2>1, <2>2, <2>4 DEF Cuadrada
  <1> QED  BY <1>7, <1>8 DEF r, Cuadrada

\* updateFromDetails.
LEMMA AlActualizar ==
  ASSUME NEW ls \in Seq(Renglones), NEW t \in Totales, NEW forma \in Formas
  PROVE  /\ Numera(ls) \in Seq(Renglones) /\ DOMAIN Numera(ls) = DOMAIN ls
         /\ ActTotales(ls, t, forma) \in Totales
         /\ Cuadrada(Numera(ls), ActTotales(ls, t, forma), forma)
  <1>1. /\ Numera(ls) \in Seq(Renglones) /\ Len(Numera(ls)) = Len(ls)
        /\ SumaDe(Numera(ls)) = SumaDe(ls) /\ Entregas(Numera(ls)) = Entregas(ls)
        /\ Suben(Escritos(Numera(ls)))
    BY NumeraIgual
  <1>2. DOMAIN Numera(ls) = DOMAIN ls  BY <1>1
  <1>3. Escritos(Numera(ls)) # <<>> => ls # <<>>
    <2> SUFFICES ASSUME ls = <<>> PROVE Escritos(Numera(ls)) = <<>>  OBVIOUS
    <2>1. Len(Numera(ls)) = 0  BY <1>1
    <2>2. Numera(ls) = <<>>  BY <1>1, <2>1, EmptySeq
    <2> QED  BY <2>2, NadaEscrito
  <1> HIDE DEF Formas
  <1> QED  BY <1>1, <1>2, <1>3, TotalesAlDia

\* The lists that the operations make.
LEMMA ListasBien ==
  ASSUME NEW ls \in Seq(Renglones)
  PROVE  /\ \A i \in DOMAIN ls : RemoveAt(ls, i) \in Seq(Renglones)
         /\ \A i, j \in DOMAIN ls : [ls EXCEPT ![i] = ls[j], ![j] = ls[i]] \in Seq(Renglones)
         /\ \A i \in DOMAIN ls, l \in Renglones : [ls EXCEPT ![i] = l] \in Seq(Renglones)
         /\ \A ms \in Seq(Renglones) : Tras(ls, ms) \in Seq(Renglones)
         /\ \A x : SinLaNota(ls, x) \in Seq(Renglones)
  <1>1. ASSUME NEW i \in DOMAIN ls  PROVE RemoveAt(ls, i) \in Seq(Renglones)
    <2>1. i \in 1 .. Len(ls) /\ Len(ls) \in Nat  OBVIOUS
    <2>2. SubSeq(ls, 1, i - 1) \in Seq(Renglones) /\ SubSeq(ls, i + 1, Len(ls)) \in Seq(Renglones)
      BY <2>1, SubSeqProperties
    <2> QED  BY <2>2, ConcatProperties DEF RemoveAt
  <1>2. \A i, j \in DOMAIN ls : [ls EXCEPT ![i] = ls[j], ![j] = ls[i]] \in Seq(Renglones)
    <2> SUFFICES ASSUME NEW i \in DOMAIN ls, NEW j \in DOMAIN ls
                 PROVE  [ls EXCEPT ![i] = ls[j], ![j] = ls[i]] \in Seq(Renglones)
      OBVIOUS
    <2> DEFINE ms == [ls EXCEPT ![i] = ls[j]]
    <2>1. ms \in Seq(Renglones) /\ DOMAIN ms = DOMAIN ls /\ ls[i] \in Renglones /\ ls[j] \in Renglones
      BY ExceptSeq
    <2>2. [ms EXCEPT ![j] = ls[i]] \in Seq(Renglones)
      <3> HIDE DEF ms
      <3> QED  BY <2>1, ExceptSeq
    <2> QED  BY <2>2
  <1>3. \A i \in DOMAIN ls, l \in Renglones : [ls EXCEPT ![i] = l] \in Seq(Renglones)  BY ExceptSeq
  <1>4. ASSUME NEW ms \in Seq(Renglones)  PROVE Tras(ls, ms) \in Seq(Renglones)
    <2>1. CASE UltimoVacio(ls)
      <3>1. Len(ls) \in Nat \ {0}  BY <2>1, EmptySeq DEF UltimoVacio
      <3>2. Front(ls) \in Seq(Renglones)  BY <3>1, SubSeqProperties DEF Front
      <3> QED  BY <3>2, ConcatProperties DEF Tras
    <2>2. CASE ~UltimoVacio(ls)  BY <2>2, ConcatProperties DEF Tras
    <2> QED  BY <2>1, <2>2
  <1>5. ASSUME NEW x  PROVE SinLaNota(ls, x) \in Seq(Renglones)
    <2>1. {n \in DOMAIN ls : ls[n].nota # x} \in SUBSET DOMAIN ls  OBVIOUS
    <2> QED  BY <2>1, ElegidosTipo DEF SinLaNota
  <1> QED  BY <1>1, <1>2, <1>3, <1>4, <1>5

LEMMA LineasAlEmpezar == InitLineas => IInvLineas
  <1> SUFFICES ASSUME InitLineas PROVE IInvLineas  OBVIOUS
  <1>1. renglones = <<Vacio>> /\ renglones \in Seq(Renglones) /\ DOMAIN renglones = {1} /\ renglones # <<>>
    BY VacioTipo DEF InitLineas
  <1>2. {n \in DOMAIN renglones : ~EsVacio(renglones[n])} = {}  BY <1>1, VacioTipo
  <1>3. Escritos(renglones) = <<>>
    <2>1. {} \in SUBSET DOMAIN renglones  OBVIOUS
    <2>2. Elegidos(renglones, {}) \in Seq(Renglones) /\ Len(Elegidos(renglones, {})) = Cardinality({})
      BY <1>1, <2>1, ElegidosTipo
    <2>3. Cardinality({}) = 0  BY FS_EmptySet
    <2> QED  BY <1>2, <2>2, <2>3, EmptySeq DEF Escritos
  <1>4. Cuadrada(renglones, totales, cabecera.forma)  BY <1>3 DEF Cuadrada
  <1>5. cursor \in Posiciones(renglones)  BY <1>1 DEF InitLineas, Posiciones
  <1>6. cabecera \in [cliente : BOOLEAN, forma : Formas] /\ totales \in Totales
    BY DEF InitLineas, Formas, Totales
  <1>7. DetalleBien(detalle, renglones)  BY DEF InitLineas, DetalleBien
  <1> QED  BY <1>1, <1>4, <1>5, <1>6, <1>7 DEF IInvLineas

Modos == {"default", "inserting", "updating", "duplicating", "deleting", "selecting"}

\* The last detail after addDetailIfNeeded.
LEMMA ElUltimo ==
  ASSUME NEW ls \in Seq(Renglones)
  PROVE  ConVacio(ls)[Len(ConVacio(ls))] = Vacio
  BY DEF ConVacio, UltimoVacio, EsVacio, Last

LEMMA BeginEditSigue ==
  ASSUME IInvLineas, NEW modo \in Modos, BeginEdit(modo)
  PROVE  IInvLineas'
  <1> DEFINE ls == IF modo \in {"deleting", "selecting"} THEN renglones ELSE ConVacio(renglones)
             n  == IF ls = renglones THEN cursor ELSE Len(ls)
             m  == ModoDe(ls[n], modo)
             r  == IF m = "inserting" THEN Len(ls) ELSE n
  <1>1. /\ n # 0 /\ renglones' = ls /\ cursor' = n
        /\ detalle' = [modo |-> m, renglon |-> r, copia |-> ls[r]]
        /\ cabecera' = cabecera /\ totales' = totales
    BY DEF BeginEdit
  <1>2. renglones \in Seq(Renglones) /\ cursor \in Posiciones(renglones)  BY DEF IInvLineas
  <1>3. /\ ls \in Seq(Renglones) /\ Escritos(ls) = Escritos(renglones)
        /\ DeNotas(ls) = DeNotas(renglones) /\ SumaDe(ls) = SumaDe(renglones)
        /\ ls # renglones => Len(ls) # 0
    BY <1>2, ConVacioIgual
  <1> HIDE DEF ls, m
  <1>4. n \in DOMAIN ls /\ Len(ls) \in DOMAIN ls
    <2>1. CASE ls = renglones
      <3>1. cursor \in DOMAIN renglones  BY <1>1, <1>2, <2>1 DEF Posiciones
      <3> QED  BY <1>2, <2>1, <3>1
    <2>2. CASE ls # renglones
      <3>1. Len(ls) \in Nat \ {0} /\ DOMAIN ls = 1 .. Len(ls)  BY <1>3, <2>2
      <3> QED  BY <2>2, <3>1
    <2> QED  BY <2>1, <2>2
  <1> HIDE DEF n
  <1>5. r \in DOMAIN ls /\ ls[r] \in Renglones  BY <1>3, <1>4
  <1>6. DetalleBien(detalle', renglones')
    <2>1. m \in {"inserting", "updating", "duplicating", "deleting", "selecting"}  BY DEF m, ModoDe, Modos
    <2>2. m = "inserting" => r = Len(ls) /\ EsVacio(ls[r])
      <3> SUFFICES ASSUME m = "inserting" PROVE EsVacio(ls[Len(ls)])  OBVIOUS
      <3>1. modo \notin {"deleting", "selecting"}  BY DEF m, ModoDe
      <3>2. ls = ConVacio(renglones)  BY <3>1 DEF ls
      <3> QED  BY <1>2, <3>2, ElUltimo DEF EsVacio
    <2> HIDE DEF r
    <2> QED  BY <1>1, <1>5, <2>1, <2>2 DEF DetalleBien
  <1>7. cursor' \in Posiciones(renglones')
    <2>1. ls # <<>>  BY <1>4
    <2> QED  BY <1>1, <1>4, <2>1 DEF Posiciones
  <1>8. Cuadrada(renglones', totales', cabecera'.forma)
    <2>1. Cuadrada(renglones, totales, cabecera.forma)  BY DEF IInvLineas
    <2>2. Cuadrada(ls, totales, cabecera.forma)  BY <1>3, <2>1, MismosDetalles
    <2> QED  BY <1>1, <2>2
  <1>9. cabecera' \in [cliente : BOOLEAN, forma : Formas] /\ totales' \in Totales  BY <1>1 DEF IInvLineas
  <1> QED  BY <1>1, <1>3, <1>6, <1>7, <1>8, <1>9 DEF IInvLineas

\* A change of the details that ends in updateFromDetails.
LEMMA ActualizaSigue ==
  ASSUME IInvLineas, NEW ls \in Seq(Renglones), UpdateFromDetails(ls), cursor' \in Posiciones(ls),
         detalle' = SinDetalle,
         cabecera' \in [cliente : BOOLEAN, forma : Formas], cabecera'.forma = cabecera.forma
  PROVE  IInvLineas'
  <1>1. renglones' = Numera(ls) /\ totales' = ActTotales(ls, totales, cabecera.forma)  BY DEF UpdateFromDetails
  <1>2. totales \in Totales /\ cabecera.forma \in Formas  BY DEF IInvLineas
  <1>3. /\ renglones' \in Seq(Renglones) /\ DOMAIN renglones' = DOMAIN ls /\ totales' \in Totales
        /\ Cuadrada(renglones', totales', cabecera.forma)
    BY <1>1, <1>2, AlActualizar
  <1>4. cursor' \in Posiciones(renglones')
    <2>1. renglones' = <<>> <=> ls = <<>>  BY <1>3
    <2> QED  BY <1>3, <2>1 DEF Posiciones
  <1>5. DetalleBien(detalle', renglones')  BY DEF DetalleBien
  <1> QED  BY <1>3, <1>4, <1>5 DEF IInvLineas

LEMMA AceptaSigue ==
  ASSUME IInvLineas, AceptaDetalle
  PROVE  IInvLineas'
  <1> DEFINE hecho(t) == CASE detalle.modo = "deleting"  -> QuitaDetalle(renglones, detalle)
                           [] detalle.modo = "selecting" -> renglones
                           [] OTHER -> PonDetalle(renglones, detalle, t)
             ls(t) == ConVacio(hecho(t))
             r(t)  == CASE detalle.modo = "inserting" -> Len(ls(t))
                        [] detalle.modo = "updating"  -> detalle.renglon + 1
                        [] OTHER -> detalle.renglon
  <1>1. detalle # SinDetalle /\ detalle' = SinDetalle /\ cabecera' = cabecera  BY DEF AceptaDetalle, EnRejilla
  <1>2. PICK t \in Textos :
          UpdateFromDetails(ls(t)) /\ cursor' = IF r(t) <= Len(ls(t)) THEN r(t) ELSE Len(ls(t))
    BY DEF AceptaDetalle
  <1>3. /\ renglones \in Seq(Renglones) /\ detalle.renglon \in DOMAIN renglones /\ detalle.copia \in Renglones
        /\ detalle.renglon \in Nat \ {0}
    BY <1>1 DEF IInvLineas, DetalleBien
  <1>4. hecho(t) \in Seq(Renglones)
    <2>1. QuitaDetalle(renglones, detalle) \in Seq(Renglones)  BY <1>3, ListasBien DEF QuitaDetalle
    <2>2. PonDetalle(renglones, detalle, t) \in Seq(Renglones)
      <3>1. [detalle.copia EXCEPT !.texto = t] \in Renglones
        BY <1>3, SinTextoAssumption DEF Renglones
      <3> QED  BY <1>3, <3>1, ListasBien DEF PonDetalle
    <2> QED  BY <1>3, <2>1, <2>2
  <1> HIDE DEF hecho
  <1>5. ls(t) \in Seq(Renglones) /\ Len(ls(t)) # 0  BY <1>4, ConVacioIgual
  <1> HIDE DEF ls
  <1>6. Len(ls(t)) \in Nat \ {0} /\ DOMAIN ls(t) = 1 .. Len(ls(t)) /\ ls(t) # <<>>  BY <1>5
  <1>7. r(t) \in Nat \ {0}  BY <1>3, <1>6
  <1> HIDE DEF r
  <1>8. cursor' \in Posiciones(ls(t))  BY <1>2, <1>6, <1>7 DEF Posiciones
  <1>9. cabecera' \in [cliente : BOOLEAN, forma : Formas]  BY <1>1 DEF IInvLineas
  <1> QED  BY <1>1, <1>2, <1>5, <1>8, <1>9, ActualizaSigue

LEMMA CancelaDetalleSigue ==
  ASSUME IInvLineas, CancelaDetalle
  PROVE  IInvLineas'
  <1>1. detalle.renglon \in DOMAIN renglones  BY DEF IInvLineas, CancelaDetalle, EnRejilla, DetalleBien
  <1>2. cursor' \in Posiciones(renglones)  BY <1>1 DEF CancelaDetalle, Posiciones
  <1> QED  BY <1>2 DEF CancelaDetalle, IInvLineas, DetalleBien

LEMMA MueveCursorSigue ==
  ASSUME IInvLineas, MueveCursor
  PROVE  IInvLineas'
  BY DEF MueveCursor, IInvLineas

LEMMA IntercambiaSigue ==
  ASSUME IInvLineas, NEW i, NEW j, Intercambia(i, j)
  PROVE  IInvLineas'
  <1> DEFINE ls == [renglones EXCEPT ![i] = renglones[j], ![j] = renglones[i]]
  <1>1. renglones \in Seq(Renglones) /\ i \in DOMAIN renglones /\ j \in DOMAIN renglones
    BY DEF IInvLineas, Intercambia
  <1>2. ls \in Seq(Renglones) /\ DOMAIN ls = DOMAIN renglones  BY <1>1, ListasBien
  <1>3. UpdateFromDetails(ls) /\ cursor' = j /\ detalle' = SinDetalle /\ cabecera' = cabecera
    BY DEF Intercambia, EnRejilla
  <1> HIDE DEF ls
  <1>4. cursor' \in Posiciones(ls)  BY <1>1, <1>2, <1>3 DEF Posiciones
  <1>5. cabecera' \in [cliente : BOOLEAN, forma : Formas]  BY <1>3 DEF IInvLineas
  <1> QED  BY <1>2, <1>3, <1>4, <1>5, ActualizaSigue

LEMMA SlotAddAlbaranSigue ==
  ASSUME IInvLineas, SlotAddAlbaran
  PROVE  IInvLineas'
  <1> DEFINE suyos(x) == [n \in DOMAIN LineasNota[x] |-> [texto |-> LineasNota[x][n], nota |-> x, nlinea |-> 0]]
             ls(x) == Tras(renglones, suyos(x))
  <1>1. PICK x \in Notas : UpdateFromDetails(ls(x)) /\ cursor' \in Posiciones(ls(x))
    BY DEF SlotAddAlbaran
  <1>2. detalle' = SinDetalle /\ \E c \in {cabecera.cliente, TRUE} : cabecera' = [cabecera EXCEPT !.cliente = c]
    BY DEF SlotAddAlbaran, EnRejilla
  <1>3. suyos(x) \in Seq(Renglones)
    <2>1. LineasNota[x] \in Seq(Textos)  BY LineasNotaAssumption
    <2>2. DOMAIN LineasNota[x] = 1 .. Len(LineasNota[x]) /\ Len(LineasNota[x]) \in Nat
          /\ \A n \in DOMAIN LineasNota[x] : LineasNota[x][n] \in Textos
      BY <2>1
    <2>3. \A n \in DOMAIN LineasNota[x] : [texto |-> LineasNota[x][n], nota |-> x, nlinea |-> 0] \in Renglones
      BY <2>2, SinTextoAssumption DEF Renglones
    <2>4. suyos(x) \in [1 .. Len(LineasNota[x]) -> Renglones]  BY <2>2, <2>3
    <2> QED  BY <2>2, <2>4
  <1> HIDE DEF suyos
  <1>4. renglones \in Seq(Renglones) /\ cabecera \in [cliente : BOOLEAN, forma : Formas]  BY DEF IInvLineas
  <1>5. ls(x) \in Seq(Renglones)  BY <1>3, <1>4, ListasBien
  <1> HIDE DEF ls
  <1>6. cabecera' \in [cliente : BOOLEAN, forma : Formas] /\ cabecera'.forma = cabecera.forma  BY <1>2, <1>4
  <1> QED  BY <1>1, <1>2, <1>5, <1>6, ActualizaSigue

LEMMA QuitaLaNotaSigue ==
  ASSUME IInvLineas, QuitaLaNota
  PROVE  IInvLineas'
  <1> DEFINE ls == SinLaNota(renglones, renglones[cursor].nota)
  <1>1. UpdateFromDetails(ls) /\ cursor' \in Posiciones(ls) /\ detalle' = SinDetalle /\ cabecera' = cabecera
    BY DEF QuitaLaNota, EnRejilla
  <1>2. renglones \in Seq(Renglones) /\ cabecera \in [cliente : BOOLEAN, forma : Formas]  BY DEF IInvLineas
  <1>3. ls \in Seq(Renglones)  BY <1>2, ListasBien
  <1> HIDE DEF ls
  <1> QED  BY <1>1, <1>2, <1>3, ActualizaSigue

LEMMA InsertDetailsSigue ==
  ASSUME IInvLineas, InsertDetails
  PROVE  IInvLineas'
  <1> DEFINE tras(o) == Tras(renglones, o.renglones)
             ls(o) == ConVacio(Numera(tras(o)))
             c(o)  == IF cabecera.cliente THEN cabecera ELSE [cliente |-> TRUE, forma |-> o.forma]
             t(o)  == IF cabecera.cliente THEN totales
                      ELSE [totales EXCEPT !.cobros = o.cobros, !.entrega = o.entrega]
  <1>1. PICK o \in Origenes :
          /\ renglones' = ls(o) /\ cursor' = Len(ls(o))
          /\ cabecera' = c(o) /\ totales' = ActTotales(ls(o), t(o), c(o).forma)
    BY DEF InsertDetails
  <1>2. detalle' = SinDetalle  BY DEF InsertDetails, EnRejilla
  <1>3. renglones \in Seq(Renglones) /\ cabecera \in [cliente : BOOLEAN, forma : Formas] /\ totales \in Totales
    BY DEF IInvLineas
  <1>4. o.renglones \in Seq(Renglones)
    <2>1. o.renglones \in Seq([texto : Textos, nota : Notas \cup {SinNota}, nlinea : Nat])  BY OrigenesAssumption
    <2>2. [texto : Textos, nota : Notas \cup {SinNota}, nlinea : Nat] \subseteq Renglones
      BY SinTextoAssumption DEF Renglones
    <2> QED  BY <2>1, <2>2, SeqMonotonic
  <1>5. o.forma \in Formas /\ o.cobros \in Int /\ o.entrega \in Int  BY OrigenesAssumption DEF Formas
  <1>6. c(o) \in [cliente : BOOLEAN, forma : Formas] /\ t(o) \in Totales  BY <1>3, <1>5 DEF Totales
  <1> HIDE DEF c, t
  <1>7. tras(o) \in Seq(Renglones)  BY <1>3, <1>4, ListasBien
  <1> HIDE DEF tras
  <1>8. Numera(tras(o)) \in Seq(Renglones) /\ Suben(Escritos(Numera(tras(o))))  BY <1>7, NumeraIgual
  <1>9. ls(o) \in Seq(Renglones) /\ Len(ls(o)) # 0 /\ Escritos(ls(o)) = Escritos(Numera(tras(o)))
    BY <1>8, ConVacioIgual
  <1> HIDE DEF ls
  <1>10. Len(ls(o)) \in DOMAIN ls(o) /\ ls(o) # <<>>  BY <1>9
  <1>11. Suben(Escritos(ls(o)))  BY <1>8, <1>9
  <1>12. c(o).forma \in Formas  BY <1>6
  <1>13. ActTotales(ls(o), t(o), c(o).forma) \in Totales /\ Cuadrada(ls(o), ActTotales(ls(o), t(o), c(o).forma), c(o).forma)
    BY <1>6, <1>9, <1>10, <1>11, <1>12, TotalesAlDia
  <1>14. cursor' \in Posiciones(renglones')  BY <1>1, <1>10 DEF Posiciones
  <1>15. DetalleBien(detalle', renglones')  BY <1>2 DEF DetalleBien
  <1> QED  BY <1>1, <1>6, <1>9, <1>13, <1>14, <1>15 DEF IInvLineas

LEMMA CambiaFormaPagoSigue ==
  ASSUME IInvLineas, CambiaFormaPago
  PROVE  IInvLineas'
  <1>1. PICK f \in Formas : cabecera' = [cabecera EXCEPT !.forma = f] /\ totales' = ActTotales(renglones, totales, f)
    BY DEF CambiaFormaPago, Formas
  <1>2. renglones' = renglones /\ cursor' = cursor /\ detalle' = detalle  BY DEF CambiaFormaPago
  <1>3. /\ renglones \in Seq(Renglones) /\ cabecera \in [cliente : BOOLEAN, forma : Formas] /\ totales \in Totales
        /\ Cuadrada(renglones, totales, cabecera.forma)
    BY DEF IInvLineas
  <1>4. Escritos(renglones) # <<>> => renglones # <<>> /\ Suben(Escritos(renglones))
    BY <1>3, NadaEscrito DEF Cuadrada
  <1>5. totales' \in Totales /\ Cuadrada(renglones, totales', f)  BY <1>1, <1>3, <1>4, TotalesAlDia
  <1>6. cabecera' \in [cliente : BOOLEAN, forma : Formas] /\ cabecera'.forma = f  BY <1>1, <1>3
  <1> QED  BY <1>2, <1>5, <1>6 DEF IInvLineas

LEMMA SlotCobrarSigue ==
  ASSUME IInvLineas, SlotCobrar
  PROVE  IInvLineas'
  <1>1. /\ renglones' = renglones /\ cursor' = cursor /\ detalle' = detalle /\ cabecera' = cabecera
        /\ \/ totales' = [totales EXCEPT !.resto = totales.resto + totales.entrega, !.entrega = 0]
           \/ /\ totales.entrega = 0
              /\ \E p \in Pagos : totales' = [totales EXCEPT !.resto = totales.resto - p, !.entrega = p]
    BY DEF SlotCobrar
  <1>2. totales \in Totales /\ Cuadrada(renglones, totales, cabecera.forma)  BY DEF IInvLineas
  <1> DEFINE t == totales
             u == totales'
  <1>3. t.albaranes \in Int /\ t.cobros \in Int /\ t.entrega \in Int /\ t.resto \in Int  BY <1>2 DEF Totales
  <1>4. PICK r \in Int, e \in Int : /\ totales' = [totales EXCEPT !.resto = r, !.entrega = e]
                                   /\ r + e = t.resto + t.entrega
    <2>1. CASE totales' = [totales EXCEPT !.resto = totales.resto + totales.entrega, !.entrega = 0]
      <3> DEFINE q == t.resto + t.entrega
      <3>1. q \in Int /\ q + 0 = t.resto + t.entrega  BY <1>3
      <3>2. totales' = [totales EXCEPT !.resto = q, !.entrega = 0]  BY <2>1
      <3>3. 0 \in Int  OBVIOUS
      <3> HIDE DEF q
      <3> QED  BY <3>1, <3>2, <3>3, Zenon
    <2>2. ASSUME t.entrega = 0, NEW p \in Pagos,
                 totales' = [totales EXCEPT !.resto = totales.resto - p, !.entrega = p]
          PROVE  \E r \in Int, e \in Int : /\ totales' = [totales EXCEPT !.resto = r, !.entrega = e]
                                          /\ r + e = t.resto + t.entrega
      <3>1. p \in Int  BY PagosAssumption
      <3> DEFINE q == t.resto - p
      <3>2. q \in Int /\ q + p = t.resto + t.entrega  BY <1>3, <2>2, <3>1
      <3>3. totales' = [totales EXCEPT !.resto = q, !.entrega = p]  BY <2>2
      <3> HIDE DEF q
      <3> QED  BY <3>1, <3>2, <3>3
    <2> QED  BY <1>1, <2>1, <2>2
  <1>5. /\ u \in Totales /\ u.total = t.total /\ u.albaranes = t.albaranes /\ u.cobros = t.cobros
        /\ u.entrega = e /\ u.resto = r
    BY <1>2, <1>4 DEF Totales
  <1>6. u.albaranes + u.cobros + u.entrega + u.resto = t.albaranes + t.cobros + t.entrega + t.resto
    BY <1>3, <1>4, <1>5
  <1>7. Cuadrada(renglones, totales', cabecera.forma)  BY <1>2, <1>5, <1>6 DEF Cuadrada
  <1> QED  BY <1>1, <1>5, <1>7 DEF IInvLineas

LEMMA GrabaYModificaSigue ==
  ASSUME IInvLineas, GrabaYModifica
  PROVE  IInvLineas'
  <1> DEFINE es == Escritos(renglones)
             ls == ConVacio(es)
  <1>1. /\ renglones' = ls /\ cursor' \in DOMAIN renglones' /\ detalle' = SinDetalle
        /\ cabecera' = cabecera /\ totales' = totales
    BY DEF GrabaYModifica, EnRejilla
  <1>2. renglones \in Seq(Renglones) /\ Cuadrada(renglones, totales, cabecera.forma)  BY DEF IInvLineas
  <1>3. /\ es \in Seq(Renglones) /\ Escritos(es) = Escritos(renglones)
        /\ DeNotas(es) = DeNotas(renglones) /\ SumaDe(es) = SumaDe(renglones)
    BY <1>2, EscritosIgual
  <1> HIDE DEF es
  <1>4. /\ ls \in Seq(Renglones) /\ Escritos(ls) = Escritos(es)
        /\ DeNotas(ls) = DeNotas(es) /\ SumaDe(ls) = SumaDe(es) /\ Len(ls) # 0
    BY <1>3, ConVacioIgual
  <1> HIDE DEF ls
  <1>5. Cuadrada(ls, totales, cabecera.forma)  BY <1>2, <1>3, <1>4, MismosDetalles
  <1>6. cursor' \in Posiciones(renglones')  BY <1>1, <1>4 DEF Posiciones
  <1>7. DetalleBien(detalle', renglones')  BY <1>1 DEF DetalleBien
  <1> QED  BY <1>1, <1>4, <1>5, <1>6, <1>7 DEF IInvLineas

LEMMA LineasSiguen == IInvLineas /\ [NextLineas]_varLineas => IInvLineas'
  <1> SUFFICES ASSUME IInvLineas, [NextLineas]_varLineas PROVE IInvLineas'  OBVIOUS
  <1>1. ASSUME NEW m \in Modos, BeginEdit(m) PROVE IInvLineas'  BY <1>1, BeginEditSigue
  <1>2. ASSUME SlotDetailUp PROVE IInvLineas'  BY <1>2, IntercambiaSigue DEF SlotDetailUp
  <1>3. ASSUME SlotDetailDown PROVE IInvLineas'  BY <1>3, IntercambiaSigue DEF SlotDetailDown
  <1>4. CASE UNCHANGED varLineas  BY <1>4 DEF varLineas, IInvLineas
  <1> QED
    BY <1>1, <1>2, <1>3, <1>4, AceptaSigue, CancelaDetalleSigue, MueveCursorSigue, SlotAddAlbaranSigue,
       QuitaLaNotaSigue, InsertDetailsSigue, CambiaFormaPagoSigue, SlotCobrarSigue, GrabaYModificaSigue
    DEF NextLineas, Modos

\* The details, the cursor, the form of a detail and the totals keep their types.
THEOREM TiposDeLineas == SpecLineas => []TypeOKLineas
  <1>1. IInvLineas => TypeOKLineas
    <2> SUFFICES ASSUME IInvLineas PROVE TypeOKLineas  OBVIOUS
    <2>1. renglones \in Seq([texto : Textos \cup {SinTexto}, nota : Notas \cup {SinNota}, nlinea : Nat])
      <3>1. Renglones \subseteq [texto : Textos \cup {SinTexto}, nota : Notas \cup {SinNota}, nlinea : Nat]
        BY DEF Renglones
      <3> QED  BY <3>1, SeqMonotonic DEF IInvLineas
    <2>2. detalle.renglon \in 0 .. Len(renglones)
      <3>1. Len(renglones) \in Nat /\ DOMAIN renglones = 1 .. Len(renglones)  BY <2>1
      <3>2. detalle.renglon = 0 \/ detalle.renglon \in 1 .. Len(renglones)
        BY <3>1 DEF IInvLineas, DetalleBien, SinDetalle
      <3> QED  BY <3>1, <3>2
    <2> QED  BY <2>1, <2>2 DEF IInvLineas, TypeOKLineas, Formas, Totales
  <1> QED  BY LineasAlEmpezar, LineasSiguen, <1>1, PTL DEF SpecLineas

\* Whatever is done in the grid and in the forms of the details, an invoice with details is the
\* sum of them less what each note was paid, once when its details are together, and less what was
\* paid and is owed; and the numbers of its details rise.
THEOREM TotalesDeLasLineasSiempre == SpecLineas => []TotalesDeLasLineas
  <1>1. IInvLineas => TotalesDeLasLineas
    <2> SUFFICES ASSUME IInvLineas, Escritos(renglones) # <<>> PROVE TotalesDeLasLineas
      BY DEF TotalesDeLasLineas
    <2>1. renglones \in Seq(Renglones) /\ Cuadrada(renglones, totales, cabecera.forma)  BY DEF IInvLineas
    <2>2. ~Separados(renglones) =>
            Entregas(renglones) =
              SumFunctionOnSet(PagadoNota, {renglones[n].nota : n \in DOMAIN renglones} \ {SinNota})
      BY <2>1, CadaNotaUnaVez
    <2> QED  BY <2>1, <2>2 DEF Cuadrada, TotalesDeLasLineas, Suben
  <1> QED  BY LineasAlEmpezar, LineasSiguen, <1>1, PTL DEF SpecLineas

-------------------------------------------------------------------------------
(* The form of a detail changes only its own.                                *)

\* What goes through a set of numbers from the first on is that set in order.
LEMMA EnOrden ==
  ASSUME NEW k \in Nat, NEW C \in SUBSET Nat, NEW u \in [1 .. k -> C],
         \A i, j \in 1 .. k : i < j => u[i] < u[j],
         \A n \in C : \E i \in 1 .. k : n = u[i]
  PROVE  Ordered(u, C) /\ Cardinality(C) = k
  <1>1. \A i, j \in 1 .. k : u[i] = u[j] => i = j
    <2> SUFFICES ASSUME NEW i \in 1 .. k, NEW j \in 1 .. k, u[i] = u[j], i # j PROVE FALSE  OBVIOUS
    <2>1. i < j \/ j < i  OBVIOUS
    <2>2. u[i] \in Nat /\ u[j] \in Nat  OBVIOUS
    <2> QED  BY <2>1, <2>2
  <1>2. IsFiniteSet(1 .. k) /\ Cardinality(1 .. k) = k  BY FS_Interval
  <1>3. u \in Bijection(1 .. k, C)  BY <1>1 DEF Bijection, Injection, Surjection, IsInjective
  <1>4. ExistsBijection(1 .. k, C)  BY <1>3 DEF ExistsBijection
  <1>5. Cardinality(C) = k  BY <1>2, <1>4, FS_Bijection
  <1> QED  BY <1>5 DEF Ordered

LEMMA EscritosEs ==
  ASSUME NEW ls \in Seq(Renglones)
  PROVE  \E k \in Nat : \E s :
           /\ s \in [1 .. k -> DeLinea(ls)] /\ \A i, j \in 1 .. k : i < j => s[i] < s[j]
           /\ \A n \in DeLinea(ls) : \E i \in 1 .. k : n = s[i]
           /\ Escritos(ls) = [i \in 1 .. k |-> ls[s[i]]]
  <1> DEFINE A == DeLinea(ls)
             k == Cardinality(A)
  <1>1. A \in SUBSET DOMAIN ls  BY DEF DeLinea
  <1>2. PICK s : Ordered(s, A)  BY <1>1, HayOrden
  <1>3. A \in SUBSET Nat /\ IsFiniteSet(A) /\ k \in Nat  BY <1>1, Lugares
  <1>4. \A n \in A : \E i \in 1 .. k : n = s[i]  BY <1>2, <1>3, OrderedOnto
  <1>5. s \in [1 .. k -> A] /\ \A i, j \in 1 .. k : i < j => s[i] < s[j]  BY <1>2 DEF Ordered
  <1>6. Escritos(ls) = Elegidos(ls, A)  BY DEF Escritos, DeLinea
  <1>7. Escritos(ls) = [i \in 1 .. k |-> ls[s[i]]]  BY <1>1, <1>2, <1>6, ElegidosEs
  <1> HIDE DEF A, k
  <1> QED  BY <1>3, <1>4, <1>5, <1>7 DEF A

LEMMA EscritosSeguidos ==
  ASSUME NEW a \in Seq(Renglones), NEW b \in Seq(Renglones)
  PROVE  Escritos(a \o b) = Escritos(a) \o Escritos(b)
  <1> DEFINE c == a \o b
             A == DeLinea(a)
             B == DeLinea(b)
             C == DeLinea(c)
             l == Len(a)
  <1>1. /\ c \in Seq(Renglones) /\ l \in Nat /\ Len(b) \in Nat
        /\ DOMAIN a = 1 .. l /\ DOMAIN b = 1 .. Len(b) /\ DOMAIN c = 1 .. l + Len(b)
        /\ \A n \in 1 .. l : c[n] = a[n]
        /\ \A n \in 1 .. Len(b) : c[n + l] = b[n]
    <2>1. c \in Seq(Renglones) /\ Len(c) = l + Len(b)  BY ConcatProperties
    <2>2. l \in Nat /\ Len(b) \in Nat /\ DOMAIN a = 1 .. l /\ DOMAIN b = 1 .. Len(b)  OBVIOUS
    <2>3. \A n \in 1 .. l : c[n] = a[n]  BY ConcatProperties
    <2>4. \A n \in 1 .. Len(b) : c[n + l] = b[n]
      <3> SUFFICES ASSUME NEW n \in 1 .. Len(b) PROVE c[n + l] = b[n]  OBVIOUS
      <3>1. n + l \in 1 .. l + Len(b) /\ ~(n + l <= l) /\ n + l - l = n  BY <2>2
      <3> QED  BY <3>1, ConcatProperties
    <2> HIDE DEF c
    <2>5. DOMAIN c = 1 .. l + Len(b)  BY <2>1
    <2> QED  BY <2>1, <2>2, <2>3, <2>4, <2>5
  <1> HIDE DEF c, l
  <1>2. C = A \cup {n + l : n \in B}
    <2>1. \A n \in C : n \in A \/ \E m \in B : n = m + l
      <3> SUFFICES ASSUME NEW n \in C, n \notin A PROVE \E m \in B : n = m + l  OBVIOUS
      <3>1. n \in 1 .. l + Len(b) /\ ~EsVacio(c[n])  BY <1>1 DEF DeLinea
      <3>2. ~(n \in 1 .. l)  BY <1>1, <3>1 DEF DeLinea
      <3>3. n - l \in 1 .. Len(b) /\ n = (n - l) + l  BY <1>1, <3>1, <3>2
      <3>4. n - l \in B  BY <1>1, <3>1, <3>3 DEF DeLinea
      <3> QED  BY <3>3, <3>4
    <2>2. A \subseteq C
      <3>1. 1 .. l \subseteq 1 .. l + Len(b)  BY <1>1
      <3> QED  BY <1>1, <3>1 DEF DeLinea
    <2>3. \A m \in B : m + l \in C
      <3>1. \A m \in 1 .. Len(b) : m + l \in 1 .. l + Len(b)  BY <1>1
      <3> QED  BY <1>1, <3>1 DEF DeLinea
    <2> HIDE DEF A, B, C
    <2> QED  BY <2>1, <2>2, <2>3
  <1>3a. PICK ka \in Nat : \E s :
           /\ s \in [1 .. ka -> A] /\ \A i, j \in 1 .. ka : i < j => s[i] < s[j]
           /\ \A n \in A : \E i \in 1 .. ka : n = s[i]
           /\ Escritos(a) = [i \in 1 .. ka |-> a[s[i]]]
    BY EscritosEs
  <1>3. PICK s :
           /\ s \in [1 .. ka -> A] /\ \A i, j \in 1 .. ka : i < j => s[i] < s[j]
           /\ \A n \in A : \E i \in 1 .. ka : n = s[i]
           /\ Escritos(a) = [i \in 1 .. ka |-> a[s[i]]]
    BY <1>3a
  <1>4a. PICK kb \in Nat : \E t :
           /\ t \in [1 .. kb -> B] /\ \A i, j \in 1 .. kb : i < j => t[i] < t[j]
           /\ \A n \in B : \E i \in 1 .. kb : n = t[i]
           /\ Escritos(b) = [i \in 1 .. kb |-> b[t[i]]]
    BY EscritosEs
  <1>4. PICK t :
           /\ t \in [1 .. kb -> B] /\ \A i, j \in 1 .. kb : i < j => t[i] < t[j]
           /\ \A n \in B : \E i \in 1 .. kb : n = t[i]
           /\ Escritos(b) = [i \in 1 .. kb |-> b[t[i]]]
    BY <1>4a
  <1>5. A \in SUBSET 1 .. l /\ B \in SUBSET 1 .. Len(b) /\ C \in SUBSET DOMAIN c  BY <1>1 DEF DeLinea
  <1> HIDE DEF A, B, C
  <1> DEFINE k == ka + kb
             u == [i \in 1 .. k |-> IF i <= ka THEN s[i] ELSE t[i - ka] + l]
  <1>6. k \in Nat  OBVIOUS
  <1>7. /\ \A i \in 1 .. ka : i \in 1 .. k /\ u[i] = s[i] /\ s[i] \in A
        /\ \A i \in 1 .. kb : i + ka \in 1 .. k /\ u[i + ka] = t[i] + l /\ t[i] \in B
        /\ \A i \in 1 .. k : i \in 1 .. ka \/ (i - ka \in 1 .. kb /\ i = (i - ka) + ka)
    <2>1. \A i \in 1 .. ka : i \in 1 .. k /\ i <= ka  OBVIOUS
    <2>2. \A i \in 1 .. kb : i + ka \in 1 .. k /\ ~(i + ka <= ka) /\ i + ka - ka = i  OBVIOUS
    <2>3. \A i \in 1 .. k : i \in 1 .. ka \/ (i - ka \in 1 .. kb /\ i = (i - ka) + ka)  OBVIOUS
    <2>4. \A i \in 1 .. k : u[i] = IF i <= ka THEN s[i] ELSE t[i - ka] + l  OBVIOUS
    <2> HIDE DEF k, u
    <2>5. \A i \in 1 .. ka : u[i] = s[i] /\ s[i] \in A  BY <1>3, <2>1, <2>4
    <2>6. \A i \in 1 .. kb : u[i + ka] = t[i] + l /\ t[i] \in B
      <3> SUFFICES ASSUME NEW i \in 1 .. kb PROVE u[i + ka] = t[i] + l /\ t[i] \in B  OBVIOUS
      <3>1. i + ka \in 1 .. k /\ ~(i + ka <= ka) /\ i + ka - ka = i  BY <2>2
      <3>2. u[i + ka] = t[i + ka - ka] + l  BY <2>4, <3>1
      <3> QED  BY <1>4, <3>1, <3>2
    <2> QED  BY <2>1, <2>2, <2>3, <2>5, <2>6
  <1> HIDE DEF k
  <1>8. u \in [1 .. k -> C]
    <2>1. \A i \in 1 .. k : u[i] \in C
      <3> SUFFICES ASSUME NEW i \in 1 .. k PROVE u[i] \in C  OBVIOUS
      <3>1. CASE i \in 1 .. ka  BY <1>2, <1>7, <3>1
      <3>2. ASSUME i - ka \in 1 .. kb, i = (i - ka) + ka PROVE u[i] \in C
        <4> DEFINE j == i - ka
        <4>1. j \in 1 .. kb /\ i = j + ka  BY <3>2
        <4> HIDE DEF j
        <4>2. u[i] = t[j] + l /\ t[j] \in B  BY <1>7, <4>1
        <4> QED  BY <1>2, <4>2
      <3> QED  BY <1>7, <3>1, <3>2
    <2>2. u = [i \in 1 .. k |-> u[i]]  OBVIOUS
    <2> HIDE DEF u
    <2> QED  BY <2>1, <2>2
  <1> HIDE DEF u
  <1>9. \A i, j \in 1 .. k : i < j => u[i] < u[j]
    <2> SUFFICES ASSUME NEW i \in 1 .. k, NEW j \in 1 .. k, i < j PROVE u[i] < u[j]  OBVIOUS
    <2>1. CASE i \in 1 .. ka /\ j \in 1 .. ka  BY <1>3, <1>7, <2>1
    <2>2. CASE i \in 1 .. ka /\ j - ka \in 1 .. kb
      <3>1. u[i] \in 1 .. l /\ t[j - ka] \in 1 .. Len(b)  BY <1>5, <1>7, <2>2
      <3>2. u[j] = t[j - ka] + l  BY <1>7, <2>2
      <3> QED  BY <1>1, <3>1, <3>2
    <2>3. CASE i - ka \in 1 .. kb /\ j - ka \in 1 .. kb
      <3>1. i - ka < j - ka  OBVIOUS
      <3>2. t[i - ka] < t[j - ka]  BY <1>4, <2>3, <3>1
      <3>3. u[i] = t[i - ka] + l /\ u[j] = t[j - ka] + l  BY <1>7, <2>3
      <3>4. t[i - ka] \in 1 .. Len(b) /\ t[j - ka] \in 1 .. Len(b)  BY <1>5, <1>7, <2>3
      <3> QED  BY <1>1, <3>2, <3>3, <3>4
    <2>4. ~(i - ka \in 1 .. kb /\ j \in 1 .. ka)  BY <1>6
    <2> QED  BY <1>7, <2>1, <2>2, <2>3, <2>4
  <1>10. \A n \in C : \E i \in 1 .. k : n = u[i]
    <2>1. \A n \in A : \E i \in 1 .. k : n = u[i]  BY <1>3, <1>7
    <2>2. \A n \in B : \E i \in 1 .. k : n + l = u[i]  BY <1>4, <1>7
    <2> QED  BY <1>2, <2>1, <2>2
  <1>11. C \in SUBSET Nat  BY <1>1, <1>5
  <1>12. Ordered(u, C) /\ Cardinality(C) = k  BY <1>6, <1>8, <1>9, <1>10, <1>11, EnOrden
  <1>13. Escritos(c) = Elegidos(c, C)  BY DEF Escritos, C, DeLinea
  <1>14. Escritos(c) = [i \in 1 .. k |-> c[u[i]]]  BY <1>1, <1>5, <1>12, <1>13, ElegidosEs
  <1> DEFINE ea == Escritos(a)
             eb == Escritos(b)
  <1>15. ea \in Seq(Renglones) /\ eb \in Seq(Renglones) /\ Len(ea) = ka /\ Len(eb) = kb
    <2>1. ea \in Seq(Renglones) /\ eb \in Seq(Renglones)  BY EscritosIgual
    <2>2. DOMAIN ea = 1 .. ka /\ DOMAIN eb = 1 .. kb  BY <1>3, <1>4
    <2> HIDE DEF ea, eb
    <2> QED  BY <2>1, <2>2, LenProperties
  <1>16. \A i \in 1 .. k : (ea \o eb)[i] = c[u[i]]
    <2> SUFFICES ASSUME NEW i \in 1 .. k PROVE (ea \o eb)[i] = c[u[i]]  OBVIOUS
    <2>1. CASE i \in 1 .. ka
      <3>1. ea[i] = a[s[i]] /\ s[i] \in 1 .. l /\ u[i] = s[i]  BY <1>3, <1>5, <1>7, <2>1
      <3>2. (ea \o eb)[i] = ea[i]
        <4> HIDE DEF ea, eb
        <4> QED  BY <1>15, <2>1, ConcatProperties
      <3> QED  BY <1>1, <3>1, <3>2
    <2>2. CASE i - ka \in 1 .. kb
      <3>1. eb[i - ka] = b[t[i - ka]] /\ t[i - ka] \in 1 .. Len(b) /\ u[i] = t[i - ka] + l
        <4> DEFINE j == i - ka
        <4>1. j \in 1 .. kb /\ i = j + ka  BY <1>6, <2>2
        <4> HIDE DEF j
        <4>2. t[j] \in B /\ u[i] = t[j] + l  BY <1>7, <4>1
        <4>3. eb[j] = b[t[j]]  BY <1>4, <4>1
        <4>4. eb[j] = b[t[j]] /\ t[j] \in 1 .. Len(b) /\ u[i] = t[j] + l  BY <1>5, <4>2, <4>3
        <4> QED  BY <4>4 DEF j
      <3>2. (ea \o eb)[i] = eb[i - ka]
        <4>1. i \in 1 .. ka + kb /\ ~(i <= ka)  BY <1>6, <2>2 DEF k
        <4> HIDE DEF ea, eb
        <4> QED  BY <1>15, <4>1, ConcatProperties
      <3> QED  BY <1>1, <3>1, <3>2
    <2> QED  BY <1>7, <2>1, <2>2
  <1>17. Escritos(c) = ea \o eb
    <2> HIDE DEF ea, eb
    <2>1. ea \o eb \in Seq(Renglones) /\ Len(ea \o eb) = ka + kb  BY <1>15, ConcatProperties
    <2>2. ea \o eb \in [1 .. ka + kb -> Renglones]  BY <2>1, LenProperties
    <2>3. ea \o eb = [i \in 1 .. k |-> (ea \o eb)[i]]  BY <2>2 DEF k
    <2> QED  BY <1>14, <1>16, <2>3
  <1> QED  BY <1>17 DEF c

Cosas == (Textos \cup {SinTexto}) \X (Notas \cup {SinNota})

LEMMA DichoTipo ==
  ASSUME NEW ls \in Seq(Renglones)
  PROVE  /\ Dicho(ls) \in Seq(Cosas) /\ Len(Dicho(ls)) = Len(Escritos(ls))
         /\ \A n \in 1 .. Len(Escritos(ls)) : Dicho(ls)[n] = <<Escritos(ls)[n].texto, Escritos(ls)[n].nota>>
  <1> DEFINE es == Escritos(ls)
             di == [n \in DOMAIN es |-> <<es[n].texto, es[n].nota>>]
  <1>1. es \in Seq(Renglones)  BY EscritosIgual
  <1>2. Dicho(ls) = di  BY DEF Dicho
  <1> HIDE DEF es
  <1>3. DOMAIN es = 1 .. Len(es) /\ Len(es) \in Nat /\ \A n \in DOMAIN es : es[n] \in Renglones  BY <1>1
  <1>4. \A n \in 1 .. Len(es) : <<es[n].texto, es[n].nota>> \in Cosas  BY <1>3 DEF Renglones, Cosas
  <1>5. di \in [1 .. Len(es) -> Cosas]  BY <1>3, <1>4
  <1>6. \A n \in 1 .. Len(es) : di[n] = <<es[n].texto, es[n].nota>>  BY <1>3
  <1> HIDE DEF di
  <1>7. di \in Seq(Cosas) /\ Len(di) = Len(es)  BY <1>3, <1>5
  <1> QED  BY <1>2, <1>6, <1>7 DEF es

LEMMA SeguidosEs ==
  ASSUME NEW S, NEW s \in Seq(S), NEW t \in Seq(S), NEW k, NEW m, Len(s) = k, Len(t) = m
  PROVE  /\ s \o t \in Seq(S) /\ Len(s \o t) = k + m
         /\ \A i \in 1 .. k + m : (s \o t)[i] = IF i <= k THEN s[i] ELSE t[i - k]
  BY ConcatProperties

LEMMA DichoSeguidos ==
  ASSUME NEW a \in Seq(Renglones), NEW b \in Seq(Renglones)
  PROVE  Dicho(a \o b) = Dicho(a) \o Dicho(b)
  <1> DEFINE c == a \o b
             ea == Escritos(a)
             eb == Escritos(b)
             ec == Escritos(c)
             di(l) == <<l.texto, l.nota>>
             dd == Dicho(a) \o Dicho(b)
  <1>1. c \in Seq(Renglones)  BY ConcatProperties
  <1> HIDE DEF c
  <1>2. ec = ea \o eb  BY EscritosSeguidos DEF c
  <1>3. ea \in Seq(Renglones) /\ eb \in Seq(Renglones)  BY EscritosIgual
  <1>4. Dicho(a) \in Seq(Cosas) /\ Len(Dicho(a)) = Len(ea) /\ \A n \in 1 .. Len(ea) : Dicho(a)[n] = di(ea[n])
    BY DichoTipo
  <1>5. Dicho(b) \in Seq(Cosas) /\ Len(Dicho(b)) = Len(eb) /\ \A n \in 1 .. Len(eb) : Dicho(b)[n] = di(eb[n])
    BY DichoTipo
  <1>6. Dicho(c) \in Seq(Cosas) /\ Len(Dicho(c)) = Len(ec) /\ \A n \in 1 .. Len(ec) : Dicho(c)[n] = di(ec[n])
    BY <1>1, DichoTipo
  <1> HIDE DEF ea, eb, ec, di
  <1>7. /\ Len(ec) = Len(ea) + Len(eb) /\ Len(ea) \in Nat /\ Len(eb) \in Nat
        /\ \A i \in 1 .. Len(ea) + Len(eb) : ec[i] = IF i <= Len(ea) THEN ea[i] ELSE eb[i - Len(ea)]
    BY <1>2, <1>3, ConcatProperties
  <1>8. /\ dd \in Seq(Cosas) /\ Len(dd) = Len(ea) + Len(eb)
        /\ \A i \in 1 .. Len(ea) + Len(eb) : dd[i] = IF i <= Len(ea) THEN Dicho(a)[i] ELSE Dicho(b)[i - Len(ea)]
    <2> DEFINE k == Len(ea)
               m == Len(eb)
    <2>1. Dicho(a) \in Seq(Cosas) /\ Dicho(b) \in Seq(Cosas) /\ Len(Dicho(a)) = k /\ Len(Dicho(b)) = m
      BY <1>4, <1>5
    <2> HIDE DEF k, m
    <2>2. /\ dd \in Seq(Cosas) /\ Len(dd) = k + m
          /\ \A i \in 1 .. k + m : dd[i] = IF i <= k THEN Dicho(a)[i] ELSE Dicho(b)[i - k]
      BY <2>1, SeguidosEs
    <2> QED  BY <2>2 DEF k, m
  <1> HIDE DEF dd
  <1>9. ASSUME NEW i \in 1 .. Len(dd)  PROVE Dicho(c)[i] = dd[i]
    <2>1. CASE i <= Len(ea)
      <3>1. i \in 1 .. Len(ea)  BY <1>7, <2>1
      <3> QED  BY <1>4, <1>6, <1>7, <1>8, <2>1, <3>1
    <2>2. CASE ~(i <= Len(ea))
      <3>1. i - Len(ea) \in 1 .. Len(eb)  BY <1>7, <1>8, <2>2
      <3>2. dd[i] = di(eb[i - Len(ea)])  BY <1>5, <1>8, <2>2, <3>1
      <3>3. ec[i] = eb[i - Len(ea)] /\ Dicho(c)[i] = di(ec[i])  BY <1>6, <1>7, <1>8, <2>2
      <3> QED  BY <3>2, <3>3
    <2> QED  BY <2>1, <2>2
  <1>10. Dicho(c) = dd  BY <1>6, <1>7, <1>8, <1>9, SeqEqual
  <1> QED  BY <1>10 DEF c, dd

LEMMA DichoDeUno ==
  ASSUME NEW l \in Renglones
  PROVE  Dicho(<<l>>) = IF EsVacio(l) THEN <<>> ELSE <<<<l.texto, l.nota>>>>
  <1> DEFINE ls == <<l>>
             C == DeLinea(ls)
  <1>1. ls \in Seq(Renglones) /\ DOMAIN ls = {1} /\ ls[1] = l  OBVIOUS
  <1> HIDE DEF ls
  <1>2. Escritos(ls) = Elegidos(ls, C) /\ C \in SUBSET DOMAIN ls  BY DEF Escritos, DeLinea
  <1>3. CASE EsVacio(l)
    <2>1. C = {}  BY <1>1, <1>3 DEF DeLinea
    <2>2. Len(Escritos(ls)) = 0
      <3>1. Len(Elegidos(ls, C)) = Cardinality(C)  BY <1>1, <1>2, ElegidosTipo
      <3> QED  BY <1>2, <2>1, <3>1, FS_EmptySet
    <2>3. Dicho(ls) \in Seq(Cosas) /\ Len(Dicho(ls)) = 0  BY <1>1, <2>2, DichoTipo
    <2>4. Dicho(ls) = <<>>  BY <2>3, EmptySeq
    <2> QED  BY <1>3, <2>4 DEF ls
  <1>4. CASE ~EsVacio(l)
    <2> DEFINE u == [i \in 1 .. 1 |-> 1]
    <2>1. C = {1}  BY <1>1, <1>4 DEF DeLinea
    <2>2. Ordered(u, C) /\ Cardinality(C) = 1
      <3>1. u \in [1 .. 1 -> {1}] /\ \A i, j \in 1 .. 1 : i < j => u[i] < u[j]  OBVIOUS
      <3>2. \A n \in {1} : \E i \in 1 .. 1 : n = u[i]  OBVIOUS
      <3>3. {1} \in SUBSET Nat /\ 1 \in Nat  OBVIOUS
      <3> HIDE DEF u
      <3>4. Ordered(u, {1}) /\ Cardinality({1}) = 1  BY <3>1, <3>2, <3>3, EnOrden
      <3> QED  BY <2>1, <3>4
    <2>3. Elegidos(ls, C) = [i \in 1 .. 1 |-> ls[u[i]]]
      <3> HIDE DEF u
      <3> QED  BY <1>1, <1>2, <2>2, ElegidosEs
    <2>4. Escritos(ls) = [i \in 1 .. 1 |-> l]  BY <1>1, <1>2, <2>3
    <2>5. Len(Escritos(ls)) = 1 /\ Escritos(ls)[1] = l  BY <2>4
    <2>6. Dicho(ls) \in Seq(Cosas) /\ Len(Dicho(ls)) = 1 /\ Dicho(ls)[1] = <<l.texto, l.nota>>
      BY <1>1, <2>5, DichoTipo
    <2>7. Dicho(ls) = <<<<l.texto, l.nota>>>>
      <3> DEFINE x == <<l.texto, l.nota>>
      <3>1. x \in Cosas  BY DEF Renglones, Cosas
      <3> HIDE DEF x
      <3>2. <<x>> \in Seq(Cosas) /\ Len(<<x>>) = 1 /\ <<x>>[1] = x  BY <3>1
      <3>3. \A i \in 1 .. 1 : Dicho(ls)[i] = <<x>>[i]  BY <2>6, <3>2 DEF x
      <3>4. Dicho(ls) = <<x>>  BY <2>6, <3>2, <3>3, SeqEqual
      <3> QED  BY <3>4 DEF x
    <2> QED  BY <1>4, <2>7 DEF ls
  <1> QED  BY <1>3, <1>4

\* Numbers are not part of what is said, nor an empty detail at the end.
LEMMA DichoNumera ==
  ASSUME NEW ls \in Seq(Renglones)
  PROVE  Dicho(Numera(ls)) = Dicho(ls)
  <1> DEFINE ms == Numera(ls)
             A == DeLinea(ls)
             k == Cardinality(A)
  <1>1. ms \in Seq(Renglones) /\ DOMAIN ms = DOMAIN ls
    <2>1. ms \in Seq(Renglones) /\ Len(ms) = Len(ls)  BY NumeraIgual
    <2> HIDE DEF ms
    <2> QED  BY <2>1
  <1>2. \A n \in DOMAIN ls : /\ EsVacio(ms[n]) <=> EsVacio(ls[n])
                            /\ ms[n].texto = ls[n].texto /\ ms[n].nota = ls[n].nota
    BY NumeraCada
  <1> HIDE DEF ms
  <1>3. A \in SUBSET DOMAIN ls /\ DeLinea(ms) = A  BY <1>1, <1>2 DEF DeLinea
  <1>4. Escritos(ms) = Elegidos(ms, A) /\ Escritos(ls) = Elegidos(ls, A)  BY <1>3 DEF Escritos, DeLinea
  <1>5. PICK s : Ordered(s, A)  BY <1>3, HayOrden
  <1>6. Escritos(ms) = [i \in 1 .. k |-> ms[s[i]]] /\ Escritos(ls) = [i \in 1 .. k |-> ls[s[i]]]
    BY <1>1, <1>3, <1>4, <1>5, ElegidosEs
  <1>7. \A i \in 1 .. k : s[i] \in DOMAIN ls  BY <1>3, <1>5 DEF Ordered
  <1> HIDE DEF k
  <1>8. \A i \in 1 .. k : Escritos(ms)[i].texto = Escritos(ls)[i].texto /\ Escritos(ms)[i].nota = Escritos(ls)[i].nota
    BY <1>2, <1>6, <1>7
  <1>9. DOMAIN Escritos(ms) = 1 .. k /\ DOMAIN Escritos(ls) = 1 .. k  BY <1>6
  <1> QED  BY <1>8, <1>9 DEF Dicho, ms

LEMMA DichoConVacio ==
  ASSUME NEW ls \in Seq(Renglones)
  PROVE  Dicho(ConVacio(ls)) = Dicho(ls)
  BY ConVacioIgual DEF Dicho

\* A list is what is before a place, the place, and what is after it.
LEMMA Partida ==
  ASSUME NEW ls \in Seq(Renglones), NEW i \in DOMAIN ls, NEW l \in Renglones
  PROVE  /\ SubSeq(ls, 1, i - 1) \in Seq(Renglones) /\ SubSeq(ls, i + 1, Len(ls)) \in Seq(Renglones)
         /\ [ls EXCEPT ![i] = l] = (SubSeq(ls, 1, i - 1) \o <<l>>) \o SubSeq(ls, i + 1, Len(ls))
  <1> DEFINE a == SubSeq(ls, 1, i - 1)
             b == SubSeq(ls, i + 1, Len(ls))
             n == Len(ls)
             c == a \o <<l>>
             d == c \o b
             e == [ls EXCEPT ![i] = l]
  <1>1. i \in 1 .. n /\ n \in Nat /\ DOMAIN ls = 1 .. n  OBVIOUS
  <1>2. a \in Seq(Renglones) /\ Len(a) = i - 1 /\ \A k \in 1 .. i - 1 : a[k] = ls[k]
    BY <1>1, SubSeqProperties
  <1>3. b \in Seq(Renglones) /\ Len(b) = n - i /\ \A k \in 1 .. n - i : b[k] = ls[k + i]
    BY <1>1, SubSeqProperties
  <1>4. <<l>> \in Seq(Renglones) /\ Len(<<l>>) = 1 /\ <<l>>[1] = l  OBVIOUS
  <1> HIDE DEF a, b, n
  <1>5. c \in Seq(Renglones) /\ Len(c) = i /\ c[i] = l /\ \A k \in 1 .. i - 1 : c[k] = ls[k]
    <2>1. c \in Seq(Renglones) /\ Len(c) = i - 1 + 1
          /\ \A k \in 1 .. i - 1 + 1 : c[k] = IF k <= i - 1 THEN a[k] ELSE <<l>>[k - (i - 1)]
      <3> DEFINE m == i - 1
                 u == <<l>>
                 j == 1
      <3>1. a \in Seq(Renglones) /\ u \in Seq(Renglones) /\ Len(a) = m /\ Len(u) = j  BY <1>2, <1>4
      <3> HIDE DEF m, u, j
      <3>2. a \o u \in Seq(Renglones) /\ Len(a \o u) = m + j
            /\ \A k \in 1 .. m + j : (a \o u)[k] = IF k <= m THEN a[k] ELSE u[k - m]
        BY <3>1, SeguidosEs
      <3> QED  BY <3>2 DEF m, u, j
    <2>2. i - 1 + 1 = i /\ i \in 1 .. i /\ ~(i <= i - 1) /\ i - (i - 1) = 1  BY <1>1
    <2>3. \A k \in 1 .. i - 1 : k \in 1 .. i /\ k <= i - 1  BY <1>1
    <2> HIDE DEF c
    <2> QED  BY <1>2, <1>4, <2>1, <2>2, <2>3
  <1> HIDE DEF c
  <1>6. d \in Seq(Renglones) /\ Len(d) = n /\ \A k \in 1 .. n : d[k] = IF k <= i THEN c[k] ELSE b[k - i]
    <2>1. d \in Seq(Renglones) /\ Len(d) = i + (n - i)
          /\ \A k \in 1 .. i + (n - i) : d[k] = IF k <= i THEN c[k] ELSE b[k - i]
      <3> DEFINE m == n - i
      <3>1. c \in Seq(Renglones) /\ b \in Seq(Renglones) /\ Len(c) = i /\ Len(b) = m  BY <1>3, <1>5
      <3> HIDE DEF m
      <3>2. d \in Seq(Renglones) /\ Len(d) = i + m
            /\ \A k \in 1 .. i + m : d[k] = IF k <= i THEN c[k] ELSE b[k - i]
        BY <3>1, SeguidosEs
      <3> QED  BY <3>2 DEF m
    <2>2. i + (n - i) = n  BY <1>1
    <2> HIDE DEF d
    <2> QED  BY <2>1, <2>2
  <1> HIDE DEF d
  <1>7. e \in Seq(Renglones) /\ Len(e) = n /\ e[i] = l /\ \A k \in 1 .. n : k # i => e[k] = ls[k]
    BY <1>1, ExceptSeq DEF n
  <1> HIDE DEF e
  <1>8. ASSUME NEW k \in 1 .. n  PROVE e[k] = d[k]
    <2>1. CASE k < i
      <3>1. k \in 1 .. i - 1 /\ k <= i /\ k # i  BY <1>1, <2>1
      <3> QED  BY <1>5, <1>6, <1>7, <3>1
    <2>2. CASE k = i  BY <1>1, <1>5, <1>6, <1>7, <2>2
    <2>3. CASE i < k
      <3>1. k - i \in 1 .. n - i /\ ~(k <= i) /\ k # i /\ (k - i) + i = k  BY <1>1, <2>3
      <3> QED  BY <1>3, <1>6, <1>7, <3>1
    <2> QED  BY <1>1, <2>1, <2>2, <2>3
  <1>9. e = d  BY <1>6, <1>7, <1>8, SeqEqual
  <1> QED  BY <1>2, <1>3, <1>9 DEF a, b, c, d, e, n

\* The form opens where the cursor is, or on an empty detail.
LEMMA AbreDondeEsta ==
  ASSUME IInvLineas, NextLineas, EnRejilla, detalle'.modo # "cerrado"
  PROVE  EsVacio(detalle'.copia) \/ detalle'.copia = renglones[cursor]
  <1>1. PICK modo \in Modos : BeginEdit(modo)
    <2>1. ASSUME detalle' = SinDetalle \/ detalle' = detalle PROVE FALSE  BY <2>1 DEF EnRejilla, SinDetalle
    <2> QED
      BY <2>1 DEF NextLineas, Modos, AceptaDetalle, CancelaDetalle, MueveCursor, SlotDetailUp, SlotDetailDown,
                  Intercambia, SlotAddAlbaran, QuitaLaNota, InsertDetails, CambiaFormaPago, SlotCobrar, GrabaYModifica
  <1> DEFINE ls == IF modo \in {"deleting", "selecting"} THEN renglones ELSE ConVacio(renglones)
             n  == IF ls = renglones THEN cursor ELSE Len(ls)
             m  == ModoDe(ls[n], modo)
             r  == IF m = "inserting" THEN Len(ls) ELSE n
  <1>2. detalle' = [modo |-> m, renglon |-> r, copia |-> ls[r]]  BY <1>1 DEF BeginEdit
  <1>3. renglones \in Seq(Renglones)  BY DEF IInvLineas
  <1> HIDE DEF ls
  <1>4. m = "inserting" \/ ls # renglones => ls = ConVacio(renglones)  BY DEF ModoDe, ls
  <1>5. CASE r = Len(ls) /\ ls = ConVacio(renglones)
    <2>1. ls[r] = Vacio  BY <1>3, <1>5, ElUltimo
    <2> QED  BY <1>2, <2>1 DEF EsVacio
  <1>6. CASE r = cursor /\ ls = renglones  BY <1>2, <1>6
  <1> QED  BY <1>4, <1>5, <1>6

\* What the invoice says after the form of a detail is accepted.
LEMMA AceptaLoSuyo ==
  ASSUME IInvLineas, AceptaDetalle
  PROVE  LET antes   == Dicho(SubSeq(renglones, 1, detalle.renglon - 1))
             despues == Dicho(SubSeq(renglones, detalle.renglon + 1, Len(renglones)))
             mio     == <<detalle.copia.texto, detalle.copia.nota>>
         IN  \/ Dicho(renglones') = Dicho(renglones)
             \/ detalle.modo = "deleting" /\ Dicho(renglones') = antes \o despues
             \/ /\ detalle.modo \in {"updating", "duplicating"}
                /\ \E t \in Textos : Dicho(renglones') = antes \o <<<<t, mio[2]>>>> \o despues
             \/ /\ detalle.modo = "inserting" /\ EsVacio(detalle.copia)
                /\ \E t \in Textos : Dicho(renglones') = Append(Dicho(renglones), <<t, SinNota>>)
  <1> DEFINE i == detalle.renglon
             a == SubSeq(renglones, 1, i - 1)
             b == SubSeq(renglones, i + 1, Len(renglones))
             hecho(t) == CASE detalle.modo = "deleting"  -> QuitaDetalle(renglones, detalle)
                           [] detalle.modo = "selecting" -> renglones
                           [] OTHER -> PonDetalle(renglones, detalle, t)
  <1>1. PICK t \in Textos : UpdateFromDetails(ConVacio(hecho(t)))  BY DEF AceptaDetalle
  <1>2. renglones' = Numera(ConVacio(hecho(t)))  BY <1>1 DEF UpdateFromDetails
  <1>3. /\ renglones \in Seq(Renglones) /\ i \in DOMAIN renglones /\ detalle.copia \in Renglones
        /\ detalle.modo \in {"inserting", "updating", "duplicating", "deleting", "selecting"}
        /\ detalle.modo = "inserting" => i = Len(renglones) /\ EsVacio(detalle.copia) /\ EsVacio(renglones[i])
    BY DEF IInvLineas, AceptaDetalle, EnRejilla, DetalleBien
  <1>4. a \in Seq(Renglones) /\ b \in Seq(Renglones)  BY <1>3, VacioTipo, Partida
  <1>5. ASSUME hecho(t) \in Seq(Renglones)  PROVE Dicho(renglones') = Dicho(hecho(t))
    <2> HIDE DEF hecho
    <2>1. ConVacio(hecho(t)) \in Seq(Renglones)  BY <1>5, ConVacioIgual
    <2> QED  BY <1>2, <1>5, <2>1, DichoNumera, DichoConVacio
  <1>6. Dicho(a) \in Seq(Cosas) /\ Dicho(b) \in Seq(Cosas)  BY <1>4, DichoTipo
  <1>7. CASE detalle.modo = "selecting"
    <2>1. hecho(t) = renglones  BY <1>7
    <2> QED  BY <1>3, <1>5, <2>1
  <1>8. CASE detalle.modo = "deleting"
    <2>1. hecho(t) = a \o b  BY <1>8 DEF QuitaDetalle, RemoveAt
    <2>2. a \o b \in Seq(Renglones)  BY <1>4, ConcatProperties
    <2>3. Dicho(renglones') = Dicho(a \o b)  BY <1>5, <2>1, <2>2
    <2>4. Dicho(a \o b) = Dicho(a) \o Dicho(b)  BY <1>4, DichoSeguidos
    <2> QED  BY <1>8, <2>3, <2>4
  <1>9. CASE detalle.modo \in {"inserting", "updating", "duplicating"}
    <2> DEFINE l == [detalle.copia EXCEPT !.texto = t]
    <2>1. l \in Renglones /\ ~EsVacio(l) /\ l.texto = t /\ l.nota = detalle.copia.nota
      BY <1>3, SinTextoAssumption DEF Renglones, EsVacio, Vacio
    <2>2. hecho(t) = [renglones EXCEPT ![i] = l]  BY <1>9 DEF PonDetalle
    <2> HIDE DEF l, hecho
    <2>3. hecho(t) = (a \o <<l>>) \o b  BY <1>3, <2>1, <2>2, Partida
    <2> DEFINE u == <<l>>
    <2>4. u \in Seq(Renglones) /\ Dicho(u) = <<<<t, detalle.copia.nota>>>>
      <3>1. Dicho(u) = IF EsVacio(l) THEN <<>> ELSE <<<<l.texto, l.nota>>>>  BY <2>1, DichoDeUno
      <3> QED  BY <2>1, <3>1
    <2> HIDE DEF u, a, b
    <2>5. a \o u \in Seq(Renglones) /\ (a \o u) \o b \in Seq(Renglones)  BY <1>4, <2>4, ConcatProperties
    <2>6. Dicho((a \o u) \o b) = Dicho(a \o u) \o Dicho(b)  BY <1>4, <2>5, DichoSeguidos
    <2>7. Dicho(a \o u) = Dicho(a) \o Dicho(u)  BY <1>4, <2>4, DichoSeguidos
    <2>8. Dicho(renglones') = Dicho(a) \o <<<<t, detalle.copia.nota>>>> \o Dicho(b)
      <3>1. hecho(t) = (a \o u) \o b  BY <2>3 DEF u
      <3>2. Dicho(renglones') = Dicho((a \o u) \o b)  BY <1>5, <2>5, <3>1
      <3> QED  BY <2>4, <2>6, <2>7, <3>2
    <2>9. CASE detalle.modo # "inserting"  BY <1>9, <2>8, <2>9 DEF a, b
    <2>10. CASE detalle.modo = "inserting"
      <3> DEFINE v == <<Vacio>>
      <3>1. i = Len(renglones) /\ EsVacio(detalle.copia) /\ renglones[i] = Vacio  BY <1>3, <2>10 DEF EsVacio
      <3>2. v \in Seq(Renglones) /\ Dicho(v) = <<>>
        <4>1. Dicho(v) = IF EsVacio(Vacio) THEN <<>> ELSE <<<<Vacio.texto, Vacio.nota>>>>  BY VacioTipo, DichoDeUno
        <4> QED  BY VacioTipo, <4>1
      <3> HIDE DEF v
      <3>3. b = <<>>
        <4>1. Len(renglones) \in Nat  BY <1>3
        <4>2. Len(b) = 0  BY <1>3, <3>1, <4>1, SubSeqProperties DEF b
        <4> QED  BY <1>4, <4>2, EmptySeq
      <3>4. Dicho(b) = <<>>
        <4>1. Escritos(b) = <<>>  BY <3>3, NadaEscrito
        <4>2. Len(Dicho(b)) = 0  BY <1>4, <4>1, DichoTipo
        <4> QED  BY <1>6, <4>2, EmptySeq
      <3>5. renglones = (a \o v) \o b
        <4>1. [renglones EXCEPT ![i] = Vacio] = (a \o <<Vacio>>) \o b  BY <1>3, VacioTipo, Partida DEF a, b
        <4>2. [renglones EXCEPT ![i] = Vacio] = renglones  BY <1>3, <3>1
        <4> QED  BY <4>1, <4>2 DEF v
      <3>6. Dicho(renglones) = Dicho(a)
        <4>1. a \o v \in Seq(Renglones)  BY <1>4, <3>2, ConcatProperties
        <4>2. Dicho((a \o v) \o b) = (Dicho(a) \o Dicho(v)) \o Dicho(b)  BY <1>4, <3>2, <4>1, DichoSeguidos
        <4>3. (Dicho(a) \o <<>>) \o <<>> = Dicho(a)  BY <1>6, ConcatEmptySeq
        <4> QED  BY <3>2, <3>4, <3>5, <4>2, <4>3
      <3>7. Dicho(renglones') = Append(Dicho(renglones), <<t, SinNota>>)
        <4> DEFINE x == <<t, SinNota>>
        <4>1. x \in Cosas /\ detalle.copia.nota = SinNota  BY <3>1 DEF Cosas, EsVacio, Vacio
        <4>2. Dicho(renglones') = Dicho(a) \o <<x>> \o <<>>  BY <2>8, <3>4, <4>1
        <4> HIDE DEF x
        <4>3. <<x>> \in Seq(Cosas)  BY <4>1
        <4>4. Dicho(a) \o <<x>> \in Seq(Cosas)  BY <1>6, <4>3, ConcatProperties
        <4>5. Dicho(a) \o <<x>> \o <<>> = Dicho(a) \o <<x>>  BY <4>4, ConcatEmptySeq
        <4>6. Dicho(a) \o <<x>> = Append(Dicho(a), x)  BY <1>6, <4>1, AppendIsConcat
        <4> QED  BY <3>6, <4>2, <4>5, <4>6 DEF x
      <3> QED  BY <2>10, <3>1, <3>7
    <2> QED  BY <2>9, <2>10
  <1> QED  BY <1>3, <1>7, <1>8, <1>9

\* The form of a detail opens on the detail under the cursor or on an empty one, and leaves
\* all the other details as they were, in their order.
THEOREM CadaFormularioLoSuyoSiempre == SpecLineas => CadaFormularioLoSuyo
  <1> DEFINE LoSuyo ==
        /\ EnRejilla /\ detalle'.modo # "cerrado" =>
             EsVacio(detalle'.copia) \/ detalle'.copia = renglones[cursor]
        /\ ~EnRejilla /\ detalle'.modo = "cerrado" =>
             LET antes   == Dicho(SubSeq(renglones, 1, detalle.renglon - 1))
                 despues == Dicho(SubSeq(renglones, detalle.renglon + 1, Len(renglones)))
                 mio     == <<detalle.copia.texto, detalle.copia.nota>>
             IN  \/ Dicho(renglones') = Dicho(renglones)
                 \/ detalle.modo = "deleting" /\ Dicho(renglones') = antes \o despues
                 \/ /\ detalle.modo \in {"updating", "duplicating"}
                    /\ \E t \in Textos : Dicho(renglones') = antes \o <<<<t, mio[2]>>>> \o despues
                 \/ /\ detalle.modo = "inserting" /\ EsVacio(detalle.copia)
                    /\ \E t \in Textos : Dicho(renglones') = Append(Dicho(renglones), <<t, SinNota>>)
  <1>1. ASSUME IInvLineas, NextLineas  PROVE LoSuyo
    <2>1. EnRejilla /\ detalle'.modo # "cerrado" => EsVacio(detalle'.copia) \/ detalle'.copia = renglones[cursor]
      BY <1>1, AbreDondeEsta
    <2>2. CASE AceptaDetalle  BY <1>1, <2>1, <2>2, AceptaLoSuyo
    <2>3. CASE CancelaDetalle  BY <2>1, <2>3 DEF CancelaDetalle
    <2>4. CASE EnRejilla  BY <2>1, <2>4
    <2>5. AceptaDetalle \/ CancelaDetalle \/ EnRejilla
      BY <1>1 DEF NextLineas, BeginEdit, MueveCursor, SlotDetailUp, SlotDetailDown,
                  Intercambia, SlotAddAlbaran, QuitaLaNota, InsertDetails, CambiaFormaPago, SlotCobrar, GrabaYModifica
    <2> QED  BY <2>2, <2>3, <2>4, <2>5
  <1>2. IInvLineas /\ [NextLineas]_varLineas => [LoSuyo]_varLineas  BY <1>1
  <1>3. SpecLineas => [][LoSuyo]_varLineas  BY LineasAlEmpezar, LineasSiguen, <1>2, PTL DEF SpecLineas
  <1> QED  BY <1>3 DEF CadaFormularioLoSuyo
===============================================================================
