--------------------------- MODULE Contabilidad_proofs ---------------------------
(***************************************************************************)
(* Entries and their balances, and the counter that entries share with     *)
(* other documents.                                                        *)
(*                                                                         *)
(* That the balances of the accounts are right whenever nobody works, with *)
(* one workstation and one company. What makes it inductive (Cuadra) says  *)
(* of every state that the balance of an account is right once what        *)
(* remains to be done is added, each statement weighing what it adds to    *)
(* the balance less what it does to the lines (Peso): the statements of an *)
(* entry weigh nothing together, and those of a recalculation all the      *)
(* lines there are. That a line counts in its account and in every account *)
(* of which its own is part (CaeSube) goes by induction on the levels of   *)
(* the codes.                                                              *)
(*                                                                         *)
(* That a counter is given once in a year, for any number of forms, years, *)
(* rows and numbers.  ContadoresDistintos compares two rows that are       *)
(* stored; what makes it inductive is what a form that is about to store   *)
(* one knows of all the others: its number is greater than theirs as long  *)
(* as nobody has saved since it counted (EsElUltimo), which it only claims *)
(* while it saves (SoloAlGrabar), and nobody has a number while the        *)
(* counter is not in use (SinUsarlo).                                      *)
(*                                                                         *)
(* And that dates turn into Julian days and back without leaving the       *)
(* calendar. Both formulas count years that begin in March: a day is such  *)
(* a year and its number in it (EsDia), a date gives one and the formulas  *)
(* give it back (DelCalendario, Ida, Vuelta), and from the correction on   *)
(* every day is one (EsUnDia).                                             *)
(***************************************************************************)
EXTENDS Asientos, Contadores, Fechas, Sumas_proofs

-------------------------------------------------------------------------------
(* Codes.  A group is above what is below it: induction on the level.        *)

LEMMA PorSuperior ==
  ASSUME NEW B \in SUBSET Codigos,
         \A k \in Codigos : (Superior[k] = Nada \/ Superior[k] \in B) => k \in B
  PROVE  B = Codigos
  <1>1. PICK nivel \in [Codigos -> 0 .. Cardinality(Codigos)] :
          \A k \in Codigos : Superior[k] # Nada => nivel[Superior[k]] < nivel[k]
    BY SuperiorAssumption
  <1> DEFINE R == Codigos \ B
             N == {nivel[k] : k \in R}
  <1> SUFFICES ASSUME R # {} PROVE FALSE  OBVIOUS
  <1>2. IsFiniteSet(R)  BY FS_Subset, SuperiorAssumption
  <1>3. \A k \in R : nivel[k] \in Nat
    <2>1. Cardinality(Codigos) \in Nat  BY FS_CardinalityType, SuperiorAssumption
    <2>2. \A k \in R : nivel[k] \in 0 .. Cardinality(Codigos)  BY <1>1
    <2> QED  BY <2>1, <2>2
  <1> HIDE DEF R
  <1>4. IsFiniteSet(N)  BY <1>2, FiniteImage
  <1>5. N \in SUBSET Nat /\ N # {}  BY <1>3
  <1> HIDE DEF N
  <1>6. PICK m \in N : \A n \in N : m <= n  BY <1>4, <1>5, Least
  <1>7. PICK k \in R : nivel[k] = m  BY <1>6 DEF N
  <1>8. k \in Codigos /\ k \notin B  BY <1>7 DEF R
  <1>9. Superior[k] # Nada /\ Superior[k] \notin B  BY <1>8
  <1>10. Superior[k] \in Codigos  BY <1>8, <1>9, CodigoAssumption
  <1>11. Superior[k] \in R  BY <1>9, <1>10 DEF R
  <1>12. m <= nivel[Superior[k]]  BY <1>6, <1>11 DEF N
  <1>13. nivel[Superior[k]] < nivel[k]  BY <1>1, <1>8, <1>9
  <1>14. nivel[Superior[k]] \in Nat /\ nivel[k] \in Nat  BY <1>3, <1>7, <1>11
  <1> QED  BY <1>7, <1>12, <1>13, <1>14

\* What is defined going up through the groups: the codes of P know it, the others have it from
\* the group above.
Sube(P, base, propio, g, T) ==
  g = [k \in T |-> IF k \in P THEN base[k] ELSE propio[k] \cup g[Superior[k]]]

\* The groups above those of T are in T, but for those of P.
Cerrado(P, T) == \A k \in T : k \notin P => Superior[k] \in T

\* Of some codes with the groups above them there is one above none of the others.
LEMMA AlPie ==
  ASSUME NEW P, \A k \in Codigos : Superior[k] = Nada => k \in P,
         NEW X \in SUBSET Codigos, X # {}, Cerrado(P, X)
  PROVE  \E a \in X : Cerrado(P, X \ {a}) /\ (a \notin P => Superior[a] \in X \ {a})
  <1>1. PICK nivel \in [Codigos -> 0 .. Cardinality(Codigos)] :
          \A k \in Codigos : Superior[k] # Nada => nivel[Superior[k]] < nivel[k]
    BY SuperiorAssumption
  <1> DEFINE n == Cardinality(Codigos)
             bajo == [k \in X |-> n - nivel[k]]
             N == {bajo[k] : k \in X}
  <1>2. IsFiniteSet(X)  BY FS_Subset, SuperiorAssumption
  <1>3. n \in Nat  BY FS_CardinalityType, SuperiorAssumption
  <1>4. \A k \in X : nivel[k] \in Nat /\ bajo[k] \in Nat /\ bajo[k] = n - nivel[k]
    <2>1. \A k \in X : nivel[k] \in 0 .. n  BY <1>1
    <2> HIDE DEF n
    <2> QED  BY <1>3, <2>1
  <1> HIDE DEF bajo
  <1>5. IsFiniteSet(N)  BY <1>2, FiniteImage
  <1>6. N \in SUBSET Nat /\ N # {}  BY <1>4
  <1> HIDE DEF N
  <1>7. PICK m \in N : \A x \in N : m <= x  BY <1>5, <1>6, Least
  <1>8. PICK a \in X : bajo[a] = m  BY <1>7 DEF N
  <1>9. \A k \in X : bajo[a] <= bajo[k]  BY <1>7, <1>8 DEF N
  <1> HIDE DEF n
  <1>10. \A k \in X : nivel[k] <= nivel[a]  BY <1>3, <1>4, <1>9
  <1>11. ASSUME NEW k \in X, k \notin P  PROVE Superior[k] \in X \ {a}
    <2>1. Superior[k] \in X  BY <1>11 DEF Cerrado
    <2>2. Superior[k] # Nada  BY <1>11
    <2>3. nivel[Superior[k]] < nivel[k]  BY <1>1, <2>2
    <2>4. nivel[Superior[k]] \in Nat /\ nivel[k] \in Nat /\ nivel[a] \in Nat /\ nivel[k] <= nivel[a]
      BY <1>4, <1>10, <2>1
    <2>5. Superior[k] # a  BY <2>3, <2>4
    <2> QED  BY <2>1, <2>5
  <1> QED  BY <1>11 DEF Cerrado

LEMMA SubeExiste ==
  ASSUME NEW P, \A k \in Codigos : Superior[k] = Nada => k \in P, NEW base, NEW propio
  PROVE  \E g : Sube(P, base, propio, g, Codigos)
  <1> DEFINE Hay(T) == \E g : Sube(P, base, propio, g, T)
             F == {T \in SUBSET Codigos : Cerrado(P, T) /\ ~Hay(T)}
  <1>0. Cerrado(P, Codigos)  BY CodigoAssumption DEF Cerrado
  <1> SUFFICES ASSUME F # {} PROVE FALSE
    <2> HIDE DEF Hay
    <2>1. F = {} => Hay(Codigos)  BY <1>0
    <2> QED  BY <2>1 DEF Hay
  <1>1. F \in Families(Codigos)  BY DEF Families
  <1>2. PICK X : IsMinimal(X, F)
    <2> HIDE DEF F
    <2> QED  BY <1>1, Minimal, SuperiorAssumption
  <1>3. X \in SUBSET Codigos /\ Cerrado(P, X) /\ ~ \E g : Sube(P, base, propio, g, X)
    BY <1>2 DEF IsMinimal
  <1>4. X # {}
    <2> SUFFICES ASSUME X = {} PROVE FALSE  OBVIOUS
    <2> DEFINE g == [k \in {} |-> 0]
    <2>1. g = [k \in {} |-> IF k \in P THEN base[k] ELSE propio[k] \cup g[Superior[k]]]  OBVIOUS
    <2> QED  BY <1>3, <2>1 DEF Sube
  <1>5. PICK a \in X : Cerrado(P, X \ {a}) /\ (a \notin P => Superior[a] \in X \ {a})
    BY <1>3, <1>4, AlPie
  <1> DEFINE Y == X \ {a}
  <1>6. Y \in SUBSET Codigos /\ Y \subseteq X /\ Y # X  BY <1>3
  <1>7. Y \notin F  BY <1>2, <1>6 DEF IsMinimal
  <1>8. PICK g : Sube(P, base, propio, g, Y)  BY <1>5, <1>6, <1>7
  <1> DEFINE V(f, k) == IF k \in P THEN base[k] ELSE propio[k] \cup f[Superior[k]]
             h == [k \in X |-> IF k = a THEN V(g, a) ELSE g[k]]
  <1>9. ASSUME NEW k \in X  PROVE h[k] = V(h, k)
    <2>1. k \notin P => Superior[k] \in Y
      <3>1. CASE k = a  BY <1>5, <3>1
      <3>2. CASE k # a  BY <1>5, <3>2 DEF Cerrado
      <3> QED  BY <3>1, <3>2
    <2>2. k \notin P => g[Superior[k]] = h[Superior[k]]  BY <2>1
    <2> HIDE DEF h
    <2>3. V(g, k) = V(h, k)  BY <2>2
    <2>4. h[k] = V(g, k)
      <3>1. k # a => g[k] = V(g, k)  BY <1>8 DEF Sube
      <3> HIDE DEF V
      <3> QED  BY <3>1 DEF h
    <2> HIDE DEF V
    <2> QED  BY <2>3, <2>4
  <1>10. h = [k \in X |-> h[k]]  OBVIOUS
  <1> HIDE DEF h
  <1>11. h = [k \in X |-> V(h, k)]
    <2> HIDE DEF V
    <2> QED  BY <1>9, <1>10
  <1> QED  BY <1>3, <1>11 DEF Sube

-------------------------------------------------------------------------------
(* The groups of a code, and the account above another.                      *)

LEMMA GruposEs ==
  \A k \in Codigos :
    Grupos[k] = {k} \cup (IF Superior[k] = Nada THEN {} ELSE Grupos[Superior[k]])
  <1> DEFINE P == {k \in Codigos : Superior[k] = Nada}
             uno == [k \in Codigos |-> {k}]
             F(g) == [k \in Codigos |->
                        {k} \cup (IF Superior[k] = Nada THEN {} ELSE g[Superior[k]])]
  <1>1. Grupos = CHOOSE g : g = F(g)  BY DEF Grupos
  <1>2. PICK g : Sube(P, uno, uno, g, Codigos)
    <2>1. \A k \in Codigos : Superior[k] = Nada => k \in P  OBVIOUS
    <2> HIDE DEF P, uno
    <2> QED  BY <2>1, SubeExiste
  <1>3. \A k \in Codigos :
          (IF k \in P THEN uno[k] ELSE uno[k] \cup g[Superior[k]])
            = {k} \cup (IF Superior[k] = Nada THEN {} ELSE g[Superior[k]])
    OBVIOUS
  <1>4. g = F(g)  BY <1>2, <1>3 DEF Sube
  <1> HIDE DEF F
  <1>5. Grupos = F(Grupos)  BY <1>1, <1>4
  <1> QED  BY <1>5 DEF F

LEMMA GruposCodigos == \A k \in Codigos : Grupos[k] \subseteq Codigos
  <1> DEFINE B == {k \in Codigos : Grupos[k] \subseteq Codigos}
  <1>1. ASSUME NEW k \in Codigos, Superior[k] = Nada \/ Superior[k] \in B  PROVE k \in B
    BY <1>1, GruposEs
  <1>2. B \in SUBSET Codigos  OBVIOUS
  <1> HIDE DEF B
  <1>3. B = Codigos  BY <1>1, <1>2, PorSuperior
  <1> QED  BY <1>3 DEF B

\* No group is below itself.
LEMMA NoSeContiene ==
  \A k \in Codigos : Superior[k] # Nada => k \notin Grupos[Superior[k]]
  <1>1. PICK nivel \in [Codigos -> 0 .. Cardinality(Codigos)] :
          \A k \in Codigos : Superior[k] # Nada => nivel[Superior[k]] < nivel[k]
    BY SuperiorAssumption
  <1>2. \A k \in Codigos : nivel[k] \in Nat
    <2>1. Cardinality(Codigos) \in Nat  BY FS_CardinalityType, SuperiorAssumption
    <2>2. \A k \in Codigos : nivel[k] \in 0 .. Cardinality(Codigos)  BY <1>1
    <2> QED  BY <2>1, <2>2
  <1> DEFINE B == {k \in Codigos : \A j \in Grupos[k] : nivel[j] <= nivel[k]}
  <1>3. ASSUME NEW k \in Codigos, Superior[k] = Nada \/ Superior[k] \in B  PROVE k \in B
    <2> SUFFICES ASSUME NEW j \in Grupos[k] PROVE nivel[j] <= nivel[k]  OBVIOUS
    <2>1. nivel[k] \in Nat  BY <1>2
    <2>2. CASE j = k  BY <2>1, <2>2
    <2>3. CASE j # k
      <3>1. Superior[k] # Nada /\ j \in Grupos[Superior[k]]  BY <2>3, GruposEs
      <3>2. Superior[k] \in B /\ Superior[k] \in Codigos  BY <1>3, <3>1
      <3>3. nivel[j] <= nivel[Superior[k]] /\ nivel[Superior[k]] < nivel[k]  BY <1>1, <3>1, <3>2
      <3>4. j \in Codigos  BY <3>1, <3>2, GruposCodigos
      <3> QED  BY <1>2, <2>1, <3>2, <3>3, <3>4
    <2> QED  BY <2>2, <2>3
  <1>4. B \in SUBSET Codigos  OBVIOUS
  <1>5. \A k \in B : \A j \in Grupos[k] : nivel[j] <= nivel[k]  OBVIOUS
  <1> HIDE DEF B
  <1>6. B = Codigos  BY <1>3, <1>4, PorSuperior
  <1> SUFFICES ASSUME NEW k \in Codigos, Superior[k] # Nada, k \in Grupos[Superior[k]] PROVE FALSE
    OBVIOUS
  <1>7. Superior[k] \in Codigos  BY CodigoAssumption
  <1>8. nivel[k] <= nivel[Superior[k]] /\ nivel[Superior[k]] < nivel[k]  BY <1>1, <1>5, <1>6, <1>7
  <1> QED  BY <1>2, <1>7, <1>8

\* The account of company e nearest above k.
LEMMA CuentaPadreEs ==
  ASSUME NEW e, NEW k \in Codigos
  PROVE  CuentaPadre(e, k) =
           IF Superior[k] = Nada THEN {}
           ELSE IF <<e, Superior[k]>> \in Cuentas THEN {<<e, Superior[k]>>}
           ELSE CuentaPadre(e, Superior[k])
  <1> DEFINE P == {j \in Codigos : Superior[j] = Nada \/ <<e, Superior[j]>> \in Cuentas}
             base == [j \in Codigos |-> IF Superior[j] = Nada THEN {} ELSE {<<e, Superior[j]>>}]
             nada == [j \in Codigos |-> {}]
             F(g) == [j \in Codigos |->
                        IF Superior[j] = Nada THEN {}
                        ELSE IF <<e, Superior[j]>> \in Cuentas THEN {<<e, Superior[j]>>}
                        ELSE g[Superior[j]]]
             S == CHOOSE g : g = F(g)
  <1>1. \A j : CuentaPadre(e, j) = S[j]  BY DEF CuentaPadre
  <1>2. PICK g : Sube(P, base, nada, g, Codigos)
    <2>1. \A j \in Codigos : Superior[j] = Nada => j \in P  OBVIOUS
    <2> HIDE DEF P, base, nada
    <2> QED  BY <2>1, SubeExiste
  <1>3. \A j \in Codigos :
          (IF j \in P THEN base[j] ELSE nada[j] \cup g[Superior[j]])
            = IF Superior[j] = Nada THEN {}
              ELSE IF <<e, Superior[j]>> \in Cuentas THEN {<<e, Superior[j]>>}
              ELSE g[Superior[j]]
    OBVIOUS
  <1>4. g = F(g)  BY <1>2, <1>3 DEF Sube
  <1> HIDE DEF F
  <1>5. S = F(S)  BY <1>4
  <1> HIDE DEF S
  <1> QED  BY <1>1, <1>5 DEF F

\* There is one, or none.
LEMMA PadreTipo ==
  ASSUME NEW e, NEW k \in Codigos
  PROVE  \/ CuentaPadre(e, k) = {}
         \/ \E r \in Cuentas : r[1] = e /\ CuentaPadre(e, k) = {r}
  <1> DEFINE Bien(j) == \/ CuentaPadre(e, j) = {}
                        \/ \E r \in Cuentas : r[1] = e /\ CuentaPadre(e, j) = {r}
             B == {j \in Codigos : Bien(j)}
  <1>1. ASSUME NEW j \in Codigos, Superior[j] = Nada \/ Superior[j] \in B  PROVE j \in B
    <2>1. CASE Superior[j] = Nada  BY <2>1, CuentaPadreEs
    <2>2. CASE Superior[j] # Nada /\ <<e, Superior[j]>> \in Cuentas
      <3> DEFINE r == <<e, Superior[j]>>
      <3>1. CuentaPadre(e, j) = {r}  BY <2>2, CuentaPadreEs
      <3>2. r \in Cuentas /\ r[1] = e  BY <2>2
      <3> HIDE DEF r
      <3>3. Bien(j)  BY <3>1, <3>2
      <3> HIDE DEF Bien
      <3> QED  BY <3>3
    <2>3. CASE Superior[j] # Nada /\ <<e, Superior[j]>> \notin Cuentas
      <3>1. CuentaPadre(e, j) = CuentaPadre(e, Superior[j])  BY <2>3, CuentaPadreEs
      <3> QED  BY <1>1, <2>3, <3>1
    <2> QED  BY <2>1, <2>2, <2>3
  <1>2. B \in SUBSET Codigos  OBVIOUS
  <1>3. \A j \in B : Bien(j)  OBVIOUS
  <1> HIDE DEF B, Bien
  <1>4. B = Codigos  BY <1>1, <1>2, PorSuperior
  <1>5. Bien(k)  BY <1>3, <1>4
  <1> QED  BY <1>5 DEF Bien

LEMMA PadreGrupos ==
  ASSUME NEW q \in Cuentas, NEW k \in Codigos
  PROVE  Superior[k] # Nada /\ q[2] \in Grupos[Superior[k]]
           <=> \E r \in CuentaPadre(q[1], k) : q[2] \in Grupos[r[2]]
  <1> DEFINE e == q[1]
             Bien(j) == Superior[j] # Nada /\ q[2] \in Grupos[Superior[j]]
                          <=> \E r \in CuentaPadre(e, j) : q[2] \in Grupos[r[2]]
             B == {j \in Codigos : Bien(j)}
  <1>0. q = <<e, q[2]>>  BY CuentaAssumption
  <1>1. ASSUME NEW j \in Codigos, Superior[j] = Nada \/ Superior[j] \in B  PROVE Bien(j)
    <2>1. CASE Superior[j] = Nada  BY <2>1, CuentaPadreEs
    <2>2. CASE Superior[j] # Nada /\ <<e, Superior[j]>> \in Cuentas
      <3> DEFINE r == <<e, Superior[j]>>
      <3>1. CuentaPadre(e, j) = {r}  BY <2>2, CuentaPadreEs
      <3>2. r[2] = Superior[j]  OBVIOUS
      <3> HIDE DEF r
      <3> QED  BY <2>2, <3>1, <3>2
    <2>3. CASE Superior[j] # Nada /\ <<e, Superior[j]>> \notin Cuentas
      <3> DEFINE s == Superior[j]
      <3>1. CuentaPadre(e, j) = CuentaPadre(e, s)  BY <2>3, CuentaPadreEs
      <3>2. s \in Codigos /\ Bien(s)  BY <1>1, <2>3
      <3>3. q[2] # s  BY <1>0, <2>3
      <3>4. Grupos[s] = {s} \cup (IF Superior[s] = Nada THEN {} ELSE Grupos[Superior[s]])
        BY <3>2, GruposEs
      <3> QED  BY <2>3, <3>1, <3>2, <3>3, <3>4
    <2> QED  BY <2>1, <2>2, <2>3
  <1>2. B \in SUBSET Codigos  OBVIOUS
  <1>3. \A j \in B : Bien(j)  OBVIOUS
  <1>5. \A j \in Codigos : Superior[j] = Nada \/ Superior[j] \in B => j \in B
    <2> HIDE DEF Bien
    <2> QED  BY <1>1
  <1> HIDE DEF B, Bien
  <1>4. B = Codigos  BY <1>2, <1>5, PorSuperior
  <1>6. Bien(k)  BY <1>3, <1>4
  <1> QED  BY <1>6 DEF Bien

\* The lines that count in account q: those of its company on it or below it.
Cae(c, q) == c[1] = q[1] /\ q[2] \in Grupos[c[2]]

\* A line counts in its account and in those in which one of the account above would.
LEMMA CaeSube ==
  ASSUME NEW c \in Cuentas, NEW q \in Cuentas
  PROVE  /\ Cae(c, q) <=> q = c \/ \E r \in CuentaPadre(c[1], c[2]) : Cae(r, q)
         /\ q = c => \A r \in CuentaPadre(c[1], c[2]) : ~Cae(r, q)
  <1>1. c[2] \in Codigos /\ c = <<c[1], c[2]>> /\ q = <<q[1], q[2]>>  BY CuentaAssumption
  <1>2. \A r \in CuentaPadre(c[1], c[2]) : r[1] = c[1]  BY <1>1, PadreTipo
  <1>3. CASE c[1] # q[1]  BY <1>2, <1>3 DEF Cae
  <1>4. CASE c[1] = q[1]
    <2>1. Superior[c[2]] # Nada /\ q[2] \in Grupos[Superior[c[2]]]
            <=> \E r \in CuentaPadre(c[1], c[2]) : Cae(r, q)
      BY <1>1, <1>2, <1>4, PadreGrupos DEF Cae
    <2>2. Grupos[c[2]] = {c[2]} \cup (IF Superior[c[2]] = Nada THEN {} ELSE Grupos[Superior[c[2]]])
      BY <1>1, GruposEs
    <2>3. q = c <=> q[2] = c[2]  BY <1>1, <1>4
    <2>4. Superior[c[2]] # Nada => c[2] \notin Grupos[Superior[c[2]]]  BY <1>1, NoSeContiene
    <2>5. Cae(c, q) <=> q[2] = c[2] \/ (Superior[c[2]] # Nada /\ q[2] \in Grupos[Superior[c[2]]])
      BY <1>4, <2>2 DEF Cae
    <2> QED  BY <2>1, <2>3, <2>4, <2>5
  <1> QED  BY <1>3, <1>4

-------------------------------------------------------------------------------
(* Sums of lists.                                                            *)

\* A list in which each second number makes up for the one before adds nothing.
LEMMA SumPares ==
  ASSUME NEW k \in Nat, NEW w, \A n \in 1 .. 2 * k : w[n] \in Int,
         \A j \in 1 .. k : w[2 * j - 1] + w[2 * j] = 0
  PROVE  SumFunctionOnSet(w, 1 .. 2 * k) = 0
  <1> DEFINE D == 1 .. 2 * k
             F == {T \in {1 .. 2 * j : j \in 0 .. k} : SumFunctionOnSet(w, T) # 0}
  <1> SUFFICES ASSUME F # {} PROVE FALSE  OBVIOUS
  <1>1. \A j \in 0 .. k : 1 .. 2 * j \subseteq D  OBVIOUS
  <1>2. F \in Families(D) /\ IsFiniteSet(D)
    <2>1. IsFiniteSet(D)  BY FS_Interval
    <2> HIDE DEF D
    <2> QED  BY <1>1, <2>1 DEF Families
  <1>3. PICK X : IsMinimal(X, F)
    <2> HIDE DEF F, D
    <2> QED  BY <1>2, Minimal
  <1>4. PICK j \in 0 .. k : X = 1 .. 2 * j /\ SumFunctionOnSet(w, X) # 0  BY <1>3 DEF IsMinimal
  <1>5. j # 0
    <2> SUFFICES ASSUME j = 0 PROVE FALSE  OBVIOUS
    <2>1. X = {}  BY <1>4
    <2> QED  BY <1>4, <2>1, SumEmpty
  <1> DEFINE Y == 1 .. 2 * (j - 1)
             a == 2 * j - 1
             b == 2 * j
  <1>6. /\ j \in 1 .. k /\ j - 1 \in 0 .. k /\ X \ {b} = 1 .. a /\ (1 .. a) \ {a} = Y
        /\ b \in X /\ a \in 1 .. a /\ b \notin Y /\ Y \subseteq X /\ 1 .. a \subseteq X
    <2>1. j \in Nat \ {0} /\ X = 1 .. b /\ b = a + 1 /\ a \in Nat /\ 2 * (j - 1) = a - 1 /\ 1 <= a
      BY <1>4, <1>5
    <2>2. j \in 1 .. k /\ j - 1 \in 0 .. k  BY <2>1
    <2> HIDE DEF a, b
    <2>3. X \ {b} = 1 .. a  BY <2>1
    <2>4. (1 .. a) \ {a} = 1 .. (a - 1)  BY <2>1
    <2>5. b \in X /\ a \in 1 .. a /\ b \notin 1 .. (a - 1) /\ 1 .. a \subseteq X  BY <2>1
    <2>6. 1 .. (a - 1) \subseteq X  BY <2>1
    <2> QED  BY <2>1, <2>2, <2>3, <2>4, <2>5, <2>6
  <1>7. SumFunctionOnSet(w, Y) = 0
    <2>1. Y \in {1 .. 2 * i : i \in 0 .. k}  BY <1>6
    <2>2. Y \notin F  BY <1>3, <1>6 DEF IsMinimal
    <2> QED  BY <2>1, <2>2
  <1>8. X \subseteq D  BY <1>1, <1>4
  <1>9. IsFiniteSet(X) /\ \A n \in X : w[n] \in Int
    <2>1. IsFiniteSet(X)  BY <1>2, <1>8, FS_Subset
    <2> QED  BY <1>8, <2>1
  <1>10. IsFiniteSet(1 .. a) /\ \A n \in 1 .. a : w[n] \in Int
    <2>1. IsFiniteSet(1 .. a)  BY <1>6, <1>9, FS_Subset
    <2> QED  BY <1>6, <1>9, <2>1
  <1>11. w[a] + w[b] = 0 /\ w[a] \in Int /\ w[b] \in Int
    <2>1. w[a] + w[b] = 0  BY <1>6
    <2> QED  BY <1>6, <1>9, <1>10, <2>1
  <1> HIDE DEF Y, a, b, D
  <1>12. SumFunctionOnSet(w, X) = w[b] + SumFunctionOnSet(w, 1 .. a)  BY <1>6, <1>9, AddOne
  <1>13. SumFunctionOnSet(w, 1 .. a) = w[a] + SumFunctionOnSet(w, Y)  BY <1>6, <1>10, AddOne
  <1> QED  BY <1>4, <1>7, <1>11, <1>12, <1>13

\* s lists the elements of S, each once.
Lista(s, S) ==
  /\ s \in [1 .. Cardinality(S) -> S]
  /\ \A i, j \in 1 .. Cardinality(S) : s[i] = s[j] => i = j
  /\ \A x \in S : \E i \in 1 .. Cardinality(S) : x = s[i]

LEMMA SumLista ==
  ASSUME NEW S, IsFiniteSet(S), NEW s, Lista(s, S), NEW f, \A x \in S : f[x] \in Int,
         NEW w \in Seq(Int), Len(w) = Cardinality(S), \A i \in 1 .. Cardinality(S) : w[i] = f[s[i]]
  PROVE  SumFunction(w) = SumFunctionOnSet(f, S)
  <1> DEFINE D == 1 .. Cardinality(S)
  <1>1. SumFunction(w) = SumFunctionOnSet(w, D) /\ IsFiniteSet(D)  BY SumOfSequence
  <1>2. /\ \A i \in D : w[i] \in Int /\ s[i] \in S /\ w[i] = f[s[i]]
        /\ \A i, j \in D : s[i] = s[j] => i = j
        /\ \A x \in S : \E i \in D : x = s[i]
    BY DEF Lista
  <1> HIDE DEF D
  <1>3. Renames(w, D, f, S, s)  BY <1>2 DEF Renames
  <1> QED  BY <1>1, <1>3, SumImage

LEMMA ListaInyectiva ==
  ASSUME NEW S, IsFiniteSet(S), NEW s \in [1 .. Cardinality(S) -> S],
         \A i, j \in 1 .. Cardinality(S) : s[i] = s[j] => i = j
  PROVE  Lista(s, S)
  <1> DEFINE n == Cardinality(S)
             D == 1 .. n
  <1>1. IsFiniteSet(D) /\ Cardinality(D) = n
    <2>1. n \in Nat  BY FS_CardinalityType
    <2> HIDE DEF n
    <2>2. IsFiniteSet(1 .. n) /\ Cardinality(1 .. n) = IF 1 > n THEN 0 ELSE n - 1 + 1  BY <2>1, FS_Interval
    <2> QED  BY <2>1, <2>2
  <1>2. s \in Injection(D, S)  BY DEF Injection, IsInjective
  <1>3. s \in Surjection(D, S)  BY <1>1, <1>2, FS_Injection
  <1> QED  BY <1>3 DEF Surjection, Lista

LEMMA SetToSeqLista ==
  ASSUME NEW S, IsFiniteSet(S)
  PROVE  Lista(SetToSeq(S), S)
  <1> DEFINE n == Cardinality(S)
  <1>1. PICK f : f \in Bijection(1 .. n, S)  BY FS_CardinalityType DEF ExistsBijection
  <1>2. f \in [1 .. n -> S] /\ IsInjective(f)
    BY <1>1 DEF Bijection, Injection, IsInjective
  <1>3. SetToSeq(S) \in [1 .. n -> S] /\ IsInjective(SetToSeq(S))  BY <1>2 DEF SetToSeq
  <1>4. \A i, j \in 1 .. n : SetToSeq(S)[i] = SetToSeq(S)[j] => i = j  BY <1>3 DEF IsInjective
  <1> HIDE DEF n
  <1>5. SetToSeq(S) \in [1 .. Cardinality(S) -> S]  BY <1>3 DEF n
  <1> QED  BY <1>4, <1>5, ListaInyectiva DEF n

-------------------------------------------------------------------------------
(* What the lines add up to, and what the statements that remain will change. *)

\* What a line counts in the balance of q.
Vale(l, q) == IF l # Nada /\ Cae(l.cuenta, q) THEN l.importe ELSE 0
Valen(ap, q) == [i \in Ids |-> Vale(ap[i], q)]

Tabla == [Ids -> Filas \cup {Nada}]
De(ap, a) == {i \in Ids : ap[i] # Nada /\ ap[i].asiento = a}

\* What is missing in the balance of q until a statement is done: what it adds, and what it
\* does to the lines.
Peso(ap, t, q) ==
  CASE t.hace = "saldo"   -> IF Cae(t.cuenta, q) THEN t.importe ELSE 0
    [] t.hace = "borra"   -> Vale(ap[t.id], q)
    [] t.hace = "inserta" -> -Vale(t.fila, q)
    [] t.hace = "lee"     -> SumFunctionOnSet(Valen(ap, q), De(ap, t.asiento))
    [] OTHER              -> 0

Pesos(ap, ts, q) == [n \in DOMAIN ts |-> Peso(ap, ts[n], q)]
Pendiente(ap, ts, q) == SumFunction(Pesos(ap, ts, q))

LEMMA IdsFinito == IsFiniteSet(Ids)
  <1>1. MaxApuntes \in Nat  BY CotaAssumption
  <1> QED  BY <1>1, FS_Interval DEF Ids

LEMMA ValeTipo ==
  ASSUME NEW l \in Filas \cup {Nada}, NEW q
  PROVE  Vale(l, q) \in Int
  <1>1. l # Nada => l.importe \in Int  BY ImporteAssumption DEF Filas
  <1> QED  BY <1>1 DEF Vale

LEMMA ValenTipo ==
  ASSUME NEW ap \in Tabla, NEW q
  PROVE  \A i \in Ids : Valen(ap, q)[i] \in Int /\ Valen(ap, q)[i] = Vale(ap[i], q)
  BY ValeTipo DEF Valen, Tabla

LEMMA DeFinito ==
  ASSUME NEW ap \in Tabla, NEW a
  PROVE  IsFiniteSet(De(ap, a)) /\ De(ap, a) \subseteq Ids
  <1>1. De(ap, a) \subseteq Ids  BY DEF De
  <1> QED  BY <1>1, IdsFinito, FS_Subset

LEMMA PesoTipo ==
  ASSUME NEW ap \in Tabla, NEW t \in Tareas, NEW q
  PROVE  Peso(ap, t, q) \in Int
  <1>1. CASE t \in [hace : {"saldo"}, cuenta : Cuentas, importe : Int]  BY <1>1 DEF Peso
  <1>2. CASE t \in [hace : {"borra"}, id : Ids]
    <2>1. ap[t.id] \in Filas \cup {Nada} /\ t.hace = "borra"  BY <1>2 DEF Tabla
    <2>2. Peso(ap, t, q) = Vale(ap[t.id], q)  BY <2>1 DEF Peso
    <2> QED  BY <2>1, <2>2, ValeTipo
  <1>3. CASE t \in [hace : {"inserta"}, fila : Filas]
    <2>1. t.hace = "inserta" /\ Vale(t.fila, q) \in Int  BY <1>3, ValeTipo
    <2> QED  BY <2>1 DEF Peso
  <1>4. CASE t \in [hace : {"lee"}, asiento : Asientos]
    <2> DEFINE f == Valen(ap, q)
               S == De(ap, t.asiento)
    <2>1. t.hace = "lee"  BY <1>4
    <2>2. Peso(ap, t, q) = SumFunctionOnSet(f, S)  BY <2>1 DEF Peso
    <2>3. IsFiniteSet(S) /\ \A i \in S : f[i] \in Int  BY DeFinito, ValenTipo
    <2> HIDE DEF f, S
    <2> QED  BY <2>2, <2>3, SumInt
  <1>5. CASE t = PonCeros  BY <1>5 DEF Peso, PonCeros
  <1> QED  BY <1>1, <1>2, <1>3, <1>4, <1>5 DEF Tareas

LEMMA PesosTipo ==
  ASSUME NEW ap \in Tabla, NEW ts \in Seq(Tareas), NEW q
  PROVE  /\ Pesos(ap, ts, q) \in Seq(Int) /\ Len(Pesos(ap, ts, q)) = Len(ts)
         /\ \A n \in 1 .. Len(ts) : Pesos(ap, ts, q)[n] = Peso(ap, ts[n], q)
         /\ Pendiente(ap, ts, q) \in Int
  <1>1. Pesos(ap, ts, q) = [n \in 1 .. Len(ts) |-> Peso(ap, ts[n], q)]  BY DEF Pesos
  <1>2. \A n \in 1 .. Len(ts) : Peso(ap, ts[n], q) \in Int  BY PesoTipo
  <1>3. Pesos(ap, ts, q) \in Seq(Int) /\ Len(Pesos(ap, ts, q)) = Len(ts)  BY <1>1, <1>2
  <1> QED  BY <1>1, <1>3, SumOfSequence DEF Pendiente

LEMMA PendienteNada ==
  ASSUME NEW ap, NEW q
  PROVE  Pendiente(ap, <<>>, q) = 0
  <1>1. Pesos(ap, <<>>, q) = <<>>  BY DEF Pesos
  <1> QED  BY <1>1, SumNone DEF Pendiente

LEMMA PendienteUne ==
  ASSUME NEW ap \in Tabla, NEW s \in Seq(Tareas), NEW t \in Seq(Tareas), NEW q
  PROVE  Pendiente(ap, s \o t, q) = Pendiente(ap, s, q) + Pendiente(ap, t, q)
  <1> DEFINE a == Pesos(ap, s, q)
             b == Pesos(ap, t, q)
             c == Pesos(ap, s \o t, q)
  <1>1. s \o t \in Seq(Tareas) /\ Len(s \o t) = Len(s) + Len(t)
        /\ (\A n \in 1 .. Len(s) : (s \o t)[n] = s[n])
        /\ (\A n \in 1 .. Len(t) : (s \o t)[n + Len(s)] = t[n])
    OBVIOUS
  <1>2. a \in Seq(Int) /\ b \in Seq(Int) /\ c \in Seq(Int)  BY <1>1, PesosTipo
  <1>3. /\ Len(a) = Len(s) /\ Len(b) = Len(t) /\ Len(c) = Len(s) + Len(t)
        /\ \A n \in 1 .. Len(s) : a[n] = Peso(ap, s[n], q)
        /\ \A n \in 1 .. Len(t) : b[n] = Peso(ap, t[n], q)
        /\ \A n \in 1 .. Len(s \o t) : c[n] = Peso(ap, (s \o t)[n], q)
    BY <1>1, PesosTipo
  <1> HIDE DEF a, b, c
  <1>4. \A n \in 1 .. Len(s) : n \in 1 .. Len(s \o t)  BY <1>1
  <1>5. \A n \in 1 .. Len(t) : n + Len(s) \in 1 .. Len(s \o t)  BY <1>1
  <1>6. Parts(a, b, c)  BY <1>1, <1>3, <1>4, <1>5 DEF Parts
  <1>7. c = a \o b  BY <1>2, <1>6, TwoParts
  <1>8. SumFunction(c) = SumFunction(a) + SumFunction(b)  BY <1>2, <1>7, SumConcat
  <1> QED  BY <1>8 DEF a, b, c, Pendiente

LEMMA PendienteUna ==
  ASSUME NEW ap \in Tabla, NEW t \in Tareas, NEW q
  PROVE  Pendiente(ap, <<t>>, q) = Peso(ap, t, q)
  <1>1. Pesos(ap, <<t>>, q) = <<Peso(ap, t, q)>>  BY DEF Pesos
  <1>2. Peso(ap, t, q) \in Int  BY PesoTipo
  <1> QED  BY <1>1, <1>2, SumSingle DEF Pendiente

LEMMA PendienteCabeza ==
  ASSUME NEW ap \in Tabla, NEW ts \in Seq(Tareas), ts # <<>>, NEW q
  PROVE  /\ Pendiente(ap, ts, q) = Peso(ap, Head(ts), q) + Pendiente(ap, Tail(ts), q)
         /\ Head(ts) \in Tareas /\ Tail(ts) \in Seq(Tareas)
  <1>1. Head(ts) \in Tareas /\ Tail(ts) \in Seq(Tareas) /\ <<Head(ts)>> \in Seq(Tareas)  OBVIOUS
  <1> DEFINE h == <<Head(ts)>>
             r == Tail(ts)
  <1>2. ts = h \o r /\ h \in Seq(Tareas) /\ r \in Seq(Tareas)  OBVIOUS
  <1>3. Pendiente(ap, h, q) = Peso(ap, Head(ts), q)  BY <1>1, PendienteUna
  <1> HIDE DEF h, r
  <1>4. Pendiente(ap, h \o r, q) = Pendiente(ap, h, q) + Pendiente(ap, r, q)
    BY <1>2, PendienteUne
  <1>5. Pendiente(ap, ts, q) = Pendiente(ap, h, q) + Pendiente(ap, r, q)  BY <1>2, <1>4
  <1> QED  BY <1>1, <1>3, <1>5 DEF r

LEMMA PendienteMismo ==
  ASSUME NEW ap, NEW bp, NEW ts, NEW q, \A n \in DOMAIN ts : Peso(ap, ts[n], q) = Peso(bp, ts[n], q)
  PROVE  Pendiente(ap, ts, q) = Pendiente(bp, ts, q)
  BY DEF Pendiente, Pesos

\* Each line has two statements, one after the other.
LEMMA AlternaEs ==
  ASSUME NEW k \in Nat, NEW a \in [1 .. k -> Tareas], NEW b \in [1 .. k -> Tareas]
  PROVE  /\ Alterna(a, b) \in Seq(Tareas) /\ Len(Alterna(a, b)) = 2 * k
         /\ \A j \in 1 .. k : Alterna(a, b)[2 * j - 1] = a[j] /\ Alterna(a, b)[2 * j] = b[j]
  <1> DEFINE c == Alterna(a, b)
  <1>1. Len(a) = k  OBVIOUS
  <1>2. c = [n \in 1 .. 2 * k |-> IF n % 2 = 1 THEN a[(n + 1) \div 2] ELSE b[n \div 2]]
    BY <1>1 DEF Alterna
  <1>3. \A n \in 1 .. 2 * k : IF n % 2 = 1 THEN (n + 1) \div 2 \in 1 .. k ELSE n \div 2 \in 1 .. k
    OBVIOUS
  <1>4. \A n \in 1 .. 2 * k : c[n] \in Tareas  BY <1>2, <1>3
  <1>5. c \in Seq(Tareas) /\ Len(c) = 2 * k
    <2> DEFINE m == 2 * k
    <2>1. m \in Nat  OBVIOUS
    <2>2. c = [n \in 1 .. m |-> c[n]]  BY <1>2
    <2> HIDE DEF c
    <2>3. c \in [1 .. m -> Tareas]  BY <1>4, <2>2
    <2> HIDE DEF m
    <2>4. c \in Seq(Tareas) /\ Len(c) = m  BY <2>1, <2>3
    <2> QED  BY <2>4 DEF m
  <1>6. ASSUME NEW j \in 1 .. k  PROVE c[2 * j - 1] = a[j] /\ c[2 * j] = b[j]
    <2> DEFINE n == 2 * j - 1
               m == 2 * j
    <2>0. j \in Nat /\ n \in 1 .. 2 * k /\ m \in 1 .. 2 * k /\ n = 2 * j - 1 /\ m = 2 * j  OBVIOUS
    <2> HIDE DEF n, m
    <2>1. n % 2 = 1 /\ (n + 1) \div 2 = j  BY <2>0
    <2>2. m % 2 = 0 /\ m \div 2 = j  BY <2>0
    <2>3. c[n] = a[j]  BY <1>2, <2>0, <2>1
    <2>4. c[m] = b[j]  BY <1>2, <2>0, <2>2
    <2> QED  BY <2>3, <2>4 DEF n, m
  <1> QED  BY <1>5, <1>6

\* What is done with each line is even.
LEMMA PendienteAlterna ==
  ASSUME NEW ap \in Tabla, NEW q, NEW k \in Nat, NEW a \in [1 .. k -> Tareas], NEW b \in [1 .. k -> Tareas],
         \A j \in 1 .. k : Peso(ap, a[j], q) + Peso(ap, b[j], q) = 0
  PROVE  Pendiente(ap, Alterna(a, b), q) = 0
  <1> DEFINE c == Alterna(a, b)
  <1>1. c \in Seq(Tareas) /\ Len(c) = 2 * k  BY AlternaEs
  <1>2. \A j \in 1 .. k : c[2 * j - 1] = a[j] /\ c[2 * j] = b[j]  BY AlternaEs
  <1> HIDE DEF c
  <1> DEFINE w == Pesos(ap, c, q)
  <1>3. /\ w \in Seq(Int) /\ Len(w) = 2 * k /\ \A n \in 1 .. 2 * k : w[n] = Peso(ap, c[n], q)
    BY <1>1, PesosTipo
  <1> HIDE DEF w
  <1>4. \A n \in 1 .. 2 * k : w[n] \in Int  BY <1>3
  <1>5. ASSUME NEW j \in 1 .. k  PROVE w[2 * j - 1] + w[2 * j] = 0
    <2>1. 2 * j - 1 \in 1 .. 2 * k /\ 2 * j \in 1 .. 2 * k  OBVIOUS
    <2>2. w[2 * j - 1] = Peso(ap, a[j], q) /\ w[2 * j] = Peso(ap, b[j], q)  BY <1>2, <1>3, <2>1
    <2> QED  BY <2>2
  <1>6. SumFunctionOnSet(w, 1 .. 2 * k) = 0  BY <1>4, <1>5, SumPares
  <1>7. SumFunction(w) = 0  BY <1>3, <1>6, SumOfSequence
  <1>8. Pendiente(ap, c, q) = 0  BY <1>7 DEF w, Pendiente
  <1> QED  BY <1>8 DEF c

LEMMA ParOImpar ==
  ASSUME NEW k \in Nat, NEW n \in 1 .. 2 * k
  PROVE  \E j \in 1 .. k : n = 2 * j - 1 \/ n = 2 * j
  <1>1. CASE n % 2 = 1
    <2>1. (n + 1) \div 2 \in 1 .. k /\ n = 2 * ((n + 1) \div 2) - 1  BY <1>1
    <2> QED  BY <2>1
  <1>2. CASE n % 2 # 1
    <2>1. n \div 2 \in 1 .. k /\ n = 2 * (n \div 2)  BY <1>2
    <2> QED  BY <2>1
  <1> QED  BY <1>1, <1>2

\* What an account should hold, as a sum over every id.
Debe(ap, q) == SumFunctionOnSet(Valen(ap, q), Ids)

LEMMA DebeTipo ==
  ASSUME NEW ap \in Tabla, NEW q
  PROVE  Debe(ap, q) \in Int
  <1> DEFINE f == Valen(ap, q)
  <1>1. \A i \in Ids : f[i] \in Int  BY ValenTipo
  <1> HIDE DEF f
  <1>2. SumFunctionOnSet(f, Ids) \in Int  BY <1>1, IdsFinito, SumInt
  <1> QED  BY <1>2 DEF f, Debe

LEMMA SumaEs ==
  ASSUME apunte \in Tabla, NEW q
  PROVE  Suma(q) = Debe(apunte, q)
  <1> DEFINE S == {i \in Ids : /\ apunte[i] # Nada
                               /\ apunte[i].cuenta[1] = q[1] /\ q[2] \in Grupos[apunte[i].cuenta[2]]}
             f == Valen(apunte, q)
             F(it) == [s \in SUBSET S |->
               IF s = {} THEN 0 ELSE apunte[Pick(s)].importe + it[s \ {Pick(s)}]]
             suma == CHOOSE it : it = F(it)
  <1>1. Suma(q) = suma[S]  BY DEF Suma, MapThenSumSet, MapThenFoldSet, Pick
  <1>2. \A i \in S : i \in Ids /\ f[i] = apunte[i].importe  BY DEF Valen, Vale, Cae
  <1>3. \A i \in Ids \ S : f[i] = 0  BY DEF Valen, Vale, Cae
  <1>4. IsFiniteSet(S) /\ S \subseteq Ids
    <2>1. S \subseteq Ids  OBVIOUS
    <2> HIDE DEF S
    <2> QED  BY <2>1, IdsFinito, FS_Subset
  <1>5. \A i \in Ids : f[i] \in Int  BY ValenTipo
  <1> HIDE DEF S, f
  <1>6. \A s \in SUBSET S : s # {} => f[Pick(s)] = apunte[Pick(s)].importe  BY <1>2, PickIn
  <1>7. ASSUME NEW it
        PROVE  F(it) = [s \in SUBSET S |->
                         IF s = {} THEN 0 ELSE f[Pick(s)] + it[s \ {Pick(s)}]]
    BY <1>6
  <1>8. \A it : it = F(it) <=> Adds(f, S, it)  BY <1>7 DEF Adds
  <1>9. Adds(f, S, suma)
    <2>1. PICK it : it = F(it)  BY <1>4, <1>8, AddsExists
    <2> HIDE DEF F
    <2>2. suma = F(suma)  BY <2>1
    <2> QED  BY <1>8, <2>2
  <1>10. Suma(q) = SumFunctionOnSet(f, S)  BY <1>1, <1>4, <1>9, SumAdds
  <1>11. SumFunctionOnSet(f, Ids) = SumFunctionOnSet(f, S)  BY <1>3, <1>4, <1>5, IdsFinito, SumOfPart
  <1> QED  BY <1>10, <1>11 DEF f, Debe

\* A line changes, comes or goes.
LEMMA DebeTras ==
  ASSUME NEW ap \in Tabla, NEW i \in Ids, NEW l \in Filas \cup {Nada}, NEW q
  PROVE  /\ [ap EXCEPT ![i] = l] \in Tabla
         /\ Debe([ap EXCEPT ![i] = l], q) = Debe(ap, q) - Vale(ap[i], q) + Vale(l, q)
  <1> DEFINE bp == [ap EXCEPT ![i] = l]
             f == Valen(ap, q)
             g == Valen(bp, q)
  <1>1. bp \in Tabla /\ bp[i] = l /\ \A j \in Ids \ {i} : bp[j] = ap[j]  BY DEF Tabla
  <1> HIDE DEF bp
  <1>2. f[i] = Vale(ap[i], q) /\ g[i] = Vale(l, q)  BY <1>1, ValenTipo
  <1>3. \A j \in Ids : f[j] \in Int /\ g[j] \in Int  BY <1>1, ValenTipo
  <1>4. \A j \in Ids \ {i} : f[j] = g[j]  BY <1>1, ValenTipo
  <1> HIDE DEF f, g
  <1>5. SumFunctionOnSet(g, Ids) = SumFunctionOnSet(f, Ids) - f[i] + g[i]
    BY <1>3, <1>4, IdsFinito, SumChange
  <1> QED  BY <1>1, <1>2, <1>5 DEF f, g, Debe, bp

-------------------------------------------------------------------------------
(* The lines of an entry.                                                    *)

LEMMA LeidosEs ==
  ASSUME apunte \in Tabla, NEW a
  PROVE  /\ Lista(Leidos(a), ApuntesDe(a)) /\ IsFiniteSet(ApuntesDe(a))
         /\ Cardinality(ApuntesDe(a)) \in Nat /\ Leidos(a) \in [1 .. Cardinality(ApuntesDe(a)) -> Ids]
         /\ ApuntesDe(a) = De(apunte, a)
         /\ \A j \in 1 .. Cardinality(ApuntesDe(a)) : apunte[Leidos(a)[j]] \in Filas /\ apunte[Leidos(a)[j]] # Nada
  <1> DEFINE S == ApuntesDe(a)
             s == Leidos(a)
             D == 1 .. Cardinality(S)
  <1>1. S = De(apunte, a)  BY DEF ApuntesDe, De
  <1>2. IsFiniteSet(S) /\ S \subseteq Ids  BY <1>1, DeFinito
  <1>3. S \in SUBSET Nat  BY <1>2 DEF Ids
  <1>4. \A i \in S : apunte[i] \in Filas /\ apunte[i] # Nada  BY <1>2 DEF ApuntesDe, Tabla
  <1>5. s = CHOOSE x \in [D -> S] : \A i, j \in D : i < j => x[i] < x[j]  BY DEF Leidos
  <1> HIDE DEF S, s
  <1>6. \E x : Ordered(x, S)  BY <1>2, <1>3, SortedExists
  <1>7. Ordered(s, S)  BY <1>5, <1>6 DEF Ordered
  <1>8. Cardinality(S) \in Nat  BY <1>2, FS_CardinalityType
  <1>9. s \in [D -> S] /\ s \in [D -> Ids]  BY <1>2, <1>7 DEF Ordered
  <1>10. Lista(s, S)  BY <1>2, <1>3, <1>7, <1>9, OrderedOnto DEF Lista
  <1>11. \A j \in D : apunte[s[j]] \in Filas /\ apunte[s[j]] # Nada  BY <1>4, <1>9
  <1> QED  BY <1>1, <1>2, <1>8, <1>9, <1>10, <1>11 DEF S, s

LEMMA FilaTipo ==
  ASSUME NEW l \in Filas
  PROVE  /\ ActSaldo(l.cuenta, l.importe) \in Tareas /\ ActSaldo(l.cuenta, -l.importe) \in Tareas
         /\ \A i \in Ids : BorraFila(i) \in Tareas
         /\ l.cuenta \in Cuentas /\ l.importe \in Int /\ l # Nada
  <1>1. l.cuenta \in Cuentas /\ l.importe \in Int  BY ImporteAssumption DEF Filas
  <1>2. -l.importe \in Int  BY <1>1
  <1>3. l # Nada  BY NadaAssumption DEF Filas
  <1> QED  BY <1>1, <1>2, <1>3 DEF Tareas, ActSaldo, BorraFila

\* What the removal of an entry does is even, and it removes each line once.
LEMMA QuitaEs ==
  ASSUME apunte \in Tabla, NEW a
  PROVE  /\ Quita(a) \in Seq(Tareas)
         /\ \A n \in 1 .. Len(Quita(a)) :
              /\ Quita(a)[n].hace \in {"saldo", "borra"}
              /\ Quita(a)[n].hace = "borra" =>
                   /\ apunte[Quita(a)[n].id] # Nada
                   /\ \A m \in 1 .. Len(Quita(a)) :
                        Quita(a)[m].hace = "borra" /\ Quita(a)[m].id = Quita(a)[n].id => m = n
         /\ \A q : Pendiente(apunte, Quita(a), q) = 0
  <1> DEFINE ids == Leidos(a)
             k == Cardinality(ApuntesDe(a))
             x == [n \in DOMAIN ids |-> ActSaldo(apunte[ids[n]].cuenta, -apunte[ids[n]].importe)]
             y == [n \in DOMAIN ids |-> BorraFila(ids[n])]
             c == Quita(a)
  <1>1. /\ k \in Nat /\ ids \in [1 .. k -> Ids] /\ DOMAIN ids = 1 .. k
        /\ \A i, j \in 1 .. k : ids[i] = ids[j] => i = j
        /\ \A j \in 1 .. k : apunte[ids[j]] \in Filas /\ apunte[ids[j]] # Nada
    BY LeidosEs DEF Lista
  <1>2. c = Alterna(x, y)  BY DEF Quita
  <1> HIDE DEF ids, k, c
  <1>3. ASSUME NEW j \in 1 .. k
        PROVE  /\ x[j] \in Tareas /\ y[j] \in Tareas /\ x[j].hace = "saldo" /\ y[j].hace = "borra"
               /\ y[j].id = ids[j]
               /\ \A q : Peso(apunte, x[j], q) + Peso(apunte, y[j], q) = 0
    <2> DEFINE l == apunte[ids[j]]
    <2>1. l \in Filas /\ l # Nada /\ ids[j] \in Ids  BY <1>1
    <2>2. x[j] = ActSaldo(l.cuenta, -l.importe) /\ y[j] = BorraFila(ids[j])  BY <1>1
    <2>3. /\ y[j].hace = "borra" /\ y[j].id = ids[j]
          /\ x[j].hace = "saldo" /\ x[j].cuenta = l.cuenta /\ x[j].importe = -l.importe
      BY <2>2 DEF ActSaldo, BorraFila
    <2>4. l.importe \in Int /\ x[j] \in Tareas /\ y[j] \in Tareas
      <3> HIDE DEF l, x, y
      <3> QED  BY <2>1, <2>2, FilaTipo
    <2> HIDE DEF x, y
    <2>5. ASSUME NEW q PROVE Peso(apunte, x[j], q) + Peso(apunte, y[j], q) = 0
      <3>1. Peso(apunte, x[j], q) = IF Cae(l.cuenta, q) THEN -l.importe ELSE 0  BY <2>3 DEF Peso
      <3>2. Peso(apunte, y[j], q) = Vale(l, q)  BY <2>3 DEF Peso
      <3> HIDE DEF l
      <3>3. Vale(l, q) = IF Cae(l.cuenta, q) THEN l.importe ELSE 0  BY <2>1 DEF Vale
      <3> QED  BY <2>4, <3>1, <3>2, <3>3
    <2> QED  BY <2>3, <2>4, <2>5
  <1>4. x \in [1 .. k -> Tareas] /\ y \in [1 .. k -> Tareas]
    <2>1. x = [n \in 1 .. k |-> x[n]] /\ y = [n \in 1 .. k |-> y[n]]  BY <1>1
    <2> HIDE DEF x, y
    <2> QED  BY <1>3, <2>1
  <1> HIDE DEF x, y
  <1>5. /\ c \in Seq(Tareas) /\ Len(c) = 2 * k
        /\ \A j \in 1 .. k : c[2 * j - 1] = x[j] /\ c[2 * j] = y[j]
    <2>1. k \in Nat  BY <1>1
    <2> QED  BY <1>2, <1>4, <2>1, AlternaEs
  <1>6. ASSUME NEW q PROVE Pendiente(apunte, c, q) = 0
    <2>1. \A j \in 1 .. k : Peso(apunte, x[j], q) + Peso(apunte, y[j], q) = 0  BY <1>3
    <2>2. k \in Nat  BY <1>1
    <2>3. Pendiente(apunte, Alterna(x, y), q) = 0  BY <1>4, <2>1, <2>2, PendienteAlterna
    <2> QED  BY <1>2, <2>3
  <1>7. ASSUME NEW n \in 1 .. Len(c)
        PROVE  \E j \in 1 .. k : \/ n = 2 * j - 1 /\ c[n].hace = "saldo"
                                 \/ n = 2 * j /\ c[n].hace = "borra" /\ c[n].id = ids[j]
    <2>1. k \in Nat /\ n \in 1 .. 2 * k  BY <1>1, <1>5
    <2>2. PICK j \in 1 .. k : n = 2 * j - 1 \/ n = 2 * j  BY <2>1, ParOImpar
    <2> QED  BY <1>3, <1>5, <2>2
  <1>8. ASSUME NEW n \in 1 .. Len(c), c[n].hace = "borra"
        PROVE  /\ apunte[c[n].id] # Nada
               /\ \A m \in 1 .. Len(c) : c[m].hace = "borra" /\ c[m].id = c[n].id => m = n
    <2>1. PICK j \in 1 .. k : n = 2 * j /\ c[n].id = ids[j]  BY <1>7, <1>8
    <2>2. ASSUME NEW m \in 1 .. Len(c), c[m].hace = "borra", c[m].id = c[n].id  PROVE m = n
      <3>1. PICK i \in 1 .. k : m = 2 * i /\ c[m].id = ids[i]  BY <1>7, <2>2
      <3>2. i = j  BY <1>1, <2>1, <2>2, <3>1
      <3> QED  BY <2>1, <3>1, <3>2
    <2>3. apunte[c[n].id] # Nada  BY <1>1, <2>1
    <2> QED  BY <2>2, <2>3
  <1>9. \A n \in 1 .. Len(c) : c[n].hace \in {"saldo", "borra"}  BY <1>7
  <1> QED  BY <1>5, <1>6, <1>8, <1>9 DEF c

\* What the saving of an entry does is even.
LEMMA PoneEs ==
  ASSUME apunte \in Tabla, NEW a \in Asientos, NEW k \in Nat,
         NEW ls \in [1 .. k -> [cuenta : Cuentas, importe : Importes]]
  PROVE  /\ Pone(a, ls) \in Seq(Tareas)
         /\ \A n \in 1 .. Len(Pone(a, ls)) : Pone(a, ls)[n].hace \in {"saldo", "inserta"}
         /\ \A q : Pendiente(apunte, Pone(a, ls), q) = 0
  <1> DEFINE x == [n \in DOMAIN ls |-> ActSaldo(ls[n].cuenta, ls[n].importe)]
             y == [n \in DOMAIN ls |-> InsertaFila(a, ls[n])]
             c == Pone(a, ls)
  <1>1. c = Alterna(x, y)  BY DEF Pone
  <1> HIDE DEF c
  <1>2. ASSUME NEW j \in 1 .. k
        PROVE  /\ x[j] \in Tareas /\ y[j] \in Tareas /\ x[j].hace = "saldo" /\ y[j].hace = "inserta"
               /\ \A q : Peso(apunte, x[j], q) + Peso(apunte, y[j], q) = 0
    <2> DEFINE l == ls[j]
               f == [asiento |-> a, cuenta |-> l.cuenta, importe |-> l.importe]
    <2>1. l \in [cuenta : Cuentas, importe : Importes]  OBVIOUS
    <2>2. x[j] = ActSaldo(l.cuenta, l.importe) /\ y[j] = [hace |-> "inserta", fila |-> f]
      BY DEF InsertaFila
    <2>3. f \in Filas /\ f.cuenta = l.cuenta /\ f.importe = l.importe  BY <2>1 DEF Filas
    <2> HIDE DEF f, x, y, l
    <2>4. x[j] \in Tareas /\ l.importe \in Int /\ f # Nada
      <3>1. ActSaldo(f.cuenta, f.importe) \in Tareas /\ f.importe \in Int /\ f # Nada
        BY <2>3, FilaTipo
      <3> QED  BY <2>2, <2>3, <3>1
    <2>5. y[j] \in Tareas  BY <2>2, <2>3 DEF Tareas
    <2>6. /\ y[j].hace = "inserta" /\ y[j].fila = f
          /\ x[j].hace = "saldo" /\ x[j].cuenta = l.cuenta /\ x[j].importe = l.importe
      BY <2>2 DEF ActSaldo
    <2>7. ASSUME NEW q PROVE Peso(apunte, x[j], q) + Peso(apunte, y[j], q) = 0
      <3>1. Peso(apunte, x[j], q) = IF Cae(l.cuenta, q) THEN l.importe ELSE 0  BY <2>6 DEF Peso
      <3>2. Peso(apunte, y[j], q) = -Vale(f, q)  BY <2>6 DEF Peso
      <3>3. Vale(f, q) = IF Cae(l.cuenta, q) THEN l.importe ELSE 0  BY <2>3, <2>4 DEF Vale
      <3> QED  BY <2>4, <3>1, <3>2, <3>3
    <2> QED  BY <2>4, <2>5, <2>6, <2>7
  <1>3. x \in [1 .. k -> Tareas] /\ y \in [1 .. k -> Tareas]
    <2>1. x = [n \in 1 .. k |-> x[n]] /\ y = [n \in 1 .. k |-> y[n]]  OBVIOUS
    <2> HIDE DEF x, y
    <2> QED  BY <1>2, <2>1
  <1> HIDE DEF x, y
  <1>4. /\ c \in Seq(Tareas) /\ Len(c) = 2 * k
        /\ \A j \in 1 .. k : c[2 * j - 1] = x[j] /\ c[2 * j] = y[j]
    BY <1>1, <1>3, AlternaEs
  <1>5. ASSUME NEW q PROVE Pendiente(apunte, c, q) = 0
    <2>1. \A j \in 1 .. k : Peso(apunte, x[j], q) + Peso(apunte, y[j], q) = 0  BY <1>2
    <2>2. Pendiente(apunte, Alterna(x, y), q) = 0  BY <1>3, <2>1, PendienteAlterna
    <2> QED  BY <1>1, <2>2
  <1>6. ASSUME NEW n \in 1 .. Len(c)
        PROVE  c[n].hace \in {"saldo", "inserta"}
    <2>1. n \in 1 .. 2 * k  BY <1>4
    <2>2. PICK j \in 1 .. k : n = 2 * j - 1 \/ n = 2 * j  BY <2>1, ParOImpar
    <2> QED  BY <1>2, <1>4, <2>2
  <1> QED  BY <1>4, <1>5, <1>6 DEF c

\* The lines of an entry weigh what reading it weighed.
LEMMA LineasEs ==
  ASSUME apunte \in Tabla, NEW a \in Asientos, NEW q,
         NEW c, c = [n \in DOMAIN Leidos(a) |->
                       ActSaldo(apunte[Leidos(a)[n]].cuenta, apunte[Leidos(a)[n]].importe)]
  PROVE  /\ c \in Seq(Tareas) /\ \A n \in 1 .. Len(c) : c[n].hace = "saldo"
         /\ Pendiente(apunte, c, q) = Peso(apunte, LeeAsiento(a), q)
  <1> DEFINE ids == Leidos(a)
             S == ApuntesDe(a)
             k == Cardinality(S)
             f == Valen(apunte, q)
  <1>1. /\ k \in Nat /\ ids \in [1 .. k -> Ids] /\ DOMAIN ids = 1 .. k
        /\ IsFiniteSet(S) /\ Lista(ids, S) /\ S = De(apunte, a)
        /\ \A j \in 1 .. k : apunte[ids[j]] \in Filas /\ apunte[ids[j]] # Nada
    BY LeidosEs
  <1>2. c = [n \in 1 .. k |-> ActSaldo(apunte[ids[n]].cuenta, apunte[ids[n]].importe)]  BY <1>1
  <1> HIDE DEF ids, S, k
  <1>3. ASSUME NEW j \in 1 .. k
        PROVE  c[j] \in Tareas /\ c[j].hace = "saldo" /\ Peso(apunte, c[j], q) = f[ids[j]]
    <2> DEFINE l == apunte[ids[j]]
    <2>1. l \in Filas /\ l # Nada /\ ids[j] \in Ids  BY <1>1
    <2>2. c[j] = ActSaldo(l.cuenta, l.importe)  BY <1>2
    <2>3. f[ids[j]] = Vale(l, q)  BY <2>1, ValenTipo
    <2> HIDE DEF l, f
    <2>4. c[j] \in Tareas /\ l.importe \in Int  BY <2>1, <2>2, FilaTipo
    <2>5. c[j].hace = "saldo" /\ c[j].cuenta = l.cuenta /\ c[j].importe = l.importe  BY <2>2 DEF ActSaldo
    <2>6. Peso(apunte, c[j], q) = IF Cae(l.cuenta, q) THEN l.importe ELSE 0  BY <2>5 DEF Peso
    <2>7. Vale(l, q) = IF Cae(l.cuenta, q) THEN l.importe ELSE 0  BY <2>1 DEF Vale
    <2> QED  BY <2>3, <2>4, <2>5, <2>6, <2>7
  <1>4. c \in Seq(Tareas) /\ Len(c) = k
    <2>1. c = [n \in 1 .. k |-> c[n]]  BY <1>2
    <2>2. c \in [1 .. k -> Tareas]  BY <1>3, <2>1
    <2> QED  BY <1>1, <2>2
  <1> DEFINE w == Pesos(apunte, c, q)
  <1>5. w \in Seq(Int) /\ Len(w) = k /\ \A i \in 1 .. k : w[i] = Peso(apunte, c[i], q)
    BY <1>4, PesosTipo
  <1>6. \A i \in 1 .. k : w[i] = f[ids[i]]  BY <1>3, <1>5
  <1>7. \A i \in S : f[i] \in Int
    <2>1. S \subseteq Ids  BY <1>1, DeFinito
    <2> QED  BY <2>1, ValenTipo
  <1> HIDE DEF w, f
  <1>8. SumFunction(w) = SumFunctionOnSet(f, S)  BY <1>1, <1>5, <1>6, <1>7, SumLista DEF k
  <1>9. Pendiente(apunte, c, q) = SumFunctionOnSet(f, S)  BY <1>8 DEF w, Pendiente
  <1>10. Peso(apunte, LeeAsiento(a), q) = SumFunctionOnSet(f, S)
    <2>1. LeeAsiento(a).hace = "lee" /\ LeeAsiento(a).asiento = a  BY DEF LeeAsiento
    <2> QED  BY <1>1, <2>1 DEF Peso, f
  <1> QED  BY <1>3, <1>4, <1>9, <1>10

-------------------------------------------------------------------------------
(* A recalculation reads every entry, and so every line once.                *)

\* The lines of the entries of T.
DeTodos(ap, T) == {i \in Ids : ap[i] # Nada /\ ap[i].asiento \in T}

LEMMA PorAsientos ==
  ASSUME NEW ap \in Tabla, NEW q, NEW S, IsFiniteSet(S)
  PROVE  SumFunctionOnSet([a \in S |-> SumFunctionOnSet(Valen(ap, q), De(ap, a))], S)
           = SumFunctionOnSet(Valen(ap, q), DeTodos(ap, S))
  <1> DEFINE f == Valen(ap, q)
             g == [a \in S |-> SumFunctionOnSet(f, De(ap, a))]
             F == {T \in SUBSET S : SumFunctionOnSet(g, T) # SumFunctionOnSet(f, DeTodos(ap, T))}
  <1> SUFFICES ASSUME F # {} PROVE FALSE  OBVIOUS
  <1>1. F \in Families(S)  BY DEF Families
  <1>2. PICK X : IsMinimal(X, F)
    <2> HIDE DEF F
    <2> QED  BY <1>1, Minimal
  <1>3. X \subseteq S /\ SumFunctionOnSet(g, X) # SumFunctionOnSet(f, DeTodos(ap, X))
    BY <1>2 DEF IsMinimal
  <1>4. X # {}
    <2>1. DeTodos(ap, {}) = {}  BY DEF DeTodos
    <2> HIDE DEF f, g
    <2> QED  BY <1>3, <2>1, SumEmpty
  <1>5. \A i \in Ids : f[i] \in Int  BY ValenTipo
  <1>6. ASSUME NEW a \in S  PROVE g[a] \in Int /\ g[a] = SumFunctionOnSet(f, De(ap, a))
    <2>1. g[a] = SumFunctionOnSet(f, De(ap, a))  OBVIOUS
    <2>2. IsFiniteSet(De(ap, a)) /\ De(ap, a) \subseteq Ids  BY DeFinito
    <2> HIDE DEF f, g
    <2>3. \A i \in De(ap, a) : f[i] \in Int  BY <1>5, <2>2
    <2> QED  BY <2>1, <2>2, <2>3, SumInt
  <1> HIDE DEF f, g
  <1>7. PICK a \in X : TRUE  BY <1>4
  <1> DEFINE Y == X \ {a}
  <1>8. a \in S /\ Y \subseteq S /\ Y \subseteq X /\ Y # X  BY <1>3
  <1>9. SumFunctionOnSet(g, Y) = SumFunctionOnSet(f, DeTodos(ap, Y))
    <2>1. Y \notin F  BY <1>2, <1>8 DEF IsMinimal
    <2> QED  BY <1>8, <2>1
  <1>10. SumFunctionOnSet(g, X) = g[a] + SumFunctionOnSet(g, Y)
    <2>1. IsFiniteSet(X) /\ \A x \in X : g[x] \in Int  BY <1>3, <1>6, FS_Subset
    <2> QED  BY <2>1, AddOne
  <1> DEFINE A == De(ap, a)
             R == DeTodos(ap, Y)
  <1>11. DeTodos(ap, X) = A \cup R /\ A \cap R = {}  BY DEF De, DeTodos
  <1>12. IsFiniteSet(A) /\ IsFiniteSet(R) /\ \A i \in A \cup R : f[i] \in Int
    <2>1. R \subseteq Ids  BY DEF DeTodos
    <2>2. A \subseteq Ids /\ IsFiniteSet(A)  BY DeFinito
    <2>3. IsFiniteSet(R)  BY <2>1, IdsFinito, FS_Subset
    <2> QED  BY <1>5, <2>1, <2>2, <2>3
  <1>13. g[a] = SumFunctionOnSet(f, A) /\ g[a] \in Int  BY <1>6, <1>8
  <1>14. SumFunctionOnSet(f, R) \in Int
    <2> HIDE DEF R
    <2> QED  BY <1>12, SumInt
  <1> HIDE DEF A, Y, R
  <1>15. SumFunctionOnSet(f, A \cup R) = SumFunctionOnSet(f, A) + SumFunctionOnSet(f, R)
    BY <1>11, <1>12, SumUnion
  <1>16. SumFunctionOnSet(g, X) = SumFunctionOnSet(f, A) + SumFunctionOnSet(f, R)
    BY <1>9, <1>10, <1>13 DEF R
  <1> QED  BY <1>3, <1>11, <1>15, <1>16

LEMMA TodosLosAsientos ==
  ASSUME NEW ap \in Tabla, NEW q, NEW S, S = {a \in Asientos : De(ap, a) # {}}
  PROVE  /\ IsFiniteSet(S)
         /\ SumFunctionOnSet([a \in S |-> SumFunctionOnSet(Valen(ap, q), De(ap, a))], S) = Debe(ap, q)
  <1> DEFINE f == Valen(ap, q)
             U == DeTodos(ap, S)
  <1>1. IsFiniteSet(S)
    <2>1. S \subseteq Asientos  OBVIOUS
    <2> QED  BY <2>1, FS_Subset, AsientoAssumption
  <1>2. U \subseteq Ids  BY DEF DeTodos
  <1>3. ASSUME NEW i \in Ids, i \notin U  PROVE f[i] = 0
    <2>1. ap[i] # Nada => ap[i].asiento \in Asientos  BY DEF Tabla, Filas
    <2>2. ap[i] # Nada => i \in De(ap, ap[i].asiento)  BY DEF De
    <2>3. ap[i] = Nada  BY <1>3, <2>1, <2>2 DEF DeTodos
    <2> QED  BY <2>3, ValenTipo DEF Vale
  <1>4. \A i \in Ids : f[i] \in Int  BY ValenTipo
  <1>5. SumFunctionOnSet([a \in S |-> SumFunctionOnSet(f, De(ap, a))], S) = SumFunctionOnSet(f, U)
    BY <1>1, PorAsientos
  <1> HIDE DEF f, U
  <1>6. SumFunctionOnSet(f, Ids) = SumFunctionOnSet(f, U)
    BY <1>2, <1>3, <1>4, IdsFinito, SumOfPart
  <1>7. Debe(ap, q) = SumFunctionOnSet(f, Ids)  BY DEF Debe, f
  <1> QED  BY <1>1, <1>5, <1>6, <1>7 DEF f

LEMMA LeenTodo ==
  ASSUME NEW ap \in Tabla, NEW q, NEW c,
         c = SetToSeq({LeeAsiento(a) : a \in {b \in Asientos : De(ap, b) # {}}})
  PROVE  /\ c \in Seq(Tareas) /\ \A n \in 1 .. Len(c) : c[n].hace = "lee"
         /\ Pendiente(ap, c, q) = Debe(ap, q)
  <1> DEFINE S == {b \in Asientos : De(ap, b) # {}}
             h == [a \in S |-> LeeAsiento(a)]
             L == {h[a] : a \in S}
             g == [a \in S |-> SumFunctionOnSet(Valen(ap, q), De(ap, a))]
             f == [t \in L |-> Peso(ap, t, q)]
             m == Cardinality(L)
  <1>1. IsFiniteSet(S) /\ SumFunctionOnSet(g, S) = Debe(ap, q)  BY TodosLosAsientos
  <1>2. c = SetToSeq(L)
    <2>1. L = {LeeAsiento(a) : a \in {b \in Asientos : De(ap, b) # {}}}  OBVIOUS
    <2> QED  BY <2>1
  <1>3. \A a \in S : a \in Asientos /\ h[a] = LeeAsiento(a) /\ h[a] \in L
                     /\ g[a] = SumFunctionOnSet(Valen(ap, q), De(ap, a))
    OBVIOUS
  <1>4. \A t \in L : \E a \in S : t = h[a]  OBVIOUS
  <1>5. \A t \in L : f[t] = Peso(ap, t, q)  OBVIOUS
  <1>6. ASSUME NEW a \in S
        PROVE  h[a] \in Tareas /\ h[a].hace = "lee" /\ h[a].asiento = a /\ f[h[a]] = g[a]
    <2> HIDE DEF S, h, L, g, f
    <2>1. h[a] = [hace |-> "lee", asiento |-> a] /\ a \in Asientos  BY <1>3 DEF LeeAsiento
    <2>2. h[a] \in Tareas  BY <2>1 DEF Tareas
    <2>3. Peso(ap, h[a], q) = SumFunctionOnSet(Valen(ap, q), De(ap, a))  BY <2>1 DEF Peso
    <2> QED  BY <1>3, <1>5, <2>1, <2>2, <2>3
  <1> HIDE DEF S, h, g, f
  <1>7. IsFiniteSet(L)  BY <1>1, FiniteImage
  <1> HIDE DEF L
  <1>8. \A t \in L : t \in Tareas /\ t.hace = "lee" /\ f[t] \in Int
    <2>1. \A t \in L : t \in Tareas /\ t.hace = "lee"  BY <1>4, <1>6
    <2> QED  BY <1>5, <2>1, PesoTipo
  <1>9. Lista(c, L) /\ m \in Nat  BY <1>2, <1>7, SetToSeqLista, FS_CardinalityType
  <1> HIDE DEF m
  <1>10. c \in [1 .. m -> L]  BY <1>9 DEF Lista, m
  <1>11. c \in Seq(Tareas) /\ Len(c) = m
    <2>1. c \in [1 .. m -> Tareas]  BY <1>8, <1>10
    <2> QED  BY <1>9, <2>1
  <1>12. \A n \in 1 .. Len(c) : c[n].hace = "lee"  BY <1>8, <1>10, <1>11
  <1> DEFINE w == Pesos(ap, c, q)
  <1>13. w \in Seq(Int) /\ Len(w) = m /\ \A n \in 1 .. m : w[n] = Peso(ap, c[n], q)
    BY <1>11, PesosTipo
  <1> HIDE DEF w
  <1>14. \A n \in 1 .. m : w[n] = f[c[n]]  BY <1>5, <1>10, <1>13
  <1>15. SumFunction(w) = SumFunctionOnSet(f, L)
    BY <1>7, <1>8, <1>9, <1>13, <1>14, SumLista DEF m
  <1>16. Renames(g, S, f, L, h)
    <2>1. \A a \in S : g[a] \in Int /\ h[a] \in L /\ g[a] = f[h[a]]  BY <1>3, <1>6, <1>8
    <2>2. \A a, b \in S : h[a] = h[b] => a = b  BY <1>6
    <2> QED  BY <1>4, <2>1, <2>2 DEF Renames
  <1>17. SumFunctionOnSet(g, S) = SumFunctionOnSet(f, L)  BY <1>1, <1>16, SumImage
  <1> QED  BY <1>1, <1>11, <1>12, <1>15, <1>17 DEF w, Pendiente

-------------------------------------------------------------------------------
(* The invariant.                                                            *)

\* What was read is of the account whose balance is to be saved next.
AlLeer(p)  == leido[p] # Nada => tareas[p] # <<>> /\ Head(tareas[p]).hace = "saldo"
Tipos      == TypeOK /\ \A p \in Puestos : AlLeer(p)

LeeBien(p) == leido[p] # Nada => leido[p] = saldo[Head(tareas[p]).cuenta]

Solo(ts, que) == \A n \in 1 .. Len(ts) : ts[n].hace \in que
Ordenes(p) ==
  /\ obra[p] = "asiento" => Solo(tareas[p], {"saldo", "borra", "inserta"})
  /\ obra[p] = "recalculo" => tareas[p] = <<PonCeros>> \/ Solo(tareas[p], {"saldo", "lee"})

\* The lines to remove are there, and each is removed once.
PorBorrar(ap, ts) ==
  \A n \in 1 .. Len(ts) : ts[n].hace = "borra" =>
    /\ ap[ts[n].id] # Nada
    /\ \A m \in 1 .. Len(ts) : ts[m].hace = "borra" /\ ts[m].id = ts[n].id => m = n

\* With what remains to be done every balance will be right: while nothing has failed, and
\* from the moment a recalculation has set them to zero.
Cuadra(p) ==
  (fallos = 0 \/ obra[p] = "recalculo") /\ tareas[p] # <<PonCeros>> =>
    \A q \in Cuentas : saldo[q] + Pendiente(apunte, tareas[p], q) = Debe(apunte, q)

Seguro(p) == LeeBien(p) /\ Ordenes(p) /\ PorBorrar(apunte, tareas[p]) /\ Cuadra(p)
IInvAsientos == Tipos /\ \A p \in Puestos : Seguro(p)

-------------------------------------------------------------------------------
(* Types.                                                                    *)

\* What every state of the right types tells of a workstation at work.
LEMMA DePuesto ==
  ASSUME Tipos, NEW p \in Puestos
  PROVE  /\ tareas[p] \in Seq(Tareas) /\ apunte \in Tabla
         /\ tareas[p] # <<>> =>
              /\ Head(tareas[p]) \in Tareas /\ Tail(tareas[p]) \in Seq(Tareas)
              /\ Head(tareas[p]) = tareas[p][1] /\ 1 \in 1 .. Len(tareas[p])
              /\ obra[p] \in {"asiento", "recalculo"}
              /\ Head(tareas[p]).hace # "saldo" => leido[p] = Nada
  <1>1. tareas[p] \in Seq(Tareas) /\ apunte \in Tabla /\ obra[p] \in {"libre", "asiento", "recalculo"}
    BY DEF Tipos, TypeOK, Tabla
  <1>2. ASSUME tareas[p] # <<>>
        PROVE  /\ Head(tareas[p]) \in Tareas /\ Tail(tareas[p]) \in Seq(Tareas)
               /\ Head(tareas[p]) = tareas[p][1] /\ 1 \in 1 .. Len(tareas[p])
    <2> DEFINE ts == tareas[p]
    <2>1. ts \in Seq(Tareas) /\ ts # <<>>  BY <1>1, <1>2
    <2> HIDE DEF ts
    <2>2. Head(ts) \in Tareas /\ Tail(ts) \in Seq(Tareas) /\ Head(ts) = ts[1] /\ 1 \in 1 .. Len(ts)
      BY <2>1
    <2> QED  BY <2>2 DEF ts
  <1>3. tareas[p] # <<>> => obra[p] # "libre"  BY DEF Tipos, TypeOK
  <1>4. tareas[p] # <<>> /\ Head(tareas[p]).hace # "saldo" => leido[p] = Nada  BY DEF Tipos, AlLeer
  <1> QED  BY <1>1, <1>2, <1>3, <1>4

LEMMA EmpiezaTipos ==
  ASSUME Tipos, NEW p \in Puestos, NEW e \in Empresas, NEW que \in {"asiento", "recalculo"},
         NEW ts \in Seq(Tareas), obra[p] = "libre", Empieza(p, e, que, ts)
  PROVE  /\ Tipos'
         /\ tareas'[p] = ts /\ obra'[p] = que /\ leido'[p] = Nada
         /\ tareas[p] = <<>>
  <1> USE DEF Tipos, TypeOK
  <1>1. obra[p] = "libre" /\ tareas[p] = <<>> /\ leido[p] = Nada  OBVIOUS
  <1>2. sesion' = [sesion EXCEPT ![p] = e] /\ obra' = [obra EXCEPT ![p] = que]
        /\ tareas' = [tareas EXCEPT ![p] = ts]
        /\ saldo' = saldo /\ apunte' = apunte /\ ultimo' = ultimo /\ leido' = leido /\ fallos' = fallos
    BY DEF Empieza, CambiaEmpresa, bd
  <1>3. TypeOK'
    <2>1. tareas' \in [Puestos -> Seq(Tareas)]
      <3>1. tareas \in [Puestos -> Seq(Tareas)]  OBVIOUS
      <3> QED  BY <1>2, <3>1
    <2>2. obra' \in [Puestos -> {"libre", "asiento", "recalculo"}] /\ sesion' \in [Puestos -> Empresas]
      BY <1>2
    <2>3. \A r \in Puestos : obra'[r] = "libre" => tareas'[r] = <<>> /\ leido'[r] = Nada
      BY <1>2
    <2> QED  BY <1>2, <2>1, <2>2, <2>3
  <1>4. \A r \in Puestos : AlLeer(r)'  BY <1>1, <1>2 DEF AlLeer
  <1>5. tareas'[p] = ts /\ obra'[p] = que  BY <1>2
  <1> QED  BY <1>1, <1>2, <1>3, <1>4, <1>5

LEMMA SigueTipos ==
  ASSUME Tipos, NEW p \in Puestos, NEW us \in Seq(Tareas), tareas[p] # <<>>, Sigue(p, us),
         UNCHANGED <<obra, sesion, fallos>>,
         leido' = [leido EXCEPT ![p] = Nada],
         saldo' \in [Cuentas -> Int], apunte' \in Tabla, ultimo' \in 0 .. MaxApuntes,
         \A i \in Ids : i > ultimo' => apunte'[i] = Nada
  PROVE  /\ Tipos'
         /\ tareas'[p] = us \o Tail(tareas[p]) /\ leido'[p] = Nada /\ obra'[p] = obra[p]
         /\ obra[p] \in {"asiento", "recalculo"}
  <1> DEFINE r == Tail(tareas[p])
             vs == us \o r
  <1>1. r \in Seq(Tareas) /\ obra[p] \in {"asiento", "recalculo"}  BY DePuesto
  <1>2. vs \in Seq(Tareas)
    <2> HIDE DEF r
    <2> QED  BY <1>1
  <1>3. tareas' = [tareas EXCEPT ![p] = vs]  BY DEF Sigue
  <1> HIDE DEF r, vs
  <1> USE DEF Tipos, TypeOK
  <1>4. tareas' \in [Puestos -> Seq(Tareas)] /\ tareas'[p] = vs
    <2>1. tareas \in [Puestos -> Seq(Tareas)]  OBVIOUS
    <2> QED  BY <1>2, <1>3, <2>1
  <1>5. \A s \in Puestos : obra'[s] = "libre" => tareas'[s] = <<>> /\ leido'[s] = Nada
    BY <1>1, <1>3
  <1>6. TypeOK'
    <2>1. leido' \in [Puestos -> Int \cup {Nada}] /\ leido'[p] = Nada  OBVIOUS
    <2> QED  BY <1>4, <1>5, <2>1 DEF Tabla
  <1>7. \A s \in Puestos : AlLeer(s)'  BY <1>3 DEF AlLeer
  <1> QED  BY <1>1, <1>4, <1>6, <1>7 DEF vs, r

-------------------------------------------------------------------------------
(* What a workstation starts.                                                *)

\* The statements of an entry: each account is left as its lines say.
Asentable(ts) ==
  /\ ts \in Seq(Tareas) /\ Solo(ts, {"saldo", "borra", "inserta"}) /\ PorBorrar(apunte, ts)
  /\ \A q \in Cuentas : Pendiente(apunte, ts, q) = 0

LEMMA QuitaAsentable ==
  ASSUME apunte \in Tabla, NEW a
  PROVE  Asentable(Quita(a))
  <1>1. Solo(Quita(a), {"saldo", "borra", "inserta"})  BY QuitaEs DEF Solo
  <1>2. PorBorrar(apunte, Quita(a))  BY QuitaEs DEF PorBorrar
  <1> QED  BY <1>1, <1>2, QuitaEs DEF Asentable

LEMMA LineasSon ==
  ASSUME NEW e, NEW ls \in Lineas(e)
  PROVE  \E k \in Nat : ls \in [1 .. k -> [cuenta : Cuentas, importe : Importes]]
  <1>1. PICK k \in 1 .. MaxLineas :
          ls \in [1 .. k -> [cuenta : Cuentas \cap ({e} \X Apuntables), importe : Importes]]
    BY DEF Lineas
  <1>2. k \in Nat  OBVIOUS
  <1>3. [cuenta : Cuentas \cap ({e} \X Apuntables), importe : Importes]
          \subseteq [cuenta : Cuentas, importe : Importes]
    OBVIOUS
  <1> QED  BY <1>1, <1>2, <1>3

LEMMA QuitaPone ==
  ASSUME apunte \in Tabla, NEW s, Asentable(s), NEW a \in Asientos, NEW e, NEW ls \in Lineas(e)
  PROVE  Asentable(s \o Pone(a, ls))
  <1> DEFINE t == Pone(a, ls)
  <1>1. PICK k \in Nat : ls \in [1 .. k -> [cuenta : Cuentas, importe : Importes]]
    BY LineasSon
  <1>2. t \in Seq(Tareas) /\ Solo(t, {"saldo", "inserta"}) /\ \A q : Pendiente(apunte, t, q) = 0
    BY <1>1, PoneEs DEF Solo
  <1> HIDE DEF t
  <1>3. s \in Seq(Tareas) /\ Solo(s, {"saldo", "borra", "inserta"}) /\ PorBorrar(apunte, s)
    BY DEF Asentable
  <1>4. s \o t \in Seq(Tareas)  BY <1>2, <1>3
  <1>5. ASSUME NEW n \in 1 .. Len(s \o t)
        PROVE  \/ n \in 1 .. Len(s) /\ (s \o t)[n] = s[n]
               \/ n - Len(s) \in 1 .. Len(t) /\ (s \o t)[n] = t[n - Len(s)]
    <2>1. Len(s \o t) = Len(s) + Len(t) /\ Len(s) \in Nat /\ Len(t) \in Nat  BY <1>2, <1>3
    <2>2. CASE n <= Len(s)  BY <1>2, <1>3, <2>1, <2>2
    <2>3. CASE n > Len(s)  BY <1>2, <1>3, <2>1, <2>3
    <2> QED  BY <2>1, <2>2, <2>3
  <1>6. Solo(s \o t, {"saldo", "borra", "inserta"})  BY <1>2, <1>3, <1>5 DEF Solo
  <1>7. ASSUME NEW n \in 1 .. Len(s \o t), (s \o t)[n].hace = "borra"
        PROVE  n \in 1 .. Len(s) /\ (s \o t)[n] = s[n]
    BY <1>2, <1>5, <1>7 DEF Solo
  <1>8. PorBorrar(apunte, s \o t)  BY <1>3, <1>7 DEF PorBorrar
  <1>9. ASSUME NEW q \in Cuentas PROVE Pendiente(apunte, s \o t, q) = 0
    <2>1. Pendiente(apunte, s, q) = 0 /\ Pendiente(apunte, t, q) = 0  BY <1>2 DEF Asentable
    <2>2. Pendiente(apunte, s \o t, q) = Pendiente(apunte, s, q) + Pendiente(apunte, t, q)
      BY <1>2, <1>3, PendienteUne
    <2> QED  BY <2>1, <2>2
  <1> QED  BY <1>4, <1>6, <1>8, <1>9 DEF Asentable, t

LEMMA NadaAsentable ==
  ASSUME apunte \in Tabla
  PROVE  Asentable(<<>>)
  <1>1. Solo(<<>>, {"saldo", "borra", "inserta"}) /\ PorBorrar(apunte, <<>>)  BY DEF Solo, PorBorrar
  <1> QED  BY <1>1, PendienteNada DEF Asentable

\* Whatever a user starts, but a recalculation, is the statements of an entry.
LEMMA UsuarioEs ==
  ASSUME Tipos, ~Simple, NEW p \in Puestos, Usuario(p)
  PROVE  \E e \in Empresas :
           \/ Empieza(p, e, "recalculo", <<PonCeros>>)
           \/ \E ts : Asentable(ts) /\ Empieza(p, e, "asiento", ts)
  <1>0. apunte \in Tabla  BY DePuesto
  <1>1. ASSUME NEW a \in Asientos, NEW e \in Empresas, NEW ls \in Lineas(e)
        PROVE  Asentable(Pone(a, ls)) /\ Asentable(Quita(a) \o Pone(a, ls)) /\ Asentable(Quita(a))
    <2>1. Asentable(<<>> \o Pone(a, ls))  BY <1>0, NadaAsentable, QuitaPone
    <2>2. Pone(a, ls) \in Seq(Tareas)  BY <1>0, LineasSon, PoneEs
    <2>3. <<>> \o Pone(a, ls) = Pone(a, ls)
      <3> DEFINE t == Pone(a, ls)
      <3> HIDE DEF t
      <3>1. t \in Seq(Tareas) => <<>> \o t = t  OBVIOUS
      <3> QED  BY <2>2, <3>1 DEF t
    <2>4. Asentable(Pone(a, ls))  BY <2>1, <2>3
    <2>5. Asentable(Quita(a))  BY <1>0, QuitaAsentable
    <2>6. Asentable(Quita(a) \o Pone(a, ls))  BY <1>0, <2>5, QuitaPone
    <2> QED  BY <2>4, <2>5, <2>6
  <1>2. CASE NuevoAsiento(p)
    <2>1. PICK e \in Empresas, a \in Asientos : \E ls \in Lineas(e) :
            Empieza(p, e, "asiento", Pone(a, ls))
      BY <1>2 DEF NuevoAsiento
    <2> QED  BY <1>1, <2>1
  <1>3. CASE ModificaAsiento(p)
    <2>1. PICK e \in Empresas, a \in Asientos : \E ls \in Lineas(e) :
            Empieza(p, e, "asiento", Quita(a) \o Pone(a, ls))
      BY <1>3 DEF ModificaAsiento
    <2> QED  BY <1>1, <2>1
  <1>4. CASE BorraAsiento(p)
    <2>1. PICK e \in Empresas, a \in Asientos : Empieza(p, e, "asiento", Quita(a))
      BY <1>4 DEF BorraAsiento
    <2>2. Asentable(Quita(a))  BY <1>0, QuitaAsentable
    <2> QED  BY <2>1, <2>2
  <1>5. CASE RegenAsiento(p)
    <2>1. PICK e \in Empresas, a \in Asientos : \E ls \in Lineas(e) :
            Empieza(p, e, "asiento", Quita(a) \o <<>> \o Pone(a, ls))
      BY <1>5 DEF RegenAsiento
    <2>2. Quita(a) \o <<>> = Quita(a)
      <3> DEFINE t == Quita(a)
      <3>1. t \in Seq(Tareas)  BY <1>0, QuitaEs
      <3> HIDE DEF t
      <3>2. t \o <<>> = t  BY <3>1
      <3> QED  BY <3>2 DEF t
    <2>3. PICK ls \in Lineas(e) : Empieza(p, e, "asiento", Quita(a) \o Pone(a, ls))  BY <2>1, <2>2
    <2> QED  BY <1>1, <2>3
  <1>6. CASE RecalcularSaldosCuentas(p)  BY <1>6 DEF RecalcularSaldosCuentas
  <1> QED  BY <1>2, <1>3, <1>4, <1>5, <1>6 DEF Usuario

LEMMA EmpiezaBien ==
  ASSUME IInvAsientos, ~Simple, NEW p \in Puestos, Usuario(p), \A r \in Puestos : r = p
  PROVE  IInvAsientos'
  <1>1. Tipos /\ Seguro(p) /\ PonCeros \in Tareas  BY DEF IInvAsientos, Tareas
  <1>0. obra[p] = "libre"  BY DEF Usuario
  <1>2. PICK e \in Empresas :
          \/ Empieza(p, e, "recalculo", <<PonCeros>>)
          \/ \E ts : Asentable(ts) /\ Empieza(p, e, "asiento", ts)
    BY <1>1, UsuarioEs
  <1>3. CASE Empieza(p, e, "recalculo", <<PonCeros>>)
    <2>1. Tipos' /\ tareas'[p] = <<PonCeros>> /\ obra'[p] = "recalculo" /\ leido'[p] = Nada
      <3>1. <<PonCeros>> \in Seq(Tareas)  BY <1>1
      <3> QED  BY <1>0, <1>1, <1>3, <3>1, EmpiezaTipos
    <2>2. PorBorrar(apunte', tareas'[p])  BY <2>1 DEF PorBorrar, PonCeros
    <2>3. Seguro(p)'  BY <2>1, <2>2 DEF Seguro, LeeBien, Ordenes, Cuadra
    <2> QED  BY <2>1, <2>3 DEF IInvAsientos
  <1>4. ASSUME NEW ts, Asentable(ts), Empieza(p, e, "asiento", ts)
        PROVE  IInvAsientos'
    <2>0. ts \in Seq(Tareas) /\ Solo(ts, {"saldo", "borra", "inserta"}) /\ PorBorrar(apunte, ts)
      BY <1>4 DEF Asentable
    <2>1. /\ Tipos' /\ tareas'[p] = ts /\ obra'[p] = "asiento" /\ leido'[p] = Nada
          /\ tareas[p] = <<>> /\ obra[p] = "libre"
      BY <1>0, <1>1, <1>4, <2>0, EmpiezaTipos
    <2>2. saldo' = saldo /\ apunte' = apunte /\ fallos' = fallos  BY <1>4 DEF Empieza, bd
    <2>3. Solo(tareas'[p], {"saldo", "borra", "inserta"}) /\ PorBorrar(apunte', tareas'[p])
      BY <2>0, <2>1, <2>2
    <2>4. ASSUME fallos = 0, NEW q \in Cuentas
          PROVE  saldo'[q] + Pendiente(apunte', tareas'[p], q) = Debe(apunte', q)
      <3>1. saldo[q] + Pendiente(apunte, tareas[p], q) = Debe(apunte, q)
        BY <1>1, <2>1, <2>4 DEF Seguro, Cuadra
      <3>2. Pendiente(apunte, tareas[p], q) = 0  BY <2>1, PendienteNada
      <3>3. Pendiente(apunte, ts, q) = 0  BY <1>4 DEF Asentable
      <3> QED  BY <2>1, <2>2, <3>1, <3>2, <3>3
    <2>5. Seguro(p)'  BY <2>1, <2>2, <2>3, <2>4 DEF Seguro, LeeBien, Ordenes, Cuadra
    <2> QED  BY <2>1, <2>5 DEF IInvAsientos
  <1> QED  BY <1>2, <1>3, <1>4

-------------------------------------------------------------------------------
(* Statements.  One is done, and what it leaves to be done goes before the rest. *)

LEMMA Lugares ==
  ASSUME NEW ts \in Seq(Tareas), ts # <<>>, NEW us \in Seq(Tareas), NEW n \in 1 .. Len(us \o Tail(ts))
  PROVE  \/ n \in 1 .. Len(us) /\ (us \o Tail(ts))[n] = us[n]
         \/ n - Len(us) + 1 \in 1 .. Len(ts) /\ n - Len(us) # 0 /\ (us \o Tail(ts))[n] = ts[n - Len(us) + 1]
  <1> DEFINE r == Tail(ts)
  <1>1. r \in Seq(Tareas) /\ Len(r) = Len(ts) - 1 /\ Len(ts) \in Nat /\ \A j \in 1 .. Len(r) : r[j] = ts[j + 1]
    OBVIOUS
  <1> HIDE DEF r
  <1>2. Len(us \o r) = Len(us) + Len(r) /\ Len(us) \in Nat /\ Len(r) \in Nat /\ n \in 1 .. Len(us \o r)
    BY <1>1 DEF r
  <1>3. CASE n <= Len(us)
    <2>1. n \in 1 .. Len(us) /\ (us \o r)[n] = us[n]  BY <1>1, <1>2, <1>3
    <2> QED  BY <2>1 DEF r
  <1>4. CASE n > Len(us)
    <2> DEFINE j == n - Len(us)
    <2>1. j \in 1 .. Len(r) /\ (us \o r)[n] = r[j]  BY <1>1, <1>2, <1>4
    <2>2. j + 1 \in 1 .. Len(ts) /\ j # 0  BY <1>1, <1>2, <2>1
    <2> QED  BY <1>1, <2>1, <2>2 DEF r
  <1> QED  BY <1>2, <1>3, <1>4

LEMMA SoloSigue ==
  ASSUME NEW ts \in Seq(Tareas), ts # <<>>, NEW us \in Seq(Tareas), NEW que, Solo(ts, que), Solo(us, que)
  PROVE  Solo(us \o Tail(ts), que)
  BY Lugares DEF Solo

\* The lines that remain to be removed are still there, and are not the one just removed.
LEMMA PorBorrarSigue ==
  ASSUME NEW ap, NEW ts \in Seq(Tareas), ts # <<>>, NEW us \in Seq(Tareas),
         Solo(us, {"saldo", "lee"}), PorBorrar(ap, ts)
  PROVE  /\ PorBorrar(ap, us \o Tail(ts))
         /\ Head(ts).hace = "borra" =>
              \A n \in 1 .. Len(us \o Tail(ts)) :
                (us \o Tail(ts))[n].hace = "borra" => (us \o Tail(ts))[n].id # Head(ts).id
  <1> DEFINE v == us \o Tail(ts)
             k == Len(us)
  <1>1. ASSUME NEW n \in 1 .. Len(v), v[n].hace = "borra"
        PROVE  n - k + 1 \in 1 .. Len(ts) /\ n - k # 0 /\ v[n] = ts[n - k + 1] /\ n \in Int /\ k \in Int
    <2>1. \/ n \in 1 .. k /\ v[n] = us[n]
          \/ n - k + 1 \in 1 .. Len(ts) /\ n - k # 0 /\ v[n] = ts[n - k + 1]
      BY Lugares
    <2>2. n \in Int /\ k \in Int  OBVIOUS
    <2> HIDE DEF k
    <2> QED  BY <1>1, <2>1, <2>2 DEF Solo, k
  <1>2. Head(ts) = ts[1] /\ 1 \in 1 .. Len(ts)  OBVIOUS
  <1> HIDE DEF v, k
  <1>3. \A i, j \in 1 .. Len(ts) : ts[i].hace = "borra" /\ ts[j].hace = "borra" /\ ts[i].id = ts[j].id => i = j
    BY DEF PorBorrar
  <1>4. ASSUME NEW n \in 1 .. Len(v), v[n].hace = "borra"
        PROVE  /\ ap[v[n].id] # Nada
               /\ \A m \in 1 .. Len(v) : v[m].hace = "borra" /\ v[m].id = v[n].id => m = n
               /\ Head(ts).hace = "borra" => v[n].id # Head(ts).id
    <2> DEFINE i == n - k + 1
    <2>1. i \in 1 .. Len(ts) /\ i # 1 /\ v[n] = ts[i] /\ n \in Int /\ k \in Int  BY <1>1, <1>4
    <2>2. ap[v[n].id] # Nada  BY <1>4, <2>1 DEF PorBorrar
    <2>3. ASSUME NEW m \in 1 .. Len(v), v[m].hace = "borra", v[m].id = v[n].id  PROVE m = n
      <3> DEFINE j == m - k + 1
      <3>1. j \in 1 .. Len(ts) /\ v[m] = ts[j] /\ m \in Int  BY <1>1, <2>3
      <3>2. ts[i].hace = "borra" /\ ts[j].hace = "borra" /\ ts[i].id = ts[j].id
        BY <1>4, <2>1, <2>3, <3>1
      <3>3. i = j
        <4> HIDE DEF i, j
        <4> QED  BY <1>3, <2>1, <3>1, <3>2
      <3> QED  BY <2>1, <3>1, <3>3
    <2>4. ASSUME Head(ts).hace = "borra", v[n].id = Head(ts).id  PROVE FALSE
      <3> HIDE DEF i
      <3> QED  BY <1>2, <1>3, <1>4, <2>1, <2>4
    <2> QED  BY <2>2, <2>3, <2>4
  <1> QED  BY <1>4 DEF PorBorrar, v

LEMMA Ninguna ==
  /\ <<>> \in Seq(Tareas) /\ \A que : Solo(<<>>, que)
  /\ \A ts \in Seq(Tareas) : <<>> \o ts = ts
  BY DEF Solo

\* The rest, after what the statement leaves to be done.
LEMMA Cola ==
  ASSUME Tipos, NEW p \in Puestos, tareas[p] # <<>>, NEW us \in Seq(Tareas), NEW ap \in Tabla, NEW q
  PROVE  /\ Pendiente(ap, us \o Tail(tareas[p]), q) = Pendiente(ap, us, q) + Pendiente(ap, Tail(tareas[p]), q)
         /\ Pendiente(ap, tareas[p], q) = Peso(ap, Head(tareas[p]), q) + Pendiente(ap, Tail(tareas[p]), q)
         /\ Pendiente(ap, us, q) \in Int /\ Pendiente(ap, Tail(tareas[p]), q) \in Int
         /\ Peso(ap, Head(tareas[p]), q) \in Int
  <1> DEFINE ts == tareas[p]
             r == Tail(ts)
  <1>1. ts \in Seq(Tareas) /\ r \in Seq(Tareas) /\ Head(ts) \in Tareas /\ ts # <<>>  BY DePuesto
  <1> HIDE DEF ts, r
  <1>2. Pendiente(ap, us \o r, q) = Pendiente(ap, us, q) + Pendiente(ap, r, q)  BY <1>1, PendienteUne
  <1>3. Pendiente(ap, ts, q) = Peso(ap, Head(ts), q) + Pendiente(ap, r, q)  BY <1>1, PendienteCabeza DEF r
  <1>4. Pendiente(ap, us, q) \in Int /\ Pendiente(ap, r, q) \in Int  BY <1>1, PesosTipo
  <1>5. Peso(ap, Head(ts), q) \in Int  BY <1>1, PesoTipo
  <1> QED  BY <1>2, <1>3, <1>4, <1>5 DEF ts, r

LEMMA SigueBien ==
  ASSUME IInvAsientos, NEW p \in Puestos, \A r \in Puestos : r = p,
         tareas[p] # <<>>, tareas[p] # <<PonCeros>>,
         NEW us \in Seq(Tareas), Solo(us, {"saldo", "lee"}), obra[p] = "asiento" => Solo(us, {"saldo"}),
         Tipos', tareas'[p] = us \o Tail(tareas[p]), leido'[p] = Nada, obra'[p] = obra[p], fallos' = fallos,
         PorBorrar(apunte', us \o Tail(tareas[p])),
         \A q \in Cuentas :
           saldo[q] + Pendiente(apunte, tareas[p], q) = Debe(apunte, q) =>
             saldo'[q] + Pendiente(apunte', us \o Tail(tareas[p]), q) = Debe(apunte', q)
  PROVE  IInvAsientos'
  <1>1. Tipos /\ Seguro(p)  BY DEF IInvAsientos
  <1> DEFINE ts == tareas[p]
             v == us \o Tail(ts)
  <1>2. ts \in Seq(Tareas) /\ ts # <<>>  BY <1>1, DePuesto
  <1> HIDE DEF ts
  <1>3. obra[p] = "asiento" => Solo(v, {"saldo", "borra", "inserta"})
    <2> SUFFICES ASSUME obra[p] = "asiento" PROVE Solo(v, {"saldo", "borra", "inserta"})  OBVIOUS
    <2>1. Solo(ts, {"saldo", "borra", "inserta"})  BY <1>1 DEF Seguro, Ordenes, ts
    <2>2. Solo(us, {"saldo", "borra", "inserta"})  BY DEF Solo
    <2> QED  BY <1>2, <2>1, <2>2, SoloSigue
  <1>4. obra[p] = "recalculo" => Solo(v, {"saldo", "lee"})
    <2> SUFFICES ASSUME obra[p] = "recalculo" PROVE Solo(v, {"saldo", "lee"})  OBVIOUS
    <2>1. Solo(ts, {"saldo", "lee"})  BY <1>1 DEF Seguro, Ordenes, ts
    <2> QED  BY <1>2, <2>1, SoloSigue
  <1>5. tareas'[p] = v /\ PorBorrar(apunte', v)  BY DEF ts
  <1>6. ASSUME fallos = 0 \/ obra[p] = "recalculo", NEW q \in Cuentas
        PROVE  saldo'[q] + Pendiente(apunte', v, q) = Debe(apunte', q)
    <2>1. saldo[q] + Pendiente(apunte, tareas[p], q) = Debe(apunte, q)
      BY <1>1, <1>6 DEF Seguro, Cuadra
    <2> QED  BY <2>1 DEF ts
  <1> HIDE DEF v
  <1>7. Ordenes(p)'  BY <1>3, <1>4, <1>5 DEF Ordenes
  <1>8. Cuadra(p)'  BY <1>5, <1>6 DEF Cuadra
  <1>9. Seguro(p)'  BY <1>5, <1>7, <1>8 DEF Seguro, LeeBien
  <1> QED  BY <1>9 DEF IInvAsientos

LEMMA LeeSaldoTipos ==
  ASSUME Tipos, NEW p \in Puestos, LeeSaldo(p)
  PROVE  /\ Tipos' /\ leido'[p] = saldo[Head(tareas[p]).cuenta]
         /\ saldo' = saldo /\ apunte' = apunte /\ obra' = obra /\ tareas' = tareas /\ fallos' = fallos
  <1> DEFINE c == Head(tareas[p]).cuenta
  <1>1. /\ tareas[p] # <<>> /\ Head(tareas[p]).hace = "saldo"
        /\ leido' = [leido EXCEPT ![p] = saldo[c]]
        /\ saldo' = saldo /\ apunte' = apunte /\ ultimo' = ultimo /\ obra' = obra /\ sesion' = sesion
        /\ tareas' = tareas /\ fallos' = fallos
    BY DEF LeeSaldo, Toca, bd
  <1>2. c \in Cuentas
    <2>1. Head(tareas[p]) \in Tareas  BY <1>1, DePuesto
    <2> QED  BY <1>1, <2>1 DEF Tareas, PonCeros
  <1>3. saldo[c] \in Int  BY <1>2 DEF Tipos, TypeOK
  <1>4. c = Head(tareas[p]).cuenta  OBVIOUS
  <1> HIDE DEF c
  <1>5. leido' \in [Puestos -> Int \cup {Nada}] /\ leido'[p] = saldo[c]
    BY <1>1, <1>3 DEF Tipos, TypeOK
  <1>6. obra[p] # "libre"  BY <1>1, DePuesto
  <1>7. TypeOK'
    <2>1. \A r \in Puestos : obra'[r] = "libre" => tareas'[r] = <<>> /\ leido'[r] = Nada
      BY <1>1, <1>6 DEF Tipos, TypeOK
    <2> QED  BY <1>1, <1>5, <2>1 DEF Tipos, TypeOK
  <1>8. \A r \in Puestos : AlLeer(r)'  BY <1>1 DEF AlLeer, Tipos
  <1> QED  BY <1>1, <1>4, <1>5, <1>7, <1>8 DEF Tipos

LEMMA LeeSaldoBien ==
  ASSUME IInvAsientos, NEW p \in Puestos, \A r \in Puestos : r = p, LeeSaldo(p)
  PROVE  IInvAsientos'
  <1>1. Tipos /\ Seguro(p)  BY DEF IInvAsientos
  <1>2. /\ Tipos' /\ leido'[p] = saldo[Head(tareas[p]).cuenta]
        /\ saldo' = saldo /\ apunte' = apunte /\ obra' = obra /\ tareas' = tareas /\ fallos' = fallos
    BY <1>1, LeeSaldoTipos
  <1>3. LeeBien(p)'  BY <1>2 DEF LeeBien
  <1>4. Seguro(p)'  BY <1>1, <1>2, <1>3 DEF Seguro, Ordenes, Cuadra
  <1> QED  BY <1>2, <1>4 DEF IInvAsientos

\* The account above is what is left, if there is one.
LEMMA SuperioresEs ==
  ASSUME NEW c \in Cuentas, NEW n \in Int, NEW us,
         us = SetToSeq({ActSaldo(r, n) : r \in CuentaPadre(c[1], c[2])})
  PROVE  /\ us \in Seq(Tareas) /\ Solo(us, {"saldo"})
         /\ \A q \in Cuentas : \A ap \in Tabla :
              (IF q = c THEN n ELSE 0) + Pendiente(ap, us, q) = (IF Cae(c, q) THEN n ELSE 0)
  <1> DEFINE sup == CuentaPadre(c[1], c[2])
  <1>0. c[2] \in Codigos  BY CuentaAssumption
  <1>1. CASE sup = {}
    <2>1. us = SetToSeq({})  BY <1>1
    <2>2. us \in [1 .. 0 -> {}]
      <3>1. IsFiniteSet({}) /\ Cardinality({}) = 0  BY FS_EmptySet
      <3> QED  BY <2>1, <3>1, SetToSeqLista DEF Lista
    <2>3. us = <<>>  BY <2>2
    <2>4. \A q \in Cuentas : Cae(c, q) <=> q = c  BY <1>1, CaeSube
    <2> HIDE DEF sup
    <2>5. us \in Seq(Tareas) /\ Solo(us, {"saldo"})  BY <2>3, Ninguna
    <2>6. ASSUME NEW q \in Cuentas, NEW ap \in Tabla
          PROVE  (IF q = c THEN n ELSE 0) + Pendiente(ap, us, q) = (IF Cae(c, q) THEN n ELSE 0)
      <3>1. Pendiente(ap, us, q) = 0  BY <2>3, PendienteNada
      <3> QED  BY <2>4, <3>1
    <2> QED  BY <2>5, <2>6
  <1>2. ASSUME NEW r \in Cuentas, sup = {r}
        PROVE  /\ us \in Seq(Tareas) /\ Solo(us, {"saldo"})
               /\ \A q \in Cuentas : \A ap \in Tabla :
                    (IF q = c THEN n ELSE 0) + Pendiente(ap, us, q) = (IF Cae(c, q) THEN n ELSE 0)
    <2> DEFINE x == ActSaldo(r, n)
    <2>1. us = SetToSeq({x})  BY <1>2
    <2>2. x \in Tareas /\ x.hace = "saldo" /\ x.cuenta = r /\ x.importe = n  BY DEF ActSaldo, Tareas
    <2> HIDE DEF x
    <2>3. us \in [1 .. 1 -> {x}]
      <3>1. IsFiniteSet({x}) /\ Cardinality({x}) = 1  BY FS_Singleton
      <3>2. Lista(us, {x})  BY <2>1, <3>1, SetToSeqLista
      <3>3. us \in [1 .. Cardinality({x}) -> {x}]  BY <3>2 DEF Lista
      <3> QED  BY <3>1, <3>3
    <2>4. us = <<x>>
      <3>1. us = [i \in 1 .. 1 |-> us[i]] /\ us[1] = x  BY <2>3
      <3> QED  BY <3>1
    <2>5. us \in Seq(Tareas) /\ Solo(us, {"saldo"})
      <3>1. \A i \in 1 .. Len(us) : us[i] = x  BY <2>4
      <3> QED  BY <2>2, <2>4, <3>1 DEF Solo
    <2>6. ASSUME NEW q \in Cuentas, NEW ap \in Tabla
          PROVE  (IF q = c THEN n ELSE 0) + Pendiente(ap, us, q) = (IF Cae(c, q) THEN n ELSE 0)
      <3>1. Pendiente(ap, us, q) = IF Cae(r, q) THEN n ELSE 0
        <4>1. Pendiente(ap, us, q) = Peso(ap, x, q)  BY <2>2, <2>4, PendienteUna
        <4> QED  BY <2>2, <4>1 DEF Peso
      <3>2. (Cae(c, q) <=> q = c \/ Cae(r, q)) /\ (q = c => ~Cae(r, q))  BY <1>2, CaeSube
      <3> QED  BY <3>1, <3>2
    <2> QED  BY <2>5, <2>6
  <1> QED  BY <1>0, <1>1, <1>2, PadreTipo

LEMMA GuardaSaldoTipos ==
  ASSUME Tipos, NEW p \in Puestos, GuardaSaldo(p)
  PROVE  \E c \in Cuentas, n \in Int, us \in Seq(Tareas) :
           /\ Tipos' /\ Sigue(p, us)
           /\ c = Head(tareas[p]).cuenta /\ n = Head(tareas[p]).importe
           /\ us = SetToSeq({ActSaldo(r, n) : r \in CuentaPadre(sesion[p], c[2])})
           /\ leido[p] # Nada /\ saldo' = [saldo EXCEPT ![c] = leido[p] + n]
           /\ tareas'[p] = us \o Tail(tareas[p]) /\ leido'[p] = Nada /\ obra'[p] = obra[p]
           /\ obra[p] \in {"asiento", "recalculo"}
           /\ tareas[p] # <<>> /\ Head(tareas[p]).hace = "saldo"
           /\ apunte' = apunte /\ fallos' = fallos
  <1> DEFINE t == Head(tareas[p])
             c == t.cuenta
             n == t.importe
             us == SetToSeq({ActSaldo(r, n) : r \in CuentaPadre(sesion[p], c[2])})
  <1>1. /\ tareas[p] # <<>> /\ t.hace = "saldo" /\ leido[p] # Nada
        /\ saldo' = [saldo EXCEPT ![c] = leido[p] + n] /\ leido' = [leido EXCEPT ![p] = Nada]
        /\ Sigue(p, us)
        /\ UNCHANGED <<obra, sesion, fallos>> /\ apunte' = apunte /\ ultimo' = ultimo
    BY DEF GuardaSaldo, Toca
  <1>2. c \in Cuentas /\ n \in Int
    <2>1. t \in Tareas  BY <1>1, DePuesto
    <2> HIDE DEF t
    <2> QED  BY <1>1, <2>1 DEF Tareas, PonCeros
  <1>3. us \in Seq(Tareas)
    <2> DEFINE L == {ActSaldo(r, n) : r \in CuentaPadre(sesion[p], c[2])}
    <2>0. c[2] \in Codigos  BY <1>2, CuentaAssumption
    <2> HIDE DEF c, n
    <2>1. CuentaPadre(sesion[p], c[2]) = {} \/ \E r \in Cuentas : CuentaPadre(sesion[p], c[2]) = {r}
      BY <2>0, PadreTipo
    <2>2. IsFiniteSet(L) /\ \A x \in L : x \in Tareas
      <3>1. L = {} \/ \E r \in Cuentas : L = {ActSaldo(r, n)}  BY <2>1
      <3>2. \A r \in Cuentas : ActSaldo(r, n) \in Tareas  BY <1>2 DEF ActSaldo, Tareas
      <3>3. IsFiniteSet(L)
        <4>1. CASE L = {}  BY <4>1, FS_EmptySet
        <4>2. CASE \E r \in Cuentas : L = {ActSaldo(r, n)}
          <5>1. PICK x : L = {x}  BY <4>2
          <5> QED  BY <5>1, FS_Singleton
        <4> QED  BY <3>1, <4>1, <4>2
      <3>4. \A x \in L : x \in Tareas  BY <3>1, <3>2
      <3> QED  BY <3>3, <3>4
    <2> HIDE DEF L
    <2>3. Lista(SetToSeq(L), L) /\ Cardinality(L) \in Nat  BY <2>2, SetToSeqLista, FS_CardinalityType
    <2>4. SetToSeq(L) \in [1 .. Cardinality(L) -> Tareas]  BY <2>2, <2>3 DEF Lista
    <2>5. SetToSeq(L) \in Seq(Tareas)  BY <2>3, <2>4
    <2> QED  BY <2>5 DEF L
  <1> HIDE DEF t, c, n, us
  <1>4. saldo' \in [Cuentas -> Int]
    <2>1. leido[p] \in Int  BY <1>1 DEF Tipos, TypeOK
    <2>2. leido[p] + n \in Int  BY <1>2, <2>1
    <2> QED  BY <1>1, <1>2, <2>2 DEF Tipos, TypeOK
  <1>5. apunte' \in Tabla /\ ultimo' \in 0 .. MaxApuntes /\ \A i \in Ids : i > ultimo' => apunte'[i] = Nada
    BY <1>1 DEF Tipos, TypeOK, Tabla
  <1>6. /\ Tipos' /\ tareas'[p] = us \o Tail(tareas[p]) /\ leido'[p] = Nada /\ obra'[p] = obra[p]
        /\ obra[p] \in {"asiento", "recalculo"}
    BY <1>1, <1>3, <1>4, <1>5, SigueTipos
  <1>7. us = SetToSeq({ActSaldo(r, n) : r \in CuentaPadre(sesion[p], c[2])})  BY DEF us
  <1>8. c = Head(tareas[p]).cuenta /\ n = Head(tareas[p]).importe /\ Head(tareas[p]).hace = "saldo"
    BY <1>1 DEF c, n, t
  <1> QED  BY <1>1, <1>2, <1>3, <1>6, <1>7, <1>8

LEMMA GuardaSaldoBien ==
  ASSUME IInvAsientos, NEW p \in Puestos, \A r \in Puestos : r = p, \E e : Empresas = {e}, GuardaSaldo(p)
  PROVE  IInvAsientos'
  <1>1. Tipos /\ Seguro(p)  BY DEF IInvAsientos
  <1>2. PICK c \in Cuentas, n \in Int, us \in Seq(Tareas) :
          /\ Tipos' /\ Sigue(p, us)
          /\ c = Head(tareas[p]).cuenta /\ n = Head(tareas[p]).importe
          /\ us = SetToSeq({ActSaldo(r, n) : r \in CuentaPadre(sesion[p], c[2])})
          /\ leido[p] # Nada /\ saldo' = [saldo EXCEPT ![c] = leido[p] + n]
          /\ tareas'[p] = us \o Tail(tareas[p]) /\ leido'[p] = Nada /\ obra'[p] = obra[p]
          /\ obra[p] \in {"asiento", "recalculo"}
          /\ tareas[p] # <<>> /\ Head(tareas[p]).hace = "saldo"
          /\ apunte' = apunte /\ fallos' = fallos
    BY <1>1, GuardaSaldoTipos
  <1>3. sesion[p] = c[1]
    <2>1. sesion[p] \in Empresas  BY <1>1 DEF Tipos, TypeOK
    <2>2. c[1] \in Empresas  BY CuentaAssumption
    <2> QED  BY <2>1, <2>2
  <1>4. /\ Solo(us, {"saldo"})
        /\ \A q \in Cuentas : \A ap \in Tabla :
             (IF q = c THEN n ELSE 0) + Pendiente(ap, us, q) = (IF Cae(c, q) THEN n ELSE 0)
    <2>1. us = SetToSeq({ActSaldo(r, n) : r \in CuentaPadre(c[1], c[2])})  BY <1>2, <1>3
    <2> QED  BY <2>1, SuperioresEs
  <1>5. Solo(us, {"saldo", "lee"})  BY <1>4 DEF Solo
  <1>6. tareas[p] # <<PonCeros>>  BY <1>2 DEF PonCeros
  <1>7. PorBorrar(apunte', us \o Tail(tareas[p]))
    <2>1. tareas[p] \in Seq(Tareas) /\ PorBorrar(apunte, tareas[p])  BY <1>1, DePuesto DEF Seguro
    <2>2. PorBorrar(apunte, us \o Tail(tareas[p]))  BY <1>2, <1>5, <2>1, PorBorrarSigue
    <2> QED  BY <1>2, <2>2
  <1>8. ASSUME NEW q \in Cuentas, saldo[q] + Pendiente(apunte, tareas[p], q) = Debe(apunte, q)
        PROVE  saldo'[q] + Pendiente(apunte', us \o Tail(tareas[p]), q) = Debe(apunte', q)
    <2>0. apunte \in Tabla /\ tareas[p] # <<>>  BY <1>1, <1>2, DePuesto
    <2>1. /\ Pendiente(apunte, us \o Tail(tareas[p]), q)
               = Pendiente(apunte, us, q) + Pendiente(apunte, Tail(tareas[p]), q)
          /\ Pendiente(apunte, tareas[p], q)
               = Peso(apunte, Head(tareas[p]), q) + Pendiente(apunte, Tail(tareas[p]), q)
          /\ Pendiente(apunte, us, q) \in Int /\ Pendiente(apunte, Tail(tareas[p]), q) \in Int
          /\ Peso(apunte, Head(tareas[p]), q) \in Int
      BY <1>1, <2>0, Cola
    <2>2. Peso(apunte, Head(tareas[p]), q) = IF Cae(c, q) THEN n ELSE 0  BY <1>2 DEF Peso
    <2>3. (IF q = c THEN n ELSE 0) + Pendiente(apunte, us, q) = (IF Cae(c, q) THEN n ELSE 0)
      BY <1>4, <2>0
    <2>4. saldo'[q] = saldo[q] + (IF q = c THEN n ELSE 0) /\ saldo[q] \in Int
      <3>1. saldo \in [Cuentas -> Int] /\ leido[p] = saldo[c]
        BY <1>1, <1>2 DEF Tipos, TypeOK, Seguro, LeeBien
      <3>2. CASE q = c  BY <1>2, <3>1, <3>2
      <3>3. CASE q # c  BY <1>2, <3>1, <3>3
      <3> QED  BY <3>2, <3>3
    <2> DEFINE A == Pendiente(apunte, us, q)
               B == Pendiente(apunte, Tail(tareas[p]), q)
               P == Peso(apunte, Head(tareas[p]), q)
               d == IF q = c THEN n ELSE 0
    <2>5. d \in Int /\ d + A = P /\ saldo'[q] = saldo[q] + d  BY <2>2, <2>3, <2>4
    <2>6. Pendiente(apunte, us \o Tail(tareas[p]), q) = A + B /\ saldo[q] + (P + B) = Debe(apunte, q)
      BY <1>8, <2>1
    <2>7. A \in Int /\ B \in Int /\ P \in Int  BY <2>1
    <2> HIDE DEF A, B, P, d
    <2>8. saldo'[q] + (A + B) = Debe(apunte, q)  BY <2>4, <2>5, <2>6, <2>7
    <2> QED  BY <1>2, <2>6, <2>8
  <1> QED  BY <1>2, <1>4, <1>5, <1>6, <1>7, <1>8, SigueBien

LEMMA BorraApunteTipos ==
  ASSUME Tipos, NEW p \in Puestos, BorraApunte(p)
  PROVE  \E i \in Ids :
           /\ Tipos' /\ i = Head(tareas[p]).id /\ apunte' = [apunte EXCEPT ![i] = Nada]
           /\ apunte' \in Tabla
           /\ \A q : Debe(apunte', q) = Debe(apunte, q) - Vale(apunte[i], q) + Vale(Nada, q)
           /\ tareas'[p] = <<>> \o Tail(tareas[p]) /\ leido'[p] = Nada /\ obra'[p] = obra[p]
           /\ tareas[p] # <<>> /\ Head(tareas[p]).hace = "borra"
           /\ saldo' = saldo /\ fallos' = fallos
  <1> DEFINE t == Head(tareas[p])
             i == t.id
  <1>1. /\ tareas[p] # <<>> /\ t.hace = "borra" /\ apunte' = [apunte EXCEPT ![i] = Nada] /\ Sigue(p, <<>>)
        /\ UNCHANGED <<obra, sesion, fallos>> /\ saldo' = saldo /\ ultimo' = ultimo /\ leido' = leido
    BY DEF BorraApunte, Toca
  <1>2. apunte \in Tabla /\ t \in Tareas /\ leido[p] = Nada  BY <1>1, DePuesto
  <1>3. i \in Ids
    <2> HIDE DEF t
    <2> QED  BY <1>1, <1>2 DEF Tareas, PonCeros
  <1>4. apunte' \in Tabla /\ \A q : Debe(apunte', q) = Debe(apunte, q) - Vale(apunte[i], q) + Vale(Nada, q)
    <2>1. Nada \in Filas \cup {Nada}  OBVIOUS
    <2> HIDE DEF i
    <2> DEFINE bp == [apunte EXCEPT ![i] = Nada]
    <2>2. apunte' = bp  BY <1>1
    <2>3. bp \in Tabla /\ \A q : Debe(bp, q) = Debe(apunte, q) - Vale(apunte[i], q) + Vale(Nada, q)
      BY <1>2, <1>3, <2>1, DebeTras
    <2> HIDE DEF bp
    <2> QED  BY <2>2, <2>3
  <1>5. i = Head(tareas[p]).id /\ Head(tareas[p]).hace = "borra"  BY <1>1
  <1> HIDE DEF t, i
  <1>6. leido' = [leido EXCEPT ![p] = Nada]  BY <1>1, <1>2 DEF Tipos, TypeOK
  <1>7. saldo' \in [Cuentas -> Int] /\ ultimo' \in 0 .. MaxApuntes  BY <1>1 DEF Tipos, TypeOK
  <1>8. ASSUME NEW j \in Ids, j > ultimo' PROVE apunte'[j] = Nada
    <2>1. apunte[j] = Nada  BY <1>1, <1>8 DEF Tipos, TypeOK
    <2> QED  BY <1>1, <1>2, <2>1 DEF Tabla
  <1>9. Tipos' /\ tareas'[p] = <<>> \o Tail(tareas[p]) /\ leido'[p] = Nada /\ obra'[p] = obra[p]
    <2>1. <<>> \in Seq(Tareas)  OBVIOUS
    <2> QED  BY <1>1, <1>4, <1>6, <1>7, <1>8, <2>1, SigueTipos
  <1> QED  BY <1>1, <1>3, <1>4, <1>5, <1>9

\* A line removed, of an account that its balance no longer counts.
LEMMA BorraApunteBien ==
  ASSUME IInvAsientos, NEW p \in Puestos, \A r \in Puestos : r = p, BorraApunte(p)
  PROVE  IInvAsientos'
  <1>1. Tipos /\ Seguro(p)  BY DEF IInvAsientos
  <1>2. PICK i \in Ids :
          /\ Tipos' /\ i = Head(tareas[p]).id /\ apunte' = [apunte EXCEPT ![i] = Nada]
          /\ apunte' \in Tabla
          /\ \A q : Debe(apunte', q) = Debe(apunte, q) - Vale(apunte[i], q) + Vale(Nada, q)
          /\ tareas'[p] = <<>> \o Tail(tareas[p]) /\ leido'[p] = Nada /\ obra'[p] = obra[p]
          /\ tareas[p] # <<>> /\ Head(tareas[p]).hace = "borra"
          /\ saldo' = saldo /\ fallos' = fallos
    BY <1>1, BorraApunteTipos
  <1> DEFINE t == Head(tareas[p])
             r == Tail(tareas[p])
  <1>3. /\ tareas[p] \in Seq(Tareas) /\ apunte \in Tabla /\ r \in Seq(Tareas)
        /\ t = tareas[p][1] /\ 1 \in 1 .. Len(tareas[p])
        /\ obra[p] \in {"asiento", "recalculo"}
    BY <1>1, <1>2, DePuesto
  <1>4. obra[p] = "asiento" /\ Solo(tareas[p], {"saldo", "borra", "inserta"}) /\ PorBorrar(apunte, tareas[p])
    <2>1. tareas[p] # <<PonCeros>>  BY <1>2 DEF PonCeros
    <2>2. ~Solo(tareas[p], {"saldo", "lee"})  BY <1>2, <1>3 DEF Solo
    <2> QED  BY <1>1, <1>3, <2>1, <2>2 DEF Seguro, Ordenes
  <1>5. <<>> \o r = r /\ <<>> \in Seq(Tareas) /\ Solo(<<>>, {"saldo", "lee"}) /\ Solo(<<>>, {"saldo"})
    BY <1>3, Ninguna
  <1> HIDE DEF t, r
  <1>6. /\ PorBorrar(apunte, r)
         /\ \A n \in 1 .. Len(r) : r[n].hace = "borra" => r[n].id # i
    BY <1>2, <1>3, <1>4, <1>5, PorBorrarSigue DEF r, t
  <1>7. \A n \in 1 .. Len(r) : r[n] \in Tareas  BY <1>3
  <1>8. \A n \in 1 .. Len(r) : r[n].hace = "borra" => r[n].id \in Ids /\ apunte'[r[n].id] = apunte[r[n].id]
    <2> SUFFICES ASSUME NEW n \in 1 .. Len(r), r[n].hace = "borra"
                 PROVE  r[n].id \in Ids /\ apunte'[r[n].id] = apunte[r[n].id]
      OBVIOUS
    <2>1. r[n].id \in Ids  BY <1>7 DEF Tareas, PonCeros
    <2> QED  BY <1>2, <1>3, <1>6, <2>1 DEF Tabla
  <1>9. PorBorrar(apunte', r)  BY <1>6, <1>8 DEF PorBorrar
  <1>10. Solo(r, {"saldo", "borra", "inserta"})
    <2>1. Solo(<<>>, {"saldo", "borra", "inserta"})  BY Ninguna
    <2>2. Solo(<<>> \o Tail(tareas[p]), {"saldo", "borra", "inserta"})
      BY <1>2, <1>3, <1>4, <1>5, <2>1, SoloSigue
    <2> QED  BY <1>5, <2>2 DEF r
  <1>11. ASSUME NEW q \in Cuentas PROVE Pendiente(apunte', r, q) = Pendiente(apunte, r, q)
    <2>1. ASSUME NEW n \in DOMAIN r PROVE Peso(apunte', r[n], q) = Peso(apunte, r[n], q)
      <3>1. n \in 1 .. Len(r)  BY <1>3
      <3>2. r[n].hace \in {"saldo", "borra", "inserta"}  BY <1>10, <3>1 DEF Solo
      <3>3. r[n].hace = "borra" => apunte'[r[n].id] = apunte[r[n].id]  BY <1>8, <3>1
      <3> QED  BY <3>2, <3>3 DEF Peso
    <2> QED  BY <2>1, PendienteMismo
  <1>12. ASSUME NEW q \in Cuentas, saldo[q] + Pendiente(apunte, tareas[p], q) = Debe(apunte, q)
         PROVE  saldo'[q] + Pendiente(apunte', r, q) = Debe(apunte', q)
    <2>1. Pendiente(apunte, tareas[p], q) = Peso(apunte, t, q) + Pendiente(apunte, r, q)
      BY <1>2, <1>3, PendienteCabeza DEF t, r
    <2>2. Peso(apunte, t, q) = Vale(apunte[i], q)  BY <1>2 DEF Peso, t
    <2>3. Vale(Nada, q) = 0  BY DEF Vale
    <2>4. apunte[i] \in Filas \cup {Nada}  BY <1>2, <1>3 DEF Tabla
    <2>5. Vale(apunte[i], q) \in Int /\ Debe(apunte, q) \in Int /\ Pendiente(apunte, r, q) \in Int /\ saldo[q] \in Int
      BY <1>1, <1>3, <2>4, ValeTipo, DebeTipo, PesosTipo DEF Tipos, TypeOK
    <2>6. Debe(apunte', q) = Debe(apunte, q) - Vale(apunte[i], q) + Vale(Nada, q)  BY <1>2
    <2>7. Pendiente(apunte', r, q) = Pendiente(apunte, r, q) /\ saldo'[q] = saldo[q]  BY <1>2, <1>11
    <2> DEFINE V == Vale(apunte[i], q)
               P == Pendiente(apunte, r, q)
               D == Debe(apunte, q)
    <2>8. saldo[q] + (V + P) = D /\ Debe(apunte', q) = D - V + 0  BY <1>12, <2>1, <2>2, <2>3, <2>6
    <2>9. V \in Int /\ P \in Int /\ D \in Int  BY <2>5
    <2> HIDE DEF V, P, D
    <2>10. saldo[q] + P = Debe(apunte', q)  BY <2>5, <2>8, <2>9
    <2> QED  BY <2>7, <2>10 DEF P
  <1>13. /\ PorBorrar(apunte', <<>> \o Tail(tareas[p]))
         /\ \A q \in Cuentas :
              saldo[q] + Pendiente(apunte, tareas[p], q) = Debe(apunte, q) =>
                saldo'[q] + Pendiente(apunte', <<>> \o Tail(tareas[p]), q) = Debe(apunte', q)
    BY <1>5, <1>9, <1>12 DEF r
  <1>14. tareas[p] # <<PonCeros>>  BY <1>2 DEF PonCeros
  <1> QED  BY <1>2, <1>5, <1>13, <1>14, SigueBien

LEMMA InsertaApunteTipos ==
  ASSUME Tipos, NEW p \in Puestos, InsertaApunte(p)
  PROVE  \E i \in Ids :
           /\ Tipos' /\ apunte' = [apunte EXCEPT ![i] = Head(tareas[p]).fila] /\ apunte[i] = Nada
           /\ Head(tareas[p]).fila \in Filas /\ apunte' \in Tabla
           /\ \A q : Debe(apunte', q) = Debe(apunte, q) - Vale(Nada, q) + Vale(Head(tareas[p]).fila, q)
           /\ tareas'[p] = <<>> \o Tail(tareas[p]) /\ leido'[p] = Nada /\ obra'[p] = obra[p]
           /\ tareas[p] # <<>> /\ Head(tareas[p]).hace = "inserta"
           /\ saldo' = saldo /\ fallos' = fallos
  <1> DEFINE t == Head(tareas[p])
             l == t.fila
             i == ultimo + 1
  <1>1. /\ tareas[p] # <<>> /\ t.hace = "inserta" /\ ultimo < MaxApuntes /\ ultimo' = i
        /\ apunte' = [apunte EXCEPT ![i] = l] /\ Sigue(p, <<>>)
        /\ UNCHANGED <<obra, sesion, fallos>> /\ saldo' = saldo /\ leido' = leido
    BY DEF InsertaApunte, Toca
  <1>2. apunte \in Tabla /\ t \in Tareas /\ leido[p] = Nada  BY <1>1, DePuesto
  <1>3. l \in Filas
    <2> HIDE DEF t
    <2> QED  BY <1>1, <1>2 DEF Tareas, PonCeros
  <1>4. i \in Ids /\ apunte[i] = Nada /\ i \in 0 .. MaxApuntes /\ ultimo \in Nat
    <2>1. ultimo \in 0 .. MaxApuntes /\ MaxApuntes \in Nat  BY CotaAssumption DEF Tipos, TypeOK
    <2>2. i \in Ids /\ i > ultimo /\ i \in 0 .. MaxApuntes  BY <1>1, <2>1 DEF Ids
    <2>3. \A j \in Ids : j > ultimo => apunte[j] = Nada  BY DEF Tipos, TypeOK
    <2> HIDE DEF i
    <2> QED  BY <2>1, <2>2, <2>3
  <1>5. Head(tareas[p]).hace = "inserta" /\ l = Head(tareas[p]).fila  BY <1>1
  <1> HIDE DEF t, l
  <1>6. apunte' \in Tabla /\ \A q : Debe(apunte', q) = Debe(apunte, q) - Vale(Nada, q) + Vale(l, q)
    <2>1. l \in Filas \cup {Nada}  BY <1>3
    <2> HIDE DEF i
    <2> DEFINE bp == [apunte EXCEPT ![i] = l]
    <2>2. apunte' = bp  BY <1>1
    <2>3. i \in Ids /\ apunte \in Tabla  BY <1>2, <1>4
    <2>4. bp \in Tabla /\ \A q : Debe(bp, q) = Debe(apunte, q) - Vale(apunte[i], q) + Vale(l, q)
      BY <2>1, <2>3, DebeTras
    <2> HIDE DEF bp
    <2> QED  BY <1>4, <2>2, <2>4
  <1>7. leido' = [leido EXCEPT ![p] = Nada]  BY <1>1, <1>2 DEF Tipos, TypeOK
  <1>8. saldo' \in [Cuentas -> Int] /\ ultimo' \in 0 .. MaxApuntes  BY <1>1, <1>4 DEF Tipos, TypeOK
  <1>9. ASSUME NEW j \in Ids, j > ultimo' PROVE apunte'[j] = Nada
    <2>1. j > ultimo /\ j # i
      <3>1. j \in Nat  BY DEF Ids
      <3> QED  BY <1>1, <1>4, <1>9, <3>1
    <2>2. apunte[j] = Nada  BY <2>1 DEF Tipos, TypeOK
    <2> HIDE DEF i
    <2> QED  BY <1>1, <1>2, <2>1, <2>2 DEF Tabla
  <1> HIDE DEF i
  <1>10. Tipos' /\ tareas'[p] = <<>> \o Tail(tareas[p]) /\ leido'[p] = Nada /\ obra'[p] = obra[p]
    <2>1. <<>> \in Seq(Tareas)  OBVIOUS
    <2> QED  BY <1>1, <1>6, <1>7, <1>8, <1>9, <2>1, SigueTipos
  <1> QED  BY <1>1, <1>3, <1>4, <1>5, <1>6, <1>10

\* A line inserted, of an account that its balance counts already.
LEMMA InsertaApunteBien ==
  ASSUME IInvAsientos, NEW p \in Puestos, \A r \in Puestos : r = p, InsertaApunte(p)
  PROVE  IInvAsientos'
  <1>1. Tipos /\ Seguro(p)  BY DEF IInvAsientos
  <1>2. PICK i \in Ids :
          /\ Tipos' /\ apunte' = [apunte EXCEPT ![i] = Head(tareas[p]).fila] /\ apunte[i] = Nada
          /\ Head(tareas[p]).fila \in Filas /\ apunte' \in Tabla
          /\ \A q : Debe(apunte', q) = Debe(apunte, q) - Vale(Nada, q) + Vale(Head(tareas[p]).fila, q)
          /\ tareas'[p] = <<>> \o Tail(tareas[p]) /\ leido'[p] = Nada /\ obra'[p] = obra[p]
          /\ tareas[p] # <<>> /\ Head(tareas[p]).hace = "inserta"
          /\ saldo' = saldo /\ fallos' = fallos
    BY <1>1, InsertaApunteTipos
  <1> DEFINE t == Head(tareas[p])
             r == Tail(tareas[p])
             l == Head(tareas[p]).fila
  <1>3. /\ tareas[p] \in Seq(Tareas) /\ apunte \in Tabla /\ r \in Seq(Tareas)
        /\ t = tareas[p][1] /\ 1 \in 1 .. Len(tareas[p]) /\ l \in Filas \cup {Nada}
        /\ obra[p] \in {"asiento", "recalculo"}
    BY <1>1, <1>2, DePuesto
  <1>4. t.hace = "inserta"  BY <1>2
  <1>5. <<>> \o r = r /\ <<>> \in Seq(Tareas) /\ Solo(<<>>, {"saldo", "lee"}) /\ Solo(<<>>, {"saldo"})
    BY <1>3, Ninguna
  <1> HIDE DEF t, r, l
  <1>6. obra[p] = "asiento" /\ Solo(tareas[p], {"saldo", "borra", "inserta"}) /\ PorBorrar(apunte, tareas[p])
    <2>1. tareas[p] # <<PonCeros>>  BY <1>2 DEF PonCeros
    <2>2. ~Solo(tareas[p], {"saldo", "lee"})  BY <1>2, <1>3, <1>4 DEF Solo, t
    <2> QED  BY <1>1, <1>3, <2>1, <2>2 DEF Seguro, Ordenes
  <1>7. PorBorrar(apunte, r)  BY <1>2, <1>3, <1>5, <1>6, PorBorrarSigue DEF r
  <1>8. ASSUME NEW n \in 1 .. Len(r), r[n].hace = "borra"
         PROVE  r[n].id \in Ids /\ apunte'[r[n].id] = apunte[r[n].id]
    <2>1. r[n] \in Tareas  BY <1>3
    <2>2. r[n].id \in Ids  BY <1>8, <2>1 DEF Tareas, PonCeros
    <2>3. apunte[r[n].id] # Nada  BY <1>7, <1>8 DEF PorBorrar
    <2>4. r[n].id # i  BY <1>2, <2>3
    <2> QED  BY <1>2, <1>3, <2>2, <2>4 DEF Tabla
  <1>9. PorBorrar(apunte', r)  BY <1>7, <1>8 DEF PorBorrar
  <1>10. Solo(r, {"saldo", "borra", "inserta"})
    <2>1. Solo(<<>>, {"saldo", "borra", "inserta"})  BY Ninguna
    <2>2. Solo(<<>> \o Tail(tareas[p]), {"saldo", "borra", "inserta"})
      BY <1>2, <1>3, <1>6, <1>5, <2>1, SoloSigue
    <2> QED  BY <1>5, <2>2 DEF r
  <1>11. ASSUME NEW q \in Cuentas PROVE Pendiente(apunte', r, q) = Pendiente(apunte, r, q)
    <2>1. ASSUME NEW n \in DOMAIN r PROVE Peso(apunte', r[n], q) = Peso(apunte, r[n], q)
      <3>1. n \in 1 .. Len(r)  BY <1>3
      <3>2. r[n].hace \in {"saldo", "borra", "inserta"}  BY <1>10, <3>1 DEF Solo
      <3>3. r[n].hace = "borra" => apunte'[r[n].id] = apunte[r[n].id]  BY <1>8, <3>1
      <3> QED  BY <3>2, <3>3 DEF Peso
    <2> QED  BY <2>1, PendienteMismo
  <1>12. ASSUME NEW q \in Cuentas, saldo[q] + Pendiente(apunte, tareas[p], q) = Debe(apunte, q)
         PROVE  saldo'[q] + Pendiente(apunte', r, q) = Debe(apunte', q)
    <2> DEFINE V == Vale(l, q)
               P == Pendiente(apunte, r, q)
               D == Debe(apunte, q)
    <2>1. Pendiente(apunte, tareas[p], q) = Peso(apunte, t, q) + P
      BY <1>2, <1>3, PendienteCabeza DEF t, r
    <2>2. Peso(apunte, t, q) = -V  BY <1>2 DEF Peso, t, l
    <2>3. Vale(Nada, q) = 0  BY DEF Vale
    <2>4. V \in Int /\ D \in Int /\ P \in Int /\ saldo[q] \in Int
      BY <1>1, <1>2, <1>3, ValeTipo, DebeTipo, PesosTipo DEF Tipos, TypeOK
    <2>5. Debe(apunte', q) = D - 0 + V  BY <1>2, <2>3 DEF l
    <2>6. Pendiente(apunte', r, q) = P /\ saldo'[q] = saldo[q]  BY <1>2, <1>11
    <2>7. saldo[q] + (-V + P) = D  BY <1>12, <2>1, <2>2
    <2> HIDE DEF V, P, D
    <2>8. saldo[q] + P = Debe(apunte', q)  BY <2>4, <2>5, <2>7
    <2> QED  BY <2>6, <2>8
  <1>13. /\ PorBorrar(apunte', <<>> \o Tail(tareas[p]))
         /\ \A q \in Cuentas :
              saldo[q] + Pendiente(apunte, tareas[p], q) = Debe(apunte, q) =>
                saldo'[q] + Pendiente(apunte', <<>> \o Tail(tareas[p]), q) = Debe(apunte', q)
    BY <1>5, <1>9, <1>12 DEF r
  <1>14. tareas[p] # <<PonCeros>>  BY <1>2 DEF PonCeros
  <1> QED  BY <1>2, <1>5, <1>13, <1>14, SigueBien

LEMMA PoneACeroTipos ==
  ASSUME Tipos, NEW p \in Puestos, PoneACero(p)
  PROVE  \E us \in Seq(Tareas) :
           /\ Tipos' /\ Sigue(p, us)
           /\ us = SetToSeq({LeeAsiento(a) : a \in {b \in Asientos : De(apunte, b) # {}}})
           /\ tareas'[p] = us \o Tail(tareas[p]) /\ leido'[p] = Nada /\ obra'[p] = obra[p]
           /\ tareas[p] # <<>> /\ Head(tareas[p]).hace = "ceros"
           /\ saldo' = [q \in Cuentas |-> 0] /\ apunte' = apunte
  <1> DEFINE us == SetToSeq({LeeAsiento(a) : a \in {b \in Asientos : De(apunte, b) # {}}})
  <1>2. /\ tareas[p] # <<>> /\ Head(tareas[p]).hace = "ceros" /\ Sigue(p, us)
        /\ saldo' = [q \in Cuentas |-> 0]
        /\ UNCHANGED <<obra, sesion, fallos>> /\ apunte' = apunte /\ ultimo' = ultimo /\ leido' = leido
    <2>1. us = SetToSeq({LeeAsiento(a) : a \in {b \in Asientos : Existe(b)}})
      BY DEF De, Existe, ApuntesDe
    <2> HIDE DEF us
    <2> QED  BY <2>1 DEF PoneACero, Toca
  <1>3. /\ tareas[p] \in Seq(Tareas) /\ apunte \in Tabla /\ Head(tareas[p]) = tareas[p][1]
        /\ 1 \in 1 .. Len(tareas[p]) /\ leido[p] = Nada /\ obra[p] \in {"asiento", "recalculo"}
    BY <1>2, DePuesto
  <1>4. us \in Seq(Tareas)  BY <1>3, LeenTodo
  <1> HIDE DEF us
  <1>5. leido' = [leido EXCEPT ![p] = Nada]  BY <1>2, <1>3 DEF Tipos, TypeOK
  <1>6. /\ saldo' \in [Cuentas -> Int] /\ ultimo' \in 0 .. MaxApuntes /\ apunte' \in Tabla
        /\ \A j \in Ids : j > ultimo' => apunte'[j] = Nada
    BY <1>2, <1>3 DEF Tipos, TypeOK
  <1>7. Tipos' /\ tareas'[p] = us \o Tail(tareas[p]) /\ leido'[p] = Nada /\ obra'[p] = obra[p]
    BY <1>2, <1>4, <1>5, <1>6, SigueTipos
  <1>8. us = SetToSeq({LeeAsiento(a) : a \in {b \in Asientos : De(apunte, b) # {}}})  BY DEF us
  <1> QED  BY <1>2, <1>4, <1>7, <1>8

\* The balances are set to zero, and every line is still to be added.
LEMMA PoneACeroBien ==
  ASSUME IInvAsientos, NEW p \in Puestos, \A r \in Puestos : r = p, PoneACero(p)
  PROVE  IInvAsientos'
  <1>1. Tipos /\ Seguro(p)  BY DEF IInvAsientos
  <1>2. PICK us \in Seq(Tareas) :
          /\ Tipos' /\ Sigue(p, us)
          /\ us = SetToSeq({LeeAsiento(a) : a \in {b \in Asientos : De(apunte, b) # {}}})
          /\ tareas'[p] = us \o Tail(tareas[p]) /\ leido'[p] = Nada /\ obra'[p] = obra[p]
          /\ tareas[p] # <<>> /\ Head(tareas[p]).hace = "ceros"
          /\ saldo' = [q \in Cuentas |-> 0] /\ apunte' = apunte
    BY <1>1, PoneACeroTipos
  <1>3. /\ apunte \in Tabla /\ Head(tareas[p]) = tareas[p][1] /\ 1 \in 1 .. Len(tareas[p])
        /\ obra[p] \in {"asiento", "recalculo"}
    BY <1>1, <1>2, DePuesto
  <1>4. us \in Seq(Tareas) /\ Solo(us, {"lee"}) /\ \A q : Pendiente(apunte, us, q) = Debe(apunte, q)
    BY <1>2, <1>3, LeenTodo DEF Solo
  <1>5. obra[p] = "recalculo" /\ tareas[p] = <<PonCeros>>
    <2>1. ~Solo(tareas[p], {"saldo", "lee"}) /\ ~Solo(tareas[p], {"saldo", "borra", "inserta"})
      BY <1>2, <1>3 DEF Solo
    <2> QED  BY <1>1, <1>3, <2>1 DEF Seguro, Ordenes
  <1>6. us \o Tail(tareas[p]) = us
    <2>1. Tail(tareas[p]) = <<>>  BY <1>5
    <2>2. us \o <<>> = us  BY <1>4
    <2> QED  BY <2>1, <2>2
  <1>7. Tipos' /\ tareas'[p] = us /\ leido'[p] = Nada /\ obra'[p] = "recalculo"  BY <1>2, <1>5, <1>6
  <1>8. Solo(us, {"saldo", "lee"}) /\ PorBorrar(apunte', us)  BY <1>4 DEF Solo, PorBorrar
  <1>9. ASSUME NEW q \in Cuentas PROVE saldo'[q] + Pendiente(apunte', us, q) = Debe(apunte', q)
    <2>1. Debe(apunte, q) \in Int  BY <1>3, DebeTipo
    <2>2. saldo'[q] = 0 /\ Pendiente(apunte', us, q) = Debe(apunte, q)  BY <1>2, <1>4
    <2> QED  BY <1>2, <2>1, <2>2
  <1>10. Ordenes(p)' /\ Cuadra(p)'  BY <1>7, <1>8, <1>9 DEF Ordenes, Cuadra
  <1>11. Seguro(p)'  BY <1>7, <1>8, <1>10 DEF Seguro, LeeBien
  <1> QED  BY <1>7, <1>11 DEF IInvAsientos

LEMMA SumaAsientoTipos ==
  ASSUME Tipos, NEW p \in Puestos, SumaAsiento(p)
  PROVE  \E us \in Seq(Tareas) :
           /\ Tipos' /\ Sigue(p, us)
           /\ Solo(us, {"saldo"})
           /\ \A q : Pendiente(apunte, us, q) = Peso(apunte, Head(tareas[p]), q)
           /\ tareas'[p] = us \o Tail(tareas[p]) /\ leido'[p] = Nada /\ obra'[p] = obra[p]
           /\ obra[p] \in {"asiento", "recalculo"}
           /\ tareas[p] # <<>> /\ Head(tareas[p]).hace = "lee"
           /\ saldo' = saldo /\ apunte' = apunte /\ fallos' = fallos
  <1> DEFINE t == Head(tareas[p])
             a == t.asiento
             us == [n \in DOMAIN Leidos(a) |->
                      ActSaldo(apunte[Leidos(a)[n]].cuenta, apunte[Leidos(a)[n]].importe)]
  <1>2. /\ tareas[p] # <<>> /\ t.hace = "lee" /\ Sigue(p, us)
        /\ UNCHANGED <<obra, sesion, fallos>>
        /\ saldo' = saldo /\ apunte' = apunte /\ ultimo' = ultimo /\ leido' = leido
    BY DEF SumaAsiento, Toca, bd
  <1>3. /\ tareas[p] \in Seq(Tareas) /\ apunte \in Tabla /\ t \in Tareas /\ t = tareas[p][1]
        /\ 1 \in 1 .. Len(tareas[p]) /\ leido[p] = Nada /\ obra[p] \in {"asiento", "recalculo"}
    BY <1>2, DePuesto
  <1> HIDE DEF t
  <1>4. a \in Asientos  BY <1>2, <1>3 DEF Tareas, PonCeros
  <1> HIDE DEF a
  <1>5. /\ us \in Seq(Tareas) /\ Solo(us, {"saldo"})
        /\ \A q : Pendiente(apunte, us, q) = Peso(apunte, LeeAsiento(a), q)
    BY <1>3, <1>4, LineasEs DEF Solo
  <1> HIDE DEF us
  <1>6. \A q : Pendiente(apunte, us, q) = Peso(apunte, t, q)
    BY <1>2, <1>5 DEF Peso, LeeAsiento, a
  <1>7. leido' = [leido EXCEPT ![p] = Nada]  BY <1>2, <1>3 DEF Tipos, TypeOK
  <1>8. Tipos' /\ tareas'[p] = us \o Tail(tareas[p]) /\ leido'[p] = Nada /\ obra'[p] = obra[p]
    <2>1. /\ saldo' \in [Cuentas -> Int] /\ ultimo' \in 0 .. MaxApuntes /\ apunte' \in Tabla
          /\ \A j \in Ids : j > ultimo' => apunte'[j] = Nada
      BY <1>2, <1>3 DEF Tipos, TypeOK
    <2> QED  BY <1>2, <1>5, <1>7, <2>1, SigueTipos
  <1>9. \A q : Pendiente(apunte, us, q) = Peso(apunte, Head(tareas[p]), q)  BY <1>6 DEF t
  <1>10. Head(tareas[p]).hace = "lee"  BY <1>2 DEF t
  <1> QED  BY <1>2, <1>3, <1>5, <1>8, <1>9, <1>10

\* An entry is read: its lines are to be added in its place.
LEMMA SumaAsientoBien ==
  ASSUME IInvAsientos, NEW p \in Puestos, \A r \in Puestos : r = p, SumaAsiento(p)
  PROVE  IInvAsientos'
  <1>1. Tipos /\ Seguro(p)  BY DEF IInvAsientos
  <1>2. PICK us \in Seq(Tareas) :
          /\ Tipos' /\ Sigue(p, us)
          /\ Solo(us, {"saldo"})
          /\ \A q : Pendiente(apunte, us, q) = Peso(apunte, Head(tareas[p]), q)
          /\ tareas'[p] = us \o Tail(tareas[p]) /\ leido'[p] = Nada /\ obra'[p] = obra[p]
          /\ obra[p] \in {"asiento", "recalculo"}
          /\ tareas[p] # <<>> /\ Head(tareas[p]).hace = "lee"
          /\ saldo' = saldo /\ apunte' = apunte /\ fallos' = fallos
    BY <1>1, SumaAsientoTipos
  <1>3. tareas[p] \in Seq(Tareas) /\ apunte \in Tabla  BY <1>1, DePuesto
  <1>4. tareas[p] # <<PonCeros>>  BY <1>2 DEF PonCeros
  <1>5. Solo(us, {"saldo", "lee"})  BY <1>2 DEF Solo
  <1>6. PorBorrar(apunte', us \o Tail(tareas[p]))
    <2>1. PorBorrar(apunte, tareas[p])  BY <1>1 DEF Seguro
    <2>2. PorBorrar(apunte, us \o Tail(tareas[p]))  BY <1>2, <1>3, <1>5, <2>1, PorBorrarSigue
    <2> QED  BY <1>2, <2>2
  <1>7. ASSUME NEW q \in Cuentas, saldo[q] + Pendiente(apunte, tareas[p], q) = Debe(apunte, q)
         PROVE  saldo'[q] + Pendiente(apunte', us \o Tail(tareas[p]), q) = Debe(apunte', q)
    <2>1. /\ Pendiente(apunte, us \o Tail(tareas[p]), q)
               = Pendiente(apunte, us, q) + Pendiente(apunte, Tail(tareas[p]), q)
          /\ Pendiente(apunte, tareas[p], q)
               = Peso(apunte, Head(tareas[p]), q) + Pendiente(apunte, Tail(tareas[p]), q)
      BY <1>1, <1>2, <1>3, Cola
    <2>2. Pendiente(apunte, us, q) = Peso(apunte, Head(tareas[p]), q)  BY <1>2
    <2> QED  BY <1>2, <1>7, <2>1, <2>2
  <1> QED  BY <1>2, <1>4, <1>5, <1>6, <1>7, SigueBien

LEMMA AcabaTipos ==
  ASSUME Tipos, NEW p \in Puestos, Acaba(p)
  PROVE  /\ Tipos' /\ leido[p] = Nada /\ leido'[p] = Nada /\ obra'[p] = "libre"
         /\ tareas[p] = <<>> /\ tareas' = tareas /\ saldo' = saldo /\ apunte' = apunte /\ fallos' = fallos
  <1>1. /\ tareas[p] = <<>> /\ obra' = [obra EXCEPT ![p] = "libre"]
        /\ saldo' = saldo /\ apunte' = apunte /\ ultimo' = ultimo /\ sesion' = sesion
        /\ tareas' = tareas /\ leido' = leido /\ fallos' = fallos
    BY DEF Acaba, bd
  <1>2. leido[p] = Nada  BY <1>1 DEF Tipos, AlLeer
  <1>3. TypeOK' /\ obra'[p] = "libre"  BY <1>1, <1>2 DEF Tipos, TypeOK
  <1>4. \A r \in Puestos : AlLeer(r)'  BY <1>1 DEF AlLeer, Tipos
  <1> QED  BY <1>1, <1>2, <1>3, <1>4 DEF Tipos

LEMMA AcabaBien ==
  ASSUME IInvAsientos, NEW p \in Puestos, \A r \in Puestos : r = p, Acaba(p)
  PROVE  IInvAsientos'
  <1>1. Tipos /\ Seguro(p)  BY DEF IInvAsientos
  <1>2. /\ Tipos' /\ leido[p] = Nada /\ leido'[p] = Nada /\ obra'[p] = "libre"
        /\ tareas[p] = <<>> /\ tareas' = tareas /\ saldo' = saldo /\ apunte' = apunte /\ fallos' = fallos
    BY <1>1, AcabaTipos
  <1>3. tareas[p] # <<PonCeros>>  BY <1>2
  <1>4. Cuadra(p)'
    <2>1. fallos = 0 => \A q \in Cuentas : saldo[q] + Pendiente(apunte, tareas[p], q) = Debe(apunte, q)
      BY <1>1, <1>3 DEF Seguro, Cuadra
    <2> QED  BY <1>2, <2>1 DEF Cuadra
  <1>5. Seguro(p)'  BY <1>1, <1>2, <1>4 DEF Seguro, LeeBien, Ordenes
  <1> QED  BY <1>2, <1>5 DEF IInvAsientos

LEMMA FallaTipos ==
  ASSUME Tipos, NEW p \in Puestos, Falla(p)
  PROVE  Tipos' /\ tareas'[p] = <<>> /\ obra'[p] = "libre" /\ leido'[p] = Nada /\ fallos' # 0
  <1>2. /\ fallos < MaxFallos /\ fallos' = fallos + 1 /\ obra' = [obra EXCEPT ![p] = "libre"]
        /\ tareas' = [tareas EXCEPT ![p] = <<>>] /\ leido' = [leido EXCEPT ![p] = Nada]
        /\ saldo' = saldo /\ apunte' = apunte /\ ultimo' = ultimo /\ sesion' = sesion
    BY DEF Falla, bd
  <1>3. tareas'[p] = <<>> /\ obra'[p] = "libre" /\ leido'[p] = Nada  BY <1>2 DEF Tipos, TypeOK
  <1>4. fallos' \in 0 .. MaxFallos /\ fallos' # 0
    <2>1. fallos \in 0 .. MaxFallos /\ MaxFallos \in Nat  BY CotaAssumption DEF Tipos, TypeOK
    <2> QED  BY <1>2, <2>1
  <1>5. TypeOK'
    <2>1. tareas' \in [Puestos -> Seq(Tareas)]
      <3>1. tareas \in [Puestos -> Seq(Tareas)] /\ <<>> \in Seq(Tareas)  BY DEF Tipos, TypeOK
      <3> QED  BY <1>2, <3>1
    <2>2. obra' \in [Puestos -> {"libre", "asiento", "recalculo"}] /\ leido' \in [Puestos -> Int \cup {Nada}]
      BY <1>2 DEF Tipos, TypeOK
    <2> QED  BY <1>2, <1>3, <1>4, <2>1, <2>2 DEF Tipos, TypeOK
  <1>6. \A r \in Puestos : AlLeer(r)'  BY <1>2, <1>3 DEF AlLeer, Tipos
  <1> QED  BY <1>3, <1>4, <1>5, <1>6 DEF Tipos

LEMMA FallaBien ==
  ASSUME IInvAsientos, NEW p \in Puestos, \A r \in Puestos : r = p, Falla(p)
  PROVE  IInvAsientos'
  <1>1. Tipos' /\ tareas'[p] = <<>> /\ obra'[p] = "libre" /\ leido'[p] = Nada /\ fallos' # 0
    BY FallaTipos DEF IInvAsientos
  <1>2. Seguro(p)'  BY <1>1 DEF Seguro, LeeBien, Ordenes, PorBorrar, Cuadra
  <1> QED  BY <1>1, <1>2 DEF IInvAsientos

-------------------------------------------------------------------------------
(* The theorems.                                                             *)

LEMMA UsuarioTipos ==
  ASSUME Tipos, NEW p \in Puestos, Usuario(p)
  PROVE  Tipos'
  <1>1. apunte \in Tabla /\ PonCeros \in Tareas  BY DePuesto DEF Tareas
  <1> DEFINE dos(a) == IF Simple THEN Quita(a) ELSE <<>>
  <1>2. ASSUME NEW a \in Asientos, NEW e \in Empresas, NEW ls \in Lineas(e)
        PROVE  /\ Pone(a, ls) \in Seq(Tareas) /\ Quita(a) \in Seq(Tareas)
               /\ Quita(a) \o Pone(a, ls) \in Seq(Tareas)
               /\ Quita(a) \o dos(a) \o Pone(a, ls) \in Seq(Tareas)
    <2> DEFINE s == Quita(a)
               t == Pone(a, ls)
               d == dos(a)
    <2>1. s \in Seq(Tareas)  BY <1>1, QuitaEs
    <2>2. t \in Seq(Tareas)  BY <1>1, LineasSon, PoneEs
    <2>3. d \in Seq(Tareas)
      <3> HIDE DEF s
      <3>1. d = IF Simple THEN s ELSE <<>>  BY DEF s
      <3> QED  BY <2>1, <3>1
    <2> HIDE DEF s, t, d
    <2>4. s \o t \in Seq(Tareas) /\ s \o d \o t \in Seq(Tareas)  BY <2>1, <2>2, <2>3
    <2> QED  BY <2>1, <2>2, <2>4 DEF s, t, d
  <1>3. \E e \in Empresas, que \in {"asiento", "recalculo"}, ts \in Seq(Tareas) : Empieza(p, e, que, ts)
    <2>1. CASE NuevoAsiento(p)
      <3>1. PICK e \in Empresas, a \in Asientos : \E ls \in Lineas(e) :
              Empieza(p, e, "asiento", Pone(a, ls))
        BY <2>1 DEF NuevoAsiento
      <3> QED  BY <1>2, <3>1
    <2>2. CASE ModificaAsiento(p)
      <3>1. PICK e \in Empresas, a \in Asientos : \E ls \in Lineas(e) :
              Empieza(p, e, "asiento", Quita(a) \o Pone(a, ls))
        BY <2>2 DEF ModificaAsiento
      <3> QED  BY <1>2, <3>1
    <2>3. CASE BorraAsiento(p)
      <3>1. PICK e \in Empresas, a \in Asientos : Empieza(p, e, "asiento", Quita(a))
        BY <2>3 DEF BorraAsiento
      <3>2. Quita(a) \in Seq(Tareas)  BY <1>1, QuitaEs
      <3> QED  BY <3>1, <3>2
    <2>4. CASE RegenAsiento(p)
      <3>1. PICK e \in Empresas, a \in Asientos : \E ls \in Lineas(e) :
              Empieza(p, e, "asiento", Quita(a) \o dos(a) \o Pone(a, ls))
        BY <2>4 DEF RegenAsiento
      <3> HIDE DEF dos
      <3> QED  BY <1>2, <3>1
    <2>5. CASE RecalcularSaldosCuentas(p)
      <3>1. <<PonCeros>> \in Seq(Tareas)  BY <1>1
      <3> QED  BY <2>5, <3>1 DEF RecalcularSaldosCuentas
    <2> QED  BY <2>1, <2>2, <2>3, <2>4, <2>5 DEF Usuario
  <1>4. obra[p] = "libre"  BY DEF Usuario
  <1> QED  BY <1>3, <1>4, EmpiezaTipos

LEMMA TiposAlEmpezar ==
  Init => Tipos
  <1> SUFFICES ASSUME Init PROVE Tipos  OBVIOUS
  <1>1. ultimo \in 0 .. MaxApuntes /\ fallos \in 0 .. MaxFallos  BY CotaAssumption DEF Init
  <1>2. tareas \in [Puestos -> Seq(Tareas)]
    <2>1. <<>> \in Seq(Tareas)  OBVIOUS
    <2> QED  BY <2>1 DEF Init
  <1>3. saldo \in [Cuentas -> Int]  BY DEF Init
  <1>4. TypeOK  BY <1>1, <1>2, <1>3 DEF Init, TypeOK
  <1>5. \A p \in Puestos : AlLeer(p)  BY DEF Init, AlLeer
  <1> QED  BY <1>4, <1>5 DEF Tipos

LEMMA TiposSiguen ==
  Tipos /\ [Next]_vars => Tipos'
  <1> SUFFICES ASSUME Tipos, [Next]_vars PROVE Tipos'  OBVIOUS
  <1>1. ASSUME NEW p \in Puestos, Usuario(p)  PROVE Tipos'  BY <1>1, UsuarioTipos
  <1>2. ASSUME NEW p \in Puestos, Sentencia(p)  PROVE Tipos'
    <2>1. CASE LeeSaldo(p)  BY <2>1, LeeSaldoTipos
    <2>2. CASE GuardaSaldo(p)  BY <2>2, GuardaSaldoTipos
    <2>3. CASE BorraApunte(p)  BY <2>3, BorraApunteTipos
    <2>4. CASE InsertaApunte(p)  BY <2>4, InsertaApunteTipos
    <2>5. CASE PoneACero(p)  BY <2>5, PoneACeroTipos
    <2>6. CASE SumaAsiento(p)  BY <2>6, SumaAsientoTipos
    <2>7. CASE Acaba(p)  BY <2>7, AcabaTipos
    <2> QED  BY <1>2, <2>1, <2>2, <2>3, <2>4, <2>5, <2>6, <2>7 DEF Sentencia
  <1>3. ASSUME NEW p \in Puestos, Falla(p)  PROVE Tipos'  BY <1>3, FallaTipos
  <1>4. CASE UNCHANGED vars
    <2>1. TypeOK'  BY <1>4 DEF Tipos, TypeOK, vars, bd, trabajo
    <2>2. \A p \in Puestos : AlLeer(p)'  BY <1>4 DEF Tipos, AlLeer, vars, bd, trabajo
    <2> QED  BY <2>1, <2>2 DEF Tipos
  <1> QED  BY <1>1, <1>2, <1>3, <1>4 DEF Next

\* The types of the entries and of what each workstation is doing, whatever the workstations
\* and the companies, and whether documents remove their entry once or twice.
THEOREM TiposDeAsientos == Spec => []TypeOK
  <1>1. Spec => []Tipos  BY TiposAlEmpezar, TiposSiguen, PTL DEF Spec
  <1>2. Tipos => TypeOK  BY DEF Tipos
  <1> QED  BY <1>1, <1>2, PTL

\* One workstation, one company, and documents that remove their entry once.
UnPuestoUnaEmpresa == (\A p, r \in Puestos : p = r) /\ (\E e : Empresas = {e}) /\ ~Simple

LEMMA AlEmpezar ==
  Init => IInvAsientos
  <1> SUFFICES ASSUME Init PROVE IInvAsientos  OBVIOUS
  <1>1. Tipos  BY TiposAlEmpezar
  <1>2. ASSUME NEW p \in Puestos PROVE Seguro(p)
    <2>1. tareas[p] = <<>> /\ obra[p] = "libre" /\ leido[p] = Nada  BY DEF Init
    <2>2. ASSUME NEW q \in Cuentas PROVE saldo[q] + Pendiente(apunte, tareas[p], q) = Debe(apunte, q)
      <3>1. saldo[q] = 0 /\ Pendiente(apunte, tareas[p], q) = 0  BY <2>1, PendienteNada DEF Init
      <3> DEFINE f == Valen(apunte, q)
      <3>2. \A i \in Ids : f[i] = 0  BY DEF Init, Valen, Vale
      <3> HIDE DEF f
      <3>3. SumFunctionOnSet(f, Ids) = 0  BY <3>2, IdsFinito, SumZero
      <3> QED  BY <3>1, <3>3 DEF f, Debe
    <2> QED  BY <2>1, <2>2 DEF Seguro, LeeBien, Ordenes, PorBorrar, Cuadra
  <1> QED  BY <1>1, <1>2 DEF IInvAsientos

LEMMA Siguen ==
  ASSUME UnPuestoUnaEmpresa
  PROVE  IInvAsientos /\ [Next]_vars => IInvAsientos'
  <1> SUFFICES ASSUME IInvAsientos, [Next]_vars PROVE IInvAsientos'  OBVIOUS
  <1> USE DEF UnPuestoUnaEmpresa
  <1>1. ASSUME NEW p \in Puestos, Usuario(p)  PROVE IInvAsientos'  BY <1>1, EmpiezaBien
  <1>2. ASSUME NEW p \in Puestos, Sentencia(p)  PROVE IInvAsientos'
    <2>1. CASE LeeSaldo(p)  BY <2>1, LeeSaldoBien
    <2>2. CASE GuardaSaldo(p)  BY <2>2, GuardaSaldoBien
    <2>3. CASE BorraApunte(p)  BY <2>3, BorraApunteBien
    <2>4. CASE InsertaApunte(p)  BY <2>4, InsertaApunteBien
    <2>5. CASE PoneACero(p)  BY <2>5, PoneACeroBien
    <2>6. CASE SumaAsiento(p)  BY <2>6, SumaAsientoBien
    <2>7. CASE Acaba(p)  BY <2>7, AcabaBien
    <2> QED  BY <1>2, <2>1, <2>2, <2>3, <2>4, <2>5, <2>6, <2>7 DEF Sentencia
  <1>3. ASSUME NEW p \in Puestos, Falla(p)  PROVE IInvAsientos'  BY <1>3, FallaBien
  <1>4. CASE UNCHANGED vars
    <2>1. Tipos'  BY <1>4, TiposSiguen DEF IInvAsientos
    <2>2. \A p \in Puestos : Seguro(p)'
      BY <1>4 DEF IInvAsientos, Seguro, LeeBien, Ordenes, Cuadra, vars, bd, trabajo
    <2> QED  BY <2>1, <2>2 DEF IInvAsientos
  <1> QED  BY <1>1, <1>2, <1>3, <1>4 DEF Next

\* With what remains to be done every balance will be right.
LEMMA SaldosDeLosAsientos ==
  ASSUME IInvAsientos, NEW p \in Puestos, tareas[p] = <<>>, fallos = 0 \/ obra[p] = "recalculo"
  PROVE  TodoCuadra
  <1>1. Tipos /\ Cuadra(p) /\ tareas[p] # <<PonCeros>>  BY DEF IInvAsientos, Seguro
  <1>2. ASSUME NEW q \in Cuentas PROVE saldo[q] = Suma(q)
    <2>1. saldo[q] + Pendiente(apunte, tareas[p], q) = Debe(apunte, q)  BY <1>1 DEF Cuadra
    <2>2. Pendiente(apunte, tareas[p], q) = 0  BY PendienteNada
    <2>3. Suma(q) = Debe(apunte, q) /\ saldo[q] \in Int
      BY <1>1, SumaEs, DePuesto DEF Tipos, TypeOK
    <2> QED  BY <2>1, <2>2, <2>3
  <1> QED  BY <1>2 DEF TodoCuadra

\* With one workstation the balances of the accounts, and of the groups above them, are what
\* the lines stored add up to whenever nobody is working, while nothing has failed: through any
\* sequence of new, changed, removed and regenerated entries and of recalculations.
THEOREM UnPuestoSaldosCuadran ==
  ASSUME UnPuestoUnaEmpresa, Puestos # {}
  PROVE  Spec => []SaldosCuadran
  <1>1. IInvAsientos => SaldosCuadran
    <2> SUFFICES ASSUME IInvAsientos, fallos = 0, \A p \in Puestos : obra[p] = "libre" PROVE TodoCuadra
      BY DEF SaldosCuadran
    <2>1. PICK p \in Puestos : TRUE  OBVIOUS
    <2>2. tareas[p] = <<>>  BY DEF IInvAsientos, Tipos, TypeOK
    <2> QED  BY <2>2, SaldosDeLosAsientos
  <1>2. IInvAsientos /\ [Next]_vars => IInvAsientos'  BY Siguen
  <1> QED  BY <1>1, <1>2, AlEmpezar, PTL DEF Spec

\* With one workstation a recalculation that gets to its end leaves every balance right, whatever
\* failed before it.
THEOREM UnPuestoRecalculoCuadra ==
  ASSUME UnPuestoUnaEmpresa
  PROVE  Spec => []RecalculoCuadra
  <1>1. IInvAsientos => RecalculoCuadra
    <2> SUFFICES ASSUME IInvAsientos, NEW p \in Puestos, obra[p] = "recalculo", tareas[p] = <<>>
                 PROVE  TodoCuadra
      BY DEF RecalculoCuadra
    <2> QED  BY SaldosDeLosAsientos
  <1>2. IInvAsientos /\ [Next]_vars => IInvAsientos'  BY Siguen
  <1> QED  BY <1>1, <1>2, AlEmpezar, PTL DEF Spec

-------------------------------------------------------------------------------
(* The counter.                                                              *)

FilaT == [hay : BOOLEAN, tabla : Tablas, ejercicio : Ejercicios \cup {SinFila}, contador : Numeros,
          limpia : BOOLEAN, origen : Registros \cup {SinFila}]

FichaT == [paso : {"libre", "edita", "graba", "escribe"}, tabla : Tablas, ejercicio : Ejercicios,
           id : Registros \cup {SinFila}, rec : Numeros, edit : Numeros, limpia : BOOLEAN,
           parte : BOOLEAN, origen : Registros \cup {SinFila}]

\* v is greater than every number a session of year e can see.
Supera(v, e) == \A i \in Visibles(e) : fila[i].contador < v

\* Only a form that is saving claims that its number was counted and nobody has saved since.
SoloAlGrabar == \A f \in Fichas : ficha[f].limpia => ficha[f].paso \in {"graba", "escribe"}

\* Who claims it has a number that is greater than all.
EsElUltimo ==
  \A f \in Fichas : ficha[f].limpia /\ ficha[f].rec # 0 => Supera(ficha[f].rec, ficha[f].ejercicio)

\* Nobody has a number while the counter is not in use.
SinUsarlo ==
  ~usaContador => /\ \A f \in Fichas : ficha[f].rec = 0 /\ ficha[f].edit = 0
                  /\ \A i \in Registros : fila[i].contador = 0

IInvContadores == TypeOKContadores /\ ContadoresDistintos /\ SoloAlGrabar /\ EsElUltimo /\ SinUsarlo

-------------------------------------------------------------------------------
(* The operators.                                                            *)

\* TypeOKContadores, with the names of its sets.
LEMMA TypeIsSets ==
  TypeOKContadores <=> usaContador \in BOOLEAN /\ fila \in [Registros -> FilaT] /\ ficha \in [Fichas -> FichaT]
  BY DEF TypeOKContadores, FilaT, FichaT

\* A row that is not there, and a form in which nothing is edited.
LEMMA VaciasType ==
  ASSUME NEW e \in Ejercicios
  PROVE  FilaVacia \in FilaT /\ FichaLibre(e) \in FichaT
  BY NumerosAssumption DEF FilaVacia, FichaLibre, FilaT, FichaT, Tablas

\* What getMaxContador returns is greater than all there is, or the counter is not in use.
LEMMA MaxSupera ==
  ASSUME NEW e, NEW n \in Numeros, EsMaxContador(n, e)
  PROVE  IF usaContador THEN Supera(n, e) ELSE n = 0
  BY DEF EsMaxContador, Supera

-------------------------------------------------------------------------------
(* The invariant.                                                            *)

\* Nothing is stored and no form edits.
LEMMA InitIInv == InitContadores => IInvContadores
  <1> SUFFICES ASSUME InitContadores PROVE IInvContadores  OBVIOUS
  <1>1. fila = [i \in Registros |-> FilaVacia]  BY DEF InitContadores
  <1>2. PICK a \in [Fichas -> Ejercicios] : ficha = [f \in Fichas |-> FichaLibre(a[f])]
    BY DEF InitContadores
  <1>v. FilaVacia \in FilaT  BY NumerosAssumption DEF FilaVacia, FilaT, Tablas
  <1>3. fila \in [Registros -> FilaT] /\ ficha \in [Fichas -> FichaT]  BY <1>1, <1>2, <1>v, VaciasType
  <1>4. \A i \in Registros : ~fila[i].hay /\ fila[i].contador = 0  BY <1>1 DEF FilaVacia
  <1>5. \A f \in Fichas : ~ficha[f].limpia /\ ficha[f].rec = 0 /\ ficha[f].edit = 0
    BY <1>2 DEF FichaLibre
  <1>6. TypeOKContadores  BY <1>3, TypeIsSets DEF InitContadores
  <1> QED  BY <1>4, <1>5, <1>6 DEF IInvContadores, ContadoresDistintos, SoloAlGrabar, EsElUltimo, SinUsarlo

\* A step of one form that stores nothing.
LEMMA PonIInv ==
  ASSUME IInvContadores, NEW f \in Fichas, NEW v \in FichaT, Pon(f, v), SinGrabar,
         v.limpia => v.paso \in {"graba", "escribe"},
         v.limpia /\ v.rec # 0 => Supera(v.rec, v.ejercicio),
         ~usaContador => v.rec = 0 /\ v.edit = 0
  PROVE  IInvContadores'
  <1>1. fila' = fila /\ usaContador' = usaContador /\ ficha \in [Fichas -> FichaT]
    BY TypeIsSets DEF SinGrabar, IInvContadores
  <1>2. ficha' = [ficha EXCEPT ![f] = v]  BY DEF Pon
  <1>3. TypeOKContadores'  BY <1>1, <1>2, TypeIsSets DEF IInvContadores, TypeOKContadores, FichaT
  <1>4. ContadoresDistintos'  BY <1>1 DEF IInvContadores, ContadoresDistintos
  <1>5. SoloAlGrabar'  BY <1>1, <1>2 DEF IInvContadores, SoloAlGrabar
  <1>6. EsElUltimo'  BY <1>1, <1>2 DEF IInvContadores, EsElUltimo, Supera, Visibles
  <1>7. SinUsarlo'  BY <1>1, <1>2 DEF IInvContadores, SinUsarlo
  <1> QED  BY <1>3, <1>4, <1>5, <1>6, <1>7 DEF IInvContadores

\* A form that goes on after it has saved claims nothing of a number.
SinCuenta(v) == v \in FichaT /\ ~v.limpia /\ (~usaContador => v.rec = 0 /\ v.edit = 0)

\* What the forms are after f has saved.
LEMMA TrasGrabarShape ==
  ASSUME IInvContadores, NEW f \in Fichas, NEW v, SinCuenta(v), TrasGrabar(f, v)
  PROVE  /\ ficha' \in [Fichas -> FichaT]
         /\ \A g \in Fichas : ~ficha'[g].limpia
         /\ ~usaContador => \A g \in Fichas : ficha'[g].rec = 0 /\ ficha'[g].edit = 0
  <1>1. ficha \in [Fichas -> FichaT]  BY TypeIsSets DEF IInvContadores
  <1>2. \A g \in Fichas : ficha'[g] = IF g = f THEN v ELSE [ficha[g] EXCEPT !.limpia = FALSE]
    BY DEF TrasGrabar
  <1>4. \A g \in Fichas :
          LET w == [ficha[g] EXCEPT !.limpia = FALSE] IN
          w \in FichaT /\ ~w.limpia /\ w.rec = ficha[g].rec /\ w.edit = ficha[g].edit
    BY <1>1 DEF FichaT
  <1>5. ficha' \in [Fichas -> FichaT]  BY <1>4 DEF TrasGrabar, SinCuenta
  <1>6. \A g \in Fichas : ~ficha'[g].limpia  BY <1>2, <1>4 DEF SinCuenta
  <1>7. ~usaContador => \A g \in Fichas : ficha'[g].rec = 0 /\ ficha'[g].edit = 0
    BY <1>2, <1>4 DEF IInvContadores, SinUsarlo, SinCuenta
  <1> QED  BY <1>5, <1>6, <1>7

\* A form that is done, and one that saves what was left of the receipt it has paid, go on so.
LEMMA TrasGrabarSinCuenta ==
  ASSUME IInvContadores, NEW f \in Fichas
  PROVE  SinCuenta(FichaLibre(ficha[f].ejercicio)) /\ SinCuenta(Resto(f))
  <1> DEFINE l == FichaLibre(ficha[f].ejercicio)
  <1>1. ficha[f] \in FichaT  BY TypeIsSets DEF IInvContadores
  <1>2. l \in FichaT  BY <1>1, VaciasType DEF FichaT
  <1>3. ~l.limpia /\ l.rec = 0 /\ l.edit = 0  BY DEF FichaLibre
  <1>4. ~usaContador => ficha[f].rec = 0  BY DEF IInvContadores, SinUsarlo
  <1>5. Resto(f) = [l EXCEPT !.paso = "graba", !.rec = ficha[f].rec, !.origen = ficha[f].id]
    BY DEF Resto
  <1> HIDE DEF l
  <1>6. /\ Resto(f) \in FichaT /\ Resto(f).limpia = l.limpia /\ Resto(f).rec = ficha[f].rec
        /\ Resto(f).edit = l.edit
    BY <1>1, <1>2, <1>5 DEF FichaT
  <1> QED  BY <1>2, <1>3, <1>4, <1>6 DEF SinCuenta, l

\* r has the number of row o, which is the same document or one that it comes from.
Copia(r, o) ==
  /\ fila[o].hay /\ fila[o].limpia = r.limpia /\ fila[o].contador = r.contador
  /\ fila[o].ejercicio = r.ejercicio /\ fila[o].origen = r.origen

\* A step that stores row i as r: if r claims that nobody has saved since its number was
\* counted, the number is greater than all, or it is that of another row which r comes from.
LEMMA GuardaIInv ==
  ASSUME IInvContadores, NEW f \in Fichas, NEW v, SinCuenta(v), TrasGrabar(f, v), NEW i \in Registros, NEW r \in FilaT,
         fila' = [fila EXCEPT ![i] = r], UNCHANGED usaContador,
         \/ r.limpia /\ r.contador # 0 => Supera(r.contador, r.ejercicio)
         \/ \E o \in Registros : o # i /\ Copia(r, o),
         ~usaContador => r.contador = 0
  PROVE  IInvContadores'
  <1>1. fila \in [Registros -> FilaT] /\ usaContador \in BOOLEAN  BY TypeIsSets DEF IInvContadores
  <1>2. /\ ficha' \in [Fichas -> FichaT]
        /\ \A g \in Fichas : ~ficha'[g].limpia
        /\ ~usaContador => \A g \in Fichas : ficha'[g].rec = 0 /\ ficha'[g].edit = 0
    BY TrasGrabarShape
  <1>3. fila' \in [Registros -> FilaT]  BY <1>1
  <1>4. TypeOKContadores'  BY <1>1, <1>2, <1>3 DEF TypeOKContadores, FilaT, FichaT
  <1>5. ContadoresDistintos'
    <2>1. \A h \in Registros : fila'[h] = IF h = i THEN r ELSE fila[h]  BY <1>1
    <2>3. r.contador \in Nat /\ \A h \in Registros : fila[h].contador \in Nat
      BY <1>1, NumerosAssumption DEF FilaT
    <2>4. ASSUME NEW h \in Registros, h # i, fila[h].hay, fila[h].limpia, r.limpia,
                 fila[h].origen # r.origen, fila[h].ejercicio = r.ejercicio, r.contador # 0
          PROVE  fila[h].contador # r.contador
      <3>1. CASE r.limpia /\ r.contador # 0 => Supera(r.contador, r.ejercicio)
        <4>1. fila[h].contador < r.contador  BY <2>4, <3>1 DEF Supera, Visibles
        <4> QED  BY <4>1, <2>3
      <3>2. CASE \E o \in Registros : o # i /\ Copia(r, o)
        <4>1. PICK o \in Registros : Copia(r, o)  BY <3>2
        <4> QED  BY <4>1, <2>4 DEF Copia, IInvContadores, ContadoresDistintos
      <3> QED  BY <3>1, <3>2
    <2> SUFFICES ASSUME NEW j \in Registros, NEW k \in Registros, fila'[j].origen # fila'[k].origen,
                        fila'[j].hay, fila'[k].hay, fila'[j].limpia, fila'[k].limpia,
                        fila'[j].ejercicio = fila'[k].ejercicio, fila'[j].contador # 0
                 PROVE  fila'[j].contador # fila'[k].contador
      BY DEF ContadoresDistintos
    <2>5. CASE j = i  BY <2>1, <2>4, <2>5
    <2>6. CASE k = i
      <3>1. CASE r.contador = 0  BY <2>1, <2>6, <3>1
      <3>2. CASE r.contador # 0  BY <2>1, <2>4, <2>6, <3>2
      <3> QED  BY <3>1, <3>2
    <2>7. CASE j # i /\ k # i  BY <2>1, <2>7 DEF IInvContadores, ContadoresDistintos
    <2> QED  BY <2>5, <2>6, <2>7
  <1>6. SoloAlGrabar' /\ EsElUltimo'  BY <1>2 DEF SoloAlGrabar, EsElUltimo
  <1>7. SinUsarlo'  BY <1>1, <1>2 DEF IInvContadores, SinUsarlo
  <1> QED  BY <1>4, <1>5, <1>6, <1>7 DEF IInvContadores

\* Every step keeps the invariant.
LEMMA StepIInv ==
  ASSUME IInvContadores, NextContadores
  PROVE  IInvContadores'
  <1>t. usaContador \in BOOLEAN /\ fila \in [Registros -> FilaT] /\ ficha \in [Fichas -> FichaT]
    BY TypeIsSets DEF IInvContadores
  <1>i. ContadoresDistintos /\ SoloAlGrabar /\ EsElUltimo /\ SinUsarlo  BY DEF IInvContadores
  <1>z. 0 \in Numeros /\ Numeros \subseteq Nat  BY NumerosAssumption
  <1>1. ASSUME NEW f \in Fichas, AbreNueva(f) PROVE IInvContadores'
    <2>1. PICK t \in Tablas, n \in Numeros :
            /\ EsMaxContador(n, ficha[f].ejercicio) \/ (t = "FACTURACOMPRA" /\ n = 0)
            /\ Pon(f, [ficha[f] EXCEPT !.paso = "edita", !.tabla = t, !.edit = n])
      BY <1>1 DEF AbreNueva
    <2> DEFINE v == [ficha[f] EXCEPT !.paso = "edita", !.tabla = t, !.edit = n]
    <2>2. v \in FichaT /\ ~v.limpia /\ v.rec = ficha[f].rec /\ v.edit = n
      BY <1>1, <1>t, <1>i DEF FichaT, SoloAlGrabar, AbreNueva, EnPaso
    <2>3. ~usaContador => v.rec = 0 /\ v.edit = 0  BY <2>1, <2>2, <1>i, MaxSupera DEF SinUsarlo
    <2> HIDE DEF v
    <2> QED  BY <2>1, <2>2, <2>3, <1>1, PonIInv DEF AbreNueva, v
  <1>2. ASSUME NEW f \in Fichas, AbreFila(f) PROVE IInvContadores'
    <2>1. PICK i \in Visibles(ficha[f].ejercicio), n \in Numeros :
            /\ IF fila[i].contador = 0 /\ fila[i].tabla # "FACTURACOMPRA"
               THEN EsMaxContador(n, ficha[f].ejercicio)
               ELSE n = fila[i].contador
            /\ Pon(f, [ficha[f] EXCEPT !.paso = "edita", !.tabla = fila[i].tabla, !.id = i, !.edit = n])
      BY <1>2 DEF AbreFila
    <2> DEFINE v == [ficha[f] EXCEPT !.paso = "edita", !.tabla = fila[i].tabla, !.id = i, !.edit = n]
    <2>i. i \in Registros /\ fila[i].tabla \in Tablas  BY <1>t DEF Visibles, FilaT
    <2>2. v \in FichaT /\ ~v.limpia /\ v.rec = ficha[f].rec /\ v.edit = n
      BY <1>2, <1>t, <1>i, <2>i DEF FichaT, SoloAlGrabar, AbreFila, EnPaso
    <2>3. ~usaContador => v.rec = 0 /\ v.edit = 0
      BY <2>1, <2>2, <2>i, <1>i, MaxSupera DEF SinUsarlo
    <2> HIDE DEF v
    <2> QED  BY <2>1, <2>2, <2>3, <1>2, PonIInv DEF AbreFila, v
  <1>3. ASSUME NEW f \in Fichas, Acepta(f) PROVE IInvContadores'
    <2>0. SinGrabar /\ ~ficha[f].limpia /\ (~usaContador => ficha[f].rec = 0 /\ ficha[f].edit = 0)
      BY <1>3, <1>i DEF Acepta, EnPaso, SoloAlGrabar, SinUsarlo
    <2>1. PICK n \in Numeros : CuentaAlAceptar(f, n)  BY <1>3 DEF Acepta
    <2>2. IF usaContador THEN Supera(n, ficha[f].ejercicio) ELSE n = 0
      BY <2>1, MaxSupera DEF CuentaAlAceptar
    <2>3. CASE TrasAviso(f, n)
      <3>1. CASE Pon(f, [ficha[f] EXCEPT !.rec = ficha[f].edit, !.paso = "graba", !.edit = n])
        <4> DEFINE v == [ficha[f] EXCEPT !.rec = ficha[f].edit, !.paso = "graba", !.edit = n]
        <4>1. v \in FichaT /\ ~v.limpia /\ v.rec = ficha[f].edit /\ v.edit = n  BY <1>t, <2>0 DEF FichaT
        <4> HIDE DEF v
        <4> QED  BY <3>1, <4>1, <2>0, <2>2, PonIInv DEF v
      <3>2. CASE Pon(f, [ficha[f] EXCEPT !.edit = n])
        <4> DEFINE v == [ficha[f] EXCEPT !.edit = n]
        <4>1. v \in FichaT /\ ~v.limpia /\ v.rec = ficha[f].rec /\ v.edit = n  BY <1>t, <2>0 DEF FichaT
        <4> HIDE DEF v
        <4> QED  BY <3>2, <4>1, <2>0, <2>2, PonIInv DEF v
      <3> QED  BY <2>3, <3>1, <3>2 DEF TrasAviso
    <2>4. CASE SinAviso(f) /\ (Nueva(f) => ~(n > ficha[f].edit))
      <3> DEFINE v == [ficha[f] EXCEPT !.rec = ficha[f].edit, !.paso = "graba", !.limpia = Nueva(f)]
      <3>1. /\ v \in FichaT /\ v.rec = ficha[f].edit /\ v.edit = ficha[f].edit
            /\ v.paso = "graba" /\ v.limpia = Nueva(f) /\ v.ejercicio = ficha[f].ejercicio
        BY <1>t DEF FichaT, Nueva
      <3>2. ASSUME v.limpia, v.rec # 0 PROVE Supera(v.rec, v.ejercicio)
        <4>1. n <= v.rec /\ n \in Nat /\ v.rec \in Nat
          BY <3>1, <3>2, <2>4, <1>t, <1>z DEF FichaT
        <4>2. usaContador  BY <3>1, <3>2, <2>0
        <4>3. \A i \in Visibles(v.ejercicio) : fila[i].contador < n /\ fila[i].contador \in Nat
          BY <2>2, <3>1, <4>2, <1>t, <1>z DEF Supera, Visibles, FilaT
        <4> HIDE DEF v
        <4> QED  BY <4>1, <4>3 DEF Supera
      <3> HIDE DEF v
      <3> QED  BY <3>1, <3>2, <2>4, <2>0, PonIInv DEF SinAviso, v
    <2> QED  BY <2>1, <2>3, <2>4 DEF CuentaAlAceptar
  <1>4. ASSUME NEW f \in Fichas, Cancela(f) PROVE IInvContadores'
    <2>1. FichaLibre(ficha[f].ejercicio) \in FichaT  BY <1>t, VaciasType DEF FichaT
    <2>2. /\ ~FichaLibre(ficha[f].ejercicio).limpia
          /\ FichaLibre(ficha[f].ejercicio).rec = 0 /\ FichaLibre(ficha[f].ejercicio).edit = 0
      BY DEF FichaLibre
    <2> QED  BY <2>1, <2>2, <1>4, PonIInv DEF Cancela
  <1>5. ASSUME NEW f \in Fichas, GeneraCobro(f) PROVE IInvContadores'
    <2> DEFINE v == [ficha[f] EXCEPT !.paso = "graba"]
    <2>1. v \in FichaT /\ ~v.limpia /\ v.rec = ficha[f].rec /\ v.edit = ficha[f].edit
      BY <1>5, <1>t, <1>i DEF FichaT, SoloAlGrabar, GeneraCobro, EnPaso
    <2>2. ~usaContador => v.rec = 0 /\ v.edit = 0  BY <2>1, <1>i DEF SinUsarlo
    <2> HIDE DEF v
    <2> QED  BY <2>1, <2>2, <1>5, PonIInv DEF GeneraCobro, v
  <1>p. ASSUME NEW f \in Fichas, PagaCobro(f) PROVE IInvContadores'
    <2>1. PICK i \in Registros, parte \in BOOLEAN :
            Pon(f, [ficha[f] EXCEPT !.paso = "graba", !.id = i, !.rec = fila[i].contador, !.parte = parte])
      BY <1>p DEF PagaCobro
    <2> DEFINE v == [ficha[f] EXCEPT !.paso = "graba", !.id = i, !.rec = fila[i].contador, !.parte = parte]
    <2>2. v \in FichaT /\ ~v.limpia /\ v.rec = fila[i].contador /\ v.edit = ficha[f].edit
      BY <1>p, <1>t, <1>i DEF FichaT, FilaT, SoloAlGrabar, PagaCobro, EnPaso
    <2>3. ~usaContador => v.rec = 0 /\ v.edit = 0  BY <2>2, <1>i DEF SinUsarlo
    <2> HIDE DEF v
    <2> QED  BY <2>1, <2>2, <2>3, <1>p, PonIInv DEF PagaCobro, v
  <1>6. ASSUME NEW f \in Fichas, NumeraAlGrabar(f) PROVE IInvContadores'
    <2>1. PICK n \in Numeros :
            /\ EsMaxContador(n, ficha[f].ejercicio)
            /\ Pon(f, [ficha[f] EXCEPT !.paso = "escribe", !.rec = n, !.limpia = TRUE, !.origen = SinFila])
      BY <1>6 DEF NumeraAlGrabar
    <2> DEFINE v == [ficha[f] EXCEPT !.paso = "escribe", !.rec = n, !.limpia = TRUE, !.origen = SinFila]
    <2>2. /\ v \in FichaT /\ v.rec = n /\ v.edit = ficha[f].edit /\ v.paso = "escribe"
          /\ v.ejercicio = ficha[f].ejercicio
      BY <1>t DEF FichaT
    <2>3. v.rec # 0 => Supera(v.rec, v.ejercicio)  BY <2>1, <2>2, MaxSupera
    <2>4. ~usaContador => v.rec = 0 /\ v.edit = 0  BY <2>1, <2>2, <1>i, MaxSupera DEF SinUsarlo
    <2> HIDE DEF v
    <2> QED  BY <2>1, <2>2, <2>3, <2>4, <1>6, PonIInv DEF NumeraAlGrabar, v
  <1>7. ASSUME NEW f \in Fichas, Inserta(f) PROVE IInvContadores'
    <2>1. PICK i \in Registros : Libre(f, i) /\ fila' = [fila EXCEPT ![i] = FilaNueva(f, i)]
      BY <1>7 DEF Inserta
    <2> DEFINE r == FilaNueva(f, i)
               o == ficha[f].origen
               deOtra == o # SinFila /\ fila[o].hay /\ fila[o].contador = ficha[f].rec
    <2>0. o \in Registros \cup {SinFila}  BY <1>t DEF FichaT
    <2>2. /\ r \in FilaT /\ r.contador = ficha[f].rec
          /\ ~deOtra => r.limpia = ficha[f].limpia /\ r.ejercicio = ficha[f].ejercicio
          /\ deOtra => /\ r.limpia = fila[o].limpia /\ r.ejercicio = fila[o].ejercicio
                       /\ r.origen = fila[o].origen
      <3>1. r = [hay |-> TRUE, tabla |-> ficha[f].tabla, contador |-> ficha[f].rec,
                 ejercicio |-> IF deOtra THEN fila[o].ejercicio ELSE ficha[f].ejercicio,
                 limpia    |-> IF deOtra THEN fila[o].limpia ELSE ficha[f].limpia,
                 origen    |-> IF deOtra THEN fila[o].origen ELSE i]
        BY DEF FilaNueva
      <3>2. deOtra => fila[o] \in FilaT  BY <1>t, <2>0
      <3>3. ficha[f] \in FichaT  BY <1>t
      <3> HIDE DEF r, deOtra, o
      <3> QED  BY <3>1, <3>2, <3>3 DEF FichaT, FilaT
    <2>3. \/ r.limpia /\ r.contador # 0 => Supera(r.contador, r.ejercicio)
          \/ \E h \in Registros : h # i /\ Copia(r, h)
      <3>1. CASE deOtra
        <4>1. o \in Registros /\ o # i  BY <3>1, <2>0, <2>1 DEF Libre
        <4>2. Copia(r, o)  BY <3>1, <2>2 DEF Copia
        <4> QED  BY <4>1, <4>2
      <3>2. CASE ~deOtra  BY <3>2, <2>2, <1>i DEF EsElUltimo
      <3> QED  BY <3>1, <3>2
    <2>4. ~usaContador => r.contador = 0  BY <2>2, <1>i DEF SinUsarlo
    <2>5. SinCuenta(FichaLibre(ficha[f].ejercicio))  BY TrasGrabarSinCuenta
    <2>6. fila' = [fila EXCEPT ![i] = r]  BY <2>1
    <2> HIDE DEF r, o, deOtra
    <2> QED  BY <2>2, <2>3, <2>4, <2>5, <2>6, <1>7, GuardaIInv DEF Inserta
  <1>8. ASSUME NEW f \in Fichas, Actualiza(f) PROVE IInvContadores'
    <2> DEFINE i == ficha[f].id
               v == IF ficha[f].parte THEN Resto(f) ELSE FichaLibre(ficha[f].ejercicio)
    <2>1. i \in Registros  BY <1>8, <1>t DEF Actualiza, Nueva, FichaT
    <2>v. SinCuenta(v) /\ TrasGrabar(f, v)  BY <1>8, TrasGrabarSinCuenta DEF Actualiza
    <2>2. CASE fila[i].hay /\ fila[i].contador # ficha[f].rec
      <3> DEFINE r == [fila[i] EXCEPT !.contador = ficha[f].rec, !.limpia = ficha[f].limpia,
                                      !.ejercicio = ficha[f].ejercicio]
      <3>1. fila' = [fila EXCEPT ![i] = r]
        BY <1>8, <2>1, <2>2, <1>t DEF Actualiza, FilaT
      <3>2. r \in FilaT /\ r.contador = ficha[f].rec /\ r.limpia = ficha[f].limpia
            /\ r.ejercicio = ficha[f].ejercicio
        BY <1>t, <2>1 DEF FichaT, FilaT
      <3>3. r.limpia /\ r.contador # 0 => Supera(r.contador, r.ejercicio)  BY <3>2, <1>i DEF EsElUltimo
      <3>4. ~usaContador => r.contador = 0  BY <3>2, <1>i DEF SinUsarlo
      <3> HIDE DEF r, i, v
      <3> QED  BY <3>1, <3>2, <3>3, <3>4, <2>1, <2>v, <1>8, GuardaIInv DEF Actualiza
    <2>3. CASE ~(fila[i].hay /\ fila[i].contador # ficha[f].rec)
      <3>1. fila' = fila /\ usaContador' = usaContador  BY <1>8, <2>3 DEF Actualiza
      <3> HIDE DEF v
      <3>2. /\ ficha' \in [Fichas -> FichaT]
            /\ \A g \in Fichas : ~ficha'[g].limpia
            /\ ~usaContador => \A g \in Fichas : ficha'[g].rec = 0 /\ ficha'[g].edit = 0
        BY <2>v, TrasGrabarShape
      <3>3. TypeOKContadores'  BY <3>1, <3>2, <1>t DEF TypeOKContadores, FilaT, FichaT
      <3> QED
        BY <3>1, <3>2, <3>3, <1>i DEF IInvContadores, ContadoresDistintos, SoloAlGrabar, EsElUltimo, SinUsarlo
    <2> QED  BY <2>2, <2>3
  <1>9. ASSUME NEW f \in Fichas, IndiceRechaza(f) PROVE IInvContadores'
    <2> DEFINE v == [ficha[f] EXCEPT !.paso = "edita", !.rec = 0, !.limpia = FALSE]
    <2>1. v \in FichaT /\ ~v.limpia /\ v.rec = 0 /\ v.edit = ficha[f].edit  BY <1>t, <1>z DEF FichaT
    <2>2. ~usaContador => v.rec = 0 /\ v.edit = 0  BY <2>1, <1>i DEF SinUsarlo
    <2> HIDE DEF v
    <2> QED  BY <2>1, <2>2, <1>9, PonIInv DEF IndiceRechaza, v
  <1>10. CASE BorraRegistro
    <2>1. PICK i \in Registros : fila' = [fila EXCEPT ![i] = FilaVacia]
      BY <1>10 DEF BorraRegistro
    <2>2. FilaVacia \in FilaT  BY <1>z DEF FilaVacia, FilaT, Tablas
    <2>3. ficha' = ficha /\ usaContador' = usaContador  BY <1>10 DEF BorraRegistro
    <2>4. \A j \in Registros : fila'[j] = IF j = i THEN FilaVacia ELSE fila[j]
      BY <2>1, <1>t
    <2>5. ~FilaVacia.hay /\ FilaVacia.contador = 0
      BY DEF FilaVacia
    <2>6. TypeOKContadores'  BY <2>1, <2>2, <2>3, <1>t DEF TypeOKContadores, FilaT, FichaT
    <2>7. ContadoresDistintos'  BY <2>4, <2>5, <1>i DEF ContadoresDistintos
    <2>8. EsElUltimo'  BY <2>3, <2>4, <2>5, <1>i DEF EsElUltimo, Supera, Visibles
    <2>9. SoloAlGrabar' /\ SinUsarlo'  BY <2>3, <2>4, <2>5, <1>i DEF SoloAlGrabar, SinUsarlo
    <2> QED  BY <2>6, <2>7, <2>8, <2>9 DEF IInvContadores
  <1>11. CASE ActivaContador
    <2>1. usaContador' /\ usaContador' \in BOOLEAN /\ fila' = fila /\ ficha' = ficha
      BY <1>11 DEF ActivaContador
    <2>2. TypeOKContadores'  BY <2>1, <1>t DEF TypeOKContadores, FilaT, FichaT
    <2> QED
      BY <2>1, <2>2, <1>i
      DEF IInvContadores, ContadoresDistintos, SoloAlGrabar, EsElUltimo, SinUsarlo, Supera, Visibles
  <1> QED
    BY <1>1, <1>2, <1>3, <1>4, <1>5, <1>p, <1>6, <1>7, <1>8, <1>9, <1>10, <1>11 DEF NextContadores

\* A step that changes nothing keeps it too.
LEMMA StutterIInv == IInvContadores /\ UNCHANGED varContadores => IInvContadores'
  BY DEF IInvContadores, varContadores, TypeOKContadores, ContadoresDistintos, SoloAlGrabar, EsElUltimo, SinUsarlo,
         Supera, Visibles

-------------------------------------------------------------------------------
(* The theorems.                                                             *)

\* Every reachable state satisfies the invariant.
THEOREM Invariance == SpecContadores => []IInvContadores
  <1>1. IInvContadores /\ [NextContadores]_varContadores => IInvContadores'  BY StepIInv, StutterIInv
  <1> QED  BY InitIInv, <1>1, PTL DEF SpecContadores

\* Forms, rows and the setting keep their types.
THEOREM TypeCorrect == SpecContadores => []TypeOKContadores
  <1>1. IInvContadores => TypeOKContadores  BY DEF IInvContadores
  <1> QED  BY Invariance, <1>1, PTL

\* However many workstations number documents at once, whatever they modify, remove or give up
\* or pay in part, and whenever the counter comes into use: no two documents of a year have one
\* number, but a receipt and what was left of it, and those saved over the warning, or numbered
\* when they were modified, or that another was saved before.
THEOREM GivenOnce == SpecContadores => []ContadoresDistintos
  <1>1. IInvContadores => ContadoresDistintos  BY DEF IInvContadores
  <1> QED  BY Invariance, <1>1, PTL

-------------------------------------------------------------------------------
(* Dates.                                                                    *)

\* The day of a year that begins in March, counted as the formulas do: 123 is the first one.
DiasHastaMarzo(y) == 365 * y + y \div 4 - y \div 100 + (y \div 100) \div 4

\* And its months.
DiasHastaMes(jm) == (306001 * jm) \div 10000

\* The Julian day of a day of such a year.
Juliano(jy, j) == DiasHastaMarzo(jy) + j + 1720997

\* The last day is there in leap years only.
EsDia(jy, j) == /\ jy \in Int /\ j \in 123 .. 488
                /\ j = 488 => jy % 4 = 3 /\ (jy % 100 # 99 \/ jy % 400 = 399)

\* What the formulas make of it.
DeMarzo(jy, j) ==
  LET je == (j * 10000) \div 306001
      m  == IF je - 1 > 12 THEN je - 13 ELSE je - 1
  IN  [y |-> IF m > 2 THEN jy ELSE jy + 1, m |-> m, d |-> j - (306001 * je) \div 10000]

\* 15 October 1582.
Gregoriano == 2299161

\* The century that JulianToDMY corrects for is the one that the day is in.
LEMMA Siglo ==
  ASSUME NEW jy, NEW j, EsDia(jy, j)
  PROVE  (4 * (Juliano(jy, j) - 1867216) - 1) \div 146097 = jy \div 100 - 4
  <1> DEFINE C == jy \div 100
             r == jy - 100 * C
             c == C % 4
  <1>1. jy \in Int /\ j \in Int /\ 123 <= j /\ j <= 488  BY DEF EsDia
  <1>2. C \in Int /\ r \in 0 .. 99 /\ jy = 100 * C + r  BY <1>1
  <1>3. c \in 0 .. 3 /\ C = 4 * (C \div 4) + c /\ C \div 4 \in Int  BY <1>2
  <1>4. jy \div 4 = 25 * C + r \div 4
    <2> DEFINE p == r \div 4
    <2>1. r \in Int /\ p \in Int /\ 4 * p <= r /\ r <= 4 * p + 3  BY <1>2
    <2> HIDE DEF p, r, C
    <2>2. 4 * (25 * C + p) <= jy /\ jy <= 4 * (25 * C + p) + 3  BY <1>1, <1>2, <2>1
    <2>3. 25 * C + p \in Int  BY <1>2, <2>1
    <2>4. jy \div 4 = 25 * C + p  BY <1>1, <2>2, <2>3
    <2> QED  BY <2>4 DEF p
  <1>5. 4 * (Juliano(jy, j) - 1867216) - 1
        = 146097 * (C - 4) + (4 * (365 * r + r \div 4 + j) - 489 - c)
    BY <1>1, <1>2, <1>3, <1>4 DEF Juliano, DiasHastaMarzo
  <1>6. j = 488 => r # 99 \/ c = 3
    <2>1. CASE j = 488 /\ r = 99
      <3>1. jy % 100 = 99 /\ jy % 400 = 399  BY <1>1, <1>2, <2>1 DEF EsDia
      <3>2. c = 3  BY <1>1, <1>2, <3>1
      <3> QED  BY <3>2
    <2> QED  BY <2>1
  <1>7. j = 488 => r % 4 = 3
    BY <1>1, <1>2 DEF EsDia
  <1>8. 0 <= 4 * (365 * r + r \div 4 + j) - 489 - c /\ 4 * (365 * r + r \div 4 + j) - 489 - c < 146097
    <2> HIDE DEF r, c, C
    <2>1. r \in Int /\ 0 <= r /\ r <= 99 /\ c \in Int /\ 0 <= c /\ c <= 3  BY <1>2, <1>3
    <2>2. 4 * (r \div 4) <= r /\ r \div 4 \in Int /\ 0 <= r \div 4  BY <2>1
    <2>3. j <= 487 \/ j = 488  BY <1>1
    <2>4. r <= 98 => 4 * (365 * r + r \div 4 + j) <= 4 * (365 * 98 + 24 + 488)  BY <2>1, <2>2, <1>1
    <2>5. r = 99 => r \div 4 = 24  BY <2>1
    <2> QED  BY <1>1, <1>6, <2>1, <2>2, <2>3, <2>4, <2>5
  <1> DEFINE X == 4 * (Juliano(jy, j) - 1867216) - 1
             R == 4 * (365 * r + r \div 4 + j) - 489 - c
  <1>9. R \in Int /\ X = 146097 * (C - 4) + R /\ 0 <= R /\ R < 146097  BY <1>1, <1>2, <1>3, <1>5, <1>8
  <1> HIDE DEF R, X, C
  <1>10. X \div 146097 = C - 4  BY <1>2, <1>9
  <1> QED  BY <1>10 DEF X, C

\* What JulianToDMY makes of a day, from the correction on.
LEMMA Vuelta ==
  ASSUME NEW jy, NEW j, EsDia(jy, j), Juliano(jy, j) >= Gregoriano
  PROVE  JulianToDMY(Juliano(jy, j)) = DeMarzo(jy, j)
  <1> DEFINE jul == Juliano(jy, j)
             alpha == (4 * (jul - 1867216) - 1) \div 146097
             ja == jul + 1 + alpha - alpha \div 4
             jb == ja + 1524
             jc == 6680 + (100 * (jb - 2439870) - 12210) \div 36525
             jd == 365 * jc + jc \div 4
  <1>1. jy \in Int /\ j \in Int /\ 123 <= j /\ j <= 488 /\ (j = 488 => jy % 4 = 3)  BY DEF EsDia
  <1>2. alpha = jy \div 100 - 4  BY Siglo
  <1>3. jb = 1722519 + 365 * jy + jy \div 4 + j
    BY <1>1, <1>2 DEF Juliano, DiasHastaMarzo
  <1>4. jc = jy + 4716
    <2>1. 100 * (jb - 2439870) - 12210 = 36525 * (jy - 1964) + (100 * j - 25 * (jy % 4) - 12210)
      BY <1>1, <1>3
    <2>2. jy % 4 \in 0 .. 3  BY <1>1
    <2>3. 0 <= 100 * j - 25 * (jy % 4) - 12210 /\ 100 * j - 25 * (jy % 4) - 12210 < 36525
      BY <1>1, <2>2
    <2> QED  BY <1>1, <2>1, <2>2, <2>3
  <1>5. jb - jd = j  BY <1>1, <1>3, <1>4
  <1>6. jul >= 2299161  BY DEF Gregoriano
  <1> HIDE DEF jul, jc, jd
  <1>7. JulianToDMY(jul) = DeMarzo(jy, j)
    BY <1>1, <1>4, <1>5, <1>6 DEF JulianToDMY, DeMarzo, jc, jd
  <1> QED  BY <1>7 DEF jul

\* Every day from the correction on is one of those days.
LEMMA EsUnDia ==
  ASSUME NEW jul \in Int, jul >= Gregoriano
  PROVE  \E jy \in Int, j \in 123 .. 488 : EsDia(jy, j) /\ jul = Juliano(jy, j)
  <1> DEFINE X == 4 * (jul - 1867216) - 1
             alpha == X \div 146097
             R == X - 146097 * alpha
             s == alpha % 4
             ja == jul + 1 + alpha - alpha \div 4
             jb == ja + 1524
             N == 100 * (jb - 2439870) - 12210
             k == N \div 36525
             jy == k + 1964
             j == jb - 1722519 - 365 * jy - jy \div 4
             C == jy \div 100
             r == jy - 100 * C
             q == r \div 4
  <1>1. alpha \in Int /\ R \in Int /\ 0 <= R /\ R < 146097 /\ X = 146097 * alpha + R  OBVIOUS
  <1>2. s \in Int /\ 0 <= s /\ s <= 3 /\ alpha \div 4 \in Int /\ alpha = 4 * (alpha \div 4) + s
    BY <1>1
  <1>3. k \in Int /\ jy \in Int /\ 36525 * k <= N /\ N < 36525 * k + 36525  BY <1>1, <1>2
  <1>4. jy % 4 \in 0 .. 3 /\ jy = 4 * (jy \div 4) + (jy % 4) /\ jy \div 4 \in Int  BY <1>3
  <1>5. N = 36525 * k + 100 * j - 25 * (jy % 4) - 12210 /\ j \in Int
    <2> HIDE DEF k, alpha
    <2> QED  BY <1>1, <1>2, <1>3, <1>4
  <1>6. 123 <= j /\ j <= 488 /\ (j = 488 => jy % 4 = 3)
    <2> HIDE DEF k, j, N, jy
    <2> QED  BY <1>3, <1>4, <1>5
  <1>7. /\ C \in Int /\ r \in Int /\ 0 <= r /\ r <= 99 /\ jy = 100 * C + r
        /\ q \in Int /\ 4 * q <= r /\ r <= 4 * q + 3
    BY <1>3
  <1>8. jy \div 4 = 25 * C + q
    <2> HIDE DEF q, r, C, jy
    <2>1. 4 * (25 * C + q) <= jy /\ jy <= 4 * (25 * C + q) + 3  BY <1>3, <1>7
    <2>2. 25 * C + q \in Int  BY <1>7
    <2> QED  BY <1>3, <2>1, <2>2
  <1>9. jul = 365 * jy + jy \div 4 + j + 1720994 - alpha + alpha \div 4
    <2> HIDE DEF k, alpha, jy
    <2> QED  BY <1>1, <1>2, <1>3, <1>4
  <1>10. 146100 * (C - 4 - alpha) + 4 * (365 * r + q) + 4 * j - 489 = s + R
    <2> HIDE DEF alpha, jy, C, r, q, s, j, R
    <2> QED  BY <1>1, <1>2, <1>3, <1>5, <1>7, <1>8, <1>9
  <1>11. r = 99 => q = 24 /\ jy % 4 = 3
    <2> HIDE DEF jy, C, r, q
    <2> QED  BY <1>3, <1>7
  <1>12. r % 4 = jy % 4
    <2> HIDE DEF jy, C, r, q
    <2> QED  BY <1>3, <1>7
  <1> DEFINE Z == 4 * (365 * r + q) + 4 * j - 489
             n == C - 4 - alpha
  <1>13. Z \in Int /\ 3 <= Z /\ Z <= 146099
    <2> HIDE DEF jy, C, r, q, j
    <2>1. j <= 487 \/ j = 488  BY <1>5, <1>6
    <2>2. r = 99 \/ (r <= 98 /\ q <= 24)  BY <1>7
    <2> QED  BY <1>5, <1>6, <1>7, <1>11, <2>1, <2>2
  <1>14. C = alpha + 4
    <2>1. n \in Int /\ 146100 * n + Z = s + R
      <3> HIDE DEF jy, C, r, q, j, alpha, s, R
      <3> QED  BY <1>1, <1>2, <1>5, <1>7, <1>10
    <2> HIDE DEF Z, s, R, n
    <2>2. n = 0  BY <1>1, <1>2, <1>13, <2>1
    <2> HIDE DEF C, alpha
    <2> QED  BY <1>1, <1>7, <2>2 DEF n
  <1>15. jul = Juliano(jy, j)
    <2>1. C \div 4 = alpha \div 4 + 1
      <3> HIDE DEF C, alpha
      <3> QED  BY <1>1, <1>14
    <2> HIDE DEF jy, j, alpha
    <2> QED  BY <1>1, <1>2, <1>3, <1>4, <1>5, <1>7, <1>9, <1>14, <2>1 DEF Juliano, DiasHastaMarzo
  <1>16. EsDia(jy, j)
    <2>1. CASE j = 488 /\ r = 99
      <3>1. s = 3
        <4> HIDE DEF jy, C, r, q, j, alpha, s, R
        <4> QED  BY <1>1, <1>2, <1>7, <1>10, <1>11, <1>14, <2>1
      <3>2. C % 4 = 3
        <4> HIDE DEF C, alpha
        <4> QED  BY <1>1, <1>14, <3>1
      <3>3. jy % 400 = 399
        <4> HIDE DEF jy, C, r
        <4> QED  BY <1>3, <1>7, <2>1, <3>2
      <3> HIDE DEF jy, j
      <3> QED  BY <1>3, <1>5, <1>6, <3>3 DEF EsDia
    <2>2. CASE j = 488 /\ r # 99
      <3>1. jy % 100 # 99
        <4> HIDE DEF jy, C, r
        <4> QED  BY <1>3, <1>7, <2>2
      <3> HIDE DEF jy, j
      <3> QED  BY <1>3, <1>5, <1>6, <3>1 DEF EsDia
    <2>3. CASE j # 488
      <3> HIDE DEF jy, j
      <3> QED  BY <1>3, <1>5, <1>6, <2>3 DEF EsDia
    <2> QED  BY <2>1, <2>2, <2>3
  <1>17. j \in 123 .. 488 /\ jy \in Int
    <2> HIDE DEF jy, j
    <2> QED  BY <1>3, <1>5, <1>6
  <1> HIDE DEF jy, j
  <1> QED  BY <1>15, <1>16, <1>17

\* The quarter of a day, from 0 on.
Cuarto(j) == CASE j < 154 \/ j > 428 -> 0
               [] j > 153 /\ j < 245 -> 1
               [] j > 244 /\ j < 337 -> 2
               [] j > 336 /\ j < 429 -> 3

\* Of a day: its year and its quarter.
LEMMA Mes ==
  ASSUME NEW jy \in Int, NEW j \in 123 .. 488
  PROVE  /\ DeMarzo(jy, j).m \in 1 .. 12 /\ DeMarzo(jy, j).d \in 1 .. 31
         /\ DeMarzo(jy, j).y = IF j < 429 THEN jy ELSE jy + 1
         /\ (DeMarzo(jy, j).m - 1) \div 3 = Cuarto(j)
  <1>1. j \in Int /\ 123 <= j /\ j <= 488  OBVIOUS
  <1> DEFINE je == (j * 10000) \div 306001
  <1>2. je \in 4 .. 15
    BY <1>1
  <1> DEFINE m == IF je - 1 > 12 THEN je - 13 ELSE je - 1
             d == j - (306001 * je) \div 10000
  <1>3. DeMarzo(jy, j) = [y |-> IF m > 2 THEN jy ELSE jy + 1, m |-> m, d |-> d]  BY DEF DeMarzo
  <1>4. m \in 1 .. 12 /\ (m <= 2 <=> j >= 429)  BY <1>1
  <1>5. d \in 1 .. 31  BY <1>1
  <1>6. (m - 1) \div 3 = Cuarto(j)
    BY <1>1 DEF Cuarto
  <1> HIDE DEF m, d
  <1> QED  BY <1>1, <1>3, <1>4, <1>5, <1>6

-------------------------------------------------------------------------------

\* Dates, and the day of the year that begins in March that they are.
EnCalendario(y, m, d) == y \in Int /\ m \in 1 .. 12 /\ d \in 1 .. DiasDelMes(y, m)

Marzo(y, m) == IF m > 2 THEN y ELSE y - 1
Orden(m, d) == DiasHastaMes(IF m > 2 THEN m + 1 ELSE m + 13) + d

Dia(y, m, d) == Juliano(Marzo(y, m), Orden(m, d))

\* A date of the calendar is a day of a year that begins in March, and what the formulas make of
\* it is the date.
LEMMA DelCalendario ==
  ASSUME NEW y, NEW m, NEW d, EnCalendario(y, m, d)
  PROVE  /\ EsDia(Marzo(y, m), Orden(m, d))
         /\ DeMarzo(Marzo(y, m), Orden(m, d)) = [y |-> y, m |-> m, d |-> d]
  <1>1. y \in Int /\ m \in 1 .. 12 /\ d \in Int /\ 1 <= d /\ d <= 31
    BY DEF EnCalendario, DiasDelMes
  <1>2. m \in {4, 6, 9, 11} => d <= 30  BY DEF EnCalendario, DiasDelMes
  <1>3. m = 2 => d <= 28 \/ (d = 29 /\ Bisiesto(y))  BY DEF EnCalendario, DiasDelMes
  <1> DEFINE jm == IF m > 2 THEN m + 1 ELSE m + 13
             j  == Orden(m, d)
  <1>4. /\ (j * 10000) \div 306001 = jm /\ j \in 123 .. 488
        /\ j = 488 => m = 2 /\ d = 29
    BY <1>1, <1>2, <1>3 DEF Orden, DiasHastaMes
  <1>5. Bisiesto(y) => (y - 1) % 4 = 3 /\ ((y - 1) % 100 # 99 \/ (y - 1) % 400 = 399)
    BY <1>1 DEF Bisiesto
  <1>6. EsDia(Marzo(y, m), j)  BY <1>1, <1>3, <1>4, <1>5 DEF EsDia, Marzo
  <1>7. DeMarzo(Marzo(y, m), j) = [y |-> y, m |-> m, d |-> d]
    <2>1. j - (306001 * jm) \div 10000 = d  BY <1>1 DEF Orden, DiasHastaMes
    <2>2. IF jm - 1 > 12 THEN jm - 13 = m ELSE jm - 1 = m  BY <1>1
    <2>3. IF m > 2 THEN Marzo(y, m) = y ELSE Marzo(y, m) + 1 = y  BY <1>1 DEF Marzo
    <2> HIDE DEF j, jm
    <2> QED  BY <1>1, <1>4, <2>1, <2>2, <2>3 DEF DeMarzo
  <1> QED  BY <1>6, <1>7

\* A year is at least 365 days long.
LEMMA Mayor ==
  ASSUME NEW y \in Int, NEW z \in Int, y < z
  PROVE  DiasHastaMarzo(y) + 365 <= DiasHastaMarzo(z)
  <1> DEFINE C == y \div 100
             D == z \div 100
  <1>1. C \in Int /\ D \in Int /\ C <= D /\ 100 * C <= y /\ y <= 100 * C + 99
        /\ 100 * D <= z /\ z <= 100 * D + 99
    OBVIOUS
  <1>2. C \div 4 <= D \div 4 /\ C \div 4 \in Int /\ D \div 4 \in Int  BY <1>1
  <1>3. y \div 4 \in Int /\ z \div 4 \in Int /\ y \div 4 <= z \div 4
        /\ 25 * C <= y \div 4 /\ y \div 4 <= 25 * C + 24 /\ 25 * D <= z \div 4
    BY <1>1
  <1>4. y \div 4 - C <= z \div 4 - D
    <2>1. CASE C = D  BY <1>1, <1>3, <2>1
    <2>2. CASE C < D  BY <1>1, <1>3, <2>2
    <2> QED  BY <1>1, <2>1, <2>2
  <1> HIDE DEF C, D
  <1>5. DiasHastaMarzo(y) = 365 * y + y \div 4 - C + C \div 4  BY DEF DiasHastaMarzo, C
  <1>6. DiasHastaMarzo(z) = 365 * z + z \div 4 - D + D \div 4  BY DEF DiasHastaMarzo, D
  <1> QED  BY <1>1, <1>2, <1>3, <1>4, <1>5, <1>6

\* How long a year is.
LEMMA UnAno ==
  ASSUME NEW y \in Int
  PROVE  DiasHastaMarzo(y) = DiasHastaMarzo(y - 1) + IF Bisiesto(y) THEN 366 ELSE 365
  BY DEF DiasHastaMarzo, Bisiesto

\* One day more.
\* A date and the days since it was typed.
DeFecha == [y : Int, m : Int, d : Int, n : Int]

LEMMA DiaSiguiente ==
  ASSUME NEW c \in DeFecha, EnCalendario(c.y, c.m, c.d)
  PROVE  /\ EnCalendario(Siguiente(c).y, Siguiente(c).m, Siguiente(c).d)
         /\ Dia(Siguiente(c).y, Siguiente(c).m, Siguiente(c).d) = Dia(c.y, c.m, c.d) + 1
         /\ Siguiente(c) \in DeFecha /\ Siguiente(c).n = c.n
  <1> DEFINE y == c.y
             m == c.m
             d == c.d
             s == Siguiente(c)
             dias == DiasDelMes(y, m)
  <1>1. y \in Int /\ m \in 1 .. 12 /\ dias \in 28 .. 31 /\ d \in 1 .. dias
    BY DEF EnCalendario, DiasDelMes
  <1>2. s = CASE d < dias -> [c EXCEPT !.d = @ + 1]
              [] d = dias /\ m < 12 -> [c EXCEPT !.d = 1, !.m = @ + 1]
              [] OTHER -> [c EXCEPT !.d = 1, !.m = 1, !.y = @ + 1]
    BY DEF Siguiente
  <1> HIDE DEF s, dias
  <1>3. \A z, k : DiasDelMes(z, k) \in 28 .. 31  BY DEF DiasDelMes
  <1>4. s \in DeFecha /\ s.n = c.n
    <2>1. s = [c EXCEPT !.d = @ + 1] \/ s = [c EXCEPT !.d = 1, !.m = @ + 1]
          \/ s = [c EXCEPT !.d = 1, !.m = 1, !.y = @ + 1]
      BY <1>2
    <2>2. CASE s = [c EXCEPT !.d = @ + 1]  BY <2>2 DEF DeFecha
    <2>3. CASE s = [c EXCEPT !.d = 1, !.m = @ + 1]
      <3> DEFINE x == [c EXCEPT !.d = 1]
      <3>1. x \in DeFecha /\ x.n = c.n /\ c.m + 1 \in Int  BY DEF DeFecha
      <3>2. s = [x EXCEPT !.m = c.m + 1]  BY <2>3
      <3> HIDE DEF x
      <3> QED  BY <3>1, <3>2 DEF DeFecha
    <2>4. CASE s = [c EXCEPT !.d = 1, !.m = 1, !.y = @ + 1]
      <3> DEFINE w == [c EXCEPT !.d = 1]
                 x == [w EXCEPT !.m = 1]
      <3>1. w \in DeFecha /\ w.n = c.n /\ c.y + 1 \in Int  BY DEF DeFecha
      <3>2. s = [x EXCEPT !.y = c.y + 1]  BY <2>4
      <3> HIDE DEF w
      <3>3. x \in DeFecha /\ x.n = c.n  BY <3>1 DEF DeFecha
      <3> HIDE DEF x
      <3> QED  BY <3>1, <3>2, <3>3 DEF DeFecha
    <2> QED  BY <2>1, <2>2, <2>3, <2>4
  <1>5. CASE d < dias
    <2>1. s.y = y /\ s.m = m /\ s.d = d + 1
      <3>1. s = [c EXCEPT !.d = @ + 1]  BY <1>1, <1>2, <1>5
      <3> QED  BY <3>1 DEF DeFecha
    <2>2. EnCalendario(s.y, s.m, s.d)  BY <1>1, <1>5, <2>1 DEF EnCalendario, dias
    <2>3. Juliano(Marzo(y, m), Orden(m, d + 1)) = Juliano(Marzo(y, m), Orden(m, d)) + 1
      <3>1. Orden(m, d + 1) = Orden(m, d) + 1 /\ Orden(m, d) \in Int  BY <1>1 DEF Orden, DiasHastaMes
      <3>2. DiasHastaMarzo(Marzo(y, m)) \in Int  BY <1>1 DEF Marzo, DiasHastaMarzo
      <3> QED  BY <3>1, <3>2 DEF Juliano
    <2> QED  BY <1>4, <2>1, <2>2, <2>3 DEF Dia, s
  <1>6. CASE d = dias /\ m < 12
    <2>1. s.y = y /\ s.m = m + 1 /\ s.d = 1
      <3>1. s = [c EXCEPT !.d = 1, !.m = @ + 1]  BY <1>1, <1>2, <1>6
      <3> QED  BY <3>1 DEF DeFecha
    <2>2. EnCalendario(s.y, s.m, s.d)  BY <1>1, <1>3, <1>6, <2>1 DEF EnCalendario, dias
    <2>3. Dia(y, m + 1, 1) = Dia(y, m, d) + 1
      <3>1. DiasHastaMarzo(y) \in Int /\ DiasHastaMarzo(y - 1) \in Int  BY <1>1 DEF DiasHastaMarzo
      <3>2. m # 2 => Orden(m + 1, 1) = Orden(m, d) + 1 /\ Orden(m, d) \in Int
        BY <1>1, <1>6 DEF Orden, DiasHastaMes, DiasDelMes, dias
      <3>3. CASE m # 2
        <4>1. Marzo(y, m + 1) = Marzo(y, m) /\ Marzo(y, m) \in {y - 1, y}  BY <1>1, <1>6, <3>3 DEF Marzo
        <4> QED  BY <3>1, <3>2, <3>3, <4>1 DEF Dia, Juliano
      <3>4. CASE m = 2
        <4>1. Marzo(y, m + 1) = y /\ Marzo(y, m) = y - 1  BY <1>1, <3>4 DEF Marzo
        <4>2. Orden(3, 1) = 123 /\ Orden(2, d) = 459 + d  BY <1>1 DEF Orden, DiasHastaMes
        <4>3. d = IF Bisiesto(y) THEN 29 ELSE 28  BY <1>6, <3>4 DEF DiasDelMes, dias
        <4> QED  BY <1>1, <3>1, <3>4, <4>1, <4>2, <4>3, UnAno DEF Dia, Juliano
      <3> QED  BY <3>3, <3>4
    <2> QED  BY <1>6, <1>4, <2>1, <2>2, <2>3 DEF s
  <1>7. CASE d = dias /\ m = 12
    <2>1. s.y = y + 1 /\ s.m = 1 /\ s.d = 1
      <3>1. s = [c EXCEPT !.d = 1, !.m = 1, !.y = @ + 1]  BY <1>1, <1>2, <1>7
      <3> QED  BY <3>1 DEF DeFecha
    <2>2. EnCalendario(s.y, s.m, s.d)  BY <1>1, <1>3, <1>7, <2>1 DEF EnCalendario, dias
    <2>3. Dia(y + 1, 1, 1) = Dia(y, 12, 31) + 1
      <3>1. DiasHastaMarzo(y) \in Int  BY <1>1 DEF DiasHastaMarzo
      <3>2. Orden(1, 1) = 429 /\ Orden(12, 31) = 428  BY DEF Orden, DiasHastaMes
      <3>3. Marzo(y + 1, 1) = y /\ Marzo(y, 12) = y  BY <1>1 DEF Marzo
      <3> QED  BY <3>1, <3>2, <3>3 DEF Dia, Juliano
    <2>4. d = 31  BY <1>7 DEF DiasDelMes, dias
    <2> QED  BY <1>7, <1>4, <2>1, <2>2, <2>3, <2>4 DEF s
  <1>8. d < dias \/ (d = dias /\ m < 12) \/ (d = dias /\ m = 12)
    <2> HIDE DEF d, m, dias
    <2> QED  BY <1>1
  <1> QED  BY <1>5, <1>6, <1>7, <1>8

\* The correction, as the code asks for it.
Corregida(y, m, d) == d + 31 * (m + 12 * y) >= 15 + 31 * (10 + 12 * 1582)

\* A date is corrected exactly when it is that of a day from the correction on.
LEMMA Correccion ==
  ASSUME NEW y, NEW m, NEW d, EnCalendario(y, m, d)
  PROVE  Corregida(y, m, d) <=> Dia(y, m, d) >= Gregoriano
  <1>1. y \in Int /\ m \in 1 .. 12 /\ d \in Int /\ 1 <= d /\ d <= 31
    BY DEF EnCalendario, DiasDelMes
  <1>2. EsDia(Marzo(y, m), Orden(m, d))  BY DelCalendario
  <1>3. Orden(m, d) \in 123 .. 488 /\ Marzo(y, m) \in Int  BY <1>2 DEF EsDia
  <1>4. DiasHastaMarzo(1581) = 577448 /\ DiasHastaMarzo(1582) = 577813 /\ DiasHastaMarzo(1580) = 577083
    BY DEF DiasHastaMarzo
  <1>5. DiasHastaMarzo(Marzo(y, m)) \in Int  BY <1>3 DEF DiasHastaMarzo
  <1>6. CASE Marzo(y, m) < 1582
    <2>1. DiasHastaMarzo(Marzo(y, m)) + 365 <= DiasHastaMarzo(1582)  BY <1>3, <1>6, Mayor
    <2>2. Dia(y, m, d) < Gregoriano  BY <1>3, <1>4, <1>5, <2>1 DEF Dia, Juliano, Gregoriano
    <2>3. ~Corregida(y, m, d)  BY <1>1, <1>6 DEF Marzo, Corregida
    <2>4. Dia(y, m, d) \in Int  BY <1>3, <1>5 DEF Dia, Juliano
    <2> QED  BY <2>2, <2>3, <2>4 DEF Gregoriano
  <1>7. CASE Marzo(y, m) = 1582
    <2>1. Dia(y, m, d) = 2298810 + Orden(m, d)  BY <1>3, <1>4, <1>7 DEF Dia, Juliano
    <2>2. Dia(y, m, d) >= Gregoriano <=> Orden(m, d) >= 351  BY <1>3, <2>1 DEF Gregoriano
    <2>3. IF m > 2 THEN y = 1582 ELSE y = 1583  BY <1>1, <1>7 DEF Marzo
    <2>4. Orden(m, d) >= 351 <=> (m <= 2 \/ m > 10 \/ (m = 10 /\ d >= 15))
      BY <1>1 DEF Orden, DiasHastaMes
    <2>5. Corregida(y, m, d) <=> (m <= 2 \/ m > 10 \/ (m = 10 /\ d >= 15))
      BY <1>1, <2>3 DEF Corregida
    <2> QED  BY <2>2, <2>4, <2>5
  <1>8. CASE Marzo(y, m) > 1582
    <2>1. DiasHastaMarzo(1582) + 365 <= DiasHastaMarzo(Marzo(y, m))  BY <1>3, <1>8, Mayor
    <2>2. Dia(y, m, d) >= Gregoriano  BY <1>3, <1>4, <1>5, <2>1 DEF Dia, Juliano, Gregoriano
    <2>3. Corregida(y, m, d)  BY <1>1, <1>8 DEF Marzo, Corregida
    <2> QED  BY <2>2, <2>3
  <1> QED  BY <1>3, <1>6, <1>7, <1>8

\* The day that the code does not have: 4000 is no leap year for IsLeap.
DiaQueFalta == Dia(4000, 2, 29)

\* What DMYtoJulian makes of a date.
LEMMA Ida ==
  ASSUME NEW y, NEW m, NEW d, EnCalendario(y, m, d), Gregoriano <= Dia(y, m, d),
         ~(m = 2 /\ d = 29 /\ y % 4000 = 0)
  PROVE  DMYtoJulian(y, m, d) = Dia(y, m, d)
  <1>1. y \in Int /\ m \in 1 .. 12 /\ d \in Int /\ 1 <= d /\ d <= 31
    BY DEF EnCalendario, DiasDelMes
  <1>2. Corregida(y, m, d)
    <2>1. EsDia(Marzo(y, m), Orden(m, d))  BY DelCalendario
    <2> QED  BY Correccion
  <1>3. y >= 1582  BY <1>1, <1>2 DEF Corregida
  <1>4. d <= DaysInMonth(y, m)
    <2>1. CASE m = 2
      <3>1. d <= 28 \/ (d = 29 /\ Bisiesto(y) /\ y % 4000 # 0)  BY <1>1, <2>1 DEF EnCalendario, DiasDelMes
      <3>2. Bisiesto(y) /\ y % 4000 # 0 => IsLeap(y)  BY <1>1 DEF Bisiesto, IsLeap
      <3>3. DaysInMonth(y, m) = IF IsLeap(y) THEN 29 ELSE 28  BY <2>1 DEF DaysInMonth
      <3> QED  BY <1>1, <3>1, <3>2, <3>3
    <2>2. CASE m # 2
      <3>1. DaysInMonth(y, m) = IF m \in {4, 6, 9, 11} THEN 30 ELSE 31  BY <1>1, <2>2 DEF DaysInMonth
      <3>2. d <= IF m \in {4, 6, 9, 11} THEN 30 ELSE 31  BY <1>1, <2>2 DEF EnCalendario, DiasDelMes
      <3> QED  BY <3>1, <3>2
    <2> QED  BY <2>1, <2>2
  <1>5. CheckForValidDate(y, m, d)  BY <1>1, <1>3, <1>4 DEF CheckForValidDate
  <1> DEFINE jy == IF m > 2 THEN y ELSE y - 1
             jm == IF m > 2 THEN m + 1 ELSE m + 13
             ja == jy \div 100
             jul == (1461 * jy) \div 4 + (306001 * jm) \div 10000 + d + 1720995
  <1>6. DMYtoJulian(y, m, d) = jul + 2 - ja + ja \div 4
    BY <1>2, <1>5 DEF DMYtoJulian, Corregida
  <1>7. (1461 * jy) \div 4 = 365 * jy + jy \div 4  BY <1>1
  <1>8. (306001 * jm) \div 10000 \in Int /\ ja \in Int /\ ja \div 4 \in Int /\ jy \in Int /\ jy \div 4 \in Int
    BY <1>1
  <1>9. Dia(y, m, d) = 365 * jy + jy \div 4 - ja + ja \div 4 + ((306001 * jm) \div 10000 + d) + 1720997
    BY DEF Dia, Juliano, DiasHastaMarzo, Marzo, Orden, DiasHastaMes
  <1> HIDE DEF jy, jm, ja
  <1> QED  BY <1>1, <1>6, <1>7, <1>8, <1>9

\* Before that day there is none.
LEMMA NoFalta ==
  ASSUME NEW y, NEW m, NEW d, EnCalendario(y, m, d), Gregoriano <= Dia(y, m, d), Dia(y, m, d) < DiaQueFalta
  PROVE  ~(m = 2 /\ d = 29 /\ y % 4000 = 0)
  <1> SUFFICES ASSUME m = 2, d = 29, y % 4000 = 0 PROVE FALSE  OBVIOUS
  <1>1. y \in Int  BY DEF EnCalendario
  <1>2. y >= 1582  BY Correccion DEF Corregida, EnCalendario
  <1>3. y >= 4000  BY <1>1, <1>2
  <1>4. Dia(y, 2, 29) = Juliano(y - 1, 488) /\ DiaQueFalta = Juliano(3999, 488)
    BY DEF Dia, DiaQueFalta, Marzo, Orden, DiasHastaMes
  <1>5. DiasHastaMarzo(3999) \in Int /\ DiasHastaMarzo(y - 1) \in Int  BY <1>1 DEF DiasHastaMarzo
  <1>6. DiasHastaMarzo(3999) <= DiasHastaMarzo(y - 1)
    <2>1. CASE y = 4000  BY <2>1, <1>5
    <2>2. CASE y > 4000  BY <1>1, <1>5, <2>2, Mayor
    <2> QED  BY <1>1, <1>3, <2>1, <2>2
  <1> QED  BY <1>4, <1>5, <1>6 DEF Juliano

-------------------------------------------------------------------------------
(* Quarters, from 0 to 3; the first day after them begins the next one.      *)

\* Where they begin.
Comienza(y, q) == CASE q = 0 -> Juliano(y - 1, 429)
                    [] q = 1 -> Juliano(y, 154)
                    [] q = 2 -> Juliano(y, 245)
                    [] q = 3 -> Juliano(y, 337)
                    [] q = 4 -> Juliano(y, 429)

\* The first day of a quarter.
LEMMA PrimerDia ==
  ASSUME NEW y \in Int, y >= 1583, NEW q \in 0 .. 3
  PROVE  DMYtoJulian(y, q * 3 + 1, 1) = Comienza(y, q)
  <1> DEFINE m == q * 3 + 1
  <1>1. EnCalendario(y, m, 1)  BY DEF EnCalendario, DiasDelMes
  <1>2. Corregida(y, m, 1)  BY DEF Corregida
  <1>3. Gregoriano <= Dia(y, m, 1)
    <2>1. Dia(y, m, 1) \in Int
      <3>1. m \in Int /\ Marzo(y, m) \in Int  BY DEF Marzo
      <3>2. DiasHastaMarzo(Marzo(y, m)) \in Int /\ Orden(m, 1) \in Int
        BY <3>1 DEF DiasHastaMarzo, Orden, DiasHastaMes
      <3> QED  BY <3>2 DEF Dia, Juliano
    <2> QED  BY <1>1, <1>2, <2>1, Correccion DEF Gregoriano
  <1>4. DMYtoJulian(y, m, 1) = Dia(y, m, 1)  BY <1>1, <1>3, Ida
  <1>5. Dia(y, m, 1) = Comienza(y, q)
    <2>1. q \in {0, 1, 2, 3}  OBVIOUS
    <2>2. /\ q = 0 => Marzo(y, m) = y - 1 /\ Orden(m, 1) = 429
          /\ q = 1 => Marzo(y, m) = y /\ Orden(m, 1) = 154
          /\ q = 2 => Marzo(y, m) = y /\ Orden(m, 1) = 245
          /\ q = 3 => Marzo(y, m) = y /\ Orden(m, 1) = 337
      BY DEF Marzo, Orden, DiasHastaMes
    <2> QED  BY <2>1, <2>2 DEF Dia, Comienza
  <1> QED  BY <1>4, <1>5

\* Ninety-three days after a quarter begins is the first, second or third of the next one.
LEMMA Proximo ==
  ASSUME NEW y \in Int, y >= 1583, NEW q \in 0 .. 3
  PROVE  FirstDayOfMonth(Comienza(y, q) + 93) = Comienza(y, q + 1)
  <1>1. DiasHastaMarzo(y) \in Int /\ DiasHastaMarzo(y - 1) \in Int  BY DEF DiasHastaMarzo
  <1>2. DiasHastaMarzo(1582) = 577813  BY DEF DiasHastaMarzo
  <1>3. DiasHastaMarzo(1582) + 365 <= DiasHastaMarzo(y)  BY Mayor
  <1> DEFINE j == CASE q = 0 -> IF Bisiesto(y) THEN 156 ELSE 157
                    [] q = 1 -> 247
                    [] q = 2 -> 338
                    [] q = 3 -> 430
  <1>4. q \in {0, 1, 2, 3}  OBVIOUS
  <1>5. Comienza(y, q) + 93 = Juliano(y, j)
    <2>1. CASE q = 0  BY <1>1, <2>1, UnAno DEF Comienza, Juliano
    <2>2. CASE q # 0  BY <1>1, <1>4, <2>2 DEF Comienza, Juliano
    <2> QED  BY <2>1, <2>2
  <1>6. EsDia(y, j)  BY <1>4 DEF EsDia
  <1>7. Juliano(y, j) >= Gregoriano
    <2>1. j \in Int /\ j >= 123  BY <1>4
    <2> HIDE DEF j
    <2> QED  BY <1>1, <1>2, <1>3, <2>1 DEF Juliano, Gregoriano
  <1>8. JulianToDMY(Comienza(y, q) + 93) = DeMarzo(y, j)  BY <1>5, <1>6, <1>7, Vuelta
  <1>9. /\ DeMarzo(y, j).y = IF q = 3 THEN y + 1 ELSE y
        /\ DeMarzo(y, j).m = IF q = 3 THEN 1 ELSE (q + 1) * 3 + 1
    BY <1>4 DEF DeMarzo
  <1> HIDE DEF j
  <1>10. FirstDayOfMonth(Comienza(y, q) + 93) = DMYtoJulian(DeMarzo(y, j).y, DeMarzo(y, j).m, 1)
    BY <1>8 DEF FirstDayOfMonth
  <1>11. CASE q = 3
    <2>1. DMYtoJulian(y + 1, 1, 1) = Comienza(y + 1, 0)
      <3>1. DMYtoJulian(y + 1, 0 * 3 + 1, 1) = Comienza(y + 1, 0)  BY PrimerDia
      <3> QED  BY <3>1
    <2>2. Comienza(y + 1, 0) = Comienza(y, 4)  BY DEF Comienza
    <2> QED  BY <1>9, <1>10, <1>11, <2>1, <2>2
  <1>12. CASE q # 3
    <2>1. q + 1 \in 0 .. 3  BY <1>12
    <2>2. DMYtoJulian(y, (q + 1) * 3 + 1, 1) = Comienza(y, q + 1)  BY <2>1, PrimerDia
    <2> QED  BY <1>9, <1>10, <1>12, <2>2
  <1> QED  BY <1>11, <1>12

\* A day is in its quarter.
LEMMA EnSuTrimestre ==
  ASSUME NEW jy, NEW j, EsDia(jy, j)
  PROVE  LET y == DeMarzo(jy, j).y
             q == (DeMarzo(jy, j).m - 1) \div 3
         IN  /\ y \in Int /\ q \in 0 .. 3
             /\ Comienza(y, q) <= Juliano(jy, j) /\ Juliano(jy, j) < Comienza(y, q + 1)
  <1> DEFINE y == IF j < 429 THEN jy ELSE jy + 1
             q == Cuarto(j)
  <1>1. jy \in Int /\ j \in 123 .. 488  BY DEF EsDia
  <1>2. DeMarzo(jy, j).y = y /\ (DeMarzo(jy, j).m - 1) \div 3 = q  BY <1>1, Mes
  <1>3. /\ DiasHastaMarzo(jy) \in Int /\ DiasHastaMarzo(jy - 1) \in Int
        /\ DiasHastaMarzo(jy + 1) \in Int
    BY <1>1 DEF DiasHastaMarzo
  <1>4. /\ DiasHastaMarzo(jy - 1) + 365 <= DiasHastaMarzo(jy)
        /\ DiasHastaMarzo(jy) + 365 <= DiasHastaMarzo(jy + 1)
    BY <1>1, Mayor
  <1>5. q \in 0 .. 3 /\ y \in Int  BY <1>1 DEF Cuarto
  <1>6. Comienza(y, q) <= Juliano(jy, j) /\ Juliano(jy, j) < Comienza(y, q + 1)
    <2>1. CASE j < 154
      <3>1. y = jy /\ q = 0  BY <1>1, <2>1 DEF Cuarto
      <3>2. Comienza(y, q) = Juliano(jy - 1, 429) /\ Comienza(y, q + 1) = Juliano(jy, 154)
        BY <3>1 DEF Comienza
      <3> QED  BY <1>1, <1>3, <1>4, <2>1, <3>2 DEF Juliano
    <2>2. CASE j > 153 /\ j < 245
      <3>1. y = jy /\ q = 1  BY <1>1, <2>2 DEF Cuarto
      <3>2. Comienza(y, q) = Juliano(jy, 154) /\ Comienza(y, q + 1) = Juliano(jy, 245)
        BY <3>1 DEF Comienza
      <3> QED  BY <1>1, <1>3, <1>4, <2>2, <3>2 DEF Juliano
    <2>3. CASE j > 244 /\ j < 337
      <3>1. y = jy /\ q = 2  BY <1>1, <2>3 DEF Cuarto
      <3>2. Comienza(y, q) = Juliano(jy, 245) /\ Comienza(y, q + 1) = Juliano(jy, 337)
        BY <3>1 DEF Comienza
      <3> QED  BY <1>1, <1>3, <1>4, <2>3, <3>2 DEF Juliano
    <2>4. CASE j > 336 /\ j < 429
      <3>1. y = jy /\ q = 3  BY <1>1, <2>4 DEF Cuarto
      <3>2. Comienza(y, q) = Juliano(jy, 337) /\ Comienza(y, q + 1) = Juliano(jy, 429)
        BY <3>1 DEF Comienza
      <3> QED  BY <1>1, <1>3, <1>4, <2>4, <3>2 DEF Juliano
    <2>5. CASE j > 428
      <3>1. y = jy + 1 /\ q = 0  BY <1>1, <2>5 DEF Cuarto
      <3>2. Comienza(y, q) = Juliano(jy, 429) /\ Comienza(y, q + 1) = Juliano(jy + 1, 154)
        BY <1>1, <3>1 DEF Comienza
      <3> QED  BY <1>1, <1>3, <1>4, <2>5, <3>2 DEF Juliano
    <2> QED  BY <1>1, <2>1, <2>2, <2>3, <2>4, <2>5
  <1> HIDE DEF y, q
  <1> QED  BY <1>2, <1>5, <1>6

\* Quarters follow one another.
LEMMA EnOrden ==
  ASSUME NEW y \in Int, NEW q \in 0 .. 3, NEW z \in Int, NEW r \in 0 .. 3,
         y < z \/ (y = z /\ q < r)
  PROVE  Comienza(y, q + 1) <= Comienza(z, r)
  <1>1. DiasHastaMarzo(y) \in Int /\ DiasHastaMarzo(z) \in Int /\ DiasHastaMarzo(z - 1) \in Int
    BY DEF DiasHastaMarzo
  <1>2. DiasHastaMarzo(z - 1) + 365 <= DiasHastaMarzo(z)  BY Mayor
  <1>3. q \in {0, 1, 2, 3} /\ r \in {0, 1, 2, 3}  OBVIOUS
  <1>4. CASE y < z
    <2>1. DiasHastaMarzo(y) <= DiasHastaMarzo(z - 1)
      <3>1. CASE y = z - 1  BY <1>1, <3>1
      <3>2. CASE y < z - 1
        <4>1. z - 1 \in Int /\ y < z - 1  BY <3>2
        <4>2. DiasHastaMarzo(y) + 365 <= DiasHastaMarzo(z - 1)  BY <4>1, Mayor
        <4> QED  BY <1>1, <4>2
      <3> QED  BY <1>4, <3>1, <3>2
    <2>2. Comienza(y, q + 1) <= Juliano(y, 429)
      BY <1>1, <1>3 DEF Comienza, Juliano
    <2>3. Juliano(z - 1, 429) <= Comienza(z, r)  BY <1>1, <1>2, <1>3 DEF Comienza, Juliano
    <2>4. Comienza(y, q + 1) \in Int /\ Comienza(z, r) \in Int  BY <1>1, <1>3 DEF Comienza, Juliano
    <2> QED  BY <1>1, <2>1, <2>2, <2>3, <2>4 DEF Juliano
  <1>5. CASE y = z /\ q < r
    BY <1>1, <1>2, <1>3, <1>5 DEF Comienza, Juliano
  <1> QED  BY <1>4, <1>5

\* The days from the beginning of a quarter to that of the next one are those of the quarter.
LEMMA LosDelTrimestre ==
  ASSUME NEW jy, NEW j, EsDia(jy, j), NEW y \in Int, NEW q \in 0 .. 3
  PROVE  (Comienza(y, q) <= Juliano(jy, j) /\ Juliano(jy, j) < Comienza(y, q + 1))
         <=> (DeMarzo(jy, j).y = y /\ (DeMarzo(jy, j).m - 1) \div 3 = q)
  <1> DEFINE z == DeMarzo(jy, j).y
             r == (DeMarzo(jy, j).m - 1) \div 3
             dia == Juliano(jy, j)
  <1>1. z \in Int /\ r \in 0 .. 3 /\ Comienza(z, r) <= dia /\ dia < Comienza(z, r + 1)
    BY EnSuTrimestre
  <1>2. dia \in Int  BY DEF EsDia, Juliano, DiasHastaMarzo
  <1>3. \A a \in Int, k \in 0 .. 4 : Comienza(a, k) \in Int
    <2> SUFFICES ASSUME NEW a \in Int, NEW k \in 0 .. 4 PROVE Comienza(a, k) \in Int  OBVIOUS
    <2>1. DiasHastaMarzo(a) \in Int /\ DiasHastaMarzo(a - 1) \in Int  BY DEF DiasHastaMarzo
    <2>2. k \in {0, 1, 2, 3, 4}  OBVIOUS
    <2> QED  BY <2>1, <2>2 DEF Comienza, Juliano
  <1> SUFFICES (Comienza(y, q) <= dia /\ dia < Comienza(y, q + 1)) <=> (z = y /\ r = q)
    OBVIOUS
  <1> HIDE DEF z, r, dia
  <1>4. /\ Comienza(y, q) \in Int /\ Comienza(y, q + 1) \in Int
        /\ Comienza(z, r) \in Int /\ Comienza(z, r + 1) \in Int
    BY <1>1, <1>3
  <1>5. CASE z = y /\ r = q  BY <1>1, <1>5
  <1>6. CASE z < y \/ (z = y /\ r < q)
    <2>1. Comienza(z, r + 1) <= Comienza(y, q)  BY <1>1, <1>6, EnOrden
    <2> QED  BY <1>1, <1>2, <1>4, <1>6, <2>1
  <1>7. CASE y < z \/ (y = z /\ q < r)
    <2>1. Comienza(y, q + 1) <= Comienza(z, r)  BY <1>1, <1>7, EnOrden
    <2> QED  BY <1>1, <1>2, <1>4, <1>7, <2>1
  <1>8. (z = y /\ r = q) \/ (z < y \/ (z = y /\ r < q)) \/ (y < z \/ (y = z /\ q < r))
    BY <1>1
  <1> QED  BY <1>5, <1>6, <1>7, <1>8

\* Before the correction the quarters of 1582 are other ones: before its October nothing is in the
\* fourth.
LEMMA AntesDeOctubre ==
  ASSUME NEW jul \in Int, jul < 2299157
  PROVE  JulianToDMY(jul).y <= 1582
         /\ (JulianToDMY(jul).y = 1582 => (JulianToDMY(jul).m - 1) \div 3 # 3)
  <1> DEFINE jb == jul + 1524
             N  == 100 * (jb - 2439870) - 12210
             k  == N \div 36525
             jc == 6680 + k
             jd == 365 * jc + jc \div 4
             j  == jb - jd
             je == (j * 10000) \div 306001
             m  == IF je - 1 > 12 THEN je - 13 ELSE je - 1
  <1>1. JulianToDMY(jul) = [y |-> IF m > 2 THEN jc - 4716 ELSE jc - 4715, m |-> m, d |-> j - (306001 * je) \div 10000]
    BY DEF JulianToDMY
  <1>2. k \in Int /\ 36525 * k <= N /\ N < 36525 * k + 36525  OBVIOUS
  <1>3. jc \in Int /\ jc \div 4 \in Int /\ 4 * (jc \div 4) <= jc /\ jc <= 4 * (jc \div 4) + 3  BY <1>2
  <1>4. j \in Int /\ 123 <= j /\ j <= 488
    <2> HIDE DEF k
    <2> QED  BY <1>2, <1>3
  <1>5. jc <= 6298
    <2> HIDE DEF k
    <2> QED  BY <1>2
  <1>6. jc = 6298 => j <= 336
    <2>1. 6298 \div 4 = 1574  OBVIOUS
    <2> HIDE DEF jc
    <2> QED  BY <1>3, <2>1
  <1>7. je \in 4 .. 15 /\ (j <= 336 => je <= 10)
    <2> HIDE DEF j
    <2> QED  BY <1>4
  <1>8. m \in 1 .. 12 /\ (j <= 336 => m \in 3 .. 9)
    <2> HIDE DEF je, j
    <2> QED  BY <1>7
  <1>9. m <= 2 => (m - 1) \div 3 = 0
    <2> HIDE DEF m
    <2> QED  BY <1>8
  <1>10. m \in 3 .. 9 => (m - 1) \div 3 # 3
    <2> HIDE DEF m
    <2> QED  BY <1>8
  <1>11. JulianToDMY(jul).m = m /\ JulianToDMY(jul).y = IF m > 2 THEN jc - 4716 ELSE jc - 4715
    BY <1>1
  <1> HIDE DEF m, jc, j
  <1> QED  BY <1>3, <1>5, <1>6, <1>8, <1>9, <1>10, <1>11

\* And from the first of October on all are.
LEMMA PrimerosDeOctubre ==
  ASSUME NEW jul \in 2299157 .. 2299160
  PROVE  JulianToDMY(jul).y = 1582 /\ (JulianToDMY(jul).m - 1) \div 3 = 3
  BY DEF JulianToDMY

-------------------------------------------------------------------------------

\* Whether FECHAIVA is accepted, as what it says.
LEMMA ElTrimestre ==
  ASSUME NEW y, NEW m, NEW d, EnCalendario(y, m, d), Gregoriano <= Dia(y, m, d), NEW iva \in Int
  PROVE  FechaIvaValida(Dia(y, m, d), iva)
         <=> (JulianToDMY(iva).y = y /\ (JulianToDMY(iva).m - 1) \div 3 = (m - 1) \div 3)
  <1> DEFINE q == (m - 1) \div 3
             f == Dia(y, m, d)
             primero == DMYtoJulian(y, q * 3 + 1, 1)
             siguiente == FirstDayOfMonth(primero + 93)
  <1>1. y \in Int /\ m \in 1 .. 12 /\ q \in 0 .. 3  BY DEF EnCalendario
  <1>2. JulianToDMY(f) = [y |-> y, m |-> m, d |-> d]  BY DelCalendario, Vuelta DEF Dia
  <1>3. FechaIvaValida(f, iva) <=> primero <= iva /\ iva < siguiente
    <2>1. JulianToDMY(f).y = y /\ Quarter(f) - 1 = q  BY <1>1, <1>2 DEF Quarter
    <2> HIDE DEF q, f
    <2> QED  BY <2>1 DEF FechaIvaValida
  <1>4. y >= 1582 /\ (y = 1582 => m >= 10)
    <2>1. Corregida(y, m, d)  BY Correccion
    <2>2. d \in Int /\ d <= 31  BY DEF EnCalendario, DiasDelMes
    <2> QED  BY <1>1, <2>1, <2>2 DEF Corregida
  <1>5. y = 1582 => q = 3  BY <1>1, <1>4
  <1>6. Comienza(1582, 3) = 2299147 /\ Comienza(1582, 4) = 2299239
    BY DEF Comienza, Juliano, DiasHastaMarzo
  <1>7. iva < Gregoriano =>
          /\ JulianToDMY(iva).y <= 1582
          /\ JulianToDMY(iva).y = 1582 /\ (JulianToDMY(iva).m - 1) \div 3 = 3 <=> 2299157 <= iva
    <2>1. CASE iva < 2299157  BY <2>1, AntesDeOctubre
    <2>2. CASE iva \in 2299157 .. 2299160  BY <2>2, PrimerosDeOctubre
    <2> QED  BY <2>1, <2>2 DEF Gregoriano
  <1>8. iva >= Gregoriano =>
          ((Comienza(y, q) <= iva /\ iva < Comienza(y, q + 1))
           <=> (JulianToDMY(iva).y = y /\ (JulianToDMY(iva).m - 1) \div 3 = q))
    <2> SUFFICES ASSUME iva >= Gregoriano
                 PROVE  (Comienza(y, q) <= iva /\ iva < Comienza(y, q + 1))
                        <=> (JulianToDMY(iva).y = y /\ (JulianToDMY(iva).m - 1) \div 3 = q)
      OBVIOUS
    <2>1. PICK jy \in Int, j \in 123 .. 488 : EsDia(jy, j) /\ iva = Juliano(jy, j)  BY EsUnDia
    <2>2. JulianToDMY(iva) = DeMarzo(jy, j)  BY <2>1, Vuelta
    <2> HIDE DEF q
    <2> QED  BY <1>1, <2>1, <2>2, LosDelTrimestre
  <1> SUFFICES (primero <= iva /\ iva < siguiente)
               <=> (JulianToDMY(iva).y = y /\ (JulianToDMY(iva).m - 1) \div 3 = q)
    BY <1>3
  <1>9. CASE y >= 1583
    <2>1. primero = Comienza(y, q)  BY <1>1, <1>9, PrimerDia
    <2>2. siguiente = Comienza(y, q + 1)  BY <1>1, <1>9, <2>1, Proximo
    <2>3. CASE iva >= Gregoriano  BY <1>8, <2>1, <2>2, <2>3
    <2>4. CASE iva < Gregoriano
      <3>1. Comienza(1582, 3 + 1) <= Comienza(y, q)  BY <1>1, <1>9, EnOrden
      <3>2. Comienza(y, q) \in Int
        <4>1. DiasHastaMarzo(y) \in Int /\ DiasHastaMarzo(y - 1) \in Int  BY <1>1 DEF DiasHastaMarzo
        <4>2. q \in {0, 1, 2, 3}  BY <1>1
        <4> HIDE DEF q
        <4> QED  BY <4>1, <4>2 DEF Comienza, Juliano
      <3>3. ~(primero <= iva)
        <4> HIDE DEF q, primero
        <4> QED  BY <1>6, <2>1, <2>4, <3>1, <3>2 DEF Gregoriano
      <3>4. JulianToDMY(iva).y # y  BY <1>1, <1>7, <1>9, <2>4
      <3> HIDE DEF q, primero, siguiente
      <3> QED  BY <3>3, <3>4
    <2> QED  BY <2>3, <2>4 DEF Gregoriano
  <1>10. CASE y = 1582
    <2>1. primero = 2299157
      <3>1. DMYtoJulian(1582, 10, 1) = 2299157
        <4>1. DaysInMonth(1582, 10) = 31  BY DEF DaysInMonth
        <4>2. CheckForValidDate(1582, 10, 1)  BY <4>1 DEF CheckForValidDate
        <4> QED  BY <4>2, SMT DEF DMYtoJulian
      <3>2. q * 3 + 1 = 10  BY <1>5, <1>10
      <3> QED  BY <1>10, <3>1, <3>2
    <2>2. siguiente = 2299239
      <3>1. JulianToDMY(2299250) = [y |-> 1583, m |-> 1, d |-> 12]  
        <4>1. Juliano(1582, 440) = 2299250  BY SMT DEF Juliano, DiasHastaMarzo
        <4>2. EsDia(1582, 440)  BY SMT DEF EsDia
        <4>3. JulianToDMY(2299250) = DeMarzo(1582, 440)  BY <4>1, <4>2, Vuelta, SMT DEF Gregoriano
        <4> QED  BY <4>3, SMT DEF DeMarzo
      <3>2. DMYtoJulian(1583, 1, 1) = 2299239
        <4>1. DaysInMonth(1583, 1) = 31  BY DEF DaysInMonth
        <4>2. CheckForValidDate(1583, 1, 1)  BY <4>1 DEF CheckForValidDate
        <4> QED  BY <4>2, SMT DEF DMYtoJulian
      <3>3. FirstDayOfMonth(2299250) = 2299239  BY <3>1, <3>2 DEF FirstDayOfMonth
      <3> HIDE DEF primero
      <3> QED  BY <2>1, <3>3
    <2> HIDE DEF primero, siguiente, q
    <2>3. q = 3  BY <1>5, <1>10
    <2>4. CASE iva >= Gregoriano
      BY <1>6, <1>8, <1>10, <2>1, <2>2, <2>3, <2>4 DEF Gregoriano
    <2>5. CASE iva < Gregoriano
      BY <1>7, <1>10, <2>1, <2>2, <2>3, <2>5 DEF Gregoriano
    <2> QED  BY <2>4, <2>5 DEF Gregoriano
  <1> QED  BY <1>1, <1>4, <1>9, <1>10

-------------------------------------------------------------------------------

\* The Julian day is that of the calendar, and the day that is missing is not reached.
FechasInv ==
  /\ calendario \in DeFecha /\ EnCalendario(calendario.y, calendario.m, calendario.d)
  /\ fecha = Dia(calendario.y, calendario.m, calendario.d)
  /\ fecha \in Int /\ Gregoriano <= fecha
  /\ calendario.n <= MaxDias /\ fecha - calendario.n + MaxDias < DiaQueFalta

\* The dates begin after the correction and do not reach the day that the code does not have.
DentroDelCalendario ==
  \A c \in Comienzos : /\ Gregoriano <= Dia(c.y, c.m, c.d)
                       /\ Dia(c.y, c.m, c.d) + MaxDias < DiaQueFalta

\* Days are whole numbers.
LEMMA Enteros ==
  ASSUME NEW y, NEW m, NEW d, EnCalendario(y, m, d)
  PROVE  Dia(y, m, d) \in Int
  <1>1. y \in Int /\ m \in Int /\ d \in Int  BY DEF EnCalendario, DiasDelMes
  <1>2. Marzo(y, m) \in Int /\ Orden(m, d) \in Int  BY <1>1 DEF Marzo, Orden, DiasHastaMes
  <1>3. DiasHastaMarzo(Marzo(y, m)) \in Int  BY <1>2 DEF DiasHastaMarzo
  <1> QED  BY <1>2, <1>3 DEF Dia, Juliano

\* And so is the day that is not there.
LEMMA Limite == DiaQueFalta \in Int
  <1>1. EnCalendario(4000, 2, 29)  BY DEF EnCalendario, DiasDelMes, Bisiesto
  <1> QED  BY <1>1, Enteros DEF DiaQueFalta

\* A date that is typed.
LEMMA Escrita ==
  ASSUME NEW c \in Comienzos, DentroDelCalendario
  PROVE  /\ EnCalendario(c.y, c.m, c.d) /\ c.y \in Int /\ c.m \in Int /\ c.d \in Int
         /\ DMYtoJulian(c.y, c.m, c.d) = Dia(c.y, c.m, c.d) /\ Dia(c.y, c.m, c.d) \in Int
         /\ Gregoriano <= Dia(c.y, c.m, c.d)
         /\ 0 <= MaxDias /\ Dia(c.y, c.m, c.d) - 0 + MaxDias < DiaQueFalta
  <1>1. EnCalendario(c.y, c.m, c.d) /\ MaxDias \in Nat  BY FechasAssumption DEF EnCalendario
  <1>2. Dia(c.y, c.m, c.d) \in Int /\ DiaQueFalta \in Int  BY <1>1, Enteros, Limite
  <1>3. /\ Gregoriano <= Dia(c.y, c.m, c.d) /\ Dia(c.y, c.m, c.d) + MaxDias < DiaQueFalta
        /\ Dia(c.y, c.m, c.d) < DiaQueFalta
    BY <1>1, <1>2 DEF DentroDelCalendario
  <1>4. DMYtoJulian(c.y, c.m, c.d) = Dia(c.y, c.m, c.d)  BY <1>1, <1>3, Ida, NoFalta
  <1>5. c.y \in Int /\ c.m \in Int /\ c.d \in Int  BY <1>1 DEF EnCalendario, DiasDelMes
  <1> QED  BY <1>1, <1>2, <1>3, <1>4, <1>5

\* Each step keeps the invariant.
LEMMA FechasPaso ==
  ASSUME DentroDelCalendario, FechasInv, [NextFechas]_varFechas
  PROVE  FechasInv'
  <1>1. CASE UNCHANGED varFechas  BY <1>1 DEF varFechas, FechasInv
  <1>2. CASE UnDiaMas
    <2> DEFINE s == Siguiente(calendario)
    <2>1. /\ EnCalendario(s.y, s.m, s.d) /\ s \in DeFecha /\ s.n = calendario.n
          /\ Dia(s.y, s.m, s.d) = fecha + 1
      BY DiaSiguiente DEF FechasInv
    <2>2. /\ fecha' = fecha + 1 /\ calendario.n < MaxDias /\ calendario' = [s EXCEPT !.n = @ + 1]
          /\ calendario.n \in Int /\ fecha \in Int /\ Gregoriano <= fecha
          /\ fecha - calendario.n + MaxDias < DiaQueFalta /\ MaxDias \in Nat
      BY <1>2, FechasAssumption DEF UnDiaMas, FechasInv, DeFecha
    <2> HIDE DEF s
    <2>3. /\ calendario' \in DeFecha /\ calendario'.y = s.y /\ calendario'.m = s.m
          /\ calendario'.d = s.d /\ calendario'.n = calendario.n + 1
      BY <2>1, <2>2 DEF DeFecha
    <2> QED  BY <2>1, <2>2, <2>3, Limite DEF FechasInv, Gregoriano
  <1>3. CASE \E c \in Comienzos : EscribeFecha(c)
    <2>1. PICK c \in Comienzos :
            /\ calendario' = [y |-> c.y, m |-> c.m, d |-> c.d, n |-> 0]
            /\ fecha' = DMYtoJulian(c.y, c.m, c.d)
      BY <1>3 DEF EscribeFecha
    <2> QED  BY <2>1, Escrita DEF FechasInv, DeFecha
  <1> QED  BY <1>1, <1>2, <1>3 DEF NextFechas

\* And the invariant is enough.
LEMMA FechasBasta ==
  ASSUME FechasInv
  PROVE  FechasAlDia
  <1> DEFINE y == calendario.y
             m == calendario.m
             d == calendario.d
  <1>1. /\ EnCalendario(y, m, d) /\ fecha = Dia(y, m, d) /\ Gregoriano <= Dia(y, m, d)
        /\ fecha < DiaQueFalta
    <2>1. calendario.n \in Int /\ MaxDias \in Nat /\ DiaQueFalta \in Int
      BY FechasAssumption, Limite DEF FechasInv, DeFecha
    <2> QED  BY <2>1 DEF FechasInv
  <1>2. DMYtoJulian(y, m, d) = fecha  BY <1>1, Ida, NoFalta
  <1>3. JulianToDMY(fecha) = [y |-> y, m |-> m, d |-> d]  BY <1>1, DelCalendario, Vuelta DEF Dia
  <1>4. ASSUME NEW k \in Desfases
        PROVE  FechaIvaValida(fecha, fecha + k)
               <=> (JulianToDMY(fecha + k).y = y /\ (JulianToDMY(fecha + k).m - 1) \div 3 = (m - 1) \div 3)
    <2>1. fecha + k \in Int  BY FechasAssumption DEF FechasInv
    <2> QED  BY <1>1, <2>1, ElTrimestre
  <1> QED  BY <1>2, <1>3, <1>4 DEF FechasAlDia

\* Whatever dates are typed and however many days are counted from them, from 15 October 1582 to 28
\* February 4000: the Julian day turns into the date and the date into the Julian day, and the FECHAIVA
\* that an invoice accepts are those of its quarter.
THEOREM FechasAlDiaSiempre ==
  ASSUME DentroDelCalendario
  PROVE  SpecFechas => []FechasAlDia
  <1>1. InitFechas => FechasInv
    <2> SUFFICES ASSUME NEW c \in Comienzos, calendario = [y |-> c.y, m |-> c.m, d |-> c.d, n |-> 0],
                        fecha = DMYtoJulian(c.y, c.m, c.d)
                 PROVE  FechasInv
      BY DEF InitFechas
    <2> QED  BY Escrita DEF FechasInv, DeFecha
  <1>2. FechasInv /\ [NextFechas]_varFechas => FechasInv'  BY FechasPaso
  <1>3. FechasInv => FechasAlDia  BY FechasBasta
  <1> QED  BY <1>1, <1>2, <1>3, PTL DEF SpecFechas
===============================================================================
