------------------------------ MODULE Existencias ------------------------------
(***************************************************************************)
(* Stock and the chain from delivery notes to invoices (module factu).     *)
(* Every detail of a note (ALBARAN) or of an invoice (FACTURA) moves STOCK *)
(* of its article, and of the article that is its base, just before the    *)
(* detail is saved or removed; a detail that an invoice took from a note   *)
(* sets or clears FACTURADO of the note.                                   *)
(*                                                                         *)
(* The forms are those of one workstation: what a user asks for is done    *)
(* before anything else.  A save that fails half way is in DbRecord.  The  *)
(* documents are all of sales or all of purchases.  "dudoso" collects the  *)
(* articles and the notes to which something happened that the code does   *)
(* not allow for.                                                          *)
(***************************************************************************)
EXTENDS Integers, Sequences, FiniteSets, FiniteSetsExt, SequencesExt

CONSTANTS
  Formularios, (* Forms on documents that are open at once.                *)
  Articulos,   (* Articles.                                                *)
  ConStock,    (* Those with USARSTOCKS.                                   *)
  Base,        (* Base[a]: ARTICULOBASE_ID of article a, or Ninguno.       *)
  Multiplo,    (* Multiplo[a]: MULTIPLOBASE.                               *)
  Albaranes,   (* Delivery notes there may be.                             *)
  Facturas,    (* Invoices there may be.                                   *)
  Cantidades,  (* CANTIDAD of a detail.                                    *)
  Ninguno,     (* No article, no note, no document in a form.              *)
  EnVenta,     (* Articles that a detail may have: bounds the model.       *)
  MaxLineas,   (* Most details of a document: bounds the model.            *)
  MaxGrabadas, (* Saves and removals: bounds the model.                    *)
  MaxDudas     (* Articles and notes in doubt after which all stops.       *)

ASSUME ExistenciasAssumption ==
  /\ IsFiniteSet(Albaranes) /\ IsFiniteSet(Facturas) /\ Albaranes \cap Facturas = {}
  /\ IsFiniteSet(Articulos) /\ EnVenta \subseteq Articulos /\ Cantidades \subseteq Int
  /\ MaxLineas \in Nat /\ MaxGrabadas \in Nat

\* No article is the base of itself, at any distance: actStocks would not end.
ASSUME BaseAssumption ==
  /\ Base \in [Articulos -> Articulos \cup {Ninguno}] /\ Multiplo \in [Articulos -> Int]
  /\ \E nivel \in [Articulos -> 0 .. Cardinality(Articulos)] :
       \A a \in Articulos \cap ConStock : Base[a] # Ninguno => nivel[Base[a]] < nivel[a]

VARIABLES
  compra,     (* The documents are of purchases; never changes.            *)
  stock,      (* stock[a]: STOCK of article a.                             *)
  papel,      (* papel[d]: document d as stored.                           *)
  formulario, (* formulario[f]: the document f edits.                      *)
  dudoso      (* Articles and notes to which something happened.           *)

varExistencias == <<compra, stock, papel, formulario, dudoso>>

Papeles == Albaranes \cup Facturas
Grabadas == MapThenSumSet(LAMBDA d : papel[d].grabada, Papeles)

\* A document: whether its row is there, ACTUALIZASTOCKS of its type, FACTURADO, its
\* details, and how many times these were replaced, which stands for their ids.
SinPapel == [hay |-> FALSE, mueve |-> TRUE, facturado |-> FALSE, lineas |-> <<>>, grabada |-> 0]

IniciaExistencias ==
  /\ compra \in BOOLEAN
  /\ stock = [a \in Articulos |-> 0]
  /\ papel = [d \in Papeles |-> SinPapel]
  /\ formulario = [f \in Formularios |-> Ninguno]
  /\ dudoso = {}

-------------------------------------------------------------------------------
(* RecArticulo::actStocks.                                                 *)

\* How much the stock of b moves with one unit of a: nothing without USARSTOCKS, and
\* then not that of the base either.
Factor[a \in Articulos] ==
  [b \in Articulos |->
    IF a \notin ConStock THEN 0
    ELSE (IF a = b THEN 1 ELSE 0)
           + (IF Base[a] = Ninguno THEN 0 ELSE Multiplo[a] * Factor[Base[a]][b])]

\* Mutant: sales too count what the note has already counted.
CuentaDosVeces(l, mueve) == IF ~mueve THEN 0 ELSE IF compra THEN l.cantidad ELSE -l.cantidad

\* What saving a detail moves.  Details of sales invoices that come from a note move
\* nothing, those of purchase invoices do.
Cuenta(l, mueve) ==
  IF ~mueve \/ (l.albaran # Ninguno /\ ~compra) THEN 0
  ELSE IF compra THEN l.cantidad ELSE -l.cantidad

Movimiento(ls, mueve, b) ==
  MapThenSumSet(LAMBDA n : Cuenta(ls[n], mueve) * Factor[ls[n].articulo][b], DOMAIN ls)

\* The details that come from some notes, or from none.
Filtra(ls, notas) ==
  FoldLeft(LAMBDA s, l : IF l.albaran \in notas THEN Append(s, l) ELSE s, <<>>, ls)

DeAlbaran(ls, x) == Filtra(ls, {x})
SinAlbaran(ls, x) == Filtra(ls, (Albaranes \cup {Ninguno}) \ {x})
TraeDe(ls) == {ls[n].albaran : n \in DOMAIN ls} \ {Ninguno}
Tocados(ls) == {b \in Articulos : \E n \in DOMAIN ls : Factor[ls[n].articulo][b] # 0}

-------------------------------------------------------------------------------
(* Editing.                                                                *)

Edita(f, v) == formulario' = [formulario EXCEPT ![f] = v]
Editando(f) == formulario[f] # Ninguno
Quieto      == UNCHANGED <<compra, stock, papel, dudoso>>

NuevoPapel(f) ==
  /\ ~Editando(f)
  /\ \E d \in Papeles :
       /\ papel[d] = SinPapel
       /\ \A g \in Formularios : Editando(g) => formulario[g].id # d
       /\ Edita(f, [id |-> d, leido |-> SinPapel, lineas |-> <<>>])
  /\ Quieto

\* canBeginEdit refuses a note that has been invoiced.
AbrePapel(f) ==
  /\ ~Editando(f)
  /\ \E d \in Papeles :
       /\ papel[d].hay /\ ~papel[d].facturado
       /\ Edita(f, [id |-> d, leido |-> papel[d], lineas |-> papel[d].lineas])
  /\ Quieto

CierraPapel(f) == Editando(f) /\ Edita(f, Ninguno) /\ Quieto

PonLinea(f) ==
  /\ Editando(f) /\ Len(formulario[f].lineas) < MaxLineas
  /\ \E a \in EnVenta, n \in Cantidades :
       Edita(f, [formulario[f] EXCEPT !.lineas =
                   Append(@, [articulo |-> a, cantidad |-> n, albaran |-> Ninguno])])
  /\ Quieto

QuitaLinea(f) ==
  /\ Editando(f)
  /\ \E n \in DOMAIN formulario[f].lineas :
       /\ formulario[f].lineas[n].albaran = Ninguno
       /\ Edita(f, [formulario[f] EXCEPT !.lineas = RemoveAt(@, n)])
  /\ Quieto

\* slotAddAlbaran: a note that is not invoiced and is not in the list, of which the
\* details are copied.
AnadeAlbaran(f) ==
  /\ Editando(f) /\ formulario[f].id \in Facturas
  /\ \E x \in Albaranes :
       LET copia == [n \in DOMAIN papel[x].lineas |->
                       [papel[x].lineas[n] EXCEPT !.albaran = x]]
       IN
       /\ papel[x].hay /\ ~papel[x].facturado
       /\ x \notin TraeDe(formulario[f].lineas)
       /\ Len(formulario[f].lineas) + Len(copia) <= MaxLineas
       /\ Edita(f, [formulario[f] EXCEPT !.lineas = @ \o copia])
  /\ Quieto

\* To delete one detail of a note is to delete them all.
QuitaAlbaran(f) ==
  /\ Editando(f)
  /\ \E x \in TraeDe(formulario[f].lineas) :
       Edita(f, [formulario[f] EXCEPT !.lineas = SinAlbaran(@, x)])
  /\ Quieto

\* insertDetails: the details of another document, those of an invoice with their notes; a note
\* itself is not offered in an invoice.
InsertaDetalles(f) ==
  /\ Editando(f)
  /\ \E d \in Papeles :
       LET copia == IF formulario[f].id \in Facturas THEN papel[d].lineas
                    ELSE [n \in DOMAIN papel[d].lineas |->
                            [papel[d].lineas[n] EXCEPT !.albaran = Ninguno]]
       IN
       /\ papel[d].hay /\ (formulario[f].id \in Facturas => d \in Facturas)
       /\ Len(formulario[f].lineas) + Len(copia) <= MaxLineas
       /\ Edita(f, [formulario[f] EXCEPT !.lineas = @ \o copia])
  /\ Quieto

\* FrmEditRecMaster duplicates the document that was read, without the details that
\* came from notes.
DuplicaPapel(f) ==
  /\ ~Editando(f)
  /\ \E d, e \in Papeles :
       /\ d \in Albaranes <=> e \in Albaranes
       /\ papel[d].hay /\ papel[e] = SinPapel
       /\ \A g \in Formularios : Editando(g) => formulario[g].id # e
       /\ Edita(f, [id |-> e, leido |-> SinPapel, lineas |-> DeAlbaran(papel[d].lineas, Ninguno)])
  /\ Quieto

\* FrmCopiarDocumento copies it with all its details.
CopiaPapel(f) ==
  /\ ~Editando(f)
  /\ \E d, e \in Papeles :
       /\ d \in Albaranes <=> e \in Albaranes
       /\ papel[d].hay /\ papel[e] = SinPapel
       /\ \A g \in Formularios : Editando(g) => formulario[g].id # e
       /\ Edita(f, [id |-> e, leido |-> SinPapel, lineas |-> papel[d].lineas])
  /\ Quieto

-------------------------------------------------------------------------------
(* Accepting.  Both save and remove take away what the originals moved, as   *)
(* the type of the document now says, and delete the originals.            *)

\* getRelatedRecordListOrig.
Originales(v) == v.leido.lineas

Vigente(v) == papel[v.id].grabada = v.leido.grabada

\* Details that other saves have put there are not deleted.
Ajenas(v) == IF Vigente(v) THEN <<>> ELSE papel[v.id].lineas

\* Mutant: a note is marked, and never unmarked.
MarcaFacturados(quitadas, puestas) ==
  [d \in Papeles |-> IF d \in TraeDe(puestas) THEN [papel[d] EXCEPT !.facturado = TRUE] ELSE papel[d]]

\* actAlbaranes of every detail removed, and then of every detail saved.
Facturados(quitadas, puestas) ==
  [d \in Papeles |->
    IF d \in TraeDe(puestas) THEN [papel[d] EXCEPT !.facturado = TRUE]
    ELSE IF d \in TraeDe(quitadas) THEN [papel[d] EXCEPT !.facturado = FALSE]
    ELSE papel[d]]

\* What the code does not allow for: the type changed, the document changed after it
\* was read, a note invoiced in the meantime, changed since its details were copied
\* or invoiced twice, a purchase that its note has already counted.
Sorpresas(v, tipo) ==
  (IF v.leido.hay /\ tipo # v.leido.mueve THEN Tocados(Originales(v)) ELSE {})
    \cup (IF Vigente(v) THEN {}
          ELSE Tocados(Originales(v) \o v.lineas \o papel[v.id].lineas)
                 \cup TraeDe(Originales(v) \o v.lineas \o papel[v.id].lineas)
                 \cup (Albaranes \cap {v.id}))
    \cup (IF papel[v.id].facturado THEN {v.id} ELSE {})
    \cup (IF compra THEN Tocados(SinAlbaran(v.lineas, Ninguno)) ELSE {})
    \cup {x \in TraeDe(v.lineas) :
            \/ ~papel[x].hay
            \/ papel[x].facturado /\ x \notin TraeDe(Originales(v))
            \/ DeAlbaran(v.lineas, x)
                 # [n \in DOMAIN papel[x].lineas |-> [papel[x].lineas[n] EXCEPT !.albaran = x]]}

\* The type of the document is chosen with it.
GuardaPapel(f) ==
  /\ Editando(f)
  /\ \E tipo \in BOOLEAN :
     LET v == formulario[f]
         d == v.id
         m == Facturados(Originales(v), v.lineas)
         p == papel[d]
     IN
     /\ Grabadas < MaxGrabadas /\ Len(Ajenas(v)) + Len(v.lineas) <= MaxLineas
     /\ stock' = [b \in Articulos |->
                    stock[b] - Movimiento(Originales(v), tipo, b)
                             + Movimiento(v.lineas, tipo, b)]
     /\ papel' = [m EXCEPT ![d] =
                    [hay |-> p.hay \/ ~v.leido.hay, mueve |-> tipo, facturado |-> @.facturado,
                     lineas |-> Ajenas(v) \o v.lineas, grabada |-> p.grabada + 1]]
     /\ dudoso' = dudoso \cup Sorpresas(v, tipo)
  /\ Edita(f, Ninguno)
  /\ UNCHANGED compra

\* The details that other saves have put there remain, without their document.
BorraPapel(f) ==
  /\ Editando(f)
  /\ LET v == [formulario[f] EXCEPT !.lineas = <<>>]
         d == v.id
         m == Facturados(Originales(v), <<>>)
     IN
     /\ v.leido.hay /\ Grabadas < MaxGrabadas
     /\ stock' = [b \in Articulos |-> stock[b] - Movimiento(Originales(v), v.leido.mueve, b)]
     /\ papel' = [m EXCEPT ![d] = [@ EXCEPT !.hay = FALSE, !.lineas = Ajenas(v),
                                            !.grabada = papel[d].grabada + 1]]
     /\ dudoso' = dudoso \cup Sorpresas(v, v.leido.mueve)
  /\ Edita(f, Ninguno)
  /\ UNCHANGED compra

-------------------------------------------------------------------------------

PasoExistencias(f) ==
  \/ NuevoPapel(f) \/ AbrePapel(f) \/ CierraPapel(f) \/ PonLinea(f) \/ QuitaLinea(f)
  \/ AnadeAlbaran(f) \/ QuitaAlbaran(f) \/ InsertaDetalles(f)
  \/ DuplicaPapel(f) \/ CopiaPapel(f) \/ GuardaPapel(f) \/ BorraPapel(f)

SigueExistencias ==
  Cardinality(dudoso) <= MaxDudas /\ \E f \in Formularios : PasoExistencias(f)

SpecExistencias == IniciaExistencias /\ [][SigueExistencias]_varExistencias

-------------------------------------------------------------------------------
(* Properties.                                                             *)

Detalles == [articulo : Articulos, cantidad : Int, albaran : Albaranes \cup {Ninguno}]
PapelesGuardados ==
  [hay : BOOLEAN, mueve : BOOLEAN, facturado : BOOLEAN, lineas : Seq(Detalles), grabada : 0 .. MaxGrabadas]

\* Types, and: no note takes details of another, and no invoice is marked invoiced.
TypeOKExistencias ==
  /\ compra \in BOOLEAN
  /\ stock \in [Articulos -> Int]
  /\ papel \in [Papeles -> PapelesGuardados]
  /\ formulario \in [Formularios ->
       [id : Papeles, leido : PapelesGuardados, lineas : Seq(Detalles)] \cup {Ninguno}]
  /\ dudoso \subseteq Articulos \cup Albaranes
  /\ \A d \in Papeles : Len(papel[d].lineas) <= MaxLineas
  /\ \A d \in Albaranes : TraeDe(papel[d].lineas) = {}
  /\ \A d \in Facturas : ~papel[d].facturado

\* Units of b in some details, but for those that come from notes.
Propio(ls, b) ==
  MapThenSumSet(LAMBDA n : IF ls[n].albaran # Ninguno THEN 0
                           ELSE ls[n].cantidad * Factor[ls[n].articulo][b], DOMAIN ls)

\* Units of b that the documents stored have moved, each delivery counted once: an
\* invoice counts what it did not take from a note.
Movido(b) ==
  MapThenSumSet(LAMBDA d : Propio(papel[d].lineas, b), {d \in Papeles : papel[d].hay /\ papel[d].mueve})

\* The stock of an article is what the documents say that came in or went out, its own
\* units and those of the articles made of it, after any sequence of documents saved,
\* changed, invoiced, duplicated and removed, unless one of them was a surprise.
ExistenciasCuadran ==
  \A a \in Articulos \ dudoso : stock[a] = IF compra THEN Movido(a) ELSE -Movido(a)

\* A note is marked as invoiced exactly while one invoice has its details, all of them
\* as the note has them, and no other invoice has any.
FacturadoUnaVez ==
  \A x \in Albaranes \ dudoso :
    papel[x].hay =>
      LET suyas == {d \in Facturas : papel[d].hay /\ x \in TraeDe(papel[d].lineas)}
      IN
      /\ papel[x].lineas # <<>> => (papel[x].facturado <=> suyas # {})
      /\ Cardinality(suyas) <= 1
      /\ \A d \in suyas :
           DeAlbaran(papel[d].lineas, x)
             = [n \in DOMAIN papel[x].lineas |-> [papel[x].lineas[n] EXCEPT !.albaran = x]]
===============================================================================
