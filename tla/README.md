# gonglib in TLA+

gonglib is a C++ framework for database applications (records, forms, reports) and, with the
modules built on it, the invoicing and accounting program *gestiong*. This directory models the
parts of it in which the order of steps matters: how records are saved and removed, what a form
edits, how receipts, entries, stock and numbers of documents follow what users do, and what the
report engine prints and computes. Modules are checked with TLC on small instances; the results
that matter most are proved with TLAPS for every value of the constants.

Paths below are relative to `src/`. Names of actions and variables are those of the code, or
the Spanish words the domain modules use for them.

## 1. The system

    reports and scripts (rtk)         forms (dbapp: FrmEditRec, FrmEditRecMaster, SearchBox;
       |  read only                      |              one process per user)
       |                                 |  read, clear, accept, cancel; pushPagar, pushAnular ...
       v                                 v
    records (gonglib: dbRecord + dbRecordRelation + dbRecordBehavior)
       |  INSERT / UPDATE / DELETE, BEGIN / COMMIT / ROLLBACK
       v
    connection (gonglib: dbConnection; MySQL or SQLite, one per process)
       |
       v
    server, shared by every process

Domain modules (`pagos`, `factu`, `contab`, `tesoreria`, `socias` ...) derive from the record
class and override `save`, `remove`, or hang behaviours on it; a document calls the record
layer several times in one user action. Nothing is multithreaded inside a process: a handler
runs to its end unless it opens a modal dialogue. Interleaving comes from other processes on
the same database, from several windows of one process, and from what the user does between two
handlers with objects that were read before.

### Components

| component | state | operations | what is hard | model |
|---|---|---|---|---|
| Database connection, `mod/gonglib/gongdbconnection.cpp` | open transaction (in the server), last error | `exec`, `beginTransaction`, `commitTransaction`, `rollbackTransaction`, `getLastInsertId`, `selectNextInt` | transactions do not nest; on MySQL an inner BEGIN commits; on SQLite `exec` loses the error | `DbConnection` |
| Records, `mod/gonglib/gongdbrecord.cpp` | values and original values, `isNew`, lists of details and of original details | `read`, `clear`, `save`, `remove`, `copyRecord`, behaviours before and after each | many statements per save; the object changes before the transaction is decided | `DbRecord`, `RecordStore` |
| Edit forms, `mod/dbapp/dbappfrmeditrec.cpp`, `dbappfrmeditrecmaster.cpp` | record edited, edit mode, rows and cursor of the table, flags to read and refresh | `beginEdit`, `accept`, `cancel`, `remove`, duplicate, choose, close | which object a button works on | `EditForm`, `DbRecord` |
| Grids of details, `mod/dbapp/dbappfrmeditrecdetail.cpp` | the details in memory, current row, the form of one detail | `beginEdit`, `save`, `remove`, up and down, `addDetailIfNeeded` | a detail is edited by its position, on a copy | `LineasFactura` |
| Reference fields, `mod/dbapp/dbappsearchbox.cpp`, `dbappdbapplication.cpp` | code shown, object that holds the record, flags of the control | type, search, button, choose, insert, edit | the id saved and the code shown must be of one record | `SearchField` |
| Receipts, `mod/pagos/` | rows of COBRO; COBROS and RESTO of the invoice; the copies in two forms | `genPagos`, `delPagos`, `pagarRecibo`, `anularPagoRecibo`, `actPagos`, `actRestoFactura` | several copies of one invoice, each saved by differences; regeneration around paid receipts | `Recibos` |
| Invoices, `mod/factu/facturecfacturaventa.cpp` and its form | total, lines, receipts, entry | `save`, `remove`, `canBeginEdit` | saves that are followed by work outside their transaction | `Recibos` |
| Details and totals of an invoice, `factuitotalizablerecord.cpp`, `factumodule.cpp` | details with their notes, TOTAL, ENTREGAALBARANES, COBROS, ENTREGA, RESTO | `actTotales`, `numeraLineas`, `slotAddAlbaran`, `insertDetails`, `slotCobrar` | details come from several places and everything is computed again after each | `LineasFactura` |
| Accounting, `mod/contab/` | balances of accounts and groups, entries and lines | `actSaldosCuenta`, `regenAsiento`, `borraAsiento`, `RecalcularSaldosCuentas` | balances kept by additions and subtractions; read-add-save | `Asientos` |
| Treasury, `mod/tesoreria/` | balances of accounts, entries, `APUNTE_ID` of documents | save, remove, duplicate, counterpart, `regeneraApunte` | the same, through `getOrigValue`, and nothing recalculates | `Tesoreria` |
| Members, `mod/socias/` | totals of members, their receipts | receipts typed, paid, removed; a batch | two objects of one member in one process | `Socias` |
| Stock and chain of documents, `mod/factu/` | stock, delivery notes, invoices | lines move stock and mark notes as invoiced | what moved once must move back once | `Existencias` |
| Numbering of documents, `EmpresaModule::getMaxContador` and the forms | CONTADOR of three tables, the form's record and control | asked when a form is shown, when it is accepted, when it is saved | two users get one number | `Contadores` |
| Report engine, `mod/rtk/rtkreport.cpp`, `rtkoutput.cpp` | values and previous values, aggregates by level, page | sections, groups, footers, page breaks | footers are printed after the next record was read | `Report` |
| Scripts of reports, `rtkcompiler.cpp`, `rtkvmachine.cpp` | code, stacks, frames, globals | compile, run | layout of jumps and arguments | `Script` |
| Data dictionary, `gongdbdefinition.cpp`, `gongdbtabledefinition.cpp` | tables, fields, relations | read at start, `isRecordUsed` | leaves its loop early | `isRecordUsed` in `EditForm` |
| Widgets, `mod/qt4/` | rows and cursor, focus | | | what forms take of them, in `EditForm` and `SearchField` |
| Import and export, menus of `dbappfrmeditrecmaster.cpp`, `gongcsvutils.cpp`, `dbRecord::fromString` | a file, the table, the import under way | export, import with its options | one writer and three readers of a format; what others change meanwhile | `ImportExport` |
| Dates, `gongdate.cpp`, `modelosfiscales/fechaivabehavior.cpp` | a Julian day | day, month and year and back, days added, quarter | truncated floating point formulas | `Fechas` |
| Money, text, variants; application and settings; code generator; `contactos`, `empresa`, `ecotienda` ... | | | sequential, conversions, I/O | none |

### What makes each component correct

* **Records**: a record and its details change together or not at all, whatever fails; a detail
  never outlives its master; what the form says was saved was saved; no save touches another
  record; users who save the same record all get an answer.
* **Forms**: an edition, a removal or a choice acts on the record under the cursor; after it the
  cursor is where the user expects it; a reference that is saved is the one that is shown.
* **Receipts**: a paid receipt is neither lost nor changed until its payment is cancelled;
  splitting, joining and cancelling payments conserve the amount billed; what an invoice says was
  collected, and what is left of it, agree with its receipts.
* **Accounting, treasury, members, stock**: a quantity kept by differences is the sum of the
  rows it stands for after any sequence of changes; a document has one entry; a delivery counts
  once and is invoiced once.
* **Details of an invoice**: the form of a detail changes the detail it showed and no other; the invoice is
  the sum of its details, less what its notes were paid.
* **Numbering**: no number is given twice in a year, but for a receipt and what was left of it to pay.
* **Import and export**: what was exported comes back as it was, once, and nothing else changes.
* **Dates**: counting days never leaves the calendar; FECHAIVA is in the quarter of its invoice.
* **Reports**: every record is printed once, in order, between the header and the footer of its
  group; a footer shows the totals of its own group; sections do not overlap, and reach the footers
  of the page by no more than their margin and what their texts grow, which the engine does not measure.
  **Scripts**: the compiled code computes what the text says, and ends.

The hazards, each with the line where it bites and the properties that watch it, are in
`PROJECT.json`.

## 2. Modules

| module | models | extends / uses |
|---|---|---|
| `DbConnection` | rows, transactions and locks as the callers of dbConnection see them | |
| `DbRecord` | `dbRecord::save`, `remove` and `readRelated` of a master with a list of details, driven by the edit form | `DbConnection` |
| `RecordStore` | the abstract promise: a record with its details changes in one step | instance of it in `DbRecord` |
| `DbRecord_proofs` | theorems about `DbRecord` and that it implements `RecordStore` | `DbRecord`, `Sumas_proofs`, TLAPS |
| `EditForm` | `FrmEditRecMaster`: which record a button acts on | |
| `SearchField` | a field that refers to another record | |
| `FormsAndReports_proofs` | theorems about `SearchField`, `EditForm` and `Report` | the three, `Sumas_proofs`, TLAPS |
| `Report` | `Report::print` | |
| `Script` | compiler and stack machine of formulas | |
| `ImportExport` | a table written to a file and read back | |
| `Fechas` | dates as Julian days, the quarter of an invoice | |
| `Recibos` | receipts of an invoice: invoice form, receipts form, generation, payments | |
| `Recibos_proofs` | theorems about `Recibos` | `Recibos`, `Sumas_proofs`, TLAPS |
| `Asientos` | entries, balances of accounts, regeneration, recalculation | |
| `Contadores` | the counter of entries, receipts and purchases | |
| `Contabilidad_proofs` | theorems about `Asientos`, `Contadores` and `Fechas` | the three, `Sumas_proofs`, TLAPS |
| `Tesoreria` | entries of treasury and the balances of their accounts | |
| `Tesoreria_proofs` | theorems about it | `Tesoreria`, `Sumas_proofs`, TLAPS |
| `Sumas_proofs` | finite sets without induction: a family of them has a minimal member; what follows for sums; numbers put in order | TLAPS |
| `Socias` | receipts of members and their totals | |
| `Socias_proofs` | theorems about it | `Socias`, `Sumas_proofs`, TLAPS |
| `Existencias` | delivery notes, invoices and stock | |
| `LineasFactura` | an invoice that is edited: the grid of its details, the form of one, totals | |
| `Documentos_proofs` | theorems about the stock and about the details of an invoice | `Existencias`, `LineasFactura`, `Sumas_proofs`, TLAPS |
| `MCDbRecord`, `MCRecibos`, `MCAsientos` | instances for TLC | |
| `MCFramework` | four parts of the framework, each behaviour in one | `DbRecord`, `EditForm`, `Report`, `Script` |
| `MCGestion` | five parts, each behaviour in one | `Tesoreria`, `Socias`, `Existencias`, `SearchField`, `ImportExport` |
| `MCContadores` | entries, numbers, dates and details of an invoice, each behaviour in one | `MCAsientos`, `Contadores`, `Fechas`, `LineasFactura` |

The parts that `MCFramework`, `MCGestion` and `MCContadores` put side by side (`parte`) share no
variable; a behaviour takes one of them and leaves the others at their initial state, so that
the states add up and do not multiply. They share a run because they are of one layer of the
program.

Operators marked "Mutant:" are single changes a plausible bug would make to the definition that
follows each of them; no specification uses them. They show that a property depends on the
code it is about.

### DbConnection and DbRecord

`disk` is what is committed, `pend[c]` what the open transaction of connection `c` has written,
`View(c)` the two together. `BeginTransaction`, `CommitTransaction`, `RollbackTransaction` and
`Exec` are the four ways the code talks to the server. A row another transaction has written is
locked (`Unlocked`): the statement waits. `BeginTransaction` on MySQL commits what was open; on
SQLite it is an error nobody looks at.

`obj[c]` is the `dbRecord` of the form: `isNew`, `id`, one field `val`, whether it was modified
(`dirty`), the lines in the list, and `orig`, the ids of the details as they were read. `pc[c]`
says where the handler is:

| pc | code |
|---|---|
| `idle` | browsing; the object will be read or cleared before it is used |
| `editing` | `FrmEditRec::beginEdit` is done, the user types |
| `removing` | `removeRelated`, then UPDATE (`save`) or DELETE (`remove`) of the master |
| `insert` | INSERT of the master |
| `lines` | `saveRelated`: one INSERT per line |
| `closing` | the master was deleted, COMMIT is next |
| `failed` | an error was shown; the form stays on the object as it was left |

A save of a record that was read first deletes the original details (`removeRelated`), then
updates the master, then inserts all the lines anew (`saveRelated`, with `setNew`). A detail whose
table has relations is saved and removed with a transaction of its own (`DetailsNest`): `NestBegin`
and `NestCommit` around its statement. `StatementFails` is the catch-all handler (ROLLBACK,
rethrow; the object keeps what INSERT did to it). On SQLite a failing statement is *lost*
(`LostInsert` ...): `exec` assigns the result to an inner variable and returns success. A behaviour
may refuse (`Vetoes`; none of the repository's does, the interface lets an application's do it):
a master before the first statement or after the last (`MasterVetoed`; `MasterSkipped` where
`beforeSave` leaves the result of `save` true), a detail before its statement, where the ROLLBACK
hits the transaction whoever opened it, or after it (`DetailVetoed`).

`AtomicSaves` is the refinement: with details that do not nest, every behaviour of `DbRecord` is one
of `RecordStore`, whose only step replaces a record with all its details.

### EditForm

`form` holds the members of the form, of its table and of its record: `rows` and `cur` of the table
as it was last filled, `stored` what is in the database now, the object with its id and whether
it is new, `mustRead` and `mustRefresh`, `lastID` (the record to look for after the table is filled
again), and the modes and flags. Every handler is one action: it runs to its end, or to the question
it asks (`dialog`). Others insert, change and remove rows between two of them (`Shared`). `Refresh`
is `setView` over the rows as the query returns them now; `Sync` puts the cursor where `mLastID` is,
and on the last row if it is nowhere. Whether a save works is a choice here; how it is done is
`DbRecord`'s. `IsRecordUsed` is asked before a removal and is translated with the `break` that ends it after the first other table.

### SearchField

`codeOf` is the table referred to, `search` the field: the text of the `LineEdit`, the object with its
id and code, the flags of the control and the focus. What is typed is searched when the field
loses the focus: `Matches` is the list of conditions that `seekCode` tries in turn. One match is
taken, several open the form to choose, none may open the form to insert (`modal`). That form
copies every record it reads, saves or removes to the object, also when the choice is cancelled
afterwards: `setAside` records that the user typed something and it was put aside by the button or
by a cancelled choice, which is what `SavedAsShown` allows for.

### Report and Script

`Report` is `Report::print` as a recursion over group levels made explicit: `toPrint` are the
sections the function in course still has to print, `level` the argument of the innermost
`printGroup`. A record is read before it is known that a group has ended; to print its footers
values and aggregates are swapped with those of the record before (`r.real`, `r.prev`, `r.agg`,
`r.prevAgg`) and swapped back. A section that is hidden, suppressed, repeated (`supressDup`) or blank
(`supIfBlank`) is not printed. Its own formula may suppress it because of a record (`RunFormula`), and
is not executed again after that, so `r.supressed` only grows: the section is left out for the rest of
the report, and if it has the details, so are this record and all later ones from the totals (`LeftOut`).
A section is measured against the page before it is printed, by its own height alone (`SectionFits`),
and then put with its margins, or where its `posY` says, and with what its texts grow (`StartSection`,
`Put`); a new page prints its headers without measuring. `growth` is a number of the section, the
greatest among its texts that may grow; only the Qt output has it, which sets it to 0 in each
`startSection`. What was printed is kept in `r`, and the properties read it: they say what a reader of
the report would check, without knowing how it was made.

`FootersAreFree` is as weak as the code is: where there is room for every section, a section that has no
place of its own would be above the footers without its margin and its growth; with them it may reach
into the footers, by that much.

`Script` translates the compiler of formulas (`CompileExpr`, `CompileStmt`: push, jump, call with
arguments from the last to the first, break and continue resolved backwards) and the machine that
runs the code one instruction at a time (`vm`). `Run` gives the meaning of the parse tree by
itself, without stacks or jumps; `ScriptMeansWhatItSays` compares the two.

### ImportExport

A value is a sequence of characters; quotes, commas, ends of line, blanks and backslashes are the ones
the format cares for. `Export` writes `file`; the import is one action a line (`ImportLine`: fromString
into an empty record, `Matching` by code, fromString again into the record found, then save, or the
review form). `ReadPiece` joins physical lines while their quotes are not balanced, `NextChar` is the
loop of `tokenize` with its two look-aheads. Others change the table between the export and the
import. `Kept` says which values the format keeps, and the property speaks of files that have only
such values: the writer does not escape backslashes, and doubles quotes only in exports of the view.

### Fechas

`fecha` is the Julian day of a `Date`, to which one is added day after day; `calendario` counts the same
days with a calendar of its own. The formulas are those of the code in whole numbers: each constant
times ten thousand, so that truncation is the one of the `double` (none of the quotients comes nearer
to a whole number than a double can tell). `FechaIvaValida` is the check of the invoice form.

### Recibos

An invoice form and a receipts form in each workstation. `fra[p]` is the invoice in the first,
`rec[p]` the receipt in the second, `cache[p]` the invoice that the receipt object has read
(`pRecFactura`), `copia[p]` the one that `delPagos` reads. Every save writes only the fields that
differ from what its own copy read (`Modifica`). `paso[p]` follows the save of the invoice: save,
`delCobros` receipt by receipt (`QuitaRecibo`), `genPagos` instalment by instalment
(`GeneraRecibo`). `pago[p]` follows a payment: the amount is asked for, the receipt is paid
exactly, in part (then the rest becomes a new receipt, `NuevoRecibo`) or in excess (then the loop
goes on with another receipt, `PagaDeMas`). Amounts are whole cents; `Redondea` rounds an
instalment as the field does.

### Asientos

An entry is a list of *statements* that remain (`tareas[p]`): for each line, a balance to update
and a row to delete or insert. `LeeSaldo` and `GuardaSaldo` are the two halves of
`actSaldosCuenta`, which then goes on with the nearest group above that exists (`CuentaPadre`).
`RegenAsiento` is what a document does when it is saved again; `RecalcularSaldosCuentas` zeroes all
the balances and adds every entry. All tables have relations here, so that each statement is
committed by the BEGIN of the next: a failure (`Falla`) leaves what was done. `sesion[p]` is the
company of the session, which is the filter of every account that is looked for.

### Contadores

`fila[i]` is a row with its table, the year of its session and its CONTADOR (0 stands for NULL);
`ficha[f]` a form: the number in its record (`rec`) and in its control (`edit`), which are not the
same while `validate` has put a new one in the control only. Entries and receipts are counted when
the form is shown, purchases when the kind of document is known; Grabar counts again and asks when
another row has the number ("El contador ha cambiado"); `save` counts what has none. Receipts that are
generated (`GeneraCobro`) or paid (`PagaCobro`) are saved without a form. Of one that is paid in part
what is left is saved as another, and `setNew` leaves it the CONTADOR of the first (`Resto`,
`FilaNueva`): both rows have one number, and one `origen`, the row it was given to. `limpia` says
that the number saved is the one counted, with nothing saved in between: the warning answered Yes
and the row saved by another in that instant are what `ContadoresDistintos` allows for, besides rows
of one `origen`.

### LineasFactura

`renglones` are the details in memory (`pDetalles`) in the order of the grid, `cursor` its current row,
`detalle` the form of one detail while it is open: its mode, the row it works on and the copy it shows.
`BeginEdit` opens it and `AceptaDetalle` or `CancelaDetalle` ends it, with what `beginEdit` does
afterwards; `ConVacio` is the empty detail that is kept at the end to type in, and is neither numbered nor
saved. Details also come from delivery notes (`SlotAddAlbaran`) and other documents (`InsertDetails`), are
moved, and go with their note (`QuitaLaNota`: a detail of a note cannot be removed alone). After each
of these `UpdateFromDetails` numbers them and computes `totales` again: `Entregas` is the loop that
subtracts what the notes were paid. `GrabaYModifica` saves and edits again; what is stored is
`DbRecord`'s concern, and the stock that moves is `Existencias`'.

### Tesoreria, Socias, Existencias

The three keep a quantity by differences. Each collects in a variable what the code does not allow
for (`sospechoso`, `sospechosa`, `dudoso`: a lost update, a record changed under the form, a crash
between two statements, a note in two invoices), and its property speaks of the rest.

* `Tesoreria`: `tareas[p]` are the statements that remain: the row, then the balance it moves, then
  the document that is told the id of its entry (`APUNTE_ID`). `ficha[p]` is the entry as its form
  read it, which is what a save takes from the account. A failure loses what remains.
  `Apuntado(q)` adds the entries stored in account `q`, `Pendiente(q)` what the statements that remain
  still put in it.
* `Socias`: `ventana[w]` is the receipt object of a window, `titular[w]` the member object it holds.
  `CobroBehavior` adds to the member the difference with what was read of the receipt; `actPagos`
  sums what was collected. `pasos[w]` is what remains of a batch.
* `Existencias`: a line of a document moves the stock of its article and, through `Factor`, of the
  article that is its base. `Cuenta` says what a line moves: nothing for a line of a sales invoice
  that comes from a note. Saving a document takes away what its old lines moved, by the type it has
  *now*, and adds the new ones.

## 3. Runs

Bounds are the constants of each `.cfg`. `MaxId`, `MaxRecibos`, `MaxApuntes` and `MaxCobros` bound
the rows ever inserted (they are the server's autoincrement counters), `MaxLines` and `MaxLineas`
the length of a list, `MaxFallos` the failures, `MaxSaves` and `MaxGrabadas` the saves.

| run | question | states | result |
|---|---|---|---|
| Framework | Records: do save and remove implement `RecordStore`, with failures and crashes at any statement? Forms: do they act on the record under the cursor while others write? Reports and scripts: is what is printed and computed right? | 305 000 | 10 properties hold |
| RecordNested | details that BEGIN and COMMIT on their own: what is left? | 43 000 | `NoOrphans`, `LinesAsSaved`, `SavedAsTyped`, `RemovedIsGone` hold |
| RecordSharedRecord | two clients save and remove the same record, with refusals, failures and retries: does each get an answer? | 112 000 | `EveryAcceptAnswered` holds |
| RecordSqlite | lost statements, refusals, retries | 64 000 | `OthersUntouched` holds |
| RecordRetryInsert | accept again after an INSERT that was rolled back | | `SavedAsTyped` violated |
| RecibosCobrar | two invoices of two instalments, saved again and again while their receipts are paid, split, joined, cancelled and removed | 290 000 | five properties hold |
| RecibosFallos | one invoice, failures and deaths anywhere | 538 000 | `RecibosCuadrados`, `PagadoNoSePierde`, `TotalConCobros` hold |
| RecibosPagadaSeRegenera | an invoice that was collected in two parts is saved again | | `PagadaNoGenera` violated |
| RecibosDosPuestos | a receipt paid while another workstation saves its invoice | | `PagadoNoSePierde` violated |
| Contabilidad | two entries in one company, a failure, recalculations; two workstations that number documents of two years; dates day by day; the details of an invoice | 742 000 | `SaldosCuadran`, `RecalculoCuadra`, `ContadoresDistintos`, `FechasAlDia`, `TotalesDeLasLineas`, `CadaFormularioLoSuyo` and the types hold |
| AsientosRegenera | a document that rebuilds its entry with `creaAsientoSimple` | | `SaldosCuadran` violated |
| Gestion | treasury with two workstations and a failure; members with two windows; notes and invoices with two forms; a reference field; a table exported and imported | 1 223 000 | `SaldosCuadran`, `UnApuntePorDocumento`, `TotalesDelMiembro`, `UnCobroPorRemesa`, `ExistenciasCuadran`, `FacturadoUnaVez`, `SavedAsShown`, `ImportedAsExported` and the types hold |

The properties of Framework: `AtomicSaves` for records; `RecordUnderCursor` and `CursorAfterEdition`
for forms; `PrintedInOrder`, `TotalsOfTheGroup` and `PagesAreWhole` for reports;
`ScriptMeansWhatItSays` for scripts; `ReportsAndScriptsEnd`; and the types.

Why the bounds are enough for what they show:

* *Records*: an insertion with two lines takes three ids, its change with a line two more
  (`MaxId = 5` in RecordNested), so that inserting, changing, failing in the middle and removing
  all happen; two masters fit when they have few lines, which `OthersUntouched` and
  `AtomicSaves` need. Running out of ids is itself a failed INSERT. RecordSharedRecord has two
  ids: a master with a line, which one client may remove while the other one drops its line and
  updates it. That is two rows, the fewest on which two clients can wait for each other.
* *Forms*: two records at first and four ids let an insertion come before and after the cursor, and
  one of the four is outside the filter, so that a record that was just saved may not be shown. A
  removal of one and of several rows, with and without a neighbour, happens.
* *Reports*: five reports (an empty one, two groups, a page for each group, no groups, margins and
  texts that grow; with headers and footers of the page, a footer of the group at a place of its own,
  and sections that are hidden, suppressed, repeated or blank) over every input of up to three records,
  which may ask for suppression, one of their values negative and one zero; a group that changes at the inner
  level, at the outer one and at both; pages of nine lines, which three records overflow. *Scripts*: every
  operator and each kind of statement, alone and nested in another (loops in loops with break and continue, calls
  in arguments, recursion).
* *Receipts*: two instalments and four receipts ever allow a split, a payment of two receipts
  and a regeneration around paid ones. Amounts 1 to 4 distinguish less, equal and more; an odd
  rest halved shows the rounding.
* *Entries*: two working accounts under a subgroup that does not exist under a group that does,
  so that the search for the group above skips a level; an entry of two lines next to one of one.
* *Numbers*: two forms of two years and three rows: one may be saved between the count and the
  INSERT of the other, in the same year or in another one, and a receipt may be paid in part beside a
  third row. `TerceraConResto` keeps the states few: all three rows are there only if two of them are
  such a receipt and its rest, and then the sessions are of one year, as they are while rows have no number.
* *Details*: three rows hold the two details of a note around one of another note, or next to an empty
  row; two texts tell the details apart; two notes, both paid in part; an invoice and an order to bring
  details from. The invoice starts with and without a client, and with each form of payment.
* *Treasury*: two accounts, a document and two entries ever (an entry with its counterpart is
  two), with one failure. *Members*: one who owes and one who is ignored, two receipts. *Stock*:
  a box and the can it is a bundle of, one note and two invoices that may take it. Of these three
  and of `MaxSospechosos`, `MaxSospechas`, `MaxDudas` = 0: a behaviour goes on until something the
  code does not allow for has happened to one account, member or article, finishes what is under
  way, and the property holds for the others.
* *References*: two records, of which the code of one begins as that of the other, and one of which
  others change and remove; texts that match none, one and both, and each set of flags that the
  forms of the repository ask for.

* *Files*: a text of up to four characters out of a letter, a quote, a comma and an end of line, alone
  or beside a second row with a quote or a comma in its code, and five texts the format does not keep;
  one change by others (a text, a removal, another row) between export and import. Four characters
  hold a quote on each side of a line break, and a doubled quote next to a comma.
* *Dates*: ten years from 15 October 1582, and ten about the ends of seven centuries. Dates before the
  reform are left out (`daysInMonth` uses the Gregorian leap years for them), and so is the year 4000,
  which `isLeap` does not take for a leap year while `JulianToDMY` does. FECHAIVA is tried on the day
  before, the day after and 91 days after every date, so that every limit of a quarter is met.

`CHECK_DEADLOCK FALSE` is set in Framework and Gestion, whose parts end (a report is printed, a form
is closed, a bound on saves is reached), and in RecibosCobrar, RecibosPagadaSeRegenera and
RecibosDosPuestos, where the bound on receipts stands in a guard, and a generation that would exceed
it stops there. (In RecibosFallos a failure is always an exit.) The record runs treat the bound as
a failed INSERT.

**Fairness.** `DbRecord!FairSpec` has strong fairness of `Outcome(c)`, "the next statement of `c`'s
save returns". The save runs in the form's thread and waits for nothing but the server; a
statement that waits for a row lock is enabled again and again as others finish, and the server
grants locks in the order of request, hence strong and not weak fairness. `Report` and `Script` have
weak fairness of their step: both run in one thread from beginning to end, and wait for nobody.
Nothing obliges a statement to fail, a user to press a button, or a process to die. There are no
liveness properties in `Recibos`: the payment loop can start again for ever (`VuelveAEmpezar`,
an uninitialised `moneda_id`), and every other wait is for the user, as in the modules that are
not named here.

**Symmetry** is used for line contents, invoices, workstations, forms, rows and years, which are only
compared with each other, and never in a run with a liveness property.

## 4. Proofs

| theorem | says | rests on |
|---|---|---|
| `DbRecord_proofs!TypeCorrect` | every variable keeps its type | all the constants free: any clients, either database, failures, refusals, retries |
| `DbRecord_proofs!OthersAreUntouched` | a save or a removal touches no record, nor a detail of one, that no form is editing | any clients, either database, failures, lost statements, refusals; nobody accepts a duplicate again after an error |
| `DbRecord_proofs!OneClientNoOrphans` | no stored detail is without its stored master, at any moment | one client, MySQL, no refusals, no second accept after an error |
| `DbRecord_proofs!OneClientRemovedIsGone` | a removal that says it is done left neither the record nor any detail | the same |
| `DbRecord_proofs!OneClientLinesAsSaved` | while lines are inserted, those inserted so far are stored, in order, and no other | the same |
| `DbRecord_proofs!OneClientSavedAsTyped` | a save that succeeds leaves the record and the lines that were typed, in order | the same |
| `DbRecord_proofs!OneClientAtomicSaves` | `DbRecord` implements `RecordStore`: a record is stored whole, in one step, or not at all | the same, and details open no transactions of their own |
| `Recibos_proofs!UnPuestoCuadra` | a pending receipt is owed in full, a paid one owes nothing | one workstation |
| `Recibos_proofs!UnPuestoNoPierdePagado` | a paid receipt stays as it was paid until its payment is cancelled | one workstation |
| `Recibos_proofs!UnPuestoRespetaTotales` | an invoice with receipts already paid keeps its total, and is not removed | one workstation, one form at a time, and `FilasDistintas` |
| `Recibos_proofs!PasoIInv` | each step keeps the invariant that `UnPuestoCuadra` rests on, and all the others below it | one workstation |
| `Recibos_proofs!TiposSiempre` | every variable keeps its type | any workstations, whatever fails; `NadaEsOtra` |
| `Recibos_proofs!UnPuestoCuadraResto` | what is left of an invoice is its total less what it says was collected | one workstation, one form at a time, whatever fails; `NadaEsOtra`, `FilasDistintas` |
| `Recibos_proofs!UnPuestoCobrosAlDia` | a receipt that is removed or accepted leaves in its invoice what its receipts say was collected | the same, and the receipts form is closed between two receipts (`Reabrir`) |
| `Recibos_proofs!UnPuestoConservaLoFacturado` | paying and cancelling payments changes nothing of what the receipts of an invoice add up to | one workstation, no failures; `NadaEsOtra` |
| `Recibos_proofs!UnPuestoFacturaElResto` | when receipts have been generated they add up to the total of the invoice | one workstation, no failures, instalments that differ in their dates; `NadaEsOtra` |
| `FormsAndReports_proofs!SavesWhatItShows` | the id saved is of the record whose code is shown, unless something was put aside | all the constants free |
| `FormsAndReports_proofs!ActsOnTheCursor` | what a button of the table edits, shows, deletes or chooses is the record under the cursor, or empty if another user removed that one | no insertion is refused, nobody else writes under a form that chooses; any records, filter, refusals of other modes |
| `FormsAndReports_proofs!CursorBackAfterEdition` | when an edition ends the cursor is on its record, or on the last row if that one is not shown, and after a removal on the neighbour that was chosen before it | the same, and the table shows a record when the form is opened or nobody else writes |
| `FormsAndReports_proofs!TypesOfTheForm` | every field of the form keeps its type; an object is new when it has no id; the cursor is on a row while there is one | the same |
| `FormsAndReports_proofs!TotalsOfEveryGroup` | the footer of a group has the totals of the records of the group and of no other, and the report footer those of all, but for the first record that has the details suppressed and all that come after it | any report, records, groups, pages; one details section at most may be suppressed (`SupressOnce`) |
| `FormsAndReports_proofs!TypesOfTheReport` | the state of `print` keeps its types; what is printed was read | all the constants free |
| `Socias_proofs!OnePerBatch` | no member is charged twice by one batch of receipts | all the constants free: any windows, members, receipts |
| `Socias_proofs!TotalesSiempre` | when no window works, the totals of a member are what its receipts add up to, unless a window held the member as it was before, or another | the same; finitely many members |
| `Socias_proofs!TiposDeSocias` | every variable keeps its type | the same |
| `Tesoreria_proofs!SaldosCuadranSiempre` | the balance of an account, with what is on its way to it, is the sum of its entries | all the constants free: any accounts, documents, amounts, failures; finitely many workstations |
| `Tesoreria_proofs!UnApuntePorDocumentoSiempre` | a document nobody is saving has one entry, the one it says, or none when it has no amount or no account | the same |
| `Tesoreria_proofs!ConservaSiempre` | no entry is written under an id already given, and what the user may not touch of an entry stays: the document it comes from, its number, its other account | the same |
| `Tesoreria_proofs!TypeOKSiempre` | every variable keeps its type | the same |
| `Documentos_proofs!ExistenciasSiempre` | the stock of an article is what the documents stored say that came in or went out | any forms; finitely many documents and articles, whatever is made of what, as long as no bundle contains itself |
| `Documentos_proofs!FacturadoSiempre` | a note is marked as invoiced exactly while one invoice has its details, all of them | the same |
| `Documentos_proofs!TiposDeExistencias` | every variable keeps its type, no note has details of another, no invoice is marked | the same |
| `Documentos_proofs!TotalesDeLasLineasSiempre` | an invoice that has details is their sum, less what each note was paid, once when its details are together, and less what was paid and is owed; the numbers of its details rise | all the constants free: any texts, amounts, notes, origins, lists of any length |
| `Documentos_proofs!CadaFormularioLoSuyoSiempre` | the form of a detail opens on the detail under the cursor or on an empty one, and leaves the others as they were | the same |
| `Documentos_proofs!TiposDeLineas` | every variable keeps its type | the same |
| `Contabilidad_proofs!UnPuestoSaldosCuadran` | when nobody works and nothing has failed, the balance of an account is what its lines and those of the accounts below it add up to | one workstation, one company, documents that remove their entry once (`~Simple`); any accounts, groups, amounts; finitely many codes and entries |
| `Contabilidad_proofs!UnPuestoRecalculoCuadra` | when a recalculation ends so it is, whatever failed before | the same |
| `Contabilidad_proofs!TiposDeAsientos` | every variable keeps its type | any workstations, companies, failures, entries removed twice |
| `Contabilidad_proofs!GivenOnce` | no number is given twice in a year, but for a receipt and what was left of it to pay (`origen`) and for what `limpia` excepts | all the constants free: any forms, years, rows |
| `Contabilidad_proofs!FechasAlDiaSiempre` | dates turn into Julian days and back without leaving the calendar, and the FECHAIVA accepted are those of the quarter | any dates and days counted from them, from 15 October 1582 to 28 February 4000 (`DentroDelCalendario`); FECHAIVA may be before the correction |

`FormsAndReports_proofs` (for `SearchField`) and `Contabilidad_proofs` (for `Contadores`) prove their type invariants as well (`TypeCorrect`).

**Why `NoOrphans` needs a strengthening.** It speaks of `disk`, but with nested transactions any
BEGIN or COMMIT turns `View(c)` into `disk`. The inductive invariant `IInv` says of both that
details have masters (`WithMasters`) and that ids not yet given are free (`Fresh`); that a
transaction is open only in a save, and nothing is pending outside one (`Transactions`); and that
the handler is in step with the database (`Placed`): the object was read from it, what is still to be
deleted is exactly the details that are left, the master stands while lines are inserted under
it, and nothing is left of it after DELETE. With two clients `Placed` is false, because the other
one changes the record under the form; with a second accept it is false because of the finding
below; on SQLite because statements are lost. The three assumptions of the theorem are these.

**What is saved is what was typed** rests on `AsTyped` besides: what the connection sees under the id of
the form is the row the form shows, unless an UPDATE of it is still to be made, and while lines are
inserted, the first `at - 1` of them and no other. `StoredLines` lists the details in the order of their ids;
a sequence that puts a finite set of numbers in order exists and is unique (`SortedExists`, `OrderUnique`), a
new id is above all the others (`Fresh`), so a detail more is a line more at the end (`LineAdded`).

**The refinement** needs that everything a save or a removal has written waits in one transaction and
is of the record of its form (`OneTransaction`, on top of `AsTyped`). It is false when details nest, for the BEGIN
of the first detail commits what came before. Each step of `DbRecord` then asks, drops, grants or stutters
in `RecordStore` (`Asks`, `Drops`, `Grants`, `Quiet`): the COMMIT is the grant, and an error, a crash or a statement
that fails is a request dropped. `RequestAssumption`, that the mark "as it was" of a request is none of the
records, holds of every instance: it is a model value.

**Why `OthersUntouched` needs one**, with any number of clients. A row is written when its
transaction has it locked and stored when it ends, so `WritesItsOwn` says of what is pending that it
goes over rows of the record of its form; `DeletesItsOwn` says of the ids still to be deleted
that they are of details of that record, or of nothing any more, for every connection. It takes that an id
is never given again, that no two transactions write one row, and that none turns a detail into a master
(`Shared`). The proof looks at one id at a time (`Cell`): in any step it stays, what was pending under it is
committed or forgotten, or something is written that `MayWrite` allows. The hypothesis is what the code
needs: a duplicate keeps the original details of the record it was read from, and a second accept would
delete them.

**Why the receipts need one.** A payment writes the difference between two states of an object in
memory. `Coherente` says that the object in the receipts form is the row stored, `CobroEnCurso`
ties the phase of a payment to the state of its receipt, and `NoSeQuitaPagado` says that what
`delPagos` still has to delete is pending. With two workstations the last is false: that is the
finding of RecibosDosPuestos.

The total of a paid invoice needs `EdicionFiel` besides: `canBeginEdit` looks at the receipts when the
edition begins and the total is written when it is saved, so what the form read must still be what is
stored in between, also after a removal of `delPagos` failed and the form was left editing what it had
saved. With both forms open a receipt could be paid in between, hence "one form at a time".

RESTO is computed in three objects, each saved with only the fields that changed in it: the form's,
the copy that `delPagos` fetches for each receipt, and the one the receipts form keeps. `CopiasAlDia` says
that each holds what is stored, so that what a save leaves out is right already; `DeUnaFactura` that the
copy is of the invoice whose receipts are being removed. For COBROS, `DeSuFactura` says the same of the
copy in the receipts form: it is of the invoice of the receipt on the screen. This is what `Reabrir`
is for, as the object of the form keeps the invoice of the receipt before.

What the receipts add up to is kept by a payment because its receipt is still there when it is saved
(`PagoVivo`); a failure between the part that was paid and the new receipt for the rest breaks it, and is
not repaired. During a generation `Generando` counts: what is invoiced is what was collected and `plazo
- 1` parts, what is pending is due before the part that comes next, and before it begins `delPagos` has every
pending receipt in `quitar`. `genPagos` looks for a receipt of the same date and amount before it inserts
one, so two instalments on one date are one receipt, and a failed generation leaves some out: hence the
hypotheses. The arithmetic (`RedondeaExacto`, `PartesEnteras`) is that with whole parts the last is like the
others.

`NadaEsOtra` and `FilasDistintas` say that the marks of absence are no rows, nor objects of a form. TLA+
has no types: a constant `Nada` that equals a row would make a stored receipt a missing one. Model values
satisfy both.

**Why the reference field needs one.** That the id is right when the form is saved depends on every
way the focus came there. `LeftIsSearched` says that a text that was typed and is not under the
focus has been searched; `ShowsItsRecord` that a field that is not being typed in shows the code its
object holds; `ReturnsOk` says the same of the field that waits under a modal form, which is where
the cancelled choice comes in.

**Why the form needs one.** The object is read only when `mustRead` says so. `Held` says that at the table
it will be read or is already the record of the cursor. It is lost during an edition, which ends with
another object than the cursor's, and found again because what was saved sets `mustRefresh`, and the
table that is filled again sets `mustRead` (`Resting`). While a record is looked at nothing is saved,
so the object has to stay the cursor's (`Good`), and this is what the two hypotheses are for: an
insertion that is refused has already emptied the object, and another form's save moves the cursor of a
form that was opened to choose while it shows a record. TLC finds `RecordUnderCursor` violated
without either. The rows are numbers in order, and that a finite set of them can be put in order
is proved too (`Sumas_proofs!SortedExists`), over the well-founded inclusion of finite sets.

Where the cursor goes is decided in three places: a handler says which record to look for (`mLastID`), the
table is filled again, and `Sync` looks for it there. `AtLast` says what holds once all three have happened:
the cursor is on that record, or that record is not shown and the cursor is on the last row. It is false
between them, so `Place` asks for it unless the table is still to be filled, and `Placed` says when
that cannot be: not while the form browses, nor while a question is open over a table that is shown.
After a removal the neighbour was chosen from the rows as they were before it; that the cursor ends on
it follows, when those rows were up to date, from both tables showing their records in the same
order (`NeighbourOf`). TLC checked `Placed` as an invariant before it was proved.
The last hypothesis was found by the proof: a form that is opened over an empty table looks for no
record (`mLastID` is 0, and filling the table again does not change it), so when others add records and
the first row is then removed, the cursor goes to the last one. TLC finds `CursorAfterEdition` violated with
`FirstRecords = 0`.

**Why the counter needs one.** `ContadoresDistintos` is about rows; what keeps it is in the forms.
`EsElUltimo` says that a form whose count is still good (`limpia`, which a save of another form
takes away) has a number greater than every row its session sees; `SoloAlGrabar` that only a form
that is saving may claim so; `SinUsarlo` that there are no numbers at all before the setting is on.
What is left of a receipt paid in part is inserted with a number that was not counted again: either
the receipt it comes from still has it, and then the new row is alike in number, year and `origen`
(`Copia`), so that it differs from every other row where that one does; or it does not, and then the
new row is not `limpia`.

**Why dates need one.** The formulas of `gongdate.cpp` count years that begin in March, so that the leap day
comes last. A day is such a year and its number in it, from 123 to 488 (`EsDia`). What is proved of them is
arithmetic with divisions by constants: a date gives one of these days, day by day (`DelCalendario`,
`DiaSiguiente`); `DMYtoJulian` gives its Julian day (`Ida`), and `JulianToDMY` gives it back (`Vuelta`), where
the century it corrects for is the one the day is in (`Siglo`), the last day of a century that is not leap
being the tight case; every Julian day from the correction on is one of them (`EsUnDia`). For FECHAIVA quarters
are shown to follow one another without gaps, and 93 days to end in the next one, also in 1582, whose fourth
quarter begins before the correction. 29 February 4000 is left out because `isLeap` says there is none: counting
days reaches it, and typing it is refused.

**Why the balances of accounts need one.** A line is written after the balances of its account and of all
the groups above have been, statement by statement, so in between nothing agrees. `Cuadra` gives every
statement that remains a weight for an account (`Peso`): what it will add to its balance, less what it will
do to the lines that count in it. The balance and these weights are what the lines add up to in every state.
An entry that is removed or made has weight zero, as each line comes beside the change of balance it
goes with; one statement of the balance is replaced by the same for the group above, so its weight is counted
in its account and in all those above (`CaeSube`, by induction on the level of a code: `SuperiorAssumption`,
the code of a group is shorter than those below it). A recalculation starts from zero with every entry to be
read, whose weights are all the lines there are, each in one entry; this is why it repairs what a failure
left. `PorBorrar` says that the lines still to be removed are there, each once: with the finding of
AsientosRegenera it is false, hence `~Simple`. `LeeBien` says that the balance that was read is the one
stored: with two workstations it is false, and one of two amounts is lost. With two companies a recalculation
adds to the accounts of the other. TLC checks the invariant on the instance of Contabilidad and finds the
properties violated without each of these hypotheses. `AsientoAssumption` (finitely many entries) is what
makes the list of a recalculation exist; `NadaAssumption` that the mark of absence is no line.

**Why the batch needs one.** `UnCobroPorRemesa` counts stored receipts, but a window writes back a
whole row it read before. `MismoCobro` says that this row and the one stored are of the same member
and batch, so that no write turns a receipt into another's; it needs `SinEstrenar`: the id of a
removed receipt is never given again, and so a window that still shows it cannot meet a new one.

**Why the totals of a member need one.** `TotalesDelMiembro` speaks of moments at which no window
works; in between the receipt is written and the member is not. `EnCurso` says what is missing: what
the behaviour of the receipt will add (`PorGuardar`) or take away (`PorBorrar`), or a sum of the payments of
which the object in memory is the stored member (`PorSumar`). The behaviour of a removal leaves PAGOS as it
was, and so the invariant has the order of what is left to do as well (`EnOrden`): a sum comes right
after a removal, and before the next receipt is looked at, which is what makes a removal of all the
receipts of a member through one object come out right. `IInv`, the invariant of the batch, gives what
this one rests on: the receipt that a form writes is of the member the form read.

**Why the treasury needs one.** `SaldosCuadran` counts what is on its way (`Pendiente`), so that it holds
between the row and the balance too; with the types it is inductive. That a balance is an
integer at all needs `Referencias`: an id that a form, a document or a statement holds was given, and
the entry under it is gone or of that same document. `UnApuntePorDocumento` speaks of documents
nobody is saving, so `Documental` says of the others where their save is (`EnFase`): the old
entry is to be read, or to be removed as it is stored, or is gone, and the new one to be inserted, or
noted in the document; one workstation has all of it and no other any. What the code does not
allow for takes the account or the document into `sospechoso`, in the step in which it happens; the
proof shows that nothing else breaks the balance. `ConservaSiempre` is the step from one state
to the next that this rests on.

**Why stock and the chain of documents need one.** A save takes out what its form read and puts in what it
has now, so both properties rest on `LoLeido`: what was read is what is stored unless the document was
saved in between, and then the save puts in doubt all that it touches. The mark of a note is written by
whoever saves an invoice, for the details removed and then for those saved; `NotaBien` therefore counts
the invoices that have details of the note whether their row is still there or not, and has them all be
in at most one of them. A sales detail that comes from a note moves nothing, but one of a purchase does, and
the note did already: `Traidas` says that in purchases no detail from a note is of an article that is
not in doubt, nor of a bundle that contains it. Both ways of saving are brought to one description of what is
left behind (`Graba`, `Deja`, `DejaStock`), and then the sum over the documents changes in one term. `Factor`
is a function defined by recursion along a chain of bundles: that it exists is proved with the level of an
article (`BaseAssumption`: no article is its own base at any distance, for which `actStocks` would not
end) and a minimal article for which it would not be an integer. The list of the details of a note is
a fold over the list (`Filtra`), for which the prover needs to be told what it does with one detail more.

**Why the totals of an invoice need one.** `actTotales` runs after most changes of the details, so
`Cuadrada`, the totals are those of the list, is what has to be kept by what does *not* run it: a detail more
to type in, which is empty, while another form opens; to save and read again, which leaves the empty
ones out; a change of how it is paid, and a payment, which move only COBROS, ENTREGA and RESTO. So most of the
proof is about lists: a list of which some places are taken is said with what puts those places in order
(`Elegidos`), which is unique (`OrderUnique`), and from that the list without its empty details says the
same, adds up the same and has the same notes (`EscritosIgual`, `ConVacioIgual`, `NumeraIgual`). That a
note is subtracted once is a function from the details where the note changes onto the notes, one to one when
those of a note are together (`CadaNotaUnaVez`). `CadaFormularioLoSuyo` needs of a form that is open that
its row is still one of the list and, if it is to insert, that this is the empty one that is last
(`DetalleBien`); then what a removal or a change leaves is put together again from what was before
it and after it (`Partida`).

**Why the totals of a group need one.** `TotalsOfTheGroup` speaks of what is on paper, and a footer gets
there when the record after its group was read and added to every level. `Aggregates` says, for each
phase of `printGroup`, what both copies of the aggregates are: the totals of the groups of the record
that was read, with it (`With`) and without it (`Before`), or, while groups are closed, those up to
the record before (`Upto`) and the same with the new one. That the right one of the two is in place
needs to know which record the values are of and that the group to be closed last is the one which
the new record begins (`Position`): when `CloseGroup` swaps back the levels above it and resets the
others, that gives `With` again, level by level (`BeforeNext`). A suppressed record is taken out by
exchanging the copies, so what is left to print must have one section at most that does it
(`PendingOnce`); with two of them the second puts the record back, which is why the theorem supposes
`SupressOnce`. Which records are taken out depends on what happened before: `Leaving` says, for each phase,
that the details are suppressed for good (`Gone`) exactly if one of the records whose details were
printed so far asked for it (`LeftOut`), which is what makes the next record be left out or not
(`LeftOutNext`); that nothing else gets into `r.supressed` than sections which may be there is `Marks`.
The totals are stated over the records (`Totals` of `Counted`), and that adding a value
gives the totals of one record more is `TotalsAdd`. Printing a page header or footer in the middle touches
none of this: the loops over their sections are folds, which are followed along the sequence of states they go
through (`Folds`), unique and existing by a minimal counterexample.

Sums are folds, which are recursive, and the library's induction over finite sets is out of reach (its
theorem takes an operator). `Sumas_proofs` does without: a non-empty family of finite subsets has a
minimal member (`Minimal`), so a property of sums that fails for some set fails for one of which
every smaller set has it. From that come what a sum of integers is (`SumaEntera`), that it
changes by what one term changes (`SumaTras`), and the sum of a sum of functions.

Only model-checked: liveness; everything about `Script`, whose compiler is recursive; the order of the
lines of a report (`PrintedInOrder`) and its pages (`PagesAreWhole`), and what a file brings back
(`ImportedAsExported`), which compare sequences that are put together record by record, an induction over
data; and everything about more than one workstation in `Recibos` but its types.

## 5. Disagreements between the code and what it says

Each has a run and an entry under "findings" in `PROJECT.json`:

1. **A failed insertion cannot be retried** (RecordRetryInsert). `SQLInsert` makes the object not
   new at once; after the ROLLBACK a second accept UPDATEs a row that does not exist.
2. **A collected invoice is billed again** (RecibosPagadaSeRegenera). Paying brings RESTO up to date
   in a copy that is not saved, so the next save of the invoice finds a COBROS without the payments. With
   its only receipt paid in two parts, of 1 and 1, a third one of 2 is inserted. (Paid at once, the one
   to be generated is found to exist and only announced.)
3. **A paid receipt is deleted** (RecibosDosPuestos) by the save of its invoice in another
   workstation.
4. **A regenerated entry is subtracted twice** (AsientosRegenera) when `creaAsientoSimple` removes
   what `regenAsiento` has already removed.

Others that TLC shows on variations of the runs, or that were seen while reading, and that have no
run of their own:

* *Records*: two editors of one record leave the lines of both, and two removers may leave details;
  a duplicate keeps the original details of the record it was read from, which a retry then
  deletes; on SQLite a save is reported although its statements failed.
* *Forms*: Modify on a row that another user removed inserts a new one; an insertion empties the
  object before `canBeginEdit` may refuse it (`pagosfrmeditcobro.cpp:913`); a form opened to choose that
  shows a record is refreshed by another form's save, and then chooses or edits another record; `canClose` clears flags with
  `& !flag` (`dbappfrmeditrecmaster.cpp:678`); when the table was empty as the form was opened and others have
  filled it since, the first removal leaves the cursor on the last row, where the code means to "moverse al siguiente o
  anterior" (`dbappfrmeditrecmaster.cpp:567`); `isRecordUsed` looks into the first other table only.
* *References*: when the button, F3 or Ctrl+M put aside a code that was typed and the choice is
  cancelled, the form saves another reference than the code it shows; looking at a record in the
  form to choose and cancelling changes the reference.
* *Receipts*: a failure between the two saves of a partial payment loses the rest; with the receipts
  form open beside the invoice form the total of an invoice with paid receipts can change; an
  instalment equal to a paid receipt is announced and not saved (`pagosipagablerecord.cpp:233`).
* *Entries*: two workstations that save entries on one account lose one of the two amounts; with
  two companies (`Empresas = {e1, e2}`) TLC finds `RecalculoCuadra` violated: a recalculation adds the
  entries of one company to the accounts of the other (`contabrecapunte.cpp:52`).
* *Numbers*: `gather` runs before `validate`, which puts the new counter only in the control: after
  "El nuevo contador es %d" and Yes the *old* one is saved; the unique index on ASIENTO.CONTADOR
  spans all years and companies while the count is made for one of each; what is left of a receipt
  that is paid in part has the CONTADOR of the receipt that was paid (`pagosipagablerecord.cpp:522`,
  `pagosreccobro.cpp:108` counts only what is 0).
* *Details of an invoice*: when the last detail is not an empty one, Modify and Duplicate open the new
  empty detail and not the one under the cursor; Duplicate writes over the detail, even one of a note, instead of
  adding (`dbappfrmeditrecdetail.cpp:185`); payments of a note are subtracted twice when a detail of another
  note lies between its own (`factuitotalizablerecord.cpp:101`), and ENTREGAALBARANES stays when the
  last detail goes; ENTREGA of a cash invoice stays when the form of payment becomes a deferred one;
  `insertDetails` into an invoice without client brings COBROS, ENTREGA and `mIsNew` of another invoice.
* *Treasury*: the counterpart is made again on each modification and never on insertion
  (`tesoreriarecapuntetesoreria.cpp:161`); a duplicate subtracts the original; nothing recalculates a
  balance after a lost update or a crash.
* *Members*: saving a member deletes all its receipts, the paid ones too (`sociasrecmiembro.cpp:99`); the
  receipt object keeps the first member it read; a batch of several instalments makes only the first.
* *Stock*: lines of a purchase invoice that come from a note count twice
  (`facturecfacturacompradet.cpp:35`); changing the type of a document moves back what never moved; a
  copied invoice keeps the notes of the original.
* *Files*: "Registro actual" exports no record (`dbappfrmeditrecmaster.cpp:1632` leaves the loop);
  all-fields exports do not double quotes; a backslash at the end of a value takes the next line along;
  a column of another table makes `fromString` put that table's definition into the record
  (`gongdbrecordext.cpp:378`), which is then looked for and saved under it.
* *Dates*: `firstDayOfYear` is the first day of the current month (`gongdate.cpp:192`), which is what the
  form that generates members' receipts proposes as the first date.
* *Reports*: the page number of a footer is wrong after a group footer began the page; of two
  suppressed detail sections a record is counted twice (`rtkreport.cpp:1543`); a section that its own
  formula suppresses for one record is not printed for any later one, nor are those added to the totals
  if it has the details, as the formula that would take it back is not executed (`rtkreport.cpp:812`);
  `sectionFits` measures neither margins nor growth (`rtkoutput.cpp:209`), so that a section with them,
  as in `mod/factu/share/informes/estadcompraventa_comun.inc:449`, may be printed over the footers of
  the page. *Scripts*: a call within
  an argument that is not the last one loses the later arguments (`rtkvmachine.cpp:92`); `%` and `/=` by
  zero end the program.

## 6. Not modelled

* Widgets other than what forms take of them, menus, settings, the code generator:
  sequential, I/O. Of files, columns of other tables, other separators and number formats.
* One-to-one and many-to-one relations saved along with a master; filters; structure changes.
* Discounts, several taxes and surcharges of documents, their rounding, and totals typed by hand; a grid of
  details in a form that is only looked at.
* Values: money, codes, times and control digits are conversions without state; amounts are whole
  cents in the models. Dates are not parsed.
* Orders and budgets, prices and discounts, stock by warehouse; remittances; receipts typed by hand;
  the entry of a payment; currencies.
* Years and closing in accounting; the numbers of sales documents by series. DEBE, HABER and SALDO are
  treated alike and SALDO is modelled.
* The removal of a member that has receipts; projects and fees.
* In reports, inputs that need ordering or filtering (a second pass over a local database), objects,
  formats, and the parser of report files; labels in columns (`columns`), several pages in a folio
  (`pagesPerFolio`), and page headers and footers that ask for pages. A section stands for one value:
  whether it is repeated or blank looks at that of the record, and nothing but its own formula
  suppresses it.
* The server. What `DbConnection` says of it is what the code relies on: a BEGIN inside a
  transaction, row locks, rollback when a connection drops.

## 7. Plan

Done, in this order: records and their connection; receipts; entries; forms, reports and scripts;
treasury, members and stock; reference fields; numbers; files and dates; the details of an invoice. Left:

1. Taxes, discounts and rounding in the totals of a document, and `LineasFactura` composed with `DbRecord`.
2. One abstract specification for what is kept by differences ("the quantity is the sum of its rows")
   that `Asientos`, `Tesoreria` and `Existencias` implement.
3. Imports with columns of other tables; money and formats.
4. Proofs about reports (`PrintedInOrder`, `PagesAreWhole`) and files (`ImportedAsExported`), which are inductions over
   sequences.
