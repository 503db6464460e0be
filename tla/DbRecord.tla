------------------------------- MODULE DbRecord -------------------------------
(***************************************************************************)
(* dbRecord::save and dbRecord::remove for a master record with a list of  *)
(* details (an invoice and its lines), driven from an edit form: read,     *)
(* edit, accept, and accept again when the first attempt failed.           *)
(*                                                                         *)
(* The methods are modelled one SQL statement at a time: every statement   *)
(* may fail, the process may die between any two, and other clients work   *)
(* on the same database meanwhile.                                         *)
(***************************************************************************)
EXTENDS DbConnection, Sequences, FiniteSets

CONSTANTS
  Values,      (* What a user may type in the master's own fields.         *)
  Contents,    (* What a detail line may hold.                             *)
  MaxLines,    (* Most lines a record has: bounds the model.               *)
  Operations,  (* Subset of {"insert", "update", "duplicate", "delete"}.   *)
  DetailsNest, (* Detail tables have relations: their saves BEGIN too.     *)
  Faults,      (* Statements may fail and processes may die.               *)
  Vetoes,      (* A record behaviour may refuse a save or a removal.       *)
  Retries      (* Users press accept again after an error.                 *)

ASSUME FlagAssumption == {DetailsNest, Faults, Vetoes, Retries} \subseteq BOOLEAN
ASSUME LinesAssumption == MaxLines \in Nat
ASSUME ValueAssumption == Values # {}
ASSUME OperationAssumption ==
  Operations \subseteq {"insert", "update", "duplicate", "delete"}

VARIABLES
  nextId,  (* The server's autoincrement counter.                          *)
  obj,     (* obj[c]: the dbRecord object c's form edits.                  *)
  pc,      (* pc[c]: where c is.                                           *)
  mode,    (* mode[c]: c is saving or removing.                            *)
  todo,    (* todo[c]: original details still to be deleted.               *)
  at,      (* at[c]: the next line to insert.                              *)
  nest,    (* nest[c]: progress of the nested save of one detail.          *)
  lastId   (* lastId[c]: what sqlite3_last_insert_rowid would answer.      *)

recVars == <<nextId, obj, pc, mode, todo, at, nest, lastId>>
vars    == <<conVars, recVars>>

MasterRow(v)     == [kind |-> "master", val |-> v]
DetailRow(i, x)  == [kind |-> "detail", fk |-> i, val |-> x]
DbRows ==
  {MasterRow(v) : v \in Values} \cup {DetailRow(i, x) : i \in 0 .. MaxId, x \in Contents}
ASSUME RowsAssumption == Rows = DbRows

Lines == UNION {[1 .. n -> Contents] : n \in 0 .. MaxLines}
ASSUME RequestAssumption == Same \notin [val : Values, lines : Lines]

NoObject == [isNew |-> TRUE, id |-> 0, val |-> CHOOSE v \in Values : TRUE,
             dirty |-> FALSE, lines |-> <<>>, orig |-> {}]
Objects == [isNew : BOOLEAN, id : 0 .. MaxId, val : Values, dirty : BOOLEAN,
            lines : Seq(Contents), orig : SUBSET Ids]

Busy == {"insert", "removing", "lines", "closing"}

\* Types, and: no client is anywhere but in an operation of accept, nor counts past its ids.
TypeOK ==
  /\ ConTypeOK
  /\ nextId \in 1 .. MaxId + 1
  /\ obj \in [Clients -> Objects]
  /\ pc \in [Clients -> {"idle", "editing", "failed"} \cup Busy]
  /\ mode \in [Clients -> {"save", "remove"}]
  /\ todo \in [Clients -> SUBSET Ids]
  /\ at \in [Clients -> Nat \ {0}]
  /\ nest \in [Clients -> {"out", "in", "wrote"}]
  /\ lastId \in [Clients -> 0 .. MaxId]

\* The ids of the details of master i in a database db, and their contents in
\* the order readRelated reads them (ORDER BY 1).
IsMaster(db, i)   == db[i] # NoRow /\ db[i].kind = "master"
DetailIds(db, i)  == {j \in Ids : db[j] # NoRow /\ db[j].kind = "detail" /\ db[j].fk = i}
StoredLines(db, i) ==
  LET S   == DetailIds(db, i)
      ids == CHOOSE s \in [1 .. Cardinality(S) -> S] : \A m, n \in DOMAIN s : m < n => s[m] < s[n]
  IN  [n \in 1 .. Cardinality(S) |-> db[ids[n]].val]

Init ==
  /\ ConInit
  /\ nextId = 1
  /\ obj = [c \in Clients |-> NoObject]
  /\ pc = [c \in Clients |-> "idle"]
  /\ mode = [c \in Clients |-> "save"]
  /\ todo = [c \in Clients |-> {}]
  /\ at = [c \in Clients |-> 1]
  /\ nest = [c \in Clients |-> "out"]
  /\ lastId = [c \in Clients |-> 0]

Set(f, c, v) == [f EXCEPT ![c] = v]

-------------------------------------------------------------------------------
(* The form: beginEdit reads the record and the user edits it.             *)

BlankObject(v, ls) ==
  [isNew |-> TRUE, id |-> 0, val |-> v, dirty |-> TRUE, lines |-> ls, orig |-> {}]

\* Mutant: readRelated fills the list but not the list of originals.
ReadObjectWithoutOriginals(i) ==
  [isNew |-> FALSE, id |-> i, val |-> disk[i].val, dirty |-> FALSE,
   lines |-> StoredLines(disk, i), orig |-> {}]

\* read(id) with readRelated: the row, its details, and the original details.
ReadObject(i) ==
  [isNew |-> FALSE, id |-> i, val |-> disk[i].val, dirty |-> FALSE,
   lines |-> StoredLines(disk, i), orig |-> DetailIds(disk, i)]

Open(c, op, o, m) ==
  /\ pc[c] = "idle"
  /\ op \in Operations
  /\ obj' = Set(obj, c, o)
  /\ mode' = Set(mode, c, m)
  /\ pc' = Set(pc, c, "editing")
  /\ UNCHANGED <<conVars, nextId, todo, at, nest, lastId>>

\* Mutant: clear does not clear the relations of the record shown before.
BeginInsertUncleared(c) ==
  \E v \in Values, ls \in Lines, i \in Ids :
    Open(c, "insert", [BlankObject(v, ls) EXCEPT !.orig = DetailIds(disk, i)], "save")

\* clearRecord: a new, empty record, which the user fills in.
BeginInsert(c) ==
  \E v \in Values, ls \in Lines : Open(c, "insert", BlankObject(v, ls), "save")

BeginUpdate(c) ==
  \E i \in Ids, v \in Values, ls \in Lines :
    /\ IsMaster(disk, i)
    /\ LET o == ReadObject(i)
       IN  Open(c, "update", [o EXCEPT !.val = v, !.dirty = (v # o.val), !.lines = ls], "save")

\* clearRecord(duplicating): setNew(true) on what was read, and no more.  MaxLines
\* bounds what is duplicated as it bounds what is typed.
BeginDuplicate(c) ==
  \E i \in Ids :
    /\ IsMaster(disk, i)
    /\ StoredLines(disk, i) \in Lines
    /\ Open(c, "duplicate",
            [ReadObject(i) EXCEPT !.isNew = TRUE, !.id = 0, !.dirty = TRUE], "save")

\* A removal looks at the original details, not at the list of the form.
BeginDelete(c) ==
  \E i \in Ids :
    /\ IsMaster(disk, i)
    /\ Open(c, "delete", [ReadObject(i) EXCEPT !.lines = <<>>], "remove")

\* The form goes back to browsing: the object is not used again before it is
\* read or cleared, and nothing of the last save or removal is kept.
Leave(c) ==
  /\ pc' = Set(pc, c, "idle")
  /\ obj' = Set(obj, c, NoObject)
  /\ mode' = Set(mode, c, "save")
  /\ todo' = Set(todo, c, {})
  /\ at' = Set(at, c, 1)
  /\ nest' = Set(nest, c, "out")

\* The user gives the edition up, at once or after an error.
Cancel(c) ==
  /\ pc[c] \in {"editing", "failed"}
  /\ Leave(c)
  /\ UNCHANGED <<conVars, nextId, lastId>>

-------------------------------------------------------------------------------
(* dbRecord::save(true) and dbRecord::remove(), statement by statement.    *)

\* Mutant: no BEGIN, so that every statement is committed at once.
AcceptWithoutBegin(c) ==
  /\ pc[c] = "editing" \/ (Retries /\ pc[c] = "failed")
  /\ pc' = Set(pc, c, IF mode[c] = "save" /\ obj[c].isNew THEN "insert" ELSE "removing")
  /\ todo' = Set(todo, c, IF obj[c].isNew THEN {} ELSE obj[c].orig)
  /\ UNCHANGED <<conVars, nextId, obj, mode, at, nest, lastId>>

\* FrmEditRec::accept.  A master has a relation (its details), so that save and
\* remove start with a BEGIN.  Details that were read are deleted first.
Accept(c) ==
  /\ pc[c] = "editing" \/ (Retries /\ pc[c] = "failed")
  /\ BeginTransaction(c)
  /\ pc' = Set(pc, c, IF mode[c] = "save" /\ obj[c].isNew THEN "insert" ELSE "removing")
  /\ todo' = Set(todo, c, IF obj[c].isNew THEN {} ELSE obj[c].orig)
  /\ UNCHANGED <<nextId, obj, mode, at, nest, lastId>>

\* Where saveRelated starts: all the lines are still to be inserted.
StartLines(c) == pc' = Set(pc, c, "lines") /\ at' = Set(at, c, 1)

\* MySQL is asked for LAST_INSERT_ID right after the INSERT that made it; SQLite
\* keeps answering the last one, and that is what a lost INSERT gets.
RememberId(c) == lastId' = Set(lastId, c, IF Driver = "sqlite" THEN nextId ELSE 0)

\* Mutant: the new record takes the id that comes after the server's.
InsertNextId(c) ==
  /\ pc[c] = "insert"
  /\ nextId <= MaxId
  /\ Exec(c, nextId, MasterRow(obj[c].val))
  /\ obj' = [obj EXCEPT ![c].isNew = FALSE, ![c].id = nextId + 1, ![c].dirty = FALSE]
  /\ RememberId(c)
  /\ nextId' = nextId + 1
  /\ StartLines(c)
  /\ UNCHANGED <<mode, todo, nest>>

\* INSERT of the master; the object stops being new as soon as it is executed.
Insert(c) ==
  /\ pc[c] = "insert"
  /\ nextId <= MaxId
  /\ Exec(c, nextId, MasterRow(obj[c].val))
  /\ obj' = [obj EXCEPT ![c].isNew = FALSE, ![c].id = nextId, ![c].dirty = FALSE]
  /\ RememberId(c)
  /\ nextId' = nextId + 1
  /\ StartLines(c)
  /\ UNCHANGED <<mode, todo, nest>>

\* UPDATE of the modified fields only; a row that is not there is no error.
Update(c) ==
  /\ pc[c] = "removing" /\ mode[c] = "save"
  /\ todo[c] = {} /\ nest[c] = "out"
  /\ IF obj[c].dirty /\ IsMaster(View(c), obj[c].id)
       THEN Exec(c, obj[c].id, MasterRow(obj[c].val))
       ELSE UNCHANGED conVars
  /\ obj' = [obj EXCEPT ![c].dirty = FALSE]
  /\ StartLines(c)
  /\ UNCHANGED <<nextId, mode, todo, nest, lastId>>

\* Mutant: the master goes before its details.
DeleteMasterFirst(c) ==
  /\ pc[c] = "removing" /\ mode[c] = "remove" /\ nest[c] = "out"
  /\ IF IsMaster(View(c), obj[c].id)
       THEN Exec(c, obj[c].id, NoRow) /\ UNCHANGED pc
       ELSE todo[c] = {} /\ pc' = Set(pc, c, "closing") /\ UNCHANGED conVars
  /\ UNCHANGED <<nextId, obj, mode, todo, at, nest, lastId>>

\* DELETE of the master, once removeRelated has dealt with the details.
DeleteMaster(c) ==
  /\ pc[c] = "removing" /\ mode[c] = "remove"
  /\ todo[c] = {} /\ nest[c] = "out"
  /\ IF IsMaster(View(c), obj[c].id)
       THEN Exec(c, obj[c].id, NoRow)
       ELSE UNCHANGED conVars
  /\ pc' = Set(pc, c, "closing")
  /\ UNCHANGED <<nextId, obj, mode, todo, at, nest, lastId>>

\* One detail is next to be deleted, or inserted.
DetailToRemove(c) == pc[c] = "removing" /\ todo[c] # {}
DetailToInsert(c) == pc[c] = "lines" /\ at[c] <= Len(obj[c].lines)

\* A detail is a dbRecord of its own: when its table has relations, its save and
\* its remove BEGIN and COMMIT on the connection the master is using.
NestBegin(c) ==
  /\ DetailsNest
  /\ nest[c] = "out"
  /\ DetailToRemove(c) \/ DetailToInsert(c)
  /\ BeginTransaction(c)
  /\ nest' = Set(nest, c, "in")
  /\ UNCHANGED <<nextId, obj, pc, mode, todo, at, lastId>>

NestCommit(c) ==
  /\ nest[c] = "wrote"
  /\ CommitTransaction(c)
  /\ nest' = Set(nest, c, "out")
  /\ UNCHANGED <<nextId, obj, pc, mode, todo, at, lastId>>

DetailOpen(c) == nest[c] = IF DetailsNest THEN "in" ELSE "out"
DetailDone(c) == nest' = Set(nest, c, IF DetailsNest THEN "wrote" ELSE "out")

\* removeRelated: the details as they were read, in the order they were read.
NextToRemove(c) == {i \in todo[c] : \A j \in todo[c] : i <= j}
RemoveDetail(c) ==
  /\ DetailToRemove(c) /\ DetailOpen(c)
  /\ \E i \in NextToRemove(c) :
       IF View(c)[i] # NoRow THEN Exec(c, i, NoRow) ELSE UNCHANGED conVars
  /\ todo' = Set(todo, c, todo[c] \ NextToRemove(c))
  /\ DetailDone(c)
  /\ UNCHANGED <<nextId, obj, pc, mode, at, lastId>>

\* Mutant: the list is saved from its end.
InsertDetailBackwards(c) ==
  /\ DetailToInsert(c) /\ DetailOpen(c)
  /\ nextId <= MaxId
  /\ Exec(c, nextId, DetailRow(obj[c].id, obj[c].lines[Len(obj[c].lines) + 1 - at[c]]))
  /\ RememberId(c)
  /\ nextId' = nextId + 1
  /\ at' = Set(at, c, at[c] + 1)
  /\ DetailDone(c)
  /\ UNCHANGED <<obj, pc, mode, todo>>

\* saveRelated: every line is inserted anew with the master's id.
InsertDetail(c) ==
  /\ DetailToInsert(c) /\ DetailOpen(c)
  /\ nextId <= MaxId
  /\ Exec(c, nextId, DetailRow(obj[c].id, obj[c].lines[at[c]]))
  /\ RememberId(c)
  /\ nextId' = nextId + 1
  /\ at' = Set(at, c, at[c] + 1)
  /\ DetailDone(c)
  /\ UNCHANGED <<obj, pc, mode, todo>>

\* Nothing is left to do but to COMMIT.
AtEnd(c) ==
  \/ pc[c] = "lines" /\ ~DetailToInsert(c) /\ nest[c] = "out"
  \/ pc[c] = "closing"

\* The form says that the record was saved, or removed.
Commit(c) ==
  /\ AtEnd(c)
  /\ CommitTransaction(c)
  /\ Leave(c)
  /\ UNCHANGED <<nextId, lastId>>

-------------------------------------------------------------------------------
(* What may go wrong.                                                      *)

\* The catch-all handlers of the detail and of the master roll back and rethrow;
\* accept shows the error.  The object keeps what the statements did to it.
Abandon(c) ==
  /\ RollbackTransaction(c)
  /\ pc' = Set(pc, c, "failed")
  /\ nest' = Set(nest, c, "out")
  /\ todo' = Set(todo, c, {})
  /\ at' = Set(at, c, 1)
  /\ UNCHANGED <<nextId, obj, mode, lastId>>

\* The next statement is an INSERT and the bound on ids leaves none for it.
OutOfIds(c) == nextId > MaxId /\ (pc[c] = "insert" \/ (DetailToInsert(c) /\ DetailOpen(c)))

\* dbConnection::exec on MySQL: a failed statement throws.
StatementFails(c) ==
  /\ Driver = "mysql"
  /\ pc[c] \in Busy
  /\ Faults \/ OutOfIds(c)
  /\ Abandon(c)

\* dbConnection::exec on SQLite: the result of the statement is assigned to a
\* variable that hides the one returned, and the caller goes on.
LostInsert(c) ==
  /\ Driver = "sqlite" /\ (Faults \/ OutOfIds(c))
  /\ pc[c] = "insert"
  /\ obj' = [obj EXCEPT ![c].isNew = FALSE, ![c].id = lastId[c], ![c].dirty = FALSE]
  /\ StartLines(c)
  /\ UNCHANGED <<conVars, nextId, mode, todo, nest, lastId>>

LostInsertDetail(c) ==
  /\ Driver = "sqlite" /\ (Faults \/ OutOfIds(c))
  /\ DetailToInsert(c) /\ DetailOpen(c)
  /\ at' = Set(at, c, at[c] + 1)
  /\ DetailDone(c)
  /\ UNCHANGED <<conVars, nextId, obj, pc, mode, todo, lastId>>

LostRemoveDetail(c) ==
  /\ Driver = "sqlite" /\ Faults
  /\ DetailToRemove(c) /\ DetailOpen(c)
  /\ todo' = Set(todo, c, todo[c] \ NextToRemove(c))
  /\ DetailDone(c)
  /\ UNCHANGED <<conVars, nextId, obj, pc, mode, at, lastId>>

LostUpdate(c) ==
  /\ Driver = "sqlite" /\ Faults
  /\ pc[c] = "removing" /\ mode[c] = "save"
  /\ todo[c] = {} /\ nest[c] = "out"
  /\ obj' = [obj EXCEPT ![c].dirty = FALSE]
  /\ StartLines(c)
  /\ UNCHANGED <<conVars, nextId, mode, todo, nest, lastId>>

\* Nothing has been done since the BEGIN of the master.
JustBegun(c) ==
  \/ pc[c] = "insert"
  \/ pc[c] = "removing" /\ todo[c] = obj[c].orig /\ nest[c] = "out"

\* A behaviour refuses the master, before the first statement or after the last:
\* ROLLBACK, and the method returns false.
MasterVetoed(c) ==
  /\ Vetoes
  /\ JustBegun(c) \/ AtEnd(c)
  /\ Abandon(c)

\* beforeSave refuses the master and leaves the result of the save as it was,
\* true: ROLLBACK, and the form is told that the record was saved.
MasterSkipped(c) ==
  /\ Vetoes
  /\ mode[c] = "save" /\ JustBegun(c)
  /\ RollbackTransaction(c)
  /\ Leave(c)
  /\ UNCHANGED <<nextId, lastId>>

\* A behaviour refuses a detail: before its statement, ROLLBACK at once, whoever
\* opened the transaction; after it, ROLLBACK by the details that BEGIN.  Neither
\* saveRelated nor removeRelated looks at the result.
DetailVetoed(c) ==
  /\ Vetoes
  /\ \/ DetailOpen(c) /\ DetailToInsert(c) /\ at' = Set(at, c, at[c] + 1) /\ UNCHANGED todo
     \/ /\ DetailOpen(c) /\ DetailToRemove(c)
        /\ todo' = Set(todo, c, todo[c] \ NextToRemove(c)) /\ UNCHANGED at
     \/ nest[c] = "wrote" /\ UNCHANGED <<at, todo>>
  /\ RollbackTransaction(c)
  /\ nest' = Set(nest, c, "out")
  /\ UNCHANGED <<nextId, obj, pc, mode, lastId>>

\* The process dies: the server rolls its transaction back.
Crash(c) ==
  /\ Faults
  /\ pc[c] # "idle"
  /\ RollbackTransaction(c)
  /\ Leave(c)
  /\ lastId' = Set(lastId, c, 0)
  /\ UNCHANGED nextId

-------------------------------------------------------------------------------

User(c) ==
  BeginInsert(c) \/ BeginUpdate(c) \/ BeginDuplicate(c) \/ BeginDelete(c) \/ Cancel(c)
  \/ Accept(c)

Statement(c) ==
  \/ Insert(c) \/ Update(c) \/ DeleteMaster(c) \/ RemoveDetail(c) \/ InsertDetail(c)
  \/ NestBegin(c) \/ NestCommit(c) \/ Commit(c)

Failure(c) ==
  \/ StatementFails(c) \/ LostInsert(c) \/ LostInsertDetail(c) \/ LostRemoveDetail(c)
  \/ LostUpdate(c) \/ MasterVetoed(c) \/ MasterSkipped(c)
  \/ DetailVetoed(c) \/ Crash(c)

Next == \E c \in Clients : User(c) \/ Statement(c) \/ Failure(c)

Spec == Init /\ [][Next]_vars

\* A save runs to its end in the form's thread: each statement of it returns; one
\* that waits for a lock gets it in its turn, since the server grants locks in the
\* order they were asked for (strong fairness).  Nothing obliges a statement to
\* fail, but for an INSERT that the bound on ids leaves without one.
Outcome(c) ==
  \/ Statement(c)
  \/ OutOfIds(c) /\ (StatementFails(c) \/ LostInsert(c) \/ LostInsertDetail(c))

FairSpec == Spec /\ \A c \in Clients : SF_vars(Outcome(c))

-------------------------------------------------------------------------------
(* Properties.                                                             *)

\* While the lines of a record are being inserted, the connection finds under
\* the master exactly the lines inserted so far: those that were stored before
\* have all been deleted ("If we are updating, all the records must be new now,
\* as they have been deleted before", gongdbrecord.cpp).
LinesAsSaved ==
  \A c \in Clients :
    pc[c] = "lines" =>
      StoredLines(View(c), obj[c].id) = SubSeq(obj[c].lines, 1, at[c] - 1)

\* At every moment, a crash included, each stored detail has its stored master:
\* save writes the master before the details and remove deletes it after them.
NoOrphans ==
  \A j \in Ids :
    disk[j] # NoRow /\ disk[j].kind = "detail" => IsMaster(disk, disk[j].fk)

\* When the form says that a record was saved, the database holds it: the
\* master as typed and its lines, no more and no fewer, in their order.
SavedAsTyped ==
  [][\A c \in Clients :
       Commit(c) /\ mode[c] = "save" =>
         /\ disk'[obj[c].id] = MasterRow(obj[c].val)
         /\ StoredLines(disk', obj[c].id) = obj[c].lines]_vars

\* When the form says that a record was removed, neither it nor any detail of
\* it is left.
RemovedIsGone ==
  [][\A c \in Clients :
       Commit(c) /\ mode[c] = "remove" =>
         /\ disk'[obj[c].id] = NoRow
         /\ DetailIds(disk', obj[c].id) = {}]_vars

\* No client's save or removal, however often retried, touches a stored record
\* other than the one its form edits, nor a detail of another record.
Edited == {obj[c].id : c \in Clients} \cup {obj'[c].id : c \in Clients}
OthersUntouched ==
  [][\A i \in Ids :
       disk[i] # NoRow /\ disk'[i] # disk[i] =>
         (IF disk[i].kind = "master" THEN i ELSE disk[i].fk) \in Edited]_vars

\* Clients that wait for each other's locks never wait for ever: whoever presses
\* accept is told an outcome.
EveryAcceptAnswered ==
  \A c \in Clients : pc[c] \in Busy ~> pc[c] \notin Busy

\* A record with its details as one value, and the request a busy client makes.
WholeRecord(v, ls) == [val |-> v, lines |-> ls]
StoredRecord(i) ==
  IF IsMaster(disk, i) THEN WholeRecord(disk[i].val, StoredLines(disk, i))
  ELSE IF DetailIds(disk, i) = {} THEN NoRow
  ELSE WholeRecord(NoRow, StoredLines(disk, i))
Request(c) ==
  IF pc[c] \notin Busy THEN Same
  ELSE IF mode[c] = "remove" THEN NoRow ELSE WholeRecord(obj[c].val, obj[c].lines)

Store == INSTANCE RecordStore WITH
  Contents  <- [val : Values, lines : Lines],
  NoRecord  <- NoRow,
  NoRequest <- Same,
  recs      <- [i \in Ids |-> StoredRecord(i)],
  asked     <- [c \in Clients |-> Request(c)]

\* Where details do not open transactions of their own, save and remove are
\* atomic: whatever fails or dies, the database goes from one whole record to
\* another or stays as it was.
AtomicSaves == Store!Spec
===============================================================================
