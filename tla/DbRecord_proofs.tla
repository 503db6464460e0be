--------------------------- MODULE DbRecord_proofs ----------------------------
(***************************************************************************)
(* Proofs about DbRecord: the types of its variables, and that saves leave *)
(* other records alone, for any clients and either database; and, for one  *)
(* client on MySQL, whatever statement fails and whenever the process      *)
(* dies, that no stored detail is ever without its master, that what is    *)
(* saved is what was typed, in its order, and that saves implement         *)
(* RecordStore.                                                            *)
(***************************************************************************)
EXTENDS DbRecord, Sumas_proofs

-------------------------------------------------------------------------------
(* Rows and lines.                                                         *)

\* A row is a master's or a detail's, and "no row" and "not written" are not rows.
LEMMA RowFacts ==
  /\ NoRow \notin Rows /\ Same \notin Rows /\ NoRow # Same
  /\ \A v \in Values : MasterRow(v) \in Rows /\ MasterRow(v).kind = "master"
  /\ \A i \in 0 .. MaxId, x \in Contents :
       /\ DetailRow(i, x) \in Rows
       /\ DetailRow(i, x).kind = "detail" /\ DetailRow(i, x).fk = i
  /\ \A r \in Rows : r.kind = "master" => r.val \in Values
<1>1. NoRow \notin Rows /\ Same \notin Rows /\ NoRow # Same
  BY RowAssumption
<1>2. \A v \in Values : MasterRow(v) \in Rows /\ MasterRow(v).kind = "master"
  BY RowsAssumption DEF DbRows, MasterRow
<1>3. \A i \in 0 .. MaxId, x \in Contents :
        /\ DetailRow(i, x) \in Rows
        /\ DetailRow(i, x).kind = "detail" /\ DetailRow(i, x).fk = i
  BY RowsAssumption DEF DbRows, DetailRow
<1>4. ASSUME NEW r \in Rows, r.kind = "master"
      PROVE  r.val \in Values
  <2>1. CASE \E v \in Values : r = MasterRow(v)
    BY <2>1 DEF MasterRow
  <2>2. CASE \E i \in 0 .. MaxId, x \in Contents : r = DetailRow(i, x)
    BY <1>4, <2>2 DEF DetailRow
  <2> QED
    BY <2>1, <2>2, RowsAssumption DEF DbRows
<1> QED
  BY <1>1, <1>2, <1>3, <1>4

\* What users type is a sequence of contents.
LEMMA LinesAreSequences == Lines \subseteq Seq(Contents)
  BY LinesAssumption DEF Lines

-------------------------------------------------------------------------------
(* The statements of the connection keep the types of its variables.       *)

LEMMA ViewType ==
  ASSUME ConTypeOK, NEW c \in Clients
  PROVE  View(c) \in [Ids -> Rows \cup {NoRow}]
  BY DEF ConTypeOK, View

LEMMA ConInitType == ConInit => ConTypeOK
  BY DEF ConInit, ConTypeOK, NoPend

LEMMA BeginType ==
  ASSUME ConTypeOK, NEW c \in Clients, BeginTransaction(c)
  PROVE  ConTypeOK'
<1>1. CASE Driver = "mysql"
  <2>1. /\ disk' = View(c)
        /\ pend' = [pend EXCEPT ![c] = NoPend]
        /\ inTx' = [inTx EXCEPT ![c] = TRUE]
    BY <1>1 DEF BeginTransaction
  <2>2. NoPend \in [Ids -> Rows \cup {NoRow, Same}]
    BY DEF NoPend
  <2> QED
    BY <2>1, <2>2, ViewType DEF ConTypeOK
<1>2. CASE Driver # "mysql"
  BY <1>2 DEF BeginTransaction, ConTypeOK
<1> QED
  BY <1>1, <1>2

LEMMA CommitType ==
  ASSUME ConTypeOK, NEW c \in Clients, CommitTransaction(c)
  PROVE  ConTypeOK'
  BY ViewType DEF CommitTransaction, ConTypeOK, NoPend

LEMMA RollbackType ==
  ASSUME ConTypeOK, NEW c \in Clients, RollbackTransaction(c)
  PROVE  ConTypeOK'
  BY DEF RollbackTransaction, ConTypeOK, NoPend

LEMMA ExecType ==
  ASSUME ConTypeOK, NEW c \in Clients, NEW i, NEW row \in Rows \cup {NoRow}, Exec(c, i, row)
  PROVE  ConTypeOK'
<1>1. CASE inTx[c]
  <2>1. pend' = [pend EXCEPT ![c] = [pend[c] EXCEPT ![i] = row]] /\ UNCHANGED <<disk, inTx>>
    BY <1>1 DEF Exec, ConTypeOK
  <2>2. [pend[c] EXCEPT ![i] = row] \in [Ids -> Rows \cup {NoRow, Same}]
    BY DEF ConTypeOK
  <2> QED
    BY <2>1, <2>2 DEF ConTypeOK
<1>2. CASE ~inTx[c]
  BY <1>2 DEF Exec, ConTypeOK
<1> QED
  BY <1>1, <1>2

LEMMA SameConType == ConTypeOK /\ UNCHANGED conVars => ConTypeOK'
  BY DEF ConTypeOK, conVars

-------------------------------------------------------------------------------
(* Type correctness.                                                       *)

\* The variables of a client that goes back to browsing.
LEMMA LeaveType ==
  ASSUME TypeOK, NEW c \in Clients, Leave(c)
  PROVE  /\ obj' \in [Clients -> Objects]
         /\ pc' \in [Clients -> {"idle", "editing", "failed"} \cup Busy]
         /\ mode' \in [Clients -> {"save", "remove"}]
         /\ todo' \in [Clients -> SUBSET Ids]
         /\ at' \in [Clients -> Nat \ {0}]
         /\ nest' \in [Clients -> {"out", "in", "wrote"}]
<1>1. NoObject \in Objects
  BY ValueAssumption, IdAssumption DEF NoObject, Objects
<1> QED
  BY <1>1 DEF TypeOK, Leave, Set

\* A form is opened on an object of the right shape.
LEMMA OpenType ==
  ASSUME TypeOK, NEW c \in Clients, NEW op, NEW o \in Objects, NEW m \in {"save", "remove"},
         Open(c, op, o, m)
  PROVE  TypeOK'
<1>1. ConTypeOK'
  BY SameConType DEF Open, TypeOK
<1> QED
  BY <1>1 DEF Open, TypeOK, Set

\* The objects that the three ways of reading one leave in the form, and what they
\* keep of what was read.
ReadObjects(i) ==
  [isNew : BOOLEAN, id : 0 .. MaxId, val : Values, dirty : BOOLEAN,
   lines : {StoredLines(disk, i)} \cup Seq(Contents), orig : SUBSET Ids]

\* INSERT changes the object in place; UPDATE only its mark of modified.
LEMMA ObjectInserted ==
  ASSUME obj \in [Clients -> Objects], NEW c \in Clients, NEW i \in 0 .. MaxId,
         obj' = [obj EXCEPT ![c].isNew = FALSE, ![c].id = i, ![c].dirty = FALSE]
  PROVE  obj' \in [Clients -> Objects] /\ obj'[c].id = i
  BY DEF Objects

LEMMA ObjectUpdated ==
  ASSUME obj \in [Clients -> Objects], NEW c \in Clients,
         obj' = [obj EXCEPT ![c].dirty = FALSE]
  PROVE  obj' \in [Clients -> Objects] /\ obj'[c].id = obj[c].id
  BY DEF Objects

LEMMA ObjectsRead ==
  ASSUME ConTypeOK, NEW i \in Ids, IsMaster(disk, i)
  PROVE  /\ ReadObject(i) \in ReadObjects(i)
         /\ \A v \in Values, ls \in Lines, b \in BOOLEAN :
              LET o == [ReadObject(i) EXCEPT !.val = v, !.dirty = b, !.lines = ls] IN
              o \in Objects /\ o.id = i /\ o.orig = DetailIds(disk, i)
         /\ StoredLines(disk, i) \in Lines =>
              LET o == [ReadObject(i) EXCEPT !.isNew = TRUE, !.id = 0, !.dirty = TRUE] IN
              o \in Objects /\ o.isNew
         /\ LET o == [ReadObject(i) EXCEPT !.lines = <<>>] IN
            o \in Objects /\ ~o.isNew /\ o.id = i /\ o.orig = DetailIds(disk, i)
<1>1. /\ i \in 0 .. MaxId /\ 0 \in 0 .. MaxId
      /\ disk[i].val \in Values /\ DetailIds(disk, i) \in SUBSET Ids
      /\ <<>> \in Seq(Contents) /\ Lines \subseteq Seq(Contents)
  BY RowFacts, IdAssumption, LinesAreSequences DEF IsMaster, ConTypeOK, Ids, DetailIds
<1>2. /\ ReadObject(i) \in ReadObjects(i)
      /\ ReadObject(i).id = i /\ ReadObject(i).orig = DetailIds(disk, i)
      /\ ReadObject(i).lines = StoredLines(disk, i) /\ ~ReadObject(i).isNew
  BY <1>1 DEF ReadObject, ReadObjects
<1>3. ASSUME NEW v \in Values, NEW ls \in Lines, NEW b \in BOOLEAN
      PROVE  LET o == [ReadObject(i) EXCEPT !.val = v, !.dirty = b, !.lines = ls] IN
             o \in Objects /\ o.id = i /\ o.orig = DetailIds(disk, i)
  BY <1>1, <1>2 DEF ReadObjects, Objects
<1>4. ASSUME StoredLines(disk, i) \in Lines
      PROVE  LET o == [ReadObject(i) EXCEPT !.isNew = TRUE, !.id = 0, !.dirty = TRUE] IN
             o \in Objects /\ o.isNew
  BY <1>1, <1>2, <1>4 DEF ReadObjects, Objects
<1>5. LET o == [ReadObject(i) EXCEPT !.lines = <<>>] IN
      o \in Objects /\ ~o.isNew /\ o.id = i /\ o.orig = DetailIds(disk, i)
  BY <1>1, <1>2 DEF ReadObjects, Objects
<1> QED
  BY <1>2, <1>3, <1>4, <1>5

\* What the user does keeps the types.
LEMMA UserType ==
  ASSUME TypeOK, NEW c \in Clients, User(c)
  PROVE  TypeOK'
<1> USE DEF TypeOK
<1>1. CASE BeginInsert(c)
  <2>1. PICK v \in Values, ls \in Lines : Open(c, "insert", BlankObject(v, ls), "save")
    BY <1>1 DEF BeginInsert
  <2>2. BlankObject(v, ls) \in Objects
    BY LinesAreSequences, IdAssumption DEF BlankObject, Objects
  <2> QED
    BY <2>1, <2>2, OpenType
<1>2. CASE BeginUpdate(c)
  <2>1. PICK i \in Ids, v \in Values, ls \in Lines :
          /\ IsMaster(disk, i)
          /\ Open(c, "update",
                  [ReadObject(i) EXCEPT !.val = v, !.dirty = (v # ReadObject(i).val),
                                        !.lines = ls], "save")
    BY <1>2 DEF BeginUpdate
  <2>2. [ReadObject(i) EXCEPT !.val = v, !.dirty = (v # ReadObject(i).val), !.lines = ls]
          \in Objects
    BY <2>1, ObjectsRead
  <2> HIDE DEF TypeOK
  <2> QED
    BY <2>1, <2>2, OpenType
<1>3. CASE BeginDuplicate(c)
  <2>1. PICK i \in Ids :
          /\ IsMaster(disk, i) /\ StoredLines(disk, i) \in Lines
          /\ Open(c, "duplicate",
                  [ReadObject(i) EXCEPT !.isNew = TRUE, !.id = 0, !.dirty = TRUE], "save")
    BY <1>3 DEF BeginDuplicate
  <2> HIDE DEF TypeOK
  <2> QED
    BY <2>1, OpenType, ObjectsRead DEF TypeOK
<1>4. CASE BeginDelete(c)
  <2>1. PICK i \in Ids :
          /\ IsMaster(disk, i)
          /\ Open(c, "delete", [ReadObject(i) EXCEPT !.lines = <<>>], "remove")
    BY <1>4 DEF BeginDelete
  <2>2. [ReadObject(i) EXCEPT !.lines = <<>>] \in Objects
    BY <2>1, ObjectsRead
  <2> QED
    BY <2>1, <2>2, OpenType
<1>5. CASE Cancel(c)
  <2>1. ConTypeOK' /\ UNCHANGED <<nextId, lastId>> /\ Leave(c)
    BY <1>5, SameConType DEF Cancel
  <2> QED
    BY <2>1, LeaveType
<1>6. CASE Accept(c)
  <2>1. ConTypeOK'
    BY <1>6, BeginType DEF Accept
  <2>2. pc' \in [Clients -> {"idle", "editing", "failed"} \cup Busy]
    BY <1>6 DEF Accept, Set, Busy
  <2>3. todo' \in [Clients -> SUBSET Ids]
    BY <1>6 DEF Accept, Set, Objects
  <2> QED
    BY <1>6, <2>1, <2>2, <2>3 DEF Accept
<1> QED
  BY <1>1, <1>2, <1>3, <1>4, <1>5, <1>6 DEF User
\* Each statement keeps the types.
LEMMA StatementType ==
  ASSUME TypeOK, NEW c \in Clients, Statement(c)
  PROVE  TypeOK'
<1>1. CASE Insert(c)
  <2>1. nextId \in 1 .. MaxId /\ nextId \in 0 .. MaxId /\ nextId + 1 \in 1 .. MaxId + 1
    BY <1>1, IdAssumption DEF TypeOK, Insert
  <2>2. ConTypeOK'
    <3>1. MasterRow(obj[c].val) \in Rows
      BY RowFacts DEF TypeOK, Objects
    <3> QED
      BY <1>1, <3>1, ExecType DEF TypeOK, Insert
  <2>3. obj' \in [Clients -> Objects]
    BY <1>1, <2>1, ObjectInserted DEF TypeOK, Insert
  <2>4. lastId' \in [Clients -> 0 .. MaxId]
    BY <1>1, <2>1, IdAssumption DEF TypeOK, Insert, RememberId, Set
  <2> QED
    BY <1>1, <2>1, <2>2, <2>3, <2>4 DEF TypeOK, Insert, StartLines, Set, Busy
<1>2. CASE Update(c)
  <2>1. ConTypeOK'
    <3>1. MasterRow(obj[c].val) \in Rows
      BY RowFacts DEF TypeOK, Objects
    <3> QED
      BY <1>2, <3>1, ExecType, SameConType DEF TypeOK, Update
  <2>2. obj' \in [Clients -> Objects]
    BY <1>2, ObjectUpdated DEF TypeOK, Update
  <2> QED
    BY <1>2, <2>1, <2>2 DEF TypeOK, Update, StartLines, Set, Busy
<1>3. CASE DeleteMaster(c)
  <2>1. ConTypeOK'
    BY <1>3, ExecType, SameConType DEF TypeOK, DeleteMaster
  <2> QED
    BY <1>3, <2>1 DEF TypeOK, DeleteMaster, Set, Busy
<1>4. CASE RemoveDetail(c)
  <2>1. ConTypeOK'
    BY <1>4, ExecType, SameConType DEF TypeOK, RemoveDetail
  <2>2. todo' \in [Clients -> SUBSET Ids]
    BY <1>4 DEF TypeOK, RemoveDetail, Set
  <2> QED
    BY <1>4, <2>1, <2>2 DEF TypeOK, RemoveDetail, DetailDone, Set
<1>5. CASE InsertDetail(c)
  <2>1. nextId \in 1 .. MaxId /\ nextId \in 0 .. MaxId /\ nextId + 1 \in 1 .. MaxId + 1
    BY <1>5, IdAssumption DEF TypeOK, InsertDetail
  <2>2. ConTypeOK'
    <3>1. obj[c].lines[at[c]] \in Contents /\ obj[c].id \in 0 .. MaxId
      BY <1>5 DEF TypeOK, Objects, InsertDetail, DetailToInsert
    <3>2. DetailRow(obj[c].id, obj[c].lines[at[c]]) \in Rows
      BY <3>1, RowFacts
    <3> QED
      BY <1>5, <3>2, ExecType DEF TypeOK, InsertDetail
  <2>3. lastId' \in [Clients -> 0 .. MaxId]
    BY <1>5, <2>1, IdAssumption DEF TypeOK, InsertDetail, RememberId, Set
  <2>4. at' \in [Clients -> Nat \ {0}]
    BY <1>5 DEF TypeOK, InsertDetail, Set
  <2> QED
    BY <1>5, <2>1, <2>2, <2>3, <2>4 DEF TypeOK, InsertDetail, DetailDone, Set
<1>6. CASE NestBegin(c)
  <2>1. ConTypeOK'
    BY <1>6, BeginType DEF TypeOK, NestBegin
  <2> QED
    BY <1>6, <2>1 DEF TypeOK, NestBegin, Set
<1>7. CASE NestCommit(c)
  <2>1. ConTypeOK'
    BY <1>7, CommitType DEF TypeOK, NestCommit
  <2> QED
    BY <1>7, <2>1 DEF TypeOK, NestCommit, Set
<1>8. CASE Commit(c)
  <2>1. ConTypeOK' /\ Leave(c) /\ UNCHANGED <<nextId, lastId>>
    BY <1>8, CommitType DEF TypeOK, Commit
  <2> QED
    BY <2>1, LeaveType DEF TypeOK
<1> QED
  BY <1>1, <1>2, <1>3, <1>4, <1>5, <1>6, <1>7, <1>8 DEF Statement

\* So do a ROLLBACK that leaves the form open, and every failure.
LEMMA AbandonType ==
  ASSUME TypeOK, NEW c \in Clients, Abandon(c)
  PROVE  TypeOK'
<1>1. ConTypeOK'
  BY RollbackType DEF TypeOK, Abandon
<1> QED
  BY <1>1 DEF TypeOK, Abandon, Set

LEMMA FailureType ==
  ASSUME TypeOK, NEW c \in Clients, Failure(c)
  PROVE  TypeOK'
<1>1. CASE StatementFails(c) \/ MasterVetoed(c)
  BY <1>1, AbandonType DEF StatementFails, MasterVetoed
<1>2. CASE LostInsert(c)
  <2>1. ConTypeOK'
    BY <1>2, SameConType DEF TypeOK, LostInsert
  <2>2. obj' \in [Clients -> Objects]
    BY <1>2, ObjectInserted DEF TypeOK, LostInsert
  <2> QED
    BY <1>2, <2>1, <2>2 DEF TypeOK, LostInsert, StartLines, Set, Busy
<1>3. CASE LostInsertDetail(c)
  <2>1. ConTypeOK'
    BY <1>3, SameConType DEF TypeOK, LostInsertDetail
  <2>2. at' \in [Clients -> Nat \ {0}]
    BY <1>3 DEF TypeOK, LostInsertDetail, Set
  <2> QED
    BY <1>3, <2>1, <2>2 DEF TypeOK, LostInsertDetail, DetailDone, Set
<1>4. CASE LostRemoveDetail(c)
  <2>1. ConTypeOK'
    BY <1>4, SameConType DEF TypeOK, LostRemoveDetail
  <2>2. todo' \in [Clients -> SUBSET Ids]
    BY <1>4 DEF TypeOK, LostRemoveDetail, Set
  <2> QED
    BY <1>4, <2>1, <2>2 DEF TypeOK, LostRemoveDetail, DetailDone, Set
<1>5. CASE LostUpdate(c)
  <2>1. ConTypeOK'
    BY <1>5, SameConType DEF TypeOK, LostUpdate
  <2>2. obj' \in [Clients -> Objects]
    BY <1>5, ObjectUpdated DEF TypeOK, LostUpdate
  <2> QED
    BY <1>5, <2>1, <2>2 DEF TypeOK, LostUpdate, StartLines, Set, Busy
<1>6. CASE DetailVetoed(c)
  <2>1. ConTypeOK'
    BY <1>6, RollbackType DEF TypeOK, DetailVetoed
  <2>2. at' \in [Clients -> Nat \ {0}] /\ todo' \in [Clients -> SUBSET Ids]
    BY <1>6 DEF TypeOK, DetailVetoed, Set
  <2> QED
    BY <1>6, <2>1, <2>2 DEF TypeOK, DetailVetoed, Set
<1>7. CASE Crash(c)
  <2>1. ConTypeOK' /\ Leave(c) /\ UNCHANGED nextId /\ lastId' = Set(lastId, c, 0)
    BY <1>7, RollbackType DEF TypeOK, Crash
  <2>2. lastId' \in [Clients -> 0 .. MaxId]
    BY <2>1, IdAssumption DEF TypeOK, Set
  <2> QED
    BY <2>1, <2>2, LeaveType DEF TypeOK
<1>8. CASE MasterSkipped(c)
  <2>1. ConTypeOK' /\ Leave(c) /\ UNCHANGED <<nextId, lastId>>
    BY <1>8, RollbackType DEF TypeOK, MasterSkipped
  <2> QED
    BY <2>1, LeaveType DEF TypeOK
<1> QED
  BY <1>1, <1>2, <1>3, <1>4, <1>5, <1>6, <1>7, <1>8 DEF Failure

LEMMA StutterType == TypeOK /\ UNCHANGED vars => TypeOK'
  BY SameConType DEF TypeOK, vars, recVars

LEMMA InitType == Init => TypeOK
<1>1. NoObject \in Objects
  BY ValueAssumption, IdAssumption DEF NoObject, Objects
<1> QED
  BY <1>1, ConInitType, IdAssumption DEF Init, TypeOK

\* For any number of clients, ids, lines and contents, on either database and
\* whatever fails, is refused or is tried again, the variables keep their types.
THEOREM TypeCorrect == Spec => []TypeOK
<1>1. TypeOK /\ [Next]_vars => TypeOK'
  BY UserType, StatementType, FailureType, StutterType DEF Next
<1> QED
  BY <1>1, InitType, PTL DEF Spec
-------------------------------------------------------------------------------
(* One client on MySQL, that gives up when a save fails: no stored detail  *)
(* is ever without its master.                                             *)

\* In a database db, the details have their masters and no id that has not been
\* given yet is in use.
WithMasters(db) ==
  \A j \in Ids : db[j] # NoRow /\ db[j].kind = "detail" =>
    db[j].fk \in Ids /\ IsMaster(db, db[j].fk)
Fresh(db) == \A j \in Ids : j >= nextId => db[j] = NoRow

\* A client has a transaction open only while it saves or removes, and what is not
\* in a transaction is committed.
Transactions(c) ==
  /\ pc[c] \notin Busy => ~inTx[c]
  /\ ~inTx[c] => pend[c] = NoPend

\* The object of the form is the record stored, with its details, until they are
\* removed one by one; the master stays where its details are inserted, and leaves
\* nothing behind when it is removed.
Placed(c) ==
  /\ pc[c] = "editing" =>
       IF obj[c].isNew THEN mode[c] = "save"
       ELSE /\ obj[c].id \in Ids
            /\ IsMaster(disk, obj[c].id) /\ obj[c].orig = DetailIds(disk, obj[c].id)
  /\ pc[c] = "removing" =>
       /\ obj[c].id \in Ids
       /\ IsMaster(View(c), obj[c].id) /\ todo[c] = DetailIds(View(c), obj[c].id)
  /\ pc[c] = "insert" => mode[c] = "save"
  /\ pc[c] = "lines" =>
       mode[c] = "save" /\ obj[c].id \in Ids /\ IsMaster(View(c), obj[c].id)
  /\ pc[c] = "closing" =>
       View(c)[obj[c].id] = NoRow /\ DetailIds(View(c), obj[c].id) = {}

\* What holds of the database, as it is stored and as the client sees it.
Databases(c) ==
  /\ WithMasters(disk) /\ Fresh(disk)
  /\ WithMasters(View(c)) /\ Fresh(View(c))

Good(c) == Databases(c) /\ Transactions(c) /\ Placed(c)
IInv    == TypeOK /\ \A c \in Clients : Good(c)

\* What each statement of the connection does to the database as its client sees it.
LEMMA NothingPending ==
  ASSUME ConTypeOK, NEW c \in Clients, pend[c] = NoPend
  PROVE  View(c) = disk
  BY DEF ConTypeOK, View, NoPend

LEMMA SameView ==
  ASSUME UNCHANGED conVars, NEW c \in Clients
  PROVE  View(c)' = View(c) /\ disk' = disk
  BY DEF conVars, View

LEMMA BeginView ==
  ASSUME ConTypeOK, Driver = "mysql", NEW c \in Clients, BeginTransaction(c)
  PROVE  disk' = View(c) /\ View(c)' = View(c) /\ inTx'[c]
<1>1. /\ disk' = View(c) /\ pend' = [pend EXCEPT ![c] = NoPend]
      /\ inTx' = [inTx EXCEPT ![c] = TRUE]
  BY DEF BeginTransaction
<1>2. pend'[c] = NoPend /\ inTx'[c]
  BY <1>1 DEF ConTypeOK
<1>3. View(c)' = [i \in Ids |-> View(c)[i]]
  BY <1>1, <1>2 DEF View, NoPend
<1> QED
  BY <1>1, <1>2, <1>3 DEF View

LEMMA CommitView ==
  ASSUME ConTypeOK, NEW c \in Clients, CommitTransaction(c)
  PROVE  disk' = View(c) /\ View(c)' = View(c) /\ ~inTx'[c] /\ pend'[c] = NoPend
<1>1. /\ disk' = View(c) /\ pend' = [pend EXCEPT ![c] = NoPend]
      /\ inTx' = [inTx EXCEPT ![c] = FALSE]
  BY DEF CommitTransaction
<1>2. pend'[c] = NoPend /\ ~inTx'[c]
  BY <1>1 DEF ConTypeOK
<1>3. View(c)' = [i \in Ids |-> View(c)[i]]
  BY <1>1, <1>2 DEF View, NoPend
<1> QED
  BY <1>1, <1>2, <1>3 DEF View

LEMMA RollbackView ==
  ASSUME ConTypeOK, NEW c \in Clients, RollbackTransaction(c)
  PROVE  disk' = disk /\ View(c)' = disk /\ ~inTx'[c] /\ pend'[c] = NoPend
<1>1. /\ disk' = disk /\ pend' = [pend EXCEPT ![c] = NoPend]
      /\ inTx' = [inTx EXCEPT ![c] = FALSE]
  BY DEF RollbackTransaction
<1>2. pend'[c] = NoPend /\ ~inTx'[c]
  BY <1>1 DEF ConTypeOK
<1> QED
  BY <1>1, <1>2 DEF View, NoPend, ConTypeOK

LEMMA ExecView ==
  ASSUME ConTypeOK, NEW c \in Clients, ~inTx[c] => pend[c] = NoPend,
         NEW i \in Ids, NEW row \in Rows \cup {NoRow}, Exec(c, i, row)
  PROVE  /\ View(c)' = [View(c) EXCEPT ![i] = row]
         /\ disk' = disk \/ disk' = View(c)'
         /\ inTx'[c] = inTx[c] /\ (~inTx'[c] => pend'[c] = NoPend)
<1>1. row # Same
  BY RowFacts
<1>2. CASE inTx[c]
  <2>1. /\ disk' = disk /\ inTx' = inTx
        /\ pend'[c] = [pend[c] EXCEPT ![i] = row]
    BY <1>2 DEF Exec, ConTypeOK
  <2>2. \A j \in Ids : pend'[c][j] = IF j = i THEN row ELSE pend[c][j]
    BY <2>1 DEF ConTypeOK
  <2> QED
    BY <1>1, <1>2, <2>1, <2>2 DEF View
<1>3. CASE ~inTx[c]
  <2>1. /\ disk' = [disk EXCEPT ![i] = row] /\ pend' = pend /\ inTx' = inTx
        /\ pend[c] = NoPend
    BY <1>3 DEF Exec
  <2>2. View(c) = disk
    BY <2>1, NothingPending
  <2>3. View(c)' = [j \in Ids |-> disk'[j]]
    BY <2>1 DEF View, NoPend
  <2>4. View(c)' = disk'
    BY <2>1, <2>3 DEF ConTypeOK
  <2> QED
    BY <1>3, <2>1, <2>2, <2>4
<1> QED
  BY <1>2, <1>3

-------------------------------------------------------------------------------
(* What happens to the database as a whole.                                *)

\* BEGIN, COMMIT and ROLLBACK choose between what is stored and what is seen.
LEMMA SameDatabases ==
  ASSUME NEW c \in Clients, Databases(c), nextId' = nextId,
         disk' = disk \/ disk' = View(c), View(c)' = disk \/ View(c)' = View(c)
  PROVE  Databases(c)'
  BY DEF Databases, WithMasters, Fresh, IsMaster

\* The rows that one client's statement leaves as its client sees them are stored
\* at once, or later.
LEMMA BothDatabases ==
  ASSUME NEW c \in Clients, Databases(c), nextId' \in {nextId, nextId + 1},
         nextId \in Nat, disk' = disk \/ disk' = View(c)',
         WithMasters(View(c)'), Fresh(View(c))'
  PROVE  Databases(c)'
<1>1. WithMasters(disk) /\ Fresh(disk)
  BY DEF Databases
<1>2. CASE disk' = disk
  BY <1>1, <1>2, IdAssumption DEF Databases, WithMasters, Fresh, IsMaster, Ids
<1>3. CASE disk' = View(c)'
  BY <1>3 DEF Databases, WithMasters, Fresh, IsMaster
<1> QED
  BY <1>2, <1>3

\* INSERT of a master, or of a detail of a master that is there.
LEMMA RowInserted ==
  ASSUME TypeOK, NEW c \in Clients, Databases(c), Transactions(c),
         NEW row \in Rows,
         \/ row.kind = "master"
         \/ row.kind = "detail" /\ row.fk \in Ids /\ IsMaster(View(c), row.fk),
         nextId <= MaxId, Exec(c, nextId, row), nextId' = nextId + 1
  PROVE  /\ Databases(c)' /\ inTx'[c] = inTx[c] /\ (~inTx'[c] => pend'[c] = NoPend)
         /\ nextId \in Ids
         /\ View(c)'[nextId] = row
         /\ \A i \in Ids : IsMaster(View(c), i) => IsMaster(View(c)', i)
<1>1. nextId \in Ids /\ ConTypeOK
  BY IdAssumption DEF TypeOK, Ids
<1>2. /\ View(c)' = [View(c) EXCEPT ![nextId] = row]
      /\ disk' = disk \/ disk' = View(c)'
      /\ inTx'[c] = inTx[c] /\ (~inTx'[c] => pend'[c] = NoPend)
  BY <1>1, ExecView DEF Transactions
<1>3. View(c) \in [Ids -> Rows \cup {NoRow}]
  BY <1>1, ViewType
<1>4. \A j \in Ids : View(c)'[j] = IF j = nextId THEN row ELSE View(c)[j]
  BY <1>2, <1>3
<1>5. WithMasters(View(c)) /\ Fresh(View(c)) /\ View(c)[nextId] = NoRow
  BY <1>1, IdAssumption DEF Databases, Fresh, Ids
<1>6. \A i \in Ids : IsMaster(View(c), i) => IsMaster(View(c)', i)
  BY <1>4, <1>5 DEF IsMaster
<1>7. WithMasters(View(c)')
  BY <1>1, <1>4, <1>5, <1>6, RowFacts DEF WithMasters
<1>8. Fresh(View(c))'
  BY <1>1, <1>4, <1>5, IdAssumption DEF Fresh, Ids
<1>9. nextId \in Nat
  BY <1>1, IdAssumption DEF Ids
<1>10. Databases(c)'
  BY <1>2, <1>7, <1>8, <1>9, BothDatabases
<1> QED
  BY <1>1, <1>2, <1>4, <1>6, <1>10

\* UPDATE of a master, or DELETE of a row that is not the master of any other.
LEMMA RowReplaced ==
  ASSUME TypeOK, NEW c \in Clients, Databases(c), Transactions(c),
         NEW i \in Ids, NEW row \in Rows \cup {NoRow}, View(c)[i] # NoRow,
         IF row = NoRow THEN DetailIds(View(c), i) = {} ELSE row.kind = "master",
         Exec(c, i, row), nextId' = nextId
  PROVE  /\ Databases(c)' /\ inTx'[c] = inTx[c] /\ (~inTx'[c] => pend'[c] = NoPend)
         /\ \A j \in Ids : View(c)'[j] = IF j = i THEN row ELSE View(c)[j]
<1>1. ConTypeOK
  BY DEF TypeOK
<1>2. /\ View(c)' = [View(c) EXCEPT ![i] = row]
      /\ disk' = disk \/ disk' = View(c)'
      /\ inTx'[c] = inTx[c] /\ (~inTx'[c] => pend'[c] = NoPend)
  BY <1>1, ExecView DEF Transactions
<1>3. View(c) \in [Ids -> Rows \cup {NoRow}]
  BY <1>1, ViewType
<1>4. \A j \in Ids : View(c)'[j] = IF j = i THEN row ELSE View(c)[j]
  BY <1>2, <1>3
<1>5. WithMasters(View(c)) /\ Fresh(View(c))
  BY DEF Databases
<1>6. WithMasters(View(c)')
  <2> SUFFICES ASSUME NEW j \in Ids, View(c)'[j] # NoRow, View(c)'[j].kind = "detail"
               PROVE  View(c)'[j].fk \in Ids /\ IsMaster(View(c)', View(c)'[j].fk)
    BY DEF WithMasters
  <2>1. j # i /\ View(c)'[j] = View(c)[j]
    BY <1>4
  <2>2. View(c)[j].fk \in Ids /\ IsMaster(View(c), View(c)[j].fk)
    BY <1>5, <2>1 DEF WithMasters
  <2>3. View(c)[j].fk = i => row # NoRow
    BY <2>1 DEF DetailIds
  <2> QED
    BY <1>4, <2>1, <2>2, <2>3 DEF IsMaster
<1>7. Fresh(View(c))'
  BY <1>4, <1>5 DEF Fresh
<1>8. nextId \in Nat
  BY IdAssumption DEF TypeOK
<1> QED
  BY <1>2, <1>4, <1>6, <1>7, <1>8, BothDatabases

-------------------------------------------------------------------------------
(* Every action keeps what holds of the database and of the client.        *)

\* The four ways of opening a record put in the form what the database holds.
LEMMA OpenKeeps ==
  ASSUME TypeOK, NEW c \in Clients, Databases(c), Transactions(c),
         NEW op, NEW o, NEW m, Open(c, op, o, m),
         IF o.isNew THEN m = "save"
         ELSE o.id \in Ids /\ IsMaster(disk, o.id) /\ o.orig = DetailIds(disk, o.id)
  PROVE  Good(c)'
<1>1. /\ pc[c] = "idle" /\ pc'[c] = "editing" /\ obj'[c] = o /\ mode'[c] = m
      /\ UNCHANGED conVars /\ nextId' = nextId
  BY DEF Open, Set, TypeOK
<1>2. disk' = disk /\ View(c)' = View(c) /\ pend' = pend /\ inTx' = inTx
  BY <1>1, SameView DEF conVars
<1>3. Databases(c)'
  BY <1>1, <1>2, SameDatabases
<1>4. Transactions(c)'
  BY <1>1, <1>2 DEF Transactions, Busy
<1>5. Placed(c)'
  BY <1>1, <1>2 DEF Placed, IsMaster, DetailIds
<1> QED
  BY <1>3, <1>4, <1>5 DEF Good

\* An action that leaves the client idle or with an error, and its transaction
\* ended, has nothing else to keep.
LEMMA EndKeeps ==
  ASSUME NEW c \in Clients, Databases(c),
         ~inTx'[c], pend'[c] = NoPend, pc'[c] \in {"idle", "failed"}, nextId' = nextId,
         disk' = disk \/ disk' = View(c), View(c)' = disk \/ View(c)' = View(c)
  PROVE  Good(c)'
<1>1. Databases(c)'
  BY SameDatabases
<1>2. Transactions(c)' /\ Placed(c)'
  BY DEF Transactions, Placed
<1> QED
  BY <1>1, <1>2 DEF Good

LEMMA LeaveIsIdle ==
  ASSUME TypeOK, NEW c \in Clients, Leave(c)
  PROVE  pc'[c] = "idle"
  BY DEF Leave, Set, TypeOK

LEMMA UserKeeps ==
  ASSUME Driver = "mysql", Retries = FALSE,
         TypeOK, NEW c \in Clients, Good(c), User(c)
  PROVE  Good(c)'
<1> USE DEF Good
<1>t. ConTypeOK
  BY DEF TypeOK
<1>1. CASE BeginInsert(c)
  <2>1. PICK v \in Values, ls \in Lines : Open(c, "insert", BlankObject(v, ls), "save")
    BY <1>1 DEF BeginInsert
  <2>2. BlankObject(v, ls).isNew
    BY DEF BlankObject
  <2> QED
    BY <2>1, <2>2, OpenKeeps
<1>2. CASE BeginUpdate(c)
  <2>1. PICK i \in Ids, v \in Values, ls \in Lines :
          /\ IsMaster(disk, i)
          /\ Open(c, "update",
                  [ReadObject(i) EXCEPT !.val = v, !.dirty = (v # ReadObject(i).val),
                                        !.lines = ls], "save")
    BY <1>2 DEF BeginUpdate
  <2> DEFINE o == [ReadObject(i) EXCEPT !.val = v, !.dirty = (v # ReadObject(i).val),
                                        !.lines = ls]
  <2>2. o.id = i /\ o.orig = DetailIds(disk, i) /\ ~o.isNew
    BY DEF ReadObject
  <2>3. Open(c, "update", o, "save")
    BY <2>1
  <2> HIDE DEF o
  <2> QED
    BY <2>1, <2>2, <2>3, OpenKeeps
<1>3. CASE BeginDuplicate(c)
  <2>1. PICK i \in Ids :
          /\ IsMaster(disk, i) /\ StoredLines(disk, i) \in Lines
          /\ Open(c, "duplicate",
                  [ReadObject(i) EXCEPT !.isNew = TRUE, !.id = 0, !.dirty = TRUE], "save")
    BY <1>3 DEF BeginDuplicate
  <2> DEFINE o == [ReadObject(i) EXCEPT !.isNew = TRUE, !.id = 0, !.dirty = TRUE]
  <2>2. o.isNew /\ Open(c, "duplicate", o, "save")
    BY <1>t, <2>1, ObjectsRead
  <2> HIDE DEF o
  <2> QED
    BY <2>2, OpenKeeps
<1>4. CASE BeginDelete(c)
  <2>1. PICK i \in Ids :
          /\ IsMaster(disk, i)
          /\ Open(c, "delete", [ReadObject(i) EXCEPT !.lines = <<>>], "remove")
    BY <1>4 DEF BeginDelete
  <2> DEFINE o == [ReadObject(i) EXCEPT !.lines = <<>>]
  <2>2. /\ ~o.isNew /\ o.id = i /\ o.orig = DetailIds(disk, i)
        /\ Open(c, "delete", o, "remove")
    BY <1>t, <2>1, ObjectsRead
  <2> HIDE DEF o
  <2> QED
    BY <2>1, <2>2, OpenKeeps
<1>5. CASE Cancel(c)
  <2>1. pc'[c] = "idle" /\ UNCHANGED conVars /\ nextId' = nextId
    BY <1>5, LeaveIsIdle DEF Cancel
  <2>2. disk' = disk /\ View(c)' = View(c) /\ ~inTx'[c] /\ pend'[c] = NoPend
    BY <1>5, <2>1, SameView DEF Cancel, conVars, Transactions, Busy
  <2> QED
    BY <2>1, <2>2, EndKeeps
<1>6. CASE Accept(c)
  <2>1. /\ pc[c] = "editing" /\ BeginTransaction(c) /\ nextId' = nextId
        /\ obj' = obj /\ mode' = mode
        /\ pc'[c] = IF mode[c] = "save" /\ obj[c].isNew THEN "insert" ELSE "removing"
        /\ todo'[c] = IF obj[c].isNew THEN {} ELSE obj[c].orig
    BY <1>6 DEF Accept, Set, TypeOK
  <2>2. disk' = View(c) /\ View(c)' = View(c) /\ inTx'[c]
    BY <1>t, <2>1, BeginView
  <2>3. View(c) = disk
    BY <1>t, <2>1, NothingPending DEF Transactions, Busy
  <2>4. Databases(c)'
    BY <2>1, <2>2, SameDatabases
  <2>5. Transactions(c)'
    BY <2>1, <2>2 DEF Transactions, Busy
  <2>6. Placed(c)'
    BY <2>1, <2>2, <2>3 DEF Placed, IsMaster, DetailIds
  <2> QED
    BY <2>4, <2>5, <2>6
<1> QED
  BY <1>1, <1>2, <1>3, <1>4, <1>5, <1>6 DEF User

\* What holds before a statement of a save or a removal, spelt out.
LEMMA BeforeStatement ==
  ASSUME TypeOK, NEW c \in Clients, Good(c)
  PROVE  /\ ConTypeOK /\ Databases(c) /\ Transactions(c)
         /\ obj[c] \in Objects /\ obj[c].id \in 0 .. MaxId /\ obj[c].val \in Values
         /\ \A v \in Values : MasterRow(v) \in Rows /\ MasterRow(v).kind = "master"
         /\ View(c) \in [Ids -> Rows \cup {NoRow}]
  BY ViewType, RowFacts DEF TypeOK, Good, Objects

LEMMA InsertKeeps ==
  ASSUME TypeOK, NEW c \in Clients, Good(c), Insert(c)
  PROVE  Good(c)'
<1>1. /\ pc[c] = "insert" /\ nextId <= MaxId /\ nextId' = nextId + 1 /\ pc'[c] = "lines"
      /\ mode' = mode
      /\ obj' = [obj EXCEPT ![c].isNew = FALSE, ![c].id = nextId, ![c].dirty = FALSE]
      /\ Exec(c, nextId, MasterRow(obj[c].val))
  BY DEF Insert, StartLines, Set, TypeOK
<1>2. /\ Databases(c)' /\ inTx'[c] = inTx[c] /\ (~inTx'[c] => pend'[c] = NoPend)
      /\ nextId \in Ids /\ View(c)'[nextId] = MasterRow(obj[c].val)
      /\ MasterRow(obj[c].val) \in Rows /\ MasterRow(obj[c].val).kind = "master"
  BY <1>1, BeforeStatement, RowInserted
<1>3. obj'[c].id = nextId
  <2>1. nextId \in 0 .. MaxId /\ obj \in [Clients -> Objects]
    BY <1>2, IdAssumption DEF Ids, TypeOK
  <2> QED
    BY <1>1, <2>1, ObjectInserted
<1>4. Transactions(c)'
  BY <1>1, <1>2, BeforeStatement DEF Transactions, Busy
<1>5. Placed(c)'
  BY <1>1, <1>2, <1>3, RowFacts DEF Good, Placed, IsMaster
<1> QED
  BY <1>2, <1>4, <1>5 DEF Good

LEMMA UpdateKeeps ==
  ASSUME TypeOK, NEW c \in Clients, Good(c), Update(c)
  PROVE  Good(c)'
<1>1. /\ pc[c] = "removing" /\ nextId' = nextId /\ pc'[c] = "lines" /\ mode'[c] = "save"
      /\ obj' = [obj EXCEPT ![c].dirty = FALSE]
      /\ \/ Exec(c, obj[c].id, MasterRow(obj[c].val)) \/ UNCHANGED conVars
  BY DEF Update, StartLines, Set, TypeOK
<1>2. obj'[c].id = obj[c].id
  BY <1>1, ObjectUpdated DEF TypeOK
<1>3. obj[c].id \in Ids /\ IsMaster(View(c), obj[c].id)
  BY <1>1 DEF Good, Placed
<1>4. CASE Exec(c, obj[c].id, MasterRow(obj[c].val))
  <2> DEFINE row == MasterRow(obj[c].val)
  <2>1. row \in Rows /\ row.kind = "master" /\ row # NoRow /\ View(c)[obj[c].id] # NoRow
    BY <1>3, BeforeStatement, RowFacts DEF IsMaster
  <2>2. /\ Databases(c)' /\ inTx'[c] = inTx[c] /\ (~inTx'[c] => pend'[c] = NoPend)
        /\ View(c)'[obj[c].id] = row
    BY <1>1, <1>3, <1>4, <2>1, BeforeStatement, RowReplaced
  <2>3. Transactions(c)'
    BY <1>1, <2>2, BeforeStatement DEF Transactions, Busy
  <2>4. Placed(c)'
    BY <1>1, <1>2, <1>3, <2>1, <2>2 DEF Placed, IsMaster
  <2> QED
    BY <2>2, <2>3, <2>4 DEF Good
<1>5. CASE UNCHANGED conVars
  <2>1. disk' = disk /\ View(c)' = View(c) /\ pend' = pend /\ inTx' = inTx
    BY <1>5, SameView DEF conVars
  <2>2. Databases(c)'
    BY <1>1, <2>1, BeforeStatement, SameDatabases
  <2>3. Transactions(c)' /\ Placed(c)'
    BY <1>1, <1>2, <1>3, <2>1, BeforeStatement DEF Transactions, Placed, Busy, IsMaster
  <2> QED
    BY <2>2, <2>3 DEF Good
<1> QED
  BY <1>1, <1>4, <1>5

LEMMA DeleteMasterKeeps ==
  ASSUME TypeOK, NEW c \in Clients, Good(c), DeleteMaster(c)
  PROVE  Good(c)'
<1>1. /\ pc[c] = "removing" /\ nextId' = nextId /\ pc'[c] = "closing" /\ todo[c] = {}
      /\ obj' = obj
      /\ IsMaster(View(c), obj[c].id) => Exec(c, obj[c].id, NoRow)
  BY DEF DeleteMaster, Set, TypeOK
<1>2. /\ obj[c].id \in Ids /\ IsMaster(View(c), obj[c].id) /\ View(c)[obj[c].id] # NoRow
      /\ DetailIds(View(c), obj[c].id) = {}
  BY <1>1 DEF Good, Placed, IsMaster
<1>3. /\ Databases(c)' /\ inTx'[c] = inTx[c] /\ (~inTx'[c] => pend'[c] = NoPend)
      /\ \A j \in Ids : View(c)'[j] = IF j = obj[c].id THEN NoRow ELSE View(c)[j]
  BY <1>1, <1>2, BeforeStatement, RowReplaced
<1>4. Transactions(c)'
  BY <1>1, <1>3, BeforeStatement DEF Transactions, Busy
<1>5. View(c)'[obj[c].id] = NoRow /\ DetailIds(View(c)', obj[c].id) = {}
  BY <1>2, <1>3 DEF DetailIds
<1>6. Placed(c)'
  BY <1>1, <1>5 DEF Placed
<1> QED
  BY <1>3, <1>4, <1>6 DEF Good

LEMMA RemoveDetailKeeps ==
  ASSUME TypeOK, NEW c \in Clients, Good(c), RemoveDetail(c)
  PROVE  Good(c)'
<1>1. /\ pc[c] = "removing" /\ nextId' = nextId /\ pc' = pc /\ obj' = obj
      /\ todo'[c] = todo[c] \ NextToRemove(c)
  BY DEF RemoveDetail, DetailToRemove, Set, TypeOK
<1>2. /\ obj[c].id \in Ids /\ IsMaster(View(c), obj[c].id)
      /\ todo[c] = DetailIds(View(c), obj[c].id)
  BY <1>1 DEF Good, Placed
<1>3. PICK i \in NextToRemove(c) :
        IF View(c)[i] # NoRow THEN Exec(c, i, NoRow) ELSE UNCHANGED conVars
  BY DEF RemoveDetail
<1>4. /\ i \in todo[c] /\ i \in Ids
      /\ View(c)[i] # NoRow /\ View(c)[i].kind = "detail"
  BY <1>2, <1>3 DEF NextToRemove, DetailIds
<1>5. NextToRemove(c) = {i}
  <2>1. \A j \in NextToRemove(c) : i <= j /\ j <= i /\ j \in Ids
    BY <1>2, <1>3, <1>4 DEF NextToRemove, DetailIds
  <2>2. \A j \in NextToRemove(c) : j = i
    BY <1>4, <2>1, IdAssumption DEF Ids
  <2> QED
    BY <1>3, <2>2
<1>6. DetailIds(View(c), i) = {}
  <2>1. WithMasters(View(c))
    BY BeforeStatement DEF Databases
  <2> QED
    BY <1>4, <2>1 DEF DetailIds, WithMasters, IsMaster
<1>7. /\ Databases(c)' /\ inTx'[c] = inTx[c] /\ (~inTx'[c] => pend'[c] = NoPend)
      /\ \A j \in Ids : View(c)'[j] = IF j = i THEN NoRow ELSE View(c)[j]
  BY <1>1, <1>3, <1>4, <1>6, BeforeStatement, RowReplaced
<1>8. Transactions(c)'
  BY <1>1, <1>7, BeforeStatement DEF Transactions, Busy
<1>9. IsMaster(View(c)', obj[c].id)
  BY <1>2, <1>4, <1>7 DEF IsMaster
<1>10. todo'[c] = DetailIds(View(c)', obj[c].id)
  BY <1>1, <1>2, <1>5, <1>7 DEF DetailIds
<1>11. Placed(c)'
  BY <1>1, <1>2, <1>9, <1>10 DEF Placed
<1> QED
  BY <1>7, <1>8, <1>11 DEF Good

LEMMA InsertDetailKeeps ==
  ASSUME TypeOK, NEW c \in Clients, Good(c), InsertDetail(c)
  PROVE  Good(c)'
<1> DEFINE row == DetailRow(obj[c].id, obj[c].lines[at[c]])
<1>1. /\ pc[c] = "lines" /\ pc' = pc /\ obj' = obj /\ mode' = mode
      /\ nextId <= MaxId /\ nextId' = nextId + 1 /\ Exec(c, nextId, row)
      /\ at[c] <= Len(obj[c].lines)
  BY DEF InsertDetail, DetailToInsert
<1>2. obj[c].id \in Ids /\ IsMaster(View(c), obj[c].id)
  BY <1>1 DEF Good, Placed
<1>3. row \in Rows /\ row.kind = "detail" /\ row.fk = obj[c].id
  <2>1. obj[c].lines \in Seq(Contents) /\ at[c] \in Nat \ {0}
    BY DEF TypeOK, Objects
  <2>2. obj[c].lines[at[c]] \in Contents /\ obj[c].id \in 0 .. MaxId
    BY <1>1, <2>1, BeforeStatement
  <2> QED
    BY <2>2, RowFacts
<1> HIDE DEF row
<1>4. /\ Databases(c)' /\ inTx'[c] = inTx[c] /\ (~inTx'[c] => pend'[c] = NoPend)
      /\ IsMaster(View(c)', obj[c].id)
  BY <1>1, <1>2, <1>3, BeforeStatement, RowInserted
<1>5. Transactions(c)'
  BY <1>1, <1>4, BeforeStatement DEF Transactions, Busy
<1>6. Placed(c)'
  BY <1>1, <1>2, <1>4 DEF Good, Placed
<1> QED
  BY <1>4, <1>5, <1>6 DEF Good

\* The BEGIN and COMMIT of a detail's own save commit what the master's save has
\* done so far: this is where WithMasters must hold of what the client sees.
LEMMA NestKeeps ==
  ASSUME Driver = "mysql", TypeOK, NEW c \in Clients, Good(c),
         NestBegin(c) \/ NestCommit(c)
  PROVE  Good(c)'
<1>1. UNCHANGED <<nextId, obj, pc, mode, todo>>
  BY DEF NestBegin, NestCommit
<1>2. disk' = View(c) /\ View(c)' = View(c)
  BY BeforeStatement, BeginView, CommitView DEF NestBegin, NestCommit
<1>3. \/ inTx'[c] /\ pc[c] \in Busy
      \/ ~inTx'[c] /\ pend'[c] = NoPend
  BY BeforeStatement, BeginView, CommitView
     DEF NestBegin, NestCommit, DetailToRemove, DetailToInsert, Busy
<1>4. pc[c] = "editing" => View(c) = disk
  BY BeforeStatement, NothingPending DEF Transactions, Busy
<1>5. Databases(c)'
  BY <1>1, <1>2, BeforeStatement, SameDatabases
<1>6. Transactions(c)'
  BY <1>1, <1>3 DEF Transactions
<1>7. Placed(c)'
  BY <1>1, <1>2, <1>4 DEF Good, Placed, IsMaster, DetailIds
<1> QED
  BY <1>5, <1>6, <1>7 DEF Good

LEMMA CommitKeeps ==
  ASSUME TypeOK, NEW c \in Clients, Good(c), Commit(c)
  PROVE  Good(c)'
<1>1. pc'[c] = "idle" /\ nextId' = nextId /\ CommitTransaction(c)
  BY LeaveIsIdle DEF Commit
<1>2. disk' = View(c) /\ View(c)' = View(c) /\ ~inTx'[c] /\ pend'[c] = NoPend
  BY <1>1, BeforeStatement, CommitView
<1> QED
  BY <1>1, <1>2, BeforeStatement, EndKeeps

\* A failure that is an error, or the death of the process: ROLLBACK.
LEMMA FailureKeeps ==
  ASSUME Driver = "mysql", Vetoes = FALSE,
         TypeOK, NEW c \in Clients, Good(c), Failure(c)
  PROVE  Good(c)'
<1>1. StatementFails(c) \/ Crash(c)
  BY DEF Failure, LostInsert, LostInsertDetail, LostRemoveDetail, LostUpdate,
         MasterVetoed, MasterSkipped, DetailVetoed
<1>2. /\ RollbackTransaction(c) /\ pc'[c] \in {"idle", "failed"} /\ nextId' = nextId
  BY <1>1, LeaveIsIdle DEF StatementFails, Abandon, Crash, Set, TypeOK
<1>3. disk' = disk /\ View(c)' = disk /\ ~inTx'[c] /\ pend'[c] = NoPend
  BY <1>2, BeforeStatement, RollbackView
<1> QED
  BY <1>2, <1>3, BeforeStatement, EndKeeps

LEMMA StepKeeps ==
  ASSUME Driver = "mysql", Retries = FALSE, Vetoes = FALSE,
         TypeOK, NEW c \in Clients, Good(c), User(c) \/ Statement(c) \/ Failure(c)
  PROVE  Good(c)'
  BY UserKeeps, FailureKeeps, InsertKeeps, UpdateKeeps, DeleteMasterKeeps,
     RemoveDetailKeeps, InsertDetailKeeps, NestKeeps, CommitKeeps DEF Statement

LEMMA StutterKeeps ==
  ASSUME UNCHANGED vars, NEW c \in Clients, Good(c)
  PROVE  Good(c)'
<1>1. disk' = disk /\ View(c)' = View(c)
  BY SameView DEF vars
<1>2. UNCHANGED <<nextId, obj, pc, mode, todo, pend, inTx>>
  BY DEF vars, conVars, recVars
<1>3. Databases(c)'
  BY <1>1, <1>2, SameDatabases DEF Good
<1>4. Transactions(c)' /\ Placed(c)'
  BY <1>1, <1>2 DEF Good, Transactions, Placed, IsMaster, DetailIds
<1> QED
  BY <1>3, <1>4 DEF Good

LEMMA InitGood == Init => IInv
<1> SUFFICES ASSUME Init PROVE IInv
  OBVIOUS
<1>1. TypeOK
  BY InitType
<1>2. ASSUME NEW c \in Clients PROVE Good(c)
  <2>1. disk = [i \in Ids |-> NoRow] /\ pend[c] = NoPend /\ ~inTx[c] /\ pc[c] = "idle"
    BY DEF Init, ConInit
  <2>2. View(c) = disk
    BY <1>1, <2>1, NothingPending DEF TypeOK
  <2> QED
    BY <2>1, <2>2 DEF Good, Databases, WithMasters, Fresh, Transactions, Placed
<1> QED
  BY <1>1, <1>2 DEF IInv

\* The one client is the one whose step it is: nothing else changes the database
\* under its form.
LEMMA NextKeeps ==
  ASSUME NEW q, Clients = {q}, Driver = "mysql", Retries = FALSE, Vetoes = FALSE,
         IInv, [Next]_vars
  PROVE  IInv'
<1>1. TypeOK'
  BY UserType, StatementType, FailureType, StutterType DEF IInv, Next
<1>2. Good(q)'
  BY StepKeeps, StutterKeeps DEF IInv, Next
<1> QED
  BY <1>1, <1>2 DEF IInv

\* One client on MySQL that gives up when a save fails, whose behaviours refuse
\* nothing, leaves no stored detail without its stored master: at no moment of a
\* save or removal, whether details open transactions of their own or not,
\* whatever statement fails and whenever the process dies.
THEOREM OneClientNoOrphans ==
  ASSUME NEW q, Clients = {q}, Driver = "mysql", Retries = FALSE, Vetoes = FALSE
  PROVE  Spec => []NoOrphans
<1>1. IInv /\ [Next]_vars => IInv'
  BY NextKeeps
<1>2. IInv => NoOrphans
  BY DEF IInv, Good, Databases, WithMasters, NoOrphans
<1> QED
  BY <1>1, <1>2, InitGood, PTL DEF Spec

\* For the same client, a removal that says it is done has left neither the record
\* nor any of its details.
THEOREM OneClientRemovedIsGone ==
  ASSUME NEW q, Clients = {q}, Driver = "mysql", Retries = FALSE, Vetoes = FALSE
  PROVE  Spec => RemovedIsGone
<1> DEFINE A == \A c \in Clients :
                  Commit(c) /\ mode[c] = "remove" =>
                    /\ disk'[obj[c].id] = NoRow
                    /\ DetailIds(disk', obj[c].id) = {}
<1>1. IInv /\ [Next]_vars => IInv'
  BY NextKeeps
<1>2. ASSUME IInv PROVE A
  <2> SUFFICES ASSUME NEW c \in Clients, Commit(c), mode[c] = "remove"
               PROVE  disk'[obj[c].id] = NoRow /\ DetailIds(disk', obj[c].id) = {}
    OBVIOUS
  <2>1. Good(c) /\ TypeOK
    BY <1>2 DEF IInv
  <2>2. disk' = View(c)
    BY <2>1, BeforeStatement, CommitView DEF Commit
  <2>3. pc[c] = "closing"
    BY <2>1 DEF Commit, AtEnd, Good, Placed
  <2> QED
    BY <2>1, <2>2, <2>3 DEF Good, Placed
<1>3. IInv /\ [Next]_vars => [A]_vars
  BY <1>2
<1> HIDE DEF A
<1>4. Spec => [][A]_vars
  BY <1>1, <1>3, InitGood, PTL DEF Spec
<1> QED
  BY <1>4 DEF RemovedIsGone, A
-------------------------------------------------------------------------------
(* The lines of a record, in their order.                                  *)

LEMMA FiniteDetails ==
  ASSUME NEW db, NEW i
  PROVE  /\ DetailIds(db, i) \in SUBSET Nat /\ IsFiniteSet(DetailIds(db, i))
         /\ Cardinality(DetailIds(db, i)) \in Nat
<1>1. DetailIds(db, i) \subseteq Ids /\ Ids \subseteq Nat
  BY IdAssumption DEF DetailIds, Ids
<1>2. IsFiniteSet(Ids)
  BY IdAssumption, FS_Interval DEF Ids
<1> QED
  BY <1>1, <1>2, FS_Subset, FS_CardinalityType

\* However the numbers of a set are put in order, that is what CHOOSE gives.
LEMMA ChosenOrder ==
  ASSUME NEW S \in SUBSET Nat, IsFiniteSet(S), NEW s, Ordered(s, S)
  PROVE  (CHOOSE t \in [1 .. Cardinality(S) -> S] :
            \A m, n \in DOMAIN t : m < n => t[m] < t[n]) = s
<1> DEFINE F == [1 .. Cardinality(S) -> S]
           P(t) == \A m, n \in DOMAIN t : m < n => t[m] < t[n]
           ids == CHOOSE t \in F : P(t)
<1>1. \A t \in F : DOMAIN t = 1 .. Cardinality(S)
  OBVIOUS
<1>2. s \in F /\ P(s)
  BY <1>1 DEF Ordered
<1>3. ids \in F /\ P(ids)
  <2> HIDE DEF F, P
  <2> QED
    BY <1>2
<1>4. Ordered(ids, S)
  <2> HIDE DEF ids
  <2> QED
    BY <1>1, <1>3 DEF Ordered
<1> HIDE DEF F, P, ids
<1>5. ids = s
  BY <1>4, OrderUnique
<1> QED
  BY <1>5 DEF ids, F, P

\* However the ids of the details are put in order, the lines are what is under them.
LEMMA LinesAre ==
  ASSUME NEW db, NEW i, NEW s, Ordered(s, DetailIds(db, i))
  PROVE  StoredLines(db, i) = [n \in 1 .. Cardinality(DetailIds(db, i)) |-> db[s[n]].val]
<1> DEFINE S == DetailIds(db, i)
           ids == CHOOSE t \in [1 .. Cardinality(S) -> S] :
                    \A m, n \in DOMAIN t : m < n => t[m] < t[n]
<1>1. StoredLines(db, i) = [n \in 1 .. Cardinality(S) |-> db[ids[n]].val]
  BY DEF StoredLines
<1>2. S \in SUBSET Nat /\ IsFiniteSet(S) /\ Ordered(s, S)
  BY FiniteDetails
<1>3. ids = s
  <2> HIDE DEF S
  <2> QED
    BY <1>2, ChosenOrder
<1> HIDE DEF ids
<1> QED
  BY <1>1, <1>3

\* Two databases that hold the same details under a master hold the same lines.
LEMMA SameLines ==
  ASSUME NEW a, NEW b, NEW i, \A j \in Ids : a[j] = b[j] \/ j \notin DetailIds(a, i) \cup DetailIds(b, i)
  PROVE  StoredLines(a, i) = StoredLines(b, i) /\ DetailIds(a, i) = DetailIds(b, i)
<1>1. DetailIds(a, i) = DetailIds(b, i)
  BY DEF DetailIds
<1>2. PICK s : Ordered(s, DetailIds(a, i))
  BY FiniteDetails, SortedExists
<1>3. \A n \in 1 .. Cardinality(DetailIds(a, i)) : a[s[n]].val = b[s[n]].val
  BY <1>1, <1>2 DEF Ordered, DetailIds
<1>4. /\ StoredLines(a, i) = [n \in 1 .. Cardinality(DetailIds(a, i)) |-> a[s[n]].val]
      /\ StoredLines(b, i) = [n \in 1 .. Cardinality(DetailIds(a, i)) |-> b[s[n]].val]
  BY <1>1, <1>2, LinesAre
<1> QED
  BY <1>1, <1>3, <1>4

LEMMA NoLines ==
  ASSUME NEW db, NEW i, DetailIds(db, i) = {}
  PROVE  StoredLines(db, i) = <<>>
<1>1. Cardinality(DetailIds(db, i)) = 0
  BY FS_EmptySet
<1>2. PICK s : Ordered(s, DetailIds(db, i))
  BY FiniteDetails, SortedExists
<1>3. StoredLines(db, i) = [n \in 1 .. 0 |-> db[s[n]].val]
  BY <1>1, <1>2, LinesAre
<1> QED
  BY <1>3

\* A detail with an id greater than any other's is the last line.
LEMMA LineAdded ==
  ASSUME NEW a, NEW b, NEW i, NEW k \in Ids, NEW x,
         \A j \in Ids : j >= k => a[j] = NoRow,
         \A j \in Ids : b[j] = IF j = k THEN DetailRow(i, x) ELSE a[j],
         DetailRow(i, x) # NoRow
  PROVE  /\ StoredLines(b, i) = Append(StoredLines(a, i), x)
         /\ Len(StoredLines(b, i)) = Len(StoredLines(a, i)) + 1
<1> DEFINE S == DetailIds(a, i)
           T == DetailIds(b, i)
           n == Cardinality(S)
<1>1. T = S \cup {k} /\ k \notin S /\ \A j \in S : j < k
  <2>1. \A j \in Ids : j \in Nat /\ k \in Nat
    BY IdAssumption DEF Ids
  <2>2. DetailRow(i, x).kind = "detail" /\ DetailRow(i, x).fk = i
    BY DEF DetailRow
  <2> QED
    BY <2>1, <2>2 DEF DetailIds
<1>2. n \in Nat /\ IsFiniteSet(S) /\ S \in SUBSET Nat
  BY FiniteDetails
<1>3. Cardinality(T) = n + 1
  BY <1>1, <1>2, FS_AddElement
<1>4. PICK s : Ordered(s, S)
  BY <1>2, SortedExists
<1> DEFINE t == [m \in 1 .. n + 1 |-> IF m <= n THEN s[m] ELSE k]
<1>5. Ordered(t, T)
  <2>1. s \in [1 .. n -> S] /\ \A l, m \in 1 .. n : l < m => s[l] < s[m]
    BY <1>4 DEF Ordered
  <2> HIDE DEF n, S, T
  <2>2. t \in [1 .. n + 1 -> T]
    BY <1>1, <1>2, <2>1
  <2>3. ASSUME NEW l \in 1 .. n + 1, NEW m \in 1 .. n + 1, l < m PROVE t[l] < t[m]
    <3>1. l \in 1 .. n /\ t[l] = s[l] /\ s[l] \in S
      BY <1>2, <2>1, <2>3
    <3>2. CASE m = n + 1
      <4>1. t[m] = k
        BY <1>2, <3>2
      <4> QED
        BY <1>1, <3>1, <4>1
    <3>3. CASE m # n + 1
      BY <1>2, <2>1, <2>3, <3>1, <3>3
    <3> QED
      BY <3>2, <3>3
  <2> QED
    BY <1>3, <2>2, <2>3 DEF Ordered
<1>6. /\ StoredLines(a, i) = [m \in 1 .. n |-> a[s[m]].val]
      /\ StoredLines(b, i) = [m \in 1 .. n + 1 |-> b[t[m]].val]
  <2> HIDE DEF t
  <2> QED
    BY <1>3, <1>4, <1>5, LinesAre
<1>7. \A m \in 1 .. n : b[t[m]].val = a[s[m]].val
  <2>1. \A m \in 1 .. n : s[m] \in S /\ t[m] = s[m]
    BY <1>2, <1>4 DEF Ordered
  <2>2. \A j \in S : j \in Ids /\ j # k
    BY <1>1 DEF DetailIds
  <2> QED
    BY <2>1, <2>2
<1>8. b[t[n + 1]].val = x
  <2>1. t[n + 1] = k
    BY <1>2
  <2> QED
    BY <2>1 DEF DetailRow
<1> HIDE DEF n, t
<1>9. Len(StoredLines(a, i)) = n /\ Len(StoredLines(b, i)) = n + 1
  BY <1>2, <1>6
<1> QED
  BY <1>2, <1>6, <1>7, <1>8, <1>9

-------------------------------------------------------------------------------
(* One client on MySQL, that gives up when a save fails: what is saved is  *)
(* what was typed.                                                         *)

\* The row of the master holds what the form shows, but for an update still to be
\* made; under it there are the lines inserted so far and no other.
AsTyped(c) ==
  /\ pc[c] = "editing" \/ pc[c] \in Busy => obj[c].lines \in Lines
  /\ pc[c] = "editing" /\ ~obj[c].isNew /\ ~obj[c].dirty =>
       disk[obj[c].id] = MasterRow(obj[c].val)
  /\ pc[c] = "removing" /\ ~obj[c].dirty => View(c)[obj[c].id] = MasterRow(obj[c].val)
  /\ pc[c] = "lines" =>
       /\ at[c] <= Len(obj[c].lines) + 1
       /\ View(c)[obj[c].id] = MasterRow(obj[c].val)
       /\ StoredLines(View(c), obj[c].id) = SubSeq(obj[c].lines, 1, at[c] - 1)
  /\ pc[c] = "closing" => mode[c] = "remove" /\ obj[c].id \in Ids

IInvLines == IInv /\ \A c \in Clients : AsTyped(c)

\* A row that is a master is the row of its value.
LEMMA MasterIs ==
  ASSUME NEW r \in Rows, r.kind = "master"
  PROVE  r = MasterRow(r.val)
<1>1. \A i \in 0 .. MaxId, x \in Contents : DetailRow(i, x).kind = "detail"
  BY DEF DetailRow
<1>2. \A v \in Values : MasterRow(v).val = v
  BY DEF MasterRow
<1> QED
  BY <1>1, <1>2, RowsAssumption DEF DbRows

\* A client that browses or gave up has nothing to keep.
LEMMA EndAsTyped ==
  ASSUME NEW c \in Clients, pc'[c] \in {"idle", "failed"}
  PROVE  AsTyped(c)'
  BY DEF AsTyped, Busy

\* A record that is opened for an update that changes nothing in it is stored as typed.
LEMMA OpenAsTyped ==
  ASSUME TypeOK, NEW c \in Clients, NEW op, NEW o, NEW m, Open(c, op, o, m), o.lines \in Lines,
         o.isNew \/ o.dirty \/ disk[o.id] = MasterRow(o.val)
  PROVE  AsTyped(c)'
<1>1. pc'[c] = "editing" /\ obj'[c] = o /\ disk' = disk
  BY DEF Open, Set, TypeOK, conVars
<1> QED
  BY <1>1 DEF AsTyped, Busy

LEMMA UserAsTyped ==
  ASSUME Driver = "mysql", Retries = FALSE,
         TypeOK, NEW c \in Clients, Good(c), AsTyped(c), User(c)
  PROVE  AsTyped(c)'
<1>t. ConTypeOK
  BY DEF TypeOK
<1>1. CASE BeginInsert(c)
  <2>1. PICK v \in Values, ls \in Lines : Open(c, "insert", BlankObject(v, ls), "save")
    BY <1>1 DEF BeginInsert
  <2>2. BlankObject(v, ls).isNew /\ BlankObject(v, ls).lines \in Lines
    BY DEF BlankObject
  <2> QED
    BY <2>1, <2>2, OpenAsTyped
<1>2. CASE BeginUpdate(c)
  <2>1. PICK i \in Ids, v \in Values, ls \in Lines :
          /\ IsMaster(disk, i)
          /\ Open(c, "update",
                  [ReadObject(i) EXCEPT !.val = v, !.dirty = (v # ReadObject(i).val),
                                        !.lines = ls], "save")
    BY <1>2 DEF BeginUpdate
  <2> DEFINE o == [ReadObject(i) EXCEPT !.val = v, !.dirty = (v # ReadObject(i).val),
                                        !.lines = ls]
  <2>2. o.id = i /\ o.lines \in Lines /\ o.val = v /\ o.dirty = (v # disk[i].val)
    BY DEF ReadObject
  <2>3. disk[i] = MasterRow(disk[i].val)
    BY <1>t, <2>1, MasterIs DEF IsMaster, ConTypeOK
  <2>4. Open(c, "update", o, "save")
    BY <2>1
  <2> HIDE DEF o
  <2> QED
    BY <2>2, <2>3, <2>4, OpenAsTyped
<1>3. CASE BeginDuplicate(c)
  <2>1. PICK i \in Ids :
          /\ IsMaster(disk, i) /\ StoredLines(disk, i) \in Lines
          /\ Open(c, "duplicate",
                  [ReadObject(i) EXCEPT !.isNew = TRUE, !.id = 0, !.dirty = TRUE], "save")
    BY <1>3 DEF BeginDuplicate
  <2> DEFINE o == [ReadObject(i) EXCEPT !.isNew = TRUE, !.id = 0, !.dirty = TRUE]
  <2>2. o.isNew /\ o.lines \in Lines /\ Open(c, "duplicate", o, "save")
    BY <2>1 DEF ReadObject
  <2> HIDE DEF o
  <2> QED
    BY <2>2, OpenAsTyped
<1>4. CASE BeginDelete(c)
  <2>1. PICK i \in Ids :
          /\ IsMaster(disk, i)
          /\ Open(c, "delete", [ReadObject(i) EXCEPT !.lines = <<>>], "remove")
    BY <1>4 DEF BeginDelete
  <2> DEFINE o == [ReadObject(i) EXCEPT !.lines = <<>>]
  <2>2. /\ o.id = i /\ o.lines = <<>> /\ o.val = disk[i].val
        /\ Open(c, "delete", o, "remove")
    BY <2>1 DEF ReadObject
  <2>3. disk[i] = MasterRow(disk[i].val)
    BY <1>t, <2>1, MasterIs DEF IsMaster, ConTypeOK
  <2>4. <<>> \in Lines
    <3>1. <<>> \in [1 .. 0 -> Contents] /\ 0 \in 0 .. MaxLines
      BY LinesAssumption
    <3> QED
      BY <3>1 DEF Lines
  <2> HIDE DEF o
  <2> QED
    BY <2>2, <2>3, <2>4, OpenAsTyped
<1>5. CASE Cancel(c)
  BY <1>5, LeaveIsIdle, EndAsTyped DEF Cancel
<1>6. CASE Accept(c)
  <2>1. /\ pc[c] = "editing" /\ BeginTransaction(c) /\ obj' = obj
        /\ pc'[c] = IF mode[c] = "save" /\ obj[c].isNew THEN "insert" ELSE "removing"
    BY <1>6 DEF Accept, Set, TypeOK
  <2>2. View(c)' = View(c)
    BY <1>t, <2>1, BeginView
  <2>3. View(c) = disk
    BY <1>t, <2>1, NothingPending DEF Good, Transactions, Busy
  <2>4. pc'[c] = "removing" => ~obj[c].isNew
    BY <2>1 DEF Good, Placed
  <2> QED
    BY <2>1, <2>2, <2>3, <2>4 DEF AsTyped, Busy
<1> QED
  BY <1>1, <1>2, <1>3, <1>4, <1>5, <1>6 DEF User

\* A master just inserted, and one whose details have all been deleted, has no lines.
LEMMA StartsAsTyped ==
  ASSUME TypeOK, NEW c \in Clients, pc'[c] = "lines", at'[c] = 1, NEW i \in Ids,
         obj'[c].id = i, obj'[c].lines \in Lines,
         View(c)'[i] = MasterRow(obj'[c].val), DetailIds(View(c)', i) = {}
  PROVE  AsTyped(c)'
<1>1. obj'[c].lines \in Seq(Contents)
  BY LinesAreSequences
<1>2. at'[c] <= Len(obj'[c].lines) + 1 /\ SubSeq(obj'[c].lines, 1, at'[c] - 1) = <<>>
  BY <1>1
<1> DEFINE db == View(c)'
<1>3. StoredLines(db, i) = <<>>
  <2> HIDE DEF db
  <2>1. DetailIds(db, i) = {}
    BY DEF db
  <2> QED
    BY <2>1, NoLines
<1> QED
  BY <1>2, <1>3 DEF AsTyped, Busy

LEMMA InsertAsTyped ==
  ASSUME TypeOK, NEW c \in Clients, Good(c), AsTyped(c), Insert(c)
  PROVE  AsTyped(c)'
<1>1. /\ pc[c] = "insert" /\ nextId <= MaxId /\ pc'[c] = "lines" /\ at'[c] = 1
      /\ obj' = [obj EXCEPT ![c].isNew = FALSE, ![c].id = nextId, ![c].dirty = FALSE]
      /\ Exec(c, nextId, MasterRow(obj[c].val))
  BY DEF Insert, StartLines, Set, TypeOK
<1>2. nextId \in Ids
  BY <1>1, IdAssumption DEF TypeOK, Ids
<1>3. obj'[c].id = nextId /\ obj'[c].val = obj[c].val /\ obj'[c].lines = obj[c].lines
  BY <1>1 DEF TypeOK, Objects
<1>4. MasterRow(obj[c].val) \in Rows /\ MasterRow(obj[c].val).kind = "master"
  BY BeforeStatement
<1>5. View(c)' = [View(c) EXCEPT ![nextId] = MasterRow(obj[c].val)]
  BY <1>1, <1>2, <1>4, BeforeStatement, ExecView DEF Transactions
<1>6. \A j \in Ids : View(c)'[j] = IF j = nextId THEN MasterRow(obj[c].val) ELSE View(c)[j]
  BY <1>5, BeforeStatement
<1>7. WithMasters(View(c)) /\ View(c)[nextId] = NoRow
  BY <1>2, IdAssumption DEF Good, Databases, Fresh, Ids
<1>8. DetailIds(View(c)', nextId) = {}
  BY <1>4, <1>6, <1>7 DEF DetailIds, WithMasters, IsMaster
<1>9. obj[c].lines \in Lines
  BY <1>1 DEF AsTyped, Busy
<1>10. PICK i \in Ids : i = nextId
  BY <1>2
<1>11. View(c)'[i] = MasterRow(obj'[c].val) /\ obj'[c].id = i /\ DetailIds(View(c)', i) = {}
  BY <1>3, <1>6, <1>8, <1>10
<1> QED
  BY <1>1, <1>3, <1>9, <1>11, StartsAsTyped

LEMMA UpdateAsTyped ==
  ASSUME TypeOK, NEW c \in Clients, Good(c), AsTyped(c), Update(c)
  PROVE  AsTyped(c)'
<1>1. /\ pc[c] = "removing" /\ todo[c] = {} /\ pc'[c] = "lines" /\ at'[c] = 1
      /\ obj' = [obj EXCEPT ![c].dirty = FALSE]
      /\ IF obj[c].dirty /\ IsMaster(View(c), obj[c].id)
           THEN Exec(c, obj[c].id, MasterRow(obj[c].val))
           ELSE UNCHANGED conVars
  BY DEF Update, StartLines, Set, TypeOK
<1>2. obj'[c].id = obj[c].id /\ obj'[c].val = obj[c].val /\ obj'[c].lines = obj[c].lines
  BY <1>1 DEF TypeOK, Objects
<1>3. PICK i \in Ids :
        i = obj[c].id /\ IsMaster(View(c), i) /\ DetailIds(View(c), i) = {}
  BY <1>1 DEF Good, Placed
<1>4. View(c)'[i] = MasterRow(obj[c].val) /\ DetailIds(View(c)', i) = {}
  <2>1. CASE obj[c].dirty
    <3>1. MasterRow(obj[c].val) \in Rows /\ MasterRow(obj[c].val).kind = "master"
      BY BeforeStatement
    <3>2. View(c)' = [View(c) EXCEPT ![i] = MasterRow(obj[c].val)]
      BY <1>1, <1>3, <2>1, <3>1, BeforeStatement, ExecView DEF Transactions
    <3>3. \A j \in Ids : View(c)'[j] = IF j = i THEN MasterRow(obj[c].val) ELSE View(c)[j]
      BY <3>2, BeforeStatement
    <3> QED
      BY <1>3, <3>1, <3>3 DEF DetailIds
  <2>2. CASE ~obj[c].dirty
    <3>1. View(c)' = View(c)
      BY <1>1, <2>2, SameView
    <3>2. View(c)[i] = MasterRow(obj[c].val)
      BY <1>1, <1>3, <2>2 DEF AsTyped
    <3> QED
      BY <1>3, <3>1, <3>2
  <2> QED
    BY <2>1, <2>2
<1>5. obj'[c].lines \in Lines
  BY <1>1, <1>2 DEF AsTyped, Busy
<1> QED
  BY <1>1, <1>2, <1>3, <1>4, <1>5, StartsAsTyped

LEMMA RemovalAsTyped ==
  ASSUME TypeOK, NEW c \in Clients, Good(c), AsTyped(c), RemoveDetail(c) \/ DeleteMaster(c)
  PROVE  AsTyped(c)'
<1>1. pc[c] = "removing" /\ obj' = obj /\ obj[c].lines \in Lines
  BY DEF RemoveDetail, DetailToRemove, DeleteMaster, AsTyped, Busy
<1>2. /\ obj[c].id \in Ids /\ IsMaster(View(c), obj[c].id)
      /\ todo[c] = DetailIds(View(c), obj[c].id)
  BY <1>1 DEF Good, Placed
<1>3. CASE DeleteMaster(c)
  <2>1. pc'[c] = "closing" /\ mode'[c] = "remove"
    BY <1>3 DEF DeleteMaster, Set, TypeOK
  <2> QED
    BY <1>1, <1>2, <2>1 DEF AsTyped, Busy
<1>4. CASE RemoveDetail(c)
  <2>1. PICK i \in NextToRemove(c) :
          IF View(c)[i] # NoRow THEN Exec(c, i, NoRow) ELSE UNCHANGED conVars
    BY <1>4 DEF RemoveDetail
  <2>2. /\ i \in Ids /\ i # obj[c].id
    BY <1>2, <2>1 DEF NextToRemove, DetailIds, IsMaster
  <2>3. View(c)' \in {View(c), [View(c) EXCEPT ![i] = NoRow]}
    BY <2>1, <2>2, BeforeStatement, ExecView, SameView DEF Transactions
  <2>4. View(c)'[obj[c].id] = View(c)[obj[c].id]
    BY <1>2, <2>2, <2>3, BeforeStatement
  <2>5. pc' = pc
    BY <1>4 DEF RemoveDetail
  <2> QED
    BY <1>1, <2>4, <2>5 DEF AsTyped, Busy
<1> QED
  BY <1>3, <1>4

LEMMA InsertDetailAsTyped ==
  ASSUME TypeOK, NEW c \in Clients, Good(c), AsTyped(c), InsertDetail(c)
  PROVE  AsTyped(c)'
<1> DEFINE x == obj[c].lines[at[c]]
           row == DetailRow(obj[c].id, x)
           ls == obj[c].lines
<1>1. /\ pc[c] = "lines" /\ pc' = pc /\ obj' = obj /\ at'[c] = at[c] + 1
      /\ nextId <= MaxId /\ Exec(c, nextId, row) /\ at[c] <= Len(ls)
  BY DEF InsertDetail, DetailToInsert, Set, TypeOK
<1>2. obj[c].id \in Ids /\ IsMaster(View(c), obj[c].id) /\ nextId \in Ids
  BY <1>1, IdAssumption DEF Good, Placed, TypeOK, Ids
<1>3. /\ ls \in Lines /\ View(c)[obj[c].id] = MasterRow(obj[c].val)
      /\ StoredLines(View(c), obj[c].id) = SubSeq(ls, 1, at[c] - 1)
  BY <1>1 DEF AsTyped, Busy
<1>4. ls \in Seq(Contents) /\ at[c] \in Nat \ {0}
  BY DEF TypeOK, Objects
<1>5. row \in Rows
  <2>1. x \in Contents /\ obj[c].id \in 0 .. MaxId
    BY <1>1, <1>4, BeforeStatement
  <2> QED
    BY <2>1, RowFacts
<1> HIDE DEF row
<1>6. View(c)' = [View(c) EXCEPT ![nextId] = row]
  BY <1>1, <1>2, <1>5, BeforeStatement, ExecView DEF Transactions
<1>7. \A j \in Ids : View(c)'[j] = IF j = nextId THEN row ELSE View(c)[j]
  BY <1>6, BeforeStatement
<1>8. \A j \in Ids : j >= nextId => View(c)[j] = NoRow
  BY DEF Good, Databases, Fresh
<1>9. obj[c].id # nextId /\ View(c)'[obj[c].id] = View(c)[obj[c].id]
  BY <1>2, <1>7, <1>8, IdAssumption DEF IsMaster, Ids
<1>10. StoredLines(View(c)', obj[c].id) = Append(StoredLines(View(c), obj[c].id), x)
  <2> DEFINE db == View(c)'
             k == nextId
  <2>1. \A j \in Ids : db[j] = IF j = k THEN DetailRow(obj[c].id, x) ELSE View(c)[j]
    BY <1>7 DEF row
  <2>2. k \in Ids /\ \A j \in Ids : j >= k => View(c)[j] = NoRow
    BY <1>2, <1>8
  <2>3. DetailRow(obj[c].id, x) # NoRow
    BY <1>5, RowFacts DEF row
  <2> HIDE DEF db, k, x
  <2>4. StoredLines(db, obj[c].id) = Append(StoredLines(View(c), obj[c].id), x)
    BY <2>1, <2>2, <2>3, LineAdded
  <2> QED
    BY <2>4 DEF db
<1>11. Append(SubSeq(ls, 1, at[c] - 1), x) = SubSeq(ls, 1, at[c])
  <2> HIDE DEF ls
  <2> QED
    BY <1>1, <1>4 DEF x, ls
<1>12. at'[c] <= Len(ls) + 1 /\ at'[c] - 1 = at[c]
  BY <1>1, <1>4
<1> QED
  BY <1>1, <1>3, <1>9, <1>10, <1>11, <1>12 DEF AsTyped, Busy

LEMMA NestAsTyped ==
  ASSUME Driver = "mysql", TypeOK, NEW c \in Clients, Good(c), AsTyped(c),
         NestBegin(c) \/ NestCommit(c)
  PROVE  AsTyped(c)'
<1>1. UNCHANGED <<obj, pc, mode, at>>
  BY DEF NestBegin, NestCommit
<1>2. disk' = View(c) /\ View(c)' = View(c)
  BY BeforeStatement, BeginView, CommitView DEF NestBegin, NestCommit
<1>3. pc[c] = "editing" => View(c) = disk
  BY BeforeStatement, NothingPending DEF Transactions, Busy
<1> QED
  BY <1>1, <1>2, <1>3 DEF AsTyped

LEMMA EndsAsTyped ==
  ASSUME Driver = "mysql", Vetoes = FALSE, TypeOK, NEW c \in Clients, Commit(c) \/ Failure(c)
  PROVE  AsTyped(c)'
<1>1. Commit(c) \/ StatementFails(c) \/ Crash(c)
  BY DEF Failure, LostInsert, LostInsertDetail, LostRemoveDetail, LostUpdate,
         MasterVetoed, MasterSkipped, DetailVetoed
<1>2. pc'[c] \in {"idle", "failed"}
  BY <1>1, LeaveIsIdle DEF Commit, StatementFails, Abandon, Crash, Set, TypeOK
<1> QED
  BY <1>2, EndAsTyped

LEMMA StutterAsTyped ==
  ASSUME UNCHANGED vars, NEW c \in Clients, AsTyped(c)
  PROVE  AsTyped(c)'
<1>1. disk' = disk /\ View(c)' = View(c)
  BY SameView DEF vars
<1>2. UNCHANGED <<obj, pc, mode, at>>
  BY DEF vars, recVars
<1> QED
  BY <1>1, <1>2 DEF AsTyped

LEMMA StepAsTyped ==
  ASSUME Driver = "mysql", Retries = FALSE, Vetoes = FALSE,
         TypeOK, NEW c \in Clients, Good(c), AsTyped(c), User(c) \/ Statement(c) \/ Failure(c)
  PROVE  AsTyped(c)'
  BY UserAsTyped, InsertAsTyped, UpdateAsTyped, RemovalAsTyped,
     InsertDetailAsTyped, NestAsTyped, EndsAsTyped DEF Statement

LEMMA NextAsTyped ==
  ASSUME NEW q, Clients = {q}, Driver = "mysql", Retries = FALSE, Vetoes = FALSE,
         IInvLines, [Next]_vars
  PROVE  IInvLines'
<1>1. IInv'
  BY NextKeeps DEF IInvLines
<1>2. TypeOK /\ Good(q) /\ AsTyped(q)
  BY DEF IInvLines, IInv
<1>3. AsTyped(q)'
  <2>1. CASE UNCHANGED vars
    BY <1>2, <2>1, StutterAsTyped
  <2>2. CASE Next
    BY <1>2, <2>2, StepAsTyped DEF Next
  <2> QED
    BY <2>1, <2>2
<1> QED
  BY <1>1, <1>3 DEF IInvLines

LEMMA InitAsTyped == Init => IInvLines
<1> SUFFICES ASSUME Init PROVE IInvLines
  OBVIOUS
<1>1. ASSUME NEW c \in Clients PROVE AsTyped(c)
  BY DEF Init, AsTyped, Busy
<1> QED
  BY <1>1, InitGood DEF IInvLines

\* When there is nothing left but to COMMIT a save, its client finds the whole record.
LEMMA WholeAtEnd ==
  ASSUME TypeOK, NEW c \in Clients, AsTyped(c), AtEnd(c), mode[c] = "save"
  PROVE  /\ View(c)[obj[c].id] = MasterRow(obj[c].val)
         /\ StoredLines(View(c), obj[c].id) = obj[c].lines
<1>1. /\ pc[c] = "lines" /\ ~(at[c] <= Len(obj[c].lines))
      /\ at[c] \in Nat \ {0} /\ obj[c].lines \in Seq(Contents)
  BY DEF AtEnd, AsTyped, DetailToInsert, TypeOK, Objects
<1>2. at[c] <= Len(obj[c].lines) + 1
  BY <1>1 DEF AsTyped
<1>3. at[c] - 1 = Len(obj[c].lines)
  BY <1>1, <1>2
<1>4. SubSeq(obj[c].lines, 1, at[c] - 1) = obj[c].lines
  BY <1>1, <1>3
<1> QED
  BY <1>1, <1>4 DEF AsTyped

\* One client on MySQL that gives up when a save fails, whose behaviours refuse
\* nothing: while it inserts the lines of a record there are under the master the lines
\* inserted so far, in the order of the form, and none of those stored before.
THEOREM OneClientLinesAsSaved ==
  ASSUME NEW q, Clients = {q}, Driver = "mysql", Retries = FALSE, Vetoes = FALSE
  PROVE  Spec => []LinesAsSaved
<1>1. IInvLines /\ [Next]_vars => IInvLines'
  BY NextAsTyped
<1>2. IInvLines => LinesAsSaved
  BY DEF IInvLines, AsTyped, LinesAsSaved
<1> QED
  BY <1>1, <1>2, InitAsTyped, PTL DEF Spec

\* For the same client, a save that says it is done has left the master as it was typed
\* and its lines, no more and no fewer, in their order.
THEOREM OneClientSavedAsTyped ==
  ASSUME NEW q, Clients = {q}, Driver = "mysql", Retries = FALSE, Vetoes = FALSE
  PROVE  Spec => SavedAsTyped
<1> DEFINE A == \A c \in Clients :
                  Commit(c) /\ mode[c] = "save" =>
                    /\ disk'[obj[c].id] = MasterRow(obj[c].val)
                    /\ StoredLines(disk', obj[c].id) = obj[c].lines
<1>1. IInvLines /\ [Next]_vars => IInvLines'
  BY NextAsTyped
<1>2. ASSUME IInvLines PROVE A
  <2> SUFFICES ASSUME NEW c \in Clients, Commit(c), mode[c] = "save"
               PROVE  /\ disk'[obj[c].id] = MasterRow(obj[c].val)
                      /\ StoredLines(disk', obj[c].id) = obj[c].lines
    OBVIOUS
  <2>1. Good(c) /\ TypeOK /\ AsTyped(c)
    BY <1>2 DEF IInvLines, IInv
  <2>2. disk' = View(c)
    BY <2>1, BeforeStatement, CommitView DEF Commit
  <2> QED
    BY <2>1, <2>2, WholeAtEnd DEF Commit
<1>3. IInvLines /\ [Next]_vars => [A]_vars
  BY <1>2
<1> HIDE DEF A
<1>4. Spec => [][A]_vars
  BY <1>1, <1>3, InitAsTyped, PTL DEF Spec
<1> QED
  BY <1>4 DEF SavedAsTyped, A

-------------------------------------------------------------------------------
(* The same client, where details open no transactions of their own: save  *)
(* and remove implement RecordStore.                                       *)

\* If r is a row at all, it belongs to record i.
Of(j, r, i) == r # NoRow => (IF r.kind = "master" THEN j ELSE r.fk) = i

\* A save or removal is one transaction, which commits nothing before its end, and what
\* it has written so far is of the record of the form.
OneTransaction(c) ==
  /\ nest[c] = "out"
  /\ pc[c] \in Busy => inTx[c]
  /\ pc[c] = "insert" => pend[c] = NoPend
  /\ \A j \in Ids : View(c)[j] # disk[j] =>
       Of(j, disk[j], obj[c].id) /\ Of(j, View(c)[j], obj[c].id)

IInvAtomic == IInvLines /\ \A c \in Clients : OneTransaction(c)

\* What a client sees is what is stored, once its transaction ends.
LEMMA NothingWritten ==
  ASSUME TypeOK, NEW c \in Clients, nest'[c] = "out", pc'[c] \notin Busy, View(c)' = disk'
  PROVE  OneTransaction(c)'
  BY DEF OneTransaction, Busy

\* A row of the record of the form written in the transaction, or none.
LEMMA OneRowWritten ==
  ASSUME TypeOK, NEW c \in Clients, OneTransaction(c), inTx[c], nest'[c] = "out",
         pc'[c] \in Busy \ {"insert"}, obj'[c].id = obj[c].id,
         \/ UNCHANGED conVars
         \/ \E j \in Ids, row \in Rows \cup {NoRow} :
              /\ Exec(c, j, row)
              /\ Of(j, disk[j], obj[c].id) /\ Of(j, row, obj[c].id)
  PROVE  OneTransaction(c)' /\ disk' = disk
<1>1. CASE UNCHANGED conVars
  <2>1. View(c)' = View(c) /\ disk' = disk /\ inTx' = inTx
    BY <1>1, SameView DEF conVars
  <2> QED
    BY <2>1 DEF OneTransaction, Of
<1>2. ASSUME NEW j \in Ids, NEW row \in Rows \cup {NoRow}, Exec(c, j, row),
             Of(j, disk[j], obj[c].id), Of(j, row, obj[c].id)
      PROVE  OneTransaction(c)' /\ disk' = disk
  <2>1. disk' = disk /\ inTx' = inTx
    BY <1>2 DEF Exec
  <2>2. View(c)' = [View(c) EXCEPT ![j] = row]
    BY <1>2, ExecView DEF TypeOK
  <2>3. \A k \in Ids : View(c)'[k] = IF k = j THEN row ELSE View(c)[k]
    BY <2>2, ViewType DEF TypeOK
  <2> QED
    BY <1>2, <2>1, <2>3 DEF OneTransaction, Of
<1> QED
  BY <1>1, <1>2

\* What a step of client c is to the store.
Quiet(c) == disk' = disk /\ Request(c)' = Request(c)
Asks(c)  ==
  /\ disk' = disk /\ Request(c) = Same
  /\ Request(c)' \in [val : Values, lines : Lines] \cup {NoRow}
Drops(c) == disk' = disk /\ Request(c) # Same /\ Request(c)' = Same
Grants(c) ==
  /\ Request(c) # Same /\ Request(c)' = Same
  /\ \E k \in Ids : \A i \in Ids :
       StoredRecord(i)' = IF i = k THEN Request(c) ELSE StoredRecord(i)

LEMMA SameRequest ==
  ASSUME NEW c \in Clients, pc[c] \in Busy, pc'[c] \in Busy, mode'[c] = mode[c],
         obj'[c].val = obj[c].val, obj'[c].lines = obj[c].lines
  PROVE  Request(c)' = Request(c)
  BY DEF Request, WholeRecord

LEMMA SomeRequest ==
  ASSUME TypeOK, NEW c \in Clients, AsTyped(c), pc[c] \in Busy
  PROVE  Request(c) # Same /\ Request(c) \in [val : Values, lines : Lines] \cup {NoRow}
<1>1. obj[c].lines \in Lines /\ obj[c].val \in Values
  BY DEF AsTyped, TypeOK, Objects
<1>2. WholeRecord(obj[c].val, obj[c].lines) \in [val : Values, lines : Lines]
  BY <1>1 DEF WholeRecord
<1> QED
  BY <1>2, RowAssumption, RequestAssumption DEF Request

LEMMA UserIsAtomic ==
  ASSUME Driver = "mysql", Retries = FALSE, TypeOK, NEW c \in Clients, Good(c), AsTyped(c),
         AsTyped(c)', TypeOK', OneTransaction(c), User(c)
  PROVE  OneTransaction(c)' /\ (Quiet(c) \/ Asks(c))
<1>t. ConTypeOK
  BY DEF TypeOK
<1>1. CASE BeginInsert(c) \/ BeginUpdate(c) \/ BeginDuplicate(c) \/ BeginDelete(c) \/ Cancel(c)
  <2>1. /\ pc[c] \notin Busy /\ pc'[c] \notin Busy /\ UNCHANGED conVars
        /\ nest'[c] = "out"
    <3>1. CASE Cancel(c)
      BY <3>1 DEF Cancel, Leave, Set, TypeOK, Busy
    <3>2. CASE \E op, o, m : Open(c, op, o, m)
      BY <3>2 DEF Open, Set, TypeOK, Busy, OneTransaction
    <3> QED
      BY <1>1, <3>1, <3>2 DEF BeginInsert, BeginUpdate, BeginDuplicate, BeginDelete
  <2>2. disk' = disk /\ View(c)' = View(c)
    BY <2>1, SameView
  <2>3. View(c) = disk
    BY <1>t, <2>1, NothingPending DEF Good, Transactions
  <2> QED
    BY <2>1, <2>2, <2>3, NothingWritten DEF Quiet, Request
<1>2. CASE Accept(c)
  <2>1. /\ pc[c] = "editing" /\ BeginTransaction(c) /\ nest' = nest
        /\ pc'[c] \in {"insert", "removing"}
    BY <1>2 DEF Accept, Set, TypeOK
  <2>2. disk' = View(c) /\ View(c)' = View(c) /\ inTx'[c]
    BY <1>t, <2>1, BeginView
  <2>3. View(c) = disk
    BY <1>t, <2>1, NothingPending DEF Good, Transactions, Busy
  <2>4. pend'[c] = NoPend
    BY <2>1 DEF BeginTransaction, TypeOK, ConTypeOK
  <2>5. OneTransaction(c)'
    BY <2>1, <2>2, <2>3, <2>4 DEF OneTransaction
  <2>6. Request(c)' \in [val : Values, lines : Lines] \cup {NoRow}
    <3>1. /\ obj'[c].lines \in Lines /\ obj'[c].val \in Values
      BY <2>1 DEF AsTyped, TypeOK, Objects, Busy
    <3>2. WholeRecord(obj'[c].val, obj'[c].lines) \in [val : Values, lines : Lines]
      BY <3>1 DEF WholeRecord
    <3> QED
      BY <2>1, <3>2 DEF Request, Busy
  <2> QED
    BY <2>1, <2>2, <2>3, <2>5, <2>6 DEF Asks, Request, Busy
<1> QED
  BY <1>1, <1>2 DEF User

\* The statements of a save or a removal wait in the transaction.
LEMMA InsertIsQuiet ==
  ASSUME TypeOK, NEW c \in Clients, Good(c), OneTransaction(c), Insert(c)
  PROVE  OneTransaction(c)' /\ Quiet(c)
<1>1. /\ pc[c] = "insert" /\ nextId <= MaxId /\ pc'[c] = "lines" /\ mode' = mode /\ nest' = nest
      /\ obj' = [obj EXCEPT ![c].isNew = FALSE, ![c].id = nextId, ![c].dirty = FALSE]
      /\ Exec(c, nextId, MasterRow(obj[c].val))
  BY DEF Insert, StartLines, Set, TypeOK
<1>2. nextId \in Ids /\ MasterRow(obj[c].val) \in Rows /\ MasterRow(obj[c].val).kind = "master"
  BY <1>1, BeforeStatement, IdAssumption DEF TypeOK, Ids
<1>3. obj'[c].id = nextId /\ obj'[c].val = obj[c].val /\ obj'[c].lines = obj[c].lines
  BY <1>1 DEF TypeOK, Objects
<1>4. inTx[c] /\ pend[c] = NoPend
  BY <1>1 DEF OneTransaction, Busy
<1>5. View(c) = disk /\ disk' = disk /\ inTx' = inTx
  BY <1>1, <1>4, NothingPending DEF Exec, TypeOK
<1>6. View(c)' = [View(c) EXCEPT ![nextId] = MasterRow(obj[c].val)]
  BY <1>1, <1>2, <1>4, BeforeStatement, ExecView
<1>7. \A j \in Ids : View(c)'[j] = IF j = nextId THEN MasterRow(obj[c].val) ELSE disk[j]
  BY <1>5, <1>6, BeforeStatement
<1>8. disk[nextId] = NoRow
  BY <1>2, IdAssumption DEF Good, Databases, Fresh, Ids
<1>9. OneTransaction(c)'
  BY <1>1, <1>2, <1>3, <1>4, <1>5, <1>7, <1>8 DEF OneTransaction, Of
<1>10. Request(c)' = Request(c)
  BY <1>1, <1>3, SameRequest DEF Busy
<1> QED
  BY <1>5, <1>9, <1>10 DEF Quiet

LEMMA UpdateIsQuiet ==
  ASSUME TypeOK, NEW c \in Clients, Good(c), OneTransaction(c), Update(c) \/ DeleteMaster(c)
  PROVE  OneTransaction(c)' /\ Quiet(c)
<1>1. /\ pc[c] = "removing" /\ pc'[c] \in {"lines", "closing"} /\ mode' = mode /\ nest' = nest
      /\ obj' = obj \/ obj' = [obj EXCEPT ![c].dirty = FALSE]
      /\ \/ UNCHANGED conVars
         \/ Exec(c, obj[c].id, MasterRow(obj[c].val))
         \/ Exec(c, obj[c].id, NoRow)
  BY DEF Update, DeleteMaster, StartLines, Set, TypeOK
<1>2. /\ obj'[c].id = obj[c].id /\ obj'[c].val = obj[c].val /\ obj'[c].lines = obj[c].lines
  BY <1>1 DEF TypeOK, Objects
<1>3. PICK i \in Ids : i = obj[c].id /\ View(c)[i] # NoRow /\ View(c)[i].kind = "master"
  BY <1>1 DEF Good, Placed, IsMaster
<1>4. Of(i, disk[i], obj[c].id)
  BY <1>3 DEF OneTransaction, Of
<1>5. MasterRow(obj[c].val) \in Rows /\ MasterRow(obj[c].val).kind = "master"
  BY BeforeStatement
<1>6. Of(i, MasterRow(obj[c].val), obj[c].id) /\ Of(i, NoRow, obj[c].id)
  BY <1>3, <1>5 DEF Of
<1>7. \/ UNCHANGED conVars
      \/ \E j \in Ids, row \in Rows \cup {NoRow} :
           /\ Exec(c, j, row)
           /\ Of(j, disk[j], obj[c].id) /\ Of(j, row, obj[c].id)
  BY <1>1, <1>3, <1>4, <1>5, <1>6
<1>8. inTx[c] /\ nest'[c] = "out"
  BY <1>1 DEF OneTransaction, Busy
<1>9. OneTransaction(c)' /\ disk' = disk
  BY <1>1, <1>2, <1>7, <1>8, OneRowWritten DEF Busy
<1>10. Request(c)' = Request(c)
  BY <1>1, <1>2, SameRequest DEF Busy
<1> QED
  BY <1>9, <1>10 DEF Quiet

LEMMA DetailIsQuiet ==
  ASSUME DetailsNest = FALSE, TypeOK, NEW c \in Clients, Good(c), OneTransaction(c),
         RemoveDetail(c) \/ InsertDetail(c)
  PROVE  OneTransaction(c)' /\ Quiet(c)
<1>1. /\ pc[c] \in {"removing", "lines"} /\ pc' = pc /\ mode' = mode /\ obj' = obj
      /\ nest'[c] = "out" /\ inTx[c]
  BY DEF RemoveDetail, InsertDetail, DetailToRemove, DetailToInsert, DetailDone, Set, TypeOK,
         OneTransaction, Busy
<1>2. CASE RemoveDetail(c)
  <2>1. PICK i \in NextToRemove(c) :
          IF View(c)[i] # NoRow THEN Exec(c, i, NoRow) ELSE UNCHANGED conVars
    BY <1>2 DEF RemoveDetail
  <2>2. todo[c] = DetailIds(View(c), obj[c].id)
    BY <1>2 DEF RemoveDetail, DetailToRemove, Good, Placed
  <2>3. i \in Ids /\ View(c)[i].kind = "detail" /\ View(c)[i].fk = obj[c].id
    BY <2>1, <2>2 DEF NextToRemove, DetailIds
  <2>4. Of(i, disk[i], obj[c].id) /\ Of(i, NoRow, obj[c].id)
    BY <2>3 DEF OneTransaction, Of
  <2> QED
    BY <1>1, <2>1, <2>3, <2>4, OneRowWritten, SameRequest DEF Busy, Quiet
<1>3. CASE InsertDetail(c)
  <2> DEFINE row == DetailRow(obj[c].id, obj[c].lines[at[c]])
  <2>1. nextId <= MaxId /\ Exec(c, nextId, row) /\ at[c] <= Len(obj[c].lines)
    BY <1>3 DEF InsertDetail, DetailToInsert
  <2>2. row \in Rows /\ row.kind = "detail" /\ row.fk = obj[c].id
    <3>1. obj[c].lines \in Seq(Contents) /\ at[c] \in Nat \ {0}
      BY DEF TypeOK, Objects
    <3>2. obj[c].lines[at[c]] \in Contents /\ obj[c].id \in 0 .. MaxId
      BY <2>1, <3>1, BeforeStatement
    <3> QED
      BY <3>2, RowFacts
  <2>3. nextId \in Ids /\ disk[nextId] = NoRow
    <3>1. nextId \in Ids
      BY <2>1, IdAssumption DEF TypeOK, Ids
    <3> QED
      BY <3>1, IdAssumption DEF Good, Databases, Fresh, Ids
  <2> HIDE DEF row
  <2>4. Of(nextId, disk[nextId], obj[c].id) /\ Of(nextId, row, obj[c].id)
    BY <2>2, <2>3 DEF Of
  <2> QED
    BY <1>1, <2>1, <2>2, <2>3, <2>4, OneRowWritten, SameRequest DEF Busy, Quiet
<1> QED
  BY <1>2, <1>3

\* COMMIT stores the record of the form as asked and no other.
LEMMA CommitGrants ==
  ASSUME TypeOK, NEW c \in Clients, Good(c), AsTyped(c), OneTransaction(c), Commit(c)
  PROVE  OneTransaction(c)' /\ Grants(c)
<1>1. /\ pc[c] \in {"lines", "closing"} /\ pc'[c] = "idle" /\ nest'[c] = "out"
  BY DEF Commit, AtEnd, Leave, Set, TypeOK
<1>2. disk' = View(c) /\ View(c)' = View(c)
  BY BeforeStatement, CommitView DEF Commit
<1>3. OneTransaction(c)'
  BY <1>1, <1>2, NothingWritten DEF Busy
<1>4. Request(c) # Same /\ Request(c)' = Same
  BY <1>1, SomeRequest DEF Request, Busy
<1>5. PICK k \in Ids : k = obj[c].id
  BY <1>1 DEF Good, Placed, AsTyped
<1> DEFINE db == View(c)
<1>6. ASSUME NEW i \in Ids, i # k PROVE StoredRecord(i)' = StoredRecord(i)
  <2>1. \A j \in Ids : db[j] = disk[j] \/ (Of(j, disk[j], k) /\ Of(j, db[j], k))
    BY <1>5 DEF OneTransaction
  <2> HIDE DEF db
  <2>2. \A j \in Ids : db[j] = disk[j] \/ j \notin DetailIds(db, i) \cup DetailIds(disk, i)
    BY <1>6, <2>1 DEF Of, DetailIds
  <2>3. StoredLines(db, i) = StoredLines(disk, i) /\ DetailIds(db, i) = DetailIds(disk, i)
    BY <2>2, SameLines
  <2>4. db[i] = disk[i] \/ (~IsMaster(db, i) /\ ~IsMaster(disk, i))
    BY <1>6, <2>1 DEF Of, IsMaster
  <2>5. disk' = db
    BY <1>2 DEF db
  <2> QED
    BY <2>3, <2>4, <2>5 DEF StoredRecord, IsMaster
<1>7. StoredRecord(k)' = Request(c)
  <2>1. CASE mode[c] = "save"
    <3>1. /\ db[k] = MasterRow(obj[c].val) /\ StoredLines(db, k) = obj[c].lines
      BY <1>5, <2>1, WholeAtEnd DEF Commit
    <3>2. IsMaster(db, k) /\ db[k].val = obj[c].val
      BY <3>1, BeforeStatement, RowFacts DEF IsMaster, MasterRow
    <3>3. disk' = db
      BY <1>2
    <3> HIDE DEF db
    <3> QED
      BY <1>1, <2>1, <3>1, <3>2, <3>3 DEF StoredRecord, Request, Busy
  <2>2. CASE mode[c] # "save"
    <3>1. pc[c] = "closing" /\ mode[c] = "remove"
      BY <1>1, <2>2 DEF Good, Placed, TypeOK
    <3>2. db[k] = NoRow /\ DetailIds(db, k) = {}
      BY <1>5, <3>1 DEF Good, Placed
    <3>3. disk' = db
      BY <1>2
    <3> HIDE DEF db
    <3> QED
      BY <1>1, <3>1, <3>2, <3>3 DEF StoredRecord, Request, IsMaster, Busy
  <2> QED
    BY <2>1, <2>2
<1> QED
  BY <1>3, <1>4, <1>6, <1>7 DEF Grants

LEMMA FailureDrops ==
  ASSUME Driver = "mysql", Vetoes = FALSE, TypeOK, NEW c \in Clients, Good(c), AsTyped(c),
         OneTransaction(c), Failure(c)
  PROVE  OneTransaction(c)' /\ (Quiet(c) \/ Drops(c))
<1>1. StatementFails(c) \/ Crash(c)
  BY DEF Failure, LostInsert, LostInsertDetail, LostRemoveDetail, LostUpdate,
         MasterVetoed, MasterSkipped, DetailVetoed
<1>2. /\ RollbackTransaction(c) /\ pc'[c] \in {"idle", "failed"} /\ nest'[c] = "out"
  BY <1>1 DEF StatementFails, Abandon, Crash, Leave, Set, TypeOK
<1>3. disk' = disk /\ View(c)' = disk
  BY <1>2, BeforeStatement, RollbackView
<1>4. OneTransaction(c)'
  BY <1>2, <1>3, NothingWritten DEF Busy
<1>5. Request(c)' = Same
  BY <1>2 DEF Request, Busy
<1> QED
  BY <1>3, <1>4, <1>5, SomeRequest DEF Quiet, Drops, Request

LEMMA StepIsAtomic ==
  ASSUME Driver = "mysql", Retries = FALSE, Vetoes = FALSE, DetailsNest = FALSE,
         TypeOK, NEW c \in Clients, Good(c), AsTyped(c), OneTransaction(c), TypeOK', AsTyped(c)',
         User(c) \/ Statement(c) \/ Failure(c)
  PROVE  OneTransaction(c)' /\ (Quiet(c) \/ Asks(c) \/ Drops(c) \/ Grants(c))
<1>1. ~NestBegin(c) /\ ~NestCommit(c)
  BY DEF NestBegin, NestCommit, OneTransaction
<1> QED
  BY <1>1, UserIsAtomic, InsertIsQuiet, UpdateIsQuiet, DetailIsQuiet, CommitGrants, FailureDrops
     DEF Statement

LEMMA StutterIsAtomic ==
  ASSUME UNCHANGED vars, NEW c \in Clients, OneTransaction(c)
  PROVE  OneTransaction(c)' /\ Quiet(c)
<1>1. disk' = disk /\ View(c)' = View(c)
  BY SameView DEF vars
<1>2. UNCHANGED <<obj, pc, mode, nest, inTx, pend>>
  BY DEF vars, recVars, conVars
<1> QED
  BY <1>1, <1>2 DEF OneTransaction, Quiet, Request, Of

LEMMA NextIsAtomic ==
  ASSUME NEW q, Clients = {q}, Driver = "mysql", Retries = FALSE, Vetoes = FALSE,
         DetailsNest = FALSE, IInvAtomic, [Next]_vars
  PROVE  IInvAtomic' /\ (Quiet(q) \/ Asks(q) \/ Drops(q) \/ Grants(q))
<1>1. IInvLines'
  BY NextAsTyped DEF IInvAtomic
<1>2. /\ TypeOK /\ Good(q) /\ AsTyped(q) /\ OneTransaction(q)
      /\ TypeOK' /\ AsTyped(q)'
  BY <1>1 DEF IInvAtomic, IInvLines, IInv
<1>3. OneTransaction(q)' /\ (Quiet(q) \/ Asks(q) \/ Drops(q) \/ Grants(q))
  <2>1. CASE UNCHANGED vars
    BY <1>2, <2>1, StutterIsAtomic
  <2>2. CASE Next
    BY <1>2, <2>2, StepIsAtomic DEF Next
  <2> QED
    BY <2>1, <2>2
<1> QED
  BY <1>1, <1>3 DEF IInvAtomic

LEMMA InitIsAtomic == Init => IInvAtomic /\ Store!Init
<1> SUFFICES ASSUME Init PROVE IInvAtomic /\ Store!Init
  OBVIOUS
<1>1. IInvLines
  BY InitAsTyped
<1>2. ASSUME NEW c \in Clients PROVE OneTransaction(c) /\ Request(c) = Same
  <2>1. /\ nest[c] = "out" /\ pc[c] = "idle" /\ pend[c] = NoPend
    BY DEF Init, ConInit
  <2>2. View(c) = disk
    BY <1>1, <2>1, NothingPending DEF IInvLines, IInv, TypeOK
  <2> QED
    BY <2>1, <2>2 DEF OneTransaction, Request, Busy
<1>3. ASSUME NEW i \in Ids PROVE StoredRecord(i) = NoRow
  <2>1. \A j \in Ids : disk[j] = NoRow
    BY DEF Init, ConInit
  <2> QED
    BY <2>1 DEF StoredRecord, IsMaster, DetailIds
<1>4. Store!Init
  BY <1>2, <1>3 DEF Store!Init
<1> QED
  BY <1>1, <1>2, <1>4 DEF IInvAtomic

\* A step that leaves the rows as they are leaves the records as they are.
LEMMA SameRecords ==
  ASSUME disk' = disk, NEW i \in Ids
  PROVE  StoredRecord(i)' = StoredRecord(i)
  BY DEF StoredRecord, IsMaster, DetailIds, StoredLines

\* What is quiet is a stutter of the store, and the rest its three actions.
LEMMA StepOfTheStore ==
  ASSUME NEW q, Clients = {q}, Quiet(q) \/ Asks(q) \/ Drops(q) \/ Grants(q)
  PROVE  [Store!Next]_(Store!vars)
<1> DEFINE recs  == [i \in Ids |-> StoredRecord(i)]
           asked == [c \in Clients |-> Request(c)]
<1>1. disk' = disk => recs' = recs
  BY SameRecords
<1>2. ASSUME NEW r, Request(q)' = r PROVE asked' = [asked EXCEPT ![q] = r]
  BY <1>2
<1>3. asked[q] = Request(q) /\ q \in Clients
  OBVIOUS
<1>4. CASE Quiet(q)
  <2>1. asked' = asked
    BY <1>4 DEF Quiet
  <2> QED
    BY <1>1, <1>4, <2>1 DEF Quiet, Store!vars
<1>5. CASE Asks(q)
  <2>1. Store!Ask(q)
    <3> DEFINE r == Request(q)'
    <3>1. r \in [val : Values, lines : Lines] \cup {NoRow} /\ asked' = [asked EXCEPT ![q] = r]
      BY <1>2, <1>5 DEF Asks
    <3> HIDE DEF r
    <3> QED
      BY <1>1, <1>3, <1>5, <3>1 DEF Asks, Store!Ask
  <2> QED
    BY <1>3, <2>1 DEF Store!Next
<1>6. CASE Drops(q)
  <2>1. Store!Drop(q)
    BY <1>1, <1>2, <1>3, <1>6 DEF Drops, Store!Drop
  <2> QED
    BY <1>3, <2>1 DEF Store!Next
<1>7. CASE Grants(q)
  <2>1. PICK k \in Ids : \A i \in Ids :
          StoredRecord(i)' = IF i = k THEN Request(q) ELSE StoredRecord(i)
    BY <1>7 DEF Grants
  <2>2. recs' = [recs EXCEPT ![k] = asked[q]]
    BY <1>3, <2>1
  <2>3. Store!Grant(q)
    BY <1>2, <1>3, <1>7, <2>2 DEF Grants, Store!Grant
  <2> QED
    BY <1>3, <2>3 DEF Store!Next
<1> QED
  BY <1>4, <1>5, <1>6, <1>7

\* One client on MySQL that gives up when a save fails, whose behaviours refuse
\* nothing and whose details have no relations: whatever statement fails and whenever the
\* process dies, the stored records go from one whole record to another in one step, at the
\* COMMIT, or stay as they were.  Its saves and removals implement RecordStore.
THEOREM OneClientAtomicSaves ==
  ASSUME NEW q, Clients = {q}, Driver = "mysql", Retries = FALSE, Vetoes = FALSE,
         DetailsNest = FALSE
  PROVE  Spec => AtomicSaves
<1>1. IInvAtomic /\ [Next]_vars => IInvAtomic' /\ [Store!Next]_(Store!vars)
  BY NextIsAtomic, StepOfTheStore
<1> QED
  BY <1>1, InitIsAtomic, PTL DEF Spec, AtomicSaves, Store!Spec

-------------------------------------------------------------------------------
(* Any number of clients, on either database, whatever is lost, refused or *)
(* tried again: a save or a removal leaves other records alone.            *)

\* The record a stored row belongs to.
Owner(i, r) == IF r.kind = "master" THEN i ELSE r.fk

\* If r is a row at all, it is a detail of i; the ids in S are of details of i, or of
\* nothing any more, wherever one looks.
DetailOrGone(r, i) == r \in {Same, NoRow} \/ (r.kind = "detail" /\ r.fk = i)
DetailsOf(i, S) ==
  \A j \in S : /\ j < nextId /\ DetailOrGone(disk[j], i)
               /\ \A d \in Clients : DetailOrGone(pend[d][j], i)

\* No id is in use before it is given, two transactions never write the same row, and
\* none turns a detail into a master.
Shared ==
  /\ \A j \in Ids : j >= nextId => disk[j] = NoRow
  /\ \A d \in Clients, j \in Ids :
       /\ j >= nextId => pend[d][j] = Same
       /\ pend[d][j] \notin {Same, NoRow} /\ disk[j] # NoRow =>
            pend[d][j].kind = "master" /\ disk[j].kind = "master"
  /\ \A d, e \in Clients, j \in Ids : pend[d][j] # Same /\ pend[e][j] # Same => d = e

\* A transaction writes over rows of the record of its form only.
WritesItsOwn(c) ==
  /\ ~inTx[c] \/ pc[c] \notin Busy \/ pc[c] = "insert" => pend[c] = NoPend
  /\ \A j \in Ids : pend[c][j] # Same /\ disk[j] # NoRow => Owner(j, disk[j]) = obj[c].id

\* What a form still has to delete, or will have when it is accepted, are details of
\* the record it edits.
DeletesItsOwn(c) ==
  /\ DetailsOf(obj[c].id, todo[c])
  /\ pc[c] \notin Busy \/ pc[c] = "insert" => todo[c] = {}
  /\ pc[c] = "insert" => obj[c].isNew
  /\ ~obj[c].isNew /\ (pc[c] = "editing" \/ Retries) => DetailsOf(obj[c].id, obj[c].orig)
  /\ obj[c].isNew /\ Retries => obj[c].orig = {}

\* A form that is about to UPDATE or DELETE its master knows which it is.
Named(c) ==
  /\ ~obj[c].isNew /\ obj[c].dirty => obj[c].id \in Ids
  /\ mode[c] = "remove" => obj[c].id \in Ids /\ ~obj[c].isNew
  /\ pc[c] = "removing" => ~obj[c].isNew

OwnOf(c) == WritesItsOwn(c) /\ DeletesItsOwn(c) /\ Named(c)
Own == TypeOK /\ Shared /\ \A c \in Clients : OwnOf(c)

\* What a step of client c may write under an id: a new row; nothing, over a row of the
\* record of its form; the master of this record.
MayWrite(c, j, row) ==
  \/ j = nextId /\ nextId' = nextId + 1 /\ row \in Rows
  \/ row = NoRow /\ View(c)[j] # NoRow /\ (disk[j] # NoRow => Owner(j, disk[j]) = obj[c].id)
  \/ row \in Rows /\ row.kind = "master" /\ IsMaster(View(c), j) /\ j = obj[c].id

\* What becomes of one id in a step of c: it stays, what was pending is committed or
\* forgotten, or a row is written that no other transaction has locked.
Cell(c, j) ==
  /\ \A d \in Clients \ {c} : pend'[d][j] = pend[d][j]
  /\ \/ disk'[j] = disk[j] /\ pend'[c][j] \in {pend[c][j], Same}
     \/ pend[c][j] # Same /\ disk'[j] = pend[c][j] /\ pend'[c][j] = Same
     \/ /\ \A d \in Clients \ {c} : pend[d][j] = Same
        /\ \E row \in Rows \cup {NoRow} :
             /\ MayWrite(c, j, row)
             /\ \/ disk'[j] = disk[j] /\ pend'[c][j] = row
                \/ disk'[j] = row /\ pend[c][j] = Same /\ pend'[c][j] = Same
Cells(c) == nextId' \in {nextId, nextId + 1} /\ \A j \in Ids : Cell(c, j)

LEMMA CellsSame ==
  ASSUME NEW c \in Clients, nextId' = nextId, UNCHANGED <<disk, pend>>
  PROVE  Cells(c)
  BY DEF Cells, Cell

LEMMA CellsEnd ==
  ASSUME ConTypeOK, NEW c \in Clients, nextId' = nextId,
         disk' = disk \/ disk' = View(c), pend' = [pend EXCEPT ![c] = NoPend]
  PROVE  Cells(c)
<1> SUFFICES ASSUME NEW j \in Ids PROVE Cell(c, j)
  BY DEF Cells
<1>1. pend'[c][j] = Same /\ \A d \in Clients \ {c} : pend'[d] = pend[d]
  BY DEF ConTypeOK, NoPend
<1>2. View(c)[j] = IF pend[c][j] = Same THEN disk[j] ELSE pend[c][j]
  BY DEF View
<1> QED
  BY <1>1, <1>2 DEF Cell

LEMMA CellsBegin ==
  ASSUME ConTypeOK, NEW c \in Clients, nextId' = nextId, BeginTransaction(c)
  PROVE  Cells(c) /\ inTx'[c] /\ (pend[c] = NoPend => pend'[c] = NoPend)
<1>1. CASE Driver = "mysql"
  <2>1. disk' = View(c) /\ pend' = [pend EXCEPT ![c] = NoPend] /\ inTx' = [inTx EXCEPT ![c] = TRUE]
    BY <1>1 DEF BeginTransaction
  <2> QED
    BY <2>1, CellsEnd DEF ConTypeOK
<1>2. CASE Driver # "mysql"
  <2>1. UNCHANGED <<disk, pend>> /\ inTx' = [inTx EXCEPT ![c] = TRUE]
    BY <1>2 DEF BeginTransaction
  <2> QED
    BY <2>1, CellsSame DEF ConTypeOK
<1> QED
  BY <1>1, <1>2

LEMMA CellsCommit ==
  ASSUME ConTypeOK, NEW c \in Clients, nextId' = nextId,
         CommitTransaction(c) \/ RollbackTransaction(c)
  PROVE  Cells(c) /\ pend'[c] = NoPend
  BY CellsEnd DEF CommitTransaction, RollbackTransaction, ConTypeOK

LEMMA CellsExec ==
  ASSUME ConTypeOK, NEW c \in Clients, ~inTx[c] => pend[c] = NoPend,
         NEW i \in Ids, NEW row \in Rows \cup {NoRow}, Exec(c, i, row), MayWrite(c, i, row),
         nextId' \in {nextId, nextId + 1}
  PROVE  /\ Cells(c) /\ inTx' = inTx /\ (~inTx'[c] => pend'[c] = NoPend)
         /\ \A j \in Ids : j # i => pend'[c][j] = pend[c][j]
<1>1. \A d \in Clients \ {c} : pend[d][i] = Same
  BY DEF Exec, Unlocked
<1>2. inTx' = inTx
  BY DEF Exec
<1>3. CASE inTx[c]
  <2>1. disk' = disk /\ pend' = [pend EXCEPT ![c] = [pend[c] EXCEPT ![i] = row]]
    BY <1>3 DEF Exec, ConTypeOK
  <2>2. \A d \in Clients \ {c} : pend'[d] = pend[d]
    BY <2>1 DEF ConTypeOK
  <2>3. \A j \in Ids : pend'[c][j] = IF j = i THEN row ELSE pend[c][j]
    BY <2>1 DEF ConTypeOK
  <2>4. \A j \in Ids : Cell(c, j)
    BY <1>1, <2>1, <2>2, <2>3 DEF Cell
  <2> QED
    BY <1>2, <1>3, <2>3, <2>4 DEF Cells
<1>4. CASE ~inTx[c]
  <2>1. pend' = pend /\ disk' = [disk EXCEPT ![i] = row] /\ pend[c] = NoPend
    BY <1>4 DEF Exec
  <2>2. \A j \in Ids : disk'[j] = (IF j = i THEN row ELSE disk[j]) /\ pend[c][j] = Same
    BY <2>1 DEF ConTypeOK, NoPend
  <2>3. \A j \in Ids : Cell(c, j)
    BY <1>1, <2>1, <2>2 DEF Cell
  <2> QED
    BY <1>2, <2>1, <2>3 DEF Cells
<1> QED
  BY <1>3, <1>4

LEMMA CellTypes ==
  ASSUME TypeOK, NEW j \in Ids
  PROVE  /\ nextId \in Nat /\ j \in Nat /\ disk[j] \in Rows \cup {NoRow}
         /\ \A d \in Clients : pend[d][j] \in Rows \cup {NoRow, Same}
         /\ \A d \in Clients : View(d)[j] = IF pend[d][j] = Same THEN disk[j] ELSE pend[d][j]
         /\ NoRow \notin Rows /\ Same \notin Rows /\ NoRow # Same
  BY IdAssumption, RowAssumption DEF TypeOK, ConTypeOK, Ids, View

\* Nothing that holds of all ids is lost.
LEMMA SharedStays ==
  ASSUME TypeOK, Shared, NEW c \in Clients, Cells(c)
  PROVE  Shared'
<1>1. ASSUME NEW j \in Ids
      PROVE  /\ j >= nextId' => disk'[j] = NoRow /\ \A d \in Clients : pend'[d][j] = Same
             /\ \A d \in Clients : pend'[d][j] \notin {Same, NoRow} /\ disk'[j] # NoRow =>
                  pend'[d][j].kind = "master" /\ disk'[j].kind = "master"
             /\ \A d, e \in Clients : pend'[d][j] # Same /\ pend'[e][j] # Same => d = e
  <2>1. Cell(c, j)
    BY DEF Cells
  <2>2. /\ j >= nextId => disk[j] = NoRow /\ \A d \in Clients : pend[d][j] = Same
        /\ \A d \in Clients : pend[d][j] \notin {Same, NoRow} /\ disk[j] # NoRow =>
                  pend[d][j].kind = "master" /\ disk[j].kind = "master"
        /\ \A d, e \in Clients : pend[d][j] # Same /\ pend[e][j] # Same => d = e
        /\ j >= nextId' => j >= nextId
    BY CellTypes DEF Shared, Cells
  <2>3. CASE disk'[j] = disk[j] /\ pend'[c][j] \in {pend[c][j], Same}
    BY <2>1, <2>2, <2>3 DEF Cell
  <2>4. CASE pend[c][j] # Same /\ disk'[j] = pend[c][j] /\ pend'[c][j] = Same
    BY <2>1, <2>2, <2>4 DEF Cell
  <2>5. CASE \A d \in Clients \ {c} : pend[d][j] = Same
    <3>1. \A d \in Clients \ {c} : pend'[d][j] = Same
      BY <2>1, <2>5 DEF Cell
    <3>2. SUFFICES ASSUME NEW row \in Rows \cup {NoRow}, MayWrite(c, j, row),
                          \/ disk'[j] = disk[j] /\ pend'[c][j] = row
                          \/ disk'[j] = row /\ pend[c][j] = Same /\ pend'[c][j] = Same
                   PROVE  /\ j >= nextId' => disk'[j] = NoRow /\ pend'[c][j] = Same
                          /\ pend'[c][j] \notin {Same, NoRow} /\ disk'[j] # NoRow =>
                               pend'[c][j].kind = "master" /\ disk'[j].kind = "master"
      BY <2>1, <2>3, <2>4, <3>1 DEF Cell
    <3>3. j < nextId'
      BY <2>2, <3>2, CellTypes DEF MayWrite, IsMaster, Cells
    <3> QED
      BY <2>2, <3>2, <3>3, CellTypes DEF MayWrite, IsMaster
  <2> QED
    BY <2>1, <2>3, <2>4, <2>5 DEF Cell
<1> QED
  BY <1>1 DEF Shared

\* Nobody turns a detail into the detail of another record, or into a master.
LEMMA DetailsStay ==
  ASSUME TypeOK, NEW c \in Clients, Cells(c), NEW i, NEW S \in SUBSET Ids, DetailsOf(i, S)
  PROVE  DetailsOf(i, S)'
<1> SUFFICES ASSUME NEW j \in S
             PROVE  /\ j < nextId' /\ DetailOrGone(disk'[j], i)
                    /\ \A d \in Clients : DetailOrGone(pend'[d][j], i)
  BY DEF DetailsOf, DetailOrGone
<1>1. Cell(c, j) /\ j \in Ids
  BY DEF Cells
<1>2. /\ j < nextId /\ DetailOrGone(disk[j], i)
      /\ \A d \in Clients : DetailOrGone(pend[d][j], i)
  BY DEF DetailsOf
<1>3. j < nextId'
  BY <1>1, <1>2, CellTypes DEF Cells
<1>4. \A row : MayWrite(c, j, row) => row = NoRow
  BY <1>1, <1>2, CellTypes DEF MayWrite, IsMaster, DetailOrGone
<1> QED
  BY <1>1, <1>2, <1>3, <1>4 DEF Cell, DetailOrGone

\* A transaction that another client does not disturb still writes over its own.
LEMMA OthersWriteTheirOwn ==
  ASSUME TypeOK, Shared, NEW c \in Clients, Cells(c), NEW d \in Clients \ {c}, WritesItsOwn(d),
         obj'[d] = obj[d], pc'[d] = pc[d], inTx'[d] = inTx[d], pend'[d] = pend[d]
  PROVE  WritesItsOwn(d)'
<1>1. ASSUME NEW j \in Ids, pend'[d][j] # Same, disk'[j] # NoRow
      PROVE  Owner(j, disk'[j]) = obj[d].id
  <2>1. Cell(c, j) /\ pend[d][j] # Same /\ pend[c][j] = Same
    BY <1>1 DEF Cells, Shared
  <2>2. disk'[j] = disk[j]
    BY <2>1 DEF Cell
  <2> QED
    BY <1>1, <2>1, <2>2 DEF WritesItsOwn
<1> QED
  BY <1>1 DEF WritesItsOwn, Owner

\* So does the one whose step it is, on the same record.
LEMMA StillWritesItsOwn ==
  ASSUME TypeOK, Shared, NEW c \in Clients, Cells(c), WritesItsOwn(c), obj'[c].id = obj[c].id,
         NEW j \in Ids, pend'[c][j] # Same, disk'[j] # NoRow
  PROVE  Owner(j, disk'[j]) = obj[c].id
<1>1. Cell(c, j) /\ (pend[c][j] # Same /\ disk[j] # NoRow => Owner(j, disk[j]) = obj[c].id)
  BY DEF Cells, WritesItsOwn
<1>2. disk'[j] = disk[j]
  BY <1>1 DEF Cell
<1>3. CASE pend'[c][j] = pend[c][j]
  BY <1>1, <1>2, <1>3
<1>4. CASE pend'[c][j] # pend[c][j]
  <2>1. PICK row \in Rows \cup {NoRow} : MayWrite(c, j, row)
    BY <1>1, <1>4 DEF Cell
  <2>2. disk[nextId] = NoRow \/ j # nextId
    BY CellTypes DEF Shared
  <2> QED
    BY <1>1, <1>2, <2>1, <2>2, CellTypes DEF MayWrite, IsMaster, Owner
<1> QED
  BY <1>3, <1>4

\* What a step of c changes in the database is of the record its form edits.
LEMMA ChangesItsOwn ==
  ASSUME TypeOK, Shared, NEW c \in Clients, Cells(c), WritesItsOwn(c),
         NEW j \in Ids, disk[j] # NoRow, disk'[j] # disk[j]
  PROVE  Owner(j, disk[j]) = obj[c].id
<1>1. Cell(c, j) /\ (pend[c][j] # Same => Owner(j, disk[j]) = obj[c].id)
  BY DEF Cells, WritesItsOwn
<1>2. CASE pend[c][j] # Same
  BY <1>1, <1>2
<1>3. CASE pend[c][j] = Same
  <2>1. PICK row \in Rows \cup {NoRow} : MayWrite(c, j, row)
    BY <1>1, <1>3 DEF Cell
  <2>2. j # nextId
    BY CellTypes DEF Shared
  <2> QED
    BY <1>3, <2>1, <2>2, CellTypes DEF MayWrite, IsMaster, Owner
<1> QED
  BY <1>2, <1>3

\* What is left to show of the client whose step it is: that its transaction is open
\* and on its record, and that it deletes what is of its record.
Mine(c) ==
  /\ ~inTx'[c] \/ pc'[c] \notin Busy \/ pc'[c] = "insert" => pend'[c] = NoPend
  /\ \A j \in Ids : pend'[c][j] # Same /\ disk'[j] # NoRow => Owner(j, disk'[j]) = obj'[c].id
  /\ DeletesItsOwn(c)' /\ Named(c)'

\* Nobody duplicates, or nobody tries again: a duplicate keeps the original details of
\* the record it was read from, and a second accept would delete them.
Loose == Retries = FALSE \/ "duplicate" \notin Operations

LEMMA NothingToWrite ==
  ASSUME NEW c \in Clients, pend'[c] = NoPend
  PROVE  \A j \in Ids : pend'[c][j] = Same
  BY DEF NoPend

\* A form is opened: what it read of a record are details of that record.
LEMMA OpensItsOwn ==
  ASSUME TypeOK, Shared, NEW c \in Clients, OwnOf(c),
         NEW op, NEW o, NEW m, Open(c, op, o, m),
         o.isNew /\ Retries => o.orig = {},
         IF o.isNew THEN m = "save" ELSE o.id \in Ids /\ o.orig = DetailIds(disk, o.id)
  PROVE  Cells(c) /\ Mine(c)
<1>1. /\ pc[c] = "idle" /\ pc'[c] = "editing" /\ obj'[c] = o /\ nextId' = nextId
      /\ mode'[c] = m
      /\ UNCHANGED <<disk, pend, inTx, todo>>
  BY DEF Open, Set, TypeOK, conVars
<1>2. pend'[c] = NoPend /\ todo'[c] = {}
  BY <1>1 DEF OwnOf, WritesItsOwn, DeletesItsOwn, Busy
<1>3. Cells(c)
  BY <1>1, CellsSame
<1>4. ~o.isNew => DetailsOf(o.id, o.orig)
  <2> SUFFICES ASSUME ~o.isNew, NEW j \in DetailIds(disk, o.id)
               PROVE  /\ j < nextId /\ DetailOrGone(disk[j], o.id)
                      /\ \A d \in Clients : DetailOrGone(pend[d][j], o.id)
    BY DEF DetailsOf
  <2>1. j \in Ids /\ disk[j] # NoRow /\ disk[j].kind = "detail" /\ disk[j].fk = o.id
    BY DEF DetailIds
  <2>2. j < nextId
    BY <2>1, CellTypes DEF Shared
  <2> QED
    BY <2>1, <2>2 DEF Shared, DetailOrGone
<1>5. DetailsOf(o.id, o.orig)' = DetailsOf(o.id, o.orig)
  BY <1>1 DEF DetailsOf, DetailOrGone
<1>6. DetailsOf(o.id, {})'
  BY DEF DetailsOf
<1>7. DeletesItsOwn(c)'
  BY <1>1, <1>2, <1>4, <1>5, <1>6 DEF DeletesItsOwn, Busy
<1>8. \A j \in Ids : pend'[c][j] = Same
  BY <1>2, NothingToWrite
<1> QED
  BY <1>1, <1>2, <1>3, <1>7, <1>8 DEF Mine, Named

\* A form that is left has nothing to write and nothing to delete.
LEMMA LeavesNothing ==
  ASSUME TypeOK, NEW c \in Clients, Leave(c), pend'[c] = NoPend
  PROVE  Mine(c)
<1>1. pc'[c] = "idle" /\ obj'[c] = NoObject /\ todo'[c] = {} /\ mode'[c] = "save"
  BY DEF Leave, Set, TypeOK
<1>2. NoObject.isNew /\ NoObject.orig = {}
  BY DEF NoObject
<1>3. DeletesItsOwn(c)'
  BY <1>1, <1>2 DEF DeletesItsOwn, DetailsOf, Busy
<1>4. \A j \in Ids : pend'[c][j] = Same
  BY NothingToWrite
<1> QED
  BY <1>1, <1>2, <1>3, <1>4 DEF Mine, Named

\* A step that keeps the object, and deletes no more than before.
LEMMA KeepsItsOwn ==
  ASSUME TypeOK, Shared, NEW c \in Clients, Cells(c), OwnOf(c),
         mode'[c] = mode[c], obj'[c].dirty => obj[c].dirty,
         pc'[c] = "removing" => pc[c] = "removing" \/ ~obj[c].isNew,
         obj'[c].id = obj[c].id, obj'[c].isNew = obj[c].isNew, obj'[c].orig = obj[c].orig,
         todo'[c] \subseteq todo[c] \/ (~obj[c].isNew /\ pc[c] = "editing" /\ todo'[c] = obj[c].orig)
           \/ (~obj[c].isNew /\ Retries /\ todo'[c] = obj[c].orig),
         ~inTx'[c] \/ pc'[c] \notin Busy \/ pc'[c] = "insert" => pend'[c] = NoPend,
         pc'[c] \notin Busy \/ pc'[c] = "insert" => todo'[c] = {},
         pc'[c] = "insert" => obj[c].isNew,
         pc'[c] = "editing" => pc[c] = "editing"
  PROVE  Mine(c)
<1>1. PICK i \in {obj[c].id}, S \in SUBSET Ids, T \in SUBSET Ids :
        i = obj[c].id /\ S = todo[c] /\ T = obj[c].orig
  BY DEF TypeOK, Objects
<1>2. DetailsOf(i, S)'
  BY <1>1, DetailsStay DEF OwnOf, DeletesItsOwn
<1>3. ~obj[c].isNew /\ (pc[c] = "editing" \/ Retries) => DetailsOf(i, T)'
  BY <1>1, DetailsStay DEF OwnOf, DeletesItsOwn
<1>4. i = obj'[c].id /\ T = obj'[c].orig /\ DetailsOf(i, todo[c])'
  BY <1>1, <1>2, <1>3 DEF DetailsOf
<1>5. DeletesItsOwn(c)'
  BY <1>1, <1>3, <1>4 DEF OwnOf, DeletesItsOwn
<1>6. \A j \in Ids : pend'[c][j] # Same /\ disk'[j] # NoRow => Owner(j, disk'[j]) = obj'[c].id
  BY StillWritesItsOwn DEF OwnOf
<1>7. Named(c)'
  BY DEF OwnOf, Named
<1> QED
  BY <1>5, <1>6, <1>7 DEF Mine

LEMMA UserOwn ==
  ASSUME TypeOK, Shared, Loose, NEW c \in Clients, OwnOf(c), User(c)
  PROVE  Cells(c) /\ Mine(c)
<1>t. ConTypeOK
  BY DEF TypeOK
<1>1. CASE BeginInsert(c)
  <2>1. PICK v \in Values, ls \in Lines : Open(c, "insert", BlankObject(v, ls), "save")
    BY <1>1 DEF BeginInsert
  <2>2. BlankObject(v, ls).isNew /\ BlankObject(v, ls).orig = {}
    BY DEF BlankObject
  <2> QED
    BY <2>1, <2>2, OpensItsOwn
<1>2. CASE BeginUpdate(c)
  <2>1. PICK i \in Ids, v \in Values, ls \in Lines :
          /\ IsMaster(disk, i)
          /\ Open(c, "update",
                  [ReadObject(i) EXCEPT !.val = v, !.dirty = (v # ReadObject(i).val),
                                        !.lines = ls], "save")
    BY <1>2 DEF BeginUpdate
  <2> DEFINE o == [ReadObject(i) EXCEPT !.val = v, !.dirty = (v # ReadObject(i).val),
                                        !.lines = ls]
  <2>2. o.id = i /\ o.orig = DetailIds(disk, i) /\ ~o.isNew
    BY DEF ReadObject
  <2>3. Open(c, "update", o, "save")
    BY <2>1
  <2> HIDE DEF o
  <2> QED
    BY <2>1, <2>2, <2>3, OpensItsOwn
<1>3. CASE BeginDuplicate(c)
  <2>1. PICK i \in Ids :
          /\ IsMaster(disk, i) /\ StoredLines(disk, i) \in Lines
          /\ Open(c, "duplicate",
                  [ReadObject(i) EXCEPT !.isNew = TRUE, !.id = 0, !.dirty = TRUE], "save")
    BY <1>3 DEF BeginDuplicate
  <2> DEFINE o == [ReadObject(i) EXCEPT !.isNew = TRUE, !.id = 0, !.dirty = TRUE]
  <2>2. o.isNew /\ Open(c, "duplicate", o, "save")
    BY <1>t, <2>1, ObjectsRead
  <2>3. ~Retries
    BY <2>2 DEF Open, Loose
  <2> HIDE DEF o
  <2> QED
    BY <2>2, <2>3, OpensItsOwn
<1>4. CASE BeginDelete(c)
  <2>1. PICK i \in Ids :
          /\ IsMaster(disk, i)
          /\ Open(c, "delete", [ReadObject(i) EXCEPT !.lines = <<>>], "remove")
    BY <1>4 DEF BeginDelete
  <2> DEFINE o == [ReadObject(i) EXCEPT !.lines = <<>>]
  <2>2. /\ ~o.isNew /\ o.id = i /\ o.orig = DetailIds(disk, i)
        /\ Open(c, "delete", o, "remove")
    BY <1>t, <2>1, ObjectsRead
  <2> HIDE DEF o
  <2> QED
    BY <2>1, <2>2, OpensItsOwn
<1>5. CASE Cancel(c)
  <2>1. Leave(c) /\ UNCHANGED conVars /\ nextId' = nextId /\ pend'[c] = NoPend
    BY <1>5 DEF Cancel, OwnOf, WritesItsOwn, Busy, conVars
  <2> QED
    BY <2>1, CellsSame, LeavesNothing DEF conVars
<1>6. CASE Accept(c)
  <2>1. /\ pc[c] \in {"editing", "failed"} /\ BeginTransaction(c) /\ nextId' = nextId
        /\ pc[c] = "failed" => Retries
        /\ obj' = obj /\ pc'[c] \in {"insert", "removing"}
        /\ pc'[c] = "insert" => obj[c].isNew
        /\ todo'[c] = IF obj[c].isNew THEN {} ELSE obj[c].orig
        /\ mode'[c] = mode[c] /\ (pc'[c] = "removing" => ~obj[c].isNew)
    BY <1>6 DEF Accept, Set, TypeOK, OwnOf, Named
  <2>2. pend[c] = NoPend
    BY <2>1 DEF OwnOf, WritesItsOwn, Busy
  <2>3. Cells(c) /\ inTx'[c] /\ pend'[c] = NoPend
    BY <1>t, <2>1, <2>2, CellsBegin
  <2> QED
    BY <2>1, <2>3, KeepsItsOwn DEF Busy
<1> QED
  BY <1>1, <1>2, <1>3, <1>4, <1>5, <1>6 DEF User

\* An INSERT makes the object not new, with an id nobody has: there is nothing to
\* delete, before or after.
LEMMA InsertsItsOwn ==
  ASSUME TypeOK, Shared, NEW c \in Clients, OwnOf(c), Cells(c),
         pc[c] = "insert", pc'[c] = "lines", todo' = todo, NEW i \in 0 .. MaxId,
         obj' = [obj EXCEPT ![c].isNew = FALSE, ![c].id = i, ![c].dirty = FALSE],
         ~inTx'[c] => pend'[c] = NoPend,
         \A j \in Ids : pend'[c][j] # Same => disk'[j] = NoRow, mode'[c] = "save"
  PROVE  Mine(c)
<1>1. todo'[c] = {} /\ obj[c].isNew
  BY DEF OwnOf, DeletesItsOwn
<1>2. /\ obj'[c].id = i /\ ~obj'[c].isNew /\ obj'[c].orig = obj[c].orig
      /\ ~obj'[c].dirty
  BY DEF TypeOK, Objects
<1>3. Retries => obj'[c].orig = {}
  BY <1>1, <1>2 DEF OwnOf, DeletesItsOwn
<1>4. DeletesItsOwn(c)'
  BY <1>1, <1>2, <1>3 DEF DeletesItsOwn, DetailsOf, Busy
<1>5. Named(c)'
  BY <1>2 DEF Named
<1> QED
  BY <1>4, <1>5 DEF Mine, Busy

LEMMA StatementOwn ==
  ASSUME TypeOK, Shared, NEW c \in Clients, OwnOf(c), Statement(c)
  PROVE  Cells(c) /\ Mine(c)
<1>t. /\ ConTypeOK /\ obj \in [Clients -> Objects] /\ obj[c].id \in 0 .. MaxId
      /\ obj[c].val \in Values /\ nextId \in Nat /\ todo[c] \in SUBSET Ids
      /\ \A v \in Values : MasterRow(v) \in Rows /\ MasterRow(v).kind = "master"
  BY RowFacts, IdAssumption DEF TypeOK, Objects
<1>u. ~inTx[c] => pend[c] = NoPend
  BY DEF OwnOf, WritesItsOwn
<1>1. CASE Insert(c)
  <2>1. /\ pc[c] = "insert" /\ nextId <= MaxId /\ nextId' = nextId + 1 /\ pc'[c] = "lines"
        /\ todo' = todo /\ mode'[c] = "save"
        /\ obj' = [obj EXCEPT ![c].isNew = FALSE, ![c].id = nextId, ![c].dirty = FALSE]
        /\ Exec(c, nextId, MasterRow(obj[c].val))
    BY <1>1 DEF Insert, StartLines, Set, TypeOK, OwnOf, DeletesItsOwn, Named
  <2>2. nextId \in Ids /\ nextId \in 0 .. MaxId
    BY <2>1, IdAssumption DEF TypeOK, Ids
  <2>3. /\ Cells(c) /\ inTx' = inTx /\ (~inTx'[c] => pend'[c] = NoPend)
        /\ \A j \in Ids : j # nextId => pend'[c][j] = pend[c][j]
    BY <1>t, <1>u, <2>1, <2>2, CellsExec DEF MayWrite
  <2>4. pend[c] = NoPend
    BY <2>1 DEF OwnOf, WritesItsOwn
  <2>5. \A j \in Ids : pend'[c][j] # Same => disk'[j] = NoRow
    <3> SUFFICES ASSUME NEW j \in Ids, pend'[c][j] # Same PROVE disk'[j] = NoRow
      OBVIOUS
    <3>1. j = nextId
      BY <2>3, <2>4 DEF NoPend
    <3>2. disk[j] = NoRow /\ pend[c][j] = Same
      BY <2>4, <3>1, CellTypes DEF Shared, NoPend
    <3>3. Cell(c, j)
      BY <2>3 DEF Cells
    <3> QED
      BY <3>2, <3>3 DEF Cell
  <2>6. PICK i \in 0 .. MaxId : i = nextId
    BY <2>2
  <2>7. obj' = [obj EXCEPT ![c].isNew = FALSE, ![c].id = i, ![c].dirty = FALSE]
    BY <2>1, <2>6
  <2> QED
    BY <2>1, <2>3, <2>5, <2>7, InsertsItsOwn
<1>2. CASE Update(c)
  <2>1. /\ pc[c] = "removing" /\ nextId' = nextId /\ pc'[c] = "lines" /\ todo' = todo
        /\ obj' = [obj EXCEPT ![c].dirty = FALSE] /\ mode' = mode
        /\ \/ /\ obj[c].dirty /\ IsMaster(View(c), obj[c].id)
              /\ Exec(c, obj[c].id, MasterRow(obj[c].val))
           \/ UNCHANGED conVars
    BY <1>2 DEF Update, StartLines, Set, TypeOK
  <2>2. /\ obj'[c].id = obj[c].id /\ obj'[c].isNew = obj[c].isNew
        /\ obj'[c].orig = obj[c].orig /\ ~obj'[c].dirty
    BY <1>t, <2>1 DEF Objects
  <2>3. CASE UNCHANGED conVars
    <3>1. Cells(c) /\ pend' = pend /\ inTx' = inTx
      BY <2>1, <2>3, CellsSame DEF conVars
    <3> QED
      BY <1>u, <2>1, <2>2, <3>1, KeepsItsOwn DEF Busy
  <2>4. CASE /\ obj[c].dirty /\ IsMaster(View(c), obj[c].id)
             /\ Exec(c, obj[c].id, MasterRow(obj[c].val))
    <3>1. obj[c].id \in Ids
      BY <2>1, <2>4 DEF OwnOf, Named
    <3>2. PICK row \in Rows : row = MasterRow(obj[c].val) /\ row.kind = "master"
      BY <1>t
    <3>3. Exec(c, obj[c].id, row) /\ MayWrite(c, obj[c].id, row)
      BY <2>4, <3>2 DEF MayWrite
    <3>4. Cells(c) /\ inTx' = inTx /\ (~inTx'[c] => pend'[c] = NoPend)
      BY <1>t, <1>u, <2>1, <3>1, <3>3, CellsExec
    <3> QED
      BY <2>1, <2>2, <3>4, KeepsItsOwn DEF Busy
  <2> QED
    BY <2>1, <2>3, <2>4
<1>3. CASE DeleteMaster(c)
  <2>1. /\ pc[c] = "removing" /\ nextId' = nextId /\ pc'[c] = "closing" /\ todo' = todo
        /\ obj' = obj /\ mode' = mode /\ mode[c] = "remove"
        /\ \/ IsMaster(View(c), obj[c].id) /\ Exec(c, obj[c].id, NoRow)
           \/ UNCHANGED conVars
    BY <1>3 DEF DeleteMaster, Set, TypeOK
  <2>2. CASE UNCHANGED conVars
    <3>1. Cells(c) /\ pend' = pend /\ inTx' = inTx
      BY <2>1, <2>2, CellsSame DEF conVars
    <3> QED
      BY <1>u, <2>1, <3>1, KeepsItsOwn DEF Busy
  <2>3. CASE IsMaster(View(c), obj[c].id) /\ Exec(c, obj[c].id, NoRow)
    <3>1. PICK i \in Ids : i = obj[c].id
      BY <2>1 DEF OwnOf, Named
    <3>2. View(c)[i] = IF pend[c][i] = Same THEN disk[i] ELSE pend[c][i]
      BY DEF View
    <3>3. View(c)[i] # NoRow /\ View(c)[i].kind = "master"
      BY <2>3, <3>1 DEF IsMaster
    <3>4. disk[i] # NoRow => Owner(i, disk[i]) = obj[c].id
      BY <3>1, <3>2, <3>3 DEF OwnOf, WritesItsOwn, Owner
    <3>5. Exec(c, i, NoRow) /\ MayWrite(c, i, NoRow)
      BY <2>3, <3>1, <3>3, <3>4 DEF MayWrite
    <3>6. Cells(c) /\ inTx' = inTx /\ (~inTx'[c] => pend'[c] = NoPend)
      BY <1>t, <1>u, <2>1, <3>5, CellsExec
    <3> QED
      BY <2>1, <3>6, KeepsItsOwn DEF Busy
  <2> QED
    BY <2>1, <2>2, <2>3
<1>4. CASE RemoveDetail(c)
  <2>1. /\ pc[c] = "removing" /\ nextId' = nextId /\ pc' = pc /\ obj' = obj /\ mode' = mode
        /\ todo'[c] = todo[c] \ NextToRemove(c)
    BY <1>4 DEF RemoveDetail, DetailToRemove, Set, TypeOK
  <2>2. PICK i \in NextToRemove(c) :
          IF View(c)[i] # NoRow THEN Exec(c, i, NoRow) ELSE UNCHANGED conVars
    BY <1>4 DEF RemoveDetail
  <2>3. i \in todo[c] /\ i \in Ids
    BY <1>t, <2>2 DEF NextToRemove
  <2>4. CASE UNCHANGED conVars
    <3>1. Cells(c) /\ pend' = pend /\ inTx' = inTx
      BY <2>1, <2>4, CellsSame DEF conVars
    <3> QED
      BY <1>u, <2>1, <3>1, KeepsItsOwn DEF Busy
  <2>5. CASE View(c)[i] # NoRow /\ Exec(c, i, NoRow)
    <3>1. DetailOrGone(disk[i], obj[c].id) /\ disk[i] # Same
      BY <2>3, CellTypes DEF OwnOf, DeletesItsOwn, DetailsOf
    <3>2. MayWrite(c, i, NoRow)
      BY <2>5, <3>1 DEF MayWrite, DetailOrGone, Owner
    <3>3. Cells(c) /\ inTx' = inTx /\ (~inTx'[c] => pend'[c] = NoPend)
      BY <1>t, <1>u, <2>1, <2>3, <2>5, <3>2, CellsExec
    <3> QED
      BY <2>1, <3>3, KeepsItsOwn DEF Busy
  <2> QED
    BY <2>2, <2>4, <2>5
<1>5. CASE InsertDetail(c)
  <2>1. /\ pc[c] = "lines" /\ nextId <= MaxId /\ nextId' = nextId + 1
        /\ UNCHANGED <<pc, obj, mode, todo>> /\ at[c] <= Len(obj[c].lines)
        /\ Exec(c, nextId, DetailRow(obj[c].id, obj[c].lines[at[c]]))
    BY <1>5 DEF InsertDetail, DetailToInsert
  <2>2. nextId \in Ids
    BY <2>1, IdAssumption DEF TypeOK, Ids
  <2>3. PICK row \in Rows : row = DetailRow(obj[c].id, obj[c].lines[at[c]])
    <3>1. obj[c].lines \in Seq(Contents) /\ at[c] \in Nat \ {0}
      BY DEF TypeOK, Objects
    <3> QED
      BY <1>t, <2>1, <3>1, RowFacts
  <2>4. Cells(c) /\ inTx' = inTx /\ (~inTx'[c] => pend'[c] = NoPend)
    BY <1>t, <1>u, <2>1, <2>2, <2>3, CellsExec DEF MayWrite
  <2> QED
    BY <2>1, <2>4, KeepsItsOwn DEF Busy
<1>6. CASE NestBegin(c)
  <2>1. /\ UNCHANGED <<nextId, pc, obj, mode, todo>> /\ BeginTransaction(c)
        /\ pc[c] \in {"removing", "lines"}
    BY <1>6 DEF NestBegin, DetailToRemove, DetailToInsert
  <2>2. Cells(c) /\ inTx'[c]
    BY <1>t, <2>1, CellsBegin
  <2> QED
    BY <2>1, <2>2, KeepsItsOwn DEF Busy
<1>7. CASE NestCommit(c)
  <2>1. UNCHANGED <<nextId, pc, obj, mode, todo>> /\ CommitTransaction(c)
    BY <1>7 DEF NestCommit
  <2>2. Cells(c) /\ pend'[c] = NoPend
    BY <1>t, <2>1, CellsCommit
  <2> QED
    BY <2>1, <2>2, KeepsItsOwn DEF OwnOf, DeletesItsOwn
<1>8. CASE Commit(c)
  BY <1>t, <1>8, CellsCommit, LeavesNothing DEF Commit
<1> QED
  BY <1>1, <1>2, <1>3, <1>4, <1>5, <1>6, <1>7, <1>8 DEF Statement

LEMMA FailureOwn ==
  ASSUME TypeOK, Shared, NEW c \in Clients, OwnOf(c), Failure(c)
  PROVE  Cells(c) /\ Mine(c)
<1>t. /\ ConTypeOK /\ obj \in [Clients -> Objects] /\ lastId[c] \in 0 .. MaxId
      /\ todo[c] \in SUBSET Ids
  BY DEF TypeOK
<1>u. ~inTx[c] => pend[c] = NoPend
  BY DEF OwnOf, WritesItsOwn
<1>1. CASE StatementFails(c) \/ MasterVetoed(c)
  <2>1. /\ RollbackTransaction(c) /\ pc'[c] = "failed" /\ todo'[c] = {}
        /\ UNCHANGED <<nextId, obj, mode>>
    BY <1>1 DEF StatementFails, MasterVetoed, Abandon, Set, TypeOK
  <2>2. Cells(c) /\ pend'[c] = NoPend
    BY <1>t, <2>1, CellsCommit
  <2> QED
    BY <2>1, <2>2, KeepsItsOwn
<1>2. CASE LostInsert(c)
  <2>1. /\ pc[c] = "insert" /\ pc'[c] = "lines" /\ UNCHANGED <<conVars, nextId, mode, todo>>
        /\ obj' = [obj EXCEPT ![c].isNew = FALSE, ![c].id = lastId[c], ![c].dirty = FALSE]
    BY <1>2 DEF LostInsert, StartLines, Set, TypeOK
  <2>2. Cells(c) /\ pend'[c] = NoPend
    BY <2>1, CellsSame DEF conVars, OwnOf, WritesItsOwn
  <2>3. \A j \in Ids : pend'[c][j] = Same
    BY <2>2, NothingToWrite
  <2>4. mode'[c] = "save"
    BY <2>1 DEF OwnOf, DeletesItsOwn, Named, TypeOK
  <2>5. PICK i \in 0 .. MaxId : i = lastId[c]
    BY <1>t
  <2>6. obj' = [obj EXCEPT ![c].isNew = FALSE, ![c].id = i, ![c].dirty = FALSE]
    BY <2>1, <2>5
  <2> QED
    BY <2>1, <2>2, <2>3, <2>4, <2>6, InsertsItsOwn
<1>3. CASE LostInsertDetail(c) \/ LostRemoveDetail(c)
  <2>1. /\ UNCHANGED <<conVars, nextId, pc, obj, mode>> /\ todo'[c] \subseteq todo[c]
        /\ pc[c] \in {"removing", "lines"}
    BY <1>3 DEF LostInsertDetail, LostRemoveDetail, DetailToInsert, DetailToRemove, Set, TypeOK
  <2>2. Cells(c) /\ pend' = pend /\ inTx' = inTx
    BY <2>1, CellsSame DEF conVars
  <2> QED
    BY <1>u, <2>1, <2>2, KeepsItsOwn DEF Busy
<1>4. CASE LostUpdate(c)
  <2>1. /\ UNCHANGED <<conVars, nextId, mode, todo>> /\ pc'[c] = "lines"
        /\ obj' = [obj EXCEPT ![c].dirty = FALSE]
    BY <1>4 DEF LostUpdate, StartLines, Set, TypeOK
  <2>2. Cells(c) /\ pend' = pend /\ inTx' = inTx
    BY <2>1, CellsSame DEF conVars
  <2>3. /\ obj'[c].id = obj[c].id /\ obj'[c].isNew = obj[c].isNew
        /\ obj'[c].orig = obj[c].orig /\ ~obj'[c].dirty
    BY <1>t, <2>1 DEF Objects
  <2> QED
    BY <1>u, <2>1, <2>2, <2>3, KeepsItsOwn DEF Busy
<1>5. CASE DetailVetoed(c)
  <2>1. /\ RollbackTransaction(c) /\ todo'[c] \subseteq todo[c]
        /\ UNCHANGED <<nextId, pc, obj, mode>>
    BY <1>5 DEF DetailVetoed, Set, TypeOK
  <2>2. Cells(c) /\ pend'[c] = NoPend
    BY <1>t, <2>1, CellsCommit
  <2> QED
    BY <2>1, <2>2, KeepsItsOwn DEF OwnOf, DeletesItsOwn
<1>6. CASE Crash(c) \/ MasterSkipped(c)
  BY <1>t, <1>6, CellsCommit, LeavesNothing DEF Crash, MasterSkipped
<1> QED
  BY <1>1, <1>2, <1>3, <1>4, <1>5, <1>6 DEF Failure

\* The others' objects and connections are not touched by a step of c.
LEMMA OthersWait ==
  ASSUME TypeOK, NEW c \in Clients, User(c) \/ Statement(c) \/ Failure(c),
         NEW d \in Clients \ {c}
  PROVE  /\ obj'[d] = obj[d] /\ pc'[d] = pc[d] /\ mode'[d] = mode[d] /\ todo'[d] = todo[d]
         /\ inTx'[d] = inTx[d] /\ pend'[d] = pend[d]
<1> USE DEF TypeOK, ConTypeOK, Set, conVars, Leave, BeginTransaction, CommitTransaction,
            RollbackTransaction, Exec, StartLines, Abandon
<1>1. CASE User(c)
  BY <1>1 DEF User, BeginInsert, BeginUpdate, BeginDuplicate, BeginDelete, Open, Cancel, Accept
<1>2. CASE Statement(c)
  BY <1>2 DEF Statement, Insert, Update, DeleteMaster, RemoveDetail, InsertDetail, NestBegin,
              NestCommit, Commit
<1>3. CASE Failure(c)
  BY <1>3 DEF Failure, StatementFails, LostInsert, LostInsertDetail, LostRemoveDetail,
              LostUpdate, MasterVetoed, MasterSkipped, DetailVetoed, Crash
<1> QED
  BY <1>1, <1>2, <1>3

LEMMA OwnStays ==
  ASSUME Loose, Own, NEW c \in Clients, User(c) \/ Statement(c) \/ Failure(c)
  PROVE  Own'
<1>1. TypeOK'
  BY UserType, StatementType, FailureType DEF Own
<1>2. Cells(c) /\ Mine(c)
  BY UserOwn, StatementOwn, FailureOwn DEF Own
<1>3. Shared'
  BY <1>2, SharedStays DEF Own
<1>4. OwnOf(c)'
  BY <1>2 DEF Mine, OwnOf, WritesItsOwn, Owner
<1>5. ASSUME NEW d \in Clients \ {c} PROVE OwnOf(d)'
  <2>1. /\ obj'[d] = obj[d] /\ pc'[d] = pc[d] /\ mode'[d] = mode[d] /\ todo'[d] = todo[d]
        /\ inTx'[d] = inTx[d] /\ pend'[d] = pend[d]
    BY OthersWait DEF Own
  <2>2. WritesItsOwn(d)'
    BY <1>2, <2>1, OthersWriteTheirOwn DEF Own, OwnOf
  <2>3. PICK i \in {obj[d].id}, S \in SUBSET Ids, T \in SUBSET Ids :
          i = obj[d].id /\ S = todo[d] /\ T = obj[d].orig
    BY DEF Own, TypeOK, Objects
  <2>4. DetailsOf(i, S) => DetailsOf(i, S)'
    BY <1>2, DetailsStay DEF Own
  <2>5. DetailsOf(i, T) => DetailsOf(i, T)'
    BY <1>2, DetailsStay DEF Own
  <2>6. DeletesItsOwn(d)'
    BY <2>1, <2>3, <2>4, <2>5 DEF Own, OwnOf, DeletesItsOwn
  <2>7. Named(d)'
    BY <2>1 DEF Own, OwnOf, Named
  <2> QED
    BY <2>2, <2>6, <2>7 DEF OwnOf
<1> QED
  BY <1>1, <1>3, <1>4, <1>5 DEF Own

LEMMA OwnStutters ==
  ASSUME Own, UNCHANGED vars
  PROVE  Own'
<1>1. TypeOK'
  BY StutterType DEF Own
<1>2. UNCHANGED <<disk, pend, inTx, nextId, obj, pc, mode, todo>>
  BY DEF vars, conVars, recVars
<1>3. Shared'
  BY <1>2 DEF Own, Shared
<1>4. \A i, S : DetailsOf(i, S)' = DetailsOf(i, S)
  BY <1>2 DEF DetailsOf, DetailOrGone
<1>5. ASSUME NEW c \in Clients PROVE OwnOf(c)'
  BY <1>2, <1>4 DEF Own, OwnOf, WritesItsOwn, DeletesItsOwn, Named, DetailsOf, DetailOrGone, Owner
<1> QED
  BY <1>1, <1>3, <1>5 DEF Own

LEMMA InitOwn == Init => Own
<1> SUFFICES ASSUME Init PROVE Own
  OBVIOUS
<1>1. TypeOK
  BY InitType
<1>2. Shared
  BY DEF Init, ConInit, Shared, NoPend
<1>3. ASSUME NEW c \in Clients PROVE OwnOf(c)
  <2>1. /\ obj[c].isNew /\ obj[c].orig = {} /\ pend[c] = NoPend /\ todo[c] = {}
        /\ pc[c] = "idle" /\ mode[c] = "save"
    BY DEF Init, ConInit, NoObject
  <2> QED
    BY <2>1 DEF OwnOf, WritesItsOwn, DeletesItsOwn, DetailsOf, Named, NoPend
<1> QED
  BY <1>1, <1>2, <1>3 DEF Own

\* Whatever other clients do, on either database, whatever statement fails or is lost,
\* whatever a behaviour refuses and whenever a process dies: no save and no removal
\* touches a record, or a detail of a record, that no form is editing, as long as
\* nobody accepts a duplicate again after an error.
THEOREM OthersAreUntouched ==
  ASSUME Retries = FALSE \/ "duplicate" \notin Operations
  PROVE  Spec => OthersUntouched
<1> DEFINE A == \A i \in Ids :
                  disk[i] # NoRow /\ disk'[i] # disk[i] =>
                    (IF disk[i].kind = "master" THEN i ELSE disk[i].fk) \in Edited
<1>1. Own /\ [Next]_vars => Own'
  BY OwnStays, OwnStutters DEF Next, Loose
<1>2. Own /\ [Next]_vars => [A]_vars
  <2> SUFFICES ASSUME Own, Next, NEW i \in Ids, disk[i] # NoRow, disk'[i] # disk[i]
               PROVE  (IF disk[i].kind = "master" THEN i ELSE disk[i].fk) \in Edited
    OBVIOUS
  <2>1. PICK c \in Clients : User(c) \/ Statement(c) \/ Failure(c)
    BY DEF Next
  <2>2. Cells(c) /\ OwnOf(c) /\ TypeOK /\ Shared
    BY <2>1, UserOwn, StatementOwn, FailureOwn DEF Own, Loose
  <2>3. Owner(i, disk[i]) = obj[c].id
    BY <2>2, ChangesItsOwn DEF OwnOf
  <2> QED
    BY <2>3 DEF Owner, Edited
<1> HIDE DEF A
<1>3. Spec => [][A]_vars
  BY <1>1, <1>2, InitOwn, PTL DEF Spec
<1> QED
  BY <1>3 DEF A, OthersUntouched
===============================================================================
