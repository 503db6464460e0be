------------------------------- MODULE EditForm -------------------------------
(***************************************************************************)
(* FrmEditRecMaster (src/mod/dbapp): a form that browses the records of a  *)
(* table, lets the user choose one, and edits them.  What is kept is the   *)
(* bookkeeping between the table that is shown and the record object that  *)
(* is edited: whether it must be read (mMustRead), whether the table must  *)
(* be filled again (mMustRefresh), which record is looked for in it then   *)
(* (mLastID), and the modes and flags that say what a button means.  How a *)
(* record is saved is in DbRecord; here a save works or it does not.       *)
(* The form was opened to browse or to choose (not simpleEdition), in a    *)
(* main window that is not closing, and is not embedded in another form.   *)
(***************************************************************************)
EXTENDS Integers, Sequences, FiniteSets

CONSTANTS
  StartModes,   \* how the form may be opened: of "browsing", "choosing"
  FirstRecords, \* how many records there are when it is opened
  MaxRecordId,  \* last id of a record: bounds the model
  InView,       \* the records that the filter of the view lets through
  ReadOnlyForm, \* dbApplication::readOnly
  Refusals,     \* the modes whose edition canBeginEdit may refuse
  Shared,       \* the start modes in which others change the table meanwhile
  Tables,       \* the other tables, in the order of the data dictionary
  References    \* pairs of one of them and a record that it refers to

ASSUME FormAssumption ==
  /\ StartModes \subseteq {"browsing", "choosing"}
  /\ MaxRecordId \in Nat /\ FirstRecords \in 0..MaxRecordId /\ InView \subseteq 1..MaxRecordId
  /\ ReadOnlyForm \in BOOLEAN /\ Shared \subseteq StartModes
  /\ Refusals \subseteq {"inserting", "duplicating", "updating", "deleting", "selecting"}

VARIABLES
  form,    \* the members of the form, of its table and its record (FormState), and the database
  dialog   \* what goes on: "user" (waits for the user), "delete?" (asks), "loop", "closed", "chosen"

formVars == <<form, dialog>>

RecordIds == 1..MaxRecordId
Browsing  == {"browsing", "choosing"}

\* Records in the order of their ids.
Sorted(S) ==
  CHOOSE s \in [1..Cardinality(S) -> S] : \A i, j \in 1..Cardinality(S) : i < j => s[i] < s[j]

\* The rows of the view, as a query returns them now.
Shown(x) == Sorted(x.stored \cap InView)

\* The record of the row the cursor is on (0: the table is empty).
Cursor(x) == IF x.cur \in DOMAIN x.rows THEN x.rows[x.cur] ELSE 0

------------------------------------------------------------------------------
(* The table                                                                 *)

\* DataTable::sync in refresh(): an id that is not there leaves the cursor on the last
\* row.  A cursor that moves emits currentChanged, so that the record must be read.
Sync(x, id) ==
  IF id = 0 \/ x.rows = <<>> THEN x
  ELSE LET there == {n \in DOMAIN x.rows : x.rows[n] = id}
           row   == IF there = {} THEN Len(x.rows) ELSE CHOOSE n \in there : TRUE
       IN  [x EXCEPT !.cur = row, !.selected = {x.rows[row]}, !.mustRead = TRUE]

\* FrmEditRecMaster::setView over DataTable::setView: the rows are asked for again, and
\* the cursor goes to the first one, then to mLastID.
SetView(x) ==
  LET last == IF x.lastID = 0 THEN Cursor(x) ELSE x.lastID
      rows == Shown(x)
  IN  Sync([x EXCEPT !.rows = rows, !.lastID = last,
                     !.cur      = IF rows = <<>> THEN 0 ELSE 1,
                     !.selected = IF rows = <<>> THEN {} ELSE {rows[1]},
                     !.mustRead = @ \/ rows # <<>>], last)

Refresh(x) == IF x.browsing \/ x.choosing THEN [SetView(x) EXCEPT !.mustRefresh = FALSE] ELSE x

------------------------------------------------------------------------------
(* The two views of the form, and the record                                 *)

NewRecord == [id |-> 0, isNew |-> TRUE]

\* read(id): a record that is not there any more leaves the object new and empty.
Read(x, id) ==
  IF id \in x.stored
  THEN [x EXCEPT !.rec = [id |-> id, isNew |-> FALSE], !.mustRead = FALSE, !.edited = FALSE]
  ELSE [x EXCEPT !.rec = NewRecord, !.mustRead = TRUE, !.edited = FALSE]

\* Mutant: the record that was read is taken for the one that is shown.
ReadOnce(x) == IF x.mustRead /\ x.rec.isNew THEN Read(x, Cursor(x)) ELSE x

ReadIfNeeded(x) == IF x.mustRead THEN Read(x, Cursor(x)) ELSE x

EnsureEditView(x) ==
  LET y == IF x.mustRead /\ Cursor(x) # 0 THEN Read(x, Cursor(x)) ELSE x
  IN  [y EXCEPT !.tabs = TRUE, !.mustRead = FALSE, !.edited = FALSE, !.browsing = FALSE]

EnsureBrowseView(x) ==
  LET y == IF x.tabs \/ ~x.browsing
           THEN [x EXCEPT !.mode = IF x.choosing THEN "choosing" ELSE "browsing",
                          !.tabs = FALSE, !.browsing = TRUE]
           ELSE x
  IN  IF y.mustRefresh THEN Refresh(y) ELSE y

\* getPermissions, of a user who has them all.
May(x)       == x.status = "saved" \/ x.mode \in Browsing \cup {"deleting"}
MayView(x)   == May(x) /\ x.rows # <<>>
MayAdd(x)    == May(x) /\ ~ReadOnlyForm
MayEdit(x)   == MayView(x) /\ ~ReadOnlyForm /\ Cursor(x) # 0
MayDelete(x) == MayEdit(x)

\* Mutant: the row before the one that is deleted, if there is one.
NextIdBackwards(x) == IF x.cur > 1 THEN x.rows[x.cur - 1] ELSE x.lastID

\* Where to go when the record of the cursor is deleted: the row after it, or the one before.
NextId(x) ==
  LET after  == {n \in x.cur..Len(x.rows) : x.rows[n] # x.lastID}
      before == {n \in 1..(x.cur - 1) : x.rows[n] # x.lastID}
  IN  IF after # {} THEN x.rows[CHOOSE n \in after : \A k \in after : n <= k]
      ELSE IF before # {} THEN x.rows[CHOOSE n \in before : \A k \in before : k <= n]
      ELSE x.lastID

\* dbDefinition::isRecordUsed: the loop over the tables ends with the first one that is
\* not the record's own.
IsRecordUsed(id) == Tables # <<>> /\ <<Tables[1], id>> \in References

------------------------------------------------------------------------------
(* beginEdit: accepted says what canBeginEdit answers                        *)

Begin(x, mode) ==
  EnsureEditView([x EXCEPT !.mode = mode, !.status = "not_saved", !.wasBrowsing = x.browsing])

\* The object is emptied before canBeginEdit is asked.
BeginInserting(x, accepted) ==
  LET y == [x EXCEPT !.mustRead = FALSE, !.rec = NewRecord]
  IN  IF accepted THEN Begin([y EXCEPT !.continuous = TRUE], "inserting") ELSE y

BeginUpdating(x, accepted) ==
  LET y == ReadIfNeeded(x) IN IF accepted THEN Begin(y, "updating") ELSE y

\* The values are shown first; then the object is made new.
BeginDuplicating(x, accepted) ==
  LET y == ReadIfNeeded(x)
  IN  IF accepted THEN [Begin(y, "duplicating") EXCEPT !.rec = NewRecord] ELSE y

\* To look at a record does not touch mEditStatus.
BeginSelect(x, accepted) ==
  LET y == ReadIfNeeded(x)
  IN  IF accepted THEN [Begin(y, "selecting") EXCEPT !.status = x.status] ELSE y

------------------------------------------------------------------------------
(* accept                                                                    *)

\* The end of accept when something was saved: on with the next insertion, or with the
\* next deletion, or back to the view the edition began in.
Saved(x, accepted) ==
  LET y == [x EXCEPT !.another = 0, !.mustRead = FALSE, !.edited = FALSE, !.status = "saved",
                     !.mode = IF x.choosing THEN "choosing" ELSE @]
  IN  IF y.continuous /\ y.mode = "inserting"
        THEN IF MayAdd(y) THEN BeginInserting([y EXCEPT !.browsing = y.wasBrowsing], accepted) ELSE y
      ELSE IF y.continuous /\ y.mode = "deleting" THEN y
      ELSE IF y.wasBrowsing THEN EnsureBrowseView(y) ELSE EnsureEditView(y)

\* save() of a new record inserts a row; of another one it updates the row, if it is there.
SaveRecord(x) ==
  LET id == IF x.rec.isNew THEN x.issued + 1 ELSE x.rec.id
  IN  [x EXCEPT !.stored = IF x.rec.isNew THEN @ \cup {id} ELSE @,
                !.issued = IF x.rec.isNew THEN id ELSE @,
                !.rec = [id |-> id, isNew |-> FALSE], !.lastID = id, !.mustRefresh = TRUE]

\* What accept makes of an edition: outcome is what validate, save and remove did.
AcceptEdition(x, outcome, accepted) ==
  LET y == [x EXCEPT !.status = "not_saved"]
  IN  CASE outcome = "fails" -> y
        [] outcome = "refused" -> [y EXCEPT !.edited = FALSE]
        [] outcome = "done" /\ x.mode \in {"inserting", "duplicating", "updating"} ->
             Saved(SaveRecord(y), accepted)
        [] outcome = "done" /\ x.mode = "deleting" ->
             Saved([y EXCEPT !.stored = @ \ {x.rec.id}, !.lastID = NextId(x), !.mustRefresh = TRUE], accepted)
        [] outcome = "done" /\ x.mode = "selecting" -> Saved(y, accepted)

\* A removal is refused when the record is used; a save, when a behaviour says so.
Outcomes(x) ==
  CASE x.mode = "selecting" -> {"done"}
    [] x.mode = "deleting"  -> IF IsRecordUsed(x.rec.id) THEN {"refused"} ELSE {"done", "fails"}
    [] OTHER -> {"refused", "fails"} \cup IF x.rec.isNew /\ x.issued = MaxRecordId THEN {} ELSE {"done"}

Answers(mode) == IF mode \in Refusals THEN BOOLEAN ELSE {TRUE}

------------------------------------------------------------------------------
(* The user, and the rest of the program                                     *)

NewForm(m, rows, cur) ==
  [stored |-> 1..FirstRecords, issued |-> FirstRecords, another |-> 0,
   mode |-> m, status |-> "not_saved", browsing |-> TRUE, choosing |-> m = "choosing",
   wasBrowsing |-> FALSE, tabs |-> FALSE, continuous |-> FALSE, multiple |-> FALSE, edited |-> FALSE,
   mustRead |-> TRUE, mustRefresh |-> FALSE, lastID |-> IF rows = <<>> THEN 0 ELSE rows[cur],
   rows |-> rows, cur |-> cur, selected |-> IF rows = <<>> THEN {} ELSE {rows[cur]},
   rec |-> NewRecord, nrec |-> 0]

\* justShown: the cursor goes to the record of the last time.
InitForm ==
  /\ dialog = "user"
  /\ \E m \in StartModes :
       LET rows == Sorted((1..FirstRecords) \cap InView)
       IN  \E cur \in IF rows = <<>> THEN {0} ELSE DOMAIN rows : form = NewForm(m, rows, cur)

AtTable == dialog = "user" /\ form.mode \in Browsing

\* The cursor of the table moves: tableCurrentChanged.
MoveCursor ==
  /\ AtTable
  /\ \E n \in DOMAIN form.rows \ {form.cur} :
       form' = [form EXCEPT !.cur = n, !.selected = {form.rows[n]}, !.mustRead = TRUE,
                            !.lastID = form.rows[n]]
  /\ UNCHANGED dialog

\* Some rows are marked, and the cursor stays on the last of them.
SelectRows ==
  /\ AtTable
  /\ \E S \in SUBSET DOMAIN form.rows : \E n \in S \ {form.cur} :
       /\ Cardinality(S) > 1
       /\ form' = [form EXCEPT !.cur = n, !.selected = {form.rows[k] : k \in S}, !.mustRead = TRUE,
                               !.lastID = form.rows[n]]
  /\ UNCHANGED dialog

\* The menus, which are enabled while the table is shown.
Menu ==
  /\ AtTable
  /\ \/ MayAdd(form)  /\ \E a \in Answers("inserting")  : form' = BeginInserting(form, a)
     \/ MayEdit(form) /\ \E a \in Answers("updating")   : form' = BeginUpdating(form, a)
     \/ MayView(form) /\ \E a \in Answers("selecting")  : form' = BeginSelect(form, a)
     \/ /\ MayAdd(form) /\ MayEdit(form)
        /\ \E a \in Answers("duplicating") : form' = BeginDuplicating(form, a)
  /\ UNCHANGED dialog

\* The part of beginEdit(deleting) before the question, which is not asked while
\* mMultipleDeleting lasts: then AnswerDelete is the accept that follows.
AskDelete(x, accepted) ==
  LET y == ReadIfNeeded(x)
  IN  IF MayDelete(x) /\ accepted
      THEN form' = Begin(y, "deleting") /\ dialog' = "delete?"
      ELSE /\ form' = IF MayDelete(x) THEN y ELSE x
           /\ dialog' = IF x.nrec = 0 THEN "user" ELSE "loop"

MenuDelete ==
  /\ AtTable /\ MayDelete(form)
  /\ \E a \in Answers("deleting") :
       IF Cardinality(form.selected) > 1
       THEN form' = form /\ dialog' = "loop"
       ELSE AskDelete(form, a)

\* The next turn of the loop over the selected records, or its end.
NextSelected ==
  LET sel  == SelectSeq(form.rows, LAMBDA id : id \in form.selected)
      next == [Read(form, sel[form.nrec + 1]) EXCEPT !.continuous = TRUE, !.nrec = @ + 1]
      last == [form EXCEPT !.multiple = FALSE, !.nrec = 0]
  IN  /\ dialog = "loop"
      /\ IF form.nrec >= Len(sel) \/ (form.nrec > 0 /\ ~form.continuous)
         THEN /\ form' = Refresh(IF form.status = "saved" THEN EnsureBrowseView(last) ELSE last)
              /\ dialog' = "user"
         ELSE \E a \in Answers("deleting") : AskDelete(next, a)

\* The rest of beginEdit(deleting): the answer, accept, and the way back to the table.
AnswerDelete ==
  LET Back(x) == IF x.status = "not_saved" \/ (x.wasBrowsing /\ ~x.continuous)
                 THEN EnsureBrowseView(x) ELSE x
      Delete(x) == \E o \in Outcomes(x) : form' = Back(AcceptEdition(x, o, TRUE))
  IN  /\ dialog = "delete?"
      /\ dialog' = IF form.nrec = 0 THEN "user" ELSE "loop"
      /\ \/ Delete(form)
         \/ ~form.multiple /\ form.continuous /\ Delete([form EXCEPT !.multiple = TRUE])
         \/ ~form.multiple /\ form' = Back(form)
         \/ ~form.multiple /\ form' = Back([form EXCEPT !.continuous = FALSE])

TypeIn ==
  /\ dialog = "user" /\ form.mode \in {"inserting", "duplicating", "updating"}
  /\ form' = [form EXCEPT !.edited = TRUE]
  /\ UNCHANGED dialog

\* The accept button while a record is edited.
AcceptForm ==
  /\ dialog = "user" /\ form.mode \notin Browsing
  /\ \E o \in Outcomes(form), a \in Answers("inserting") : form' = AcceptEdition(form, o, a)
  /\ UNCHANGED dialog

\* The values are not valid; maybe because another record has them (setAnotherRecordID).
AcceptInvalid ==
  /\ dialog = "user" /\ form.mode \in {"inserting", "duplicating", "updating"}
  /\ \E id \in {0} \cup (form.stored \ {form.rec.id}) :
       form' = [form EXCEPT !.status = "not_saved", !.another = id]
  /\ UNCHANGED dialog

\* The accept button over the table: the record is chosen and the form closes.
Choose ==
  /\ dialog = "user" /\ form.mode = "choosing" /\ form.rows # <<>>
  /\ form' = [ReadIfNeeded(form) EXCEPT !.status = "saved"]
  /\ dialog' = "chosen"

\* Cancel, or the close button of the window: canClose.
CancelForm ==
  /\ dialog = "user"
  /\ IF form.mode \in Browsing THEN dialog' = "closed" /\ UNCHANGED form
     ELSE LET left == IF form.mode = "selecting" \/ form.status = "saved" THEN form
                      ELSE [form EXCEPT !.mustRead = TRUE, !.edited = FALSE, !.continuous = FALSE]
              back == IF form.another = 0 THEN left
                      ELSE [left EXCEPT !.lastID = form.another, !.mustRefresh = TRUE, !.another = 0]
          IN  form' = EnsureBrowseView(back) /\ UNCHANGED dialog

IsShared == (IF form.choosing THEN "choosing" ELSE "browsing") \in Shared

\* Another user or another form adds or removes a record ...
OtherWrites ==
  /\ IsShared /\ dialog \in {"user", "delete?"}
  /\ \/ \E id \in form.stored : form' = [form EXCEPT !.stored = @ \ {id}]
     \/ /\ form.issued < MaxRecordId
        /\ form' = [form EXCEPT !.issued = @ + 1, !.stored = @ \cup {form.issued + 1}]
  /\ UNCHANGED dialog

\* ... and a form that saved one refreshes this one (refreshRelatedForms).
OtherRefreshes ==
  /\ IsShared /\ dialog = "user"
  /\ form' = Refresh(form)
  /\ UNCHANGED dialog

StepForm == \/ MoveCursor \/ SelectRows \/ Menu \/ MenuDelete \/ NextSelected \/ AnswerDelete
            \/ TypeIn \/ AcceptForm \/ AcceptInvalid \/ Choose \/ CancelForm
            \/ OtherWrites \/ OtherRefreshes

NextForm == StepForm \/ (dialog \in {"closed", "chosen"} /\ UNCHANGED formVars)

SpecForm == InitForm /\ [][NextForm]_formVars

------------------------------------------------------------------------------
(* Properties                                                                *)

\* Types, and: an object is new when it has no id, the cursor is on a row when there is
\* one, and the edit tabs are enabled exactly when the form does not browse.
TypeOKForm ==
  /\ form.stored \subseteq RecordIds /\ form.issued \in 0..MaxRecordId
  /\ form.mode \in Browsing \cup {"inserting", "duplicating", "updating", "deleting", "selecting"}
  /\ form.status \in {"not_saved", "saved"}
  /\ form.rec.id \in 0..MaxRecordId /\ (form.rec.isNew <=> form.rec.id = 0)
  /\ form.cur \in 0..Len(form.rows) /\ (form.cur = 0 <=> form.rows = <<>>)
  /\ form.mode \in Browsing <=> form.browsing /\ ~form.tabs
  /\ dialog \in {"user", "delete?", "loop", "closed", "chosen"}

\* What is edited, looked at, deleted or chosen from the table is the record the cursor
\* is on, whatever was read, saved, deleted, refused or refreshed before; or it is empty
\* when another user has deleted that record.
RecordUnderCursor ==
  [][(AtTable /\ (dialog' = "chosen" \/ form'.mode \in {"updating", "selecting", "deleting"})) =>
        form'.rec.id = Cursor(form) \/ (form'.rec.isNew /\ Cursor(form) \notin form.stored)]_formVars

BackOnTheRecord ==
  (form.mode \notin Browsing /\ form'.mode \in Browsing /\ form'.lastID \in form'.stored \cap InView) =>
    Cursor(form') = form'.lastID

NeighbourAfterDelete ==
  (/\ form.mode = "deleting" /\ form'.mode \in Browsing /\ form.nrec = 0
   /\ form'.stored # form.stored /\ form.rows = Shown(form)) =>
     LET i    == CHOOSE n \in DOMAIN form.rows : form.rows[n] = form.rec.id
         next == IF i < Len(form.rows) THEN form.rows[i + 1] ELSE IF i > 1 THEN form.rows[i - 1] ELSE 0
     IN  Cursor(form') = next

\* When an edition ends and the table is shown again the cursor is on the record that was
\* saved, or on the one whose values it had, or where it was, if it is in the view; and a record
\* that is deleted leaves it on the one after it, or else on the one before, when nobody
\* else has changed the table since it was shown.
CursorAfterEdition == [][BackOnTheRecord /\ NeighbourAfterDelete]_formVars

===============================================================================
