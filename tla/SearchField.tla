------------------------------ MODULE SearchField ------------------------------
(***************************************************************************)
(* A reference field of an edit form (src/mod/dbapp: SearchBox, and what   *)
(* FrmEditRec and the generated forms do with it): a button, a LineEdit    *)
(* with the code of the record that is referred to, and the object that    *)
(* holds that record.  The user types part of a code, or presses the       *)
(* button to choose; the field is searched when it loses the focus; what   *)
(* is saved is the id of the object, and what the user sees is the code.   *)
(* The description beside the code is not editable (SearchBox::FlagNone)   *)
(* and the form edits in a main window that is not closing.  A text is a   *)
(* sequence of letters of one case.  Another dialog is modal: while it is  *)
(* open the form does nothing.                                             *)
(***************************************************************************)
EXTENDS Integers, Sequences, SequencesExt

CONSTANTS
  Targets,      \* ids of the table referred to: bounds the model
  Codes,        \* the codes that its records may have
  Name,         \* the description of each record
  Secondary,    \* the values of the fields of each record marked SECONDARYCODE
  Texts,        \* what the user may type
  FlagSets,     \* the SeekCodeFlags that the forms of the repository ask for
  Changing,     \* the records that others add, modify or remove meanwhile
  FirstTargets, \* the records of the table and their codes, when the form is opened
  MaxSaves      \* how often the form is saved: bounds the model

ASSUME SearchAssumption ==
  /\ Targets \subseteq Nat \ {0} /\ Changing \subseteq Targets /\ MaxSaves \in Nat
  /\ FirstTargets \in [Targets -> Codes \cup {<<>>}] /\ <<>> \notin Codes
  /\ \A S \in FlagSets : S \subseteq {"InsertIfNotFound", "SeekCodeInDesc"}

VARIABLES
  codeOf,   \* the table: the code of each record (<<>>: there is no such record)
  search,   \* the field: its text, its object, the flags of LineEdit and the focus
  modal     \* the dialog on top of the form if it edits, and where the focus goes after it

searchVars == <<codeOf, search, modal>>

\* "field" and "button" are of the SearchBox, "other" is another control.
Focuses == {"field", "button", "other", "pushAccept"}
Forms    == {"editing", "browsing", "choosing", "inserting"}
Editing  == [form |-> "editing", goesTo |-> "other"]
NoTarget == [id |-> 0, code |-> <<>>]
Target(t) == [id |-> t, code |-> codeOf[t]]
Existing == {t \in Targets : codeOf[t] # <<>>}

-------------------------------------------------------------------------------
(* The search: dbRecord::seekCode                                            *)

\* toSQLLike and toSQLStartLike.
Like(field, text)      == \E n \in 0..Len(field) : IsPrefix(text, SubSeq(field, n + 1, Len(field)))
StartLike(field, text) == IsPrefix(text, field)

\* The conditions that are tried one after the other for a code without description; the
\* fields that are secondary codes are joined with AND.
Wheres(text, flags) ==
  LET exact == {t \in Existing : codeOf[t] = text}
      like  == {t \in Existing : Like(codeOf[t], text)}
      desc  == {t \in Existing : Like(Name[t], text)}
      asked == IF flags = {} THEN {"SeekSecondaryCodes"} ELSE flags
  IN  (IF "SeekCodeInDesc" \in asked THEN <<exact, like \cup desc>>
       ELSE <<exact, {t \in Existing : StartLike(codeOf[t], text)}, like,
              {t \in Existing : Name[t] = text}, desc>>)
      \o (IF "SeekSecondaryCodes" \in asked
          THEN <<{t \in Existing : Secondary[t] # <<>>
                    /\ \A n \in DOMAIN Secondary[t] : Like(Secondary[t][n], text)}>>
          ELSE <<>>)

\* The rows of the first condition that has any.
Matches(text, flags) ==
  LET some == SelectSeq(Wheres(text, flags), LAMBDA rows : rows # {})
  IN  IF some = <<>> THEN {} ELSE Head(some)

-------------------------------------------------------------------------------
(* The field                                                                 *)

\* scatterX: the code of the object that holds the record.
Scatter(f) == [f EXCEPT !.text = f.rec.code, !.setAside = FALSE]

\* LineEdit::focusOutEvent when what was validated is valid.
Left(f, to) == [f EXCEPT !.justEdited = FALSE, !.focus = to]

Found(f, t, to) == Left(Scatter([f EXCEPT !.rec = Target(t)]), to)

\* The edition begins: the object of the reference gets the id of the field of the record,
\* and is read when it is asked for its code.
BeginField(f) ==
  Scatter([f EXCEPT !.rec = IF f.stored \in Existing THEN Target(f.stored) ELSE NoTarget,
                    !.justEdited = FALSE, !.focus = "other"])

\* LineEdit::keyPressEvent.
Type(text) ==
  /\ modal = Editing /\ search.focus = "field" /\ text # search.text
  /\ search' = [search EXCEPT !.text = text, !.justEdited = TRUE]
  /\ UNCHANGED <<codeOf, modal>>

Enter ==
  /\ modal = Editing /\ search.focus \notin {"field"}
  /\ search' = [search EXCEPT !.focus = "field"]
  /\ UNCHANGED <<codeOf, modal>>

\* A field that is left for its own button is not searched, and LineEdit takes it as valid.
LeaveForButton ==
  /\ modal = Editing /\ search.focus = "field"
  /\ search' = [Left(search, "button") EXCEPT !.setAside = @ \/ search.justEdited]
  /\ UNCHANGED <<codeOf, modal>>

\* Mutant: a field that is left for pushAccept is not searched, since accept validates.
Unsearched(f, to) == ~f.justEdited \/ to = "pushAccept"

\* validSeekCode: the field was not edited since it was last searched.
Searched(f, to) == ~f.justEdited

\* LineEdit::focusOutEvent -> validate -> validSeekCode -> dbApplication::seekCode.  The
\* focus goes to another control by the keyboard, the mouse, or F12 and the button Grabar
\* (FrmBase gives pushAccept the focus before it accepts).
LeaveField(to) ==
  /\ modal = Editing /\ search.focus = "field"
  /\ LET rows == Matches(search.text, search.flags)
     IN  IF Searched(search, to)
         THEN search' = Left(search, to) /\ UNCHANGED modal
         ELSE IF search.text = <<>>
         THEN search' = Left(Scatter([search EXCEPT !.rec = NoTarget]), to) /\ UNCHANGED modal
         ELSE IF \E t \in Existing : rows = {t}
         THEN (\E t \in Existing : rows = {t} /\ search' = Found(search, t, to)) /\ UNCHANGED modal
         ELSE IF rows = {} /\ "InsertIfNotFound" \in search.flags
         THEN search' = [search EXCEPT !.rec = NoTarget] /\ modal' = [form |-> "inserting", goesTo |-> to]
         ELSE UNCHANGED search /\ modal' = [form |-> "choosing", goesTo |-> to]
  /\ UNCHANGED codeOf

\* The form of InsertIfNotFound: it saves a record, which is the one the field refers to,
\* or it is cancelled, and LineEdit takes the focus back.
InsertedOrNot ==
  /\ modal.form = "inserting" /\ modal' = Editing
  /\ \/ \E t \in Targets \ Existing, c \in Codes :
          /\ codeOf' = [codeOf EXCEPT ![t] = c]
          /\ search' = Left(Scatter([search EXCEPT !.rec = [id |-> t, code |-> c]]), modal.goesTo)
     \/ UNCHANGED <<codeOf, search>>

-------------------------------------------------------------------------------
(* The button, and the keys F, M, E and A with Control in the field          *)

\* What is typed will not be searched any more.
PutAside(f) == [f EXCEPT !.justEdited = FALSE, !.setAside = @ \/ f.justEdited]

\* pushX_clicked, action F: the form to choose works on the object of the field.
PushToChoose ==
  /\ modal = Editing /\ search.focus \in {"field", "button"}
  /\ search' = PutAside(search) /\ modal' = [form |-> "choosing", goesTo |-> "field"]
  /\ UNCHANGED codeOf

\* Action M: the record of the field is modified, or the form for it is cancelled.  What
\* is typed is put aside.
PushToModify ==
  /\ modal = Editing /\ search.focus = "field" /\ search.rec.id \in Existing
  /\ \/ \E c \in Codes :
          /\ codeOf' = [codeOf EXCEPT ![search.rec.id] = c]
          /\ search' = [Scatter([search EXCEPT !.rec.code = c]) EXCEPT !.justEdited = TRUE]
     \/ search' = PutAside(search) /\ UNCHANGED codeOf
  /\ UNCHANGED modal

\* Action A: the record that is added is copied to the object of the field.
PushToAdd ==
  /\ modal = Editing /\ search.focus = "field"
  /\ \/ \E t \in Targets \ Existing, c \in Codes :
          /\ codeOf' = [codeOf EXCEPT ![t] = c]
          /\ search' = [Scatter([search EXCEPT !.rec = [id |-> t, code |-> c]]) EXCEPT !.justEdited = TRUE]
     \/ search' = PutAside(search) /\ UNCHANGED codeOf
  /\ UNCHANGED modal

-------------------------------------------------------------------------------
(* The form to choose: EditForm says which record is under its cursor; here   *)
(* what FrmEditRec::read, save and remove do to the object of the field.     *)

\* Every record that is read is copied to the object that the form was given.
ChooserReads(t) ==
  /\ modal.form = "choosing" /\ t \in Existing
  /\ search' = [search EXCEPT !.rec = Target(t), !.setAside = TRUE]
  /\ UNCHANGED <<codeOf, modal>>

\* So is every record that is inserted, modified or removed.
ChooserSaves(t, c) ==
  /\ modal.form = "choosing"
  /\ codeOf' = [codeOf EXCEPT ![t] = c]
  /\ search' = [search EXCEPT !.rec = [id |-> t, code |-> c], !.setAside = TRUE]
  /\ UNCHANGED modal

ChooserRemoves(t) ==
  /\ modal.form = "choosing" /\ t \in Existing
  /\ codeOf' = [codeOf EXCEPT ![t] = <<>>]
  /\ search' = [search EXCEPT !.rec = Target(t), !.setAside = TRUE]
  /\ UNCHANGED modal

\* After a search the focus goes on to where it went; after the button it goes back to the
\* field, which is to be searched again.
Chosen(t) ==
  /\ modal.form = "choosing" /\ t \in Existing /\ modal' = Editing
  /\ search' = [Found(search, t, modal.goesTo) EXCEPT !.justEdited = modal.goesTo = "field"]
  /\ UNCHANGED codeOf

\* A search that ends without a record is not valid: LineEdit keeps the focus, and the text
\* stays as it was typed.
NotChosen ==
  /\ modal.form = "choosing" /\ modal' = Editing
  /\ UNCHANGED <<codeOf, search>>

-------------------------------------------------------------------------------
(* The form                                                                  *)

\* FrmEditRec::accept: gather takes the id of the object.  The field is not searched any
\* more: it was, when pushAccept took the focus.
AcceptReference ==
  /\ modal = Editing /\ search.focus = "pushAccept" /\ search.saves < MaxSaves
  /\ search' = [search EXCEPT !.stored = search.rec.id, !.saves = @ + 1]
  /\ modal' = [form |-> "browsing", goesTo |-> "other"]
  /\ UNCHANGED codeOf

\* The user cancels the edition: nothing is saved.
CancelEdition ==
  /\ modal = Editing /\ modal' = [form |-> "browsing", goesTo |-> "other"]
  /\ UNCHANGED <<codeOf, search>>

BeginEdition ==
  /\ modal.form = "browsing"
  /\ search' = BeginField(search) /\ modal' = Editing
  /\ UNCHANGED codeOf

\* Another client gives a record another code, adds one or removes one.
SomeoneElse(t, c) ==
  /\ modal.form \in {"editing", "choosing"} /\ codeOf[t] # c
  /\ codeOf' = [codeOf EXCEPT ![t] = c]
  /\ UNCHANGED <<search, modal>>

NewField(flags) ==
  [text |-> <<>>, rec |-> NoTarget, justEdited |-> FALSE, focus |-> "other",
   flags |-> flags, stored |-> 0, saves |-> 0, setAside |-> FALSE]

InitSearch ==
  /\ codeOf = FirstTargets
  /\ \E S \in FlagSets : search = NewField(S)
  /\ modal = Editing

NextSearch ==
  \/ \E text \in Texts : Type(text)
  \/ Enter \/ LeaveForButton \/ \E to \in {"other", "pushAccept"} : LeaveField(to)
  \/ InsertedOrNot \/ PushToChoose \/ PushToModify \/ PushToAdd \/ NotChosen
  \/ \E t \in Targets : \/ ChooserReads(t) \/ ChooserRemoves(t)
  \/ \E t \in Targets : Chosen(t)
  \/ \E t \in Targets, c \in Codes : ChooserSaves(t, c)
  \/ AcceptReference \/ CancelEdition \/ BeginEdition
  \/ \E t \in Changing, c \in Codes \cup {<<>>} : SomeoneElse(t, c)

SpecSearch == InitSearch /\ [][NextSearch]_searchVars

-------------------------------------------------------------------------------
(* Properties                                                                *)

\* The type of the field, its form and the table.
TypeOKSearch ==
  /\ codeOf \in [Targets -> Codes \cup {<<>>}]
  /\ search \in [text : Codes \cup {<<>>} \cup Texts,
                  rec : [id : Targets \cup {0}, code : Codes \cup {<<>>}],
                  justEdited : BOOLEAN, focus : Focuses, flags : FlagSets,
                  stored : Targets \cup {0}, saves : 0..MaxSaves, setAside : BOOLEAN]
  /\ modal \in [form : Forms, goesTo : Focuses]

\* What is saved is the record whose code is in the field, as it was read, or no record if
\* the field is empty: whatever was typed, searched, chosen, added or modified, with
\* whatever others do to the table meanwhile; and no field is still to be searched, since gather
\* comes before validate(NULL).  Left out is what the code does not keep:
\* what is typed and put aside by the button or one of its keys, and what the form to
\* choose reads, saves or removes before it is cancelled (search.setAside).
SavedAsShown ==
  [][search'.saves # search.saves
       => /\ ~search.justEdited
          /\ search.setAside \/ (search.rec.id = search'.stored /\ search.text = search.rec.code)]_searchVars
===============================================================================
