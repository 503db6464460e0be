------------------------------ MODULE FormsAndReports_proofs ------------------------------
(***************************************************************************)
(* Of the forms: that a field that refers to another record saves what it  *)
(* shows (SearchField), and that a button of a table works on the record   *)
(* under the cursor and the cursor is where it should be when an edition   *)
(* ends (EditForm).  Of the reports: that each footer has the totals of    *)
(* its group (Report).                                                     *)
(*                                                                         *)
(* The first is for every table, every code and text, every set of flags   *)
(* and any number of editions.  The property is of one step                *)
(* (AcceptReference), and what it needs to know of the state before is     *)
(* what the focus says of the field (LeftIsSearched) and what the field    *)
(* says of its object (ShowsItsRecord); neither is inductive without the   *)
(* other, nor without where a dialog will leave the focus (ReturnsOk).     *)
(*                                                                         *)
(* The second is for any number of records and any filter.  What a step    *)
(* needs is that the rows of a table that rests are the records of the     *)
(* filter, in order, and that its cursor is one of them.                   *)
(*                                                                         *)
(* The third rests on the second, and on which record the form looks for   *)
(* when it fills its table again (mLastID): the cursor is on that one, or  *)
(* that one is not in the table and the cursor is on the last row, unless  *)
(* the table is still to be filled (AtLast, Place).                        *)
(*                                                                         *)
(* The fourth is for every report and every input.  A footer is printed    *)
(* when the record after its group was read and added, so what is          *)
(* inductive says what both copies of the aggregates are in each phase of  *)
(* printGroup: those up to a record, with it and without it, and which of  *)
(* the two is swapped in (Aggregates); which record the values are of      *)
(* (Position); and that one section is left at most that may take the      *)
(* record out (PendingOnce).                                               *)
(***************************************************************************)
EXTENDS SearchField, EditForm, Report, Sumas_proofs, TLAPS

-------------------------------------------------------------------------------
(* SearchField.                                                              *)

Field == [text : Codes \cup {<<>>} \cup Texts,
          rec : [id : Targets \cup {0}, code : Codes \cup {<<>>}],
          justEdited : BOOLEAN, focus : Focuses, flags : FlagSets,
          stored : Targets \cup {0}, saves : 0..MaxSaves, setAside : BOOLEAN]

\* A field that has not the focus is not waiting to be searched.
LeftIsSearched == search.focus # "field" => ~search.justEdited

\* A field that is not waiting to be searched shows the code of its object, but for what
\* was put aside.
ShowsItsRecord == search.justEdited \/ search.setAside \/ search.text = search.rec.code

\* While a form to insert is open the field waits to be searched.
ReturnsOk == modal.form = "inserting" => search.justEdited /\ search.focus = "field"

IInv == TypeOKSearch /\ LeftIsSearched /\ ShowsItsRecord /\ ReturnsOk

-------------------------------------------------------------------------------
(* The operators on the field.                                               *)

\* A record that exists has an id and a code of the table.
LEMMA TargetType ==
  ASSUME codeOf \in [Targets -> Codes \cup {<<>>}], NEW t \in Targets
  PROVE  Target(t) \in [id : Targets \cup {0}, code : Codes \cup {<<>>}]
  BY DEF Target

\* An empty object too.
LEMMA NoTargetType == NoTarget \in [id : Targets \cup {0}, code : Codes \cup {<<>>}]
  BY DEF NoTarget

\* Filling the field keeps its type, and makes it show its object.
LEMMA ScatterShows ==
  ASSUME NEW f \in Field
  PROVE  /\ Scatter(f) \in Field
         /\ Scatter(f).text = Scatter(f).rec.code
         /\ Scatter(f).justEdited = f.justEdited /\ Scatter(f).focus = f.focus
         /\ Scatter(f).rec = f.rec /\ Scatter(f).saves = f.saves
  BY DEF Scatter, Field

\* Leaving the field changes nothing but the focus and justEdited.
LEMMA LeftType ==
  ASSUME NEW f \in Field, NEW to \in Focuses
  PROVE  /\ Left(f, to) \in Field
         /\ ~Left(f, to).justEdited /\ Left(f, to).focus = to
         /\ Left(f, to).text = f.text /\ Left(f, to).rec = f.rec
         /\ Left(f, to).setAside = f.setAside /\ Left(f, to).saves = f.saves
  BY DEF Left, Field

\* Another record in the object of the field.
LEMMA RecType ==
  ASSUME NEW f \in Field, NEW tgt \in [id : Targets \cup {0}, code : Codes \cup {<<>>}]
  PROVE  /\ [f EXCEPT !.rec = tgt] \in Field
         /\ [f EXCEPT !.rec = tgt].rec = tgt
         /\ [f EXCEPT !.rec = tgt].justEdited = f.justEdited
         /\ [f EXCEPT !.rec = tgt].focus = f.focus
         /\ [f EXCEPT !.rec = tgt].saves = f.saves
  BY DEF Field

\* What is found is shown.
LEMMA FoundShows ==
  ASSUME codeOf \in [Targets -> Codes \cup {<<>>}], NEW f \in Field, NEW t \in Targets, NEW to \in Focuses
  PROVE  /\ Found(f, t, to) \in Field
         /\ Found(f, t, to).text = Found(f, t, to).rec.code
         /\ ~Found(f, t, to).justEdited /\ Found(f, t, to).focus = to
         /\ Found(f, t, to).saves = f.saves
  <1> DEFINE g == [f EXCEPT !.rec = Target(t)]
  <1>1. g \in Field /\ g.saves = f.saves  BY TargetType, RecType
  <1>2. /\ Scatter(g) \in Field /\ Scatter(g).text = Scatter(g).rec.code
        /\ Scatter(g).saves = f.saves
    BY <1>1, ScatterShows
  <1> HIDE DEF g
  <1> QED  BY <1>2, LeftType DEF Found, g

\* What is put aside is not searched.
LEMMA PutAsideType ==
  ASSUME NEW f \in Field
  PROVE  /\ PutAside(f) \in Field
         /\ ~PutAside(f).justEdited /\ PutAside(f).focus = f.focus
         /\ PutAside(f).text = f.text /\ PutAside(f).rec = f.rec
         /\ PutAside(f).setAside = (f.setAside \/ f.justEdited) /\ PutAside(f).saves = f.saves
  BY DEF PutAside, Field

\* The field when an edition begins.
LEMMA BeginShows ==
  ASSUME codeOf \in [Targets -> Codes \cup {<<>>}], NEW f \in Field
  PROVE  /\ BeginField(f) \in Field /\ BeginField(f).text = BeginField(f).rec.code
         /\ ~BeginField(f).justEdited /\ BeginField(f).saves = f.saves
  <1> DEFINE tgt == IF f.stored \in Existing THEN Target(f.stored) ELSE NoTarget
             g == [f EXCEPT !.rec = tgt, !.justEdited = FALSE, !.focus = "other"]
  <1>1. tgt \in [id : Targets \cup {0}, code : Codes \cup {<<>>}]
    <2>1. CASE f.stored \in Existing  BY <2>1, TargetType DEF Existing
    <2>2. CASE f.stored \notin Existing  BY <2>2, NoTargetType
    <2> QED  BY <2>1, <2>2
  <1> HIDE DEF tgt
  <1>2. g \in Field /\ ~g.justEdited /\ g.saves = f.saves  BY <1>1 DEF Field, Focuses
  <1> HIDE DEF g
  <1> QED  BY <1>2, ScatterShows DEF BeginField, g, tgt

-------------------------------------------------------------------------------
(* The invariant.                                                            *)

\* TypeOKSearch, with the name of the set of fields.
LEMMA TypeIsField ==
  TypeOKSearch <=> /\ codeOf \in [Targets -> Codes \cup {<<>>}]
                   /\ search \in Field
                   /\ modal \in [form : Forms, goesTo : Focuses]
  BY DEF TypeOKSearch, Field

\* A form just opened.
LEMMA InitIInv == InitSearch => IInv
  <1> SUFFICES ASSUME InitSearch PROVE IInv  OBVIOUS
  <1>1. PICK S \in FlagSets : search = NewField(S)  BY DEF InitSearch
  <1>2. search \in Field /\ ~search.justEdited /\ search.text = search.rec.code /\ search.focus = "other"
    BY <1>1, SearchAssumption DEF NewField, NoTarget, Field, Focuses
  <1>3. codeOf \in [Targets -> Codes \cup {<<>>}]  BY SearchAssumption DEF InitSearch
  <1>4. modal \in [form : Forms, goesTo : Focuses] /\ modal.form = "editing"
    BY DEF InitSearch, Editing, Forms, Focuses
  <1> QED  BY <1>2, <1>3, <1>4, TypeIsField DEF IInv, LeftIsSearched, ShowsItsRecord, ReturnsOk

\* A step that leaves a field that shows its object, and no form to insert.
LEMMA ShownIInv ==
  ASSUME codeOf' \in [Targets -> Codes \cup {<<>>}], search' \in Field,
         modal' \in [form : Forms, goesTo : Focuses], modal'.form # "inserting",
         search'.focus # "field" => ~search'.justEdited,
         search'.justEdited \/ search'.setAside \/ search'.text = search'.rec.code
  PROVE  IInv'
  BY DEF IInv, LeftIsSearched, ShowsItsRecord, ReturnsOk, TypeOKSearch, Field

\* Every step keeps the invariant, and saves what is shown.
LEMMA StepIInv ==
  ASSUME IInv, NextSearch
  PROVE  IInv' /\ (search'.saves # search.saves =>
                     /\ ~search.justEdited
                     /\ search.setAside \/ (search.rec.id = search'.stored /\ search.text = search.rec.code))
  <1> DEFINE SavedNow == search'.saves # search.saves =>
                        /\ ~search.justEdited
                        /\ search.setAside \/ (search.rec.id = search'.stored /\ search.text = search.rec.code)
  <1> USE DEF Forms, Focuses
  <1>t. /\ codeOf \in [Targets -> Codes \cup {<<>>}] /\ search \in Field
        /\ modal \in [form : Forms, goesTo : Focuses]
    BY TypeIsField DEF IInv
  <1>i. LeftIsSearched /\ ShowsItsRecord /\ ReturnsOk  BY DEF IInv
  <1>e. Editing \in [form : Forms, goesTo : Focuses] /\ Editing.form = "editing"  BY DEF Editing
  <1>r. search.rec \in [id : Targets \cup {0}, code : Codes \cup {<<>>}]  BY <1>t DEF Field
  <1>1. ASSUME NEW text \in Texts, Type(text) PROVE IInv' /\ SavedNow
    <2>1. search' \in Field /\ search'.justEdited /\ search'.focus = "field" /\ search'.saves = search.saves
      BY <1>1, <1>t DEF Type, Field
    <2> QED  BY <2>1, <1>1, <1>t, <1>e, ShownIInv DEF Type
  <1>2. CASE Enter
    <2>1. /\ search' \in Field /\ search'.focus = "field" /\ search'.saves = search.saves
          /\ search'.text = search.text /\ search'.rec = search.rec
          /\ search'.justEdited = search.justEdited /\ search'.setAside = search.setAside
      BY <1>2, <1>t DEF Enter, Field
    <2> QED  BY <2>1, <1>2, <1>t, <1>i, <1>e, ShownIInv DEF Enter, ShowsItsRecord
  <1>3. CASE LeaveForButton
    <2>1. /\ Left(search, "button") \in Field /\ ~Left(search, "button").justEdited
          /\ Left(search, "button").text = search.text /\ Left(search, "button").rec = search.rec
          /\ Left(search, "button").setAside = search.setAside /\ Left(search, "button").saves = search.saves
      BY <1>t, LeftType
    <2>2. /\ search' \in Field /\ ~search'.justEdited /\ search'.saves = search.saves
          /\ search'.text = search.text /\ search'.rec = search.rec
          /\ search'.setAside = (search.setAside \/ search.justEdited)
      BY <1>3, <2>1, <1>t DEF LeaveForButton, Field
    <2> QED  BY <2>2, <1>3, <1>t, <1>i, <1>e, ShownIInv DEF LeaveForButton, ShowsItsRecord
  <1>4. ASSUME NEW to \in {"other", "pushAccept"}, LeaveField(to) PROVE IInv' /\ SavedNow
    <2> DEFINE rows == Matches(search.text, search.flags)
    <2>0. codeOf' = codeOf /\ modal = Editing /\ search.focus = "field"  BY <1>4 DEF LeaveField
    <2>1. CASE Searched(search, to) /\ search' = Left(search, to) /\ UNCHANGED modal
      BY <2>0, <2>1, <1>t, <1>i, <1>e, LeftType, ShownIInv DEF Searched, ShowsItsRecord
    <2>2. CASE search' = Left(Scatter([search EXCEPT !.rec = NoTarget]), to) /\ UNCHANGED modal
      <3> DEFINE g == [search EXCEPT !.rec = NoTarget]
      <3>1. g \in Field /\ g.saves = search.saves  BY <1>t, NoTargetType, RecType
      <3> HIDE DEF g
      <3>2. /\ Scatter(g) \in Field /\ Scatter(g).text = Scatter(g).rec.code
            /\ Scatter(g).saves = search.saves
        BY <3>1, ScatterShows
      <3>3. /\ search' \in Field /\ ~search'.justEdited /\ search'.text = search'.rec.code
            /\ search'.saves = search.saves
        BY <2>2, <3>2, LeftType DEF g
      <3> QED  BY <2>0, <2>2, <3>3, <1>t, <1>e, ShownIInv
    <2>3. CASE (\E t \in Existing : search' = Found(search, t, to)) /\ UNCHANGED modal
      <3>1. PICK t \in Targets : search' = Found(search, t, to)  BY <2>3 DEF Existing
      <3>2. /\ search' \in Field /\ search'.text = search'.rec.code /\ ~search'.justEdited
            /\ search'.saves = search.saves
        <4> to \in Focuses  OBVIOUS
        <4> HIDE DEF Focuses
        <4> QED  BY <3>1, <1>t, FoundShows
      <3> QED  BY <2>0, <2>3, <3>2, <1>t, <1>e, ShownIInv
    <2>4. CASE /\ ~Searched(search, to)
               /\ search' = [search EXCEPT !.rec = NoTarget] /\ modal' = [form |-> "inserting", goesTo |-> to]
      <3>1. /\ search' \in Field /\ search'.focus = "field" /\ search'.justEdited /\ search'.saves = search.saves
        BY <2>0, <2>4, <1>t, NoTargetType, RecType DEF Searched, Field
      <3> QED  BY <2>0, <2>4, <3>1, <1>t
               DEF IInv, TypeOKSearch, Field, LeftIsSearched, ShowsItsRecord, ReturnsOk
    <2>5. CASE UNCHANGED search /\ modal' = [form |-> "choosing", goesTo |-> to]
      BY <2>0, <2>5, <1>t, <1>i, ShownIInv DEF ShowsItsRecord
    <2> QED  BY <1>4, <2>1, <2>2, <2>3, <2>4, <2>5 DEF LeaveField
  <1>5. CASE InsertedOrNot
    <2>0. modal.form = "inserting" /\ modal' = Editing /\ search.justEdited /\ search.focus = "field"
      BY <1>5, <1>i DEF InsertedOrNot, ReturnsOk
    <2>1. ASSUME NEW t \in Targets, NEW c \in Codes, codeOf' = [codeOf EXCEPT ![t] = c],
                 search' = Left(Scatter([search EXCEPT !.rec = [id |-> t, code |-> c]]), modal.goesTo)
          PROVE  IInv' /\ SavedNow
      <3> DEFINE g == [search EXCEPT !.rec = [id |-> t, code |-> c]]
      <3>1. g \in Field /\ g.saves = search.saves  BY <1>t, RecType
      <3> HIDE DEF g
      <3>2. Scatter(g) \in Field /\ Scatter(g).text = Scatter(g).rec.code /\ Scatter(g).saves = search.saves
        BY <3>1, ScatterShows
      <3>3. /\ search' \in Field /\ ~search'.justEdited /\ search'.text = search'.rec.code
            /\ search'.saves = search.saves
        BY <2>1, <3>2, <1>t, LeftType DEF g
      <3> QED  BY <2>0, <2>1, <3>3, <1>t, <1>e, ShownIInv
    <2>2. CASE UNCHANGED <<codeOf, search>>
      BY <2>0, <2>2, <1>t, <1>e, ShownIInv
    <2> QED  BY <1>5, <2>1, <2>2 DEF InsertedOrNot
  <1>p. /\ PutAside(search) \in Field /\ ~PutAside(search).justEdited /\ PutAside(search).saves = search.saves
        /\ PutAside(search).setAside \/ PutAside(search).text = PutAside(search).rec.code
    BY <1>t, <1>i, PutAsideType DEF ShowsItsRecord
  <1>6. CASE PushToChoose
    BY <1>6, <1>p, <1>t, ShownIInv DEF PushToChoose
  <1>s. ASSUME NEW g \in Field, NEW x \in [id : Targets \cup {0}, code : Codes \cup {<<>>}],
               g.focus = "field",
               search' = [Scatter([g EXCEPT !.rec = x]) EXCEPT !.justEdited = TRUE]
        PROVE  search' \in Field /\ search'.focus = "field" /\ search'.justEdited /\ search'.saves = g.saves
    <2> DEFINE h == [g EXCEPT !.rec = x]
    <2>1. h \in Field /\ h.focus = "field" /\ h.saves = g.saves  BY <1>s, RecType
    <2> HIDE DEF h
    <2>2. Scatter(h) \in Field /\ Scatter(h).focus = "field" /\ Scatter(h).saves = g.saves
      BY <2>1, ScatterShows
    <2> QED  BY <2>2, <1>s DEF h, Field
  <1>7. CASE PushToModify
    <2>0. modal = Editing /\ UNCHANGED modal /\ search.focus = "field" /\ search.rec.id \in Targets
      BY <1>7 DEF PushToModify, Existing
    <2>1. ASSUME NEW c \in Codes, codeOf' = [codeOf EXCEPT ![search.rec.id] = c],
                 search' = [Scatter([search EXCEPT !.rec.code = c]) EXCEPT !.justEdited = TRUE]
          PROVE  IInv' /\ SavedNow
      <3>1. [search EXCEPT !.rec.code = c] = [search EXCEPT !.rec = [search.rec EXCEPT !.code = c]]
        BY <1>t, <1>r DEF Field
      <3>2. [search.rec EXCEPT !.code = c] \in [id : Targets \cup {0}, code : Codes \cup {<<>>}]
        BY <1>r
      <3> QED  BY <2>0, <2>1, <3>1, <3>2, <1>s, <1>t, <1>e, ShownIInv
    <2>2. CASE search' = PutAside(search) /\ UNCHANGED codeOf
      BY <2>0, <2>2, <1>p, <1>t, <1>e, ShownIInv
    <2> QED  BY <1>7, <2>1, <2>2 DEF PushToModify
  <1>8. CASE PushToAdd
    <2>0. modal = Editing /\ UNCHANGED modal /\ search.focus = "field"  BY <1>8 DEF PushToAdd
    <2>1. ASSUME NEW t \in Targets, NEW c \in Codes, codeOf' = [codeOf EXCEPT ![t] = c],
                 search' = [Scatter([search EXCEPT !.rec = [id |-> t, code |-> c]]) EXCEPT !.justEdited = TRUE]
          PROVE  IInv' /\ SavedNow
      <3>1. [id |-> t, code |-> c] \in [id : Targets \cup {0}, code : Codes \cup {<<>>}]  OBVIOUS
      <3> QED  BY <2>0, <2>1, <3>1, <1>s, <1>t, <1>e, ShownIInv
    <2>2. CASE search' = PutAside(search) /\ UNCHANGED codeOf
      BY <2>0, <2>2, <1>p, <1>t, <1>e, ShownIInv
    <2> QED  BY <1>8, <2>1, <2>2 DEF PushToAdd
  <1>9. CASE NotChosen
    BY <1>9, <1>t, <1>i, <1>e, ShownIInv DEF NotChosen, LeftIsSearched, ShowsItsRecord
  <1>c. ASSUME NEW x \in [id : Targets \cup {0}, code : Codes \cup {<<>>}], modal.form = "choosing",
               search' = [search EXCEPT !.rec = x, !.setAside = TRUE], UNCHANGED modal,
               codeOf' \in [Targets -> Codes \cup {<<>>}]
        PROVE  IInv' /\ SavedNow
    <2>1. /\ search' \in Field /\ search'.setAside /\ search'.saves = search.saves
          /\ search'.focus = search.focus /\ search'.justEdited = search.justEdited
      BY <1>c, <1>t DEF Field
    <2> QED  BY <2>1, <1>c, <1>t, <1>i, ShownIInv DEF LeftIsSearched
  <1>10. ASSUME NEW t \in Targets, ChooserReads(t) PROVE IInv' /\ SavedNow
    BY <1>10, <1>c, <1>t, TargetType DEF ChooserReads
  <1>11. ASSUME NEW t \in Targets, ChooserRemoves(t) PROVE IInv' /\ SavedNow
    BY <1>11, <1>c, <1>t, TargetType DEF ChooserRemoves
  <1>12. ASSUME NEW t \in Targets, NEW c \in Codes, ChooserSaves(t, c) PROVE IInv' /\ SavedNow
    BY <1>12, <1>c, <1>t DEF ChooserSaves
  <1>13. ASSUME NEW t \in Targets, Chosen(t) PROVE IInv' /\ SavedNow
    <2>0. modal.form = "choosing" /\ modal' = Editing /\ codeOf' = codeOf /\ modal.goesTo \in Focuses
      BY <1>13, <1>t DEF Chosen
    <2>1. /\ Found(search, t, modal.goesTo) \in Field
          /\ Found(search, t, modal.goesTo).text = Found(search, t, modal.goesTo).rec.code
          /\ Found(search, t, modal.goesTo).focus = modal.goesTo
          /\ Found(search, t, modal.goesTo).saves = search.saves
      BY <2>0, <1>t, FoundShows
    <2>2. /\ search' \in Field /\ search'.text = search'.rec.code /\ search'.saves = search.saves
          /\ search'.focus = modal.goesTo /\ search'.justEdited = (modal.goesTo = "field")
      BY <1>13, <2>1 DEF Chosen, Field
    <2> QED  BY <2>0, <2>2, <1>t, <1>e, ShownIInv
  <1>14. CASE AcceptReference
    <2>1. /\ ~search.justEdited /\ (search.setAside \/ search.text = search.rec.code)
      BY <1>14, <1>i DEF AcceptReference, LeftIsSearched, ShowsItsRecord
    <2>n. search.saves + 1 \in 0..MaxSaves  BY <1>14, <1>t, SearchAssumption DEF AcceptReference, Field
    <2>r. search.rec.id \in Targets \cup {0}  BY <1>r
    <2>2. /\ search' \in Field /\ search'.stored = search.rec.id /\ ~search'.justEdited
          /\ search'.text = search.text /\ search'.rec = search.rec /\ search'.setAside = search.setAside
      <3> DEFINE n == search.saves + 1
                 id == search.rec.id
      <3>1. search' = [search EXCEPT !.stored = id, !.saves = n]  BY <1>14 DEF AcceptReference
      <3>2. n \in 0..MaxSaves /\ id \in Targets \cup {0}  BY <2>n, <2>r
      <3> HIDE DEF n
      <3> QED  BY <3>1, <3>2, <1>t, <2>1 DEF Field
    <2>3. modal' \in [form : Forms, goesTo : Focuses] /\ modal'.form = "browsing"  BY <1>14 DEF AcceptReference
    <2> QED  BY <2>1, <2>2, <2>3, <1>14, <1>t, ShownIInv DEF AcceptReference
  <1>15. CASE CancelEdition
    BY <1>15, <1>t, <1>i, ShownIInv DEF CancelEdition, LeftIsSearched, ShowsItsRecord
  <1>16. CASE BeginEdition
    BY <1>16, <1>t, <1>e, BeginShows, ShownIInv DEF BeginEdition
  <1>17. ASSUME NEW t \in Changing, NEW c \in Codes \cup {<<>>}, SomeoneElse(t, c) PROVE IInv' /\ SavedNow
    <2>1. codeOf' \in [Targets -> Codes \cup {<<>>}]  BY <1>17, <1>t DEF SomeoneElse
    <2> QED  BY <2>1, <1>17, <1>t, <1>i, ShownIInv DEF SomeoneElse, LeftIsSearched, ShowsItsRecord
  <1> QED
    BY <1>1, <1>2, <1>3, <1>4, <1>5, <1>6, <1>7, <1>8, <1>9, <1>10, <1>11, <1>12, <1>13, <1>14, <1>15,
       <1>16, <1>17 DEF NextSearch

\* A step that changes nothing keeps it too.
LEMMA StutterIInv == IInv /\ UNCHANGED searchVars => IInv'
  BY DEF IInv, searchVars, TypeOKSearch, LeftIsSearched, ShowsItsRecord, ReturnsOk, Existing

-------------------------------------------------------------------------------
(* The theorems.                                                             *)

\* Every reachable state satisfies the invariant.
THEOREM Invariance == SpecSearch => []IInv
  <1>1. IInv /\ [NextSearch]_searchVars => IInv'  BY StepIInv, StutterIInv
  <1> QED  BY InitIInv, <1>1, PTL DEF SpecSearch

\* The field, its form and the table keep their types.
THEOREM TypeCorrect == SpecSearch => []TypeOKSearch
  <1>1. IInv => TypeOKSearch  BY DEF IInv
  <1> QED  BY Invariance, <1>1, PTL

\* Whatever the user types, searches, chooses, adds or modifies, and whatever others do: a
\* form saves the record whose code it shows, unless something was put aside.
THEOREM SavesWhatItShows == SpecSearch => SavedAsShown
  <1>1. IInv /\ [NextSearch]_searchVars
        => [search'.saves # search.saves
             => /\ ~search.justEdited
                /\ search.setAside \/ (search.rec.id = search'.stored /\ search.text = search.rec.code)]_searchVars
    BY StepIInv
  <1> QED  BY Invariance, <1>1, PTL DEF SpecSearch, SavedAsShown

-------------------------------------------------------------------------------
(* EditForm.                                                                 *)

(* The rows of the table.                                                    *)

\* The rows of the table are records.
LEMMA SortedRange ==
  ASSUME NEW n \in Nat, NEW S \in SUBSET (1..n)
  PROVE  \A k \in DOMAIN Sorted(S) : Sorted(S)[k] \in S
  <1>0. IsFiniteSet(1..n)  BY FS_Interval
  <1>1. IsFiniteSet(S)  BY <1>0, FS_Subset
  <1>4. S \in SUBSET Nat  OBVIOUS
  <1>2. \E s : Ordered(s, S)  BY <1>1, <1>4, SortedExists
  <1>3. Ordered(Sorted(S), S)  BY <1>2 DEF Ordered, Sorted
  <1> QED  BY <1>3 DEF Ordered

-------------------------------------------------------------------------------
(* What the parts of the form do to the fields that matter here.             *)

Fields == {"stored", "issued", "another", "mode", "status", "browsing", "choosing", "wasBrowsing",
           "tabs", "continuous", "multiple", "edited", "mustRead", "mustRefresh", "lastID", "rows",
           "cur", "selected", "rec", "nrec"}

\* A form, whose ids are some of those that were issued.
Ids(x) == /\ DOMAIN x = Fields /\ x.issued \in Nat /\ x.stored \subseteq 1..x.issued
          /\ \A n \in DOMAIN x.rows : x.rows[n] \in 1..x.issued

\* The record object has the row the cursor is on.
Good(x) == x.rec.id = Cursor(x) \/ (x.rec.isNew /\ Cursor(x) \notin x.stored)

\* ... or will have it before it is used.
Held(x) == x.mustRead \/ x.rows = <<>> \/ Good(x)

SameTable(x, y) == y.stored = x.stored /\ y.issued = x.issued /\ y.rows = x.rows /\ y.cur = x.cur

SameUse(x, y) == y.choosing = x.choosing /\ y.wasBrowsing = x.wasBrowsing /\ y.nrec = x.nrec

\* Reading the row of the cursor leaves the object as it.
LEMMA ReadEffect ==
  ASSUME NEW x, Ids(x)
  PROVE  LET y == Read(x, Cursor(x))
         IN  /\ Ids(y) /\ SameTable(x, y) /\ SameUse(x, y) /\ Good(y)
             /\ y.mode = x.mode /\ y.status = x.status /\ y.browsing = x.browsing
             /\ y.mustRefresh = x.mustRefresh
  <1> DEFINE y == Read(x, Cursor(x))
  <1>1. /\ DOMAIN y = Fields /\ SameTable(x, y) /\ SameUse(x, y)
        /\ y.mode = x.mode /\ y.status = x.status /\ y.browsing = x.browsing
        /\ y.mustRefresh = x.mustRefresh
    BY DEF Ids, Fields, Read, SameTable, SameUse
  <1>2. Cursor(y) = Cursor(x)  BY <1>1 DEF Cursor, SameTable
  <1>3. IF Cursor(x) \in x.stored THEN y.rec.id = Cursor(x) ELSE y.rec.isNew
    BY DEF Ids, Fields, Read, NewRecord
  <1>4. Good(y)  BY <1>1, <1>2, <1>3 DEF Good, SameTable
  <1>5. Ids(y)  BY <1>1 DEF Ids, SameTable
  <1> QED  BY <1>1, <1>4, <1>5

\* So does reading it when that is still to be done.
LEMMA ReadIfNeededEffect ==
  ASSUME NEW x, Ids(x), Held(x), x.rows # <<>>
  PROVE  LET y == ReadIfNeeded(x)
         IN  /\ Ids(y) /\ SameTable(x, y) /\ SameUse(x, y) /\ Good(y)
             /\ y.mode = x.mode /\ y.status = x.status /\ y.browsing = x.browsing
             /\ y.mustRefresh = x.mustRefresh
  <1>1. CASE x.mustRead  BY <1>1, ReadEffect DEF ReadIfNeeded
  <1>2. CASE ~x.mustRead  BY <1>2 DEF ReadIfNeeded, Held, SameTable, SameUse
  <1> QED  BY <1>1, <1>2

\* The edit view reads what is to be read, and a right object stays right.
LEMMA EnsureEditViewEffect ==
  ASSUME NEW x, Ids(x)
  PROVE  LET y == EnsureEditView(x)
         IN  /\ Ids(y) /\ SameTable(x, y) /\ SameUse(x, y) /\ (Good(x) => Good(y))
             /\ y.mode = x.mode /\ y.status = x.status /\ ~y.browsing
             /\ y.mustRefresh = x.mustRefresh
  <1> DEFINE got == IF x.mustRead /\ Cursor(x) # 0 THEN Read(x, Cursor(x)) ELSE x
             y == EnsureEditView(x)
  <1>1. /\ Ids(got) /\ SameTable(x, got) /\ SameUse(x, got) /\ (Good(x) => Good(got))
        /\ got.mode = x.mode /\ got.status = x.status /\ got.mustRefresh = x.mustRefresh
    BY ReadEffect DEF SameTable, SameUse
  <1>2. y = [got EXCEPT !.tabs = TRUE, !.mustRead = FALSE, !.edited = FALSE, !.browsing = FALSE]
    BY DEF EnsureEditView
  <1> HIDE DEF got, y
  <1>3. /\ DOMAIN y = Fields /\ SameTable(got, y) /\ SameUse(got, y) /\ y.rec = got.rec
        /\ y.mode = got.mode /\ y.status = got.status /\ ~y.browsing /\ y.mustRefresh = got.mustRefresh
    BY <1>1, <1>2 DEF Ids, Fields, SameTable, SameUse
  <1>4. Ids(y) /\ (Good(got) => Good(y))  BY <1>1, <1>3 DEF Ids, SameTable, Good, Cursor
  <1>5. SameTable(x, y) /\ SameUse(x, y)  BY <1>1, <1>3 DEF SameTable, SameUse
  <1> QED  BY <1>1, <1>3, <1>4, <1>5 DEF y

\* An edition keeps what was there, and remembers whether the form was browsing.
LEMMA BeginEffect ==
  ASSUME NEW x, Ids(x), NEW mode
  PROVE  LET y == Begin(x, mode)
         IN  /\ Ids(y) /\ SameTable(x, y) /\ (Good(x) => Good(y))
             /\ y.choosing = x.choosing /\ y.nrec = x.nrec /\ y.wasBrowsing = x.browsing
             /\ y.mode = mode /\ y.status = "not_saved" /\ ~y.browsing
  <1> DEFINE b == [x EXCEPT !.mode = mode, !.status = "not_saved", !.wasBrowsing = x.browsing]
             y == EnsureEditView(b)
  <1>1. /\ DOMAIN b = Fields /\ SameTable(x, b) /\ b.choosing = x.choosing /\ b.nrec = x.nrec
        /\ b.rec = x.rec /\ b.wasBrowsing = x.browsing /\ b.mode = mode /\ b.status = "not_saved"
    BY DEF Ids, Fields, SameTable
  <1> HIDE DEF b
  <1>2. Ids(b) /\ (Good(x) => Good(b))  BY <1>1 DEF Ids, SameTable, Good, Cursor
  <1>3. /\ Ids(y) /\ SameTable(b, y) /\ SameUse(b, y) /\ (Good(b) => Good(y))
        /\ y.mode = b.mode /\ y.status = b.status /\ ~y.browsing
    BY <1>2, EnsureEditViewEffect
  <1> HIDE DEF y
  <1>4. /\ Ids(y) /\ SameTable(x, y) /\ (Good(x) => Good(y))
        /\ y.choosing = x.choosing /\ y.nrec = x.nrec /\ y.wasBrowsing = x.browsing
        /\ y.mode = mode /\ y.status = "not_saved" /\ ~y.browsing
    BY <1>1, <1>2, <1>3 DEF SameTable, SameUse
  <1> QED  BY <1>4 DEF Begin, y, b

\* A table that is filled again moves its cursor, and has its record read again.
LEMMA RefreshEffect ==
  ASSUME NEW x, Ids(x)
  PROVE  LET y == Refresh(x)
         IN  /\ Ids(y) /\ SameUse(x, y) /\ y.mode = x.mode /\ y.status = x.status
             /\ y.browsing = x.browsing /\ (x.browsing \/ x.choosing => Held(y))
             /\ (~(x.browsing \/ x.choosing) => y = x)
  <1>1. CASE ~(x.browsing \/ x.choosing)  BY <1>1 DEF Refresh, SameUse
  <1>2. CASE x.browsing \/ x.choosing
    <2> DEFINE last == IF x.lastID = 0 THEN Cursor(x) ELSE x.lastID
               rows == Shown(x)
               z == [x EXCEPT !.rows = rows, !.lastID = last,
                              !.cur      = IF rows = <<>> THEN 0 ELSE 1,
                              !.selected = IF rows = <<>> THEN {} ELSE {rows[1]},
                              !.mustRead = @ \/ rows # <<>>]
               y == Refresh(x)
    <2>1. \A n \in DOMAIN rows : rows[n] \in 1..x.issued
      <3>1. x.stored \cap InView \in SUBSET (1..x.issued)  BY DEF Ids
      <3> QED  BY <3>1, SortedRange DEF Ids, Shown
    <2> HIDE DEF rows, last
    <2>2. /\ DOMAIN z = Fields /\ z.rows = rows /\ (z.mustRead \/ rows = <<>>)
          /\ z.stored = x.stored /\ z.issued = x.issued /\ SameUse(x, z) /\ z.mode = x.mode
          /\ z.status = x.status /\ z.browsing = x.browsing
      BY DEF Ids, Fields, SameUse
    <2>3. y = [Sync(z, last) EXCEPT !.mustRefresh = FALSE]  BY <1>2 DEF Refresh, SetView, rows, last
    <2> HIDE DEF z, y
    <2>4. /\ DOMAIN y = Fields /\ y.rows = rows /\ (y.mustRead \/ rows = <<>>)
          /\ y.stored = z.stored /\ y.issued = z.issued /\ SameUse(z, y) /\ y.mode = z.mode
          /\ y.status = z.status /\ y.browsing = z.browsing
      BY <2>2, <2>3 DEF Fields, SameUse, Sync
    <2>5. Ids(y) /\ Held(y) /\ SameUse(x, y)  BY <2>1, <2>2, <2>4 DEF Ids, Held, SameUse
    <2> QED  BY <1>2, <2>2, <2>4, <2>5 DEF y
  <1> QED  BY <1>1, <1>2

\* The form browses, in the mode it was opened in, over a table that is up to date.
LEMMA EnsureBrowseViewEffect ==
  ASSUME NEW x, Ids(x), x.browsing => x.mode \in Browsing
  PROVE  LET y == EnsureBrowseView(x)
         IN  /\ Ids(y) /\ SameUse(x, y) /\ y.status = x.status /\ y.browsing /\ y.mode \in Browsing
             /\ (x.mustRefresh \/ Held(x) => Held(y))
  <1> DEFINE b == IF x.tabs \/ ~x.browsing
                  THEN [x EXCEPT !.mode = IF x.choosing THEN "choosing" ELSE "browsing",
                                 !.tabs = FALSE, !.browsing = TRUE]
                  ELSE x
             y == EnsureBrowseView(x)
  <1>1. /\ DOMAIN b = Fields /\ SameTable(x, b) /\ SameUse(x, b) /\ b.rec = x.rec
        /\ b.status = x.status /\ b.browsing /\ b.mode \in Browsing /\ b.mustRead = x.mustRead
        /\ b.mustRefresh = x.mustRefresh
    BY DEF Ids, Fields, SameTable, SameUse, Browsing
  <1>2. y = IF b.mustRefresh THEN Refresh(b) ELSE b  BY DEF EnsureBrowseView
  <1> HIDE DEF b, y
  <1>3. Ids(b) /\ (Held(x) => Held(b))  BY <1>1 DEF Ids, SameTable, Held, Good, Cursor
  <1>4. CASE b.mustRefresh
    <2>1. /\ Ids(y) /\ SameUse(b, y) /\ y.mode = b.mode /\ y.status = b.status
          /\ y.browsing = b.browsing /\ Held(y)
      BY <1>1, <1>2, <1>3, <1>4, RefreshEffect
    <2> QED  BY <1>1, <2>1 DEF SameUse, y
  <1>5. CASE ~b.mustRefresh  BY <1>1, <1>2, <1>3, <1>5 DEF y
  <1> QED  BY <1>4, <1>5

-------------------------------------------------------------------------------
(* The invariant.                                                            *)

EditModes == {"inserting", "duplicating", "updating", "deleting", "selecting"}

\* A form between two steps: what it edits is kept in one mode, and what was saved while
\* the table was not shown has it filled again when it is.
Resting(x) ==
  /\ Ids(x) /\ x.nrec \in Nat /\ x.status \in {"not_saved", "saved"}
  /\ x.mode \in Browsing \cup EditModes /\ (x.mode \in Browsing <=> x.browsing)
  /\ x.choosing /\ x.mode \notin Browsing => x.wasBrowsing
  /\ x.mode \notin Browsing \cup {"selecting"} /\ x.status = "saved" => x.mustRefresh
  /\ x.mode = "selecting" => Good(x)

\* ... and what each dialog may count on.
Form(x, d) ==
  /\ Resting(x)
  /\ d = "user" /\ x.mode \in Browsing => Held(x)
  /\ d = "delete?" => x.mode = "deleting" /\ x.status = "not_saved" /\ (x.nrec = 0 => Good(x))
  /\ d = "loop" => x.mode \in Browsing \cup {"deleting"}
  /\ d = "loop" /\ (x.status = "not_saved" \/ x.choosing) => x.mode \in Browsing

\* The inductive invariant.
FormInv == Form(form, dialog)

\* After something was saved: with the next insertion or deletion, or out of the edition.
LEMMA SavedEffect ==
  ASSUME NEW x, Ids(x), x.nrec \in Nat, x.mode \in EditModes, ~x.browsing,
         x.choosing => x.wasBrowsing, IF x.mode = "selecting" THEN Good(x) ELSE x.mustRefresh
  PROVE  LET y == Saved(x, TRUE)
         IN  /\ Resting(y) /\ (y.mode \in Browsing => Held(y))
             /\ y.nrec = x.nrec /\ y.choosing = x.choosing /\ (y.choosing => y.mode \in Browsing)
             /\ (x.mode = "deleting" => y.status = "saved") /\ y.mode \in Browsing \cup {x.mode}
  <1> DEFINE z == [x EXCEPT !.another = 0, !.mustRead = FALSE, !.edited = FALSE, !.status = "saved",
                            !.mode = IF x.choosing THEN "choosing" ELSE @]
             y == Saved(x, TRUE)
  <1>1. /\ DOMAIN z = Fields /\ SameTable(x, z) /\ SameUse(x, z) /\ z.rec = x.rec
        /\ z.status = "saved" /\ z.browsing = x.browsing /\ z.mustRefresh = x.mustRefresh
        /\ z.mode = IF x.choosing THEN "choosing" ELSE x.mode
    BY DEF Ids, Fields, SameTable, SameUse
  <1>2. y = IF z.continuous /\ z.mode = "inserting"
              THEN IF MayAdd(z) THEN BeginInserting([z EXCEPT !.browsing = z.wasBrowsing], TRUE) ELSE z
            ELSE IF z.continuous /\ z.mode = "deleting" THEN z
            ELSE IF z.wasBrowsing THEN EnsureBrowseView(z) ELSE EnsureEditView(z)
    BY DEF Saved
  <1> HIDE DEF z, y
  <1>3. Ids(z) /\ (Good(x) => Good(z))  BY <1>1 DEF Ids, SameTable, Good, Cursor
  <1>4. /\ z.nrec = x.nrec /\ z.choosing = x.choosing /\ z.wasBrowsing = x.wasBrowsing /\ ~z.browsing
        /\ z.mode = (IF x.choosing THEN "choosing" ELSE x.mode)
        /\ IF x.mode = "selecting" THEN Good(z) ELSE z.mustRefresh
    BY <1>1, <1>3 DEF SameUse
  <1>5. CASE y = z /\ z.mode \in {"inserting", "deleting"}
    <2>1. ~x.choosing /\ z.mode = x.mode  BY <1>4, <1>5
    <2> QED  BY <1>1, <1>3, <1>4, <1>5, <2>1 DEF Resting, Browsing, EditModes, y
  <1>6. CASE z.mode = "inserting" /\ y = BeginInserting([z EXCEPT !.browsing = z.wasBrowsing], TRUE)
    <2> DEFINE b == [z EXCEPT !.browsing = z.wasBrowsing]
               c == [[b EXCEPT !.mustRead = FALSE, !.rec = NewRecord] EXCEPT !.continuous = TRUE]
    <2>1. ~x.choosing /\ x.mode = "inserting"  BY <1>4, <1>6
    <2>2. /\ DOMAIN c = Fields /\ SameTable(z, c) /\ c.choosing = z.choosing /\ c.nrec = z.nrec
      BY <1>3 DEF Ids, Fields, SameTable
    <2>3. y = Begin(c, "inserting")  BY <1>6 DEF BeginInserting
    <2> HIDE DEF c
    <2>4. Ids(c)  BY <1>3, <2>2 DEF Ids, SameTable
    <2>5. /\ Ids(y) /\ y.choosing = c.choosing /\ y.nrec = c.nrec
          /\ y.mode = "inserting" /\ y.status = "not_saved" /\ ~y.browsing
      BY <2>3, <2>4, BeginEffect
    <2> QED  BY <1>4, <2>1, <2>2, <2>5 DEF Resting, Browsing, EditModes, y
  <1>7. CASE z.wasBrowsing /\ y = EnsureBrowseView(z)
    <2>1. z.mustRefresh \/ Held(z)  BY <1>4 DEF Held
    <2>2. /\ Ids(y) /\ SameUse(z, y) /\ y.status = z.status /\ y.browsing /\ y.mode \in Browsing
          /\ Held(y)
      BY <1>3, <1>4, <1>7, <2>1, EnsureBrowseViewEffect
    <2> QED  BY <1>1, <1>4, <2>2 DEF Resting, Browsing, SameUse, y
  <1>8. CASE ~z.wasBrowsing /\ y = EnsureEditView(z)
    <2>1. ~x.choosing /\ z.mode = x.mode  BY <1>4, <1>8
    <2>2. /\ Ids(y) /\ SameUse(z, y) /\ (Good(z) => Good(y)) /\ y.mode = z.mode
          /\ y.status = z.status /\ ~y.browsing /\ y.mustRefresh = z.mustRefresh
      BY <1>3, <1>8, EnsureEditViewEffect
    <2>3. y.mode \notin Browsing /\ y.mode = x.mode /\ ~y.choosing
          /\ y.choosing = x.choosing /\ y.nrec = x.nrec
      BY <1>4, <2>1, <2>2 DEF EditModes, Browsing, SameUse
    <2>4. IF x.mode = "selecting" THEN Good(y) ELSE y.mustRefresh  BY <1>4, <2>2
    <2>5. Ids(y) /\ y.nrec \in Nat /\ y.status = "saved" /\ y.mode \in EditModes /\ ~y.browsing
      BY <1>1, <2>2, <2>3
    <2>6. Resting(y)  BY <2>3, <2>4, <2>5 DEF Resting
    <2> QED  BY <2>3, <2>5, <2>6 DEF y
  <1> QED  BY <1>2, <1>5, <1>6, <1>7, <1>8

\* Whatever accept meets, an edition goes on or ends in a form at rest.
LEMMA AcceptEffect ==
  ASSUME NEW x, Resting(x), x.mode \in EditModes, NEW outcome \in {"done", "fails", "refused"}
  PROVE  LET y == AcceptEdition(x, outcome, TRUE)
         IN  /\ Resting(y) /\ (y.mode \in Browsing => Held(y))
             /\ y.nrec = x.nrec /\ y.choosing = x.choosing /\ y.mode \in Browsing \cup {x.mode}
             /\ (y.status = "saved" /\ y.choosing => y.mode \in Browsing)
             /\ (x.mode = "deleting" /\ y.status = "not_saved" /\ Good(x) => Good(y))
  <1> DEFINE n == [x EXCEPT !.status = "not_saved"]
             y == AcceptEdition(x, outcome, TRUE)
  <1>0. ~x.browsing /\ (x.choosing => x.wasBrowsing) /\ x.mode \notin Browsing /\ Ids(x) /\ x.nrec \in Nat
    BY DEF Resting, EditModes, Browsing
  <1>1. /\ DOMAIN n = Fields /\ SameTable(x, n) /\ SameUse(x, n) /\ n.rec = x.rec /\ n.mode = x.mode
        /\ n.status = "not_saved" /\ n.browsing = x.browsing /\ n.mustRefresh = x.mustRefresh
    BY <1>0 DEF Ids, Fields, SameTable, SameUse
  <1>2. Ids(n) /\ (Good(x) => Good(n))  BY <1>0, <1>1 DEF Ids, SameTable, Good, Cursor
  <1>3. CASE outcome \in {"fails", "refused"}
    <2> DEFINE e == [n EXCEPT !.edited = FALSE]
    <2>1. y = n \/ y = e  BY <1>3 DEF AcceptEdition
    <2> HIDE DEF n
    <2>2. /\ DOMAIN e = Fields /\ SameTable(n, e) /\ SameUse(n, e) /\ e.rec = n.rec /\ e.mode = n.mode
          /\ e.status = "not_saved" /\ e.browsing = n.browsing
      BY <1>1, <1>2 DEF Ids, Fields, SameTable, SameUse
    <2>3. Ids(e) /\ (Good(n) => Good(e))  BY <1>2, <2>2 DEF Ids, SameTable, Good, Cursor
    <2> HIDE DEF e, y
    <2>4. /\ Ids(y) /\ (Good(x) => Good(y)) /\ SameUse(x, y) /\ y.mode = x.mode
          /\ y.status = "not_saved" /\ y.browsing = x.browsing
      BY <1>1, <1>2, <2>1, <2>2, <2>3 DEF SameUse
    <2>5. Resting(y)  BY <1>0, <2>4 DEF Resting, SameUse
    <2> QED  BY <1>0, <2>4, <2>5 DEF SameUse, y
  <1>4. CASE outcome = "done" /\ x.mode \in {"inserting", "duplicating", "updating"}
    <2> DEFINE id == IF n.rec.isNew THEN n.issued + 1 ELSE n.rec.id
               s == SaveRecord(n)
    <2>1. y = Saved(s, TRUE)  BY <1>4 DEF AcceptEdition
    <2> HIDE DEF n
    <2>2. /\ DOMAIN s = Fields /\ SameUse(n, s) /\ s.mode = n.mode /\ s.browsing = n.browsing
          /\ s.mustRefresh /\ s.rows = n.rows
          /\ s.stored = (IF n.rec.isNew THEN n.stored \cup {n.issued + 1} ELSE n.stored)
          /\ s.issued = (IF n.rec.isNew THEN n.issued + 1 ELSE n.issued)
      BY <1>2 DEF Ids, Fields, SaveRecord, SameUse
    <2>3. Ids(s)
      <3>1. s.issued \in Nat /\ n.issued \in Nat /\ n.issued <= s.issued  BY <1>2, <2>2 DEF Ids
      <3>2. s.stored \subseteq 1..s.issued  BY <1>2, <2>2 DEF Ids
      <3>3. \A k \in DOMAIN s.rows : s.rows[k] \in 1..s.issued  BY <1>2, <2>2, <3>1 DEF Ids
      <3> QED  BY <2>2, <3>1, <3>2, <3>3 DEF Ids
    <2> HIDE DEF s
    <2>4. /\ s.nrec \in Nat /\ s.mode = x.mode /\ s.mode # "selecting" /\ s.mode \in EditModes /\ ~s.browsing
          /\ (s.choosing => s.wasBrowsing) /\ s.nrec = x.nrec /\ s.choosing = x.choosing
      BY <1>0, <1>1, <1>4, <2>2 DEF SameUse, EditModes
    <2> QED  BY <1>4, <2>1, <2>2, <2>3, <2>4, SavedEffect
  <1>5. CASE outcome = "done" /\ x.mode = "deleting"
    <2> DEFINE s == [n EXCEPT !.stored = @ \ {x.rec.id}, !.lastID = NextId(x), !.mustRefresh = TRUE]
    <2>1. y = Saved(s, TRUE)  BY <1>5 DEF AcceptEdition
    <2> HIDE DEF n
    <2>2. /\ DOMAIN s = Fields /\ SameUse(n, s) /\ s.mode = n.mode /\ s.browsing = n.browsing
          /\ s.mustRefresh /\ s.rows = n.rows /\ s.stored \subseteq n.stored /\ s.issued = n.issued
      BY <1>2 DEF Ids, Fields, SameUse
    <2>3. Ids(s)  BY <1>2, <2>2 DEF Ids
    <2> HIDE DEF s
    <2>4. /\ s.nrec \in Nat /\ s.mode = "deleting" /\ s.mode \in EditModes /\ ~s.browsing
          /\ (s.choosing => s.wasBrowsing) /\ s.nrec = x.nrec /\ s.choosing = x.choosing
      BY <1>0, <1>1, <1>5, <2>2 DEF SameUse, EditModes
    <2> HIDE DEF y
    <2>5. /\ Resting(y) /\ (y.mode \in Browsing => Held(y)) /\ y.nrec = s.nrec
          /\ y.choosing = s.choosing /\ (y.choosing => y.mode \in Browsing) /\ y.status = "saved"
          /\ y.mode \in Browsing \cup {s.mode}
      BY <2>1, <2>2, <2>3, <2>4, SavedEffect
    <2> QED  BY <1>5, <2>4, <2>5 DEF y
  <1>6. CASE outcome = "done" /\ x.mode = "selecting"
    <2>1. y = Saved(n, TRUE)  BY <1>6 DEF AcceptEdition
    <2> HIDE DEF n
    <2>2. Good(n)  BY <1>2, <1>6 DEF Resting
    <2>3. /\ n.nrec \in Nat /\ n.mode = "selecting" /\ n.mode \in EditModes /\ ~n.browsing
          /\ (n.choosing => n.wasBrowsing) /\ n.nrec = x.nrec /\ n.choosing = x.choosing
      BY <1>0, <1>1, <1>6 DEF SameUse, EditModes
    <2> QED  BY <1>2, <1>6, <2>1, <2>2, <2>3, SavedEffect
  <1> QED  BY <1>3, <1>4, <1>5, <1>6 DEF EditModes

\* At the table: the record is read, or was.
LEMMA TableRead ==
  ASSUME NEW x, Form(x, "user"), x.mode \in Browsing, x.rows # <<>>
  PROVE  LET y == ReadIfNeeded(x)
         IN  Form(y, "user") /\ Good(y) /\ SameTable(x, y) /\ y.mode = x.mode /\ y.nrec = x.nrec
             /\ y.status = x.status
  <1> DEFINE y == ReadIfNeeded(x)
  <1>1. Ids(x) /\ Held(x) /\ Resting(x)  BY DEF Form, Resting
  <1>2. /\ Ids(y) /\ SameTable(x, y) /\ SameUse(x, y) /\ Good(y)
        /\ y.mode = x.mode /\ y.status = x.status /\ y.browsing = x.browsing
    BY <1>1, ReadIfNeededEffect
  <1> HIDE DEF y
  <1>3. Resting(y)  BY <1>1, <1>2 DEF Resting, SameUse, Browsing
  <1>4. Form(y, "user")  BY <1>2, <1>3 DEF Form, Held
  <1> QED  BY <1>2, <1>4 DEF SameUse, y

\* An edition that begins.
LEMMA BeginForm ==
  ASSUME NEW x, Ids(x), x.nrec \in Nat, x.choosing => x.browsing,
         NEW mode \in EditModes, mode = "selecting" => Good(x)
  PROVE  LET y == Begin(x, mode)
         IN  Resting(y) /\ SameTable(x, y) /\ (Good(x) => Good(y)) /\ y.mode = mode
             /\ y.status = "not_saved" /\ y.nrec = x.nrec
  <1> DEFINE y == Begin(x, mode)
  <1>1. /\ Ids(y) /\ SameTable(x, y) /\ (Good(x) => Good(y))
        /\ y.choosing = x.choosing /\ y.nrec = x.nrec /\ y.wasBrowsing = x.browsing
        /\ y.mode = mode /\ y.status = "not_saved" /\ ~y.browsing
    BY BeginEffect
  <1> HIDE DEF y
  <1>2. y.mode \notin Browsing  BY <1>1 DEF EditModes, Browsing
  <1>3. Resting(y)  BY <1>1, <1>2 DEF Resting
  <1> QED  BY <1>1, <1>3 DEF y

-------------------------------------------------------------------------------
(* The steps.                                                                *)

\* What RecordUnderCursor says of one step.
Acts ==
  (AtTable /\ (dialog' = "chosen" \/ form'.mode \in {"updating", "selecting", "deleting"})) =>
    form'.rec.id = Cursor(form) \/ (form'.rec.isNew /\ Cursor(form) \notin form.stored)

\* From the object to the property.
LEMMA GoodActs ==
  ASSUME NEW x, NEW y, Good(y), SameTable(x, y)
  PROVE  y.rec.id = Cursor(x) \/ (y.rec.isNew /\ Cursor(x) \notin x.stored)
  BY DEF Good, SameTable, Cursor

\* The initial states.
LEMMA InitHolds == ASSUME InitForm PROVE Form(form, dialog)
  <1> DEFINE rows == Sorted((1..FirstRecords) \cap InView)
  <1>1. PICK m \in StartModes, cur \in IF rows = <<>> THEN {0} ELSE DOMAIN rows :
          form = NewForm(m, rows, cur)
    BY DEF InitForm
  <1>2. dialog = "user" /\ FirstRecords \in Nat /\ m \in Browsing
    BY FormAssumption DEF InitForm, Browsing
  <1>3. \A n \in DOMAIN rows : rows[n] \in 1..FirstRecords
    <2>1. (1..FirstRecords) \cap InView \in SUBSET (1..FirstRecords)  OBVIOUS
    <2> QED  BY <1>2, <2>1, SortedRange
  <1> HIDE DEF rows
  <1>4. /\ DOMAIN form = Fields /\ form.stored = 1..FirstRecords /\ form.issued = FirstRecords
        /\ form.rows = rows /\ form.mode = m /\ form.status = "not_saved" /\ form.browsing
        /\ form.mustRead /\ form.nrec = 0
    BY <1>1 DEF NewForm, Fields
  <1>5. Ids(form)  BY <1>2, <1>3, <1>4 DEF Ids
  <1>6. Resting(form)  BY <1>2, <1>4, <1>5 DEF Resting, Browsing
  <1> QED  BY <1>2, <1>4, <1>6 DEF Form, Held

\* Moving about the table.
LEMMA MoveCursorHolds ==
  ASSUME Form(form, dialog), MoveCursor \/ SelectRows
  PROVE  Form(form', dialog') /\ Acts
  <1>1. /\ AtTable /\ dialog' = dialog
        /\ \E c, S, l : form' = [form EXCEPT !.cur = c, !.selected = S, !.mustRead = TRUE, !.lastID = l]
    BY DEF MoveCursor, SelectRows
  <1>2. dialog = "user" /\ form.mode \in Browsing /\ Resting(form) /\ Ids(form)
    BY <1>1 DEF AtTable, Form, Resting
  <1>3. /\ DOMAIN form' = Fields /\ form'.stored = form.stored /\ form'.issued = form.issued
        /\ form'.rows = form.rows /\ SameUse(form, form') /\ form'.mode = form.mode
        /\ form'.status = form.status /\ form'.browsing = form.browsing /\ form'.mustRead
    BY <1>1, <1>2 DEF Ids, Fields, SameUse
  <1>4. Ids(form')  BY <1>2, <1>3 DEF Ids
  <1>5. Resting(form')  BY <1>2, <1>3, <1>4 DEF Resting, SameUse, Browsing
  <1> QED  BY <1>1, <1>2, <1>3, <1>5 DEF Form, Held, Acts, Browsing

\* The menus, but for the removals: the object was read before the mode changes.
LEMMA MenuHolds ==
  ASSUME Form(form, dialog), Menu, "inserting" \notin Refusals
  PROVE  Form(form', dialog') /\ Acts
  <1>1. /\ dialog = "user" /\ dialog' = "user" /\ form.mode \in Browsing /\ Form(form, "user")
        /\ Ids(form) /\ form.nrec \in Nat /\ form.browsing
    BY DEF Menu, AtTable, Form, Resting
  <1> DEFINE y == ReadIfNeeded(form)
  <1>2. ASSUME form.rows # <<>>
        PROVE  /\ Form(y, "user") /\ Good(y) /\ SameTable(form, y) /\ y.mode = form.mode
               /\ Ids(y) /\ y.nrec \in Nat /\ y.browsing /\ y.mode \in Browsing
    BY <1>1, <1>2, TableRead DEF Form, Resting
  <1>3. ASSUME form.rows # <<>>, form' = y  PROVE Form(form', "user") /\ Acts
    BY <1>1, <1>2, <1>3 DEF Acts, Browsing
  <1>4. CASE MayAdd(form) /\ \E a \in Answers("inserting") : form' = BeginInserting(form, a)
    <2> DEFINE c == [[form EXCEPT !.mustRead = FALSE, !.rec = NewRecord] EXCEPT !.continuous = TRUE]
    <2>1. form' = Begin(c, "inserting")  BY <1>4 DEF Answers, BeginInserting
    <2>2. /\ DOMAIN c = Fields /\ SameTable(form, c) /\ c.nrec = form.nrec /\ c.browsing = form.browsing
      BY <1>1 DEF Ids, Fields, SameTable
    <2> HIDE DEF c
    <2>3. Ids(c)  BY <1>1, <2>2 DEF Ids, SameTable
    <2>4. Resting(form') /\ form'.mode = "inserting"
      BY <1>1, <2>1, <2>2, <2>3, BeginForm DEF EditModes
    <2> QED  BY <1>1, <2>4 DEF Form, Acts, Browsing
  <1>5. CASE MayEdit(form) /\ \E a \in Answers("updating") : form' = BeginUpdating(form, a)
    <2>1. form.rows # <<>> /\ (form' = y \/ form' = Begin(y, "updating"))
      BY <1>5 DEF MayEdit, MayView, BeginUpdating
    <2>2. CASE form' = Begin(y, "updating")
      <3> HIDE DEF y
      <3>1. Resting(form') /\ SameTable(y, form') /\ Good(form') /\ form'.mode = "updating"
        BY <1>2, <2>1, <2>2, BeginForm DEF EditModes
      <3>2. SameTable(form, form')  BY <1>2, <2>1, <3>1 DEF SameTable
      <3>3. Acts  BY <3>1, <3>2, GoodActs DEF Acts
      <3> QED  BY <1>1, <3>1, <3>3 DEF Form, Browsing
    <2> QED  BY <1>1, <1>3, <2>1, <2>2
  <1>6. CASE MayView(form) /\ \E a \in Answers("selecting") : form' = BeginSelect(form, a)
    <2> DEFINE b == Begin(y, "selecting")
    <2>1. form.rows # <<>> /\ (form' = y \/ form' = [b EXCEPT !.status = form.status])
      BY <1>6 DEF MayView, BeginSelect
    <2>2. CASE form' = [b EXCEPT !.status = form.status]
      <3>1. /\ Resting(b) /\ SameTable(y, b) /\ Good(b) /\ b.mode = "selecting"
        <4> HIDE DEF y
        <4> QED  BY <1>2, <2>1, BeginForm DEF EditModes
      <3> HIDE DEF b, y
      <3>2. /\ DOMAIN form' = Fields /\ SameTable(b, form') /\ SameUse(b, form')
            /\ form'.rec = b.rec /\ form'.mode = b.mode /\ form'.status = form.status
            /\ form'.browsing = b.browsing
        BY <2>2, <3>1 DEF Resting, Ids, Fields, SameTable, SameUse
      <3>3. Ids(form') /\ Good(form') /\ SameTable(form, form')
        BY <1>2, <2>1, <3>1, <3>2 DEF Resting, Ids, Good, Cursor, SameTable
      <3>4. form.status \in {"not_saved", "saved"}  BY <1>1 DEF Form, Resting
      <3>5. Resting(form')  BY <3>1, <3>2, <3>3, <3>4 DEF Resting, SameUse
      <3>6. Acts  BY <3>3, GoodActs DEF Acts
      <3> QED  BY <1>1, <3>1, <3>2, <3>5, <3>6 DEF Form, Browsing
    <2> QED  BY <1>1, <1>3, <2>1, <2>2
  <1>7. CASE /\ MayAdd(form) /\ MayEdit(form)
             /\ \E a \in Answers("duplicating") : form' = BeginDuplicating(form, a)
    <2> DEFINE b == Begin(y, "duplicating")
    <2>1. form.rows # <<>> /\ (form' = y \/ form' = [b EXCEPT !.rec = NewRecord])
      BY <1>7 DEF MayEdit, MayView, BeginDuplicating
    <2>2. CASE form' = [b EXCEPT !.rec = NewRecord]
      <3>1. /\ Resting(b) /\ b.mode = "duplicating" /\ b.status = "not_saved"
        <4> HIDE DEF y
        <4> QED  BY <1>2, <2>1, BeginForm DEF EditModes
      <3> HIDE DEF b, y
      <3>2. /\ DOMAIN form' = Fields /\ SameTable(b, form') /\ SameUse(b, form')
            /\ form'.mode = b.mode /\ form'.status = b.status /\ form'.browsing = b.browsing
        BY <2>2, <3>1 DEF Resting, Ids, Fields, SameTable, SameUse
      <3>3. Ids(form')  BY <3>1, <3>2 DEF Resting, Ids, SameTable
      <3>5. Resting(form')  BY <3>1, <3>2, <3>3 DEF Resting, SameUse
      <3> QED  BY <1>1, <3>1, <3>2, <3>5 DEF Form, Acts, Browsing
    <2> QED  BY <1>1, <1>3, <2>1, <2>2
  <1> QED  BY <1>1, <1>4, <1>5, <1>6, <1>7 DEF Menu

\* One row to remove, or several.
LEMMA MenuDeleteHolds ==
  ASSUME Form(form, dialog), MenuDelete
  PROVE  Form(form', dialog') /\ Acts
  <1>1. /\ form.mode \in Browsing /\ Form(form, "user") /\ Resting(form) /\ form.rows # <<>>
        /\ MayDelete(form)
    BY DEF MenuDelete, AtTable, Form, MayDelete, MayEdit, MayView
  <1> DEFINE y == ReadIfNeeded(form)
             b == Begin(y, "deleting")
  <1>2. /\ Form(y, "user") /\ Good(y) /\ SameTable(form, y) /\ y.mode = form.mode
        /\ Ids(y) /\ y.nrec \in Nat /\ y.browsing
    BY <1>1, TableRead DEF Form, Resting
  <1>3. \/ form' = form /\ dialog' = "loop"
        \/ form' = y /\ dialog' \in {"user", "loop"}
        \/ form' = b /\ dialog' = "delete?"
    BY <1>1 DEF MenuDelete, AskDelete
  <1> HIDE DEF y
  <1>4. CASE form' = form /\ dialog' = "loop"  BY <1>1, <1>4 DEF Form, Acts, Browsing
  <1>5. CASE form' = y /\ dialog' \in {"user", "loop"}
    BY <1>1, <1>2, <1>5 DEF Form, Acts, Browsing
  <1>6. CASE form' = b /\ dialog' = "delete?"
    <2>1. /\ Resting(b) /\ SameTable(y, b) /\ Good(b) /\ b.mode = "deleting" /\ b.status = "not_saved"
      BY <1>2, BeginForm DEF EditModes
    <2> HIDE DEF b
    <2>2. SameTable(form, form')  BY <1>2, <1>6, <2>1 DEF SameTable
    <2>3. Acts  BY <1>6, <2>1, <2>2, GoodActs DEF Acts
    <2> QED  BY <1>6, <2>1, <2>3 DEF Form
  <1> QED  BY <1>3, <1>4, <1>5, <1>6

\* What differs between two forms does not matter here ...
Alike(x, y) ==
  /\ DOMAIN y = Fields /\ SameTable(x, y) /\ y.choosing = x.choosing /\ y.wasBrowsing = x.wasBrowsing
  /\ y.mode = x.mode /\ y.status = x.status /\ y.browsing = x.browsing
  /\ y.mustRefresh = x.mustRefresh

\* ... and one at rest stays so.
LEMMA AlikeResting ==
  ASSUME NEW x, NEW y, Resting(x), Alike(x, y), y.nrec \in Nat,
         x.mode = "selecting" => y.rec = x.rec
  PROVE  Resting(y)
  <1>1. Ids(y)  BY DEF Resting, Alike, Ids, SameTable
  <1>2. x.mode = "selecting" => Good(y)  BY DEF Resting, Alike, Good, Cursor, SameTable
  <1> QED  BY <1>1, <1>2 DEF Resting, Alike

\* Each of several rows is read by its own id; at the end the table is filled again.
LEMMA NextSelectedHolds ==
  ASSUME Form(form, dialog), NextSelected
  PROVE  Form(form', dialog') /\ Acts
  <1> DEFINE sel  == SelectSeq(form.rows, LAMBDA id : id \in form.selected)
             readRow(id) == [Read(form, id) EXCEPT !.continuous = TRUE, !.nrec = @ + 1]
             next == readRow(sel[form.nrec + 1])
             last == [form EXCEPT !.multiple = FALSE, !.nrec = 0]
             back == IF form.status = "saved" THEN EnsureBrowseView(last) ELSE last
  <1>1. /\ dialog = "loop" /\ Resting(form) /\ Ids(form) /\ form.nrec \in Nat
        /\ form.mode \in Browsing \cup {"deleting"} /\ (form.mode \in Browsing <=> form.browsing)
        /\ form.status = "not_saved" \/ form.choosing => form.mode \in Browsing
    BY DEF NextSelected, Form, Resting
  <1>2. Acts  BY <1>1 DEF Acts, AtTable
  <1>3. \/ form' = Refresh(back) /\ dialog' = "user"
        \/ \E a \in Answers("deleting") : AskDelete(next, a)
    BY DEF NextSelected
  <1>4. CASE form' = Refresh(back) /\ dialog' = "user"
    <2>1. Alike(form, last) /\ last.nrec = 0 /\ last.rec = form.rec
      BY <1>1 DEF Alike, Ids, Fields, SameTable
    <2> HIDE DEF last
    <2>2. Resting(last)  BY <1>1, <2>1, AlikeResting
    <2>3. /\ Ids(back) /\ back.nrec = 0 /\ back.browsing /\ back.mode \in Browsing
          /\ back.status \in {"not_saved", "saved"}
      <3>1. CASE form.status = "saved"
        <4>1. last.browsing => last.mode \in Browsing  BY <2>2 DEF Resting
        <4>2. Ids(last)  BY <2>2 DEF Resting
        <4> QED  BY <2>1, <3>1, <4>1, <4>2, EnsureBrowseViewEffect DEF Alike, SameUse
      <3>2. CASE form.status = "not_saved"  BY <1>1, <2>1, <2>2, <3>2 DEF Resting, Alike
      <3> QED  BY <1>1, <3>1, <3>2 DEF Resting
    <2> HIDE DEF back
    <2>4. /\ Ids(form') /\ SameUse(back, form') /\ form'.mode = back.mode /\ form'.status = back.status
          /\ form'.browsing = back.browsing /\ Held(form')
      BY <1>4, <2>3, RefreshEffect
    <2>5. Resting(form')  BY <2>3, <2>4 DEF Resting, SameUse, Browsing
    <2> QED  BY <1>2, <1>4, <2>4, <2>5 DEF Form
  <1>5. CASE \E a \in Answers("deleting") : AskDelete(next, a)
    <2>1. ASSUME NEW id
          PROVE  Alike(form, readRow(id)) /\ readRow(id).nrec = form.nrec + 1
      BY <1>1 DEF Alike, Ids, Fields, SameTable, Read
    <2>2. Alike(form, next) /\ next.nrec = form.nrec + 1  BY <2>1
    <2> DEFINE y == ReadIfNeeded(next)
               b == Begin(y, "deleting")
    <2>3. \/ form' \in {next, y} /\ dialog' = IF next.nrec = 0 THEN "user" ELSE "loop"
          \/ form' = b /\ dialog' = "delete?"
      BY <1>5 DEF AskDelete
    <2> HIDE DEF next
    <2>4. Resting(next)  BY <1>1, <2>2, AlikeResting DEF Browsing
    <2>5. Alike(next, y) /\ y.nrec = next.nrec
      <3>1. CASE next.mustRead
        BY <2>4, <3>1, ReadEffect DEF ReadIfNeeded, Alike, Resting, Ids, SameUse
      <3>2. CASE ~next.mustRead
        BY <2>4, <3>2 DEF ReadIfNeeded, Alike, Resting, Ids, SameTable
      <3> QED  BY <3>1, <3>2
    <2> HIDE DEF y
    <2>6. Resting(y)  BY <1>1, <2>2, <2>4, <2>5, AlikeResting DEF Alike, Browsing
    <2>7. CASE form' \in {next, y} /\ dialog' = IF next.nrec = 0 THEN "user" ELSE "loop"
      <3>1. Resting(form') /\ form'.mode = form.mode /\ form'.status = form.status
            /\ form'.choosing = form.choosing /\ dialog' = "loop"
        BY <1>1, <2>2, <2>4, <2>5, <2>6, <2>7 DEF Alike
      <3> QED  BY <1>1, <1>2, <3>1 DEF Form
    <2>8. CASE form' = b /\ dialog' = "delete?"
      <3>1. Ids(y) /\ y.nrec \in Nat /\ (y.choosing => y.browsing)
        BY <1>1, <2>2, <2>5, <2>6 DEF Resting, Alike
      <3>2. Resting(b) /\ b.mode = "deleting" /\ b.status = "not_saved" /\ b.nrec = y.nrec
        BY <3>1, BeginForm DEF EditModes
      <3>3. b.nrec # 0  BY <1>1, <2>2, <2>5, <3>2
      <3> HIDE DEF b
      <3> QED  BY <1>2, <2>8, <3>2, <3>3 DEF Form
    <2> QED  BY <2>3, <2>7, <2>8
  <1> QED  BY <1>3, <1>4, <1>5

\* The way back to the table after the question or what was answered to it.
LEMMA BackForm ==
  ASSUME NEW x, Resting(x), x.mode \in Browsing \cup {"deleting"},
         x.mode \in Browsing => Held(x), x.status = "not_saved" /\ x.nrec = 0 => Held(x),
         x.status = "saved" /\ x.choosing => x.mode \in Browsing
  PROVE  LET y == IF x.status = "not_saved" \/ (x.wasBrowsing /\ ~x.continuous)
                  THEN EnsureBrowseView(x) ELSE x
         IN  Form(y, IF x.nrec = 0 THEN "user" ELSE "loop") /\ y.nrec = x.nrec
  <1> DEFINE y == EnsureBrowseView(x)
  <1>1. Ids(x) /\ x.nrec \in Nat /\ x.status \in {"not_saved", "saved"}
        /\ (x.browsing => x.mode \in Browsing)
    BY DEF Resting
  <1>2. /\ Ids(y) /\ SameUse(x, y) /\ y.status = x.status /\ y.browsing /\ y.mode \in Browsing
        /\ (x.mustRefresh \/ Held(x) => Held(y))
    BY <1>1, EnsureBrowseViewEffect
  <1>3. x.nrec = 0 => x.mustRefresh \/ Held(x)  BY <1>1 DEF Resting, Browsing
  <1> HIDE DEF y
  <1>4. Resting(y)  BY <1>1, <1>2 DEF Resting, SameUse, Browsing
  <1>5. Form(y, IF x.nrec = 0 THEN "user" ELSE "loop") /\ y.nrec = x.nrec
    BY <1>2, <1>3, <1>4 DEF Form, SameUse
  <1>6. x.status # "not_saved" => Form(x, IF x.nrec = 0 THEN "user" ELSE "loop")
    BY <1>1 DEF Form
  <1> QED  BY <1>5, <1>6 DEF y

\* The question, the removal, and what goes on.
LEMMA AnswerDeleteHolds ==
  ASSUME Form(form, dialog), AnswerDelete
  PROVE  Form(form', dialog') /\ Acts
  <1> DEFINE Back(x) == IF x.status = "not_saved" \/ (x.wasBrowsing /\ ~x.continuous)
                        THEN EnsureBrowseView(x) ELSE x
             many == [form EXCEPT !.multiple = TRUE]
             none == [form EXCEPT !.continuous = FALSE]
  <1>1. /\ dialog = "delete?" /\ Resting(form) /\ Ids(form) /\ form.nrec \in Nat
        /\ form.mode = "deleting" /\ form.status = "not_saved" /\ (form.nrec = 0 => Good(form))
        /\ dialog' = IF form.nrec = 0 THEN "user" ELSE "loop"
    BY DEF AnswerDelete, Form, Resting
  <1>2. Acts  BY <1>1 DEF Acts, AtTable
  <1>3. \/ \E x \in {form, many} : \E o \in Outcomes(x) : form' = Back(AcceptEdition(x, o, TRUE))
        \/ \E x \in {form, none} : form' = Back(x)
    BY DEF AnswerDelete
  <1>4. \A x \in {form, many, none} : Alike(form, x) /\ x.nrec = form.nrec /\ x.rec = form.rec
    BY <1>1 DEF Alike, Ids, Fields, SameTable
  <1>5. ASSUME NEW x, x \in {form, many, none}
        PROVE  /\ Resting(x) /\ x.mode = "deleting" /\ x.status = "not_saved" /\ x.nrec = form.nrec
               /\ (x.nrec = 0 => Good(x))
    <2>1. Alike(form, x) /\ x.nrec = form.nrec /\ x.rec = form.rec  BY <1>4, <1>5
    <2>2. Resting(x)  BY <1>1, <2>1, AlikeResting
    <2>3. Good(form) => Good(x)  BY <2>1 DEF Alike, SameTable, Good, Cursor
    <2> QED  BY <1>1, <2>1, <2>2, <2>3 DEF Alike
  <1> HIDE DEF many, none
  <1>6. CASE \E x \in {form, many} : \E o \in Outcomes(x) : form' = Back(AcceptEdition(x, o, TRUE))
    <2>1. PICK x \in {form, many} : \E o \in Outcomes(x) : form' = Back(AcceptEdition(x, o, TRUE))
      BY <1>6
    <2>2. /\ Resting(x) /\ x.mode = "deleting" /\ x.nrec = form.nrec /\ (x.nrec = 0 => Good(x))
          /\ x.mode \in EditModes
      BY <1>5 DEF EditModes
    <2>3. PICK o \in {"done", "fails", "refused"} : form' = Back(AcceptEdition(x, o, TRUE))
      BY <2>1, <2>2 DEF Outcomes
    <2> DEFINE z == AcceptEdition(x, o, TRUE)
    <2>4. /\ Resting(z) /\ (z.mode \in Browsing => Held(z))
          /\ z.nrec = x.nrec /\ z.mode \in Browsing \cup {"deleting"}
          /\ (z.status = "saved" /\ z.choosing => z.mode \in Browsing)
          /\ (z.status = "not_saved" /\ Good(x) => Good(z))
      BY <2>2, AcceptEffect
    <2>5. form' = Back(z)  BY <2>3
    <2> HIDE DEF z
    <2>6. z.status = "not_saved" /\ z.nrec = 0 => Held(z)  BY <2>2, <2>4 DEF Held
    <2>7. Form(form', IF z.nrec = 0 THEN "user" ELSE "loop")  BY <2>4, <2>5, <2>6, BackForm
    <2> QED  BY <1>1, <1>2, <2>2, <2>4, <2>7
  <1>7. CASE \E x \in {form, none} : form' = Back(x)
    <2>1. PICK x \in {form, none} : form' = Back(x)  BY <1>7
    <2>2. /\ Resting(x) /\ x.mode = "deleting" /\ x.status = "not_saved" /\ x.nrec = form.nrec
          /\ (x.nrec = 0 => Good(x))
      BY <1>5
    <2>3. x.mode \in Browsing \cup {"deleting"} /\ x.mode \notin Browsing /\ (x.nrec = 0 => Held(x))
      BY <2>2 DEF Browsing, Held
    <2>4. Form(form', IF x.nrec = 0 THEN "user" ELSE "loop")  BY <2>1, <2>2, <2>3, BackForm
    <2> QED  BY <1>1, <1>2, <2>2, <2>4
  <1> QED  BY <1>3, <1>6, <1>7

\* Typing, and values that are not valid.
LEMMA EditHolds ==
  ASSUME Form(form, dialog), TypeIn \/ AcceptInvalid
  PROVE  Form(form', dialog') /\ Acts
  <1>1. /\ dialog = "user" /\ dialog' = "user" /\ Resting(form) /\ Ids(form) /\ form.nrec \in Nat
        /\ form.mode \in {"inserting", "duplicating", "updating"}
        /\ \/ form' = [form EXCEPT !.edited = TRUE]
           \/ \E id : form' = [form EXCEPT !.status = "not_saved", !.another = id]
    BY DEF TypeIn, AcceptInvalid, Form, Resting
  <1>2. /\ DOMAIN form' = Fields /\ SameTable(form, form') /\ SameUse(form, form')
        /\ form'.mode = form.mode /\ form'.status \in {"not_saved", form.status}
        /\ form'.browsing = form.browsing /\ form'.mustRefresh = form.mustRefresh
    BY <1>1 DEF Ids, Fields, SameTable, SameUse
  <1>3. Ids(form')  BY <1>1, <1>2 DEF Ids, SameTable
  <1>4. Resting(form')  BY <1>1, <1>2, <1>3 DEF Resting, SameUse
  <1> QED  BY <1>1, <1>2, <1>4 DEF Form, Acts, AtTable, Browsing

\* The accept button of an edition.
LEMMA AcceptFormHolds ==
  ASSUME Form(form, dialog), AcceptForm, "inserting" \notin Refusals
  PROVE  Form(form', dialog') /\ Acts
  <1>1. /\ dialog = "user" /\ dialog' = "user" /\ Resting(form) /\ form.mode \in EditModes
        /\ form.mode \notin Browsing
    BY DEF AcceptForm, Form, Resting
  <1>2. PICK o \in Outcomes(form) : form' = AcceptEdition(form, o, TRUE)
    BY DEF AcceptForm, Answers
  <1>3. o \in {"done", "fails", "refused"}  BY DEF Outcomes
  <1>4. Resting(form') /\ (form'.mode \in Browsing => Held(form'))
    BY <1>1, <1>2, <1>3, AcceptEffect
  <1> QED  BY <1>1, <1>4 DEF Form, Acts, AtTable

\* The accept button of the table.
LEMMA ChooseHolds ==
  ASSUME Form(form, dialog), Choose
  PROVE  Form(form', dialog') /\ Acts
  <1> DEFINE y == ReadIfNeeded(form)
  <1>1. /\ Form(form, "user") /\ form.mode \in Browsing /\ form.rows # <<>> /\ dialog' = "chosen"
        /\ form' = [y EXCEPT !.status = "saved"]
    BY DEF Choose, Browsing
  <1>2. Form(y, "user") /\ Good(y) /\ SameTable(form, y) /\ y.mode = form.mode
    BY <1>1, TableRead
  <1> HIDE DEF y
  <1>3. /\ DOMAIN form' = Fields /\ SameTable(y, form') /\ SameUse(y, form') /\ form'.rec = y.rec
        /\ form'.mode = y.mode /\ form'.status = "saved" /\ form'.browsing = y.browsing
    BY <1>1, <1>2 DEF Form, Resting, Ids, Fields, SameTable, SameUse
  <1>4. Ids(form') /\ Good(form') /\ SameTable(form, form')
    BY <1>2, <1>3 DEF Form, Resting, Ids, SameTable, Good, Cursor
  <1>5. Resting(form')  BY <1>1, <1>2, <1>3, <1>4 DEF Form, Resting, SameUse, Browsing
  <1>6. Acts  BY <1>4, GoodActs DEF Acts
  <1> QED  BY <1>1, <1>5, <1>6 DEF Form

\* An edition that is left has the record read again, or was one that only showed it.
LEMMA CancelFormHolds ==
  ASSUME Form(form, dialog), CancelForm
  PROVE  Form(form', dialog') /\ Acts
  <1>1. dialog = "user" /\ Resting(form) /\ Ids(form) /\ form.nrec \in Nat
    BY DEF CancelForm, Form, Resting
  <1>2. CASE form.mode \in Browsing
    BY <1>1, <1>2 DEF CancelForm, Form, Acts, Browsing
  <1>3. CASE form.mode \notin Browsing
    <2> DEFINE left == IF form.mode = "selecting" \/ form.status = "saved" THEN form
                       ELSE [form EXCEPT !.mustRead = TRUE, !.edited = FALSE, !.continuous = FALSE]
               back == IF form.another = 0 THEN left
                       ELSE [left EXCEPT !.lastID = form.another, !.mustRefresh = TRUE, !.another = 0]
    <2>1. form' = EnsureBrowseView(back) /\ dialog' = "user"  BY <1>1, <1>3 DEF CancelForm
    <2>2. /\ DOMAIN left = Fields /\ SameTable(form, left) /\ SameUse(form, left)
          /\ left.rec = form.rec /\ left.status = form.status /\ left.browsing = form.browsing
          /\ left.mustRefresh = form.mustRefresh
          /\ (left.mustRead \/ form.mode = "selecting" \/ form.status = "saved")
      BY <1>1 DEF Ids, Fields, SameTable, SameUse
    <2> HIDE DEF left
    <2>3. /\ DOMAIN back = Fields /\ SameTable(left, back) /\ SameUse(left, back)
          /\ back.rec = left.rec /\ back.status = left.status /\ back.browsing = left.browsing
          /\ back.mustRead = left.mustRead /\ (left.mustRefresh => back.mustRefresh)
      BY <2>2 DEF Fields, SameTable, SameUse
    <2> HIDE DEF back
    <2>4. Ids(back) /\ ~back.browsing /\ (Good(form) => Good(back))
      BY <1>1, <1>3, <2>2, <2>3 DEF Resting, Ids, SameTable, Good, Cursor
    <2>5. back.mustRefresh \/ Held(back)
      BY <1>1, <1>3, <2>2, <2>3, <2>4 DEF Resting, Held
    <2>6. /\ Ids(form') /\ SameUse(back, form') /\ form'.status = back.status /\ form'.browsing
          /\ form'.mode \in Browsing /\ Held(form')
      BY <2>1, <2>4, <2>5, EnsureBrowseViewEffect
    <2>7. form'.nrec \in Nat /\ form'.status \in {"not_saved", "saved"}
      BY <1>1, <2>2, <2>3, <2>6 DEF Resting, SameUse
    <2>8. Resting(form')  BY <2>6, <2>7 DEF Resting, Browsing
    <2> QED  BY <1>3, <2>1, <2>6, <2>8 DEF Form, Acts, AtTable
  <1> QED  BY <1>2, <1>3

\* Ids are never given again, so what others insert is not under the cursor.
LEMMA OtherWritesHolds ==
  ASSUME Form(form, dialog), OtherWrites
  PROVE  Form(form', dialog') /\ Acts
  <1>1. dialog' = dialog /\ dialog \in {"user", "delete?"} /\ Ids(form) /\ Resting(form)
    BY DEF OtherWrites, Form, Resting
  <1>2. /\ DOMAIN form' = Fields /\ form'.rows = form.rows /\ form'.cur = form.cur
        /\ form'.rec = form.rec /\ SameUse(form, form') /\ form'.mode = form.mode
        /\ form'.status = form.status /\ form'.browsing = form.browsing
        /\ form'.mustRefresh = form.mustRefresh /\ form'.mustRead = form.mustRead
        /\ \/ form'.issued = form.issued /\ form'.stored \subseteq form.stored
           \/ form'.issued = form.issued + 1 /\ form'.stored = form.stored \cup {form.issued + 1}
    BY <1>1 DEF OtherWrites, Ids, Fields, SameUse
  <1>3. Ids(form')  BY <1>1, <1>2 DEF Ids
  <1>4. Cursor(form) # form.issued + 1  BY <1>1 DEF Ids, Cursor
  <1>5. Cursor(form') = Cursor(form)  BY <1>2 DEF Cursor
  <1>6. Good(form) => Good(form')  BY <1>2, <1>4, <1>5 DEF Good
  <1>7. Held(form) => Held(form')  BY <1>2, <1>6 DEF Held
  <1>8. Resting(form')  BY <1>1, <1>2, <1>3, <1>6 DEF Resting, SameUse
  <1>9. Form(form', dialog')  BY <1>1, <1>2, <1>6, <1>7, <1>8 DEF Form, SameUse
  <1> QED  BY <1>1, <1>2, <1>9 DEF Acts, AtTable, Browsing

\* Of a form that chooses nobody else changes the table, or refresh would fill it again
\* while a record of it is looked at.
LEMMA OtherRefreshesHolds ==
  ASSUME Form(form, dialog), OtherRefreshes, "choosing" \notin Shared
  PROVE  Form(form', dialog') /\ Acts
  <1>1. /\ dialog = "user" /\ dialog' = "user" /\ ~form.choosing /\ form' = Refresh(form)
        /\ Resting(form) /\ Ids(form)
    BY DEF OtherRefreshes, IsShared, Form, Resting
  <1>2. CASE form.browsing
    <2>1. /\ Ids(form') /\ SameUse(form, form') /\ form'.mode = form.mode
          /\ form'.status = form.status /\ form'.browsing = form.browsing /\ Held(form')
      BY <1>1, <1>2, RefreshEffect
    <2>2. form'.mode \in Browsing  BY <1>1, <1>2, <2>1 DEF Resting
    <2>3. Resting(form')  BY <1>1, <1>2, <2>1, <2>2 DEF Resting, SameUse, Browsing
    <2> QED  BY <1>1, <2>1, <2>2, <2>3 DEF Form, Acts, Browsing
  <1>3. CASE ~form.browsing
    <2>1. form' = form  BY <1>1, <1>3, RefreshEffect
    <2>2. form.mode \notin Browsing  BY <1>1, <1>3 DEF Resting
    <2> QED  BY <1>1, <2>1, <2>2 DEF Form, Acts, AtTable
  <1> QED  BY <1>2, <1>3

\* The record that a button of the table works on is the one under the cursor, when the
\* application never refuses an insertion and nobody else changes the table in which a
\* record is chosen.
THEOREM ActsOnTheCursor ==
  ASSUME "inserting" \notin Refusals, "choosing" \notin Shared
  PROVE  SpecForm => RecordUnderCursor
  <1>1. InitForm => FormInv  BY InitHolds DEF FormInv
  <1>2. FormInv /\ [NextForm]_formVars => FormInv' /\ [Acts]_formVars
    <2> SUFFICES ASSUME Form(form, dialog), [NextForm]_formVars
                 PROVE  Form(form', dialog') /\ [Acts]_formVars
      BY DEF FormInv
    <2>1. CASE UNCHANGED formVars  BY <2>1 DEF formVars
    <2>2. CASE StepForm
      BY <2>2, MoveCursorHolds, MenuHolds, MenuDeleteHolds, NextSelectedHolds, AnswerDeleteHolds,
         EditHolds, AcceptFormHolds, ChooseHolds, CancelFormHolds, OtherWritesHolds,
         OtherRefreshesHolds DEF StepForm
    <2> QED  BY <2>1, <2>2 DEF NextForm
  <1>3. SpecForm => [][Acts]_formVars  BY <1>1, <1>2, PTL DEF SpecForm
  <1> QED  BY <1>3 DEF RecordUnderCursor, Acts

-------------------------------------------------------------------------------
(* Where the cursor is.                                                      *)

\* What is in order is a list of its set.
LEMMA ListOf ==
  ASSUME NEW S \in SUBSET Nat, IsFiniteSet(S), NEW s, Ordered(s, S)
  PROVE  /\ s \in Seq(Nat) /\ (s = <<>> <=> S = {})
         /\ \A k \in DOMAIN s : s[k] \in S
         /\ \A i, j \in DOMAIN s : i < j => s[i] < s[j]
         /\ \A v \in S : \E k \in DOMAIN s : s[k] = v
  <1> DEFINE n == Cardinality(S)
  <1>1. n \in Nat  BY FS_CardinalityType
  <1>2. s \in [1..n -> S] /\ \A i, j \in 1..n : i < j => s[i] < s[j]  BY DEF Ordered
  <1>3. \A v \in S : \E k \in 1..n : v = s[k]  BY OrderedOnto
  <1> HIDE DEF n
  <1>4. DOMAIN s = 1..n /\ \A k \in 1..n : s[k] \in S  BY <1>2
  <1>5. s \in [1..n -> Nat]  BY <1>2
  <1>6. s \in Seq(Nat) /\ Len(s) = n  BY <1>1, <1>5
  <1>7. s = <<>> <=> S = {}
    <2>1. CASE n = 0
      <3>1. S = {}  BY <1>3, <2>1
      <3>2. s = <<>>  BY <1>6, <2>1
      <3> QED  BY <3>1, <3>2
    <2>2. CASE n # 0
      <3>1. s[1] \in S /\ 1 \in DOMAIN s  BY <1>1, <1>4, <2>2
      <3> QED  BY <1>6, <2>2, <3>1
    <2> QED  BY <2>1, <2>2
  <1> QED  BY <1>2, <1>3, <1>4, <1>6, <1>7

\* The table shows the records of the filter, in order.
LEMMA ShownList ==
  ASSUME NEW x, Ids(x)
  PROVE  LET S == x.stored \cap InView
             s == Shown(x)
         IN  /\ S \in SUBSET Nat /\ IsFiniteSet(S)
             /\ s \in Seq(Nat) /\ (s = <<>> <=> S = {})
             /\ \A k \in DOMAIN s : s[k] \in S
             /\ \A i, j \in DOMAIN s : i < j => s[i] < s[j]
             /\ \A v \in S : \E k \in DOMAIN s : s[k] = v
  <1> DEFINE S == x.stored \cap InView
             s == Sorted(S)
  <1>1. S \in SUBSET Nat /\ IsFiniteSet(S)
    <2>1. S \in SUBSET (1..x.issued) /\ x.issued \in Nat  BY DEF Ids
    <2>2. IsFiniteSet(1..x.issued)  BY <2>1, FS_Interval
    <2> QED  BY <2>1, <2>2, FS_Subset
  <1>2. Shown(x) = s  BY DEF Shown
  <1> HIDE DEF S
  <1>3. \E t : Ordered(t, S)  BY <1>1, SortedExists
  <1>4. Ordered(s, S)  BY <1>3 DEF Ordered, Sorted
  <1> HIDE DEF s
  <1>5. /\ s \in Seq(Nat) /\ (s = <<>> <=> S = {})
        /\ \A k \in DOMAIN s : s[k] \in S
        /\ \A i, j \in DOMAIN s : i < j => s[i] < s[j]
        /\ \A v \in S : \E k \in DOMAIN s : s[k] = v
    BY <1>1, <1>4, ListOf
  <1> QED  BY <1>1, <1>2, <1>5 DEF S

\* The form looks for a record that there is or was; or for none, when there was nothing to
\* show yet and nobody else changes the table.
Remembers(x) ==
  \/ x.lastID \in 1..x.issued
  \/ x.lastID = 0 /\ Shared = {} /\ x.rows = <<>> /\ x.stored \cap InView = {}

\* The cursor is on the record that the form looks for, or on the last row when that one is
\* not there.
AtLast(x) ==
  \/ x.lastID = Cursor(x)
  \/ /\ x.lastID \notin x.stored \cap InView
     /\ \A n \in DOMAIN x.rows : x.rows[n] # x.lastID
     /\ x.cur = Len(x.rows)

\* An object is new when it has no id, and its id is one that was issued.
Object(x) == x.rec.id \in 0..x.issued /\ (x.rec.isNew <=> x.rec.id = 0)

\* The table and its cursor, which is where it should be unless the table is to be filled again.
Place(x) ==
  /\ x.issued \in 0..MaxRecordId /\ x.another \in 0..x.issued
  /\ x.rows \in Seq(Nat) /\ x.cur \in 0..Len(x.rows) /\ (x.cur = 0 <=> x.rows = <<>>)
  /\ Remembers(x) /\ (x.mustRefresh \/ AtLast(x))

\* Between two steps: the table that is shown is filled, nothing is asked over one that is
\* not, there are rows under a removal, and what one left in the edit view is not stored
\* any more.
Placed(x, d) ==
  /\ Place(x) /\ Object(x)
  /\ x.mode \in Browsing => ~x.mustRefresh /\ ~x.tabs
  /\ x.mode = "deleting" => x.rows # <<>>
  /\ d = "delete?" /\ x.nrec = 0 => ~x.mustRefresh
  /\ d = "user" /\ x.mode = "deleting" => x.rec.id \notin x.stored

\* What the place depends on.
SamePlace(x, y) ==
  /\ SameTable(x, y) /\ y.lastID = x.lastID /\ y.another = x.another
  /\ y.mustRefresh = x.mustRefresh

LEMMA PlaceKept ==
  ASSUME NEW x, NEW y, Place(x), SamePlace(x, y)
  PROVE  Place(y)
  BY DEF Place, SamePlace, SameTable, Remembers, AtLast, Cursor

LEMMA SamePlaces ==
  ASSUME NEW x, NEW y, NEW z, SamePlace(x, y), SamePlace(y, z)
  PROVE  SamePlace(x, z)
  BY DEF SamePlace, SameTable

\* To read changes the object alone.
LEMMA ReadPlace ==
  ASSUME NEW x, Ids(x), NEW id
  PROVE  LET y == Read(x, id)
         IN  /\ Ids(y) /\ SamePlace(x, y) /\ Object(y) /\ y.mode = x.mode /\ y.nrec = x.nrec
             /\ y.tabs = x.tabs /\ y.browsing = x.browsing
  <1> DEFINE y == Read(x, id)
  <1>1. /\ DOMAIN y = Fields /\ SamePlace(x, y) /\ y.mode = x.mode /\ y.nrec = x.nrec
        /\ y.tabs = x.tabs /\ y.browsing = x.browsing
    BY DEF Ids, Fields, Read, SamePlace, SameTable
  <1>2. y.rec = IF id \in x.stored THEN [id |-> id, isNew |-> FALSE] ELSE [id |-> 0, isNew |-> TRUE]
    BY DEF Ids, Fields, Read, NewRecord
  <1> HIDE DEF y
  <1>3. y.issued = x.issued /\ x.issued \in Nat /\ (id \in x.stored => id \in 1..x.issued)
    BY <1>1 DEF Ids, SamePlace, SameTable
  <1>4. Object(y)  BY <1>2, <1>3 DEF Object
  <1>5. Ids(y)  BY <1>1 DEF Ids, SamePlace, SameTable
  <1> QED  BY <1>1, <1>4, <1>5 DEF y

LEMMA ReadIfNeededPlace ==
  ASSUME NEW x, Ids(x), Object(x)
  PROVE  LET y == ReadIfNeeded(x)
         IN  /\ Ids(y) /\ SamePlace(x, y) /\ Object(y) /\ y.mode = x.mode /\ y.nrec = x.nrec
             /\ y.tabs = x.tabs /\ y.browsing = x.browsing
  <1>1. CASE x.mustRead  BY <1>1, ReadPlace DEF ReadIfNeeded
  <1>2. CASE ~x.mustRead  BY <1>2 DEF ReadIfNeeded, SamePlace, SameTable
  <1> QED  BY <1>1, <1>2

\* So does the edit view.
LEMMA EditViewPlace ==
  ASSUME NEW x, Ids(x), Object(x)
  PROVE  LET y == EnsureEditView(x)
         IN  /\ Ids(y) /\ SamePlace(x, y) /\ Object(y) /\ y.mode = x.mode /\ y.nrec = x.nrec
             /\ (~x.mustRead => y.rec = x.rec)
  <1> DEFINE got == IF x.mustRead /\ Cursor(x) # 0 THEN Read(x, Cursor(x)) ELSE x
             y == EnsureEditView(x)
  <1>1. /\ Ids(got) /\ SamePlace(x, got) /\ Object(got) /\ got.mode = x.mode /\ got.nrec = x.nrec
        /\ (~x.mustRead => got.rec = x.rec)
    BY ReadPlace DEF SamePlace, SameTable
  <1>2. y = [got EXCEPT !.tabs = TRUE, !.mustRead = FALSE, !.edited = FALSE, !.browsing = FALSE]
    BY DEF EnsureEditView
  <1> HIDE DEF got, y
  <1>3. /\ DOMAIN y = Fields /\ SamePlace(got, y) /\ y.rec = got.rec /\ y.mode = got.mode /\ y.nrec = got.nrec
    BY <1>1, <1>2 DEF Ids, Fields, SamePlace, SameTable
  <1>4. Ids(y) /\ Object(y)  BY <1>1, <1>3 DEF Ids, SamePlace, SameTable, Object
  <1>5. SamePlace(x, y)  BY <1>1, <1>3, SamePlaces
  <1> QED  BY <1>1, <1>3, <1>4, <1>5 DEF y

LEMMA BeginPlace ==
  ASSUME NEW x, Ids(x), Object(x), NEW mode
  PROVE  LET y == Begin(x, mode)
         IN  Ids(y) /\ SamePlace(x, y) /\ Object(y) /\ y.mode = mode /\ y.nrec = x.nrec
  <1> DEFINE b == [x EXCEPT !.mode = mode, !.status = "not_saved", !.wasBrowsing = x.browsing]
             y == EnsureEditView(b)
  <1>1. /\ DOMAIN b = Fields /\ SamePlace(x, b) /\ b.rec = x.rec /\ b.mode = mode /\ b.nrec = x.nrec
    BY DEF Ids, Fields, SamePlace, SameTable
  <1>0. Begin(x, mode) = y  BY DEF Begin
  <1> HIDE DEF b
  <1>2. Ids(b) /\ Object(b)  BY <1>1 DEF Ids, SamePlace, SameTable, Object
  <1>3. Ids(y) /\ SamePlace(b, y) /\ Object(y) /\ y.mode = b.mode /\ y.nrec = b.nrec
    BY <1>2, EditViewPlace
  <1> HIDE DEF y
  <1>4. SamePlace(x, y)  BY <1>1, <1>3, SamePlaces
  <1> QED  BY <1>0, <1>1, <1>3, <1>4

\* The table is filled, and its cursor goes to the record that the form looks for.
LEMMA RefreshPlace ==
  ASSUME NEW x, Ids(x), Place(x), x.browsing \/ x.choosing
  PROVE  LET y == Refresh(x)
         IN  /\ Ids(y) /\ Place(y) /\ ~y.mustRefresh /\ y.rows = Shown(y)
             /\ y.stored = x.stored /\ y.issued = x.issued /\ y.rec = x.rec /\ y.mode = x.mode
             /\ y.nrec = x.nrec /\ y.tabs = x.tabs /\ y.lastID = x.lastID
  <1> DEFINE last == IF x.lastID = 0 THEN Cursor(x) ELSE x.lastID
             rows == Shown(x)
             z == [x EXCEPT !.rows = rows, !.lastID = last,
                            !.cur      = IF rows = <<>> THEN 0 ELSE 1,
                            !.selected = IF rows = <<>> THEN {} ELSE {rows[1]},
                            !.mustRead = @ \/ rows # <<>>]
             S == x.stored \cap InView
             there == {n \in DOMAIN rows : rows[n] = last}
             y == Refresh(x)
  <1>1. last = x.lastID  BY DEF Place, Remembers, Cursor
  <1>2. /\ rows \in Seq(Nat) /\ (rows = <<>> <=> S = {})
        /\ \A k \in DOMAIN rows : rows[k] \in S
        /\ \A v \in S : \E k \in DOMAIN rows : rows[k] = v
    BY ShownList
  <1>3. y = [Sync(z, last) EXCEPT !.mustRefresh = FALSE]  BY DEF Refresh, SetView
  <1> HIDE DEF rows, last
  <1>4. /\ DOMAIN z = Fields /\ z.rows = rows /\ z.cur = (IF rows = <<>> THEN 0 ELSE 1)
        /\ z.lastID = last /\ z.stored = x.stored /\ z.issued = x.issued /\ z.rec = x.rec
        /\ z.mode = x.mode /\ z.nrec = x.nrec /\ z.tabs = x.tabs /\ z.another = x.another
    BY DEF Ids, Fields
  <1> HIDE DEF z, y
  <1>5. /\ DOMAIN y = Fields /\ y.rows = rows /\ ~y.mustRefresh
        /\ y.lastID = last /\ y.stored = x.stored /\ y.issued = x.issued /\ y.rec = x.rec
        /\ y.mode = x.mode /\ y.nrec = x.nrec /\ y.tabs = x.tabs /\ y.another = x.another
        /\ y.cur = IF last = 0 \/ rows = <<>> THEN z.cur
                   ELSE IF there = {} THEN Len(rows) ELSE CHOOSE n \in there : TRUE
    <2> DEFINE row == IF there = {} THEN Len(rows) ELSE CHOOSE n \in there : TRUE
    <2>1. there = {n \in DOMAIN z.rows : z.rows[n] = last}  BY <1>4
    <2>2. Sync(z, last) = IF last = 0 \/ rows = <<>> THEN z
                          ELSE [z EXCEPT !.cur = row, !.selected = {z.rows[row]}, !.mustRead = TRUE]
      BY <1>4, <2>1 DEF Sync
    <2> HIDE DEF row, there
    <2>3. /\ DOMAIN y = Fields /\ y.rows = rows /\ ~y.mustRefresh
          /\ y.lastID = last /\ y.stored = x.stored /\ y.issued = x.issued /\ y.rec = x.rec
          /\ y.mode = x.mode /\ y.nrec = x.nrec /\ y.tabs = x.tabs /\ y.another = x.another
          /\ y.cur = IF last = 0 \/ rows = <<>> THEN z.cur ELSE row
      BY <1>3, <1>4, <2>2 DEF Fields
    <2> QED  BY <2>3 DEF row
  <1>6. Shown(y) = rows  BY <1>5 DEF Shown, rows
  <1>7. y.cur \in 0..Len(rows) /\ (y.cur = 0 <=> rows = <<>>)
    <2>1. Len(rows) \in Nat /\ DOMAIN rows = 1..Len(rows) /\ (rows = <<>> <=> Len(rows) = 0)  BY <1>2
    <2>2. CASE last = 0 \/ rows = <<>>  BY <1>4, <1>5, <2>1, <2>2
    <2>3. CASE last # 0 /\ rows # <<>> /\ there = {}  BY <1>5, <2>1, <2>3
    <2>4. CASE last # 0 /\ rows # <<>> /\ there # {}
      <3>1. (CHOOSE n \in there : TRUE) \in there  BY <2>4
      <3> HIDE DEF there
      <3>2. y.cur \in there  BY <1>5, <2>4, <3>1
      <3>3. y.cur \in 1..Len(rows)  BY <2>1, <3>2 DEF there
      <3> QED  BY <2>1, <2>4, <3>3
    <2> QED  BY <2>2, <2>3, <2>4
  <1>8. Remembers(y)
    <2>1. S = {} => rows = <<>>  BY <1>2
    <2> QED  BY <1>1, <1>5, <2>1 DEF Place, Remembers
  <1>9. AtLast(y)
    <2>1. CASE last = 0
      <3>1. rows = <<>>  BY <1>1, <1>2, <2>1 DEF Place, Remembers
      <3> QED  BY <1>4, <1>5, <2>1, <3>1 DEF AtLast, Cursor
    <2>2. CASE rows = <<>>
      BY <1>2, <1>4, <1>5, <2>2 DEF AtLast
    <2>3. CASE last # 0 /\ rows # <<>> /\ there = {}
      <3>1. \A n \in DOMAIN rows : rows[n] # last  BY <2>3
      <3>2. last \notin S  BY <1>2, <3>1
      <3> QED  BY <1>5, <2>3, <3>1, <3>2 DEF AtLast
    <2>4. CASE last # 0 /\ rows # <<>> /\ there # {}
      <3>1. (CHOOSE n \in there : TRUE) \in there  BY <2>4
      <3> HIDE DEF there
      <3>2. y.cur \in there  BY <1>5, <2>4, <3>1
      <3>3. y.cur \in DOMAIN rows /\ rows[y.cur] = last  BY <3>2 DEF there
      <3> QED  BY <1>5, <3>3 DEF AtLast, Cursor
    <2> QED  BY <2>1, <2>2, <2>3, <2>4
  <1>10. Place(y)  BY <1>2, <1>5, <1>7, <1>8, <1>9 DEF Place
  <1>11. Ids(y)
    <2>1. \A k \in DOMAIN rows : rows[k] \in 1..x.issued  BY <1>2 DEF Ids
    <2> QED  BY <1>5, <2>1 DEF Ids
  <1> QED  BY <1>1, <1>5, <1>6, <1>10, <1>11 DEF y

\* A table that is to be filled again, or was.
Filled(x) == x.mustRefresh \/ x.rows = Shown(x)

\* The way back to the table.
LEMMA BrowseViewPlace ==
  ASSUME NEW x, Ids(x), Place(x)
  PROVE  LET y == EnsureBrowseView(x)
         IN  /\ Ids(y) /\ Place(y) /\ ~y.mustRefresh /\ ~y.tabs /\ (Filled(x) => y.rows = Shown(y))
             /\ y.stored = x.stored /\ y.issued = x.issued /\ y.rec = x.rec /\ y.nrec = x.nrec
             /\ y.lastID = x.lastID
  <1> DEFINE b == IF x.tabs \/ ~x.browsing
                  THEN [x EXCEPT !.mode = IF x.choosing THEN "choosing" ELSE "browsing",
                                 !.tabs = FALSE, !.browsing = TRUE]
                  ELSE x
             y == EnsureBrowseView(x)
  <1>1. /\ DOMAIN b = Fields /\ SamePlace(x, b) /\ b.rec = x.rec /\ b.nrec = x.nrec
        /\ b.browsing /\ ~b.tabs
    BY DEF Ids, Fields, SamePlace, SameTable
  <1>2. y = IF b.mustRefresh THEN Refresh(b) ELSE b  BY DEF EnsureBrowseView
  <1> HIDE DEF b, y
  <1>3. Ids(b) /\ Place(b)  BY <1>1, PlaceKept DEF Ids, SamePlace, SameTable
  <1>4. CASE b.mustRefresh
    <2>1. /\ Ids(y) /\ Place(y) /\ ~y.mustRefresh /\ y.rows = Shown(y)
          /\ y.stored = b.stored /\ y.issued = b.issued /\ y.rec = b.rec
          /\ y.nrec = b.nrec /\ y.tabs = b.tabs /\ y.lastID = b.lastID
      BY <1>1, <1>2, <1>3, <1>4, RefreshPlace
    <2> QED  BY <1>1, <2>1 DEF SamePlace, SameTable, y
  <1>5. CASE ~b.mustRefresh
    <2>1. Filled(x) => b.rows = Shown(b)  BY <1>1, <1>5 DEF Filled, SamePlace, SameTable, Shown
    <2> QED  BY <1>1, <1>2, <1>3, <1>5, <2>1 DEF SamePlace, SameTable, y
  <1> QED  BY <1>4, <1>5

\* A nearest row at or after the cursor, and before it.
LEMMA Nearest ==
  ASSUME NEW n \in Nat, NEW S \in SUBSET (1..n), S # {}
  PROVE  /\ LET m == CHOOSE i \in S : \A k \in S : i <= k IN m \in S /\ \A k \in S : m <= k
         /\ LET m == CHOOSE i \in S : \A k \in S : k <= i IN m \in S /\ \A k \in S : k <= m
  <1>1. S \in SUBSET Nat  OBVIOUS
  <1>2. IsFiniteSet(S)
    <2>1. IsFiniteSet(1..n)  BY FS_Interval
    <2> QED  BY <2>1, FS_Subset
  <1>3. \E m \in S : \A k \in S : m <= k  BY <1>1, <1>2, Least
  <1>4. \E m \in S : \A k \in S : k <= m
    <2>1. S \in SUBSET Int /\ \A k \in S : k \in Nat  BY <1>1
    <2>2. PICK m \in S : \A k \in S : m >= k  BY <1>1, <1>2, <2>1, Greatest
    <2>3. m \in Nat /\ \A k \in S : k <= m  BY <2>1, <2>2
    <2> QED  BY <2>3
  <1> QED  BY <1>3, <1>4

\* Where to go after a removal: to another record of the table, or nowhere.
LEMMA NextIdPlace ==
  ASSUME NEW x, x.rows \in Seq(Nat), x.cur \in DOMAIN x.rows
  PROVE  /\ NextId(x) = x.lastID \/ \E n \in DOMAIN x.rows : NextId(x) = x.rows[n]
         /\ x.rows[x.cur] # x.lastID => NextId(x) = x.rows[x.cur]
         /\ (\A n \in DOMAIN x.rows : x.rows[n] = x.lastID <=> n = x.cur) =>
              NextId(x) = IF x.cur < Len(x.rows) THEN x.rows[x.cur + 1]
                          ELSE IF x.cur > 1 THEN x.rows[x.cur - 1] ELSE x.lastID
  <1> DEFINE len    == Len(x.rows)
             cur    == x.cur
             after  == {n \in cur..len : x.rows[n] # x.lastID}
             before == {n \in 1..(cur - 1) : x.rows[n] # x.lastID}
             first  == CHOOSE n \in after : \A k \in after : n <= k
             last   == CHOOSE n \in before : \A k \in before : k <= n
  <1>0. DOMAIN x.rows = 1..len /\ len \in Nat /\ cur \in 1..len  OBVIOUS
  <1>1. NextId(x) = IF after # {} THEN x.rows[first] ELSE IF before # {} THEN x.rows[last] ELSE x.lastID
    BY DEF NextId
  <1>2. after \in SUBSET (1..len) /\ before \in SUBSET (1..len)
    <2> HIDE DEF len, cur
    <2> QED  BY <1>0
  <1>3. after # {} => first \in after /\ \A k \in after : first <= k
    <2> HIDE DEF after, len
    <2> QED  BY <1>0, <1>2, Nearest
  <1>4. before # {} => last \in before /\ \A k \in before : k <= last
    <2> HIDE DEF before, len
    <2> QED  BY <1>0, <1>2, Nearest
  <1>5. NextId(x) = x.lastID \/ \E n \in DOMAIN x.rows : NextId(x) = x.rows[n]
    <2> HIDE DEF after, before, first, last, len
    <2> QED  BY <1>0, <1>1, <1>2, <1>3, <1>4
  <1>6. ASSUME x.rows[cur] # x.lastID PROVE NextId(x) = x.rows[cur]
    <2> HIDE DEF first, last, len, cur
    <2>1. cur \in after  BY <1>0, <1>6
    <2>2. first \in after /\ first <= cur  BY <1>3, <2>1
    <2>3. first \in Nat /\ cur \in Nat /\ cur <= first  BY <1>0, <2>2
    <2>4. first = cur  BY <2>2, <2>3
    <2> QED  BY <1>1, <2>1, <2>4
  <1>7. ASSUME \A n \in DOMAIN x.rows : x.rows[n] = x.lastID <=> n = x.cur
        PROVE  NextId(x) = IF cur < len THEN x.rows[cur + 1] ELSE IF cur > 1 THEN x.rows[cur - 1] ELSE x.lastID
    <2>0. \A n \in 1..len : x.rows[n] = x.lastID <=> n = cur  BY <1>0, <1>7
    <2> HIDE DEF first, last, len, cur
    <2>1. after = (cur + 1)..len /\ before = 1..(cur - 1)  BY <1>0, <2>0
    <2>2. CASE cur < len
      <3>1. cur + 1 \in after  BY <1>0, <2>1, <2>2
      <3>2. first \in after /\ first <= cur + 1  BY <1>3, <3>1
      <3>3. first = cur + 1
        <4> HIDE DEF after
        <4> QED  BY <1>0, <2>1, <3>2
      <3> QED  BY <1>1, <2>2, <3>1, <3>3
    <2>3. CASE ~(cur < len)
      <3>1. after = {}  BY <1>0, <2>1, <2>3
      <3>2. CASE cur > 1
        <4>1. cur - 1 \in before  BY <1>0, <2>1, <3>2
        <4>2. last \in before /\ cur - 1 <= last  BY <1>4, <4>1
        <4>3. last = cur - 1
          <5> HIDE DEF before
          <5> QED  BY <1>0, <2>1, <4>2
        <4> QED  BY <1>1, <2>3, <3>1, <3>2, <4>1, <4>3
      <3>3. CASE ~(cur > 1)
        <4>1. before = {}  BY <1>0, <2>1, <3>3
        <4> QED  BY <1>1, <2>3, <3>1, <3>3, <4>1
      <3> QED  BY <3>2, <3>3
    <2> QED  BY <2>2, <2>3
  <1> QED  BY <1>5, <1>6, <1>7

\* What is shown at the end of an edition.
Settled(y) == y.mode \in Browsing => ~y.mustRefresh /\ ~y.tabs

\* After something was saved or removed, and the table is still to be filled again.
LEMMA SavedPlace ==
  ASSUME NEW x, Ids(x), Place(x), Object(x), x.mode \in EditModes, ~x.browsing,
         x.choosing => x.wasBrowsing
  PROVE  LET y == Saved(x, TRUE)
         IN  /\ Ids(y) /\ Place(y) /\ Object(y) /\ Settled(y) /\ y.nrec = x.nrec
             /\ (y.mode \notin Browsing => y.rows = x.rows /\ y.mode = x.mode)
             /\ (x.mode # "inserting" => y.rec = x.rec)
             /\ y.stored = x.stored
             /\ (x.mode # "inserting" /\ x.mustRefresh => Filled(y) /\ y.lastID = x.lastID)
  <1> DEFINE z == [x EXCEPT !.another = 0, !.mustRead = FALSE, !.edited = FALSE, !.status = "saved",
                            !.mode = IF x.choosing THEN "choosing" ELSE @]
             y == Saved(x, TRUE)
  <1>1. /\ DOMAIN z = Fields /\ SameTable(x, z) /\ z.lastID = x.lastID /\ z.another = 0
        /\ z.mustRefresh = x.mustRefresh /\ z.rec = x.rec /\ z.nrec = x.nrec /\ ~z.mustRead
        /\ z.wasBrowsing = x.wasBrowsing /\ z.choosing = x.choosing /\ ~z.browsing
        /\ z.mode = IF x.choosing THEN "choosing" ELSE x.mode
    BY DEF Ids, Fields, SameTable
  <1>2. y = IF z.continuous /\ z.mode = "inserting"
              THEN IF MayAdd(z) THEN BeginInserting([z EXCEPT !.browsing = z.wasBrowsing], TRUE) ELSE z
            ELSE IF z.continuous /\ z.mode = "deleting" THEN z
            ELSE IF z.wasBrowsing THEN EnsureBrowseView(z) ELSE EnsureEditView(z)
    BY DEF Saved
  <1> HIDE DEF z, y
  <1>3. Ids(z) /\ Object(z)  BY <1>1 DEF Ids, SameTable, Object
  <1>4. Place(z)  BY <1>1 DEF Place, SameTable, Remembers, AtLast, Cursor
  <1>5. CASE y = z /\ z.mode \in {"inserting", "deleting"}
    <2>1. z.mode = x.mode /\ z.mode \notin Browsing  BY <1>1, <1>5 DEF Browsing
    <2> QED  BY <1>1, <1>3, <1>4, <1>5, <2>1 DEF SameTable, Settled, Filled, y
  <1>6. CASE z.mode = "inserting" /\ y = BeginInserting([z EXCEPT !.browsing = z.wasBrowsing], TRUE)
    <2> DEFINE b == [z EXCEPT !.browsing = z.wasBrowsing]
               c == [[b EXCEPT !.mustRead = FALSE, !.rec = NewRecord] EXCEPT !.continuous = TRUE]
    <2>1. x.mode = "inserting"  BY <1>1, <1>6
    <2>2. /\ DOMAIN c = Fields /\ SamePlace(z, c) /\ c.nrec = z.nrec /\ c.rec = NewRecord
      BY <1>1 DEF Fields, SamePlace, SameTable
    <2>3. y = Begin(c, "inserting")  BY <1>6 DEF BeginInserting
    <2> HIDE DEF c
    <2>4. Ids(c)  BY <1>3, <2>2 DEF Ids, SamePlace, SameTable
    <2>5. Object(c)  BY <2>2, <2>4 DEF Ids, Object, NewRecord
    <2>6. Ids(y) /\ SamePlace(c, y) /\ Object(y) /\ y.mode = "inserting" /\ y.nrec = c.nrec
      BY <2>3, <2>4, <2>5, BeginPlace
    <2>7. SamePlace(z, y)  BY <2>2, <2>6, SamePlaces
    <2>8. Place(y)  BY <1>4, <2>7, PlaceKept
    <2> QED  BY <1>1, <2>1, <2>2, <2>6, <2>7, <2>8 DEF SamePlace, SameTable, Settled, Browsing, y
  <1>7. CASE z.wasBrowsing /\ y = EnsureBrowseView(z)
    <2>1. /\ Ids(y) /\ Place(y) /\ ~y.mustRefresh /\ ~y.tabs /\ (Filled(z) => y.rows = Shown(y))
          /\ y.stored = z.stored /\ y.issued = z.issued /\ y.rec = z.rec /\ y.nrec = z.nrec
          /\ y.lastID = z.lastID
      BY <1>3, <1>4, <1>7, BrowseViewPlace
    <2>2. y.mode \in Browsing
      BY <1>1, <1>3, <1>7, EnsureBrowseViewEffect
    <2>3. Object(y)  BY <1>3, <2>1 DEF Object
    <2> QED  BY <1>1, <2>1, <2>2, <2>3 DEF SameTable, Settled, Filled, y
  <1>8. CASE ~z.wasBrowsing /\ y = EnsureEditView(z)
    <2>1. z.mode = x.mode /\ z.mode \notin Browsing  BY <1>1, <1>8 DEF EditModes, Browsing
    <2>2. /\ Ids(y) /\ SamePlace(z, y) /\ Object(y) /\ y.mode = z.mode /\ y.nrec = z.nrec
          /\ y.rec = z.rec
      BY <1>1, <1>3, <1>8, EditViewPlace
    <2>3. Place(y)  BY <1>4, <2>2, PlaceKept
    <2> QED  BY <1>1, <2>1, <2>2, <2>3 DEF SamePlace, SameTable, Settled, Filled, y
  <1> QED  BY <1>2, <1>5, <1>6, <1>7, <1>8

\* Whatever accept meets.
LEMMA AcceptPlace ==
  ASSUME NEW x, Resting(x), Place(x), Object(x), x.mode \in EditModes,
         x.mode = "deleting" => x.rows # <<>>, NEW outcome \in Outcomes(x)
  PROVE  LET y == AcceptEdition(x, outcome, TRUE)
         IN  /\ Ids(y) /\ Place(y) /\ Object(y) /\ Settled(y) /\ y.nrec = x.nrec
             /\ (y.mode = "deleting" => y.rows = x.rows /\ x.mode = "deleting")
             /\ (x.mode = "deleting" =>
                   /\ y.rec = x.rec
                   /\ \/ y.stored = x.stored /\ y.status = "not_saved"
                      \/ /\ y.stored = x.stored \ {x.rec.id} /\ y.lastID = NextId(x) /\ Filled(y))
  <1> DEFINE n == [x EXCEPT !.status = "not_saved"]
             y == AcceptEdition(x, outcome, TRUE)
  <1>0. ~x.browsing /\ (x.choosing => x.wasBrowsing) /\ x.mode \notin Browsing /\ Ids(x)
    BY DEF Resting, EditModes, Browsing
  <1>1. /\ DOMAIN n = Fields /\ SamePlace(x, n) /\ n.rec = x.rec /\ n.mode = x.mode /\ n.nrec = x.nrec
        /\ n.status = "not_saved" /\ n.browsing = x.browsing /\ n.choosing = x.choosing
        /\ n.wasBrowsing = x.wasBrowsing
    BY <1>0 DEF Ids, Fields, SamePlace, SameTable
  <1>2. Ids(n) /\ Object(n) /\ Place(n)
    BY <1>0, <1>1, PlaceKept DEF Ids, Object, SamePlace, SameTable
  <1>3. CASE outcome \in {"fails", "refused"}
    <2> DEFINE e == [n EXCEPT !.edited = FALSE]
    <2>1. y = n \/ y = e  BY <1>3 DEF AcceptEdition
    <2> HIDE DEF n
    <2>2. /\ DOMAIN e = Fields /\ SamePlace(n, e) /\ e.rec = n.rec /\ e.mode = n.mode /\ e.nrec = n.nrec
          /\ e.status = "not_saved"
      BY <1>1 DEF Fields, SamePlace, SameTable
    <2>3. Ids(e) /\ Object(e) /\ Place(e)
      BY <1>2, <2>2, PlaceKept DEF Ids, Object, SamePlace, SameTable
    <2> HIDE DEF e, y
    <2>4. /\ Ids(y) /\ Place(y) /\ Object(y) /\ y.nrec = x.nrec /\ y.mode = x.mode /\ y.rows = x.rows
          /\ y.rec = x.rec /\ y.stored = x.stored /\ y.status = "not_saved"
      BY <1>1, <1>2, <2>1, <2>2, <2>3 DEF SamePlace, SameTable
    <2> QED  BY <1>0, <2>4 DEF Settled, y
  <1>4. CASE outcome = "done" /\ x.mode \in {"inserting", "duplicating", "updating"}
    <2> DEFINE id == IF n.rec.isNew THEN n.issued + 1 ELSE n.rec.id
               s == SaveRecord(n)
    <2>1. y = Saved(s, TRUE)  BY <1>4 DEF AcceptEdition
    <2>0. x.rec.isNew => x.issued # MaxRecordId  BY <1>4 DEF Outcomes
    <2> HIDE DEF n
    <2>2. /\ DOMAIN s = Fields /\ s.mode = n.mode /\ s.browsing = n.browsing /\ s.choosing = n.choosing
          /\ s.wasBrowsing = n.wasBrowsing /\ s.nrec = n.nrec
          /\ s.mustRefresh /\ s.rows = n.rows /\ s.cur = n.cur /\ s.another = n.another
          /\ s.lastID = id /\ s.rec = [id |-> id, isNew |-> FALSE]
          /\ s.stored = (IF n.rec.isNew THEN n.stored \cup {n.issued + 1} ELSE n.stored)
          /\ s.issued = (IF n.rec.isNew THEN n.issued + 1 ELSE n.issued)
      BY <1>1 DEF Fields, SaveRecord
    <2>3. s.issued \in Nat /\ n.issued <= s.issued /\ s.issued <= MaxRecordId /\ id \in 1..s.issued
      <3>1. n.issued \in Nat /\ n.issued <= MaxRecordId /\ n.rec.id \in 0..n.issued
            /\ (n.rec.isNew <=> n.rec.id = 0)
        BY <1>2 DEF Ids, Place, Object
      <3>2. n.rec.isNew => n.issued # MaxRecordId  BY <1>1, <2>0 DEF SamePlace, SameTable
      <3> QED  BY <2>2, <3>1, <3>2, FormAssumption
    <2> HIDE DEF s, id
    <2>4. Ids(s)
      <3>1. s.stored \subseteq 1..s.issued  BY <1>2, <2>2, <2>3 DEF Ids
      <3>2. \A k \in DOMAIN s.rows : s.rows[k] \in 1..s.issued  BY <1>2, <2>2, <2>3 DEF Ids
      <3> QED  BY <2>2, <2>3, <3>1, <3>2 DEF Ids
    <2>5. Object(s)  BY <2>2, <2>3 DEF Object
    <2>6. Place(s)
      <3>1. s.issued \in 0..MaxRecordId /\ s.another \in 0..s.issued
        BY <1>2, <2>2, <2>3, FormAssumption DEF Place
      <3>2. Remembers(s)  BY <2>2, <2>3 DEF Remembers
      <3> QED  BY <1>2, <2>2, <3>1, <3>2 DEF Place
    <2>7. s.mode \in EditModes /\ ~s.browsing /\ (s.choosing => s.wasBrowsing) /\ s.nrec = x.nrec
          /\ s.mode = x.mode
      BY <1>0, <1>1, <2>2
    <2> HIDE DEF y
    <2>8. /\ Ids(y) /\ Place(y) /\ Object(y) /\ Settled(y) /\ y.nrec = s.nrec
          /\ (y.mode \notin Browsing => y.rows = s.rows /\ y.mode = s.mode)
      BY <2>1, <2>4, <2>5, <2>6, <2>7, SavedPlace
    <2> QED  BY <1>4, <2>7, <2>8 DEF Browsing, y
  <1>5. CASE outcome = "done" /\ x.mode = "deleting"
    <2> DEFINE s == [n EXCEPT !.stored = @ \ {x.rec.id}, !.lastID = NextId(x), !.mustRefresh = TRUE]
    <2>1. y = Saved(s, TRUE)  BY <1>5 DEF AcceptEdition
    <2> HIDE DEF n
    <2>2. /\ DOMAIN s = Fields /\ s.mode = n.mode /\ s.browsing = n.browsing /\ s.choosing = n.choosing
          /\ s.wasBrowsing = n.wasBrowsing /\ s.nrec = n.nrec
          /\ s.mustRefresh /\ s.rows = n.rows /\ s.cur = n.cur /\ s.another = n.another
          /\ s.lastID = NextId(x) /\ s.rec = n.rec
          /\ s.stored = n.stored \ {x.rec.id} /\ s.issued = n.issued
      BY <1>1 DEF Fields
    <2> HIDE DEF s
    <2>3. Ids(s) /\ Object(s)  BY <1>2, <2>2 DEF Ids, Object
    <2>4. NextId(x) = x.lastID \/ \E k \in DOMAIN x.rows : NextId(x) = x.rows[k]
      <3>1. x.rows \in Seq(Nat) /\ x.cur \in 1..Len(x.rows)  BY <1>5 DEF Place
      <3>2. x.cur \in DOMAIN x.rows  BY <3>1
      <3> QED  BY <3>1, <3>2, NextIdPlace
    <2>5. Remembers(s)
      <3>0. x.rows # <<>>  BY <1>5
      <3>1. x.lastID \in 1..x.issued  BY <3>0 DEF Place, Remembers
      <3>2. NextId(x) \in 1..x.issued  BY <1>0, <2>4, <3>1 DEF Ids
      <3> QED  BY <1>1, <2>2, <3>2 DEF Remembers, SamePlace, SameTable
    <2>6. Place(s)  BY <1>2, <2>2, <2>5 DEF Place
    <2>7. s.mode \in EditModes /\ ~s.browsing /\ (s.choosing => s.wasBrowsing) /\ s.nrec = x.nrec
          /\ s.mode = "deleting" /\ s.rows = x.rows /\ s.rec = x.rec /\ s.stored = x.stored \ {x.rec.id}
      BY <1>0, <1>1, <1>5, <2>2 DEF SamePlace, SameTable
    <2> HIDE DEF y
    <2>8. /\ Ids(y) /\ Place(y) /\ Object(y) /\ Settled(y) /\ y.nrec = s.nrec
          /\ (y.mode \notin Browsing => y.rows = s.rows /\ y.mode = s.mode)
          /\ y.rec = s.rec /\ y.stored = s.stored /\ Filled(y) /\ y.lastID = s.lastID
      BY <2>1, <2>2, <2>3, <2>6, <2>7, SavedPlace
    <2> QED  BY <1>5, <2>2, <2>7, <2>8 DEF Browsing, y
  <1>6. CASE outcome = "done" /\ x.mode = "selecting"
    <2>1. y = Saved(n, TRUE)  BY <1>6 DEF AcceptEdition
    <2> HIDE DEF n, y
    <2>2. n.mode \in EditModes /\ ~n.browsing /\ (n.choosing => n.wasBrowsing) /\ n.nrec = x.nrec
          /\ n.mode = x.mode
      BY <1>0, <1>1
    <2>3. /\ Ids(y) /\ Place(y) /\ Object(y) /\ Settled(y) /\ y.nrec = n.nrec
          /\ (y.mode \notin Browsing => y.rows = n.rows /\ y.mode = n.mode)
      BY <1>2, <2>1, <2>2, SavedPlace
    <2> QED  BY <1>6, <2>2, <2>3 DEF Browsing, y
  <1>7. outcome \in {"done", "fails", "refused"}  BY DEF Outcomes
  <1> QED  BY <1>3, <1>4, <1>5, <1>6, <1>7 DEF EditModes

\* What NeighbourAfterDelete says of a form and of the one after it.
Neighbour(x, y) ==
  LET i    == CHOOSE n \in DOMAIN x.rows : x.rows[n] = x.rec.id
      next == IF i < Len(x.rows) THEN x.rows[i + 1] ELSE IF i > 1 THEN x.rows[i - 1] ELSE 0
  IN  Cursor(y) = next

\* A removal over a table that is up to date, whose cursor is where it should be.
LEMMA NeighbourOf ==
  ASSUME NEW x, Ids(x), Place(x), ~x.mustRefresh, x.rows = Shown(x), x.rows # <<>>,
         x.rec.id = Cursor(x),
         NEW y, Ids(y), Place(y), ~y.mustRefresh, y.rows = Shown(y),
         y.stored = x.stored \ {x.rec.id}, y.lastID = NextId(x)
  PROVE  Neighbour(x, y)
  <1> DEFINE len == Len(x.rows)
             cur == x.cur
             id  == x.rec.id
             S   == x.stored \cap InView
             i   == CHOOSE n \in DOMAIN x.rows : x.rows[n] = id
             nid == NextId(x)
  <1>1. /\ S \in SUBSET Nat /\ x.rows \in Seq(Nat)
        /\ \A k \in DOMAIN x.rows : x.rows[k] \in S
        /\ \A k, j \in DOMAIN x.rows : k < j => x.rows[k] < x.rows[j]
        /\ \A v \in S : \E k \in DOMAIN x.rows : x.rows[k] = v
    <2> DEFINE got == Shown(x)
    <2>1. /\ S \in SUBSET Nat /\ got \in Seq(Nat)
          /\ \A k \in DOMAIN got : got[k] \in S
          /\ \A k, j \in DOMAIN got : k < j => got[k] < got[j]
          /\ \A v \in S : \E k \in DOMAIN got : got[k] = v
      BY ShownList
    <2>2. x.rows = got  OBVIOUS
    <2> HIDE DEF got
    <2> QED  BY <2>1, <2>2
  <1>2. DOMAIN x.rows = 1..len /\ len \in Nat /\ cur \in 1..len  BY <1>1 DEF Place
  <1>3. id = x.rows[cur] /\ id \in S /\ id \in Nat  BY <1>1, <1>2 DEF Cursor
  <1>4. \A n \in DOMAIN x.rows : x.rows[n] = id <=> n = cur
    <2> SUFFICES ASSUME NEW n \in DOMAIN x.rows, x.rows[n] = id, n # cur PROVE FALSE  BY <1>3
    <2>1. n < cur \/ cur < n  BY <1>2
    <2>2. x.rows[n] < x.rows[cur] \/ x.rows[cur] < x.rows[n]  BY <1>1, <1>2, <2>1
    <2> QED  BY <1>3, <2>2
  <1>5. i = cur
    <2>1. \E n \in DOMAIN x.rows : x.rows[n] = id  BY <1>2, <1>3
    <2>2. i \in DOMAIN x.rows /\ x.rows[i] = id  BY <2>1
    <2> HIDE DEF i
    <2> QED  BY <1>4, <2>2
  <1> DEFINE T == y.stored \cap InView
  <1>6. T = S \ {id}  OBVIOUS
  <1>7. /\ T \in SUBSET Nat /\ y.rows \in Seq(Nat) /\ (y.rows = <<>> <=> T = {})
        /\ \A k \in DOMAIN y.rows : y.rows[k] \in T
        /\ \A k, j \in DOMAIN y.rows : k < j => y.rows[k] < y.rows[j]
        /\ \A v \in T : \E k \in DOMAIN y.rows : y.rows[k] = v
    <2> DEFINE got == Shown(y)
    <2>1. /\ T \in SUBSET Nat /\ got \in Seq(Nat) /\ (got = <<>> <=> T = {})
          /\ \A k \in DOMAIN got : got[k] \in T
          /\ \A k, j \in DOMAIN got : k < j => got[k] < got[j]
          /\ \A v \in T : \E k \in DOMAIN got : got[k] = v
      BY ShownList
    <2>2. y.rows = got  OBVIOUS
    <2> HIDE DEF got
    <2> QED  BY <2>1, <2>2
  <1>8. DOMAIN y.rows = 1..Len(y.rows) /\ Len(y.rows) \in Nat /\ y.cur \in 0..Len(y.rows)
        /\ (y.cur = 0 <=> y.rows = <<>>)
    BY <1>7 DEF Place
  <1>9. \/ y.lastID = Cursor(y)
        \/ y.lastID \notin T /\ y.cur = Len(y.rows)
    BY DEF Place, AtLast
  <1>10. \/ x.lastID = id
         \/ /\ \A n \in DOMAIN x.rows : x.rows[n] # x.lastID
            /\ cur = len
    BY DEF Place, AtLast
  <1>11. /\ x.rows[cur] # x.lastID => nid = x.rows[cur]
         /\ (\A n \in DOMAIN x.rows : x.rows[n] = x.lastID <=> n = cur) =>
              nid = IF cur < len THEN x.rows[cur + 1]
                    ELSE IF cur > 1 THEN x.rows[cur - 1] ELSE x.lastID
    BY <1>1, <1>2, NextIdPlace
  <1>12. Neighbour(x, y) <=>
           Cursor(y) = (IF cur < len THEN x.rows[cur + 1] ELSE IF cur > 1 THEN x.rows[cur - 1] ELSE 0)
    BY <1>5 DEF Neighbour
  <1>13. Cursor(y) = IF y.rows = <<>> THEN 0 ELSE y.rows[y.cur]  BY <1>8 DEF Cursor
  <1>14. y.lastID = nid  OBVIOUS
  <1>15. y.rows # <<>> => Cursor(y) \in T  BY <1>7, <1>8, <1>13
  <1> HIDE DEF len, cur, id, S, T, i, nid
  <1>16. ASSUME NEW v \in T, y.lastID = v PROVE Cursor(y) = v  BY <1>9, <1>16
  <1>17. ASSUME NEW k \in 1..len, k # cur PROVE x.rows[k] \in T
    BY <1>1, <1>2, <1>4, <1>6, <1>17
  \* No other row: the table is empty now.
  <1>18. CASE len = 1
    <2>1. cur = 1  BY <1>2, <1>18
    <2>2. \A v \in S : v = id  BY <1>1, <1>2, <1>3, <1>18
    <2>3. T = {}  BY <1>6, <2>2
    <2> QED  BY <1>7, <1>12, <1>13, <1>18, <2>1, <2>3
  \* The form looked for the record: now it looks for the next one.
  <1>19. CASE len # 1 /\ x.lastID = id
    <2>1. nid = IF cur < len THEN x.rows[cur + 1] ELSE IF cur > 1 THEN x.rows[cur - 1] ELSE x.lastID
      BY <1>4, <1>11, <1>19
    <2>2. CASE cur < len
      <3>1. x.rows[cur + 1] \in T  BY <1>2, <1>17, <2>2
      <3> QED  BY <1>12, <1>14, <1>16, <2>1, <2>2, <3>1
    <2>3. CASE ~(cur < len)
      <3>1. cur > 1 /\ cur = len  BY <1>2, <1>19, <2>3
      <3>2. x.rows[cur - 1] \in T  BY <1>2, <1>17, <3>1
      <3> QED  BY <1>12, <1>14, <1>16, <2>1, <2>3, <3>1, <3>2
    <2> QED  BY <2>2, <2>3
  \* It looked for one that was not there: the cursor goes from the last row to the last row.
  <1>20. CASE len # 1 /\ x.lastID # id
    <2>1. cur = len /\ \A n \in DOMAIN x.rows : x.rows[n] # x.lastID  BY <1>10, <1>20
    <2>2. nid = id  BY <1>2, <1>3, <1>11, <2>1
    <2>3. cur > 1 /\ cur - 1 \in 1..len /\ cur - 1 # cur  BY <1>2, <1>20, <2>1
    <2>4. x.rows[cur - 1] \in T /\ T # {}  BY <1>17, <2>3
    <2>5. y.rows # <<>> /\ y.lastID \notin T  BY <1>6, <1>7, <1>14, <2>2, <2>4
    <2>6. y.cur = Len(y.rows) /\ Cursor(y) = y.rows[y.cur] /\ y.cur \in DOMAIN y.rows
      BY <1>8, <1>9, <1>13, <1>15, <2>5
    <2>7. PICK k \in DOMAIN y.rows : y.rows[k] = x.rows[cur - 1]  BY <1>7, <2>4
    <2>8. k = y.cur \/ y.rows[k] < y.rows[y.cur]  BY <1>7, <1>8, <2>6
    <2>9. y.rows[y.cur] \in T  BY <1>7, <2>6
    <2>10. y.rows[y.cur] \in S /\ y.rows[y.cur] # id  BY <1>6, <2>9
    <2>11. PICK j \in DOMAIN x.rows : x.rows[j] = y.rows[y.cur]  BY <1>1, <2>10
    <2>12. j # cur /\ j \in 1..len  BY <1>2, <1>3, <2>10, <2>11
    <2>13. j <= cur - 1  BY <1>2, <2>1, <2>12
    <2>14. j = cur - 1 \/ x.rows[j] < x.rows[cur - 1]  BY <1>1, <1>2, <2>3, <2>12, <2>13
    <2>15. x.rows[j] \in Nat /\ x.rows[cur - 1] \in Nat  BY <1>1, <1>2, <2>3, <2>12
    <2>16. x.rows[j] = x.rows[cur - 1]  BY <2>7, <2>8, <2>11, <2>14, <2>15
    <2>17. Cursor(y) = x.rows[cur - 1]  BY <2>6, <2>11, <2>16
    <2>18. ~(cur < len)  BY <1>2, <2>1
    <2> QED  BY <1>12, <2>3, <2>17, <2>18
  <1> QED  BY <1>18, <1>19, <1>20

-------------------------------------------------------------------------------
(* The steps.                                                                *)

\* The initial states, of a form with something to show or with nobody else.
LEMMA InitPlaced ==
  ASSUME InitForm, (1..FirstRecords) \cap InView # {} \/ Shared = {}
  PROVE  Placed(form, dialog)
  <1> DEFINE S == (1..FirstRecords) \cap InView
             rows == Sorted(S)
  <1>1. PICK m \in StartModes, cur \in IF rows = <<>> THEN {0} ELSE DOMAIN rows :
          form = NewForm(m, rows, cur)
    BY DEF InitForm
  <1>2. dialog = "user" /\ FirstRecords \in 0..MaxRecordId /\ MaxRecordId \in Nat /\ m \in Browsing
    BY FormAssumption DEF InitForm, Browsing
  <1>3. S \in SUBSET Nat /\ IsFiniteSet(S) /\ S \subseteq 1..FirstRecords
    <2>1. IsFiniteSet(1..FirstRecords)  BY <1>2, FS_Interval
    <2>2. S \subseteq 1..FirstRecords  OBVIOUS
    <2> HIDE DEF S
    <2>3. IsFiniteSet(S)  BY <2>1, <2>2, FS_Subset
    <2> QED  BY <1>2, <2>2, <2>3
  <1>4. S # {} \/ Shared = {}  OBVIOUS
  <1>5. form.stored \cap InView = S  BY <1>1 DEF NewForm
  <1> HIDE DEF S
  <1>6. rows \in Seq(Nat) /\ (rows = <<>> <=> S = {}) /\ \A k \in DOMAIN rows : rows[k] \in S
    <2>1. \E t : Ordered(t, S)  BY <1>3, SortedExists
    <2>2. Ordered(rows, S)  BY <2>1 DEF Ordered, Sorted
    <2> HIDE DEF rows
    <2> QED  BY <1>3, <2>2, ListOf
  <1> HIDE DEF rows
  <1>7. /\ form.stored = 1..FirstRecords /\ form.issued = FirstRecords /\ form.another = 0
        /\ form.rows = rows /\ form.mode = m /\ ~form.tabs /\ ~form.mustRefresh
        /\ form.rec = NewRecord /\ form.cur = cur
        /\ form.lastID = IF rows = <<>> THEN 0 ELSE rows[cur]
    BY <1>1 DEF NewForm
  <1>8. cur \in 0..Len(rows) /\ (cur = 0 <=> rows = <<>>) /\ (rows # <<>> => cur \in DOMAIN rows)
    BY <1>6
  <1>9. Remembers(form) /\ AtLast(form)
    <2>1. CASE rows = <<>>  BY <1>4, <1>5, <1>6, <1>7, <1>8, <2>1 DEF Remembers, AtLast, Cursor
    <2>2. CASE rows # <<>>
      <3>1. rows[cur] \in 1..FirstRecords  BY <1>3, <1>6, <1>8, <2>2
      <3> QED  BY <1>7, <1>8, <2>2, <3>1 DEF Remembers, AtLast, Cursor
    <2> QED  BY <2>1, <2>2
  <1>10. Place(form)  BY <1>2, <1>6, <1>7, <1>8, <1>9 DEF Place
  <1>11. Object(form)  BY <1>2, <1>7 DEF Object, NewRecord
  <1> QED  BY <1>2, <1>7, <1>10, <1>11 DEF Placed, Browsing

\* Most steps remove nothing in an edition that they end.
LEMMA NothingRemoved ==
  ASSUME form'.stored = form.stored \/ form'.mode \notin Browsing \/ form.mode # "deleting"
  PROVE  NeighbourAfterDelete
  BY DEF NeighbourAfterDelete

LEMMA MoveCursorPlaced ==
  ASSUME Form(form, dialog), Placed(form, dialog), MoveCursor \/ SelectRows
  PROVE  Placed(form', dialog') /\ NeighbourAfterDelete
  <1>1. PICK n \in DOMAIN form.rows : \E S :
          form' = [form EXCEPT !.cur = n, !.selected = S, !.mustRead = TRUE, !.lastID = form.rows[n]]
    BY DEF MoveCursor, SelectRows
  <1>2. dialog' = dialog /\ dialog = "user" /\ form.mode \in Browsing /\ Ids(form) /\ Place(form) /\ Object(form)
        /\ ~form.mustRefresh /\ ~form.tabs
    BY DEF MoveCursor, SelectRows, AtTable, Form, Resting, Placed
  <1>3. /\ DOMAIN form' = Fields /\ form'.stored = form.stored /\ form'.issued = form.issued
        /\ form'.rows = form.rows /\ form'.another = form.another /\ form'.rec = form.rec
        /\ form'.mode = form.mode /\ form'.tabs = form.tabs /\ form'.mustRefresh = form.mustRefresh
        /\ form'.cur = n /\ form'.lastID = form.rows[n]
    BY <1>1, <1>2 DEF Ids, Fields
  <1>4. form.rows[n] \in 1..form.issued /\ form.rows \in Seq(Nat) /\ n \in 1..Len(form.rows)
    BY <1>2 DEF Ids, Place
  <1>5. Place(form')  BY <1>2, <1>3, <1>4 DEF Place, Remembers, AtLast, Cursor
  <1>6. Object(form')  BY <1>2, <1>3 DEF Object
  <1>7. NeighbourAfterDelete  BY <1>3, NothingRemoved
  <1> QED  BY <1>2, <1>3, <1>5, <1>6, <1>7 DEF Placed, Browsing

\* The menus, but for the removals.
LEMMA MenuPlaced ==
  ASSUME Form(form, dialog), Placed(form, dialog), Menu, "inserting" \notin Refusals
  PROVE  Placed(form', dialog') /\ NeighbourAfterDelete
  <1> DEFINE y == ReadIfNeeded(form)
             c == [[form EXCEPT !.mustRead = FALSE, !.rec = NewRecord] EXCEPT !.continuous = TRUE]
  <1>1. /\ dialog = "user" /\ dialog' = "user" /\ form.mode \in Browsing /\ Ids(form) /\ Place(form)
        /\ Object(form) /\ ~form.mustRefresh /\ ~form.tabs
    BY DEF Menu, AtTable, Form, Resting, Placed
  <1>2. /\ Ids(y) /\ SamePlace(form, y) /\ Object(y) /\ y.mode = form.mode /\ y.tabs = form.tabs
    BY <1>1, ReadIfNeededPlace
  <1>3. Ids(c) /\ SamePlace(form, c) /\ Object(c)
    <2>1. DOMAIN c = Fields /\ SamePlace(form, c) /\ c.rec = NewRecord
      BY <1>1 DEF Ids, Fields, SamePlace, SameTable
    <2> HIDE DEF c
    <2> QED  BY <1>1, <2>1 DEF Ids, SamePlace, SameTable, Object, NewRecord
  <1>4. \/ form' = y
        \/ form' = Begin(c, "inserting")
        \/ form' = Begin(y, "updating")
        \/ form' = [Begin(y, "selecting") EXCEPT !.status = form.status]
        \/ form' = [Begin(y, "duplicating") EXCEPT !.rec = NewRecord]
    BY DEF Menu, BeginInserting, BeginUpdating, BeginSelect, BeginDuplicating, Answers
  <1> HIDE DEF y, c
  <1>5. ASSUME NEW b, SamePlace(form, b), Object(b), form' = b,
               b.mode \in {"inserting", "updating", "selecting", "duplicating"}
        PROVE  Placed(form', dialog') /\ NeighbourAfterDelete
    <2>1. Place(b)  BY <1>1, <1>5, PlaceKept
    <2>2. b.mode \notin Browsing /\ b.mode # "deleting"  BY <1>5 DEF Browsing
    <2>3. NeighbourAfterDelete  BY <1>5, <2>2, NothingRemoved
    <2> QED  BY <1>1, <1>5, <2>1, <2>2, <2>3 DEF Placed
  <1>6. ASSUME NEW x \in {y, c}, NEW mode
        PROVE  LET b == Begin(x, mode) IN Ids(b) /\ SamePlace(form, b) /\ Object(b) /\ b.mode = mode
    <2>1. Ids(x) /\ SamePlace(form, x) /\ Object(x)  BY <1>2, <1>3
    <2>2. LET b == Begin(x, mode) IN Ids(b) /\ SamePlace(x, b) /\ Object(b) /\ b.mode = mode
      BY <2>1, BeginPlace
    <2> QED  BY <2>1, <2>2, SamePlaces
  <1>7. CASE form' = y
    <2>1. Place(y) /\ form'.stored = form.stored  BY <1>1, <1>2, <1>7, PlaceKept DEF SamePlace, SameTable
    <2> QED  BY <1>1, <1>2, <1>7, <2>1, NothingRemoved DEF Placed, SamePlace, Browsing
  <1>8. CASE form' = Begin(c, "inserting")  BY <1>5, <1>6, <1>8
  <1>9. CASE form' = Begin(y, "updating")  BY <1>5, <1>6, <1>9
  <1>10. CASE form' = [Begin(y, "selecting") EXCEPT !.status = form.status]
    <2> DEFINE b == Begin(y, "selecting")
    <2>1. Ids(b) /\ SamePlace(form, b) /\ Object(b) /\ b.mode = "selecting"  BY <1>6
    <2> HIDE DEF b
    <2>2. SamePlace(form, form') /\ Object(form') /\ form'.mode = "selecting"
      BY <1>10, <2>1 DEF Ids, Fields, SamePlace, SameTable, Object, b
    <2> QED  BY <1>5, <2>2
  <1>11. CASE form' = [Begin(y, "duplicating") EXCEPT !.rec = NewRecord]
    <2> DEFINE b == Begin(y, "duplicating")
    <2>1. Ids(b) /\ SamePlace(form, b) /\ b.mode = "duplicating"  BY <1>6
    <2> HIDE DEF b
    <2>2. SamePlace(form, form') /\ form'.mode = "duplicating" /\ form'.rec = NewRecord /\ form'.issued \in Nat
      BY <1>11, <2>1 DEF Ids, Fields, SamePlace, SameTable, b
    <2>3. Object(form')  BY <2>2 DEF Object, NewRecord
    <2> QED  BY <1>5, <2>2, <2>3
  <1> QED  BY <1>4, <1>7, <1>8, <1>9, <1>10, <1>11

LEMMA MenuDeletePlaced ==
  ASSUME Form(form, dialog), Placed(form, dialog), MenuDelete
  PROVE  Placed(form', dialog') /\ NeighbourAfterDelete
  <1> DEFINE y == ReadIfNeeded(form)
             b == Begin(y, "deleting")
  <1>1. /\ form.mode \in Browsing /\ Ids(form) /\ Place(form) /\ form.rows # <<>> /\ dialog = "user"
        /\ Object(form) /\ ~form.mustRefresh /\ ~form.tabs /\ MayDelete(form)
    BY DEF MenuDelete, AtTable, Form, Resting, Placed, MayDelete, MayEdit, MayView
  <1>2. /\ Ids(y) /\ SamePlace(form, y) /\ Object(y) /\ y.mode = form.mode /\ y.tabs = form.tabs
    BY <1>1, ReadIfNeededPlace
  <1>3. \/ form' = form /\ dialog' = "loop"
        \/ form' = y /\ dialog' \in {"user", "loop"}
        \/ form' = b /\ dialog' = "delete?"
    BY <1>1 DEF MenuDelete, AskDelete
  <1>4. Ids(b) /\ SamePlace(y, b) /\ Object(b) /\ b.mode = "deleting"  BY <1>2, BeginPlace
  <1>5. SamePlace(form, b)  BY <1>2, <1>4, SamePlaces
  <1> HIDE DEF y, b
  <1>6. Place(y) /\ Place(b)  BY <1>1, <1>2, <1>5, PlaceKept
  <1>7. form'.stored = form.stored  BY <1>2, <1>3, <1>5 DEF SamePlace, SameTable
  <1>8. NeighbourAfterDelete  BY <1>7, NothingRemoved
  <1>9. CASE form' = form /\ dialog' = "loop"  BY <1>1, <1>8, <1>9 DEF Placed, Browsing
  <1>10. CASE form' = y /\ dialog' \in {"user", "loop"}
    BY <1>1, <1>2, <1>6, <1>8, <1>10 DEF Placed, SamePlace, Browsing
  <1>11. CASE form' = b /\ dialog' = "delete?"
    BY <1>1, <1>4, <1>5, <1>6, <1>8, <1>11 DEF Placed, SamePlace, SameTable, Browsing
  <1> QED  BY <1>3, <1>9, <1>10, <1>11

LEMMA NextSelectedPlaced ==
  ASSUME Form(form, dialog), Placed(form, dialog), NextSelected
  PROVE  Placed(form', dialog') /\ NeighbourAfterDelete
  <1> DEFINE sel  == SelectSeq(form.rows, LAMBDA id : id \in form.selected)
             readRow(id) == [Read(form, id) EXCEPT !.continuous = TRUE, !.nrec = @ + 1]
             next == readRow(sel[form.nrec + 1])
             last == [form EXCEPT !.multiple = FALSE, !.nrec = 0]
             back == IF form.status = "saved" THEN EnsureBrowseView(last) ELSE last
  <1>1. /\ dialog = "loop" /\ Ids(form) /\ Place(form) /\ Object(form) /\ form.nrec \in Nat
        /\ form.status \in {"saved", "not_saved"}
        /\ form.mode \in Browsing \cup {"deleting"} /\ (form.mode \in Browsing <=> form.browsing)
        /\ (form.mode \in Browsing => ~form.tabs /\ ~form.mustRefresh)
        /\ (form.mode = "deleting" => form.rows # <<>>)
        /\ (form.status = "not_saved" \/ form.choosing => form.mode \in Browsing)
    BY DEF NextSelected, Form, Resting, Placed
  <1>2. \/ form' = Refresh(back) /\ dialog' = "user"
        \/ \E a \in Answers("deleting") : AskDelete(next, a)
    BY DEF NextSelected
  <1>3. CASE form' = Refresh(back) /\ dialog' = "user"
    <2>1. /\ DOMAIN last = Fields /\ SamePlace(form, last) /\ last.rec = form.rec
          /\ last.mode = form.mode /\ last.browsing = form.browsing /\ last.tabs = form.tabs
      BY <1>1 DEF Ids, Fields, SamePlace, SameTable
    <2> HIDE DEF last
    <2>2. Ids(last) /\ Place(last) /\ Object(last)
      BY <1>1, <2>1, PlaceKept DEF Ids, SamePlace, SameTable, Object
    <2>3. /\ Ids(back) /\ Place(back) /\ Object(back) /\ ~back.tabs /\ back.browsing
          /\ back.mode \in Browsing /\ back.stored = form.stored
      <3>1. CASE form.status = "saved"
        <4>1. /\ Ids(back) /\ Place(back) /\ ~back.tabs /\ back.stored = last.stored
              /\ back.issued = last.issued /\ back.rec = last.rec
          BY <2>2, <3>1, BrowseViewPlace
        <4>2. back.browsing /\ back.mode \in Browsing
          BY <1>1, <2>1, <2>2, <3>1, EnsureBrowseViewEffect
        <4> QED  BY <2>1, <2>2, <4>1, <4>2 DEF Object, SamePlace, SameTable
      <3>2. CASE form.status = "not_saved"
        BY <1>1, <2>1, <2>2, <3>2 DEF SamePlace, SameTable
      <3> QED  BY <1>1, <3>1, <3>2
    <2> HIDE DEF back
    <2>4. /\ Place(form') /\ ~form'.mustRefresh /\ form'.stored = back.stored
          /\ form'.issued = back.issued /\ form'.rec = back.rec
          /\ form'.mode = back.mode /\ form'.tabs = back.tabs
      BY <1>3, <2>3, RefreshPlace
    <2>5. Object(form')  BY <2>3, <2>4 DEF Object
    <2>6. NeighbourAfterDelete  BY <2>3, <2>4, NothingRemoved
    <2> QED  BY <1>3, <2>3, <2>4, <2>5, <2>6 DEF Placed, Browsing
  <1>4. CASE \E a \in Answers("deleting") : AskDelete(next, a)
    <2>1. ASSUME NEW id
          PROVE  /\ Ids(readRow(id)) /\ SamePlace(form, readRow(id)) /\ Object(readRow(id))
                 /\ readRow(id).nrec = form.nrec + 1 /\ readRow(id).mode = form.mode
                 /\ readRow(id).tabs = form.tabs
      <3> DEFINE got == Read(form, id)
                 s == [got EXCEPT !.continuous = TRUE, !.nrec = @ + 1]
      <3>1. /\ Ids(got) /\ SamePlace(form, got) /\ Object(got) /\ got.mode = form.mode /\ got.nrec = form.nrec
            /\ got.tabs = form.tabs
        BY <1>1, ReadPlace
      <3> HIDE DEF got
      <3>2. /\ DOMAIN s = Fields /\ SamePlace(got, s) /\ s.rec = got.rec /\ s.mode = got.mode
            /\ s.nrec = got.nrec + 1 /\ s.tabs = got.tabs
        BY <3>1 DEF Ids, Fields, SamePlace, SameTable
      <3> HIDE DEF s
      <3>3. Ids(s) /\ Object(s) /\ SamePlace(form, s)
        BY <3>1, <3>2, SamePlaces DEF Ids, Object, SamePlace, SameTable
      <3>4. s.nrec = form.nrec + 1 /\ s.mode = form.mode /\ s.tabs = form.tabs  BY <3>1, <3>2
      <3>5. readRow(id) = s  BY DEF s, got
      <3> HIDE DEF readRow
      <3> QED  BY <3>3, <3>4, <3>5
    <2>2. /\ Ids(next) /\ SamePlace(form, next) /\ Object(next) /\ next.nrec = form.nrec + 1
          /\ next.mode = form.mode /\ next.tabs = form.tabs
      BY <2>1
    <2> DEFINE y == ReadIfNeeded(next)
               b == Begin(y, "deleting")
    <2>3. \/ form' \in {next, y} /\ dialog' = IF next.nrec = 0 THEN "user" ELSE "loop"
          \/ form' = b /\ dialog' = "delete?" /\ next.rows # <<>>
      BY <1>4 DEF AskDelete, MayDelete, MayEdit, MayView
    <2> HIDE DEF next
    <2>4. /\ Ids(y) /\ SamePlace(next, y) /\ Object(y) /\ y.mode = next.mode /\ y.nrec = next.nrec
          /\ y.tabs = next.tabs
      BY <2>2, ReadIfNeededPlace
    <2>5. Ids(b) /\ SamePlace(y, b) /\ Object(b) /\ b.mode = "deleting" /\ b.nrec = y.nrec
      BY <2>4, BeginPlace
    <2> HIDE DEF y, b
    <2>6. SamePlace(form, y) /\ SamePlace(form, b)  BY <2>2, <2>4, <2>5, SamePlaces
    <2>7. Place(next) /\ Place(y) /\ Place(b)  BY <1>1, <2>2, <2>6, PlaceKept
    <2>8. form'.stored = form.stored  BY <2>2, <2>3, <2>6 DEF SamePlace, SameTable
    <2>9. NeighbourAfterDelete  BY <2>8, NothingRemoved
    <2>10. CASE form' \in {next, y} /\ dialog' = IF next.nrec = 0 THEN "user" ELSE "loop"
      <3>1. /\ Place(form') /\ Object(form') /\ SamePlace(form, form') /\ form'.mode = form.mode
            /\ form'.tabs = form.tabs /\ dialog' = "loop"
        BY <1>1, <2>2, <2>4, <2>6, <2>7, <2>10
      <3> QED  BY <1>1, <2>9, <3>1 DEF Placed, SamePlace, SameTable
    <2>11. CASE form' = b /\ dialog' = "delete?" /\ next.rows # <<>>
      <3>1. b.nrec # 0 /\ b.rows # <<>>  BY <1>1, <2>2, <2>4, <2>5, <2>6, <2>11 DEF SamePlace, SameTable
      <3> QED  BY <2>5, <2>7, <2>9, <2>11, <3>1 DEF Placed, Browsing
    <2> QED  BY <2>3, <2>10, <2>11
  <1> QED  BY <1>2, <1>3, <1>4

\* The question and its answer: here a record is removed over the table.
LEMMA AnswerDeletePlaced ==
  ASSUME Form(form, dialog), Placed(form, dialog), AnswerDelete
  PROVE  Placed(form', dialog') /\ NeighbourAfterDelete
  <1> DEFINE Back(x) == IF x.status = "not_saved" \/ (x.wasBrowsing /\ ~x.continuous)
                        THEN EnsureBrowseView(x) ELSE x
             many == [form EXCEPT !.multiple = TRUE]
             none == [form EXCEPT !.continuous = FALSE]
  <1>1. /\ dialog = "delete?" /\ Resting(form) /\ Ids(form) /\ Place(form) /\ Object(form)
        /\ form.mode = "deleting" /\ form.status = "not_saved" /\ form.rows # <<>>
        /\ (form.nrec = 0 => Good(form) /\ ~form.mustRefresh)
        /\ dialog' = IF form.nrec = 0 THEN "user" ELSE "loop"
    BY DEF AnswerDelete, Form, Resting, Placed
  <1>2. \/ \E x \in {form, many} : \E o \in Outcomes(x) : form' = Back(AcceptEdition(x, o, TRUE))
        \/ \E x \in {form, none} : form' = Back(x)
    BY DEF AnswerDelete
  <1>3. \A x \in {form, many, none} :
           Alike(form, x) /\ SamePlace(form, x) /\ x.nrec = form.nrec /\ x.rec = form.rec
    BY <1>1 DEF Alike, Ids, Fields, SamePlace, SameTable
  <1>4. ASSUME NEW x, x \in {form, many, none}
        PROVE  /\ Resting(x) /\ Place(x) /\ Object(x) /\ x.mode = "deleting" /\ x.status = "not_saved"
               /\ x.nrec = form.nrec /\ x.rec = form.rec /\ SamePlace(form, x)
    <2>1. Alike(form, x) /\ SamePlace(form, x) /\ x.nrec = form.nrec /\ x.rec = form.rec  BY <1>3, <1>4
    <2>2. Resting(x)  BY <1>1, <2>1, AlikeResting DEF Resting
    <2>3. Place(x)  BY <1>1, <2>1, PlaceKept
    <2>4. Object(x)  BY <1>1, <2>1 DEF Object, SamePlace, SameTable
    <2> QED  BY <1>1, <2>1, <2>2, <2>3, <2>4 DEF Alike
  <1> HIDE DEF many, none
  \* The way back of what resulted.
  <1>5. ASSUME NEW z, Ids(z), Place(z), Object(z), z.browsing => z.mode \in Browsing,
               z.mode \in Browsing \cup {"deleting"}, Settled(z),
               z.mode = "deleting" => z.rows # <<>>, z.nrec = form.nrec,
               z.status = "not_saved" \/ z.rec.id \notin z.stored, form' = Back(z)
        PROVE  /\ Placed(form', dialog') /\ form'.stored = z.stored /\ form'.lastID = z.lastID
               /\ (form'.mode \in Browsing /\ Filled(z) => form'.rows = Shown(form')) /\ Ids(form')
    <2> DEFINE e == EnsureBrowseView(z)
    <2>1. CASE form' = e
      <3>1. /\ Ids(e) /\ Place(e) /\ ~e.mustRefresh /\ ~e.tabs /\ (Filled(z) => e.rows = Shown(e))
            /\ e.stored = z.stored /\ e.issued = z.issued /\ e.rec = z.rec /\ e.lastID = z.lastID
        BY <1>5, BrowseViewPlace
      <3>2. e.mode \in Browsing  BY <1>5, EnsureBrowseViewEffect
      <3> HIDE DEF e
      <3>3. Object(e)  BY <1>5, <3>1 DEF Object
      <3> QED  BY <1>1, <2>1, <3>1, <3>2, <3>3 DEF Placed, Browsing
    <2>2. CASE form' = z /\ z.status # "not_saved"
      <3>1. form'.mode \in Browsing /\ Filled(z) => form'.rows = Shown(form')
        BY <1>5, <2>2 DEF Settled, Filled
      <3> QED  BY <1>1, <1>5, <2>2, <3>1 DEF Placed, Settled
    <2> QED  BY <1>5, <2>1, <2>2
  <1>6. CASE \E x \in {form, many} : \E o \in Outcomes(x) : form' = Back(AcceptEdition(x, o, TRUE))
    <2>0. PICK x \in {form, many} : \E o \in Outcomes(x) : form' = Back(AcceptEdition(x, o, TRUE))
      BY <1>6
    <2>1. PICK o \in Outcomes(x) : form' = Back(AcceptEdition(x, o, TRUE))  BY <2>0
    <2>2. /\ Resting(x) /\ Place(x) /\ Object(x) /\ x.mode = "deleting" /\ x.rows # <<>>
          /\ x.nrec = form.nrec /\ x.rec = form.rec /\ SamePlace(form, x) /\ x.mode \in EditModes
      BY <1>1, <1>4 DEF EditModes, SamePlace, SameTable
    <2> DEFINE z == AcceptEdition(x, o, TRUE)
    <2>3. /\ Ids(z) /\ Place(z) /\ Object(z) /\ Settled(z) /\ z.nrec = x.nrec
          /\ (z.mode = "deleting" => z.rows = x.rows)
          /\ z.rec = x.rec
          /\ \/ z.stored = x.stored /\ z.status = "not_saved"
             \/ z.stored = x.stored \ {x.rec.id} /\ z.lastID = NextId(x) /\ Filled(z)
      BY <2>2, AcceptPlace
    <2>4. o \in {"done", "fails", "refused"}  BY <2>2 DEF Outcomes
    <2>5. Resting(z) /\ z.mode \in Browsing \cup {"deleting"}  BY <2>2, <2>4, AcceptEffect
    <2>6. form' = Back(z)  BY <2>1
    <2> HIDE DEF z
    <2>7. /\ z.browsing => z.mode \in Browsing
          /\ z.status = "not_saved" \/ z.rec.id \notin z.stored
          /\ z.nrec = form.nrec /\ (z.mode = "deleting" => z.rows # <<>>)
      BY <2>2, <2>3, <2>5 DEF Resting
    <2>8. /\ Placed(form', dialog') /\ form'.stored = z.stored /\ form'.lastID = z.lastID
          /\ (form'.mode \in Browsing /\ Filled(z) => form'.rows = Shown(form')) /\ Ids(form')
      BY <1>5, <2>3, <2>5, <2>6, <2>7
    <2>9. NeighbourAfterDelete
      <3> SUFFICES ASSUME form'.mode \in Browsing, form.nrec = 0, form'.stored # form.stored,
                          form.rows = Shown(form)
                   PROVE  Neighbour(form, form')
        BY DEF NeighbourAfterDelete, Neighbour
      <3>1. z.stored = x.stored \ {x.rec.id} /\ z.lastID = NextId(x) /\ Filled(z)
        BY <2>2, <2>3, <2>8 DEF SamePlace, SameTable
      <3>2. NextId(x) = NextId(form)  BY <2>2 DEF NextId, SamePlace, SameTable
      <3>3. form'.stored = form.stored \ {form.rec.id} /\ form'.lastID = NextId(form)
        BY <2>2, <2>8, <3>1, <3>2 DEF SamePlace, SameTable
      <3>4. form.rec.id = Cursor(form)
        <4>1. form.rec.id \in form.stored  BY <3>3
        <4>2. form.rec.id # 0  BY <1>1, <4>1 DEF Ids
        <4> QED  BY <1>1, <4>2 DEF Good, Object
      <3>5. Place(form') /\ ~form'.mustRefresh /\ form'.rows = Shown(form')
        BY <2>8, <3>1 DEF Placed
      <3> QED  BY <1>1, <2>8, <3>3, <3>4, <3>5, NeighbourOf
    <2> QED  BY <2>8, <2>9
  <1>7. CASE \E x \in {form, none} : form' = Back(x)
    <2>1. PICK x \in {form, none} : form' = Back(x)  BY <1>7
    <2>2. /\ Resting(x) /\ Place(x) /\ Object(x) /\ x.mode = "deleting" /\ x.status = "not_saved"
          /\ x.nrec = form.nrec /\ SamePlace(form, x)
      BY <1>4
    <2>3. /\ Ids(x) /\ (x.browsing => x.mode \in Browsing) /\ x.mode \notin Browsing /\ x.rows # <<>>
          /\ x.stored = form.stored
      BY <1>1, <2>2 DEF Resting, SamePlace, SameTable, Browsing
    <2>4. Settled(x)  BY <2>3 DEF Settled
    <2>5. Placed(form', dialog') /\ form'.stored = x.stored  BY <1>5, <2>1, <2>2, <2>3, <2>4
    <2> QED  BY <2>3, <2>5, NothingRemoved
  <1> QED  BY <1>2, <1>6, <1>7

LEMMA EditPlaced ==
  ASSUME Form(form, dialog), Placed(form, dialog), TypeIn \/ AcceptInvalid
  PROVE  Placed(form', dialog') /\ NeighbourAfterDelete
  <1>1. /\ dialog = "user" /\ dialog' = "user" /\ Ids(form) /\ Place(form) /\ Object(form)
        /\ form.mode \in {"inserting", "duplicating", "updating"}
        /\ \/ form' = [form EXCEPT !.edited = TRUE]
           \/ \E id \in {0} \cup form.stored :
                form' = [form EXCEPT !.status = "not_saved", !.another = id]
    BY DEF TypeIn, AcceptInvalid, Form, Resting, Placed
  <1>2. /\ form'.stored = form.stored /\ form'.issued = form.issued /\ form'.rows = form.rows
        /\ form'.cur = form.cur /\ form'.lastID = form.lastID /\ form'.mode = form.mode
        /\ form'.mustRefresh = form.mustRefresh /\ form'.rec = form.rec
        /\ form'.another \in {form.another, 0} \cup form.stored
    BY <1>1 DEF Ids, Fields
  <1>3. form'.another \in 0..form.issued
    <2>1. form.stored \subseteq 1..form.issued /\ form.issued \in Nat /\ form.another \in 0..form.issued
      BY <1>1 DEF Ids, Place
    <2> HIDE DEF Ids
    <2> QED  BY <1>2, <2>1
  <1>4. Place(form')  BY <1>1, <1>2, <1>3 DEF Place, Remembers, AtLast, Cursor
  <1>5. Object(form')  BY <1>1, <1>2 DEF Object
  <1>6. NeighbourAfterDelete  BY <1>2, NothingRemoved
  <1> QED  BY <1>1, <1>2, <1>4, <1>5, <1>6 DEF Placed, Browsing

LEMMA AcceptFormPlaced ==
  ASSUME Form(form, dialog), Placed(form, dialog), AcceptForm, "inserting" \notin Refusals
  PROVE  Placed(form', dialog') /\ NeighbourAfterDelete
  <1>1. /\ dialog = "user" /\ dialog' = "user" /\ Resting(form) /\ form.mode \in EditModes
        /\ Place(form) /\ Object(form) /\ (form.mode = "deleting" => form.rows # <<>>)
        /\ (form.mode = "deleting" => form.rec.id \notin form.stored)
    BY DEF AcceptForm, Form, Resting, Placed
  <1>2. PICK o \in Outcomes(form) : form' = AcceptEdition(form, o, TRUE)
    BY DEF AcceptForm, Answers
  <1>3. /\ Place(form') /\ Object(form') /\ Settled(form')
        /\ (form'.mode = "deleting" => form'.rows = form.rows /\ form.mode = "deleting")
        /\ (form.mode = "deleting" =>
              /\ form'.rec = form.rec
              /\ form'.stored = form.stored \/ form'.stored = form.stored \ {form.rec.id})
    BY <1>1, <1>2, AcceptPlace
  <1>4. form.mode = "deleting" => form'.stored = form.stored  BY <1>1, <1>3
  <1>5. NeighbourAfterDelete  BY <1>4, NothingRemoved
  <1> QED  BY <1>1, <1>3, <1>4, <1>5 DEF Placed, Settled

LEMMA ChoosePlaced ==
  ASSUME Form(form, dialog), Placed(form, dialog), Choose
  PROVE  Placed(form', dialog') /\ NeighbourAfterDelete
  <1> DEFINE y == ReadIfNeeded(form)
  <1>1. /\ form.mode = "choosing" /\ dialog' = "chosen" /\ Ids(form) /\ Place(form) /\ Object(form)
        /\ ~form.mustRefresh /\ ~form.tabs /\ form' = [y EXCEPT !.status = "saved"]
    BY DEF Choose, Form, Resting, Placed, Browsing
  <1>2. /\ Ids(y) /\ SamePlace(form, y) /\ Object(y) /\ y.mode = form.mode /\ y.tabs = form.tabs
    BY <1>1, ReadIfNeededPlace
  <1> HIDE DEF y
  <1>3. SamePlace(y, form') /\ form'.rec = y.rec /\ form'.mode = y.mode /\ form'.tabs = y.tabs
    BY <1>1, <1>2 DEF Ids, Fields, SamePlace, SameTable
  <1>4. SamePlace(form, form') /\ Place(form')  BY <1>1, <1>2, <1>3, SamePlaces, PlaceKept
  <1>5. Object(form')  BY <1>2, <1>3 DEF Object, SamePlace, SameTable
  <1>6. NeighbourAfterDelete  BY <1>1, NothingRemoved
  <1> QED  BY <1>1, <1>2, <1>3, <1>4, <1>5, <1>6 DEF Placed, SamePlace

LEMMA CancelFormPlaced ==
  ASSUME Form(form, dialog), Placed(form, dialog), CancelForm
  PROVE  Placed(form', dialog') /\ NeighbourAfterDelete
  <1>1. dialog = "user" /\ Resting(form) /\ Ids(form) /\ Place(form) /\ Object(form)
    BY DEF CancelForm, Form, Resting, Placed
  <1>2. CASE form.mode \in Browsing
    <2>1. form' = form /\ dialog' = "closed"  BY <1>2 DEF CancelForm
    <2> QED  BY <1>2, <2>1, NothingRemoved DEF Placed, Browsing
  <1>3. CASE form.mode \notin Browsing
    <2> DEFINE left == IF form.mode = "selecting" \/ form.status = "saved" THEN form
                       ELSE [form EXCEPT !.mustRead = TRUE, !.edited = FALSE, !.continuous = FALSE]
               back == IF form.another = 0 THEN left
                       ELSE [left EXCEPT !.lastID = form.another, !.mustRefresh = TRUE, !.another = 0]
    <2>1. form' = EnsureBrowseView(back) /\ dialog' = "user"  BY <1>1, <1>3 DEF CancelForm
    <2>2. /\ DOMAIN left = Fields /\ SamePlace(form, left) /\ left.rec = form.rec
          /\ left.browsing = form.browsing
      BY <1>1 DEF Ids, Fields, SamePlace, SameTable
    <2> HIDE DEF left
    <2>3. /\ DOMAIN back = Fields /\ SameTable(left, back) /\ back.rec = left.rec
          /\ back.browsing = left.browsing /\ back.another = 0
          /\ IF form.another = 0
               THEN back.lastID = left.lastID /\ back.mustRefresh = left.mustRefresh
               ELSE back.lastID = form.another /\ back.mustRefresh
      BY <2>2 DEF Fields, SamePlace, SameTable
    <2> HIDE DEF back
    <2>4. Ids(back) /\ Object(back) /\ ~back.browsing
      BY <1>1, <1>3, <2>2, <2>3 DEF Resting, Ids, SamePlace, SameTable, Object
    <2>5. Place(back)
      <3>1. Place(left)  BY <1>1, <2>2, PlaceKept
      <3>2. CASE form.another = 0
        BY <2>3, <3>1, <3>2 DEF Place, SameTable, Remembers, AtLast, Cursor
      <3>3. CASE form.another # 0
        <4>1. form.another \in 1..form.issued /\ back.issued = form.issued
          BY <1>1, <2>2, <2>3, <3>3 DEF Place, Ids, SamePlace, SameTable
        <4>2. Remembers(back)  BY <2>3, <3>3, <4>1 DEF Remembers
        <4> QED  BY <2>3, <3>1, <3>3, <4>2 DEF Place, SameTable
      <3> QED  BY <3>2, <3>3
    <2>6. /\ Place(form') /\ ~form'.mustRefresh /\ ~form'.tabs /\ form'.stored = back.stored
          /\ form'.issued = back.issued /\ form'.rec = back.rec
      BY <2>1, <2>4, <2>5, BrowseViewPlace
    <2>7. form'.mode \in Browsing  BY <2>1, <2>4, EnsureBrowseViewEffect
    <2>8. Object(form')  BY <2>4, <2>6 DEF Object
    <2>9. form'.stored = form.stored  BY <2>2, <2>3, <2>6 DEF SamePlace, SameTable
    <2>10. NeighbourAfterDelete  BY <2>9, NothingRemoved
    <2> QED  BY <2>1, <2>6, <2>7, <2>8, <2>10 DEF Placed, Browsing
  <1> QED  BY <1>2, <1>3

LEMMA OtherWritesPlaced ==
  ASSUME Form(form, dialog), Placed(form, dialog), OtherWrites
  PROVE  Placed(form', dialog') /\ NeighbourAfterDelete
  <1>1. /\ dialog' = dialog /\ Ids(form) /\ Place(form) /\ Object(form) /\ Shared # {}
        /\ MaxRecordId \in Nat
    BY FormAssumption DEF OtherWrites, IsShared, Form, Resting, Placed
  <1>2. /\ form'.rows = form.rows /\ form'.cur = form.cur /\ form'.lastID = form.lastID
        /\ form'.rec = form.rec /\ form'.mode = form.mode /\ form'.another = form.another
        /\ form'.mustRefresh = form.mustRefresh /\ form'.nrec = form.nrec /\ form'.tabs = form.tabs
        /\ \/ form'.issued = form.issued /\ form'.stored \subseteq form.stored
           \/ /\ form.issued < MaxRecordId /\ form'.issued = form.issued + 1
              /\ form'.stored = form.stored \cup {form.issued + 1}
    BY <1>1 DEF OtherWrites, Ids, Fields
  <1>3. form.issued \in Nat /\ form.lastID \in 1..form.issued /\ form.rec.id \in 0..form.issued
    BY <1>1 DEF Ids, Place, Remembers, Object
  <1>4. form.issued <= form'.issued /\ form'.issued \in 0..MaxRecordId
    BY <1>1, <1>2, <1>3 DEF Place
  <1>5. /\ form.lastID \notin form.stored => form'.lastID \notin form'.stored
        /\ form.rec.id \notin form.stored => form'.rec.id \notin form'.stored
    BY <1>2, <1>3
  <1>6. AtLast(form) => AtLast(form')
    BY <1>2, <1>5 DEF AtLast, Cursor
  <1>7. Remembers(form')  BY <1>2, <1>3, <1>4 DEF Remembers
  <1>8. Place(form')
    <2>1. form'.another \in 0..form'.issued  BY <1>1, <1>2, <1>3, <1>4 DEF Place
    <2> QED  BY <1>1, <1>2, <1>4, <1>6, <1>7, <2>1 DEF Place
  <1>9. Object(form')  BY <1>1, <1>2, <1>3, <1>4 DEF Object
  <1>10. NeighbourAfterDelete
    <2>1. form.mode # "deleting" \/ form'.mode \notin Browsing  BY <1>2 DEF Browsing
    <2> QED  BY <2>1, NothingRemoved
  <1> QED  BY <1>1, <1>2, <1>5, <1>8, <1>9, <1>10 DEF Placed

LEMMA OtherRefreshesPlaced ==
  ASSUME Form(form, dialog), Placed(form, dialog), OtherRefreshes, "choosing" \notin Shared
  PROVE  Placed(form', dialog') /\ NeighbourAfterDelete
  <1>1. /\ dialog = "user" /\ dialog' = "user" /\ ~form.choosing /\ form' = Refresh(form)
        /\ Ids(form) /\ Place(form) /\ Object(form) /\ (form.mode \in Browsing <=> form.browsing)
    BY DEF OtherRefreshes, IsShared, Form, Resting, Placed
  <1>2. CASE form.browsing
    <2>1. /\ Place(form') /\ ~form'.mustRefresh /\ form'.stored = form.stored
          /\ form'.issued = form.issued /\ form'.rec = form.rec /\ form'.mode = form.mode
          /\ form'.tabs = form.tabs
      BY <1>1, <1>2, RefreshPlace
    <2>2. Object(form')  BY <1>1, <2>1 DEF Object
    <2>3. NeighbourAfterDelete  BY <2>1, NothingRemoved
    <2> QED  BY <1>1, <1>2, <2>1, <2>2, <2>3 DEF Placed, Browsing
  <1>3. CASE ~form.browsing
    <2>1. form' = form  BY <1>1, <1>3 DEF Refresh
    <2> QED  BY <1>1, <2>1, NothingRemoved
  <1> QED  BY <1>2, <1>3

\* The inductive invariant.
PlacedInv == FormInv /\ Placed(form, dialog)

\* Where the cursor is says where it is when an edition ends.
LEMMA PlacedBack ==
  ASSUME Placed(form', dialog')
  PROVE  BackOnTheRecord
  BY DEF Placed, Place, AtLast, BackOnTheRecord

LEMMA PlacedSteps ==
  ASSUME "inserting" \notin Refusals, "choosing" \notin Shared
  PROVE  PlacedInv /\ [NextForm]_formVars
         => PlacedInv' /\ [BackOnTheRecord /\ NeighbourAfterDelete]_formVars
  <1> SUFFICES ASSUME Form(form, dialog), Placed(form, dialog), [NextForm]_formVars
               PROVE  /\ Form(form', dialog') /\ Placed(form', dialog')
                      /\ [BackOnTheRecord /\ NeighbourAfterDelete]_formVars
    BY DEF PlacedInv, FormInv
  <1>1. CASE UNCHANGED formVars  BY <1>1 DEF formVars
  <1>2. CASE StepForm
    <2>1. Form(form', dialog')
      BY <1>2, MoveCursorHolds, MenuHolds, MenuDeleteHolds, NextSelectedHolds, AnswerDeleteHolds,
         EditHolds, AcceptFormHolds, ChooseHolds, CancelFormHolds, OtherWritesHolds,
         OtherRefreshesHolds DEF StepForm
    <2>2. Placed(form', dialog') /\ NeighbourAfterDelete
      BY <1>2, MoveCursorPlaced, MenuPlaced, MenuDeletePlaced, NextSelectedPlaced,
         AnswerDeletePlaced, EditPlaced, AcceptFormPlaced, ChoosePlaced, CancelFormPlaced,
         OtherWritesPlaced, OtherRefreshesPlaced DEF StepForm
    <2> QED  BY <2>1, <2>2, PlacedBack
  <1> QED  BY <1>1, <1>2 DEF NextForm

\* When an edition ends and the table is shown again the cursor is on the record that was
\* saved, or where it was, and after a removal on the row after the one removed, or else on the
\* one before: when the application never refuses an insertion, nobody else changes the table in
\* which a record is chosen, and a form that others change had something to show when it was
\* opened.
THEOREM CursorBackAfterEdition ==
  ASSUME "inserting" \notin Refusals, "choosing" \notin Shared,
         (1..FirstRecords) \cap InView # {} \/ Shared = {}
  PROVE  SpecForm => CursorAfterEdition
  <1>1. InitForm => PlacedInv  BY InitHolds, InitPlaced DEF PlacedInv, FormInv
  <1>2. PlacedInv /\ [NextForm]_formVars
        => PlacedInv' /\ [BackOnTheRecord /\ NeighbourAfterDelete]_formVars
    BY PlacedSteps
  <1> QED  BY <1>1, <1>2, PTL DEF SpecForm, CursorAfterEdition

\* Under the same assumptions: every field of the form keeps its type, an object is new when it has
\* no id, the cursor is on a row when there is one, and the edit tabs are enabled exactly when
\* the form does not browse.
THEOREM TypesOfTheForm ==
  ASSUME "inserting" \notin Refusals, "choosing" \notin Shared,
         (1..FirstRecords) \cap InView # {} \/ Shared = {}
  PROVE  SpecForm => []TypeOKForm
  <1> DEFINE Dialogs == dialog \in {"user", "delete?", "loop", "closed", "chosen"}
  <1>1. InitForm => PlacedInv /\ Dialogs  BY InitHolds, InitPlaced DEF PlacedInv, FormInv, InitForm
  <1>2. PlacedInv /\ [NextForm]_formVars => PlacedInv'  BY PlacedSteps
  <1>3. Dialogs /\ [NextForm]_formVars => Dialogs'
    BY DEF NextForm, StepForm, formVars, MoveCursor, SelectRows, Menu, MenuDelete, NextSelected,
           AnswerDelete, AskDelete, TypeIn, AcceptForm, AcceptInvalid, Choose, CancelForm, OtherWrites,
           OtherRefreshes
  <1>4. PlacedInv /\ Dialogs => TypeOKForm
    <2> SUFFICES ASSUME PlacedInv, Dialogs PROVE TypeOKForm  OBVIOUS
    <2>1. Ids(form) /\ Resting(form) /\ Place(form) /\ Object(form)
          /\ (form.mode \in Browsing => ~form.tabs)
      BY DEF PlacedInv, FormInv, Form, Resting, Placed
    <2>2. form.issued \in 0..MaxRecordId /\ form.stored \subseteq 1..form.issued /\ MaxRecordId \in Nat
      BY <2>1, FormAssumption DEF Ids, Place
    <2>3. form.stored \subseteq RecordIds  BY <2>2 DEF RecordIds
    <2>4. form.rec.id \in 0..MaxRecordId /\ (form.rec.isNew <=> form.rec.id = 0)
      BY <2>1, <2>2 DEF Object
    <2>5. form.mode \in Browsing <=> form.browsing /\ ~form.tabs  BY <2>1 DEF Resting
    <2>6. form.cur \in 0..Len(form.rows) /\ (form.cur = 0 <=> form.rows = <<>>)  BY <2>1 DEF Place
    <2> QED  BY <2>1, <2>2, <2>3, <2>4, <2>5, <2>6 DEF TypeOKForm, Resting, EditModes
  <1> QED  BY <1>1, <1>2, <1>3, <1>4, PTL DEF SpecForm


-------------------------------------------------------------------------------
(* Report: numbers and groups.                                               *)

\* What Max of the community modules is.
LEMMA MaxIs ==
  ASSUME NEW S \in SUBSET Int, IsFiniteSet(S), S # {}
  PROVE  Max(S) \in S /\ \A k \in S : Max(S) >= k
  BY Greatest DEF Max

\* A member that none exceeds is Max.
LEMMA MaxOne ==
  ASSUME NEW S \in SUBSET Int, IsFiniteSet(S), NEW m \in S, \A k \in S : m >= k
  PROVE  Max(S) = m
  <1>1. Max(S) \in S /\ Max(S) >= m  BY MaxIs
  <1>2. m >= Max(S) /\ m \in Int /\ Max(S) \in Int  BY <1>1
  <1> QED  BY <1>1, <1>2

\* The outermost of some levels.
LEMMA OutermostIs ==
  ASSUME NEW ls \in SUBSET Nat, IsFiniteSet(ls)
  PROVE  /\ ls = {} => Outermost(ls) = 0
         /\ ls # {} => Outermost(ls) \in ls
  BY Least DEF Outermost

\* What the report and the records are, by the assumptions on them.
Given == report \in Reports /\ records \in Inputs

\* A report is a sequence of sections.
LEMMA ReportIs ==
  ASSUME Given
  PROVE  /\ report \in Seq(Section)
         /\ DOMAIN report = 1..Len(report) /\ Len(report) \in Nat
         /\ \A n \in DOMAIN report : report[n] \in Section
  <1>1. report \in Seq(Section)  BY ReportAssumption DEF Given
  <1>2. DOMAIN report = 1..Len(report) /\ Len(report) \in Nat /\ \A n \in 1..Len(report) : report[n] \in Section
    BY <1>1
  <1> QED  BY <1>1, <1>2

\* The records have a value and a formula that supresses.
LEMMA RecordsAre ==
  ASSUME Given
  PROVE  /\ Len(records) \in Nat /\ DOMAIN records = 1..Len(records)
         /\ \A i \in 1..Len(records) : records[i].value \in Int /\ records[i].supress \in BOOLEAN
  <1>1. records \in Seq(Range(records))  BY ReportAssumption DEF Given
  <1>2. DOMAIN records = 1..Len(records) /\ Len(records) \in Nat  BY <1>1
  <1> QED  BY <1>2, ReportAssumption DEF Given

\* Its levels go from 0 to G.
LEMMA LevelsAre ==
  ASSUME Given
  PROVE  /\ Levels \in SUBSET Nat /\ IsFiniteSet(Levels)
         /\ G \in Nat /\ Levels \subseteq 0..G
  <1>1. \A n \in DOMAIN report : report[n].level \in Nat  BY ReportIs DEF Section
  <1>2. Levels \in SUBSET Nat  BY <1>1 DEF Levels
  <1>3. IsFiniteSet(Levels)
    <2>1. IsFiniteSet(DOMAIN report)  BY ReportIs, FS_Interval
    <2> DEFINE f == [n \in DOMAIN report |-> report[n].level]
    <2>2. Levels = {f[n] : n \in DOMAIN report}  BY DEF Levels
    <2> HIDE DEF f
    <2> QED  BY <2>1, <2>2, FiniteImage
  <1>4. CASE report = <<>>
    <2>1. DOMAIN report = {}  BY <1>4
    <2>2. G = 0  BY <1>4 DEF G, GroupLevels
    <2>3. Levels = {}  BY <2>1 DEF Levels
    <2> QED  BY <1>2, <1>3, <2>2, <2>3
  <1>5. CASE report # <<>>
    <2>1. 1 \in DOMAIN report  BY <1>5, ReportIs
    <2>2. Levels # {}  BY <2>1 DEF Levels
    <2>3. \E g \in Levels : \A l \in Levels : g >= l  BY <1>2, <1>3, <2>2, Greatest
    <2>4. \E g \in Levels : \A n \in DOMAIN report : report[n].level <= g
      <3>1. PICK g \in Levels : \A l \in Levels : g >= l  BY <2>3
      <3>2. \A n \in DOMAIN report : report[n].level \in Levels  BY DEF Levels
      <3>3. \A n \in DOMAIN report : report[n].level <= g  BY <1>1, <1>2, <3>1, <3>2
      <3> QED  BY <3>3
    <2>5. G \in Levels /\ \A n \in DOMAIN report : report[n].level <= G
      BY <1>5, <2>4 DEF G, GroupLevels, Levels
    <2>6. \A l \in Levels : l \in Nat /\ l <= G  BY <1>2, <2>5 DEF Levels
    <2>7. G \in Nat  BY <1>2, <2>5
    <2>8. Levels \subseteq 0..G  BY <2>6, <2>7
    <2> QED  BY <1>2, <1>3, <2>7, <2>8
  <1> QED  BY <1>4, <1>5

\* The group that changes with a record is the one that the record begins.
LEMMA ChangedIsBegun ==
  ASSUME NEW x, NEW i \in Nat, i >= 2, x.real = i, x.prev = i - 1
  PROVE  ChangedGroupValue(x) = Begins(i)
  <1> DEFINE A == {l \in Levels \ {0} : x.prev # 0 /\ records[x.prev].group[l] # records[x.real].group[l]}
             B == {l \in Levels \ {0} : records[i].group[l] # records[i - 1].group[l]}
  <1>1. A = B  OBVIOUS
  <1>2. ChangedGroupValue(x) = Outermost(A)  BY DEF ChangedGroupValue
  <1>3. Begins(i) = Outermost(B)
    <2> HIDE DEF B
    <2>1. i # 1  OBVIOUS
    <2> QED  BY <2>1 DEF Begins, B
  <1> HIDE DEF A, B
  <1> QED  BY <1>1, <1>2, <1>3

\* The group that changes is a level of the report, or none.
LEMMA ChangedIs ==
  ASSUME Given, NEW x
  PROVE  ChangedGroupValue(x) \in 0..G
  <1> DEFINE A == {l \in Levels \ {0} : x.prev # 0 /\ records[x.prev].group[l] # records[x.real].group[l]}
  <1>1. A \in SUBSET Nat /\ A \subseteq Levels  BY LevelsAre
  <1>2. IsFiniteSet(A)  BY <1>1, LevelsAre, FS_Subset
  <1>3. ChangedGroupValue(x) = Outermost(A)  BY DEF ChangedGroupValue
  <1> HIDE DEF A
  <1>4. Outermost(A) \in Levels \/ Outermost(A) = 0  BY <1>1, <1>2, OutermostIs
  <1> QED  BY <1>3, <1>4, LevelsAre

-------------------------------------------------------------------------------
(* Report: totals.                                                           *)

\* The totals of no record are those that a group starts with.
LEMMA TotalsNone ==
  ASSUME TRUE
  PROVE  Totals({}) = NoAggregate
  BY SumEmpty, FS_EmptySet DEF Totals, NoAggregate

\* One record more, as calcAggregateValues adds it.
LEMMA TotalsAdd ==
  ASSUME Given, NEW js \in SUBSET (1..Len(records)), NEW i \in (1..Len(records)) \ js
  PROVE  Totals(js \cup {i}) = Add(Totals(js), records[i].value)
  <1> DEFINE f == [j \in DOMAIN records |-> records[j].value]
             more == js \cup {i}
             V(s) == {records[j].value : j \in s}
  <1>1. /\ Len(records) \in Nat /\ DOMAIN records = 1..Len(records)
        /\ \A j \in 1..Len(records) : records[j].value \in Int
    BY RecordsAre
  <1>2. IsFiniteSet(js) /\ IsFiniteSet(more) /\ more \subseteq 1..Len(records)
    <2>1. IsFiniteSet(1..Len(records))  BY <1>1, FS_Interval
    <2> QED  BY <2>1, FS_Subset
  <1>3. Cardinality(more) = Cardinality(js) + 1 /\ Cardinality(js) \in Nat
        /\ (Cardinality(js) = 0 <=> js = {})
    BY <1>2, FS_AddElement, FS_CardinalityType, FS_EmptySet
  <1>4. SumFunctionOnSet(f, more) = SumFunctionOnSet(f, js) + records[i].value
    <2>1. \A x \in more : f[x] \in Int  BY <1>1, <1>2
    <2>2. more \ {i} = js /\ i \in more /\ f[i] = records[i].value  BY <1>1
    <2> HIDE DEF f, more
    <2>3. SumFunctionOnSet(f, more) = f[i] + SumFunctionOnSet(f, js)  BY <1>2, <2>1, <2>2, AddOne
    <2>4. SumFunctionOnSet(f, js) \in Int  BY <1>2, <2>1, SumInt DEF more
    <2>5. f[i] \in Int  BY <2>1, <2>2
    <2> QED  BY <2>2, <2>3, <2>4, <2>5
  <1>5. IF js = {} THEN Max(V(more)) = records[i].value
        ELSE Max(V(more)) = IF records[i].value > Max(V(js)) THEN records[i].value ELSE Max(V(js))
    <2>1. IsFiniteSet(V(more)) /\ IsFiniteSet(V(js))
      <3>1. V(more) = {f[j] : j \in more} /\ V(js) = {f[j] : j \in js}  BY <1>1, <1>2
      <3> HIDE DEF f, V, more
      <3>2. IsFiniteSet({f[j] : j \in more}) /\ IsFiniteSet({f[j] : j \in js})  BY <1>2, FiniteImage
      <3> QED  BY <3>1, <3>2
    <2>2. V(more) \in SUBSET Int /\ V(js) \in SUBSET Int  BY <1>1, <1>2
    <2>3. V(more) = V(js) \cup {records[i].value} /\ (js # {} => V(js) # {}) /\ (js = {} => V(js) = {})
      OBVIOUS
    <2> DEFINE W == V(more)  U == V(js)  v == records[i].value
    <2>4. v \in Int /\ W = U \cup {v} /\ W \in SUBSET Int /\ U \in SUBSET Int /\ IsFiniteSet(W) /\ IsFiniteSet(U)
      BY <1>1, <2>1, <2>2, <2>3
    <2>5. (js # {} => U # {}) /\ (js = {} => U = {})  BY <2>3
    <2> SUFFICES IF js = {} THEN Max(W) = v ELSE Max(W) = IF v > Max(U) THEN v ELSE Max(U)  OBVIOUS
    <2> HIDE DEF W, U, v, V
    <2>6. CASE js = {}
      <3>1. v \in W /\ \A k \in W : v >= k  BY <2>4, <2>5, <2>6
      <3> QED  BY <2>4, <2>6, <3>1, MaxOne
    <2>7. CASE js # {}
      <3>1. Max(U) \in U /\ \A k \in U : Max(U) >= k  BY <2>4, <2>5, <2>7, MaxIs
      <3>2. Max(U) \in Int /\ \A k \in U : k \in Int  BY <2>4, <3>1
      <3>3. CASE v > Max(U)
        <4>1. v \in W /\ \A k \in W : v >= k  BY <2>4, <3>1, <3>2, <3>3
        <4>2. Max(W) = v  BY <2>4, <4>1, MaxOne
        <4> QED  BY <2>7, <3>3, <4>2
      <3>4. CASE ~(v > Max(U))
        <4>1. Max(U) \in W /\ \A k \in W : Max(U) >= k  BY <2>4, <3>1, <3>2, <3>4
        <4>2. Max(W) = Max(U)  BY <2>4, <4>1, MaxOne
        <4> QED  BY <2>7, <3>4, <4>2
      <3> QED  BY <3>3, <3>4
    <2> QED  BY <2>6, <2>7
  <1> DEFINE T(s) == [n |-> Cardinality(s), sum |-> SumFunctionOnSet(f, s), max |-> IF s = {} THEN 0 ELSE Max(V(s))]
  <1>6. Totals(more) = T(more) /\ Totals(js) = T(js)  BY DEF Totals
  <1>7. more # {}  OBVIOUS
  <1> HIDE DEF f, V, more
  <1>8. T(more) = Add(T(js), records[i].value)  BY <1>3, <1>4, <1>5, <1>7 DEF Add
  <1> QED  BY <1>6, <1>8 DEF more

-------------------------------------------------------------------------------
(* Report: the records of a group.                                           *)

\* A record that begins no group from 1 to l goes on with the group of level l of the one before.
GoesOn(l, i) == Begins(i) \notin 1..l

IsFirst(l, i, f) ==
  /\ f \in 1..i
  /\ f = 1 \/ Begins(f) \in 1..l
  /\ \A k \in (f + 1)..i : Begins(k) \notin 1..l

\* Each record has a first one of its group, which it may be itself.
LEMMA FirstOfIs ==
  ASSUME NEW i \in Nat \ {0}, NEW l
  PROVE  IsFirst(l, i, FirstOf(l, i))
  <1> DEFINE S == {f \in 1..i : f = 1 \/ Begins(f) \in 1..l}
  <1>1. S \in SUBSET Int /\ S \subseteq 1..i /\ 1 \in S  OBVIOUS
  <1>2. IsFiniteSet(S)
    <2>1. IsFiniteSet(1..i)  BY FS_Interval
    <2> HIDE DEF S
    <2> QED  BY <1>1, <2>1, FS_Subset
  <1>3. PICK f \in S : \A k \in S : f >= k
    <2> HIDE DEF S
    <2> QED  BY <1>1, <1>2, Greatest
  <1>4. f \in 1..i /\ (f = 1 \/ Begins(f) \in 1..l)  BY <1>3
  <1>5. \A k \in (f + 1)..i : Begins(k) \notin 1..l
    <2> SUFFICES ASSUME NEW k \in (f + 1)..i, Begins(k) \in 1..l PROVE FALSE  OBVIOUS
    <2>1. k \in 1..i /\ k > f  BY <1>4
    <2>2. k \in S  BY <2>1
    <2> QED  BY <1>3, <1>4, <2>1, <2>2
  <1>6. \E g \in 1..i : (g = 1 \/ Begins(g) \in 1..l) /\ \A k \in (g + 1)..i : Begins(k) \notin 1..l
    BY <1>4, <1>5
  <1> QED  BY <1>6 DEF FirstOf, IsFirst

\* There is one.
LEMMA FirstOfOnly ==
  ASSUME NEW i \in Nat \ {0}, NEW l, NEW f, IsFirst(l, i, f)
  PROVE  FirstOf(l, i) = f
  <1> DEFINE g == FirstOf(l, i)
  <1>1. IsFirst(l, i, g)  BY FirstOfIs
  <1> HIDE DEF g
  <1>2. f \in 1..i /\ g \in 1..i  BY <1>1 DEF IsFirst
  <1>3. ~(f < g)
    <2> SUFFICES ASSUME f < g PROVE FALSE  OBVIOUS
    <2>1. g \in (f + 1)..i /\ g # 1  BY <1>2
    <2> QED  BY <1>1, <2>1 DEF IsFirst
  <1>4. ~(g < f)
    <2> SUFFICES ASSUME g < f PROVE FALSE  OBVIOUS
    <2>1. f \in (g + 1)..i /\ f # 1  BY <1>2
    <2> QED  BY <1>1, <2>1 DEF IsFirst
  <1> QED  BY <1>2, <1>3, <1>4 DEF g

\* A record that goes on with a group has the first record of the one before.
LEMMA FirstOfNext ==
  ASSUME NEW i \in Nat, i >= 2, NEW l
  PROVE  FirstOf(l, i) = IF GoesOn(l, i) THEN FirstOf(l, i - 1) ELSE i
  <1> DEFINE g == FirstOf(l, i - 1)
  <1>1. IsFirst(l, i - 1, g)
    <2>1. i - 1 \in Nat \ {0}  OBVIOUS
    <2> QED  BY <2>1, FirstOfIs
  <1> HIDE DEF g
  <1>2. CASE GoesOn(l, i)
    <2>1. g \in 1..i /\ (g = 1 \/ Begins(g) \in 1..l)  BY <1>1 DEF IsFirst
    <2>2. \A k \in (g + 1)..i : k = i \/ k \in (g + 1)..(i - 1)  BY <2>1
    <2>3. \A k \in (g + 1)..i : Begins(k) \notin 1..l  BY <1>1, <1>2, <2>2 DEF GoesOn, IsFirst
    <2>4. IsFirst(l, i, g)  BY <2>1, <2>3 DEF IsFirst
    <2>5. FirstOf(l, i) = g  BY <2>4, FirstOfOnly
    <2> QED  BY <1>2, <2>5 DEF g
  <1>3. CASE ~GoesOn(l, i)
    <2>1. (i + 1)..i = {} /\ i \in 1..i  OBVIOUS
    <2>2. IsFirst(l, i, i)  BY <1>3, <2>1 DEF GoesOn, IsFirst
    <2>3. FirstOf(l, i) = i  BY <2>2, FirstOfOnly
    <2> QED  BY <1>3, <2>3
  <1> QED  BY <1>2, <1>3

\* The records of its group before record i.
Earlier(l, i) == {j \in FirstOf(l, i)..(i - 1) : ~LeftOut(j)}

\* The records of a group up to record i are the earlier ones, and itself if it is not left out.
LEMMA CountedIs ==
  ASSUME NEW i \in Nat \ {0}, NEW l
  PROVE  Counted(l, i) = IF LeftOut(i) THEN Earlier(l, i) ELSE Earlier(l, i) \cup {i}
  <1> DEFINE f == FirstOf(l, i)
  <1>1. f \in 1..i  BY FirstOfIs DEF IsFirst
  <1>2. Counted(l, i) = {j \in f..i : ~LeftOut(j)}  BY DEF Counted
  <1>3. Earlier(l, i) = {j \in f..(i - 1) : ~LeftOut(j)}  BY DEF Earlier
  <1> HIDE DEF f
  <1>4. \A j : j \in f..i <=> j \in f..(i - 1) \/ j = i  BY <1>1
  <1> QED  BY <1>2, <1>3, <1>4

\* The earlier records of a group come before.
LEMMA EarlierIs ==
  ASSUME NEW i \in Nat \ {0}, NEW l
  PROVE  Earlier(l, i) \subseteq 1..(i - 1)
  <1>1. FirstOf(l, i) \in 1..i  BY FirstOfIs DEF IsFirst
  <1> QED  BY <1>1 DEF Earlier

\* Nothing is earlier than the first record.
LEMMA EarlierFirst ==
  ASSUME NEW l
  PROVE  Earlier(l, 1) = {}
  <1>1. Earlier(l, 1) \subseteq 1..0  BY EarlierIs
  <1> QED  BY <1>1

\* What is earlier than a record that goes on with a group is what counted up to the one before.
LEMMA EarlierNext ==
  ASSUME NEW i \in Nat, i >= 2, NEW l
  PROVE  Earlier(l, i) = IF GoesOn(l, i) THEN Counted(l, i - 1) ELSE {}
  <1>1. CASE GoesOn(l, i)
    <2>1. FirstOf(l, i) = FirstOf(l, i - 1)  BY <1>1, FirstOfNext
    <2> QED  BY <1>1, <2>1 DEF Earlier, Counted
  <1>2. CASE ~GoesOn(l, i)
    <2>1. FirstOf(l, i) = i  BY <1>2, FirstOfNext
    <2>2. i..(i - 1) = {}  OBVIOUS
    <2> QED  BY <1>2, <2>1, <2>2 DEF Earlier
  <1> QED  BY <1>1, <1>2

-------------------------------------------------------------------------------
(* Report: what printing changes.                                            *)

\* The other members of Report and Output, and what is on paper.
IsState(x) ==
  /\ x = [real |-> x.real, prev |-> x.prev, number |-> x.number, page |-> x.page, shown |-> x.shown,
          prevShown |-> x.prevShown, agg |-> x.agg, prevAgg |-> x.prevAgg, newPage |-> x.newPage,
          y |-> x.y, supressed |-> x.supressed, paper |-> x.paper]
  /\ \E T : x.paper \in Seq(T)

PageTypes == {"PageHeader", "PageFooter"}

\* z has the values of x.
Keeps(x, z) ==
  /\ IsState(z)
  /\ z.real = x.real /\ z.prev = x.prev /\ z.agg = x.agg /\ z.prevAgg = x.prevAgg

OnPaper(x, e) == \E n \in DOMAIN x.paper : e = x.paper[n]

\* A section that its formula may supress, and whether it does.
Mark(s)    == s.maySupress /\ s \in Range(report)
Marks(x)   == \A s \in x.supressed : Mark(s)
Asks(x, s) == s.maySupress /\ x.real # 0 /\ records[x.real].supress

\* From x to z page headers and footers were printed, or supressed, and nothing else.
PagesOnly(x, z) ==
  /\ Keeps(x, z)
  /\ \A e : OnPaper(z, e) => OnPaper(x, e) \/ e.section.type \in PageTypes
  /\ x.supressed \subseteq z.supressed
  /\ \A a \in z.supressed : a \in x.supressed \/ (Mark(a) /\ a.type \in PageTypes)

\* A line of section s, printed with the values of x.
LineOf(x, s, e) == e.section = s /\ e.record = x.real /\ e.agg = x.agg[s.level]

\* From x to z section s was printed, perhaps, or supressed, with page headers and footers.
Adds1(x, z, s) ==
  /\ Keeps(x, z)
  /\ \A e : OnPaper(z, e) => OnPaper(x, e) \/ e.section.type \in PageTypes \/ LineOf(x, s, e)
  /\ x.supressed \subseteq z.supressed
  /\ \A a \in z.supressed :
       a \in x.supressed \/ (Mark(a) /\ (a.type \in PageTypes \/ (a = s /\ Asks(x, s))))

\* The lines of a paper with one more.
LEMMA AppendLine ==
  ASSUME NEW T, NEW p \in Seq(T), NEW e
  PROVE  /\ Append(p, e) \in Seq(T \cup {e})
         /\ \A n \in DOMAIN Append(p, e) : Append(p, e)[n] = e \/ \E m \in DOMAIN p : Append(p, e)[n] = p[m]
  <1>1. p \in Seq(T \cup {e}) /\ e \in T \cup {e}  OBVIOUS
  <1>2. Append(p, e) \in Seq(T \cup {e}) /\ Len(Append(p, e)) = Len(p) + 1 /\ Len(p) \in Nat
        /\ \A n \in 1..Len(p) : Append(p, e)[n] = p[n]
    BY <1>1
  <1>3. Append(p, e)[Len(p) + 1] = e  BY <1>1
  <1>4. DOMAIN Append(p, e) = 1..(Len(p) + 1) /\ DOMAIN p = 1..Len(p)  BY <1>2
  <1>5. \A n \in 1..(Len(p) + 1) : n \in 1..Len(p) \/ n = Len(p) + 1  BY <1>2
  <1> QED  BY <1>2, <1>3, <1>4, <1>5

\* Put adds one line, with the values there are.
LEMMA PutAdds ==
  ASSUME NEW x, IsState(x), NEW s
  PROVE  /\ Keeps(x, Put(x, s)) /\ Put(x, s).supressed = x.supressed
         /\ \A e : OnPaper(Put(x, s), e) => OnPaper(x, e) \/ LineOf(x, s, e)
  <1> DEFINE z == Put(x, s)
             p == Append(x.paper, Line(x, s))
             h == StartSection(x, s) + s.sizeY + s.marginBottom + s.growth
             np == x.newPage /\ s.type \in {"ReportHeader", "PageHeader"}
  <1>1. z = [real |-> x.real, prev |-> x.prev, number |-> x.number, page |-> x.page, shown |-> x.shown,
             prevShown |-> x.prevShown, agg |-> x.agg, prevAgg |-> x.prevAgg,
             newPage |-> np, y |-> h, supressed |-> x.supressed, paper |-> p]
    <2>1. z = [x EXCEPT !.paper = p, !.y = h, !.newPage = np]  BY DEF Put
    <2> HIDE DEF z, p, h, np
    <2> QED  BY <2>1 DEF IsState
  <1>2. PICK T : x.paper \in Seq(T)  BY DEF IsState
  <1> HIDE DEF z, h, np
  <1>3. /\ p \in Seq(T \cup {Line(x, s)})
        /\ \A n \in DOMAIN p : p[n] = Line(x, s) \/ \E m \in DOMAIN x.paper : p[n] = x.paper[m]
    BY <1>2, AppendLine
  <1> HIDE DEF p
  <1>4. Keeps(x, z) /\ z.supressed = x.supressed  BY <1>1, <1>3 DEF Keeps, IsState
  <1>5. LineOf(x, s, Line(x, s))  BY DEF LineOf, Line
  <1>6. \A e : OnPaper(z, e) => OnPaper(x, e) \/ LineOf(x, s, e)
    <2> SUFFICES ASSUME NEW e, OnPaper(z, e) PROVE OnPaper(x, e) \/ LineOf(x, s, e)  OBVIOUS
    <2>1. PICK n \in DOMAIN p : e = p[n]  BY <1>1 DEF OnPaper
    <2>2. CASE e = Line(x, s)  BY <1>5, <2>2
    <2>3. CASE e # Line(x, s)  BY <1>3, <2>1, <2>3 DEF OnPaper
    <2> QED  BY <2>2, <2>3
  <1> QED  BY <1>4, <1>6 DEF z

\* FormulaBefore may supress its section, and nothing else.
LEMMA RunFormulaIs ==
  ASSUME NEW x, IsState(x), NEW s
  PROVE  LET z == RunFormula(x, s)
         IN  /\ Keeps(x, z) /\ z.paper = x.paper
             /\ \A a : a \in z.supressed <=> a \in x.supressed \/ (a = s /\ Asks(x, s))
  <1> DEFINE u == x.supressed \cup {s}
             z == RunFormula(x, s)
  <1>1. CASE Asks(x, s)
    <2>1. z = [x EXCEPT !.supressed = u]  BY <1>1 DEF RunFormula, Asks
    <2> SUFFICES Keeps(x, z) /\ z.paper = x.paper /\ z.supressed = u  BY <1>1
    <2> HIDE DEF z, u
    <2>2. z = [real |-> x.real, prev |-> x.prev, number |-> x.number, page |-> x.page, shown |-> x.shown,
               prevShown |-> x.prevShown, agg |-> x.agg, prevAgg |-> x.prevAgg, newPage |-> x.newPage,
               y |-> x.y, supressed |-> u, paper |-> x.paper]
      BY <2>1 DEF IsState
    <2> QED  BY <2>2 DEF Keeps, IsState
  <1>2. CASE ~Asks(x, s)
    <2>1. z = x  BY <1>2 DEF RunFormula, Asks
    <2> QED  BY <1>2, <2>1 DEF Keeps
  <1> QED  BY <1>1, <1>2

\* To do nothing is to print page sections only.
LEMMA PagesStart ==
  ASSUME NEW x, IsState(x)
  PROVE  PagesOnly(x, x)
  BY DEF PagesOnly, Keeps

\* So is to print them twice.
LEMMA PagesOn ==
  ASSUME NEW x, NEW y, NEW z, PagesOnly(x, y), PagesOnly(y, z)
  PROVE  PagesOnly(x, z)
  BY DEF PagesOnly, Keeps

\* A page header or footer, printed or not.
LEMMA PageSection ==
  ASSUME NEW x, IsState(x), NEW s \in Range(report), s.type \in PageTypes
  PROVE  PagesOnly(x, PrintPageSection(x, s))
  <1> DEFINE z == RunFormula(x, s)
  <1>1. PagesOnly(x, x)  BY PagesStart
  <1>2. /\ Keeps(x, z) /\ z.paper = x.paper
        /\ \A a : a \in z.supressed <=> a \in x.supressed \/ (a = s /\ Asks(x, s))
    BY RunFormulaIs
  <1>3. PrintPageSection(x, s) \in {x, z, Put(z, s)}  BY DEF PrintPageSection
  <1> HIDE DEF z
  <1>4. PagesOnly(x, z)  BY <1>2 DEF PagesOnly, OnPaper, Asks, Mark
  <1>5. PagesOnly(z, Put(z, s))
    <2>1. IsState(z)  BY <1>2 DEF Keeps
    <2> DEFINE w == Put(z, s)
    <2>2. /\ Keeps(z, w) /\ w.supressed = z.supressed
          /\ \A e : OnPaper(w, e) => OnPaper(z, e) \/ LineOf(z, s, e)
      BY <2>1, PutAdds
    <2> HIDE DEF w
    <2>3. PagesOnly(z, w)  BY <2>2 DEF PagesOnly, LineOf
    <2> QED  BY <2>3 DEF w
  <1>6. PagesOnly(x, Put(z, s))  BY <1>4, <1>5, PagesOn
  <1> QED  BY <1>1, <1>3, <1>4, <1>6

(* The sections of a page: the function that FoldLeft is. *)

Folds(x, ss, S, g) ==
  g = [t \in SUBSET S |-> IF t = {} THEN x ELSE PrintPageSection(g[t \ {Max(t)}], ss[Max(t)])]

Numbers(S) == IsFiniteSet(S) /\ S \in SUBSET Int

LEMMA NumbersIn ==
  ASSUME NEW S, Numbers(S), NEW t, t \subseteq S
  PROVE  Numbers(t) /\ (t # {} => Max(t) \in t)
  <1>1. IsFiniteSet(t) /\ t \in SUBSET Int  BY FS_Subset DEF Numbers
  <1> QED  BY <1>1, MaxIs DEF Numbers

LEMMA FoldIs ==
  ASSUME NEW x, NEW ss
  PROVE  PrintPageSections(x, ss) = (CHOOSE g : Folds(x, ss, DOMAIN ss, g))[DOMAIN ss]
  BY DEF PrintPageSections, FoldLeft, MapThenFoldSet, Folds

LEMMA FoldAt ==
  ASSUME NEW x, NEW ss, NEW S, NEW g, Folds(x, ss, S, g), NEW t, t \subseteq S
  PROVE  /\ t = {} => g[t] = x
         /\ t # {} => g[t] = PrintPageSection(g[t \ {Max(t)}], ss[Max(t)])
  BY DEF Folds

LEMMA FoldUnique ==
  ASSUME NEW x, NEW ss, NEW S, NEW g, Folds(x, ss, S, g), NEW T, NEW h, Folds(x, ss, T, h),
         NEW U, U \subseteq S, U \subseteq T, Numbers(U)
  PROVE  g[U] = h[U]
  <1> DEFINE F == {V \in SUBSET U : g[V] # h[V]}
  <1> SUFFICES ASSUME F # {} PROVE FALSE  OBVIOUS
  <1>1. F \in Families(U)  BY DEF Families
  <1>2. PICK X : IsMinimal(X, F)
    <2> HIDE DEF F
    <2> QED  BY <1>1, Minimal DEF Numbers
  <1>3. X \subseteq U /\ g[X] # h[X]  BY <1>2 DEF IsMinimal
  <1>4. X \subseteq S /\ X \subseteq T  BY <1>3
  <1>5. /\ X = {} => g[X] = x
        /\ X # {} => g[X] = PrintPageSection(g[X \ {Max(X)}], ss[Max(X)])
    <2> HIDE DEF F
    <2> QED  BY <1>4 DEF Folds
  <1>10. /\ X = {} => h[X] = x
         /\ X # {} => h[X] = PrintPageSection(h[X \ {Max(X)}], ss[Max(X)])
    <2> HIDE DEF F
    <2> QED  BY <1>4 DEF Folds
  <1>6. X # {}  BY <1>3, <1>5, <1>10
  <1>7. Max(X) \in X  BY <1>3, <1>6, NumbersIn
  <1> DEFINE Y == X \ {Max(X)}
  <1>8. Y \notin F  BY <1>2, <1>7 DEF IsMinimal
  <1>9. g[Y] = h[Y]  BY <1>3, <1>8
  <1> QED  BY <1>3, <1>5, <1>6, <1>9, <1>10

\* There is such a sequence of states: what FoldLeft goes through, section by section.
LEMMA FoldExists ==
  ASSUME NEW x, NEW ss, NEW S, Numbers(S)
  PROVE  \E g : Folds(x, ss, S, g)
  <1> DEFINE F == {T \in SUBSET S : ~ \E g : Folds(x, ss, T, g)}
  <1> SUFFICES ASSUME F # {} PROVE FALSE  OBVIOUS
  <1>1. F \in Families(S)  BY DEF Families
  <1>2. PICK X : IsMinimal(X, F)
    <2> HIDE DEF F
    <2> QED  BY <1>1, Minimal DEF Numbers
  <1>3. X \subseteq S /\ Numbers(X) /\ ~ \E g : Folds(x, ss, X, g)  BY <1>2, NumbersIn DEF IsMinimal
  <1>4. \A Y : Y \subseteq X /\ Y # X => \E g : Folds(x, ss, Y, g)  BY <1>2, <1>3 DEF IsMinimal
  <1> DEFINE Y(t) == t \ {Max(t)}
             sub(t) == CHOOSE g : Folds(x, ss, t, g)
             more(t, z) == PrintPageSection(z, ss[Max(t)])
             g == [t \in SUBSET X |-> IF t = {} THEN x ELSE more(t, sub(Y(t))[Y(t)])]
  <1>5. ASSUME NEW t \in SUBSET X, t # {}
        PROVE  g[Y(t)] = sub(Y(t))[Y(t)]
    <2>1. Max(t) \in t  BY <1>3, <1>5, NumbersIn
    <2>2. Y(t) \subseteq X /\ Y(t) # X  BY <2>1, Zenon
    <2>3. Folds(x, ss, Y(t), sub(Y(t)))  BY <1>4, <2>2
    <2> DEFINE u == Y(t)
    <2> HIDE DEF u
    <2>4. u \subseteq X /\ u # X /\ Folds(x, ss, u, sub(u))  BY <2>2, <2>3 DEF u
    <2>5. CASE u = {}
      <3>1. sub(u)[u] = x
        <4> HIDE DEF sub
        <4> QED  BY <2>4, <2>5, FoldAt
      <3>2. g[u] = x
        <4> HIDE DEF sub, more
        <4> QED  BY <2>5
      <3> QED  BY <3>1, <3>2 DEF u
    <2>6. CASE u # {}
      <3>1. Max(u) \in u  BY <1>3, <2>4, <2>6, NumbersIn
      <3> DEFINE v == Y(u)
      <3>2. v \subseteq X /\ v # X /\ v \subseteq u  BY <3>1, <2>4
      <3>3. Folds(x, ss, v, sub(v))  BY <1>4, <3>2
      <3>4. Numbers(v)  BY <1>3, <3>2, NumbersIn
      <3>5. sub(u)[v] = sub(v)[v]
        <4> HIDE DEF sub, v, F, g, more, Y
        <4>1. v \subseteq u /\ v \subseteq v  BY <3>2
        <4>2. Folds(x, ss, u, sub(u)) /\ Folds(x, ss, v, sub(v))  BY <2>4, <3>3
        <4> QED  BY <3>4, <4>1, <4>2, FoldUnique
      <3>6. sub(u)[u] = more(u, sub(u)[v])
        <4> HIDE DEF sub
        <4> QED  BY <2>4, <2>6, FoldAt
      <3>7. g[u] = more(u, sub(v)[v])
        <4>1. u \in SUBSET X  BY <2>4
        <4> HIDE DEF sub, more
        <4> QED  BY <2>6, <4>1
      <3> HIDE DEF g, sub, more, v
      <3> QED  BY <3>5, <3>6, <3>7 DEF u
    <2> QED  BY <2>5, <2>6
  <1>6. Folds(x, ss, X, g)
    <2>1. \A t \in SUBSET X : t # {} => g[t] = more(t, g[Y(t)])
      <3> SUFFICES ASSUME NEW t \in SUBSET X, t # {} PROVE g[t] = more(t, g[Y(t)])  OBVIOUS
      <3>1. g[Y(t)] = sub(Y(t))[Y(t)]  BY <1>5
      <3>2. g[t] = more(t, sub(Y(t))[Y(t)])
        <4> HIDE DEF sub, more, Y
        <4> QED  OBVIOUS
      <3> HIDE DEF g, sub, more, Y
      <3> QED  BY <3>1, <3>2
    <2>2. g[{}] = x
      <3> HIDE DEF sub, more
      <3> QED  OBVIOUS
    <2>3. g = [t \in SUBSET X |-> g[t]]
      <3> HIDE DEF sub, more
      <3> QED  OBVIOUS
    <2> HIDE DEF g
    <2>4. g = [t \in SUBSET X |-> IF t = {} THEN x ELSE PrintPageSection(g[t \ {Max(t)}], ss[Max(t)])]
      <3>1. \A t \in SUBSET X : g[t] = IF t = {} THEN x ELSE PrintPageSection(g[t \ {Max(t)}], ss[Max(t)])
        BY <2>1, <2>2
      <3> QED  BY <2>3, <3>1
    <2> QED  BY <2>4 DEF Folds
  <1> QED  BY <1>3, <1>6

\* Headers and footers of pages leave the rest as it was.
LEMMA PageSections ==
  ASSUME NEW x, IsState(x), NEW T, NEW ss \in Seq(T),
         \A n \in DOMAIN ss : ss[n].type \in PageTypes /\ ss[n] \in Range(report)
  PROVE  PagesOnly(x, PrintPageSections(x, ss))
  <1> DEFINE S == DOMAIN ss
             g == CHOOSE g : Folds(x, ss, S, g)
  <1>1. Numbers(S)
    <2>1. S = 1..Len(ss) /\ Len(ss) \in Nat  OBVIOUS
    <2> QED  BY <2>1, FS_Interval DEF Numbers
  <1>2. Folds(x, ss, S, g)
    <2> HIDE DEF S
    <2> QED  BY <1>1, FoldExists
  <1>3. PrintPageSections(x, ss) = g[S]  BY FoldIs
  <1> HIDE DEF g
  <1> DEFINE F == {U \in SUBSET S : ~PagesOnly(x, g[U])}
  <1>4. F = {}
    <2> SUFFICES ASSUME F # {} PROVE FALSE  OBVIOUS
    <2>1. F \in Families(S)  BY DEF Families
    <2>2. PICK X : IsMinimal(X, F)
      <3> HIDE DEF F, S
      <3> QED  BY <1>1, <2>1, Minimal DEF Numbers
    <2>3. X \subseteq S /\ ~PagesOnly(x, g[X])  BY <2>2 DEF IsMinimal
    <2>4. /\ X = {} => g[X] = x
          /\ X # {} => g[X] = PrintPageSection(g[X \ {Max(X)}], ss[Max(X)])
      <3> HIDE DEF F, S
      <3> QED  BY <1>2, <2>3 DEF Folds
    <2>5. X # {}  BY <2>3, <2>4, PagesStart
    <2>6. Max(X) \in X
      <3> HIDE DEF F, S
      <3> QED  BY <1>1, <2>3, <2>5, NumbersIn
    <2> DEFINE y == g[X \ {Max(X)}]
    <2>7. X \ {Max(X)} \notin F  BY <2>2, <2>6 DEF IsMinimal
    <2>8. PagesOnly(x, y)  BY <2>3, <2>7
    <2>9. PagesOnly(y, PrintPageSection(y, ss[Max(X)]))
      <3>1. ss[Max(X)].type \in PageTypes /\ ss[Max(X)] \in Range(report)  BY <2>3, <2>6
      <3>2. IsState(y)  BY <2>8 DEF PagesOnly, Keeps
      <3> HIDE DEF y
      <3> QED  BY <3>1, <3>2, PageSection
    <2> HIDE DEF y
    <2>10. PagesOnly(x, PrintPageSection(y, ss[Max(X)]))  BY <2>8, <2>9, PagesOn
    <2> QED  BY <2>3, <2>4, <2>5, <2>10 DEF y
  <1>5. PagesOnly(x, g[S])  BY <1>4
  <1> QED  BY <1>3, <1>5

-------------------------------------------------------------------------------
(* Report: the sections of a type.                                           *)

SectionsOf(types) == {s \in Section : s \in Range(report) /\ s.type \in types /\ s.level \in 0..G}

\* The numbers of the sections, in their order.
IsOrder(f, ns) == f \in [1..Cardinality(ns) -> ns] /\ \A i, j \in DOMAIN f : i < j => f[i] < f[j]

\* The sections in their order: each of them once.
LEMMA InOrderIs ==
  ASSUME Given, NEW ns \in SUBSET (DOMAIN report)
  PROVE  /\ Cardinality(ns) \in Nat
         /\ \E f : /\ f \in [1..Cardinality(ns) -> ns]
                   /\ \A i, j \in 1..Cardinality(ns) : f[i] = f[j] => i = j
                   /\ \A n \in ns : \E i \in 1..Cardinality(ns) : n = f[i]
                   /\ InOrder(ns) = [k \in 1..Cardinality(ns) |-> report[f[k]]]
  <1>1. ns \in SUBSET Nat /\ IsFiniteSet(ns)
    <2>1. DOMAIN report = 1..Len(report) /\ Len(report) \in Nat  BY ReportIs
    <2>2. IsFiniteSet(1..Len(report))  BY <2>1, FS_Interval
    <2> QED  BY <2>1, <2>2, FS_Subset
  <1>2. Cardinality(ns) \in Nat  BY <1>1, FS_CardinalityType
  <1>3. PICK s : Ordered(s, ns)  BY <1>1, SortedExists
  <1>4. IsOrder(s, ns)  BY <1>3 DEF Ordered, IsOrder
  <1> DEFINE f == CHOOSE f \in [1..Cardinality(ns) -> ns] : \A i, j \in DOMAIN f : i < j => f[i] < f[j]
  <1>5. InOrder(ns) = [k \in 1..Cardinality(ns) |-> report[f[k]]]  BY DEF InOrder
  <1>6. f \in [1..Cardinality(ns) -> ns] /\ \A i, j \in DOMAIN f : i < j => f[i] < f[j]  BY <1>4 DEF IsOrder
  <1> HIDE DEF f
  <1>7. Ordered(f, ns)  BY <1>6 DEF Ordered
  <1>8. /\ \A i, j \in 1..Cardinality(ns) : f[i] = f[j] => i = j
        /\ \A n \in ns : \E i \in 1..Cardinality(ns) : n = f[i]
    BY <1>1, <1>7, OrderedOnto
  <1> QED  BY <1>2, <1>5, <1>6, <1>8

\* They are sections of the report, of the types of their numbers.
LEMMA InOrderType ==
  ASSUME Given, NEW types, NEW ns \in SUBSET (DOMAIN report), \A n \in ns : report[n].type \in types
  PROVE  InOrder(ns) \in Seq(SectionsOf(types))
  <1>1. Cardinality(ns) \in Nat  BY InOrderIs
  <1>2. PICK f : /\ f \in [1..Cardinality(ns) -> ns]
                 /\ InOrder(ns) = [k \in 1..Cardinality(ns) |-> report[f[k]]]
    BY InOrderIs
  <1>3. \A n \in ns : report[n] \in SectionsOf(types)
    <2> SUFFICES ASSUME NEW n \in ns PROVE report[n] \in SectionsOf(types)  OBVIOUS
    <2>1. report[n] \in Section  BY ReportIs
    <2>2. report[n].level \in 0..G  BY LevelsAre DEF Levels
    <2>3. report[n] \in Range(report)  BY DEF Range
    <2> QED  BY <2>1, <2>2, <2>3 DEF SectionsOf
  <1>4. \A k \in 1..Cardinality(ns) : InOrder(ns)[k] \in SectionsOf(types)  BY <1>2, <1>3
  <1>5. InOrder(ns) \in [1..Cardinality(ns) -> SectionsOf(types)]  BY <1>2, <1>4
  <1> QED  BY <1>1, <1>5

LEMMA OfTypeIs ==
  ASSUME Given, NEW t
  PROVE  OfType(t) \in Seq(SectionsOf({t}))
  <1> DEFINE ns == {n \in DOMAIN report : report[n].type = t}
  <1>1. ns \in SUBSET (DOMAIN report) /\ \A n \in ns : report[n].type \in {t}  OBVIOUS
  <1> HIDE DEF ns
  <1>2. InOrder(ns) \in Seq(SectionsOf({t}))  BY <1>1, InOrderType
  <1> QED  BY <1>2 DEF OfType, ns

LEMMA OfLevelIs ==
  ASSUME Given, NEW t, NEW l
  PROVE  OfLevel(t, l) \in Seq(SectionsOf({t}))
  <1> DEFINE ns == {n \in DOMAIN report : report[n].type = t /\ report[n].level = l}
  <1>1. ns \in SUBSET (DOMAIN report) /\ \A n \in ns : report[n].type \in {t}  OBVIOUS
  <1> HIDE DEF ns
  <1>2. InOrder(ns) \in Seq(SectionsOf({t}))  BY <1>1, InOrderType
  <1> QED  BY <1>2 DEF OfLevel, ns

\* At most one details section of each report is supressed by its formula.
MaySupress(s) == s.type = "Details" /\ s.maySupress

SupressOnce == \A d \in Reports : \A m, n \in DOMAIN d : MaySupress(d[m]) /\ MaySupress(d[n]) => m = n

\* It is among the details once, if there is one.
LEMMA DetailsOnce ==
  ASSUME Given, SupressOnce
  PROVE  /\ \A m, n \in DOMAIN OfType("Details") :
              OfType("Details")[m].maySupress /\ OfType("Details")[n].maySupress => m = n
         /\ (\E n \in DOMAIN report : MaySupress(report[n])) =>
              \E n \in DOMAIN OfType("Details") : OfType("Details")[n].maySupress
  <1> DEFINE ns == {n \in DOMAIN report : report[n].type = "Details"}
  <1>1. ns \in SUBSET (DOMAIN report) /\ OfType("Details") = InOrder(ns)  BY DEF OfType
  <1>2. /\ \A n \in DOMAIN report : MaySupress(report[n]) <=> n \in ns /\ report[n].maySupress
        /\ \A m, n \in DOMAIN report : MaySupress(report[m]) /\ MaySupress(report[n]) => m = n
    BY DEF SupressOnce, Given, MaySupress
  <1> HIDE DEF ns
  <1>3. PICK f : /\ f \in [1..Cardinality(ns) -> ns]
                 /\ \A i, j \in 1..Cardinality(ns) : f[i] = f[j] => i = j
                 /\ \A n \in ns : \E i \in 1..Cardinality(ns) : n = f[i]
                 /\ InOrder(ns) = [k \in 1..Cardinality(ns) |-> report[f[k]]]
    BY <1>1, InOrderIs
  <1>4. DOMAIN InOrder(ns) = 1..Cardinality(ns) /\ \A k \in 1..Cardinality(ns) : InOrder(ns)[k] = report[f[k]]
    BY <1>3
  <1>5. \A k \in 1..Cardinality(ns) : f[k] \in DOMAIN report /\ f[k] \in ns  BY <1>1, <1>3
  <1> DEFINE ss == OfType("Details")
  <1>6. DOMAIN ss = 1..Cardinality(ns) /\ \A k \in 1..Cardinality(ns) : ss[k] = report[f[k]]  BY <1>1, <1>4
  <1> HIDE DEF ss
  <1>7. ASSUME NEW m \in DOMAIN ss, NEW n \in DOMAIN ss, ss[m].maySupress, ss[n].maySupress  PROVE m = n
    <2>1. f[m] = f[n]  BY <1>2, <1>5, <1>6, <1>7
    <2> QED  BY <1>3, <1>6, <2>1
  <1>8. ASSUME NEW n \in DOMAIN report, MaySupress(report[n])  PROVE \E k \in DOMAIN ss : ss[k].maySupress
    <2>1. PICK k \in 1..Cardinality(ns) : n = f[k]  BY <1>2, <1>3, <1>8
    <2>2. report[n].maySupress  BY <1>2, <1>8
    <2> QED  BY <1>6, <2>1, <2>2
  <1> QED  BY <1>7, <1>8 DEF ss

\* The functions that print the page sections print nothing else.
LEMMA PageFootersOnly ==
  ASSUME Given, NEW x, IsState(x)
  PROVE  PagesOnly(x, PrintPageFooters(x))
  <1> DEFINE h == SizeY - MarginBottom - VisibleFooters
             z == [x EXCEPT !.y = h]
  <1>1. PagesOnly(x, z)
    <2>1. z = [real |-> x.real, prev |-> x.prev, number |-> x.number, page |-> x.page, shown |-> x.shown,
               prevShown |-> x.prevShown, agg |-> x.agg, prevAgg |-> x.prevAgg,
               newPage |-> x.newPage, y |-> h, supressed |-> x.supressed, paper |-> x.paper]
      <3> HIDE DEF h
      <3> QED  BY DEF IsState
    <2> HIDE DEF z, h
    <2> QED  BY <2>1 DEF PagesOnly, Keeps, IsState, OnPaper
  <1>2. IsState(z)  BY <1>1 DEF PagesOnly, Keeps
  <1>3. OfType("PageFooter") \in Seq(SectionsOf({"PageFooter"}))  BY OfTypeIs
  <1>4. \A n \in DOMAIN OfType("PageFooter") :
          OfType("PageFooter")[n].type \in PageTypes /\ OfType("PageFooter")[n] \in Range(report)
    BY <1>3 DEF SectionsOf, PageTypes
  <1> HIDE DEF z
  <1>5. PagesOnly(z, PrintPageSections(z, OfType("PageFooter")))  BY <1>2, <1>3, <1>4, PageSections
  <1>6. PrintPageFooters(x) = PrintPageSections(z, OfType("PageFooter"))  BY DEF PrintPageFooters, z
  <1> QED  BY <1>1, <1>5, <1>6, PagesOn

LEMMA PageHeadersOnly ==
  ASSUME Given, NEW x, IsState(x)
  PROVE  PagesOnly(x, PrintPageHeaders(x))
  <1>1. OfType("PageHeader") \in Seq(SectionsOf({"PageHeader"}))  BY OfTypeIs
  <1>2. \A n \in DOMAIN OfType("PageHeader") :
          OfType("PageHeader")[n].type \in PageTypes /\ OfType("PageHeader")[n] \in Range(report)
    BY <1>1 DEF SectionsOf, PageTypes
  <1> QED  BY <1>1, <1>2, PageSections DEF PrintPageHeaders

LEMMA NewPageOnly ==
  ASSUME NEW x, IsState(x)
  PROVE  PagesOnly(x, IssueNewPage(x))
  <1> DEFINE n == x.page + 1
             w == x.shown
             m == MarginTop
             yes == TRUE
             z == IssueNewPage(x)
  <1>1. z = [x EXCEPT !.y = m, !.page = n, !.newPage = yes, !.shown = n, !.prevShown = w]
    BY DEF IssueNewPage
  <1> HIDE DEF n, w, m, yes, z
  <1>2. z = [real |-> x.real, prev |-> x.prev, number |-> x.number, page |-> n, shown |-> n,
             prevShown |-> w, agg |-> x.agg, prevAgg |-> x.prevAgg,
             newPage |-> yes, y |-> m, supressed |-> x.supressed, paper |-> x.paper]
    BY <1>1 DEF IsState
  <1>3. PagesOnly(x, z)  BY <1>2 DEF PagesOnly, Keeps, IsState, OnPaper
  <1> QED  BY <1>3 DEF z

\* A section that does not fit ends the page first.
LEMMA FooterIfNeededOnly ==
  ASSUME Given, NEW x, IsState(x), NEW s
  PROVE  PagesOnly(x, PrintPageFooterIfNeeded(x, s))
  <1> DEFINE a == PrintPageFooters(x)
             b == IssueNewPage(a)
  <1>1. PagesOnly(x, a)  BY PageFootersOnly
  <1>2. PagesOnly(a, b)  BY <1>1, NewPageOnly DEF PagesOnly, Keeps
  <1>3. PagesOnly(b, PrintPageHeaders(b))  BY <1>2, PageHeadersOnly DEF PagesOnly, Keeps
  <1> HIDE DEF a, b
  <1>4. PagesOnly(x, PrintPageHeaders(b))  BY <1>1, <1>2, <1>3, PagesOn
  <1> QED  BY <1>4, PagesStart DEF PrintPageFooterIfNeeded, a, b

\* Page sections before and after a section.
LEMMA AddsAfterPages ==
  ASSUME NEW x, NEW y, NEW z, NEW s, PagesOnly(x, y), Adds1(y, z, s)
  PROVE  Adds1(x, z, s)
  BY DEF PagesOnly, Keeps, Adds1, LineOf, Asks

LEMMA PagesAfterAdds ==
  ASSUME NEW x, NEW y, NEW z, NEW s, Adds1(x, y, s), PagesOnly(y, z)
  PROVE  Adds1(x, z, s)
  BY DEF PagesOnly, Keeps, Adds1, LineOf, Asks

LEMMA AddsOn ==
  ASSUME NEW x, NEW y, NEW z, NEW s, Adds1(x, y, s), Adds1(y, z, s)
  PROVE  Adds1(x, z, s)
  BY DEF Keeps, Adds1, LineOf, Asks

\* The section that is printed goes to another page, if it must, and may end its own.
LEMMA PutSectionAdds ==
  ASSUME Given, NEW x, IsState(x), NEW s
  PROVE  Adds1(x, PutSection(x, s), s)
  <1> DEFINE started == IF s.pageBefore /\ ~x.newPage THEN IssueNewPage(PrintPageFooters(x))
                        ELSE PrintPageFooterIfNeeded(x, s)
             put == Put(started, s)
  <1>1. PagesOnly(x, started)
    <2>1. PagesOnly(x, PrintPageFooters(x))  BY PageFootersOnly
    <2>2. PagesOnly(PrintPageFooters(x), IssueNewPage(PrintPageFooters(x)))
      BY <2>1, NewPageOnly DEF PagesOnly, Keeps
    <2>3. PagesOnly(x, IssueNewPage(PrintPageFooters(x)))  BY <2>1, <2>2, PagesOn
    <2> QED  BY <2>3, FooterIfNeededOnly
  <1>2. IsState(started)  BY <1>1 DEF PagesOnly, Keeps
  <1> HIDE DEF started
  <1>3. Adds1(started, put, s)
    <2>1. /\ Keeps(started, put) /\ put.supressed = started.supressed
          /\ \A e : OnPaper(put, e) => OnPaper(started, e) \/ LineOf(started, s, e)
      BY <1>2, PutAdds
    <2> HIDE DEF put
    <2> QED  BY <2>1 DEF Adds1
  <1> HIDE DEF put
  <1>4. Adds1(x, put, s)  BY <1>1, <1>3, AddsAfterPages
  <1>5. IsState(put)  BY <1>3 DEF Adds1, Keeps
  <1>6. PagesOnly(put, PrintPageFooters(put))  BY <1>5, PageFootersOnly
  <1>7. Adds1(x, PrintPageFooters(put), s)  BY <1>4, <1>6, PagesAfterAdds
  <1> QED  BY <1>4, <1>7 DEF PutSection, put, started

\* printSection prints the section, or not, and pages.
LEMMA PrintSectionAdds ==
  ASSUME Given, NEW x, IsState(x), NEW s \in Range(report)
  PROVE  Adds1(x, PrintSection(x, s), s)
  <1> DEFINE z == RunFormula(x, s)
  <1>1. /\ Keeps(x, z) /\ z.paper = x.paper
        /\ \A a : a \in z.supressed <=> a \in x.supressed \/ (a = s /\ Asks(x, s))
    BY RunFormulaIs
  <1>2. PrintSection(x, s) \in {z, PutSection(z, s)}  BY DEF PrintSection
  <1> HIDE DEF z
  <1>3. Adds1(x, z, s)  BY <1>1 DEF Adds1, OnPaper, Asks, Mark
  <1>4. Adds1(z, PutSection(z, s), s)  BY <1>1, PutSectionAdds DEF Keeps
  <1>5. Adds1(x, PutSection(z, s), s)  BY <1>3, <1>4, AddsOn
  <1> QED  BY <1>2, <1>3, <1>5

\* printReportFooters prints its section, or not, and pages.
LEMMA PrintReportFooterAdds ==
  ASSUME Given, NEW x, IsState(x), NEW s \in Range(report)
  PROVE  Adds1(x, PrintReportFooter(x, s), s)
  <1> DEFINE a == IF SectionFits(x, s, s.sizeY) THEN x ELSE IssueNewPage(x)
  <1>1. PagesOnly(x, a)  BY PagesStart, NewPageOnly
  <1>2. IsState(a)  BY <1>1 DEF PagesOnly, Keeps
  <1> HIDE DEF a
  <1>3. Adds1(a, PrintSection(a, s), s)  BY <1>2, PrintSectionAdds
  <1>4. Adds1(x, PrintSection(a, s), s)  BY <1>1, <1>3, AddsAfterPages
  <1> QED  BY <1>4 DEF PrintReportFooter, a

-------------------------------------------------------------------------------
(* Report: what reading and swapping change.                                 *)

\* The aggregates have a value for each level.
HasLevels(x) == x.agg = [l \in 0..G |-> x.agg[l]] /\ x.prevAgg = [l \in 0..G |-> x.prevAgg[l]]

LEMMA HasDomains ==
  ASSUME NEW x, HasLevels(x)
  PROVE  DOMAIN x.agg = 0..G /\ DOMAIN x.prevAgg = 0..G
  BY DEF HasLevels

SamePaper(x, z) == IsState(z) /\ z.paper = x.paper /\ z.supressed = x.supressed

\* calcAggregateValues: the levels from this one.
LEMMA CalcIs ==
  ASSUME NEW x, IsState(x), HasLevels(x), NEW from
  PROVE  LET z == CalcAggregateValues(x, from)
         IN  /\ SamePaper(x, z) /\ z.real = x.real /\ z.prev = x.prev
             /\ z.prevAgg = [l \in 0..G |-> IF l >= from THEN x.agg[l] ELSE x.prevAgg[l]]
             /\ z.agg = [l \in 0..G |-> IF l >= from THEN Add(x.agg[l], records[x.real].value) ELSE x.agg[l]]
  <1> DEFINE p == [l \in 0..G |-> IF l >= from THEN x.agg[l] ELSE x.prevAgg[l]]
             a == [l \in 0..G |-> IF l >= from THEN Add(x.agg[l], records[x.real].value) ELSE x.agg[l]]
             z == CalcAggregateValues(x, from)
  <1>1. z = [x EXCEPT !.prevAgg = p, !.agg = a]  BY HasDomains DEF CalcAggregateValues
  <1> SUFFICES SamePaper(x, z) /\ z.real = x.real /\ z.prev = x.prev /\ z.prevAgg = p /\ z.agg = a  OBVIOUS
  <1> HIDE DEF p, a, z
  <1>2. z = [real |-> x.real, prev |-> x.prev, number |-> x.number, page |-> x.page, shown |-> x.shown,
             prevShown |-> x.prevShown, agg |-> a, prevAgg |-> p, newPage |-> x.newPage,
             y |-> x.y, supressed |-> x.supressed, paper |-> x.paper]
    BY <1>1 DEF IsState
  <1> QED  BY <1>2 DEF SamePaper, IsState

\* resetAggregateValues: the levels from this one.
LEMMA ResetIs ==
  ASSUME NEW x, IsState(x), HasLevels(x), NEW from
  PROVE  LET z == ResetAggregateValues(x, from)
         IN  /\ SamePaper(x, z) /\ z.real = x.real /\ z.prev = x.prev /\ z.prevAgg = x.prevAgg
             /\ z.agg = [l \in 0..G |-> IF l >= from THEN NoAggregate ELSE x.agg[l]]
  <1> DEFINE a == [l \in 0..G |-> IF l >= from THEN NoAggregate ELSE x.agg[l]]
             z == ResetAggregateValues(x, from)
  <1>1. z = [x EXCEPT !.agg = a]  BY HasDomains DEF ResetAggregateValues
  <1> SUFFICES SamePaper(x, z) /\ z.real = x.real /\ z.prev = x.prev /\ z.prevAgg = x.prevAgg /\ z.agg = a  OBVIOUS
  <1> HIDE DEF a, z
  <1>2. z = [real |-> x.real, prev |-> x.prev, number |-> x.number, page |-> x.page, shown |-> x.shown,
             prevShown |-> x.prevShown, agg |-> a, prevAgg |-> x.prevAgg, newPage |-> x.newPage,
             y |-> x.y, supressed |-> x.supressed, paper |-> x.paper]
    BY <1>1 DEF IsState
  <1> QED  BY <1>2 DEF SamePaper, IsState

\* swapAggregateValues: the levels up to this one.
LEMMA SwapAggIs ==
  ASSUME NEW x, IsState(x), HasLevels(x), NEW upTo
  PROVE  LET z == SwapAggregateValues(x, upTo)
         IN  /\ SamePaper(x, z) /\ z.real = x.real /\ z.prev = x.prev
             /\ z.agg = [l \in 0..G |-> IF l <= upTo THEN x.prevAgg[l] ELSE x.agg[l]]
             /\ z.prevAgg = [l \in 0..G |-> IF l <= upTo THEN x.agg[l] ELSE x.prevAgg[l]]
  <1> DEFINE a == [l \in 0..G |-> IF l <= upTo THEN x.prevAgg[l] ELSE x.agg[l]]
             p == [l \in 0..G |-> IF l <= upTo THEN x.agg[l] ELSE x.prevAgg[l]]
             z == SwapAggregateValues(x, upTo)
  <1>1. z = [x EXCEPT !.agg = a, !.prevAgg = p]  BY HasDomains DEF SwapAggregateValues
  <1> SUFFICES SamePaper(x, z) /\ z.real = x.real /\ z.prev = x.prev /\ z.prevAgg = p /\ z.agg = a  OBVIOUS
  <1> HIDE DEF p, a, z
  <1>2. z = [real |-> x.real, prev |-> x.prev, number |-> x.number, page |-> x.page, shown |-> x.shown,
             prevShown |-> x.prevShown, agg |-> a, prevAgg |-> p, newPage |-> x.newPage,
             y |-> x.y, supressed |-> x.supressed, paper |-> x.paper]
    BY <1>1 DEF IsState
  <1> QED  BY <1>2 DEF SamePaper, IsState

\* swapNonConstValues: the two records change places, the aggregates stay.
LEMMA SwapValuesIs ==
  ASSUME NEW x, IsState(x)
  PROVE  LET z == SwapNonConstValues(x)
         IN  /\ SamePaper(x, z) /\ z.real = x.prev /\ z.prev = x.real
             /\ z.agg = x.agg /\ z.prevAgg = x.prevAgg
  <1> DEFINE i == x.prev  j == x.real  s == x.prevShown  t == x.shown
             z == SwapNonConstValues(x)
  <1>1. z = [x EXCEPT !.real = i, !.prev = j, !.shown = s, !.prevShown = t]  BY DEF SwapNonConstValues
  <1> SUFFICES SamePaper(x, z) /\ z.real = i /\ z.prev = j /\ z.agg = x.agg /\ z.prevAgg = x.prevAgg  OBVIOUS
  <1> HIDE DEF i, j, s, t, z
  <1>2. z = [real |-> i, prev |-> j, number |-> x.number, page |-> x.page, shown |-> s,
             prevShown |-> t, agg |-> x.agg, prevAgg |-> x.prevAgg, newPage |-> x.newPage,
             y |-> x.y, supressed |-> x.supressed, paper |-> x.paper]
    BY <1>1 DEF IsState
  <1> QED  BY <1>2 DEF SamePaper, IsState

\* evalNonConstValues: the record takes the place of the one before.
LEMMA EvalIs ==
  ASSUME NEW x, IsState(x), NEW i
  PROVE  LET z == EvalNonConstValues(x, i)
         IN  /\ SamePaper(x, z) /\ z.real = i /\ z.prev = x.real
             /\ z.agg = x.agg /\ z.prevAgg = x.prevAgg
  <1> DEFINE j == x.real  s == x.page  t == x.shown
             z == EvalNonConstValues(x, i)
  <1>1. z = [x EXCEPT !.real = i, !.prev = j, !.shown = s, !.prevShown = t]  BY DEF EvalNonConstValues
  <1> SUFFICES SamePaper(x, z) /\ z.real = i /\ z.prev = j /\ z.agg = x.agg /\ z.prevAgg = x.prevAgg  OBVIOUS
  <1> HIDE DEF j, s, t, z
  <1>2. z = [real |-> i, prev |-> j, number |-> x.number, page |-> x.page, shown |-> s,
             prevShown |-> t, agg |-> x.agg, prevAgg |-> x.prevAgg, newPage |-> x.newPage,
             y |-> x.y, supressed |-> x.supressed, paper |-> x.paper]
    BY <1>1 DEF IsState
  <1> QED  BY <1>2 DEF SamePaper, IsState

\* The number of the record in the report is of no other value.
LEMMA NumberIs ==
  ASSUME NEW x, IsState(x)
  PROVE  LET z == [x EXCEPT !.number = @ + 1]
         IN  /\ SamePaper(x, z) /\ z.real = x.real /\ z.prev = x.prev
             /\ z.agg = x.agg /\ z.prevAgg = x.prevAgg
  <1> DEFINE i == x.number + 1
             z == [x EXCEPT !.number = @ + 1]
  <1>1. z = [x EXCEPT !.number = i]  OBVIOUS
  <1> SUFFICES SamePaper(x, z) /\ z.real = x.real /\ z.prev = x.prev /\ z.agg = x.agg /\ z.prevAgg = x.prevAgg  OBVIOUS
  <1> HIDE DEF i, z
  <1>2. z = [real |-> x.real, prev |-> x.prev, number |-> i, page |-> x.page, shown |-> x.shown,
             prevShown |-> x.prevShown, agg |-> x.agg, prevAgg |-> x.prevAgg, newPage |-> x.newPage,
             y |-> x.y, supressed |-> x.supressed, paper |-> x.paper]
    BY <1>1 DEF IsState
  <1> QED  BY <1>2 DEF SamePaper, IsState

\* readNext puts the next record after the one there was, and adds it to every level.
LEMMA ReadNextIs ==
  ASSUME Given, IsState(r), HasLevels(r)
  PROVE  LET z == ReadNext(r)
         IN  /\ SamePaper(r, z) /\ z.real = read + 1 /\ z.prev = r.real
             /\ z.prevAgg = r.agg
             /\ z.agg = [l \in 0..G |-> Add(r.agg[l], records[read + 1].value)]
             /\ HasLevels(z)
  <1> DEFINE y == EvalNonConstValues(r, read + 1)
             z == CalcAggregateValues(y, 0)
  <1>1. SamePaper(r, y) /\ y.real = read + 1 /\ y.prev = r.real /\ y.agg = r.agg /\ y.prevAgg = r.prevAgg
    BY EvalIs
  <1> HIDE DEF y
  <1>2. IsState(y) /\ HasLevels(y)  BY <1>1 DEF SamePaper, HasLevels
  <1>3. /\ SamePaper(y, z) /\ z.real = y.real /\ z.prev = y.prev
        /\ z.prevAgg = [l \in 0..G |-> IF l >= 0 THEN y.agg[l] ELSE y.prevAgg[l]]
        /\ z.agg = [l \in 0..G |-> IF l >= 0 THEN Add(y.agg[l], records[y.real].value) ELSE y.agg[l]]
    BY <1>2, CalcIs
  <1> HIDE DEF z
  <1>4. \A l \in 0..G : l >= 0  BY LevelsAre
  <1>5. z.prevAgg = [l \in 0..G |-> r.agg[l]]  BY <1>1, <1>3, <1>4
  <1>6. z.agg = [l \in 0..G |-> Add(r.agg[l], records[read + 1].value)]  BY <1>1, <1>3, <1>4
  <1>7. z.prevAgg = r.agg  BY <1>5 DEF HasLevels
  <1>8. ReadNext(r) = z  BY DEF ReadNext, z, y
  <1>9. SamePaper(r, z) /\ z.real = read + 1 /\ z.prev = r.real  BY <1>1, <1>3 DEF SamePaper
  <1>10. HasLevels(z)  BY <1>6, <1>7 DEF HasLevels
  <1> QED  BY <1>6, <1>7, <1>8, <1>9, <1>10

-------------------------------------------------------------------------------
(* Report: types, and where the records are.                                 *)

Phases == {"idle", "group", "read", "return", "close", "end", "last", "done"}

\* The sections that there may be to print in each phase.
TypesIn(p) ==
  CASE p = "group" -> {"ReportHeader", "PageHeader", "GroupHeader"}
    [] p = "read"  -> {"Details"}
    [] p = "close" -> {"GroupFooter"}
    [] p = "end"   -> {"ReportHeader", "PageHeader"}
    [] p = "last"  -> {"ReportFooter"}
    [] OTHER       -> {}

\* The values are those of the last record that was read, and before them those of the one before.
AtRecord(x, i) == i # 0 /\ x.real = i /\ x.prev = i - 1

\* The record after a group was read, and the values are those of the last one of the group.
Swapped(x) == read >= 2 /\ x.real = read - 1 /\ x.prev = read /\ changed = Begins(read) /\ changed \in 1..level

Position ==
  CASE phase = "idle" -> read = 0 /\ r.real = 0 /\ r.prev = 0 /\ ~finished
    [] phase = "group" -> AtRecord(r, read) /\ level \in 1..(G + 1) /\ ~finished
    [] phase = "read" -> AtRecord(r, read) /\ level = G + 1
    [] phase \in {"return", "close"} ->
         level \in 1..G /\ IF finished THEN AtRecord(r, read) ELSE Swapped(r)
    [] OTHER -> AtRecord(r, read) \/ (read = 0 /\ r.real = 0 /\ r.prev = 0)

ReportPlaces ==
  /\ Given /\ read \in 0..Len(records) /\ phase \in Phases
  /\ level \in 0..(G + 1) /\ changed \in 0..G /\ finished \in BOOLEAN
  /\ toPrint \in Seq(SectionsOf(TypesIn(phase)))
  /\ IsState(r) /\ HasLevels(r) /\ Marks(r)
  /\ Position

\* What depends on the report and the records alone stays.
LEMMA SectionsStay ==
  ASSUME UNCHANGED <<report, records>>
  PROVE  /\ Given' = Given /\ G' = G
         /\ \A types : SectionsOf(types)' = SectionsOf(types)
         /\ \A x : HasLevels(x)' = HasLevels(x) /\ Marks(x)' = Marks(x)
         /\ \A i : Begins(i)' = Begins(i)
  BY DEF Given, G, SectionsOf, HasLevels, Marks, Mark, Begins, Levels

LEMMA HeadAndTail ==
  ASSUME NEW S, NEW ss \in Seq(S), ss # <<>>
  PROVE  Head(ss) \in S /\ Tail(ss) \in Seq(S)
  OBVIOUS

\* A details section that is supressed takes its record out of the aggregates.
TakenOut(x, z, s) == z = SwapAggregateValues(RunFormula(x, s), G)

IsOut(x, s) == s.type = "Details" /\ (s \in x.supressed \/ Asks(x, s))

LEMMA TakenOutIs ==
  ASSUME NEW x, IsState(x), HasLevels(x), NEW z, NEW s, TakenOut(x, z, s)
  PROVE  /\ IsState(z) /\ HasLevels(z) /\ z.paper = x.paper /\ z.real = x.real /\ z.prev = x.prev
         /\ z.agg = [l \in 0..G |-> IF l <= G THEN x.prevAgg[l] ELSE x.agg[l]]
         /\ z.prevAgg = [l \in 0..G |-> IF l <= G THEN x.agg[l] ELSE x.prevAgg[l]]
         /\ \A a : a \in z.supressed <=> a \in x.supressed \/ (a = s /\ Asks(x, s))
  <1> DEFINE y == RunFormula(x, s)
             w == SwapAggregateValues(y, G)
  <1>1. /\ Keeps(x, y) /\ y.paper = x.paper
        /\ \A a : a \in y.supressed <=> a \in x.supressed \/ (a = s /\ Asks(x, s))
    BY RunFormulaIs
  <1>2. z = w  BY DEF TakenOut
  <1> HIDE DEF y
  <1>3. IsState(y) /\ HasLevels(y)  BY <1>1 DEF Keeps, HasLevels
  <1>4. /\ SamePaper(y, w) /\ w.real = y.real /\ w.prev = y.prev
        /\ w.agg = [l \in 0..G |-> IF l <= G THEN y.prevAgg[l] ELSE y.agg[l]]
        /\ w.prevAgg = [l \in 0..G |-> IF l <= G THEN y.agg[l] ELSE y.prevAgg[l]]
    BY <1>3, SwapAggIs
  <1> HIDE DEF w
  <1>5. HasLevels(w)  BY <1>4 DEF HasLevels
  <1> QED  BY <1>1, <1>2, <1>4, <1>5 DEF SamePaper, Keeps

\* A turn of the loops over sections prints one, or takes a record out of the aggregates.
LEMMA NextSectionIs ==
  ASSUME ReportPlaces, PrintNextSection
  PROVE  LET s == Head(toPrint)
         IN  /\ s \in SectionsOf(TypesIn(phase)) /\ toPrint' \in Seq(SectionsOf(TypesIn(phase)))
             /\ IF IsOut(r, s) THEN TakenOut(r, r', s) ELSE Adds1(r, r', s)
  <1> DEFINE s == Head(toPrint)
  <1>1. toPrint # <<>> /\ toPrint' = Tail(toPrint)  BY DEF PrintNextSection
  <1>2. s \in SectionsOf(TypesIn(phase)) /\ toPrint' \in Seq(SectionsOf(TypesIn(phase)))
    BY <1>1, HeadAndTail DEF ReportPlaces
  <1>3. Given /\ IsState(r) /\ s \in Range(report)  BY <1>2 DEF ReportPlaces, SectionsOf
  <1>4. r' = CASE s.type = "PageHeader"   -> PrintPageSection(r, s)
               [] s.type = "Details"      -> PrintDetails(r, s)
               [] s.type = "ReportFooter" -> PrintReportFooter(r, s)
               [] OTHER                   -> PrintSection(r, s)
    BY DEF PrintNextSection
  <1> HIDE DEF s
  <1>5. CASE s.type = "PageHeader"
    <2>1. PagesOnly(r, r')  BY <1>3, <1>4, <1>5, PageSection DEF PageTypes
    <2> QED  BY <1>2, <1>5, <2>1 DEF PagesOnly, Adds1, IsOut, s
  <1>6. CASE s.type = "Details"
    <2>1. r' = PrintDetails(r, s)  BY <1>4, <1>6
    <2>2. Adds1(r, PrintSection(r, s), s)  BY <1>3, PrintSectionAdds
    <2> DEFINE z == RunFormula(r, s)
    <2>3. s \in z.supressed <=> s \in r.supressed \/ Asks(r, s)  BY <1>3, RunFormulaIs
    <2>4. r' = IF s \in z.supressed THEN SwapAggregateValues(z, G) ELSE PrintSection(r, s)
      BY <2>1 DEF PrintDetails, Supressed
    <2>5. CASE IsOut(r, s)
      <3>1. s \in z.supressed  BY <2>3, <2>5 DEF IsOut
      <3>2. TakenOut(r, r', s)  BY <2>4, <3>1 DEF TakenOut
      <3> QED  BY <1>2, <2>5, <3>2 DEF s
    <2>6. CASE ~IsOut(r, s)
      <3>1. s \notin z.supressed  BY <1>6, <2>3, <2>6 DEF IsOut
      <3>2. r' = PrintSection(r, s)  BY <2>4, <3>1
      <3> QED  BY <1>2, <2>2, <2>6, <3>2 DEF s
    <2> QED  BY <2>5, <2>6
  <1>7. CASE s.type = "ReportFooter"
    <2>1. r' = PrintReportFooter(r, s)  BY <1>4, <1>7
    <2> QED  BY <1>2, <1>3, <1>7, <2>1, PrintReportFooterAdds DEF IsOut, s
  <1>8. CASE s.type \notin {"PageHeader", "Details", "ReportFooter"}
    <2>1. r' = PrintSection(r, s)  BY <1>4, <1>8
    <2> QED  BY <1>2, <1>3, <1>8, <2>1, PrintSectionAdds DEF IsOut, s
  <1> QED  BY <1>5, <1>6, <1>7, <1>8

\* One lemma for each step: it keeps ReportPlaces.
LEMMA PlacesNextSection ==
  ASSUME ReportPlaces, PrintNextSection
  PROVE  ReportPlaces'
  <1> DEFINE s == Head(toPrint)
  <1>1. UNCHANGED <<report, records, read, phase, level, changed, finished>>  BY DEF PrintNextSection
  <1>2. toPrint' \in Seq(SectionsOf(TypesIn(phase)))  BY NextSectionIs
  <1>3. IF IsOut(r, s) THEN TakenOut(r, r', s) ELSE Adds1(r, r', s)  BY NextSectionIs
  <1>4. IsState(r) /\ HasLevels(r) /\ Marks(r) /\ s \in Range(report)
    BY NextSectionIs DEF ReportPlaces, SectionsOf
  <1> HIDE DEF s
  <1>5. IsState(r') /\ HasLevels(r') /\ r'.real = r.real /\ r'.prev = r.prev /\ Marks(r')
    <2>1. CASE TakenOut(r, r', s)
      <3>1. /\ IsState(r') /\ HasLevels(r') /\ r'.real = r.real /\ r'.prev = r.prev
            /\ \A a : a \in r'.supressed <=> a \in r.supressed \/ (a = s /\ Asks(r, s))
        BY <1>4, <2>1, TakenOutIs
      <3> QED  BY <1>4, <3>1 DEF Marks, Mark, Asks
    <2>2. CASE Adds1(r, r', s)  BY <1>4, <2>2 DEF Adds1, Keeps, HasLevels, Marks
    <2> QED  BY <1>3, <2>1, <2>2
  <1>6. Given' /\ HasLevels(r)' /\ Marks(r)' /\ toPrint' \in Seq(SectionsOf(TypesIn(phase)))'
    BY <1>1, <1>2, <1>5, SectionsStay DEF ReportPlaces
  <1>7. Position'  BY <1>1, <1>5, SectionsStay DEF Position, ReportPlaces, AtRecord, Swapped
  <1> QED  BY <1>1, <1>5, <1>6, <1>7, SectionsStay DEF ReportPlaces, IsState

LEMMA PlacesInit ==
  ASSUME InitReport
  PROVE  ReportPlaces
  <1>1. Given  BY DEF InitReport, Given
  <1>2. Len(records) \in Nat /\ G \in Nat  BY <1>1, RecordsAre, LevelsAre
  <1>3. toPrint \in Seq(SectionsOf(TypesIn(phase)))  BY DEF InitReport
  <1>4. r = NewState(report) /\ G = GroupLevels(report)  BY DEF InitReport, G
  <1>5. r.paper = <<>> /\ r.real = 0 /\ r.prev = 0
        /\ r.agg = [l \in 0..G |-> NoAggregate] /\ r.prevAgg = [l \in 0..G |-> NoAggregate]
    BY <1>4 DEF NewState
  <1>6. r.paper \in Seq({})  BY <1>5
  <1>7. IsState(r)  BY <1>4, <1>6 DEF NewState, IsState
  <1>8. HasLevels(r) /\ Marks(r)
    <2>1. r.supressed = {}  BY <1>4 DEF NewState
    <2> QED  BY <1>5, <2>1 DEF HasLevels, Marks
  <1>9. read = 0 /\ phase = "idle" /\ level = 0 /\ changed = 0 /\ finished = FALSE  BY DEF InitReport
  <1>10. Position  BY <1>5, <1>9 DEF Position
  <1>11. read \in 0..Len(records) /\ level \in 0..(G + 1) /\ changed \in 0..G  BY <1>2, <1>9
  <1>13. finished \in BOOLEAN  BY <1>9
  <1>12. phase \in Phases  BY <1>9 DEF Phases
  <1> HIDE DEF Phases
  <1> QED  BY <1>1, <1>3, <1>7, <1>8, <1>10, <1>11, <1>12, <1>13 DEF ReportPlaces

LEMMA PlacesStart ==
  ASSUME ReportPlaces, StartReport
  PROVE  ReportPlaces'
  <1>1. UNCHANGED <<report, records, changed, finished>> /\ phase = "idle"  BY DEF StartReport
  <1>2. Given /\ IsState(r) /\ HasLevels(r) /\ Marks(r) /\ read = 0 /\ r.real = 0 /\ r.prev = 0
    BY <1>1 DEF ReportPlaces, Position
  <1> DEFINE T == SectionsOf({"ReportHeader", "PageHeader", "GroupHeader"})
             U == SectionsOf({"ReportHeader", "PageHeader"})
  <1>3. toPrint' \in Seq(T) /\ toPrint' \in Seq(U)
    <2> DEFINE a == OfType("ReportHeader")  b == OfType("PageHeader")
               A == SectionsOf({"ReportHeader"})  B == SectionsOf({"PageHeader"})
    <2>1. a \in Seq(A) /\ b \in Seq(B)  BY <1>2, OfTypeIs
    <2>2. A \subseteq T /\ B \subseteq T /\ A \subseteq U /\ B \subseteq U  BY DEF SectionsOf
    <2>3. toPrint' = a \o b  BY DEF StartReport
    <2> HIDE DEF a, b, A, B, T, U
    <2>4. a \in Seq(T) /\ b \in Seq(T) /\ a \in Seq(U) /\ b \in Seq(U)  BY <2>1, <2>2
    <2> QED  BY <2>3, <2>4
  <1>4. Len(records) \in Nat /\ G \in Nat /\ (records # <<>> => 1 \in 0..Len(records))
    <2>1. Len(records) \in Nat /\ G \in Nat /\ DOMAIN records = 1..Len(records)  BY <1>2, RecordsAre, LevelsAre
    <2>2. records \in Seq(Range(records))  BY <1>2, ReportAssumption DEF Given
    <2>3. records # <<>> => Len(records) # 0  BY <2>2
    <2> QED  BY <2>1, <2>3
  <1>5. CASE records = <<>>
    <2> DEFINE z == EvalNonConstValues(r, 0)
    <2>1. r' = z /\ phase' = "end" /\ read' = read /\ level' = level  BY <1>5 DEF StartReport
    <2>2. SamePaper(r, z) /\ z.real = 0 /\ z.prev = r.real /\ z.agg = r.agg /\ z.prevAgg = r.prevAgg
      BY <1>2, EvalIs
    <2> HIDE DEF z
    <2>3. IsState(r') /\ HasLevels(r') /\ Marks(r') /\ r'.real = 0 /\ r'.prev = 0
      BY <1>2, <2>1, <2>2 DEF SamePaper, HasLevels, Marks
    <2>4. Position'  BY <1>2, <2>1, <2>3 DEF Position
    <2>5. TypesIn(phase') = {"ReportHeader", "PageHeader"} /\ phase' \in Phases  BY <2>1 DEF TypesIn, Phases
    <2> HIDE DEF T, U
    <2>6. (toPrint \in Seq(SectionsOf(TypesIn(phase))))'  BY <1>1, <1>3, <2>5, SectionsStay DEF U
    <2> QED  BY <1>1, <1>2, <2>1, <2>3, <2>4, <2>5, <2>6, SectionsStay DEF ReportPlaces, IsState
  <1>6. CASE records # <<>>
    <2> DEFINE z == ReadNext(r)
    <2>1. r' = z /\ phase' = "group" /\ read' = 1 /\ level' = 1  BY <1>6 DEF StartReport
    <2>2. SamePaper(r, z) /\ z.real = 1 /\ z.prev = 0 /\ HasLevels(z)  BY <1>2, ReadNextIs
    <2> HIDE DEF z
    <2>3. IsState(r') /\ HasLevels(r') /\ Marks(r') /\ r'.real = 1 /\ r'.prev = 0
      BY <1>2, <2>1, <2>2 DEF SamePaper, Marks
    <2>4. ~finished  BY <1>1 DEF ReportPlaces, Position
    <2>5. Position'  BY <1>1, <1>2, <1>4, <2>1, <2>3, <2>4, SectionsStay DEF Position, AtRecord
    <2>6. TypesIn(phase') = {"ReportHeader", "PageHeader", "GroupHeader"} /\ phase' \in Phases
      BY <2>1 DEF TypesIn, Phases
    <2> HIDE DEF T, U
    <2>7. (toPrint \in Seq(SectionsOf(TypesIn(phase))))'  BY <1>1, <1>3, <2>6, SectionsStay DEF T
    <2>8. read' \in 0..Len(records) /\ level' \in 0..(G + 1)  BY <1>4, <1>6, <2>1
    <2> QED  BY <1>1, <1>2, <2>1, <2>3, <2>5, <2>6, <2>7, <2>8, SectionsStay DEF ReportPlaces, IsState
  <1> QED  BY <1>5, <1>6

\* The list that is to be printed next, of sections of the types of the phase that follows.
LEMMA NextList ==
  ASSUME Given, NEW t, UNCHANGED <<report, records>>,
         toPrint' = OfType(t) \/ (\E l : toPrint' = OfLevel(t, l)) \/ toPrint' = <<>>,
         t \in TypesIn(phase')
  PROVE  (toPrint \in Seq(SectionsOf(TypesIn(phase))))'
  <1> DEFINE A == SectionsOf({t})  B == SectionsOf(TypesIn(phase'))
  <1>1. toPrint' \in Seq(A)
    <2>1. OfType(t) \in Seq(A) /\ \A l : OfLevel(t, l) \in Seq(A)  BY OfTypeIs, OfLevelIs
    <2>2. <<>> \in Seq(A)  OBVIOUS
    <2> HIDE DEF A
    <2> QED  BY <2>1, <2>2
  <1>2. A \subseteq B  BY DEF SectionsOf
  <1>3. SectionsOf(TypesIn(phase))' = B  BY SectionsStay
  <1> HIDE DEF A, B
  <1>4. toPrint' \in Seq(B)  BY <1>1, <1>2
  <1> QED  BY <1>3, <1>4

LEMMA EmptyList ==
  ASSUME toPrint' = <<>>
  PROVE  (toPrint \in Seq(SectionsOf(TypesIn(phase))))'
  OBVIOUS

LEMMA PlacesHeaders ==
  ASSUME ReportPlaces, PrintGroupHeaders
  PROVE  ReportPlaces'
  <1>1. UNCHANGED <<report, records, read, phase, changed, finished, r>> /\ phase = "group" /\ level <= G
        /\ toPrint' = OfLevel("GroupHeader", level) /\ level' = level + 1
    BY DEF PrintGroupHeaders
  <1>2. Given /\ G \in Nat  BY LevelsAre DEF ReportPlaces
  <1>3. (toPrint \in Seq(SectionsOf(TypesIn(phase))))'
    <2>1. "GroupHeader" \in TypesIn(phase')  BY <1>1 DEF TypesIn
    <2> QED  BY <1>1, <1>2, <2>1, NextList
  <1>4. level \in 1..(G + 1) /\ AtRecord(r, read) /\ ~finished  BY <1>1 DEF ReportPlaces, Position
  <1>5. level' \in 1..(G + 1) /\ level' \in 0..(G + 1)  BY <1>1, <1>2, <1>4
  <1>6. Position'  BY <1>1, <1>4, <1>5, SectionsStay DEF Position, AtRecord
  <1> QED  BY <1>1, <1>3, <1>5, <1>6, SectionsStay DEF ReportPlaces, IsState

LEMMA PlacesRecord ==
  ASSUME ReportPlaces, PrintRecord
  PROVE  ReportPlaces'
  <1>1. UNCHANGED <<report, records, read, level, changed, finished, r>> /\ phase = "group" /\ level = G + 1
        /\ toPrint' = OfType("Details") /\ phase' = "read"
    BY DEF PrintRecord
  <1>2. Given  BY DEF ReportPlaces
  <1>3. (toPrint \in Seq(SectionsOf(TypesIn(phase))))'
    <2>1. "Details" \in TypesIn(phase')  BY <1>1 DEF TypesIn
    <2> QED  BY <1>1, <1>2, <2>1, NextList
  <1>4. AtRecord(r, read)  BY <1>1 DEF ReportPlaces, Position
  <1>5. Position' /\ phase' \in Phases  BY <1>1, <1>4, SectionsStay DEF Position, AtRecord, Phases
  <1> QED  BY <1>1, <1>3, <1>5, SectionsStay DEF ReportPlaces, IsState

LEMMA PlacesFooters ==
  ASSUME ReportPlaces, PrintGroupFooters
  PROVE  ReportPlaces'
  <1>1. UNCHANGED <<report, records, read, level, changed, finished, r>> /\ phase = "return" /\ phase' = "close"
        /\ toPrint' = IF level >= changed \/ finished THEN OfLevel("GroupFooter", level) ELSE <<>>
    BY DEF PrintGroupFooters
  <1>2. Given  BY DEF ReportPlaces
  <1>3. (toPrint \in Seq(SectionsOf(TypesIn(phase))))'
    <2>1. "GroupFooter" \in TypesIn(phase')  BY <1>1 DEF TypesIn
    <2>2. (\E l : toPrint' = OfLevel("GroupFooter", l)) \/ toPrint' = <<>>  BY <1>1
    <2> QED  BY <1>1, <1>2, <2>1, <2>2, NextList
  <1>4. Position' /\ phase' \in Phases
    <2>1. level \in 1..G /\ IF finished THEN AtRecord(r, read) ELSE Swapped(r)
      BY <1>1 DEF ReportPlaces, Position
    <2>2. level' \in 1..G' /\ IF finished' THEN AtRecord(r', read') ELSE Swapped(r)'
      BY <1>1, <2>1, SectionsStay DEF AtRecord, Swapped
    <2> QED  BY <1>1, <2>2 DEF Position, Phases
  <1> QED  BY <1>1, <1>3, <1>4, SectionsStay DEF ReportPlaces, IsState

LEMMA PlacesReportFooters ==
  ASSUME ReportPlaces, PrintReportFooters
  PROVE  ReportPlaces'
  <1>1. UNCHANGED <<report, records, read, level, changed, finished, r>> /\ phase = "end"
        /\ toPrint' = OfType("ReportFooter") /\ phase' = "last"
    BY DEF PrintReportFooters
  <1>2. Given  BY DEF ReportPlaces
  <1>3. (toPrint \in Seq(SectionsOf(TypesIn(phase))))'
    <2>1. "ReportFooter" \in TypesIn(phase')  BY <1>1 DEF TypesIn
    <2> QED  BY <1>1, <1>2, <2>1, NextList
  <1>4. AtRecord(r, read) \/ (read = 0 /\ r.real = 0 /\ r.prev = 0)  BY <1>1 DEF ReportPlaces, Position
  <1>5. Position' /\ phase' \in Phases  BY <1>1, <1>4 DEF Position, AtRecord, Phases
  <1> QED  BY <1>1, <1>3, <1>5, SectionsStay DEF ReportPlaces, IsState

LEMMA PlacesEnd ==
  ASSUME ReportPlaces, EndReport
  PROVE  ReportPlaces'
  <1>1. UNCHANGED <<report, records, read, level, changed, finished, toPrint>> /\ phase = "last"
        /\ toPrint = <<>> /\ phase' = "done" /\ r' = PrintPageFooters(r)
    BY DEF EndReport
  <1>2. Given /\ IsState(r) /\ HasLevels(r) /\ Marks(r)  BY DEF ReportPlaces
  <1>3. PagesOnly(r, r')  BY <1>1, <1>2, PageFootersOnly
  <1>4. IsState(r') /\ HasLevels(r') /\ Marks(r') /\ r'.real = r.real /\ r'.prev = r.prev
    BY <1>2, <1>3 DEF PagesOnly, Keeps, HasLevels, Marks
  <1>5. (toPrint \in Seq(SectionsOf(TypesIn(phase))))'  BY <1>1, EmptyList
  <1>6. AtRecord(r, read) \/ (read = 0 /\ r.real = 0 /\ r.prev = 0)  BY <1>1 DEF ReportPlaces, Position
  <1>7. Position' /\ phase' \in Phases  BY <1>1, <1>4, <1>6 DEF Position, AtRecord, Phases
  <1> QED  BY <1>1, <1>4, <1>5, <1>7, SectionsStay DEF ReportPlaces, IsState

\* The values that all the levels have once record i is added to a.
OneMore(a, i) == [l \in 0..G |-> Add(a[l], records[i].value)]

\* What readNext and the swaps after it leave, in the three ways that the loop goes on.
ReadOn ==
  /\ read < Len(records) /\ read' = read + 1 /\ ~finished' /\ finished' \in BOOLEAN
  /\ Begins(read + 1) = 0 /\ changed' = 0 /\ phase' = "group" /\ level' = level
  /\ r'.real = read + 1 /\ r'.prev = read /\ r'.prevAgg = r.agg /\ r'.agg = OneMore(r.agg, read + 1)

ReadAnother ==
  /\ read < Len(records) /\ read' = read + 1 /\ ~finished' /\ finished' \in BOOLEAN
  /\ changed' = Begins(read + 1) /\ changed' \in 1..G /\ phase' = "return" /\ level' = G
  /\ r'.real = read /\ r'.prev = read + 1 /\ r'.agg = r.agg /\ r'.prevAgg = OneMore(r.agg, read + 1)

ReadNone ==
  /\ read' = read /\ finished' /\ finished' \in BOOLEAN /\ changed' \in 0..G /\ level' = G
  /\ phase' = (IF G = 0 THEN "end" ELSE "return")
  /\ r' = r

\* ReadRecord goes on in one of the three ways.
LEMMA ReadRecordIs ==
  ASSUME ReportPlaces, ReadRecord
  PROVE  SamePaper(r, r') /\ HasLevels(r') /\ (ReadOn \/ ReadAnother \/ ReadNone)
  <1> DEFINE more == read < Len(records)
             z == ReadNext(r)
             next == IF more THEN z ELSE r
             grp  == ChangedGroupValue(next)
  <1>1. Given /\ IsState(r) /\ HasLevels(r) /\ read \in 0..Len(records)  BY DEF ReportPlaces
  <1>2. AtRecord(r, read) /\ level = G + 1  BY DEF ReportPlaces, Position, ReadRecord
  <1>3. Len(records) \in Nat /\ G \in Nat  BY <1>1, RecordsAre, LevelsAre
  <1>4. read # 0 /\ r.real = read  BY <1>2 DEF AtRecord
  <1>5. /\ read' = (IF more THEN read + 1 ELSE read) /\ finished' = ~more /\ changed' = grp
        /\ IF more /\ grp = 0 THEN r' = [next EXCEPT !.number = @ + 1] /\ phase' = "group" /\ UNCHANGED level
           ELSE /\ r' = IF more THEN SwapAggregateValues(SwapNonConstValues(next), G) ELSE next
                /\ level' = G
                /\ phase' = IF G = 0 THEN "end" ELSE "return"
    BY DEF ReadRecord
  <1>6. /\ SamePaper(r, z) /\ z.real = read + 1 /\ z.prev = read /\ z.prevAgg = r.agg
        /\ z.agg = OneMore(r.agg, read + 1) /\ HasLevels(z)
    BY <1>1, <1>4, ReadNextIs DEF OneMore
  <1>7. IsState(z)  BY <1>6 DEF SamePaper
  <1>8. grp \in 0..G  BY <1>1, ChangedIs
  <1>9. more => grp = Begins(read + 1)
    <2>1. ChangedGroupValue(z) = Begins(read + 1)
      <3> DEFINE i == read + 1
      <3>1. i \in Nat /\ i >= 2 /\ z.real = i /\ z.prev = i - 1  BY <1>1, <1>3, <1>4, <1>6
      <3> HIDE DEF i, z
      <3>2. ChangedGroupValue(z) = Begins(i)  BY <3>1, ChangedIsBegun
      <3> QED  BY <3>2 DEF i
    <2> HIDE DEF z, more
    <2> QED  BY <2>1
  <1> HIDE DEF z, grp
  <1>10. CASE more /\ grp = 0
    <2> DEFINE y == [z EXCEPT !.number = @ + 1]
    <2>1. SamePaper(z, y) /\ y.real = z.real /\ y.prev = z.prev /\ y.agg = z.agg /\ y.prevAgg = z.prevAgg
      BY <1>7, NumberIs
    <2>2. r' = y /\ phase' = "group" /\ level' = level /\ read' = read + 1  BY <1>5, <1>10
    <2> HIDE DEF y
    <2>3. SamePaper(r, r')  BY <1>6, <2>1, <2>2 DEF SamePaper
    <2>4. HasLevels(r')  BY <1>6, <2>1, <2>2 DEF HasLevels
    <2>5. ReadOn  BY <1>5, <1>6, <1>9, <1>10, <2>1, <2>2 DEF ReadOn
    <2> QED  BY <2>3, <2>4, <2>5
  <1>11. CASE more /\ grp # 0
    <2> DEFINE w == SwapNonConstValues(z)
               y == SwapAggregateValues(w, G)
    <2>1. SamePaper(z, w) /\ w.real = z.prev /\ w.prev = z.real /\ w.agg = z.agg /\ w.prevAgg = z.prevAgg
      BY <1>7, SwapValuesIs
    <2>2. IsState(w) /\ HasLevels(w)  BY <1>6, <2>1 DEF SamePaper, HasLevels
    <2> HIDE DEF w
    <2>3. /\ SamePaper(w, y) /\ y.real = w.real /\ y.prev = w.prev
          /\ y.agg = [l \in 0..G |-> IF l <= G THEN w.prevAgg[l] ELSE w.agg[l]]
          /\ y.prevAgg = [l \in 0..G |-> IF l <= G THEN w.agg[l] ELSE w.prevAgg[l]]
      BY <2>2, SwapAggIs
    <2>4. r' = y /\ level' = G /\ phase' = (IF G = 0 THEN "end" ELSE "return") /\ read' = read + 1
      BY <1>5, <1>11 DEF w
    <2> HIDE DEF y
    <2>5. \A l \in 0..G : l <= G  BY <1>3
    <2>6. y.agg = [l \in 0..G |-> w.prevAgg[l]] /\ y.prevAgg = [l \in 0..G |-> w.agg[l]]  BY <2>3, <2>5
    <2>7. y.agg = w.prevAgg /\ y.prevAgg = w.agg  BY <2>2, <2>6 DEF HasLevels
    <2>8. SamePaper(r, r')  BY <1>6, <2>1, <2>3, <2>4 DEF SamePaper
    <2>9. HasLevels(r')  BY <2>2, <2>4, <2>7 DEF HasLevels
    <2>10. grp \in 1..G /\ G # 0  BY <1>3, <1>8, <1>11
    <2>11. ReadAnother
      BY <1>5, <1>6, <1>9, <1>11, <2>1, <2>3, <2>4, <2>7, <2>10 DEF ReadAnother
    <2> QED  BY <2>8, <2>9, <2>11
  <1>12. CASE ~more
    <2>1. r' = r /\ level' = G /\ phase' = (IF G = 0 THEN "end" ELSE "return")  BY <1>5, <1>12
    <2>2. ReadNone  BY <1>5, <1>8, <1>12, <2>1 DEF ReadNone
    <2>3. SamePaper(r, r') /\ HasLevels(r')  BY <1>1, <2>1 DEF SamePaper
    <2> QED  BY <2>2, <2>3
  <1> QED  BY <1>10, <1>11, <1>12

LEMMA PlacesRead ==
  ASSUME ReportPlaces, ReadRecord
  PROVE  ReportPlaces'
  <1>1. UNCHANGED <<report, records, toPrint>> /\ phase = "read" /\ toPrint = <<>>  BY DEF ReadRecord
  <1>2. SamePaper(r, r') /\ HasLevels(r') /\ (ReadOn \/ ReadAnother \/ ReadNone)  BY ReadRecordIs
  <1>3. Given /\ read \in 0..Len(records) /\ changed \in 0..G /\ finished \in BOOLEAN  BY DEF ReportPlaces
  <1>4. AtRecord(r, read) /\ level = G + 1  BY <1>1 DEF ReportPlaces, Position
  <1>5. Len(records) \in Nat /\ G \in Nat  BY <1>3, RecordsAre, LevelsAre
  <1>6. (toPrint \in Seq(SectionsOf(TypesIn(phase))))'  BY <1>1, EmptyList
  <1>7. IsState(r') /\ Marks(r')  BY <1>2 DEF SamePaper, ReportPlaces, Marks
  <1>8. read # 0 /\ read + 1 # 0 /\ read + 1 >= 2 /\ (read + 1) - 1 = read  BY <1>3, <1>4, <1>5 DEF AtRecord
  <1>9. /\ read' \in 0..Len(records) /\ level' \in 0..(G + 1) /\ changed' \in 0..G /\ phase' \in Phases
        /\ finished' \in BOOLEAN /\ Position'
    <2>1. CASE ReadOn
      <3>1. read' \in 0..Len(records) /\ level' \in 1..(G + 1) /\ changed' \in 0..G
        BY <1>3, <1>4, <1>5, <2>1 DEF ReadOn
      <3>2. AtRecord(r', read')  BY <1>8, <2>1 DEF ReadOn, AtRecord
      <3>3. phase' = "group" /\ ~finished' /\ finished' \in BOOLEAN  BY <2>1 DEF ReadOn
      <3>4. Position'  BY <1>1, <3>1, <3>2, <3>3, SectionsStay DEF Position, AtRecord
      <3> QED  BY <1>5, <3>1, <3>3, <3>4 DEF Phases
    <2>2. CASE ReadAnother
      <3>1. read' \in 0..Len(records) /\ level' = G /\ changed' \in 1..G /\ G \in 1..G
        BY <1>3, <1>5, <2>2 DEF ReadAnother
      <3>3. \A i : Begins(i)' = Begins(i)  BY <1>1, SectionsStay
      <3>4. phase' = "return" /\ ~finished' /\ finished' \in BOOLEAN  BY <2>2 DEF ReadAnother
      <3>5. read' >= 2 /\ r'.real = read' - 1 /\ r'.prev = read' /\ changed' = Begins(read + 1) /\ read' = read + 1
        BY <1>8, <2>2 DEF ReadAnother
      <3>6. Begins(read)' = Begins(read + 1)
        BY <1>1, <3>5 DEF Begins, Levels
      <3>7. Swapped(r)'  BY <3>1, <3>5, <3>6 DEF Swapped
      <3>8. Position'  BY <1>1, <3>1, <3>4, <3>7, SectionsStay DEF Position
      <3> QED  BY <1>5, <3>1, <3>4, <3>8 DEF Phases
    <2>3. CASE ReadNone
      <3>1. read' = read /\ level' = G /\ changed' \in 0..G /\ r' = r /\ finished' /\ finished' \in BOOLEAN
        BY <2>3 DEF ReadNone
      <3>2. CASE G = 0
        <4>1. phase' = "end"  BY <2>3, <3>2 DEF ReadNone
        <4> QED  BY <1>3, <1>4, <1>5, <3>1, <4>1 DEF Position, AtRecord, Phases
      <3>3. CASE G # 0
        <4>1. phase' = "return" /\ G \in 1..G  BY <1>5, <2>3, <3>3 DEF ReadNone
        <4>2. AtRecord(r', read')  BY <1>4, <3>1 DEF AtRecord
        <4>3. Position'  BY <1>1, <3>1, <4>1, <4>2, SectionsStay DEF Position, AtRecord
        <4> QED  BY <1>3, <1>5, <3>1, <4>1, <4>3 DEF Phases
      <3> QED  BY <3>2, <3>3
    <2> QED  BY <1>2, <2>1, <2>2, <2>3
  <1> QED  BY <1>1, <1>2, <1>3, <1>6, <1>7, <1>9, SectionsStay DEF ReportPlaces, IsState

\* What CloseGroup leaves: the next record's values in the group that it begins, or
\* the return to the level above.
NextGroup ==
  /\ ~finished /\ changed = level /\ phase' = "group" /\ level' = level
  /\ r'.real = r.prev /\ r'.prev = r.real
  /\ r'.agg = [l \in 0..G |-> IF l >= level THEN Add(NoAggregate, records[r.prev].value) ELSE r.prevAgg[l]]
  /\ r'.prevAgg = [l \in 0..G |-> IF l >= level THEN NoAggregate ELSE r.agg[l]]

LevelAbove ==
  /\ finished \/ changed < level
  /\ r' = r /\ level' = level - 1 /\ phase' = IF level = 1 THEN "end" ELSE "return"

\* The five calls that start the next group, one after the other.
LEMMA NextGroupIs ==
  ASSUME Given, IsState(r), HasLevels(r), level \in Nat,
         r' = CalcAggregateValues(ResetAggregateValues(
                SwapAggregateValues(SwapNonConstValues([r EXCEPT !.number = @ + 1]), level - 1), level), level)
  PROVE  /\ SamePaper(r, r') /\ HasLevels(r') /\ r'.real = r.prev /\ r'.prev = r.real
         /\ r'.agg = [l \in 0..G |-> IF l >= level THEN Add(NoAggregate, records[r.prev].value) ELSE r.prevAgg[l]]
         /\ r'.prevAgg = [l \in 0..G |-> IF l >= level THEN NoAggregate ELSE r.agg[l]]
  <1> DEFINE a == [r EXCEPT !.number = @ + 1]
             b == SwapNonConstValues(a)
             c == SwapAggregateValues(b, level - 1)
             d == ResetAggregateValues(c, level)
             e == CalcAggregateValues(d, level)
  <1>1. SamePaper(r, a) /\ a.real = r.real /\ a.prev = r.prev /\ a.agg = r.agg /\ a.prevAgg = r.prevAgg
    BY NumberIs
  <1>2. r' = e  OBVIOUS
  <1> HIDE DEF a
  <1>3. SamePaper(a, b) /\ b.real = a.prev /\ b.prev = a.real /\ b.agg = a.agg /\ b.prevAgg = a.prevAgg
    BY <1>1, SwapValuesIs DEF SamePaper
  <1> HIDE DEF b
  <1>4. IsState(b) /\ HasLevels(b)  BY <1>1, <1>3 DEF SamePaper, HasLevels
  <1>5. /\ SamePaper(b, c) /\ c.real = b.real /\ c.prev = b.prev
        /\ c.agg = [l \in 0..G |-> IF l <= level - 1 THEN b.prevAgg[l] ELSE b.agg[l]]
        /\ c.prevAgg = [l \in 0..G |-> IF l <= level - 1 THEN b.agg[l] ELSE b.prevAgg[l]]
    BY <1>4, SwapAggIs
  <1> HIDE DEF c
  <1>6. IsState(c) /\ HasLevels(c)  BY <1>5 DEF SamePaper, HasLevels
  <1>7. /\ SamePaper(c, d) /\ d.real = c.real /\ d.prev = c.prev /\ d.prevAgg = c.prevAgg
        /\ d.agg = [l \in 0..G |-> IF l >= level THEN NoAggregate ELSE c.agg[l]]
    BY <1>6, ResetIs
  <1> HIDE DEF d
  <1>8. IsState(d) /\ HasLevels(d)  BY <1>6, <1>7 DEF SamePaper, HasLevels
  <1>9. /\ SamePaper(d, e) /\ e.real = d.real /\ e.prev = d.prev
        /\ e.prevAgg = [l \in 0..G |-> IF l >= level THEN d.agg[l] ELSE d.prevAgg[l]]
        /\ e.agg = [l \in 0..G |-> IF l >= level THEN Add(d.agg[l], records[d.real].value) ELSE d.agg[l]]
    BY <1>8, CalcIs
  <1> HIDE DEF e
  <1>10. \A l \in 0..G : (l <= level - 1) <=> ~(l >= level)  BY LevelsAre
  <1>11. d.real = r.prev /\ d.prev = r.real  BY <1>1, <1>3, <1>5, <1>7
  <1>12. \A l \in 0..G : /\ l >= level => d.agg[l] = NoAggregate
                         /\ ~(l >= level) => d.agg[l] = r.prevAgg[l] /\ d.prevAgg[l] = r.agg[l]
    BY <1>1, <1>3, <1>5, <1>7, <1>10
  <1>13. e.agg = [l \in 0..G |-> IF l >= level THEN Add(NoAggregate, records[r.prev].value) ELSE r.prevAgg[l]]
    BY <1>9, <1>11, <1>12
  <1>14. e.prevAgg = [l \in 0..G |-> IF l >= level THEN NoAggregate ELSE r.agg[l]]
    BY <1>9, <1>12
  <1>15. HasLevels(e)  BY <1>9 DEF HasLevels
  <1>16. SamePaper(r, e)  BY <1>1, <1>3, <1>5, <1>7, <1>9 DEF SamePaper
  <1> QED  BY <1>2, <1>9, <1>11, <1>13, <1>14, <1>15, <1>16

\* CloseGroup starts the next group or returns.
LEMMA CloseIs ==
  ASSUME ReportPlaces, CloseGroup
  PROVE  SamePaper(r, r') /\ HasLevels(r') /\ (NextGroup \/ LevelAbove)
  <1>1. Given /\ IsState(r) /\ HasLevels(r) /\ level \in 1..G /\ changed \in 0..G
    BY DEF ReportPlaces, Position, CloseGroup
  <1>2. G \in Nat  BY <1>1, LevelsAre
  <1>3. level \in Nat /\ changed \in Nat  BY <1>1, <1>2
  <1>4. finished \/ changed \in 1..level  BY DEF ReportPlaces, Position, CloseGroup, Swapped
  <1>5. CASE level = changed /\ ~finished
    <2>1. r' = CalcAggregateValues(ResetAggregateValues(
                 SwapAggregateValues(SwapNonConstValues([r EXCEPT !.number = @ + 1]), level - 1), level), level)
      BY <1>5 DEF CloseGroup
    <2>2. /\ SamePaper(r, r') /\ HasLevels(r') /\ r'.real = r.prev /\ r'.prev = r.real
          /\ r'.agg = [l \in 0..G |-> IF l >= level THEN Add(NoAggregate, records[r.prev].value) ELSE r.prevAgg[l]]
          /\ r'.prevAgg = [l \in 0..G |-> IF l >= level THEN NoAggregate ELSE r.agg[l]]
      BY <1>1, <1>3, <2>1, NextGroupIs
    <2>3. phase' = "group" /\ level' = level  BY <1>3, <1>5 DEF CloseGroup
    <2> QED  BY <1>5, <2>2, <2>3 DEF NextGroup
  <1>6. CASE ~(level = changed /\ ~finished)
    <2>1. r' = r  BY <1>6 DEF CloseGroup
    <2>2. finished \/ changed < level  BY <1>1, <1>3, <1>4, <1>6
    <2>3. ~(changed >= level /\ ~finished)  BY <1>3, <2>2
    <2>4. level' = level - 1 /\ phase' = IF level = 1 THEN "end" ELSE "return"  BY <2>3 DEF CloseGroup
    <2> QED  BY <1>1, <2>1, <2>2, <2>4 DEF SamePaper, LevelAbove
  <1> QED  BY <1>5, <1>6

LEMMA PlacesClose ==
  ASSUME ReportPlaces, CloseGroup
  PROVE  ReportPlaces'
  <1>1. UNCHANGED <<report, records, read, changed, finished, toPrint>> /\ phase = "close" /\ toPrint = <<>>
    BY DEF CloseGroup
  <1>2. SamePaper(r, r') /\ HasLevels(r') /\ (NextGroup \/ LevelAbove)  BY CloseIs
  <1>3. Given /\ read \in 0..Len(records) /\ changed \in 0..G /\ finished \in BOOLEAN  BY DEF ReportPlaces
  <1>4. level \in 1..G /\ IF finished THEN AtRecord(r, read) ELSE Swapped(r)  BY <1>1 DEF ReportPlaces, Position
  <1>5. G \in Nat  BY <1>3, LevelsAre
  <1>6. (toPrint \in Seq(SectionsOf(TypesIn(phase))))'  BY <1>1, EmptyList
  <1>7. IsState(r') /\ Marks(r')  BY <1>2 DEF SamePaper, ReportPlaces, Marks
  <1>8. level' \in 0..(G + 1) /\ phase' \in Phases /\ Position'
    <2>1. CASE NextGroup
      <3>1. level' \in 1..(G + 1) /\ level' \in 0..(G + 1) /\ phase' = "group"  BY <1>4, <1>5, <2>1 DEF NextGroup
      <3>2. Len(records) \in Nat  BY <1>3, RecordsAre
      <3>3. AtRecord(r', read')  BY <1>1, <1>3, <1>4, <2>1, <3>2 DEF NextGroup, Swapped, AtRecord
      <3>4. ~finished'  BY <1>1, <2>1 DEF NextGroup
      <3>5. Position'  BY <1>1, <3>1, <3>3, <3>4, SectionsStay DEF Position, AtRecord
      <3> QED  BY <3>1, <3>5 DEF Phases
    <2>2. CASE LevelAbove
      <3>1. r' = r /\ level' = level - 1 /\ phase' = (IF level = 1 THEN "end" ELSE "return")  BY <2>2 DEF LevelAbove
      <3>2. CASE level = 1
        <4>1. finished
          <5>1. changed \in 1..level => ~(changed < level)  BY <3>2
          <5> QED  BY <1>4, <2>2, <5>1 DEF LevelAbove, Swapped
        <4>2. AtRecord(r', read') /\ phase' = "end"  BY <1>1, <1>4, <3>1, <3>2, <4>1 DEF AtRecord
        <4>3. Position'  BY <4>2 DEF Position, AtRecord
        <4> QED  BY <1>4, <1>5, <3>1, <3>2, <4>2, <4>3 DEF Phases
      <3>3. CASE level # 1
        <4>1. level' \in 1..G /\ level' \in 0..(G + 1) /\ phase' = "return"  BY <1>4, <1>5, <3>1, <3>3
        <4>2. CASE finished
          <5>1. AtRecord(r', read') /\ finished'  BY <1>1, <1>4, <3>1, <4>2 DEF AtRecord
          <5>2. Position'  BY <1>1, <4>1, <5>1, SectionsStay DEF Position, AtRecord
          <5> QED  BY <4>1, <5>2 DEF Phases
        <4>3. CASE ~finished
          <5>1. changed \in 1..(level - 1)  BY <1>4, <2>2, <4>3 DEF LevelAbove, Swapped
          <5>2. read' >= 2 /\ r'.real = read' - 1 /\ r'.prev = read' /\ changed' \in 1..level'
            BY <1>1, <1>4, <3>1, <4>3, <5>1 DEF Swapped
          <5>3. changed' = Begins(read)'
            <6>1. changed = Begins(read)  BY <1>4, <4>3 DEF Swapped
            <6> QED  BY <1>1, <6>1 DEF Begins, Levels
          <5>4. Swapped(r)'  BY <5>2, <5>3 DEF Swapped
          <5>5. Position'  BY <1>1, <4>1, <4>3, <5>4, SectionsStay DEF Position
          <5> QED  BY <4>1, <5>5 DEF Phases
        <4> QED  BY <4>2, <4>3
      <3> QED  BY <3>2, <3>3
    <2> QED  BY <1>2, <2>1, <2>2
  <1> QED  BY <1>1, <1>2, <1>3, <1>6, <1>7, <1>8, SectionsStay DEF ReportPlaces, IsState

LEMMA PlacesStutter ==
  ASSUME ReportPlaces, UNCHANGED repVars
  PROVE  ReportPlaces'
  <1>1. UNCHANGED <<report, records, read, phase, toPrint, level, changed, finished, r>>  BY DEF repVars
  <1>2. Position'
    <2>1. Position  BY DEF ReportPlaces
    <2> QED  BY <1>1, <2>1, SectionsStay DEF Position, AtRecord, Swapped
  <1> QED  BY <1>1, <1>2, SectionsStay DEF ReportPlaces, IsState

LEMMA PlacesKept ==
  ASSUME ReportPlaces, [NextReport]_repVars
  PROVE  ReportPlaces'
  BY PlacesStart, PlacesNextSection, PlacesHeaders, PlacesRecord, PlacesRead, PlacesFooters, PlacesClose,
     PlacesReportFooters, PlacesEnd, PlacesStutter DEF NextReport, StepReport

LEMMA PlacesTypes ==
  ASSUME ReportPlaces
  PROVE  TypeOKReport
  <1>1. Given /\ read \in 0..Len(records) /\ Position /\ HasLevels(r) /\ Marks(r)  BY DEF ReportPlaces
  <1>2. Len(records) \in Nat  BY <1>1, RecordsAre
  <1>3. r.real \in 0..read /\ r.prev \in 0..read
    <2>1. AtRecord(r, read) \/ Swapped(r) \/ (read = 0 /\ r.real = 0 /\ r.prev = 0)  BY <1>1 DEF Position
    <2> QED  BY <1>1, <1>2, <2>1 DEF AtRecord, Swapped
  <1>4. DOMAIN r.agg = 0..G /\ DOMAIN r.prevAgg = 0..G  BY <1>1, HasDomains
  <1>5. r.supressed \subseteq Range(report)  BY <1>1 DEF Marks, Mark
  <1> QED  BY <1>3, <1>4, <1>5 DEF ReportPlaces, TypeOKReport, Given, Phases

\* TypeOKReport, of every report and input: each step of print leaves what the next one may
\* start from, and the aggregates have a value for each of the levels of the report.
THEOREM TypesOfTheReport == SpecReport => []TypeOKReport
  <1>1. InitReport => ReportPlaces  BY PlacesInit
  <1>2. ReportPlaces /\ [NextReport]_repVars => ReportPlaces'  BY PlacesKept
  <1>3. ReportPlaces => TypeOKReport  BY PlacesTypes
  <1> QED  BY <1>1, <1>2, <1>3, PTL DEF SpecReport

-------------------------------------------------------------------------------
(* Report: the aggregates.                                                   *)

\* The totals of each level: of the records before i, with i too, and as they must be after i.
Before(i) == [l \in 0..G |-> Totals(Earlier(l, i))]
With(i)   == OneMore(Before(i), i)
Upto(i)   == [l \in 0..G |-> Totals(Counted(l, i))]

\* A section that may take its record out of the aggregates is still to be printed.
Pending == \E n \in DOMAIN toPrint : toPrint[n].maySupress

PendingOnce ==
  /\ \A m, n \in DOMAIN toPrint : toPrint[m].maySupress /\ toPrint[n].maySupress => m = n
  /\ Pending => \E n \in DOMAIN report : MaySupress(report[n])

Aggregates ==
  CASE phase = "idle"  -> r.agg = [l \in 0..G |-> NoAggregate] /\ r.prevAgg = [l \in 0..G |-> NoAggregate]
    [] phase = "group" -> r.agg = With(read) /\ r.prevAgg = Before(read)
    [] phase = "read"  ->
         /\ PendingOnce
         /\ IF LeftOut(read) /\ ~Pending THEN r.agg = Before(read) /\ r.prevAgg = With(read)
            ELSE r.agg = With(read) /\ r.prevAgg = Before(read)
    [] phase \in {"return", "close"} ->
         IF finished THEN r.agg = Upto(read)
         ELSE r.agg = Upto(read - 1) /\ r.prevAgg = OneMore(Upto(read - 1), read)
    [] OTHER -> read # 0 => r.agg = Upto(read)

ReportTotals == ReportPlaces /\ Aggregates /\ TotalsOfTheGroup

\* The details section that may be supressed is, from the first record that asked for it on.
Gone(x) == \E s \in x.supressed : s.type = "Details"

Leaving ==
  /\ phase = "idle" => ~Gone(r)
  /\ phase = "group" => (Gone(r) <=> LeftOut(read - 1))
  /\ phase = "read" => (Gone(r) <=> IF Pending THEN LeftOut(read - 1) ELSE LeftOut(read))
  /\ phase \in {"return", "close"} => (Gone(r) <=> IF finished THEN LeftOut(read) ELSE LeftOut(read - 1))

\* The totals depend on the report and the records alone.
LEMMA TotalsStay ==
  ASSUME UNCHANGED <<report, records>>
  PROVE  /\ \A l, i : Counted(l, i)' = Counted(l, i) /\ Earlier(l, i)' = Earlier(l, i)
         /\ \A js : Totals(js)' = Totals(js)
         /\ \A i : LeftOut(i)' = LeftOut(i)
  BY DEF Counted, Earlier, FirstOf, Begins, Levels, Totals, LeftOut

LEMMA LevelsStay ==
  ASSUME UNCHANGED <<report, records>>, NEW CONSTANT i
  PROVE  Before(i)' = Before(i) /\ With(i)' = With(i) /\ Upto(i)' = Upto(i)
  BY SectionsStay, TotalsStay DEF Before, With, Upto, OneMore

\* Once the details of a record are printed, its aggregates are those of the group up to it.
LEMMA UptoIs ==
  ASSUME Given, NEW i \in 1..Len(records)
  PROVE  Upto(i) = IF LeftOut(i) THEN Before(i) ELSE With(i)
  <1>1. Len(records) \in Nat  BY RecordsAre
  <1>2. i \in Nat \ {0}  BY <1>1
  <1>3. \A l \in 0..G : Counted(l, i) = IF LeftOut(i) THEN Earlier(l, i) ELSE Earlier(l, i) \cup {i}
    BY <1>2, CountedIs
  <1>4. \A l \in 0..G : Totals(Earlier(l, i) \cup {i}) = Add(Totals(Earlier(l, i)), records[i].value)
    <2> SUFFICES ASSUME NEW l \in 0..G
                 PROVE  Totals(Earlier(l, i) \cup {i}) = Add(Totals(Earlier(l, i)), records[i].value)
      OBVIOUS
    <2> DEFINE js == Earlier(l, i)
    <2>1. js \subseteq 1..(i - 1)  BY <1>2, EarlierIs
    <2>2. js \in SUBSET (1..Len(records)) /\ i \in (1..Len(records)) \ js  BY <1>1, <1>2, <2>1
    <2> HIDE DEF js
    <2>3. Totals(js \cup {i}) = Add(Totals(js), records[i].value)  BY <2>2, TotalsAdd
    <2> QED  BY <2>3 DEF js
  <1>5. CASE LeftOut(i)
    <2>1. \A l \in 0..G : Totals(Counted(l, i)) = Totals(Earlier(l, i))  BY <1>3, <1>5
    <2> QED  BY <1>5, <2>1 DEF Upto, Before
  <1>6. CASE ~LeftOut(i)
    <2>1. \A l \in 0..G : Totals(Counted(l, i)) = Add(Totals(Earlier(l, i)), records[i].value)
      BY <1>3, <1>4, <1>6
    <2>2. \A l \in 0..G : Before(i)[l] = Totals(Earlier(l, i))  BY DEF Before
    <2>3. Upto(i) = With(i)  BY <2>1, <2>2 DEF Upto, With, OneMore
    <2> QED  BY <1>6, <2>3
  <1> QED  BY <1>5, <1>6

\* The first record begins every group.
LEMMA BeforeFirst ==
  ASSUME TRUE
  PROVE  Before(1) = [l \in 0..G |-> NoAggregate]
  <1>1. \A l : Totals(Earlier(l, 1)) = NoAggregate
    <2>1. \A l : Earlier(l, 1) = {}  BY EarlierFirst
    <2> QED  BY <2>1, TotalsNone
  <1> QED  BY <1>1 DEF Before

\* The others go on with the groups that do not change.
LEMMA BeforeNext ==
  ASSUME Given, NEW i \in Nat, i >= 2
  PROVE  Before(i) = [l \in 0..G |-> IF GoesOn(l, i) THEN Totals(Counted(l, i - 1)) ELSE NoAggregate]
  <1>1. \A l : Totals(Earlier(l, i)) = IF GoesOn(l, i) THEN Totals(Counted(l, i - 1)) ELSE NoAggregate
    <2>1. \A l : Earlier(l, i) = IF GoesOn(l, i) THEN Counted(l, i - 1) ELSE {}  BY EarlierNext
    <2> QED  BY <2>1, TotalsNone
  <1> QED  BY <1>1 DEF Before

LEMMA AggregatesInit ==
  ASSUME InitReport
  PROVE  ReportTotals
  <1>1. ReportPlaces  BY PlacesInit
  <1>2. r = NewState(report) /\ G = GroupLevels(report)  BY DEF InitReport, G
  <1>3. r.paper = <<>> /\ r.agg = [l \in 0..G |-> NoAggregate] /\ r.prevAgg = [l \in 0..G |-> NoAggregate]
    BY <1>2 DEF NewState
  <1>4. Aggregates  BY <1>3 DEF Aggregates, InitReport
  <1>5. DOMAIN r.paper = {}  BY <1>3
  <1>6. TotalsOfTheGroup  BY <1>5 DEF TotalsOfTheGroup
  <1> QED  BY <1>1, <1>4, <1>6 DEF ReportTotals

\* What is on paper stays as it was.
LEMMA PaperStays ==
  ASSUME TotalsOfTheGroup, UNCHANGED <<report, records>>, r'.paper = r.paper
  PROVE  TotalsOfTheGroup'
  BY TotalsStay DEF TotalsOfTheGroup

\* Page headers and footers do not show totals.
LEMMA PagesStay ==
  ASSUME TotalsOfTheGroup, UNCHANGED <<report, records>>, PagesOnly(r, r')
  PROVE  TotalsOfTheGroup'
  <1>1. ASSUME NEW n \in DOMAIN r'.paper
        PROVE  LET x == r'.paper[n]
               IN  x.section.type \in {"GroupFooter", "ReportFooter"} /\ x.record # 0 =>
                     x.agg = Totals(Counted(x.section.level, x.record))
    <2> DEFINE x == r'.paper[n]
    <2>1. OnPaper(r', x)  BY <1>1 DEF OnPaper
    <2> HIDE DEF x
    <2>2. OnPaper(r, x) \/ x.section.type \in PageTypes  BY <2>1 DEF PagesOnly
    <2>3. x.section.type \in {"GroupFooter", "ReportFooter"} /\ x.record # 0 =>
            x.agg = Totals(Counted(x.section.level, x.record))
      BY <2>2 DEF OnPaper, PageTypes, TotalsOfTheGroup
    <2> QED  BY <2>3 DEF x
  <1> QED  BY <1>1, TotalsStay DEF TotalsOfTheGroup

\* A footer that is printed has the aggregates of its level.
LEMMA SectionTotals ==
  ASSUME TotalsOfTheGroup, UNCHANGED <<report, records>>, NEW s, Adds1(r, r', s),
         s.type \in {"GroupFooter", "ReportFooter"} /\ r.real # 0 => r.agg[s.level] = Totals(Counted(s.level, r.real))
  PROVE  TotalsOfTheGroup'
  <1>1. ASSUME NEW n \in DOMAIN r'.paper
        PROVE  LET x == r'.paper[n]
               IN  x.section.type \in {"GroupFooter", "ReportFooter"} /\ x.record # 0 =>
                     x.agg = Totals(Counted(x.section.level, x.record))
    <2> DEFINE x == r'.paper[n]
    <2>1. OnPaper(r', x)  BY <1>1 DEF OnPaper
    <2> HIDE DEF x
    <2>2. OnPaper(r, x) \/ x.section.type \in PageTypes \/ LineOf(r, s, x)  BY <2>1 DEF Adds1
    <2>3. x.section.type \in {"GroupFooter", "ReportFooter"} /\ x.record # 0 =>
            x.agg = Totals(Counted(x.section.level, x.record))
      BY <2>2 DEF OnPaper, PageTypes, TotalsOfTheGroup, LineOf
    <2> QED  BY <2>3 DEF x
  <1> QED  BY <1>1, TotalsStay DEF TotalsOfTheGroup

\* One lemma for each step: it keeps ReportTotals.
LEMMA AggregatesStart ==
  ASSUME ReportTotals, StartReport
  PROVE  ReportTotals'
  <1>1. ReportPlaces /\ ReportPlaces'  BY PlacesStart DEF ReportTotals
  <1>2. UNCHANGED <<report, records>> /\ phase = "idle"  BY DEF StartReport
  <1>3. Given /\ IsState(r) /\ HasLevels(r) /\ read = 0 /\ r.real = 0
    BY <1>1, <1>2 DEF ReportPlaces, Position
  <1>4. r.agg = [l \in 0..G |-> NoAggregate]  BY <1>2 DEF ReportTotals, Aggregates
  <1>5. CASE records = <<>>
    <2> DEFINE z == EvalNonConstValues(r, 0)
    <2>1. r' = z /\ phase' = "end" /\ read' = read  BY <1>5 DEF StartReport
    <2>2. SamePaper(r, z)  BY <1>3, EvalIs
    <2> HIDE DEF z
    <2>3. Aggregates'  BY <1>3, <2>1 DEF Aggregates
    <2>4. TotalsOfTheGroup'  BY <1>2, <2>1, <2>2, PaperStays DEF ReportTotals, SamePaper
    <2> QED  BY <1>1, <2>3, <2>4 DEF ReportTotals
  <1>6. CASE records # <<>>
    <2> DEFINE z == ReadNext(r)
    <2>1. r' = z /\ phase' = "group" /\ read' = 1  BY <1>6 DEF StartReport
    <2>2. /\ SamePaper(r, z) /\ z.prevAgg = r.agg
          /\ z.agg = [l \in 0..G |-> Add(r.agg[l], records[1].value)]
      BY <1>3, ReadNextIs
    <2> HIDE DEF z
    <2>3. r'.prevAgg = Before(1)  BY <1>4, <2>1, <2>2, BeforeFirst
    <2>4. r'.agg = With(1)  BY <2>1, <2>2, <2>3 DEF With, OneMore
    <2>5. With(1)' = With(1) /\ Before(1)' = Before(1)  BY <1>2, LevelsStay
    <2>6. With(read)' = With(1) /\ Before(read)' = Before(1)
      <3>1. With(read)' = With(1)' /\ Before(read)' = Before(1)'
        BY <2>1 DEF With, Before, OneMore, Earlier, FirstOf
      <3> QED  BY <2>5, <3>1
    <2>7. Aggregates'  BY <2>1, <2>3, <2>4, <2>6 DEF Aggregates
    <2>8. TotalsOfTheGroup'  BY <1>2, <2>1, <2>2, PaperStays DEF ReportTotals, SamePaper
    <2> QED  BY <1>1, <2>7, <2>8 DEF ReportTotals
  <1> QED  BY <1>5, <1>6

\* The totals of each level stay while no record is read.
LEMMA TheseStay ==
  ASSUME UNCHANGED <<report, records, read>>
  PROVE  /\ Before(read)' = Before(read) /\ With(read)' = With(read) /\ Upto(read)' = Upto(read)
         /\ Upto(read - 1)' = Upto(read - 1)
         /\ LeftOut(read)' = LeftOut(read) /\ LeftOut(read - 1)' = LeftOut(read - 1)
         /\ OneMore(Upto(read - 1), read)' = OneMore(Upto(read - 1), read)
  <1>1. Before(read)' = Before(read) /\ Upto(read)' = Upto(read) /\ Upto(read - 1)' = Upto(read - 1)
    BY SectionsStay, TotalsStay DEF Before, Upto
  <1>2. G' = G  BY SectionsStay
  <1>3. LeftOut(read)' = LeftOut(read) /\ LeftOut(read - 1)' = LeftOut(read - 1)  BY DEF LeftOut
  <1> QED  BY <1>1, <1>2, <1>3 DEF With, OneMore

\* Records are left out from the first one that asks for it on.
LEMMA LeftOutNext ==
  ASSUME NEW i \in Nat \ {0}
  PROVE  LeftOut(i) <=> \/ LeftOut(i - 1)
                        \/ records[i].supress /\ \E n \in DOMAIN report : MaySupress(report[n])
  <1>1. \A k : k \in 1..i <=> k \in 1..(i - 1) \/ k = i  OBVIOUS
  <1> QED  BY <1>1 DEF LeftOut, MaySupress

\* A details section that is supressed is the one that may be.
LEMMA GoneIs ==
  ASSUME Given, SupressOnce, NEW x, Marks(x), NEW s \in Range(report), MaySupress(s)
  PROVE  Gone(x) <=> s \in x.supressed
  <1>1. \A a \in Range(report) : MaySupress(a) => a = s
    BY DEF SupressOnce, Given, Range
  <1>2. \A a \in x.supressed : a.type = "Details" => a = s  BY <1>1 DEF Marks, Mark, MaySupress
  <1> QED  BY <1>2 DEF Gone, MaySupress

LEMMA AggregatesSection ==
  ASSUME SupressOnce, ReportTotals, Leaving, PrintNextSection
  PROVE  ReportTotals' /\ Leaving'
  <1> DEFINE s == Head(toPrint)
  <1>1. ReportPlaces /\ ReportPlaces'  BY PlacesNextSection DEF ReportTotals
  <1>2. UNCHANGED <<report, records, read, phase, level, changed, finished>>
        /\ toPrint # <<>> /\ toPrint' = Tail(toPrint)
    BY DEF PrintNextSection
  <1>3. s \in SectionsOf(TypesIn(phase))  BY <1>1, NextSectionIs
  <1>4. IF IsOut(r, s) THEN TakenOut(r, r', s) ELSE Adds1(r, r', s)  BY <1>1, NextSectionIs
  <1>5. Given /\ IsState(r) /\ HasLevels(r) /\ Marks(r) /\ read \in 0..Len(records) /\ Position /\ phase \in Phases
        /\ (\E T : toPrint \in Seq(T))
    BY <1>1 DEF ReportPlaces
  <1>6. Len(records) \in Nat /\ G \in Nat  BY <1>5, RecordsAre, LevelsAre
  <1>7. CASE phase = "read"
    <2>1. AtRecord(r, read)  BY <1>5, <1>7 DEF Position
    <2>2. s.type = "Details"  BY <1>3, <1>7 DEF SectionsOf, TypesIn
    <2>3. PendingOnce /\ IF LeftOut(read) /\ ~Pending THEN r.agg = Before(read) /\ r.prevAgg = With(read)
                         ELSE r.agg = With(read) /\ r.prevAgg = Before(read)
      BY <1>7 DEF ReportTotals, Aggregates
    <2>4. /\ Len(toPrint) \in Nat /\ Len(toPrint) # 0
          /\ DOMAIN toPrint = 1..Len(toPrint) /\ s = toPrint[1]
          /\ DOMAIN Tail(toPrint) = 1..(Len(toPrint) - 1)
          /\ \A n \in 1..(Len(toPrint) - 1) : Tail(toPrint)[n] = toPrint[n + 1]
      BY <1>2, <1>5
    <2>5. /\ DOMAIN toPrint' = 1..(Len(toPrint) - 1)
          /\ \A n \in DOMAIN toPrint' : /\ toPrint'[n] = toPrint[n + 1] /\ n + 1 \in DOMAIN toPrint
                                        /\ n \in Int /\ n + 1 # 1
      BY <1>2, <2>4
    <2>6. 1 \in DOMAIN toPrint  BY <2>4
    <2> HIDE DEF s
    <2>7. s.maySupress => Pending /\ ~Pending'  BY <2>3, <2>4, <2>5, <2>6 DEF Pending, PendingOnce
    <2>8. ~s.maySupress => (Pending' <=> Pending)
      <3>1. Pending' => Pending  BY <2>5 DEF Pending
      <3>2. ASSUME ~s.maySupress, NEW n \in DOMAIN toPrint, toPrint[n].maySupress  PROVE Pending'
        <4>1. n # 1 /\ n \in 1..Len(toPrint)  BY <2>4, <3>2
        <4>2. (n - 1) \in 1..(Len(toPrint) - 1) /\ (n - 1) + 1 = n  BY <2>4, <4>1
        <4>3. (n - 1) \in DOMAIN toPrint' /\ toPrint'[n - 1] = toPrint[(n - 1) + 1]  BY <2>5, <4>2
        <4>4. toPrint'[n - 1].maySupress  BY <3>2, <4>2, <4>3
        <4> QED  BY <4>3, <4>4 DEF Pending
      <3> QED  BY <3>1, <3>2 DEF Pending
    <2>9. PendingOnce'
      <3>1. \A m, n \in DOMAIN toPrint' : toPrint'[m].maySupress /\ toPrint'[n].maySupress => m = n
        <4> SUFFICES ASSUME NEW m \in DOMAIN toPrint', NEW n \in DOMAIN toPrint',
                            toPrint'[m].maySupress, toPrint'[n].maySupress
                     PROVE  m = n
          OBVIOUS
        <4>1. m + 1 = n + 1  BY <2>3, <2>5 DEF PendingOnce
        <4> QED  BY <2>5, <4>1
      <3>2. Pending' => \E n \in DOMAIN report' : MaySupress(report'[n])
        BY <1>2, <2>3, <2>7, <2>8 DEF PendingOnce
      <3> QED  BY <3>1, <3>2 DEF PendingOnce
    <2>10. IsOut(r, s) <=> s.maySupress /\ LeftOut(read)
      <3>1. CASE s.maySupress
        <4>1. Gone(r) <=> LeftOut(read - 1)  BY <1>7, <2>7, <3>1 DEF Leaving
        <4>2. Gone(r) <=> s \in r.supressed  BY <1>3, <1>5, <2>2, <3>1, GoneIs DEF SectionsOf, MaySupress, s
        <4>3. Asks(r, s) <=> records[read].supress  BY <2>1, <3>1 DEF Asks, AtRecord
        <4>4. LeftOut(read) <=> LeftOut(read - 1) \/ records[read].supress
          <5>1. \E n \in DOMAIN report : MaySupress(report[n])  BY <2>3, <2>7, <3>1 DEF PendingOnce
          <5>2. read \in Nat \ {0}  BY <1>5, <1>6, <2>1 DEF AtRecord
          <5> QED  BY <5>1, <5>2, LeftOutNext
        <4> QED  BY <2>2, <3>1, <4>1, <4>2, <4>3, <4>4 DEF IsOut
      <3>2. CASE ~s.maySupress  BY <1>5, <3>2 DEF IsOut, Asks, Marks, Mark
      <3> QED  BY <3>1, <3>2
    <2>11. CASE IsOut(r, s)
      <3>1. TakenOut(r, r', s)  BY <1>4, <2>11 DEF s
      <3>2. /\ r'.paper = r.paper
            /\ r'.agg = [l \in 0..G |-> IF l <= G THEN r.prevAgg[l] ELSE r.agg[l]]
            /\ r'.prevAgg = [l \in 0..G |-> IF l <= G THEN r.agg[l] ELSE r.prevAgg[l]]
            /\ \A a : a \in r'.supressed <=> a \in r.supressed \/ (a = s /\ Asks(r, s))
        BY <1>5, <3>1, TakenOutIs
      <3>3. \A l \in 0..G : l <= G  BY <1>6
      <3>4. r'.agg = [l \in 0..G |-> r.prevAgg[l]] /\ r'.prevAgg = [l \in 0..G |-> r.agg[l]]  BY <3>2, <3>3
      <3>5. r'.agg = r.prevAgg /\ r'.prevAgg = r.agg  BY <1>5, <3>4 DEF HasLevels
      <3>6. r.agg = With(read) /\ r.prevAgg = Before(read)  BY <2>3, <2>7, <2>10, <2>11
      <3>7. LeftOut(read) /\ ~Pending'  BY <2>7, <2>10, <2>11
      <3>8. Aggregates'  BY <1>2, <1>7, <2>9, <3>5, <3>6, <3>7, TheseStay DEF Aggregates
      <3>9. TotalsOfTheGroup'  BY <1>2, <3>2, PaperStays DEF ReportTotals
      <3>10. Gone(r')  BY <2>2, <2>11, <3>2 DEF IsOut, Gone
      <3>11. Leaving'  BY <1>2, <1>7, <3>7, <3>10, TheseStay DEF Leaving, Gone
      <3> QED  BY <1>1, <3>8, <3>9, <3>11 DEF ReportTotals
    <2>12. CASE ~IsOut(r, s)
      <3>1. Adds1(r, r', s)  BY <1>4, <2>12 DEF s
      <3>2. r'.agg = r.agg /\ r'.prevAgg = r.prevAgg  BY <3>1 DEF Adds1, Keeps
      <3>3. LeftOut(read) => (Pending' <=> Pending)  BY <2>8, <2>10, <2>12
      <3>4. Aggregates'  BY <1>2, <1>7, <2>3, <2>9, <3>2, <3>3, TheseStay DEF Aggregates
      <3>5. TotalsOfTheGroup'  BY <1>2, <2>2, <3>1, SectionTotals DEF ReportTotals
      <3>6. Gone(r') <=> Gone(r)
        <4>1. ~Asks(r, s)  BY <2>2, <2>12 DEF IsOut
        <4> QED  BY <3>1, <4>1 DEF Adds1, Gone, PageTypes
      <3>7. Gone(r) <=> IF Pending' THEN LeftOut(read - 1) ELSE LeftOut(read)
        <4>1. Gone(r) <=> IF Pending THEN LeftOut(read - 1) ELSE LeftOut(read)  BY <1>7 DEF Leaving
        <4>2. CASE s.maySupress
          <5>1. ~LeftOut(read) /\ Pending /\ ~Pending'  BY <2>7, <2>10, <2>12, <4>2
          <5>2. ~LeftOut(read - 1)
            <6>1. read \in Nat \ {0}  BY <1>5, <1>6, <2>1 DEF AtRecord
            <6> QED  BY <5>1, <6>1, LeftOutNext
          <5> QED  BY <4>1, <5>1, <5>2
        <4>3. CASE ~s.maySupress  BY <2>8, <4>1, <4>3
        <4> QED  BY <4>2, <4>3
      <3>8. Leaving'  BY <1>2, <1>7, <3>6, <3>7, TheseStay DEF Leaving, Gone
      <3> QED  BY <1>1, <3>4, <3>5, <3>8 DEF ReportTotals
    <2> QED  BY <2>11, <2>12
  <1>8. CASE phase # "read"
    <2>1. s.type # "Details" /\ s.level \in 0..G  BY <1>3, <1>8 DEF SectionsOf, TypesIn
    <2>2. Adds1(r, r', s)  BY <1>4, <2>1 DEF IsOut
    <2>3. r'.agg = r.agg /\ r'.prevAgg = r.prevAgg  BY <2>2 DEF Adds1, Keeps
    <2>4. Aggregates  BY DEF ReportTotals
    <2>5. Aggregates'  BY <1>2, <1>8, <2>3, <2>4, SectionsStay, TheseStay DEF Aggregates
    <2> HIDE DEF s
    <2>6. s.type = "GroupFooter" => r.agg[s.level] = Totals(Counted(s.level, r.real))
      <3> SUFFICES ASSUME s.type = "GroupFooter"
                   PROVE  r.agg[s.level] = Totals(Counted(s.level, r.real))
        OBVIOUS
      <3>1. phase = "close"  BY <1>3 DEF SectionsOf, TypesIn, s
      <3>2. r.agg = Upto(r.real)
        <4>1. CASE finished  BY <1>5, <2>4, <3>1, <4>1 DEF Aggregates, Position, AtRecord
        <4>2. CASE ~finished  BY <1>5, <2>4, <3>1, <4>2 DEF Aggregates, Position, Swapped
        <4> QED  BY <4>1, <4>2
      <3> QED  BY <2>1, <3>2 DEF Upto
    <2>7. s.type = "ReportFooter" /\ r.real # 0 => r.agg[s.level] = Totals(Counted(s.level, r.real))
      <3> SUFFICES ASSUME s.type = "ReportFooter", r.real # 0
                   PROVE  r.agg[s.level] = Totals(Counted(s.level, r.real))
        OBVIOUS
      <3>1. phase = "last"  BY <1>3 DEF SectionsOf, TypesIn, s
      <3>2. r.real = read /\ read # 0  BY <1>5, <3>1 DEF Position, AtRecord
      <3>3. r.agg = Upto(read)  BY <2>4, <3>1, <3>2 DEF Aggregates
      <3> QED  BY <2>1, <3>2, <3>3 DEF Upto
    <2>8. TotalsOfTheGroup'  BY <1>2, <2>2, <2>6, <2>7, SectionTotals DEF ReportTotals
    <2>9. Gone(r') <=> Gone(r)  BY <2>1, <2>2 DEF Adds1, Gone, PageTypes, s
    <2>10. Leaving'  BY <1>2, <1>8, <2>9, TheseStay DEF Leaving, Gone
    <2> QED  BY <1>1, <2>5, <2>8, <2>10 DEF ReportTotals
  <1> QED  BY <1>7, <1>8

LEMMA AggregatesHeaders ==
  ASSUME ReportTotals, PrintGroupHeaders
  PROVE  ReportTotals'
  <1>1. ReportPlaces'  BY PlacesHeaders DEF ReportTotals
  <1>2. UNCHANGED <<report, records, read, phase, changed, finished, r>> /\ phase = "group"
    BY DEF PrintGroupHeaders
  <1>3. Aggregates'  BY <1>2, TheseStay DEF Aggregates, ReportTotals
  <1> QED  BY <1>1, <1>2, <1>3, PaperStays DEF ReportTotals

LEMMA AggregatesRecord ==
  ASSUME SupressOnce, ReportTotals, PrintRecord
  PROVE  ReportTotals'
  <1>1. ReportPlaces'  BY PlacesRecord DEF ReportTotals
  <1>2. UNCHANGED <<report, records, read, r>> /\ phase = "group" /\ phase' = "read" /\ toPrint' = OfType("Details")
    BY DEF PrintRecord
  <1>3. Given  BY DEF ReportTotals, ReportPlaces
  <1>4. /\ \A m, n \in DOMAIN toPrint' : toPrint'[m].maySupress /\ toPrint'[n].maySupress => m = n
        /\ (\E n \in DOMAIN report : MaySupress(report[n])) => \E n \in DOMAIN toPrint' : toPrint'[n].maySupress
    BY <1>2, <1>3, DetailsOnce
  <1>5. Pending' => \E n \in DOMAIN report : MaySupress(report[n])
    <2> SUFFICES ASSUME NEW k \in DOMAIN OfType("Details"), OfType("Details")[k].maySupress
                 PROVE  \E n \in DOMAIN report : MaySupress(report[n])
      BY <1>2 DEF Pending
    <2> DEFINE ns == {n \in DOMAIN report : report[n].type = "Details"}
    <2>1. ns \in SUBSET (DOMAIN report) /\ OfType("Details") = InOrder(ns)  BY DEF OfType
    <2> HIDE DEF ns
    <2>2. PICK f : f \in [1..Cardinality(ns) -> ns] /\ InOrder(ns) = [i \in 1..Cardinality(ns) |-> report[f[i]]]
      BY <1>3, <2>1, InOrderIs
    <2>3. k \in 1..Cardinality(ns) /\ report[f[k]].maySupress  BY <2>1, <2>2
    <2>4. f[k] \in DOMAIN report /\ report[f[k]].type = "Details"  BY <2>2, <2>3 DEF ns
    <2> QED  BY <2>3, <2>4 DEF MaySupress
  <1>6. PendingOnce'  BY <1>2, <1>4, <1>5 DEF PendingOnce
  <1>7. LeftOut(read) => Pending'  BY <1>4 DEF LeftOut, Pending, MaySupress
  <1>8. r'.agg = With(read) /\ r'.prevAgg = Before(read)  BY <1>2 DEF ReportTotals, Aggregates
  <1>9. Aggregates'  BY <1>2, <1>6, <1>7, <1>8, TheseStay DEF Aggregates
  <1> QED  BY <1>1, <1>2, <1>9, PaperStays DEF ReportTotals

LEMMA AggregatesFooters ==
  ASSUME ReportTotals, PrintGroupFooters
  PROVE  ReportTotals'
  <1>1. ReportPlaces'  BY PlacesFooters DEF ReportTotals
  <1>2. UNCHANGED <<report, records, read, finished, r>> /\ phase = "return" /\ phase' = "close"
    BY DEF PrintGroupFooters
  <1>3. Aggregates'  BY <1>2, TheseStay DEF Aggregates, ReportTotals
  <1> QED  BY <1>1, <1>2, <1>3, PaperStays DEF ReportTotals

LEMMA AggregatesReportFooters ==
  ASSUME ReportTotals, PrintReportFooters
  PROVE  ReportTotals'
  <1>1. ReportPlaces'  BY PlacesReportFooters DEF ReportTotals
  <1>2. UNCHANGED <<report, records, read, finished, r>> /\ phase = "end" /\ phase' = "last"
    BY DEF PrintReportFooters
  <1>3. Aggregates'  BY <1>2, TheseStay DEF Aggregates, ReportTotals
  <1> QED  BY <1>1, <1>2, <1>3, PaperStays DEF ReportTotals

LEMMA AggregatesEnd ==
  ASSUME ReportTotals, EndReport
  PROVE  ReportTotals'
  <1>1. ReportPlaces'  BY PlacesEnd DEF ReportTotals
  <1>2. UNCHANGED <<report, records, read, finished>> /\ phase = "last" /\ phase' = "done"
        /\ r' = PrintPageFooters(r)
    BY DEF EndReport
  <1>3. Given /\ IsState(r)  BY DEF ReportTotals, ReportPlaces
  <1>4. PagesOnly(r, r')  BY <1>2, <1>3, PageFootersOnly
  <1>5. r'.agg = r.agg  BY <1>4 DEF PagesOnly, Keeps
  <1>6. Aggregates'  BY <1>2, <1>5, TheseStay DEF Aggregates, ReportTotals
  <1>7. TotalsOfTheGroup'  BY <1>2, <1>4, PagesStay DEF ReportTotals
  <1> QED  BY <1>1, <1>6, <1>7 DEF ReportTotals

LEMMA AggregatesStutter ==
  ASSUME ReportTotals, UNCHANGED repVars
  PROVE  ReportTotals'
  <1>1. ReportPlaces'  BY PlacesStutter DEF ReportTotals
  <1>2. UNCHANGED <<report, records, read, phase, toPrint, finished, r>>  BY DEF repVars
  <1>3. PendingOnce' = PendingOnce /\ Pending' = Pending  BY <1>2 DEF PendingOnce, Pending
  <1>4. Aggregates'  BY <1>2, <1>3, SectionsStay, TheseStay DEF Aggregates, ReportTotals
  <1> QED  BY <1>1, <1>2, <1>4, PaperStays DEF ReportTotals

LEMMA AggregatesRead ==
  ASSUME ReportTotals, ReadRecord
  PROVE  ReportTotals'
  <1>1. ReportPlaces /\ ReportPlaces'  BY PlacesRead DEF ReportTotals
  <1>2. UNCHANGED <<report, records>> /\ phase = "read" /\ toPrint = <<>>  BY DEF ReadRecord
  <1>3. SamePaper(r, r') /\ (ReadOn \/ ReadAnother \/ ReadNone)  BY <1>1, ReadRecordIs
  <1>4. Given /\ read \in 1..Len(records)
    <2>1. Given /\ read \in 0..Len(records) /\ read # 0  BY <1>1, <1>2 DEF ReportPlaces, Position, AtRecord
    <2>2. Len(records) \in Nat  BY <2>1, RecordsAre
    <2> QED  BY <2>1, <2>2
  <1>5. Len(records) \in Nat /\ read \in Nat /\ read + 1 >= 2 /\ (read + 1) - 1 = read /\ read + 1 \in Nat
    BY <1>4, RecordsAre
  <1>6. r.agg = Upto(read)
    <2>1. ~Pending  BY <1>2 DEF Pending
    <2>2. IF LeftOut(read) THEN r.agg = Before(read) ELSE r.agg = With(read)
      BY <1>2, <2>1 DEF ReportTotals, Aggregates
    <2> QED  BY <1>4, <2>2, UptoIs
  <1>7. TotalsOfTheGroup'  BY <1>2, <1>3, PaperStays DEF ReportTotals, SamePaper
  <1>8. Aggregates'
    <2>1. CASE ReadOn
      <3>1. /\ phase' = "group" /\ read' = read + 1 /\ Begins(read + 1) = 0
            /\ r'.prevAgg = r.agg /\ r'.agg = OneMore(r.agg, read + 1)
        BY <2>1 DEF ReadOn
      <3>2. \A l : GoesOn(l, read + 1)  BY <3>1 DEF GoesOn
      <3>3. Before(read + 1) = [l \in 0..G |-> IF GoesOn(l, read + 1) THEN Totals(Counted(l, (read + 1) - 1))
                                               ELSE NoAggregate]
        <4> DEFINE i == read + 1
        <4>1. i \in Nat /\ i >= 2  BY <1>5
        <4> HIDE DEF i
        <4>2. Before(i) = [l \in 0..G |-> IF GoesOn(l, i) THEN Totals(Counted(l, i - 1)) ELSE NoAggregate]
          BY <1>4, <4>1, BeforeNext
        <4> QED  BY <4>2 DEF i
      <3>4. Before(read + 1) = Upto(read)  BY <1>5, <3>2, <3>3 DEF Upto
      <3>5. r'.prevAgg = Before(read + 1) /\ r'.agg = With(read + 1)  BY <1>6, <3>1, <3>4 DEF With
      <3>6. Before(read)' = Before(read + 1) /\ With(read)' = With(read + 1)
        <4>1. Before(read)' = Before(read + 1)  BY <1>2, <3>1, SectionsStay, TotalsStay DEF Before
        <4>2. G' = G  BY <1>2, SectionsStay
        <4> QED  BY <1>2, <3>1, <4>1, <4>2 DEF With, OneMore
      <3> QED  BY <3>1, <3>5, <3>6 DEF Aggregates
    <2>2. CASE ReadAnother
      <3>1. /\ phase' = "return" /\ read' = read + 1 /\ ~finished' /\ read' - 1 = read
            /\ r'.agg = r.agg /\ r'.prevAgg = OneMore(r.agg, read + 1)
        BY <1>5, <2>2 DEF ReadAnother
      <3>2. Upto(read - 1)' = Upto(read)  BY <1>2, <3>1, SectionsStay, TotalsStay DEF Upto
      <3>3. OneMore(Upto(read - 1), read)' = OneMore(Upto(read), read + 1)
        <4>1. G' = G  BY <1>2, SectionsStay
        <4> QED  BY <1>2, <3>1, <3>2, <4>1 DEF OneMore
      <3> QED  BY <1>6, <3>1, <3>2, <3>3 DEF Aggregates
    <2>3. CASE ReadNone
      <3>1. read' = read /\ finished' /\ r' = r /\ phase' \in {"end", "return"}  BY <2>3 DEF ReadNone
      <3>2. Upto(read)' = Upto(read)  BY <1>2, <3>1, TheseStay
      <3> QED  BY <1>6, <3>1, <3>2 DEF Aggregates
    <2> QED  BY <1>3, <2>1, <2>2, <2>3
  <1> QED  BY <1>1, <1>7, <1>8 DEF ReportTotals

LEMMA AggregatesClose ==
  ASSUME ReportTotals, CloseGroup
  PROVE  ReportTotals'
  <1>1. ReportPlaces /\ ReportPlaces'  BY PlacesClose DEF ReportTotals
  <1>2. UNCHANGED <<report, records, read, finished>> /\ phase = "close"  BY DEF CloseGroup
  <1>3. SamePaper(r, r') /\ (NextGroup \/ LevelAbove)  BY <1>1, CloseIs
  <1>4. Given /\ level \in 1..G /\ IF finished THEN AtRecord(r, read) ELSE Swapped(r)
    BY <1>1, <1>2 DEF ReportPlaces, Position
  <1>5. TotalsOfTheGroup'  BY <1>2, <1>3, PaperStays DEF ReportTotals, SamePaper
  <1>6. Aggregates
    BY DEF ReportTotals
  <1>7. Aggregates'
    <2>1. CASE NextGroup
      <3>1. /\ ~finished /\ changed = level /\ phase' = "group"
            /\ r'.agg = [l \in 0..G |-> IF l >= level THEN Add(NoAggregate, records[r.prev].value) ELSE r.prevAgg[l]]
            /\ r'.prevAgg = [l \in 0..G |-> IF l >= level THEN NoAggregate ELSE r.agg[l]]
        BY <2>1 DEF NextGroup
      <3>2. r.agg = Upto(read - 1) /\ r.prevAgg = OneMore(Upto(read - 1), read)
        BY <1>2, <1>6, <3>1 DEF Aggregates
      <3>3. read >= 2 /\ r.prev = read /\ level = Begins(read)  BY <1>4, <3>1 DEF Swapped
      <3>4. G \in Nat /\ read \in Nat /\ level \in Nat
        <4>1. G \in Nat /\ Len(records) \in Nat  BY <1>4, LevelsAre, RecordsAre
        <4>2. read \in 0..Len(records)  BY <1>1 DEF ReportPlaces
        <4> QED  BY <1>4, <4>1, <4>2
      <3>5. \A l \in 0..G : GoesOn(l, read) <=> ~(l >= level)
        <4>1. \A l \in 0..G : level \in 1..l <=> l >= level  BY <1>4, <3>4
        <4> QED  BY <3>3, <4>1 DEF GoesOn
      <3>6. Before(read) = [l \in 0..G |-> IF GoesOn(l, read) THEN Totals(Counted(l, read - 1)) ELSE NoAggregate]
        BY <1>4, <3>3, <3>4, BeforeNext
      <3>7. \A l \in 0..G : Upto(read - 1)[l] = Totals(Counted(l, read - 1))  BY DEF Upto
      <3>8. Before(read) = [l \in 0..G |-> IF l >= level THEN NoAggregate ELSE r.agg[l]]
        BY <3>2, <3>5, <3>6, <3>7
      <3>9. r'.prevAgg = Before(read)  BY <3>1, <3>8
      <3>10. \A l \in 0..G : r.prevAgg[l] = Add(r.agg[l], records[read].value)  BY <3>2 DEF OneMore
      <3>11. \A l \in 0..G : Before(read)[l] = IF l >= level THEN NoAggregate ELSE r.agg[l]  BY <3>8
      <3>12. With(read) = [l \in 0..G |-> IF l >= level THEN Add(NoAggregate, records[read].value) ELSE r.prevAgg[l]]
        BY <3>10, <3>11 DEF With, OneMore
      <3>13. r'.agg = With(read)  BY <3>1, <3>3, <3>12
      <3> QED  BY <1>2, <3>1, <3>9, <3>13, TheseStay DEF Aggregates
    <2>2. CASE LevelAbove
      <3>1. r' = r /\ phase' = IF level = 1 THEN "end" ELSE "return"  BY <2>2 DEF LevelAbove
      <3>2. CASE level = 1
        <4>1. finished
          <5>1. changed \in 1..level => ~(changed < level)  BY <3>2
          <5> QED  BY <1>4, <2>2, <5>1 DEF LevelAbove, Swapped
        <4>2. phase' = "end" /\ r.agg = Upto(read)  BY <1>2, <1>6, <3>1, <3>2, <4>1 DEF Aggregates
        <4> QED  BY <1>2, <3>1, <4>2, TheseStay DEF Aggregates
      <3>3. CASE level # 1
        <4>1. phase' = "return"  BY <3>1, <3>3
        <4>2. IF finished THEN r.agg = Upto(read)
              ELSE r.agg = Upto(read - 1) /\ r.prevAgg = OneMore(Upto(read - 1), read)
          BY <1>2, <1>6 DEF Aggregates
        <4> QED  BY <1>2, <3>1, <4>1, <4>2, TheseStay DEF Aggregates
      <3> QED  BY <3>2, <3>3
    <2> QED  BY <1>3, <2>1, <2>2
  <1> QED  BY <1>1, <1>5, <1>7 DEF ReportTotals

\* The other steps supress no section, and go on to the next record once all the details of
\* the one before it have had their turn.
LEMMA LeavingKept ==
  ASSUME SupressOnce, ReportTotals, Leaving, [NextReport]_repVars, ~PrintNextSection
  PROVE  Leaving'
  <1>1. ReportPlaces /\ Aggregates  BY DEF ReportTotals
  <1>2. Given /\ IsState(r) /\ HasLevels(r) /\ Marks(r) /\ read \in 0..Len(records)  BY <1>1 DEF ReportPlaces
  <1>3. Len(records) \in Nat  BY <1>2, RecordsAre
  <1>4. \A i : LeftOut(i) => \E n \in DOMAIN report : MaySupress(report[n])  BY DEF LeftOut, MaySupress
  <1>5. CASE StartReport
    <2>1. UNCHANGED <<report, records>> /\ phase = "idle"  BY <1>5 DEF StartReport
    <2>2. CASE records = <<>>
      <3>1. phase' = "end"  BY <1>5, <2>2 DEF StartReport
      <3> QED  BY <3>1 DEF Leaving
    <2>3. CASE records # <<>>
      <3> DEFINE z == ReadNext(r)
      <3>1. r' = z /\ phase' = "group" /\ read' = 1  BY <1>5, <2>3 DEF StartReport
      <3>2. SamePaper(r, z)  BY <1>2, ReadNextIs
      <3> HIDE DEF z
      <3>3. ~Gone(r)  BY <2>1 DEF Leaving
      <3>4. ~Gone(r)'  BY <3>1, <3>2, <3>3 DEF SamePaper, Gone
      <3>5. ~LeftOut(read - 1)'
        <4>1. 1..(read' - 1) = {}  BY <3>1
        <4> QED  BY <4>1 DEF LeftOut
      <3> QED  BY <3>1, <3>4, <3>5 DEF Leaving
    <2> QED  BY <2>2, <2>3
  <1>6. CASE PrintRecord
    <2>1. UNCHANGED <<report, records, read, r>> /\ phase = "group" /\ phase' = "read" /\ toPrint' = OfType("Details")
      BY <1>6 DEF PrintRecord
    <2>2. Gone(r) <=> LeftOut(read - 1)  BY <2>1 DEF Leaving
    <2>3. ~Pending' => ~ \E n \in DOMAIN report : MaySupress(report[n])
      BY <1>2, <2>1, DetailsOnce DEF Pending
    <2>4. Gone(r) <=> IF Pending' THEN LeftOut(read - 1) ELSE LeftOut(read)  BY <1>4, <2>2, <2>3
    <2> QED  BY <2>1, <2>4, TheseStay DEF Leaving, Gone
  <1>7. CASE ReadRecord
    <2>1. UNCHANGED <<report, records>> /\ phase = "read" /\ toPrint = <<>>  BY <1>7 DEF ReadRecord
    <2>2. SamePaper(r, r') /\ (ReadOn \/ ReadAnother \/ ReadNone)  BY <1>1, <1>7, ReadRecordIs
    <2>3. Gone(r) <=> LeftOut(read)
      <3>1. ~Pending  BY <2>1 DEF Pending
      <3> QED  BY <2>1, <3>1 DEF Leaving
    <2>4. Gone(r)' <=> LeftOut(read)  BY <2>2, <2>3 DEF SamePaper, Gone
    <2>5. \A i : LeftOut(i)' <=> LeftOut(i)  BY <2>1, TotalsStay
    <2>6. CASE ReadOn \/ ReadAnother
      <3>1. read' - 1 = read /\ phase' \in {"group", "return"} /\ ~finished'
        BY <1>2, <1>3, <2>6 DEF ReadOn, ReadAnother
      <3>2. LeftOut(read - 1)' <=> LeftOut(read)  BY <2>1, <3>1 DEF LeftOut
      <3> QED  BY <2>4, <3>1, <3>2 DEF Leaving
    <2>7. CASE ReadNone
      <3>1. read' = read /\ phase' \in {"end", "return"} /\ finished'  BY <2>7 DEF ReadNone
      <3>2. LeftOut(read)' <=> LeftOut(read)  BY <2>1, <3>1 DEF LeftOut
      <3> QED  BY <2>4, <3>1, <3>2 DEF Leaving
    <2> QED  BY <2>2, <2>6, <2>7
  <1>8. CASE CloseGroup
    <2>1. UNCHANGED <<report, records, read, finished>> /\ phase = "close"  BY <1>8 DEF CloseGroup
    <2>2. SamePaper(r, r') /\ (NextGroup \/ LevelAbove)  BY <1>1, <1>8, CloseIs
    <2>3. Gone(r) <=> IF finished THEN LeftOut(read) ELSE LeftOut(read - 1)  BY <2>1 DEF Leaving
    <2>4. Gone(r)' <=> Gone(r)  BY <2>2 DEF SamePaper, Gone
    <2>5. \/ phase' = "group" /\ ~finished
          \/ phase' \in {"return", "end"}
      BY <2>2 DEF NextGroup, LevelAbove
    <2>6. LeftOut(read)' = LeftOut(read) /\ LeftOut(read - 1)' = LeftOut(read - 1)  BY <2>1, TheseStay
    <2>7. CASE phase' = "group" /\ ~finished  BY <2>3, <2>4, <2>6, <2>7 DEF Leaving
    <2>8. CASE phase' \in {"return", "end"}
      <3>1. Gone(r)' <=> IF finished' THEN LeftOut(read)' ELSE LeftOut(read - 1)'  BY <2>1, <2>3, <2>4, <2>6
      <3>2. phase' # "idle" /\ phase' # "group" /\ phase' # "read"  BY <2>8
      <3> QED  BY <3>1, <3>2 DEF Leaving
    <2> QED  BY <2>5, <2>7, <2>8
  <1>9. CASE PrintGroupHeaders \/ PrintGroupFooters
    <2>1. UNCHANGED <<report, records, read, finished, r>>
          /\ ((phase = "group" /\ phase' = "group") \/ (phase = "return" /\ phase' = "close"))
      BY <1>9 DEF PrintGroupHeaders, PrintGroupFooters
    <2> QED  BY <2>1, TheseStay DEF Leaving, Gone
  <1>10. CASE PrintReportFooters \/ EndReport
    <2>1. phase' \in {"last", "done"}  BY <1>10 DEF PrintReportFooters, EndReport
    <2> QED  BY <2>1 DEF Leaving
  <1>11. CASE UNCHANGED repVars
    <2>1. UNCHANGED <<report, records, read, phase, toPrint, finished, r>>  BY <1>11 DEF repVars
    <2>2. Pending' = Pending  BY <2>1 DEF Pending
    <2> QED  BY <2>1, <2>2, TheseStay DEF Leaving, Gone
  <1> QED  BY <1>5, <1>6, <1>7, <1>8, <1>9, <1>10, <1>11 DEF NextReport, StepReport

LEMMA AggregatesKept ==
  ASSUME SupressOnce, ReportTotals, Leaving, [NextReport]_repVars
  PROVE  ReportTotals' /\ Leaving'
  <1>1. CASE PrintNextSection  BY <1>1, AggregatesSection
  <1>2. CASE ~PrintNextSection
    <2>1. Leaving'  BY <1>2, LeavingKept
    <2>2. ReportTotals'
      BY <1>2, AggregatesStart, AggregatesHeaders, AggregatesRecord, AggregatesRead, AggregatesFooters,
         AggregatesClose, AggregatesReportFooters, AggregatesEnd, AggregatesStutter DEF NextReport, StepReport
    <2> QED  BY <2>1, <2>2
  <1> QED  BY <1>1, <1>2

\* TotalsOfTheGroup: in every report where at most one details section may be supressed, the footer
\* of each group has the totals of the records of that group, but for the first record that asks
\* for that section to be supressed and all those after it, though it is printed when readNext has
\* read and added the record after the group; and the report footer, those of all.
THEOREM TotalsOfEveryGroup == ASSUME SupressOnce PROVE SpecReport => []TotalsOfTheGroup
  <1>1. InitReport => ReportTotals /\ Leaving
    <2>1. InitReport => phase = "idle" /\ r.supressed = {}  BY DEF InitReport, NewState
    <2> QED  BY <2>1, AggregatesInit DEF Leaving, Gone
  <1>2. ReportTotals /\ Leaving /\ [NextReport]_repVars => ReportTotals' /\ Leaving'  BY AggregatesKept
  <1>3. ReportTotals => TotalsOfTheGroup  BY DEF ReportTotals
  <1> QED  BY <1>1, <1>2, <1>3, PTL DEF SpecReport
=================================================================================
