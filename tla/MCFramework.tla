------------------------------ MODULE MCFramework ------------------------------
(* Records, edit forms, reports and their scripts, which share no state: a       *)
(* behaviour is of one of them, "part", and the others rest: no request, a form  *)
(* just opened, a report without sections and an empty script that have ended.   *)
EXTENDS DbRecord, EditForm, Report, Script, TLC

VARIABLE part

framework == <<part, vars, formVars, repVars, vm>>

-------------------------------------------------------------------------------
(* Records and forms.                                                      *)

MCRows       == DbRows
MCTables     == <<"A", "B">>
MCReferences == {<<"A", 1>>, <<"B", 2>>}

-------------------------------------------------------------------------------
(* Reports: two groups, a group per page, no groups, margins and texts that grow. *)

Sec(t, l, h) == [type |-> t, level |-> l, sizeY |-> h, visible |-> TRUE, pageBefore |-> FALSE,
  pageAfter |-> FALSE, inFirstPage |-> TRUE, maySupress |-> FALSE, supressDup |-> FALSE,
  supIfBlank |-> FALSE, marginTop |-> 0, marginBottom |-> 0, posY |-> 0, growth |-> 0]

TwoGroups == <<Sec("ReportHeader", 0, 1), Sec("PageHeader", 0, 1), Sec("GroupHeader", 1, 1),
  Sec("GroupHeader", 2, 1), [Sec("Details", 0, 1) EXCEPT !.maySupress = TRUE], Sec("GroupFooter", 2, 1),
  Sec("GroupFooter", 1, 1), Sec("ReportFooter", 0, 1), Sec("PageFooter", 0, 2)>>
PageGroups == <<[Sec("PageHeader", 0, 1) EXCEPT !.inFirstPage = FALSE],
  [Sec("GroupHeader", 1, 1) EXCEPT !.pageBefore = TRUE], Sec("Details", 0, 2),
  [Sec("GroupFooter", 1, 1) EXCEPT !.posY = -3, !.pageAfter = TRUE],
  Sec("PageFooter", 0, 1), [Sec("PageFooter", 0, 1) EXCEPT !.visible = FALSE]>>
Plain == <<[Sec("PageHeader", 0, 1) EXCEPT !.marginBottom = 1],
  [Sec("Details", 0, 2) EXCEPT !.supressDup = TRUE],
  [Sec("Details", 0, 1) EXCEPT !.supIfBlank = TRUE], Sec("ReportFooter", 0, 2)>>
Margins == <<[Sec("GroupHeader", 1, 1) EXCEPT !.maySupress = TRUE],
  [Sec("Details", 0, 2) EXCEPT !.marginTop = 1, !.growth = 1],
  Sec("GroupFooter", 1, 1), [Sec("PageFooter", 0, 1) EXCEPT !.marginTop = 1]>>

MCReports == {<<>>, TwoGroups, PageGroups, Plain, Margins}
MCInputs  == BoundedSeq(
  [group : {<<1, 1>>, <<2, 1>>}, value : {1}, supress : {FALSE}]
    \cup [group : {<<1, 2>>}, value : {0}, supress : {FALSE}]
    \cup [group : {<<1, 1>>, <<2, 1>>}, value : {2}, supress : {TRUE}]
    \cup [group : {<<1, 1>>}, value : {-2}, supress : {FALSE}], 3)

-------------------------------------------------------------------------------
(* Scripts: expressions with calls, assignments, and loops within loops.     *)

X == <<"var", "%x">>
N(n) == <<"int", n>>
MCVariables == {"%x", "%y", "%a", "%b", "$g"}
Small == {N(0), N(2), X, <<"post", "%x">>, <<"pre", "%x">>}
Sums == {<<o, e, f>> : o \in {"+", "/", "<=", "&&"}, e \in Small, f \in Small}
Exprs == Sums \cup {<<o, <<p, X, N(2)>>, e>> : o \in {"-", "*", "!=", "||"}, p \in {"-", "<", "%"}, e \in Small}
         \cup {<<o, e>> : o \in Unary, e \in Small}
         \cup {<<"call", "fact", <<e>>>> : e \in Small}
         \cup {<<"call", "pow", <<N(2), e>>>> : e \in Small}
         \cup {<<"call", "minus", <<X, <<"call", "tostring", <<e>>>>>>>> : e \in Small}
         \cup {<<"call", "unknown", <<e>>>> : e \in Small}
Fact == <<"function", "fact", <<"%a">>, <<
          <<"if", <<"<", <<"var", "%a">>, N(1)>>, <<"return", N(1)>>>>,
          <<"++", "$g">>,
          <<"return", <<"*", <<"var", "%a">>, <<"call", "fact", <<<<"-", <<"var", "%a">>, N(1)>>>>>>>>>>>>>>
Minus == <<"function", "minus", <<"%a", "%b">>,
           <<<<"return", <<"-", <<"var", "%a">>, <<"var", "%b">>>>>>>>>>
Exits == {<<"break">>, <<"continue">>, <<"++", "%y">>, <<"return", X>>}
Bodies == {<<"block", <<<<"if", <<"==", X, N(1)>>, s, t>>, <<"asn", "+", "%y", X>>>>>> : s \in Exits, t \in Exits}
Loops == {<<"for", <<"=", "%x", N(0)>>, <<"<", X, N(3)>>, <<"++", "%x">>, b>> : b \in Bodies}
         \cup {<<"while", <<"<", <<"post", "%x">>, N(3)>>, b>> : b \in Bodies}
         \cup {<<"for", <<"=", "%y", N(0)>>, <<"<", <<"var", "%y">>, N(2)>>, <<"++", "%y">>,
                 <<"block", <<<<"=", "%x", N(0)>>,
                     <<"while", <<"<", X, N(2)>>, <<"block", <<<<"++", "%x">>, <<"++", "$g">>, s>>>>>>>>>>>> :
                 s \in Exits \ {<<"++", "%y">>}}
MCScripts == {<<>>}
             \cup {<<Fact, Minus, <<"=", "%x", N(3)>>, <<"=", "%y", e>>, <<"call", "fact", <<X>>>>,
                <<"return", <<"+", <<"var", "%y">>, X>>>>>> : e \in Exprs}
             \cup {<<<<"=", "%x", N(7)>>, <<"asn", o, "%x", <<"neg", N(2)>>>>, <<"return", <<c, X, N(-3)>>>>>> :
                     o \in {"+", "-", "*", "/", "%"}, c \in {">", ">=", "=="}}
             \cup {<<l, <<"return", <<"var", "%y">>>>>> : l \in Loops}

-------------------------------------------------------------------------------

RestingReport ==
  /\ report = <<>> /\ records = <<>> /\ phase = "done"
  /\ read = 0 /\ toPrint = <<>> /\ level = 0 /\ changed = 0 /\ finished = TRUE
  /\ r = NewState(<<>>)
RestingScript ==
  vm = [script |-> <<>>, code |-> <<>>, pc |-> 1, frame |-> Zero(Variables),
        globals |-> Zero(Variables), stack |-> <<>>, params |-> <<>>, ret |-> 0,
        calls |-> <<>>, funcs |-> <<>>, state |-> "done"]
RestingForm == dialog = "closed" /\ form = NewForm("browsing", <<1, 2>>, 1)

InitFramework ==
  /\ Init
  /\ \/ part = "records" /\ RestingForm /\ RestingReport /\ RestingScript
     \/ part = "forms" /\ InitForm /\ RestingReport /\ RestingScript
     \/ part = "reports" /\ RestingForm /\ InitReport /\ RestingScript
     \/ part = "scripts" /\ RestingForm /\ RestingReport /\ InitScript

NextFramework ==
  /\ \/ part = "records" /\ Next /\ UNCHANGED <<formVars, repVars, vm>>
     \/ part = "forms" /\ NextForm /\ UNCHANGED <<vars, repVars, vm>>
     \/ part = "reports" /\ NextReport /\ UNCHANGED <<vars, formVars, vm>>
     \/ part = "scripts" /\ NextScript /\ UNCHANGED <<vars, formVars, repVars>>
  /\ UNCHANGED part

SpecFramework == InitFramework /\ [][NextFramework]_framework /\ FairReport /\ FairScript

\* A report is printed to its end, and a script runs to its end: the levels of groups that are opened
\* are closed, and the loops are left.
ReportsAndScriptsEnd == ReportEnds /\ ScriptEnds

\* The types of forms and reports.
TypeOKFormsAndReports == TypeOKForm /\ TypeOKReport
===============================================================================
