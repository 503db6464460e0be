-------------------------------- MODULE Report --------------------------------
(***************************************************************************)
(* The report engine of src/mod/rtk (rtkreport.cpp, rtkoutput.cpp):        *)
(* Report::print over an input that orders and filters by itself, as the   *)
(* SQL inputs do, so that there is one pass, PASS_PRINT.  What is kept is  *)
(* the recursion over the group levels, the values of the record that was  *)
(* read and of the one before it, which are swapped while the footers of a *)
(* group that has ended are printed, the aggregates of every level, and    *)
(* the layout: where sections go and when a page ends.  Objects, formulas  *)
(* and formats are left out: a details section stands for one value, which *)
(* the sections of each level count, add up and take the greatest of.      *)
(***************************************************************************)
EXTENDS Integers, Sequences, FiniteSets, SequencesExt

CONSTANTS
  Reports,       \* the reports: each one is a sequence of sections
  Inputs,        \* what the input may give: sequences of records
  SizeY,         \* height of a page (0: the output is not paged)
  MarginTop,
  MarginBottom

SectionTypes == {"ReportHeader", "PageHeader", "GroupHeader", "Details",
                 "GroupFooter", "PageFooter", "ReportFooter"}

Section ==
  [type : SectionTypes, level : Nat, sizeY : Nat, visible : BOOLEAN, pageBefore : BOOLEAN,
   pageAfter : BOOLEAN, inFirstPage : BOOLEAN, maySupress : BOOLEAN, supressDup : BOOLEAN,
   supIfBlank : BOOLEAN,
   marginTop : Nat, marginBottom : Nat,
   posY : Int,     \* 0: below the section before; else from the top or the bottom of the page
   growth : Nat]   \* mGrowthY: what its longest text that may grow takes below it

ASSUME ReportAssumption ==
  /\ SizeY \in Nat /\ MarginTop \in Nat /\ MarginBottom \in Nat
  /\ Reports \subseteq Seq(Section)
  /\ \A c \in Inputs :
       /\ c \in Seq(Range(c))
       /\ \A i \in DOMAIN c : c[i].value \in Int /\ c[i].supress \in BOOLEAN

VARIABLES
  report,        \* the sections of the report, in their order
  records,       \* the records of the input, in its order
  read,          \* how many of them have been read
  phase,         \* where print() is
  toPrint,          \* the sections that the function in course has still to print
  level,         \* the argument of the innermost printGroup
  changed,       \* othergroupchanged, which printGroup returns to its caller
  finished,      \* mFinished
  r              \* the other members of Report and Output (RepState)

repVars == <<report, records, read, phase, toPrint, level, changed, finished, r>>

(***************************************************************************)
(* real and prev are the records whose values the objects hold in          *)
(* mRealValue and mPrevRealValue, by their number (0: no value yet); agg   *)
(* and prevAgg the aggregates of each level; shown and prevShown the value *)
(* of an object "=@report.pagenumber"; supressed the sections that their   *)
(* formula has supressed (equal ones have one formula and the same turns). *)
(***************************************************************************)
NoAggregate == [n |-> 0, sum |-> 0, max |-> 0]

\* mGroupLevels
GroupLevels(d) == IF d = <<>> THEN 0
                  ELSE CHOOSE g \in {d[n].level : n \in DOMAIN d} :
                         \A n \in DOMAIN d : d[n].level <= g
G == GroupLevels(report)

\* The levels that have sections: the values of a group are those of its sections.
Levels == {report[n].level : n \in DOMAIN report}

\* The sections with these numbers, in their order.
InOrder(ns) ==
  LET order == CHOOSE f \in [1..Cardinality(ns) -> ns] : \A i, j \in DOMAIN f : i < j => f[i] < f[j]
  IN  [k \in 1..Cardinality(ns) |-> report[order[k]]]

OfType(t)        == InOrder({n \in DOMAIN report : report[n].type = t})
OfLevel(t, l)    == InOrder({n \in DOMAIN report : report[n].type = t /\ report[n].level = l})
FootersHeight    == FoldLeft(LAMBDA h, s : h + s.sizeY, 0, OfType("PageFooter"))
VisibleFooters   == FoldLeft(LAMBDA h, s : h + IF s.visible THEN s.sizeY ELSE 0, 0,
                             OfType("PageFooter"))

------------------------------------------------------------------------------
(* Values and aggregates                                                     *)

Add(a, v) == [n |-> a.n + 1, sum |-> a.sum + v, max |-> IF a.n = 0 \/ v > a.max THEN v ELSE a.max]

\* calcAggregateValues(from), with the value of the record x.real.
CalcAggregateValues(x, from) ==
  [x EXCEPT !.prevAgg = [l \in DOMAIN x.agg |-> IF l >= from THEN x.agg[l] ELSE x.prevAgg[l]],
            !.agg     = [l \in DOMAIN x.agg |->
                           IF l >= from THEN Add(x.agg[l], records[x.real].value) ELSE x.agg[l]]]

\* Mutant: the group that ends keeps its own totals.
ResetInnerAggregateValues(x, from) ==
  [x EXCEPT !.agg = [l \in DOMAIN x.agg |-> IF l > from THEN NoAggregate ELSE x.agg[l]]]

ResetAggregateValues(x, from) ==
  [x EXCEPT !.agg = [l \in DOMAIN x.agg |-> IF l >= from THEN NoAggregate ELSE x.agg[l]]]

SwapAggregateValues(x, upTo) ==
  [x EXCEPT !.agg     = [l \in DOMAIN x.agg |-> IF l <= upTo THEN x.prevAgg[l] ELSE x.agg[l]],
            !.prevAgg = [l \in DOMAIN x.agg |-> IF l <= upTo THEN x.agg[l] ELSE x.prevAgg[l]]]

\* Mutant: the footers of a group show the values of the record after it.
SwapNonConstValuesNot(x) == x

SwapNonConstValues(x) ==
  [x EXCEPT !.real = x.prev, !.prev = x.real, !.shown = x.prevShown, !.prevShown = x.shown]

EvalNonConstValues(x, record) ==
  [x EXCEPT !.real = record, !.prev = x.real, !.shown = x.page, !.prevShown = x.shown]

\* readNext, when there is a record left.
ReadNext(x) == CalcAggregateValues(EvalNonConstValues(x, read + 1), 0)

\* Mutant: the number of the section instead of that of its level.
ChangedGroupValueBySection(x) ==
  LET diff == {n \in DOMAIN report : /\ report[n].level > 0 /\ x.prev # 0
                 /\ records[x.prev].group[report[n].level] # records[x.real].group[report[n].level]}
  IN  IF diff = {} THEN 0 ELSE CHOOSE n \in diff : \A k \in diff : n <= k

Outermost(ls) == IF ls = {} THEN 0 ELSE CHOOSE l \in ls : \A k \in ls : l <= k

\* The outermost level whose value differs between the two records, or 0.
ChangedGroupValue(x) ==
  Outermost({l \in Levels \ {0} : x.prev # 0 /\ records[x.prev].group[l] # records[x.real].group[l]})

------------------------------------------------------------------------------
(* Sections and pages                                                        *)

\* Mutant: a section fits where its first line does.
SectionFitsAbove(x, s, next) == SizeY = 0 \/ x.y + next < SizeY - MarginBottom

SectionFits(x, s, next) == SizeY = 0 \/ x.y + s.sizeY + next <= SizeY - MarginBottom

\* Where startSection puts it.
StartSection(x, s) ==
  IF s.posY < 0 THEN SizeY - MarginBottom + s.posY
  ELSE IF s.posY > 0 THEN MarginTop + s.posY
  ELSE x.y + s.marginTop

\* What is left on paper of a section, for the properties to look at.
Line(x, s) == [section |-> s, page |-> x.page, y |-> StartSection(x, s), record |-> x.real,
               number |-> x.number, agg |-> x.agg[s.level], shown |-> x.shown]

\* startSection, printObject and endSection, and the end of printSection.  (The function of
\* one argument is for TLC to evaluate x once.)
Put(x, s) ==
  LET put == [z \in {x} |->
        [z EXCEPT !.paper = Append(@, Line(z, s)),
                  !.y = StartSection(z, s) + s.sizeY + s.marginBottom + s.growth,
                  !.newPage = @ /\ s.type \in {"ReportHeader", "PageHeader"}]]
  IN  put[x]

\* Mutant: each record decides anew whether the section is supressed.
RunFormulaAnew(x, s) ==
  [x EXCEPT !.supressed = IF s.maySupress /\ x.real # 0 /\ records[x.real].supress
                          THEN @ \cup {s} ELSE @ \ {s}]

\* FormulaBefore, which may supress its section because of the record.  It is not executed
\* again once it has: nothing but fixAllProperties, when print() begins, takes that back.
RunFormula(x, s) ==
  IF s.maySupress /\ x.real # 0 /\ records[x.real].supress
  THEN [x EXCEPT !.supressed = @ \cup {s}] ELSE x

Supressed(x, s) == s \in x.supressed

\* supressDup: nothing of the section changed since the record before.
Duplicated(x, s) == /\ s.supressDup /\ x.prev # 0 /\ x.real # 0
                    /\ records[x.prev].value = records[x.real].value

\* supIfBlank: all its values are zero, as those not read yet are.
Blank(x, s) == s.supIfBlank /\ (x.real = 0 \/ records[x.real].value = 0)

Prints(x, s) == s.visible /\ ~Supressed(x, s) /\ ~Duplicated(x, s) /\ ~Blank(x, s)

\* A page header or footer. They have neither PageBefore nor PageAfter.
PrintPageSection(x, s) ==
  IF s.type = "PageHeader" /\ ~s.inFirstPage /\ x.page = 1 THEN x
  ELSE LET z == RunFormula(x, s) IN IF Prints(z, s) THEN Put(z, s) ELSE z

PrintPageSections(x, ss) == FoldLeft(PrintPageSection, x, ss)

PrintPageFooters(x) ==
  PrintPageSections([x EXCEPT !.y = SizeY - MarginBottom - VisibleFooters], OfType("PageFooter"))

\* issueNewPage and updatePageNumbers.
IssueNewPage(x) ==
  [x EXCEPT !.y = MarginTop, !.page = @ + 1, !.newPage = TRUE,
            !.shown = x.page + 1, !.prevShown = x.shown]

PrintPageHeaders(x) == PrintPageSections(x, OfType("PageHeader"))

PrintPageFooterIfNeeded(x, s) ==
  IF (x.newPage /\ s.pageBefore) \/ SectionFits(x, s, FootersHeight)
  THEN x ELSE PrintPageHeaders(IssueNewPage(PrintPageFooters(x)))

\* printSection of the other sections, when they are printed ...
PutSection(x, s) ==
  LET started == IF s.pageBefore /\ ~x.newPage THEN IssueNewPage(PrintPageFooters(x))
                 ELSE PrintPageFooterIfNeeded(x, s)
      put     == Put(started, s)
  IN  IF s.pageAfter /\ ~started.newPage THEN PrintPageFooters(put) ELSE put

\* ... and whether they are or not.
PrintSection(x, s) ==
  LET z == RunFormula(x, s) IN IF Prints(z, s) THEN PutSection(z, s) ELSE z

\* A report footer goes to another page when twice its height does not fit.
PrintReportFooter(x, s) ==
  PrintSection(IF SectionFits(x, s, s.sizeY) THEN x ELSE IssueNewPage(x), s)

\* Details that are supressed take their record out of the aggregates.
PrintDetails(x, s) ==
  LET z == RunFormula(x, s)
  IN  IF Supressed(z, s) THEN SwapAggregateValues(z, G) ELSE PrintSection(x, s)

------------------------------------------------------------------------------
(* print(), one step per section, per record and per turn of printGroup      *)

NewState(d) ==
  [real |-> 0, prev |-> 0, number |-> 1, page |-> 1, shown |-> 0, prevShown |-> 0,
   agg |-> [l \in 0..GroupLevels(d) |-> NoAggregate],
   prevAgg |-> [l \in 0..GroupLevels(d) |-> NoAggregate],
   newPage |-> TRUE, y |-> MarginTop, supressed |-> {}, paper |-> <<>>]

InitReport ==
  /\ report \in Reports
  /\ records \in Inputs
  /\ read = 0 /\ phase = "idle" /\ toPrint = <<>> /\ level = 0 /\ changed = 0 /\ finished = FALSE
  /\ r = NewState(report)

\* print, startReport and startPage: the first record is read, if there is one.
StartReport ==
  /\ phase = "idle"
  /\ toPrint' = OfType("ReportHeader") \o OfType("PageHeader")
  /\ IF records = <<>>
     THEN /\ r' = EvalNonConstValues(r, 0)
          /\ phase' = "end"
          /\ UNCHANGED <<read, level>>
     ELSE /\ r' = ReadNext(r)
          /\ read' = 1
          /\ level' = 1
          /\ phase' = "group"
  /\ UNCHANGED <<report, records, changed, finished>>

\* Mutant: a section that is not printed is tried again.
PrintNextSectionOrWait ==
  /\ toPrint # <<>>
  /\ r' = PrintSection(r, Head(toPrint))
  /\ toPrint' = IF r' = r THEN toPrint ELSE Tail(toPrint)
  /\ UNCHANGED <<report, records, read, phase, level, changed, finished>>

\* The next of the sections that the function in course prints.
PrintNextSection ==
  /\ toPrint # <<>>
  /\ LET s == Head(toPrint)
     IN  r' = CASE s.type = "PageHeader"   -> PrintPageSection(r, s)
                [] s.type = "Details"      -> PrintDetails(r, s)
                [] s.type = "ReportFooter" -> PrintReportFooter(r, s)
                [] OTHER                   -> PrintSection(r, s)
  /\ toPrint' = Tail(toPrint)
  /\ UNCHANGED <<report, records, read, phase, level, changed, finished>>

\* A turn of the loop of printGroup that goes into the nested level.
PrintGroupHeaders ==
  /\ phase = "group" /\ toPrint = <<>> /\ level <= G
  /\ toPrint' = OfLevel("GroupHeader", level)
  /\ level' = level + 1
  /\ UNCHANGED <<report, records, read, phase, changed, finished, r>>

\* A turn of the inner loop: the details of a record ...
PrintRecord ==
  /\ phase = "group" /\ toPrint = <<>> /\ level = G + 1
  /\ toPrint' = OfType("Details")
  /\ phase' = "read"
  /\ UNCHANGED <<report, records, read, level, changed, finished, r>>

\* ... and the next record, if there is one.
ReadRecord ==
  LET more == read < Len(records)
      next == IF more THEN ReadNext(r) ELSE r
      grp  == ChangedGroupValue(next)
  IN  /\ phase = "read" /\ toPrint = <<>>
      /\ read' = IF more THEN read + 1 ELSE read
      /\ finished' = ~more
      /\ changed' = grp
      /\ IF more /\ grp = 0
         THEN /\ r' = [next EXCEPT !.number = @ + 1]
              /\ phase' = "group"
              /\ UNCHANGED level
         ELSE /\ r' = IF more THEN SwapAggregateValues(SwapNonConstValues(next), G) ELSE next
              /\ level' = G
              /\ phase' = IF G = 0 THEN "end" ELSE "return"
      /\ UNCHANGED <<report, records, toPrint>>

\* The call of the nested level returns: the footers of a group that has ended ...
PrintGroupFooters ==
  /\ phase = "return" /\ toPrint = <<>>
  /\ toPrint' = IF level >= changed \/ finished THEN OfLevel("GroupFooter", level) ELSE <<>>
  /\ phase' = "close"
  /\ UNCHANGED <<report, records, read, level, changed, finished, r>>

\* ... and the values of the next group, or the return to the level above.
CloseGroup ==
  LET swapped == SwapAggregateValues(SwapNonConstValues([r EXCEPT !.number = @ + 1]), level - 1)
  IN  /\ phase = "close" /\ toPrint = <<>>
      /\ r' = IF level = changed /\ ~finished
              THEN CalcAggregateValues(ResetAggregateValues(swapped, level), level)
              ELSE r
      /\ IF changed >= level /\ ~finished
         THEN phase' = "group" /\ UNCHANGED level
         ELSE /\ level' = level - 1
              /\ phase' = IF level = 1 THEN "end" ELSE "return"
      /\ UNCHANGED <<report, records, read, changed, finished, toPrint>>

\* The rest of internalPrint: report and page footers, endPage and endReport.
PrintReportFooters ==
  /\ phase = "end" /\ toPrint = <<>>
  /\ toPrint' = OfType("ReportFooter")
  /\ phase' = "last"
  /\ UNCHANGED <<report, records, read, level, changed, finished, r>>

EndReport ==
  /\ phase = "last" /\ toPrint = <<>>
  /\ r' = PrintPageFooters(r)
  /\ phase' = "done"
  /\ UNCHANGED <<report, records, read, level, changed, finished, toPrint>>

StepReport == \/ StartReport \/ PrintNextSection \/ PrintGroupHeaders \/ PrintRecord
              \/ ReadRecord \/ PrintGroupFooters \/ CloseGroup
              \/ PrintReportFooters \/ EndReport

NextReport == StepReport \/ (phase = "done" /\ UNCHANGED repVars)

FairReport == WF_repVars(StepReport)

SpecReport == InitReport /\ [][NextReport]_repVars /\ FairReport

------------------------------------------------------------------------------
(* What a report must look like, said of its records and not of the calls    *)

\* Types, and: what is printed was read, and every group of the report has its total.
TypeOKReport ==
  /\ report \in Reports /\ records \in Inputs
  /\ read \in 0..Len(records)
  /\ phase \in {"idle", "group", "read", "return", "close", "end", "last", "done"}
  /\ level \in 0..(G + 1) /\ changed \in 0..G /\ finished \in BOOLEAN
  /\ {r.real, r.prev} \subseteq 0..read
  /\ DOMAIN r.agg = 0..G /\ DOMAIN r.prevAgg = 0..G
  /\ r.supressed \subseteq Range(report)

\* The outermost group that record i begins, or 0.
Begins(i) ==
  IF i = 1 THEN 1
  ELSE Outermost({l \in Levels \ {0} : records[i].group[l] # records[i - 1].group[l]})

\* The first record of the group of level l that record i is in (level 0: the report).
FirstOf(l, i) ==
  CHOOSE f \in 1..i : /\ f = 1 \/ Begins(f) \in 1..l
                      /\ \A k \in (f + 1)..i : Begins(k) \notin 1..l

\* The records because of which a section has its turn.
Turns(s) ==
  CASE s.type = "GroupHeader" -> {k \in DOMAIN records : Begins(k) \in 1..s.level}
    [] s.type = "GroupFooter" ->
         {k \in DOMAIN records : k = Len(records) \/ Begins(k + 1) \in 1..s.level}
    [] OTHER -> DOMAIN records

\* One of them, up to record i, asked for the section to be supressed.
AskedToSupress(s, i) == s.maySupress /\ \E k \in Turns(s) : k <= i /\ records[k].supress

Shows(ss, i) == SelectSeq(ss, LAMBDA s :
  /\ s.visible
  /\ ~AskedToSupress(s, i)
  /\ ~(s.supressDup /\ i > 1 /\ records[i].value = records[i - 1].value)
  /\ ~(s.supIfBlank /\ records[i].value = 0))

Of(ss, i) == [n \in DOMAIN ss |-> <<ss[n], i, i>>]

\* What is printed because of record i: the headers of the groups it begins, its
\* details, and the footers of the groups it ends, from the innermost.
BecauseOf(i) ==
  LET heads == IF Begins(i) = 0 THEN <<>> ELSE [l \in 1..(G - Begins(i) + 1) |-> Begins(i) + l - 1]
      upTo  == IF i = Len(records) THEN 1 ELSE Begins(i + 1)
      feet  == IF upTo = 0 THEN <<>> ELSE [l \in 1..(G - upTo + 1) |-> G - l + 1]
      Each(ls, t) == FlattenSeq([n \in DOMAIN ls |-> OfLevel(t, ls[n])])
  IN  Of(Shows(Each(heads, "GroupHeader"), i), i) \o Of(Shows(OfType("Details"), i), i)
        \o Of(Shows(Each(feet, "GroupFooter"), i), i)

Body == SelectSeq(r.paper, LAMBDA x : x.section.type \in {"GroupHeader", "Details", "GroupFooter"})

\* Every record is printed once, in the order of the input, with the headers of the
\* groups it begins before it and the footers of those it ends after it, whatever the
\* values of the groups, and each line has the values and the number of its record; but for
\* blank and repeated sections, and those that a record before it supressed for good.
PrintedInOrder ==
  LET body     == [n \in DOMAIN Body |-> <<Body[n].section, Body[n].record, Body[n].number>>]
      expected == FlattenSeq([i \in 1..Len(records) |-> BecauseOf(i)])
  IN  /\ IsPrefix(body, expected)
      /\ phase = "done" => body = expected

\* A record that the details section that may be supressed takes out of the aggregates: the
\* one that supresses it and all that come after.
LeftOut(j) ==
  /\ \E k \in 1..j : records[k].supress
  /\ \E n \in DOMAIN report : report[n].type = "Details" /\ report[n].maySupress

\* The records that a section of level l printed because of record i gives account of.
Counted(l, i) == {j \in FirstOf(l, i)..i : ~LeftOut(j)}

Totals(js) ==
  [n   |-> Cardinality(js),
   sum |-> SumFunctionOnSet([j \in DOMAIN records |-> records[j].value], js),
   max |-> IF js = {} THEN 0 ELSE Max({records[j].value : j \in js})]

\* The footer of a group has the totals of the records of that group and of no other,
\* the ones whose details were supressed left out, although the record after the group was read
\* and added before the footer is printed; and the report footer has those of all.
TotalsOfTheGroup ==
  \A n \in DOMAIN r.paper :
    LET x == r.paper[n]
    IN  x.section.type \in {"GroupFooter", "ReportFooter"} /\ x.record # 0 =>
          x.agg = Totals(Counted(x.section.level, x.record))

\* Sections whose place and height are those of the section alone.
Compact(s) == s.posY = 0 /\ s.growth = 0 /\ s.marginTop = 0 /\ s.marginBottom = 0

\* What the headers take of a page, when they are printed one below the other.
Headers       == SelectSeq(report, LAMBDA s : s.type \in {"ReportHeader", "PageHeader"})
HeadersHeight == FoldLeft(LAMBDA h, s : h + s.marginTop + s.sizeY + s.marginBottom, 0, Headers)

\* A paged report in which there is room for each section between the headers and the footers.
Fits ==
  /\ SizeY # 0
  /\ \A n \in DOMAIN Headers : Headers[n].posY = 0 /\ Headers[n].growth = 0
  /\ \A n \in DOMAIN report :
       LET own == IF report[n].type \in {"GroupHeader", "Details", "GroupFooter"}
                  THEN report[n].sizeY ELSE 0
       IN  MarginTop + HeadersHeight + own + FootersHeight <= SizeY - MarginBottom

Paged == /\ Fits
         /\ \A n \in DOMAIN report : ~report[n].pageBefore /\ ~report[n].pageAfter
         /\ \A n \in DOMAIN report :
              report[n].type \in {"PageHeader", "PageFooter"} =>
                ~(report[n].maySupress \/ report[n].supressDup \/ report[n].supIfBlank)
         /\ \A n \in DOMAIN report : report[n].type = "ReportFooter" =>
              2 * report[n].sizeY <= FootersHeight /\ \A m \in DOMAIN report : Compact(report[m])

EachPageComplete ==
  phase = "done" /\ Paged =>
    \A p \in 1..r.page :
      LET on(t) == SelectSeq(r.paper, LAMBDA x : x.page = p /\ x.section.type = t)
          names(ss) == [n \in DOMAIN ss |-> ss[n].section]
      IN  /\ names(on("PageFooter")) = SelectSeq(OfType("PageFooter"), LAMBDA s : s.visible)
          /\ names(on("PageHeader")) =
               SelectSeq(OfType("PageHeader"), LAMBDA s : s.visible /\ (s.inFirstPage \/ p # 1))

FootersAreFree ==
  phase = "done" /\ Fits => \A n \in DOMAIN r.paper :
    LET x == r.paper[n]
    IN  x.section.type \notin {"PageFooter", "ReportFooter"} /\ x.section.posY = 0 =>
          x.y - x.section.marginTop + x.section.sizeY + FootersHeight <= SizeY - MarginBottom

NothingOverlaps ==
  phase = "done" => \A n \in 2..Len(r.paper) :
    LET x == r.paper[n] above == r.paper[n - 1]
    IN  x.page = above.page /\ x.section.type # "PageFooter" /\ x.section.posY = 0 =>
          above.y + above.section.sizeY + above.section.growth <= x.y

NumbersInHeaders ==
  phase = "done" => \A n \in DOMAIN r.paper :
    r.paper[n].section.type = "PageHeader" => r.paper[n].shown = r.paper[n].page

\* The pages that newPage and endPage make are whole.  Where there is room for each section
\* between headers and footers, a section that has no place of its own reaches the footers of
\* its page by no more than the margin above it and what its texts grow, which nobody looks at,
\* and is below all that the one before it has grown to; a page header shows the number of its
\* page; and in a report whose sections do not ask for pages, whose headers and footers are
\* always printed, and whose report footers, if any, are no higher than half the page footers,
\* with no margins at all, each page has its headers and its footers once.
PagesAreWhole == EachPageComplete /\ FootersAreFree /\ NothingOverlaps /\ NumbersInHeaders

\* The report ends.
ReportEnds == <>(phase = "done")

===============================================================================
