--------------------------------- MODULE Fechas ---------------------------------
(***************************************************************************)
(* Dates (gongdate.cpp): a date is the number of its Julian day, and is    *)
(* turned into a day, a month and a year, and back, with the formulas of   *)
(* "Numerical Recipes", here in whole numbers.  The date of an invoice     *)
(* runs from day to day, as operator + makes it, beside a calendar that    *)
(* counts days and months; with it the quarter that its FECHAIVA has to be *)
(* in (fechaivabehavior.cpp).                                              *)
(***************************************************************************)
EXTENDS Integers

CONSTANTS
  Comienzos,  \* the dates that may be typed
  MaxDias,    \* how far a date runs
  Desfases    \* how far FECHAIVA may be from the date

\* The calendar.
Bisiesto(y) == y % 4 = 0 /\ (y % 100 # 0 \/ y % 400 = 0)

DiasDelMes(y, m) == CASE m \in {4, 6, 9, 11} -> 30
                      [] m = 2 -> IF Bisiesto(y) THEN 29 ELSE 28
                      [] OTHER -> 31

ASSUME FechasAssumption ==
  /\ MaxDias \in Nat /\ Desfases \subseteq Int
  /\ \A c \in Comienzos : c.y \in Nat /\ c.m \in 1 .. 12 /\ c.d \in 1 .. DiasDelMes(c.y, c.m)

VARIABLES
  calendario,  \* the date: year, month and day, and the days since it was typed
  fecha        \* the Date: a Julian day

varFechas == <<calendario, fecha>>

BadDate == -1

IsLeap(y) == y % 4 = 0 /\ y % 4000 # 0 /\ (y % 100 # 0 \/ y % 400 = 0)

DaysInMonth(y, m) == IF m = 2 /\ IsLeap(y) THEN 29
                     ELSE <<31, 28, 31, 30, 31, 30, 31, 31, 30, 31, 30, 31>>[m]

CheckForValidDate(y, m, d) == y >= 1 /\ m \in 1 .. 12 /\ d <= DaysInMonth(y, m)

\* The Julian day of a date; from 15 October 1582 on the Gregorian correction is added.
DMYtoJulian(y, m, d) ==
  LET jy  == IF m > 2 THEN y ELSE y - 1
      jm  == IF m > 2 THEN m + 1 ELSE m + 13
      jul == (1461 * jy) \div 4 + (306001 * jm) \div 10000 + d + 1720995
      ja  == jy \div 100
  IN  IF ~CheckForValidDate(y, m, d) THEN BadDate
      ELSE IF d + 31 * (m + 12 * y) >= 15 + 31 * (10 + 12 * 1582) THEN jul + 2 - ja + ja \div 4
      ELSE jul

JulianToDMY(jul) ==
  LET alpha == (4 * (jul - 1867216) - 1) \div 146097
      ja == IF jul >= 2299161 THEN jul + 1 + alpha - alpha \div 4 ELSE jul
      jb == ja + 1524
      jc == 6680 + (100 * (jb - 2439870) - 12210) \div 36525
      jd == 365 * jc + jc \div 4
      je == ((jb - jd) * 10000) \div 306001
      m  == IF je - 1 > 12 THEN je - 13 ELSE je - 1
  IN  [y |-> IF m > 2 THEN jc - 4716 ELSE jc - 4715, m |-> m, d |-> jb - jd - (306001 * je) \div 10000]

FirstDayOfMonth(jul) == LET f == JulianToDMY(jul) IN DMYtoJulian(f.y, f.m, 1)

Quarter(jul) == (JulianToDMY(jul).m - 1) \div 3 + 1

\* Mutant: 90 days, which are enough for the first quarter.
FechaIvaA90Dias(f, iva) ==
  LET primero   == DMYtoJulian(JulianToDMY(f).y, (Quarter(f) - 1) * 3 + 1, 1)
      siguiente == FirstDayOfMonth(primero + 90)
  IN  primero <= iva /\ iva < siguiente

\* Whether FECHAIVA is accepted: 93 days after a quarter begins the next one has begun.
FechaIvaValida(f, iva) ==
  LET primero   == DMYtoJulian(JulianToDMY(f).y, (Quarter(f) - 1) * 3 + 1, 1)
      siguiente == FirstDayOfMonth(primero + 93)
  IN  primero <= iva /\ iva < siguiente

------------------------------------------------------------------------------

\* The day after, by the calendar.
Siguiente(c) ==
  LET dias == DiasDelMes(c.y, c.m)
  IN  CASE c.d < dias -> [c EXCEPT !.d = @ + 1]
        [] c.d = dias /\ c.m < 12 -> [c EXCEPT !.d = 1, !.m = @ + 1]
        [] OTHER -> [c EXCEPT !.d = 1, !.m = 1, !.y = @ + 1]

EscribeFecha(c) ==
  /\ calendario' = [y |-> c.y, m |-> c.m, d |-> c.d, n |-> 0]
  /\ fecha' = DMYtoJulian(c.y, c.m, c.d)

InitFechas ==
  \E c \in Comienzos : /\ calendario = [y |-> c.y, m |-> c.m, d |-> c.d, n |-> 0]
                       /\ fecha = DMYtoJulian(c.y, c.m, c.d)

\* One day more.
UnDiaMas ==
  /\ calendario.n < MaxDias
  /\ calendario' = [Siguiente(calendario) EXCEPT !.n = @ + 1]
  /\ fecha' = fecha + 1

NextFechas == UnDiaMas \/ \E c \in Comienzos : EscribeFecha(c)

SpecFechas == InitFechas /\ [][NextFechas]_varFechas

------------------------------------------------------------------------------

\* Counting days with operator + never leaves the calendar: the Julian day turns into the date and the
\* date into the Julian day, over the ends of months, leap years and centuries; and the FECHAIVA
\* accepted for an invoice are those of its quarter, the first and the last day included.
FechasAlDia ==
  /\ DMYtoJulian(calendario.y, calendario.m, calendario.d) = fecha
  /\ JulianToDMY(fecha) = [y |-> calendario.y, m |-> calendario.m, d |-> calendario.d]
  /\ \A k \in Desfases :
       LET iva == JulianToDMY(fecha + k)
       IN  FechaIvaValida(fecha, fecha + k) <=>
             iva.y = calendario.y /\ (iva.m - 1) \div 3 = (calendario.m - 1) \div 3
=================================================================================
