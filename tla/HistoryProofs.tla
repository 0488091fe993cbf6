----------------------------- MODULE HistoryProofs -----------------------------
(***************************************************************************)
(* Proofs about Calendar and VehicleHistory, for every calendar of         *)
(* moments, every set of writers and every bound.                          *)
(***************************************************************************)
EXTENDS VehicleHistory, FiniteSetTheorems, TLAPS

-----------------------------------------------------------------------------
\* Every month has 28 to 31 days, and December has them all.
LEMMA MonthLengths ==
    ASSUME NEW m \in Nat
    PROVE  DaysIn(m) \in 28..31 /\ (DaysIn(m) < 31 => DaysIn(m + 1) \in 28..31)
  BY DEF DaysIn

\* What AddDate gives is a date, in the month asked for or, at most three days
\* into it, in the next.
LEMMA AddMonthsIsDate ==
    ASSUME NEW d \in Date, NEW n \in Nat
    PROVE  /\ AddMonths(d, n) \in Date
           /\ \/ AddMonths(d, n) = [month |-> d.month + n, day |-> d.day]
              \/ /\ AddMonths(d, n).month = d.month + n + 1
                 /\ AddMonths(d, n).day \in 1..3 /\ d.day > 28
<1> DEFINE m == d.month + n
<1>1. d.month \in Nat /\ d.day \in 1..31 /\ m \in Nat /\ m + 1 \in Nat
  BY DEF Date
<1>2. DaysIn(m) \in 28..31 /\ DaysIn(m + 1) \in 28..31
  BY <1>1, MonthLengths
<1>3. CASE d.day <= DaysIn(m)
  <2>1. AddMonths(d, n) = [month |-> m, day |-> d.day]
    BY <1>3 DEF AddMonths
  <2> HIDE DEF m
  <2>2. [month |-> m, day |-> d.day] \in Date
    BY <1>1, <1>3 DEF Date
  <2> QED
    BY <2>1, <2>2 DEF m
<1>4. CASE d.day > DaysIn(m)
  <2> DEFINE e == d.day - DaysIn(m)
  <2>1. AddMonths(d, n) = [month |-> m + 1, day |-> e]
    BY <1>1, <1>2, <1>4 DEF AddMonths
  <2>2. e \in 1..3 /\ d.day > 28
    BY <1>1, <1>2, <1>4
  <2>3. e <= DaysIn(m + 1)
    BY <1>2, <2>2
  <2> HIDE DEF m, e
  <2>4. [month |-> m + 1, day |-> e] \in Date
    BY <1>1, <2>2, <2>3 DEF Date
  <2> QED
    BY <2>1, <2>2, <2>4 DEF m
<1> QED
  BY <1>1, <1>2, <1>3, <1>4

\* A warranty issued at the same moment for more months never ends earlier or on
\* the same day, whatever day it was issued on (NewWarranty, AddDate).
THEOREM LongerIsLater ==
    ASSUME NEW d \in Date, NEW n \in Nat, NEW k \in Nat, n < k
    PROVE  Before(AddMonths(d, n), AddMonths(d, k))
<1> DEFINE a == AddMonths(d, n)
           b == AddMonths(d, k)
<1>1. d.month \in Nat /\ d.day \in 1..31
  BY DEF Date
<1>2. \/ a = [month |-> d.month + n, day |-> d.day]
      \/ a.month = d.month + n + 1 /\ a.day \in 1..3 /\ d.day > 28
  BY AddMonthsIsDate
<1>3. \/ b = [month |-> d.month + k, day |-> d.day]
      \/ b.month = d.month + k + 1 /\ b.day \in 1..3 /\ d.day > 28
  BY AddMonthsIsDate
<1> HIDE DEF a, b
<1>4. Before(a, b)
  BY <1>1, <1>2, <1>3 DEF Before
<1> QED
  BY <1>4 DEF a, b

\* A warranty is valid at the moment it is issued, which the answer of Issue says
\* without looking (WarrantyHandler.Issue).
THEOREM IssuedIsValid ==
    ASSUME NEW at \in Moment, NEW coverage \in Nat \ {0}
    PROVE  Earlier(Instants[at], Expires(at, coverage))
<1> DEFINE d == Instants[at].date
<1>1. Instants[at] \in Instant
  BY HistoryAssumption DEF Moment
<1>2. d \in Date
  BY <1>1 DEF Instant
<1>3. Before(AddMonths(d, 0), AddMonths(d, coverage))
  BY <1>2, LongerIsLater
<1>4. AddMonths(d, 0) = d
  <2>1. d = [month |-> d.month, day |-> d.day] /\ d.month \in Nat /\ d.day <= DaysIn(d.month)
    BY <1>2 DEF Date
  <2> HIDE DEF d
  <2>2. d.month + 0 = d.month
    BY <2>1
  <2> QED
    BY <2>1, <2>2 DEF AddMonths
<1> QED
  BY <1>3, <1>4 DEF Expires, Earlier

-----------------------------------------------------------------------------
\* The days before the first of January of a year.
YearStart(y) == 365 * y + (y + 3) \div 4 - (y + 99) \div 100 + (y + 399) \div 400

\* A leap year has a day more.
LEMMA YearLengths ==
    ASSUME NEW y \in Nat
    PROVE  /\ YearStart(y) \in Nat
           /\ YearStart(y + 1) = YearStart(y) + 365 + (IF Leap(y) THEN 1 ELSE 0)
           /\ YearStart(y) + 365 <= YearStart(y + 1)
  BY DEF YearStart, Leap

\* A later year does not begin earlier.
LEMMA YearsGrow ==
    ASSUME NEW y \in Nat, NEW z \in Nat, y <= z
    PROVE  YearStart(y) <= YearStart(z)
<1>1. (y + 3) \div 4 <= (z + 3) \div 4 /\ (y + 399) \div 400 <= (z + 399) \div 400
  OBVIOUS
<1>2. (z + 99) \div 100 - (y + 99) \div 100 <= z - y
  OBVIOUS
<1> QED
  BY <1>1, <1>2 DEF YearStart

\* The month after one of a year is in the year, December's in the next.
LEMMA MonthOfYear ==
    ASSUME NEW m \in Nat
    PROVE  /\ m \div 12 \in Nat /\ m % 12 \in 0..11 /\ m = 12 * (m \div 12) + (m % 12)
           /\ m % 12 < 11 => (m + 1) \div 12 = m \div 12 /\ (m + 1) % 12 = (m % 12) + 1
           /\ m % 12 = 11 => (m + 1) \div 12 = m \div 12 + 1 /\ (m + 1) % 12 = 0
<1>1. m \div 12 \in Nat /\ m % 12 \in 0..11
  OBVIOUS
<1>2. m = 12 * (m \div 12) + (m % 12)
  OBVIOUS
<1>3. m % 12 < 11 => (m + 1) \div 12 = m \div 12 /\ (m + 1) % 12 = (m % 12) + 1
  OBVIOUS
<1>4. m % 12 = 11 => (m + 1) \div 12 = m \div 12 + 1 /\ (m + 1) % 12 = 0
  OBVIOUS
<1> QED
  BY <1>1, <1>2, <1>3, <1>4

\* The days of an ordinary year before its month k.
DaysOfMonths(k) == <<0, 31, 59, 90, 120, 151, 181, 212, 243, 273, 304, 334>>[k + 1]

LEMMA DaysOfMonthsAre ==
    /\ DaysOfMonths(0) = 0 /\ DaysOfMonths(1) = 31 /\ DaysOfMonths(2) = 59
    /\ DaysOfMonths(3) = 90 /\ DaysOfMonths(4) = 120 /\ DaysOfMonths(5) = 151
    /\ DaysOfMonths(6) = 181 /\ DaysOfMonths(7) = 212 /\ DaysOfMonths(8) = 243
    /\ DaysOfMonths(9) = 273 /\ DaysOfMonths(10) = 304 /\ DaysOfMonths(11) = 334
  BY DEF DaysOfMonths

LEMMA DaysBeforeIs ==
    ASSUME NEW m \in Nat
    PROVE  DaysBefore(m) = YearStart(m \div 12) + DaysOfMonths(m % 12)
                           + (IF m % 12 >= 2 /\ Leap(m \div 12) THEN 1 ELSE 0)
  BY DEF DaysBefore, YearStart, DaysOfMonths

\* A month begins when the one before it is over.
LEMMA NextMonth ==
    ASSUME NEW m \in Nat
    PROVE  DaysBefore(m) \in Nat /\ DaysBefore(m + 1) = DaysBefore(m) + DaysIn(m)
<1> DEFINE y == m \div 12
           k == m % 12
<1>1. y \in Nat /\ k \in 0..11 /\ YearStart(y) \in Nat
  BY MonthOfYear, YearLengths
<1>2. DaysBefore(m) = YearStart(y) + DaysOfMonths(k) + (IF k >= 2 /\ Leap(y) THEN 1 ELSE 0)
  BY DaysBeforeIs
<1>3. DaysIn(m) = IF k = 1 THEN IF Leap(y) THEN 29 ELSE 28
                  ELSE IF k \in {3, 5, 8, 10} THEN 30 ELSE 31
  BY DEF DaysIn
<1>4. CASE k < 11
  <2>1. DaysBefore(m + 1) = YearStart(y) + DaysOfMonths(k + 1)
                            + (IF k + 1 >= 2 /\ Leap(y) THEN 1 ELSE 0)
    BY <1>4, MonthOfYear, DaysBeforeIs, m + 1 \in Nat
  <2> HIDE DEF y, k
  <2> QED
    BY <1>1, <1>2, <1>3, <1>4, <2>1, DaysOfMonthsAre
<1>5. CASE k = 11
  <2>1. DaysBefore(m + 1) = YearStart(y + 1) + DaysOfMonths(0)
    <3>1. m + 1 \in Nat /\ (m + 1) \div 12 = y + 1 /\ (m + 1) % 12 = 0
      BY <1>5, MonthOfYear
    <3>2. DaysBefore(m + 1) = YearStart(y + 1) + DaysOfMonths(0)
                              + (IF 0 >= 2 /\ Leap(y + 1) THEN 1 ELSE 0)
      BY <3>1, DaysBeforeIs
    <3>3. DaysOfMonths(0) = 0 /\ YearStart(y + 1) \in Nat
      BY <1>1, DaysOfMonthsAre, YearLengths, y + 1 \in Nat
    <3> QED
      BY <3>2, <3>3
  <2> HIDE DEF y, k
  <2> QED
    BY <1>1, <1>2, <1>3, <1>5, <2>1, DaysOfMonthsAre, YearLengths
<1> QED
  BY <1>1, <1>4, <1>5

\* A later month does not begin earlier.
LEMMA MonthsGrow ==
    ASSUME NEW m \in Nat, NEW n \in Nat, m <= n
    PROVE  DaysBefore(m) <= DaysBefore(n)
<1> DEFINE y == m \div 12
           z == n \div 12
           j == m % 12
           k == n % 12
           a == IF j >= 2 /\ Leap(y) THEN 1 ELSE 0
           b == IF k >= 2 /\ Leap(z) THEN 1 ELSE 0
           c == DaysOfMonths(j)
           d == DaysOfMonths(k)
<1>1. /\ y \in Nat /\ z \in Nat /\ j \in 0..11 /\ k \in 0..11
      /\ y < z \/ (y = z /\ j <= k)
  BY MonthOfYear
<1>2. /\ DaysBefore(m) = YearStart(y) + c + a
      /\ DaysBefore(n) = YearStart(z) + d + b
  BY DaysBeforeIs
<1> HIDE DEF y, z, j, k
<1>3. c \in 0..334 /\ d \in 0..334 /\ (j <= k => c <= d)
  <2>1. 0..11 = {0, 1, 2, 3, 4, 5, 6, 7, 8, 9, 10, 11}
    OBVIOUS
  <2> QED
    BY <1>1, <2>1, DaysOfMonthsAre
<1>4. YearStart(y) \in Nat /\ YearStart(z) \in Nat
  BY <1>1, YearLengths
<1>5. a \in 0..1 /\ b \in 0..1 /\ (y = z /\ j <= k => a <= b)
  BY <1>1 DEF Leap
<1> HIDE DEF a, b, c, d
<1>6. CASE y = z /\ j <= k
  BY <1>2, <1>3, <1>4, <1>5, <1>6
<1>7. CASE y < z
  <2>1. y + 1 \in Nat /\ y + 1 <= z
    BY <1>1, <1>7
  <2>2. YearStart(y + 1) <= YearStart(z)
    BY <1>1, <2>1, YearsGrow
  <2>3. YearStart(y + 1) \in Nat /\ YearStart(y) + 365 <= YearStart(y + 1)
    BY <1>1, <2>1, YearLengths
  <2> QED
    BY <1>2, <1>3, <1>4, <1>5, <2>2, <2>3
<1> QED
  BY <1>1, <1>6, <1>7

\* A date is before another exactly when fewer days have passed.
LEMMA BeforeCountsDays ==
    ASSUME NEW d \in Date, NEW e \in Date
    PROVE  Before(d, e) <=> DayNumber(d) < DayNumber(e)
<1>1. /\ d.month \in Nat /\ d.day \in 1..31 /\ d.day <= DaysIn(d.month)
      /\ e.month \in Nat /\ e.day \in 1..31 /\ e.day <= DaysIn(e.month)
  BY DEF Date
<1>2. /\ DaysBefore(d.month) \in Nat /\ DaysBefore(e.month) \in Nat
      /\ DaysBefore(d.month + 1) = DaysBefore(d.month) + DaysIn(d.month)
      /\ DaysBefore(e.month + 1) = DaysBefore(e.month) + DaysIn(e.month)
      /\ DaysIn(d.month) \in Nat /\ DaysIn(e.month) \in Nat
  BY <1>1, NextMonth DEF DaysIn
<1>3. d.month + 1 <= e.month => DaysBefore(d.month + 1) <= DaysBefore(e.month)
  BY <1>1, MonthsGrow
<1>4. e.month + 1 <= d.month => DaysBefore(e.month + 1) <= DaysBefore(d.month)
  BY <1>1, MonthsGrow
<1>5. DayNumber(d) = DaysBefore(d.month) + d.day /\ DayNumber(e) = DaysBefore(e.month) + e.day
  BY DEF DayNumber
<1>6. CASE d.month < e.month
  <2>1. DayNumber(d) < DayNumber(e)
    BY <1>1, <1>2, <1>3, <1>5, <1>6
  <2> QED
    BY <1>6, <2>1 DEF Before
<1>7. CASE e.month < d.month
  <2>1. ~ (DayNumber(d) < DayNumber(e))
    BY <1>1, <1>2, <1>4, <1>5, <1>7
  <2>2. ~ Before(d, e)
    BY <1>1, <1>7 DEF Before
  <2> QED
    BY <2>1, <2>2
<1>8. CASE d.month = e.month
  <2>1. DayNumber(d) < DayNumber(e) <=> d.day < e.day
    BY <1>1, <1>2, <1>5, <1>8
  <2> QED
    BY <1>1, <1>8, <2>1 DEF Before
<1> QED
  BY <1>1, <1>6, <1>7, <1>8

LEMMA DaysAreCounted ==
    ASSUME NEW d \in Date
    PROVE  DayNumber(d) \in Nat
<1>1. d.month \in Nat /\ d.day \in Nat
  BY DEF Date
<1> QED
  BY <1>1, NextMonth DEF DayNumber

\* An instant is earlier than another exactly when seconds are left from one to
\* the other.
LEMMA EarlierCountsSeconds ==
    ASSUME NEW s \in Instant, NEW t \in Instant
    PROVE  Earlier(s, t) <=>
              DaySeconds * (DayNumber(t.date) - DayNumber(s.date)) + t.second - s.second > 0
<1> DEFINE d == DayNumber(s.date)
           e == DayNumber(t.date)
<1>0. DaySeconds \in Nat
  BY DEF DaySeconds
<1>1. /\ s.date \in Date /\ t.date \in Date
      /\ s.second \in Nat /\ s.second < DaySeconds
      /\ t.second \in Nat /\ t.second < DaySeconds
  <2>1. \A x \in Instant : x.date \in Date /\ x.second \in 0..(DaySeconds - 1)
    BY DEF Instant
  <2>2. \A n \in 0..(DaySeconds - 1) : n \in Nat /\ n < DaySeconds
    BY <1>0
  <2> QED
    BY <2>1, <2>2
<1>2. d \in Nat /\ e \in Nat
  BY <1>1, DaysAreCounted
<1>3. /\ Before(s.date, t.date) <=> d < e
      /\ Before(t.date, s.date) <=> e < d
  BY <1>1, BeforeCountsDays
<1>4. d = e <=> s.date = t.date
  <2>1. ASSUME d = e PROVE s.date = t.date
    <3>1. ~ Before(s.date, t.date) /\ ~ Before(t.date, s.date)
      BY <1>2, <1>3, <2>1
    <3>2. \A x \in Date : x = [month |-> x.month, day |-> x.day] /\ x.month \in Nat /\ x.day \in Nat
      BY DEF Date
    <3>3. s.date.month = t.date.month /\ s.date.day = t.date.day
      BY <1>1, <3>1, <3>2 DEF Before
    <3> QED
      BY <1>1, <3>2, <3>3
  <2> QED
    BY <2>1
<1> HIDE DEF d, e
<1>5. DaySeconds * (e - d) + t.second - s.second > 0 <=> d < e \/ (d = e /\ s.second < t.second)
  BY <1>1, <1>2 DEF DaySeconds
<1>6. Earlier(s, t) <=> d < e \/ (d = e /\ s.second < t.second)
  BY <1>3, <1>4 DEF Earlier
<1> QED
  BY <1>5, <1>6 DEF d, e

\* AddDate gives the same day of a later month, counted in days: what a month is
\* too short for is carried over, never lost (NewWarranty).
THEOREM AddMonthsCountsDays ==
    ASSUME NEW d \in Date, NEW n \in Nat
    PROVE  DayNumber(AddMonths(d, n)) = DaysBefore(d.month + n) + d.day
<1>1. d.month + n \in Nat /\ d.day \in 1..31
  BY DEF Date
<1>2. /\ DaysBefore(d.month + n) \in Nat /\ DaysIn(d.month + n) \in Nat
      /\ DaysBefore(d.month + n + 1) = DaysBefore(d.month + n) + DaysIn(d.month + n)
  BY <1>1, NextMonth DEF DaysIn
<1> QED
  BY <1>1, <1>2 DEF AddMonths, DayNumber

-----------------------------------------------------------------------------
\* What a request is about to insert agrees with what it has read: its cause is
\* in the table and dated no later.
WritersKnow ==
    \A w \in Writers :
        writer[w] # Idle =>
            LET fact == writer[w].fact
            IN  /\ fact.at <= moment
                /\ fact.cause # 0 =>
                       fact.cause \in 1..Len(facts) /\ facts[fact.cause].at <= fact.at

\* The inductive invariant: nothing is dated in the future either.
HistoryInv ==
    /\ TypeOK
    /\ CausesAreOlder
    /\ \A i \in 1..Len(facts) : facts[i].at <= moment
    /\ WritersKnow

LEMMA HistoryInit == Init => HistoryInv
<1> SUFFICES ASSUME Init PROVE HistoryInv
  OBVIOUS
<1>1. Len(Instants) \in Nat \ {0} /\ MaxFacts \in Nat
  BY HistoryAssumption
<1>2. facts = <<>> /\ parts = <<>> /\ moment = 1 /\ writer = [w \in Writers |-> Idle]
  BY DEF Init
<1>3. TypeOK
  BY <1>1, <1>2 DEF TypeOK, Moment
<1> QED
  BY <1>2, <1>3 DEF HistoryInv, CausesAreOlder, WritersKnow

\* A row that is built is of the type of its table.
LEMMA NewFactIsFact ==
    ASSUME NEW kind \in Kind, NEW cause \in FactId \cup {0}, NEW at \in Moment,
           NEW n \in PartCounts \cup {0}, NEW coverage \in Coverages \cup {0},
           kind = "WARRANTY" <=> coverage # 0
    PROVE  NewFact(kind, cause, at, n, coverage) \in Fact
<1>1. CASE kind = "WARRANTY"
  <2>1. coverage \in Nat /\ Instants[at] \in Instant
    BY <1>1, HistoryAssumption DEF Moment
  <2>2. Expires(at, coverage) \in Instant
    BY <2>1, AddMonthsIsDate DEF Expires, Instant
  <2> QED
    BY <1>1, <2>2 DEF NewFact, Fact
<1>2. CASE kind # "WARRANTY"
  BY <1>2 DEF NewFact, Fact
<1> QED
  BY <1>1, <1>2

LEMMA PrepareKeepsInv ==
    ASSUME HistoryInv, NEW v \in Writers, NEW kind \in Kind, Prepare(v, kind)
    PROVE  HistoryInv'
<1>1. PICK cause \in DOMAIN facts \cup {0},
           n \in PartCounts \cup {0}, coverage \in Coverages \cup {0} :
        /\ cause # 0 => facts[cause].kind \in CauseOf[kind]
        /\ kind = "WARRANTY" <=> coverage # 0
        /\ writer' = [writer EXCEPT ![v] =
              [step |-> "save", fact |-> NewFact(kind, cause, moment, n, coverage)]]
  BY DEF Prepare, Clock
<1> DEFINE fact == NewFact(kind, cause, moment, n, coverage)
<1>2. UNCHANGED <<moment, facts, parts>>
  BY DEF Prepare
<1>3. facts \in Seq(Fact) /\ Len(facts) \in 0..MaxFacts /\ DOMAIN facts = 1..Len(facts)
      /\ MaxFacts \in Nat
  BY HistoryAssumption DEF HistoryInv, TypeOK
<1>4. cause \in FactId \cup {0} /\ moment \in Moment
  BY <1>3 DEF FactId, HistoryInv, TypeOK
<1>5. fact \in Fact /\ fact.at = moment /\ fact.cause = cause
  BY <1>1, <1>4, NewFactIsFact DEF NewFact
<1> HIDE DEF fact
<1>6. writer' = [writer EXCEPT ![v] = [step |-> "save", fact |-> fact]]
  BY <1>1 DEF fact
<1>7. \A w \in Writers : writer'[w] = writer[w] \/ writer'[w] = [step |-> "save", fact |-> fact]
  BY <1>6 DEF HistoryInv, TypeOK
<1>8. TypeOK'
  BY <1>2, <1>5, <1>7 DEF HistoryInv, TypeOK
<1>9. WritersKnow'
  <2> SUFFICES ASSUME NEW w \in Writers, writer'[w] # Idle
               PROVE  LET f == writer'[w].fact
                      IN  /\ f.at <= moment
                          /\ f.cause # 0 =>
                                 f.cause \in 1..Len(facts) /\ facts[f.cause].at <= f.at
    BY <1>2 DEF WritersKnow
  <2>1. CASE writer'[w] = writer[w]
    BY <2>1 DEF HistoryInv, WritersKnow
  <2>2. CASE writer'[w] = [step |-> "save", fact |-> fact]
    <3>1. moment \in Nat
      BY <1>4, HistoryAssumption DEF Moment
    <3>2. cause # 0 => cause \in 1..Len(facts) /\ facts[cause].at <= moment
      BY <1>1, <1>3 DEF HistoryInv
    <3> QED
      BY <1>5, <2>2, <3>1, <3>2
  <2> QED
    BY <1>7, <2>1, <2>2
<1> QED
  BY <1>2, <1>8, <1>9 DEF HistoryInv, CausesAreOlder

LEMMA SaveKeepsInv ==
    ASSUME HistoryInv, NEW v \in Writers, Save(v)
    PROVE  HistoryInv'
<1> DEFINE fact == writer[v].fact
<1>1. /\ writer[v].step = "save" /\ Len(facts) < MaxFacts
      /\ facts' = Append(facts, fact) /\ parts' = Append(parts, fact.parts)
      /\ writer' = [writer EXCEPT ![v] = Idle] /\ UNCHANGED moment
  BY DEF Save
<1>2. writer[v] # Idle /\ fact \in Fact
  BY <1>1 DEF Idle, HistoryInv, TypeOK
<1>3. /\ fact.at <= moment
      /\ fact.cause # 0 => fact.cause \in 1..Len(facts) /\ facts[fact.cause].at <= fact.at
  BY <1>2 DEF HistoryInv, WritersKnow
<1>4. fact.parts \in Nat
  <2> HIDE DEF fact
  <2>1. fact.parts \in PartCounts \cup {0}
    BY <1>2 DEF Fact
  <2>2. \A n \in PartCounts \cup {0} : n \in Nat
    BY HistoryAssumption
  <2> QED
    BY <2>1, <2>2
<1>5. /\ facts \in Seq(Fact) /\ parts \in Seq(Nat) /\ Len(parts) = Len(facts)
      /\ Len(facts) \in Nat /\ MaxFacts \in Nat
  BY HistoryAssumption DEF HistoryInv, TypeOK
<1> HIDE DEF fact
<1>6. /\ facts' \in Seq(Fact) /\ Len(facts') = Len(facts) + 1
      /\ facts'[Len(facts) + 1] = fact
      /\ \A i \in 1..Len(facts) : facts'[i] = facts[i]
      /\ parts' \in Seq(Nat) /\ Len(parts') = Len(facts')
  BY <1>1, <1>2, <1>4, <1>5
<1>7. \A w \in Writers : writer'[w] = Idle \/ writer'[w] = writer[w]
  BY <1>1 DEF HistoryInv, TypeOK
<1>8. TypeOK'
  BY <1>1, <1>5, <1>6, <1>7 DEF HistoryInv, TypeOK
<1>9. CausesAreOlder'
  <2> SUFFICES ASSUME NEW i \in 1..Len(facts'), facts'[i].cause # 0
               PROVE  /\ facts'[i].cause < i
                      /\ facts'[facts'[i].cause].at <= facts'[i].at
    BY DEF CausesAreOlder
  <2>1. CASE i = Len(facts) + 1
    BY <1>3, <1>5, <1>6, <2>1
  <2>2. CASE i \in 1..Len(facts)
    <3>1. facts'[i] = facts[i] /\ facts[i] \in Fact /\ facts[i].cause < i
          /\ facts[facts[i].cause].at <= facts[i].at
      BY <1>5, <1>6, <2>2 DEF HistoryInv, CausesAreOlder
    <3>2. facts[i].cause \in Nat
      BY <1>5, <3>1 DEF Fact, FactId
    <3>3. facts[i].cause \in 1..Len(facts)
      <4>1. Len(facts) \in Nat /\ facts[i].cause # 0
        BY <1>5, <3>1
      <4> QED
        BY <2>2, <3>1, <3>2, <4>1
    <3> QED
      BY <1>6, <3>1, <3>3
  <2> QED
    BY <1>5, <1>6, <2>1, <2>2
<1>10. \A i \in 1..Len(facts') : facts'[i].at <= moment'
  BY <1>1, <1>3, <1>5, <1>6 DEF HistoryInv
<1>11. WritersKnow'
  <2> SUFFICES ASSUME NEW w \in Writers, writer'[w] # Idle
               PROVE  LET f == writer'[w].fact
                      IN  /\ f.at <= moment'
                          /\ f.cause # 0 =>
                                 f.cause \in 1..Len(facts') /\ facts'[f.cause].at <= f.at
    BY DEF WritersKnow
  <2>1. writer'[w] = writer[w]
    BY <1>7
  <2> QED
    BY <1>1, <1>5, <1>6, <2>1 DEF HistoryInv, WritersKnow
<1> QED
  BY <1>8, <1>9, <1>10, <1>11 DEF HistoryInv

LEMMA FailKeepsInv ==
    ASSUME HistoryInv, NEW v \in Writers, Fail(v)
    PROVE  HistoryInv'
<1>1. writer' = [writer EXCEPT ![v] = Idle] /\ UNCHANGED <<moment, facts, parts>>
  BY DEF Fail
<1>2. \A w \in Writers : writer'[w] = Idle \/ writer'[w] = writer[w]
  BY <1>1 DEF HistoryInv, TypeOK
<1>3. TypeOK'
  BY <1>1, <1>2 DEF HistoryInv, TypeOK
<1>4. WritersKnow'
  BY <1>1, <1>2 DEF HistoryInv, WritersKnow
<1> QED
  BY <1>1, <1>3, <1>4 DEF HistoryInv, CausesAreOlder

\* The clock goes on.
LEMMA TickKeepsInv ==
    ASSUME HistoryInv, Tick
    PROVE  HistoryInv'
<1>1. moment' = moment + 1 /\ moment < Len(Instants) /\ UNCHANGED <<facts, parts, writer>>
  BY DEF Tick
<1>2. moment \in Nat /\ moment \in Moment /\ Len(Instants) \in Nat
  BY HistoryAssumption DEF HistoryInv, TypeOK, Moment
<1>3. TypeOK'
  BY <1>1, <1>2 DEF HistoryInv, TypeOK, Moment
<1>4. \A i \in 1..Len(facts) : facts[i].at \in Nat /\ facts[i].at <= moment
  <2>1. \A i \in 1..Len(facts) : facts[i] \in Fact
    BY DEF HistoryInv, TypeOK
  <2> QED
    BY <2>1, HistoryAssumption DEF HistoryInv, Fact, Moment
<1>5. \A w \in Writers : writer[w] # Idle => writer[w].fact.at \in Nat
  <2>1. \A w \in Writers : writer[w] # Idle => writer[w].fact \in Fact
    BY DEF HistoryInv, TypeOK
  <2> QED
    BY <2>1, HistoryAssumption DEF Fact, Moment
<1>6. WritersKnow'
  BY <1>1, <1>2, <1>5 DEF HistoryInv, WritersKnow
<1> QED
  BY <1>1, <1>2, <1>3, <1>4, <1>6 DEF HistoryInv, CausesAreOlder

LEMMA HistoryStep == HistoryInv /\ [Next]_vars => HistoryInv'
<1> SUFFICES ASSUME HistoryInv, [Next]_vars PROVE HistoryInv'
  OBVIOUS
<1>1. CASE UNCHANGED <<moment, facts, parts, writer>>
  BY <1>1 DEF HistoryInv, TypeOK, CausesAreOlder, WritersKnow
<1>2. ASSUME NEW w \in Writers,
             (\E kind \in Kind : Prepare(w, kind)) \/ Save(w) \/ Fail(w)
      PROVE  HistoryInv'
  BY <1>2, PrepareKeepsInv, SaveKeepsInv, FailKeepsInv
<1>3. CASE Tick
  BY <1>3, TickKeepsInv
<1>4. CASE Build \/ (\E kind \in Kind : List(kind)) \/ ListPart \/ Answer
           \/ Consult \/ ListWarranties \/ FailRead
  <2>1. UNCHANGED recording
    BY <1>4 DEF Build, List, ListPart, Answer, Consult, ListWarranties, FailRead
  <2> QED
    BY <1>1, <2>1 DEF recording
<1>5. CASE UNCHANGED vars
  BY <1>1, <1>5 DEF vars
<1> QED
  BY <1>2, <1>3, <1>4, <1>5 DEF Next

\* No fact is dated before what it is about, for any number of overlapping
\* requests and any failure (Record, Register, Issue and Open).
THEOREM CausesAreOlderHolds == Spec => []CausesAreOlder
<1>1. HistoryInv => CausesAreOlder
  BY DEF HistoryInv
<1> QED
  BY <1>1, HistoryInit, HistoryStep, PTL DEF Spec

\* Every column keeps its type, the expiration dates the calendar computes too.
THEOREM HistoryTypes == Spec => []TypeOK
<1>1. HistoryInv => TypeOK
  BY DEF HistoryInv
<1> QED
  BY <1>1, HistoryInit, HistoryStep, PTL DEF Spec

-----------------------------------------------------------------------------
\* The sort puts every entry at a place of its own, later ones behind.
LEMMA PlacesAreInOrder ==
    ASSUME NEW s, NEW n \in Nat, DOMAIN s = 1..n,
           \A i \in 1..n : facts[s[i]].at \in Nat
    PROVE  /\ \A i \in 1..n : Place(s, i) \in 1..n
           /\ \A i, j \in 1..n : i # j /\ ComesFirst(s, j, i) => Place(s, j) < Place(s, i)
<1> DEFINE Ahead(i) == {j \in 1..n : ComesFirst(s, j, i)}
<1>1. IsFiniteSet(1..n) /\ Cardinality(1..n) = n
  BY FS_Interval
<1>2. \A i \in 1..n :
        /\ Place(s, i) = Cardinality(Ahead(i)) /\ i \in Ahead(i)
        /\ IsFiniteSet(Ahead(i)) /\ Cardinality(Ahead(i)) \in 1..n
  <2> TAKE i \in 1..n
  <2>1. Place(s, i) = Cardinality(Ahead(i)) /\ i \in Ahead(i)
    BY DEF Place, ComesFirst
  <2> HIDE DEF Ahead
  <2>2. Ahead(i) \in SUBSET (1..n)
    BY DEF Ahead
  <2>3. IsFiniteSet(Ahead(i)) /\ Cardinality(Ahead(i)) <= n
    BY <1>1, <2>2, FS_Subset
  <2>4. Cardinality(Ahead(i)) \in Nat /\ Cardinality(Ahead(i)) # 0
    BY <2>1, <2>3, FS_CardinalityType, FS_EmptySet
  <2> QED
    BY <2>1, <2>3, <2>4
<1>3. ASSUME NEW i \in 1..n, NEW j \in 1..n, i # j, ComesFirst(s, j, i)
      PROVE  Place(s, j) < Place(s, i)
  <2>1. Ahead(j) \in SUBSET Ahead(i) /\ i \notin Ahead(j)
    BY <1>3 DEF ComesFirst
  <2> HIDE DEF Ahead
  <2>2. Cardinality(Ahead(j)) <= Cardinality(Ahead(i)) /\ Ahead(j) # Ahead(i)
    BY <1>2, <2>1, FS_Subset
  <2>3. Cardinality(Ahead(j)) # Cardinality(Ahead(i))
    BY <1>2, <2>1, <2>2, FS_Subset
  <2> QED
    BY <1>2, <2>2, <2>3
<1> QED
  BY <1>2, <1>3

\* No place is left empty.
LEMMA PlacesAreTaken ==
    ASSUME NEW s, NEW n \in Nat, DOMAIN s = 1..n,
           \A i \in 1..n : facts[s[i]].at \in Nat
    PROVE  /\ \A i, j \in 1..n : Place(s, i) = Place(s, j) => i = j
           /\ \A p \in 1..n : \E i \in 1..n : Place(s, i) = p
<1> DEFINE f == [i \in 1..n |-> Place(s, i)]
<1>1. \A i \in 1..n : Place(s, i) \in 1..n
  BY PlacesAreInOrder
<1>2. \A i, j \in 1..n : i # j => Place(s, j) # Place(s, i)
  <2> TAKE i, j \in 1..n
  <2> HAVE i # j
  <2>1. ComesFirst(s, i, j) \/ ComesFirst(s, j, i)
    BY DEF ComesFirst
  <2>2. Place(s, i) < Place(s, j) \/ Place(s, j) < Place(s, i)
    BY <2>1, PlacesAreInOrder
  <2> QED
    BY <1>1, <2>2
<1>3. f \in Injection(1..n, 1..n)
  BY <1>1, <1>2 DEF Injection, IsInjective
<1>4. IsFiniteSet(1..n)
  BY FS_Interval
<1>5. f \in Surjection(1..n, 1..n)
  BY <1>3, <1>4, FS_Injection
<1>6. \A p \in 1..n : \E i \in 1..n : f[i] = p
  BY <1>5 DEF Surjection
<1> QED
  BY <1>2, <1>6

\* A query gives each row of its kind once.
LEMMA RowsAreOnce ==
    ASSUME NEW kind, NEW rows \in Rows(kind), NEW n \in Nat, DOMAIN facts = 1..n
    PROVE  LET ids == {i \in 1..n : facts[i].kind = kind}
           IN  /\ rows \in Seq(ids)
               /\ \A p, q \in DOMAIN rows : rows[p] = rows[q] => p = q
               /\ \A i \in ids : \E p \in DOMAIN rows : rows[p] = i
<1> DEFINE ids == {i \in 1..n : facts[i].kind = kind}
           m == Cardinality(ids)
<1>1. rows \in [1..m -> ids] /\ {rows[i] : i \in DOMAIN rows} = ids
  BY DEF Rows
<1>2. IsFiniteSet(ids)
  BY FS_Interval, FS_Subset
<1> HIDE DEF ids
<1>3. m \in Nat
  BY <1>2, FS_CardinalityType
<1>4. IsFiniteSet(1..m) /\ Cardinality(1..m) = m
  BY <1>3, FS_Interval
<1> DEFINE S == 1..m
<1>5. rows \in Surjection(S, ids)
  BY <1>1 DEF Surjection
<1>6. rows \in Injection(S, ids)
  BY <1>4, <1>5, FS_SurjSameCardinalityImpliesInj
<1>7. \A p, q \in S : rows[p] = rows[q] => p = q
  BY <1>6 DEF Injection, IsInjective
<1>8. rows \in Seq(ids)
  BY <1>1, <1>3
<1>9. \A i \in ids : \E p \in DOMAIN rows : rows[p] = i
  BY <1>1
<1> QED
  BY <1>1, <1>7, <1>8, <1>9 DEF ids

-----------------------------------------------------------------------------
\* How far from the order a kind of fact is, and how far a timeline has got.
Rank == [ORDER |-> 1, DIAGNOSTIC |-> 2, INTERVENTION |-> 3, WARRANTY |-> 4]
ReadStep == {"ORDER", "DIAGNOSTIC", "INTERVENTION", "parts", "WARRANTY", "answer"}
StepRank ==
    [ORDER |-> 1, DIAGNOSTIC |-> 2, INTERVENTION |-> 3, parts |-> 4, WARRANTY |-> 4,
     answer |-> 5]

\* A row is what its table admits, and what it is about is of an earlier kind.
WellMade(rows, f) ==
    /\ f.kind # "INTERVENTION" => f.parts = 0
    /\ f.kind = "WARRANTY" => f.coverage \in Nat /\ f.expires = Expires(f.at, f.coverage)
    /\ f.cause # 0 => Rank[rows[f.cause].kind] < Rank[f.kind]

\* The tables hold such rows, and the requests are about to insert such rows.
RowsInv ==
    /\ \A i \in 1..Len(facts) : WellMade(facts, facts[i]) /\ parts[i] = facts[i].parts
    /\ \A w \in Writers : writer[w] # Idle => WellMade(facts, writer[w].fact)

\* Rows are appended and never changed.
Grows ==
    /\ Len(facts) <= Len(facts')
    /\ \A i \in 1..Len(facts) : facts'[i] = facts[i]

\* The types of the rows, as the proofs use them.
LEMMA FactsAre ==
    ASSUME HistoryInv
    PROVE  /\ Len(facts) \in Nat /\ DOMAIN facts = 1..Len(facts)
           /\ \A i \in 1..Len(facts) :
                 /\ facts[i] \in Fact /\ facts[i].kind \in Kind /\ facts[i].at \in Nat
                 /\ Rank[facts[i].kind] \in 1..4
<1>1. facts \in Seq(Fact)
  BY DEF HistoryInv, TypeOK
<1>2. \A i \in 1..Len(facts) : facts[i] \in Fact
  BY <1>1
<1>3. \A f \in Fact : f.kind \in Kind /\ f.at \in Nat /\ Rank[f.kind] \in 1..4
  BY HistoryAssumption DEF Fact, Kind, Moment, Rank
<1> QED
  BY <1>1, <1>2, <1>3

LEMMA FactsGrow ==
    ASSUME HistoryInv, [Next]_vars
    PROVE  Grows
<1>1. Len(facts) \in Nat /\ facts \in Seq(Fact)
  BY DEF HistoryInv, TypeOK
<1>2. CASE UNCHANGED facts
  BY <1>1, <1>2 DEF Grows
<1>3. ASSUME NEW w \in Writers, Save(w)
      PROVE  Grows
  <2>1. facts' = Append(facts, writer[w].fact)
    BY <1>3 DEF Save
  <2>2. writer[w].fact \in Fact
    BY <1>3 DEF Save, Idle, HistoryInv, TypeOK
  <2> QED
    BY <1>1, <2>1, <2>2 DEF Grows
<1> QED
  BY <1>2, <1>3 DEF Next, vars, Prepare, Fail, Tick, Build, List, ListPart, Answer, Consult,
     ListWarranties, FailRead, recording

\* A row stays well made when others are appended.
LEMMA StaysWellMade ==
    ASSUME HistoryInv, Grows, NEW f, f.cause \in 0..Len(facts), WellMade(facts, f)
    PROVE  WellMade(facts', f)
<1>1. Len(facts) \in Nat
  BY FactsAre
<1> QED
  BY <1>1 DEF Grows, WellMade

LEMMA CausesAreKnown ==
    ASSUME HistoryInv
    PROVE  /\ \A i \in 1..Len(facts) : facts[i].cause \in 0..Len(facts)
           /\ \A w \in Writers : writer[w] # Idle => writer[w].fact.cause \in 0..Len(facts)
<1>1. Len(facts) \in Nat /\ \A i \in 1..Len(facts) : facts[i] \in Fact
  BY FactsAre
<1>2. \A f \in Fact : f.cause \in Nat
  BY HistoryAssumption DEF Fact, FactId
<1>3. ASSUME NEW i \in 1..Len(facts)
      PROVE  facts[i].cause \in 0..Len(facts)
  <2>1. facts[i].cause \in Nat
    BY <1>1, <1>2
  <2>2. facts[i].cause # 0 => facts[i].cause < i
    BY DEF HistoryInv, CausesAreOlder
  <2> QED
    BY <1>1, <2>1, <2>2
<1>4. ASSUME NEW w \in Writers, writer[w] # Idle
      PROVE  writer[w].fact.cause \in 0..Len(facts)
  BY <1>1, <1>4 DEF HistoryInv, WritersKnow
<1> QED
  BY <1>3, <1>4

LEMMA RowsStep == HistoryInv /\ RowsInv /\ [Next]_vars => RowsInv'
<1> SUFFICES ASSUME HistoryInv, RowsInv, [Next]_vars PROVE RowsInv'
  OBVIOUS
<1>1. Len(facts) \in Nat /\ Grows
  BY FactsAre, FactsGrow
<1>2. \A i \in 1..Len(facts) : WellMade(facts', facts'[i])
  <2> SUFFICES ASSUME NEW i \in 1..Len(facts) PROVE WellMade(facts', facts'[i])
    OBVIOUS
  <2>1. facts[i].cause \in 0..Len(facts) /\ WellMade(facts, facts[i])
    BY CausesAreKnown DEF RowsInv
  <2>2. facts'[i] = facts[i]
    BY <1>1 DEF Grows
  <2> QED
    BY <1>1, <2>1, <2>2, StaysWellMade
<1>3. \A w \in Writers : writer[w] # Idle => WellMade(facts', writer[w].fact)
  BY <1>1, CausesAreKnown, StaysWellMade DEF RowsInv
<1>4. ASSUME NEW v \in Writers, NEW kind \in Kind, Prepare(v, kind)
      PROVE  RowsInv'
  <2>1. PICK cause \in DOMAIN facts \cup {0},
             n \in PartCounts \cup {0}, coverage \in Coverages \cup {0} :
          /\ cause # 0 => facts[cause].kind \in CauseOf[kind]
          /\ kind # "INTERVENTION" => n = 0
          /\ kind = "WARRANTY" <=> coverage # 0
          /\ writer' = [writer EXCEPT ![v] =
                [step |-> "save", fact |-> NewFact(kind, cause, moment, n, coverage)]]
    BY <1>4 DEF Prepare, Clock
  <2> DEFINE fact == NewFact(kind, cause, moment, n, coverage)
  <2>2. UNCHANGED <<facts, parts>>
    BY <1>4 DEF Prepare
  <2>3. cause # 0 => Rank[facts[cause].kind] < Rank[kind]
    BY <2>1 DEF CauseOf, Rank, Kind
  <2>4. coverage \in Nat
    BY HistoryAssumption
  <2>5. WellMade(facts, fact)
    BY <2>1, <2>3, <2>4 DEF NewFact, WellMade
  <2>6. writer' = [writer EXCEPT ![v] = [step |-> "save", fact |-> fact]]
    BY <2>1
  <2> HIDE DEF fact
  <2>7. \A w \in Writers : writer'[w] = writer[w] \/ writer'[w] = [step |-> "save", fact |-> fact]
    BY <2>6 DEF HistoryInv, TypeOK
  <2>8. \A w \in Writers : writer'[w] # Idle => WellMade(facts', writer'[w].fact)
    BY <1>3, <2>2, <2>5, <2>7
  <2> QED
    BY <1>2, <2>2, <2>8 DEF RowsInv
<1>5. ASSUME NEW v \in Writers, Save(v)
      PROVE  RowsInv'
  <2> DEFINE fact == writer[v].fact
  <2>1. /\ writer[v] # Idle /\ facts' = Append(facts, fact)
        /\ parts' = Append(parts, fact.parts) /\ writer' = [writer EXCEPT ![v] = Idle]
    BY <1>5 DEF Save, Idle
  <2>2. fact \in Fact /\ WellMade(facts', fact)
    BY <1>3, <2>1 DEF HistoryInv, TypeOK
  <2>3. /\ facts \in Seq(Fact) /\ parts \in Seq(Nat) /\ Len(parts) = Len(facts)
    BY DEF HistoryInv, TypeOK
  <2> HIDE DEF fact
  <2>4. fact.parts \in Nat
    <3>1. \A n \in PartCounts \cup {0} : n \in Nat
      BY HistoryAssumption
    <3> QED
      BY <2>2, <3>1 DEF Fact
  <2>5. /\ Len(facts') = Len(facts) + 1 /\ facts'[Len(facts) + 1] = fact
        /\ parts'[Len(facts) + 1] = fact.parts
        /\ \A i \in 1..Len(facts) : facts'[i] = facts[i] /\ parts'[i] = parts[i]
    BY <1>1, <2>1, <2>2, <2>3, <2>4
  <2>6. \A w \in Writers : writer'[w] = Idle \/ writer'[w] = writer[w]
    BY <2>1 DEF HistoryInv, TypeOK
  <2>7. \A i \in 1..Len(facts') : WellMade(facts', facts'[i]) /\ parts'[i] = facts'[i].parts
    BY <1>1, <1>2, <2>2, <2>5 DEF RowsInv
  <2> QED
    BY <1>3, <2>6, <2>7 DEF RowsInv
<1>6. ASSUME UNCHANGED <<facts, parts>>, \A w \in Writers : writer'[w] = Idle \/ writer'[w] = writer[w]
      PROVE  RowsInv'
  BY <1>2, <1>3, <1>6 DEF RowsInv
<1> QED
  <2>1. ASSUME NEW v \in Writers, Fail(v)
        PROVE  RowsInv'
    BY <1>6, <2>1 DEF Fail, HistoryInv, TypeOK
  <2>2. CASE UNCHANGED <<facts, parts, writer>>
    BY <1>6, <2>2
  <2> QED
    BY <1>4, <1>5, <2>1, <2>2 DEF Next, vars, Tick, Build, List, ListPart, Answer, Consult,
       ListWarranties, FailRead, recording

-----------------------------------------------------------------------------
\* s names rows of the kinds before rank only, each at most once, and every one
\* of them among the first since.
Lists(rows, s, since, rank) ==
    /\ since \in 0..Len(rows)
    /\ \A p \in DOMAIN s : s[p] \in 1..Len(rows) /\ Rank[rows[s[p]].kind] < rank
    /\ \A p, q \in DOMAIN s : s[p] = s[q] => p = q
    /\ \A i \in 1..since : Rank[rows[i].kind] < rank => \E p \in DOMAIN s : s[p] = i

\* Kind after kind.
InKinds(rows, s) ==
    \A p, q \in DOMAIN s : p < q => Rank[rows[s[p]].kind] <= Rank[rows[s[q]].kind]

\* n gives the parts of every entry that may have some.
PartsRead(rows, s, n) ==
    /\ DOMAIN n \subseteq DOMAIN s
    /\ \A p \in DOMAIN s :
         IF p \in DOMAIN n THEN n[p] = rows[s[p]].parts ELSE rows[s[p]].kind = "WARRANTY"

\* What the read that goes on has collected.
Collecting(rows, r) ==
    /\ r \in [step: ReadStep, entry: Seq(Nat), parts: Seq(Nat), since: Nat]
    /\ Lists(rows, r.entry, r.since, StepRank[r.step])
    /\ InKinds(rows, r.entry)
    /\ r.step \in {"WARRANTY", "answer"} => PartsRead(rows, r.entry, r.parts)

\* A read is idle, has an instant to answer for, or has collected part of a timeline.
ReaderInv ==
    \/ reader = Idle
    \/ reader \in [step: {"warranties"}, at: Instant]
    \/ Collecting(facts, reader)

\* The timeline answered.
TimelineInv ==
    /\ Lists(facts, timeline.entry, timeline.since, 5)
    /\ CausesFirst
    /\ PartsAreWhole

\* The list answered.
ListingInv ==
    /\ \A i \in listing.valid \cup listing.expired :
          i \in 1..Len(facts) /\ facts[i].kind = "WARRANTY" /\ listing.at \in Instant
    /\ \A i \in listing.valid : Earlier(listing.at, facts[i].expires)
    /\ \A i \in listing.expired : ~ Earlier(listing.at, facts[i].expires)

ReadInv == ReaderInv /\ TimelineInv /\ ListingInv

-----------------------------------------------------------------------------
\* Rows that are added disturb nothing that was read before.
LEMMA StaysCollected ==
    ASSUME HistoryInv, Grows,
           NEW s, NEW since, NEW rank, Lists(facts, s, since, rank)
    PROVE  /\ Lists(facts', s, since, rank)
           /\ InKinds(facts, s) => InKinds(facts', s)
           /\ \A n : PartsRead(facts, s, n) => PartsRead(facts', s, n)
<1>1. Len(facts) \in Nat /\ Len(facts') \in Nat
  BY FactsAre DEF HistoryInv, TypeOK, Grows
<1>2. \A p \in DOMAIN s : s[p] \in 1..Len(facts) /\ facts'[s[p]] = facts[s[p]]
  BY DEF Lists, Grows
<1>3. Lists(facts', s, since, rank)
  BY <1>1, <1>2 DEF Lists, Grows
<1>4. InKinds(facts, s) => InKinds(facts', s)
  BY <1>2 DEF InKinds
<1>5. \A n : PartsRead(facts, s, n) => PartsRead(facts', s, n)
  BY <1>2 DEF PartsRead
<1> QED
  BY <1>3, <1>4, <1>5

\* Recording goes on beside a read.
LEMMA RecordingKeepsReading ==
    ASSUME HistoryInv, ReadInv, Grows, UNCHANGED reading
    PROVE  ReadInv'
<1>1. Len(facts) \in Nat /\ UNCHANGED <<reader, timeline, listing>>
  BY FactsAre DEF reading
<1>2. \A i \in 1..Len(facts) : i \in 1..Len(facts') /\ facts'[i] = facts[i]
  BY <1>1 DEF Grows
<1>3. ReaderInv'
  <2>1. CASE Collecting(facts, reader)
    <3>1. Collecting(facts', reader)
      BY <2>1, StaysCollected DEF Collecting
    <3> QED
      BY <1>1, <3>1 DEF ReaderInv
  <2> QED
    BY <1>1, <2>1 DEF ReadInv, ReaderInv
<1>4. TimelineInv'
  <2>1. \A p \in DOMAIN timeline.entry : timeline.entry[p] \in 1..Len(facts)
    BY DEF ReadInv, TimelineInv, Lists
  <2>2. Lists(facts', timeline.entry, timeline.since, 5)
    BY StaysCollected DEF ReadInv, TimelineInv
  <2>3. CausesFirst'
    BY <1>1, <1>2, <2>1 DEF ReadInv, TimelineInv, CausesFirst
  <2>4. PartsAreWhole'
    BY <1>1, <1>2, <2>1 DEF ReadInv, TimelineInv, PartsAreWhole
  <2> QED
    BY <1>1, <2>2, <2>3, <2>4 DEF TimelineInv
<1>5. ListingInv'
  BY <1>1, <1>2 DEF ReadInv, ListingInv
<1> QED
  BY <1>3, <1>4, <1>5 DEF ReadInv

-----------------------------------------------------------------------------
\* Nothing answered is nothing wrong.
LEMMA NothingAnswered ==
    ASSUME HistoryInv
    PROVE  /\ timeline' = NoTimeline /\ UNCHANGED facts => TimelineInv'
           /\ listing' = NoListing => ListingInv'
<1>1. Len(facts) \in Nat
  BY FactsAre
<1>2. ASSUME timeline' = NoTimeline, UNCHANGED facts
      PROVE  TimelineInv'
  BY <1>1, <1>2 DEF TimelineInv, Lists, NoTimeline, CausesFirst, PartsAreWhole
<1>3. ASSUME listing' = NoListing
      PROVE  ListingInv'
  BY <1>3 DEF ListingInv, NoListing
<1> QED
  BY <1>2, <1>3

\* A timeline begins with nothing.
LEMMA BuildKeepsReading ==
    ASSUME HistoryInv, Build
    PROVE  ReadInv'
<1>1. /\ reader' = [step |-> "ORDER", entry |-> <<>>, parts |-> <<>>, since |-> Len(facts)]
      /\ timeline' = NoTimeline /\ listing' = NoListing /\ UNCHANGED facts
  BY DEF Build, recording
<1>2. Len(facts) \in Nat /\ \A i \in 1..Len(facts) : Rank[facts[i].kind] \in 1..4
  BY FactsAre
<1>3. reader' \in [step: ReadStep, entry: Seq(Nat), parts: Seq(Nat), since: Nat]
  BY <1>1, <1>2 DEF ReadStep
<1>4. Lists(facts, <<>>, Len(facts), 1) /\ InKinds(facts, <<>>)
  BY <1>2 DEF Lists, InKinds
<1>5. Collecting(facts, reader')
  BY <1>1, <1>3, <1>4 DEF Collecting, StepRank
<1> QED
  BY <1>1, <1>5, NothingAnswered DEF ReadInv, ReaderInv

\* The rows of the next kind are put behind those of the kinds before it.
LEMMA ListKeepsReading ==
    ASSUME HistoryInv, ReadInv, NEW kind \in Kind, List(kind)
    PROVE  ReadInv'
<1>1. PICK rows \in Rows(kind) :
        reader' = [reader EXCEPT !.step = Following[kind], !.entry = @ \o rows]
  BY DEF List
<1>2. reader.step = kind /\ UNCHANGED <<facts, parts, timeline, listing>>
  BY DEF List, recording
<1> DEFINE s == reader.entry
           since == reader.since
           n == Len(facts)
           t == s \o rows
<1>3. Collecting(facts, reader)
  BY <1>2 DEF ReadInv, ReaderInv, Idle, Kind
<1>4. /\ n \in Nat /\ DOMAIN facts = 1..n
      /\ \A i \in 1..n : facts[i].kind \in Kind /\ Rank[facts[i].kind] \in 1..4
  BY FactsAre
<1>5. /\ rows \in Seq(Nat)
      /\ \A p \in DOMAIN rows : rows[p] \in 1..n /\ facts[rows[p]].kind = kind
      /\ \A p, q \in DOMAIN rows : rows[p] = rows[q] => p = q
      /\ \A i \in 1..n : facts[i].kind = kind => \E p \in DOMAIN rows : rows[p] = i
  <2> DEFINE ids == {i \in 1..n : facts[i].kind = kind}
  <2> HIDE DEF n
  <2>1. /\ rows \in Seq(ids)
        /\ \A p, q \in DOMAIN rows : rows[p] = rows[q] => p = q
        /\ \A i \in ids : \E p \in DOMAIN rows : rows[p] = i
    BY <1>4, RowsAreOnce
  <2>2. \A p \in DOMAIN rows : rows[p] \in ids
    BY <2>1
  <2>3. rows \in Seq(Nat)
    BY <1>4, <2>1
  <2> QED
    BY <2>1, <2>2, <2>3
<1>6. /\ reader \in [step: ReadStep, entry: Seq(Nat), parts: Seq(Nat), since: Nat]
      /\ Lists(facts, s, since, Rank[kind]) /\ InKinds(facts, s)
      /\ kind = "WARRANTY" => PartsRead(facts, s, reader.parts)
  BY <1>2, <1>3 DEF Collecting, StepRank, Rank, Kind
<1>7. reader' = [step |-> Following[kind], entry |-> t, parts |-> reader.parts, since |-> since]
  BY <1>1, <1>6
<1>8. t \in Seq(Nat) /\ Following[kind] \in ReadStep
  BY <1>5, <1>6 DEF Following, ReadStep, Kind
<1>9. \A k \in Kind : Rank[k] < StepRank[Following[kind]] <=> Rank[k] < Rank[kind] \/ k = kind
  BY DEF Rank, StepRank, Following, Kind
<1> DEFINE l == Len(s)
<1>10. /\ s \in Seq(Nat) /\ l \in Nat /\ DOMAIN s = 1..l
       /\ Len(rows) \in Nat /\ DOMAIN rows = 1..Len(rows)
       /\ DOMAIN t = 1..(l + Len(rows))
       /\ \A p \in 1..l : t[p] = s[p]
       /\ \A p \in 1..Len(rows) : t[l + p] = rows[p]
  BY <1>5, <1>6
<1>11. \A p \in DOMAIN t : p \notin 1..l => (p - l) \in 1..Len(rows) /\ t[p] = rows[p - l]
  <2> HIDE DEF t, l
  <2> SUFFICES ASSUME NEW p \in DOMAIN t, p \notin 1..l
               PROVE  (p - l) \in 1..Len(rows) /\ t[p] = rows[p - l]
    OBVIOUS
  <2>1. (p - l) \in 1..Len(rows) /\ l + (p - l) = p
    BY <1>10
  <2> QED
    BY <1>10, <2>1
<1>12. /\ \A p \in 1..l : t[p] \in 1..n /\ Rank[facts[t[p]].kind] < Rank[kind]
       /\ \A p \in DOMAIN t : p \notin 1..l => t[p] \in 1..n /\ facts[t[p]].kind = kind
  <2> HIDE DEF s, t, l
  <2>1. \A p \in 1..l : t[p] = s[p] /\ p \in DOMAIN s
    BY <1>10
  <2>2. \A p \in DOMAIN s : s[p] \in 1..n /\ Rank[facts[s[p]].kind] < Rank[kind]
    BY <1>6 DEF Lists
  <2>3. ASSUME NEW p \in DOMAIN t, p \notin 1..l
        PROVE  t[p] \in 1..n /\ facts[t[p]].kind = kind
    <3>1. (p - l) \in DOMAIN rows /\ t[p] = rows[p - l]
      BY <1>10, <1>11, <2>3
    <3> QED
      BY <1>5, <3>1
  <2> QED
    BY <2>1, <2>2, <2>3
<1> HIDE DEF s, since, t, n, l
<1>13. Lists(facts, t, since, StepRank[Following[kind]])
  <2>1. \A p \in DOMAIN t : t[p] \in 1..n /\ Rank[facts[t[p]].kind] < StepRank[Following[kind]]
    BY <1>4, <1>9, <1>12
  <2>2. ASSUME NEW p \in DOMAIN t, NEW q \in DOMAIN t, t[p] = t[q]
        PROVE  p = q
    <3>1. Rank[kind] \in Nat
      BY DEF Rank, Kind
    <3>2. CASE p \in 1..l /\ q \in 1..l
      BY <1>6, <1>10, <2>2, <3>2 DEF Lists
    <3>3. CASE p \notin 1..l /\ q \notin 1..l
      <4>1. p - l = q - l
        BY <1>5, <1>10, <1>11, <2>2, <3>3
      <4> QED
        BY <1>10, <4>1
    <3>4. ~(p \in 1..l /\ q \notin 1..l) /\ ~(p \notin 1..l /\ q \in 1..l)
      BY <1>12, <2>2, <3>1
    <3> QED
      BY <3>2, <3>3, <3>4
  <2>3. ASSUME NEW i \in 1..since, Rank[facts[i].kind] < StepRank[Following[kind]]
        PROVE  \E p \in DOMAIN t : t[p] = i
    <3>1. i \in 1..n /\ (Rank[facts[i].kind] < Rank[kind] \/ facts[i].kind = kind)
      BY <1>4, <1>6, <1>9, <2>3 DEF Lists, n
    <3>2. CASE Rank[facts[i].kind] < Rank[kind]
      <4>1. PICK p \in 1..l : s[p] = i
        BY <1>6, <1>10, <3>2 DEF Lists
      <4> QED
        BY <1>10, <4>1
    <3>3. CASE facts[i].kind = kind
      <4>1. PICK p \in 1..Len(rows) : rows[p] = i
        BY <1>5, <1>10, <3>1, <3>3
      <4>2. l + p \in DOMAIN t /\ t[l + p] = i
        BY <1>10, <4>1
      <4> QED
        BY <4>2
    <3> QED
      BY <3>1, <3>2, <3>3
  <2>4. since \in 0..Len(facts)
    BY <1>6 DEF Lists
  <2> QED
    BY <2>1, <2>2, <2>3, <2>4 DEF Lists, n
<1>14. InKinds(facts, t)
  <2> SUFFICES ASSUME NEW p \in DOMAIN t, NEW q \in DOMAIN t, p < q
               PROVE  Rank[facts[t[p]].kind] <= Rank[facts[t[q]].kind]
    BY DEF InKinds
  <2>1. Rank[kind] \in Nat
    BY DEF Rank, Kind
  <2>2. CASE q \in 1..l
    <3>1. p \in 1..l
      BY <1>10, <2>2
    <3> QED
      BY <1>6, <1>10, <2>2, <3>1 DEF InKinds
  <2>3. CASE q \notin 1..l
    <3>1. facts[t[q]].kind = kind
      BY <1>12, <2>3
    <3>2. t[p] \in 1..n /\ (Rank[facts[t[p]].kind] < Rank[kind] \/ facts[t[p]].kind = kind)
      BY <1>12
    <3>3. Rank[facts[t[p]].kind] \in 1..4
      BY <1>4, <3>2
    <3> QED
      BY <2>1, <3>1, <3>2, <3>3
  <2> QED
    BY <2>2, <2>3
<1>15. Following[kind] \in {"WARRANTY", "answer"} => PartsRead(facts, t, reader.parts)
  <2> SUFFICES ASSUME kind = "WARRANTY" PROVE PartsRead(facts, t, reader.parts)
    BY DEF Following, Kind
  <2>1. PartsRead(facts, s, reader.parts) /\ DOMAIN reader.parts \subseteq 1..l
    BY <1>6, <1>10 DEF PartsRead
  <2>2. DOMAIN reader.parts \subseteq DOMAIN t
    BY <1>10, <2>1
  <2>3. ASSUME NEW p \in DOMAIN t
        PROVE  IF p \in DOMAIN reader.parts THEN reader.parts[p] = facts[t[p]].parts
               ELSE facts[t[p]].kind = "WARRANTY"
    BY <1>10, <1>12, <2>1 DEF PartsRead
  <2> QED
    BY <2>2, <2>3 DEF PartsRead
<1>16. Collecting(facts, reader')
  BY <1>6, <1>7, <1>8, <1>13, <1>14, <1>15 DEF Collecting, since
<1>17. ReaderInv'
  BY <1>2, <1>16 DEF ReaderInv
<1>18. TimelineInv' /\ ListingInv'
  BY <1>2 DEF ReadInv, TimelineInv, CausesFirst, PartsAreWhole, ListingInv
<1> QED
  BY <1>17, <1>18 DEF ReadInv

\* The parts of every intervention listed so far; no entry of another kind has any.
LEMMA ListPartKeepsReading ==
    ASSUME HistoryInv, RowsInv, ReadInv, ListPart
    PROVE  ReadInv'
<1> DEFINE s == reader.entry
           n == [i \in DOMAIN s |-> parts[s[i]]]
<1>1. /\ reader.step = "parts" /\ UNCHANGED <<facts, timeline, listing>>
      /\ reader' = [reader EXCEPT !.step = Following["parts"], !.parts = n]
  BY DEF ListPart, recording
<1>2. Collecting(facts, reader)
  BY <1>1 DEF ReadInv, ReaderInv, Idle
<1>3. /\ reader \in [step: ReadStep, entry: Seq(Nat), parts: Seq(Nat), since: Nat]
      /\ Lists(facts, s, reader.since, 4) /\ InKinds(facts, s)
  BY <1>1, <1>2 DEF Collecting, StepRank
<1>4. reader' = [step |-> "WARRANTY", entry |-> s, parts |-> n, since |-> reader.since]
  BY <1>1, <1>3 DEF Following
<1>5. \A p \in DOMAIN s : s[p] \in 1..Len(facts)
  BY <1>3 DEF Lists
<1>6. parts \in Seq(Nat) /\ Len(parts) = Len(facts)
  BY DEF HistoryInv, TypeOK
<1>7. n \in Seq(Nat)
  <2>1. \A p \in DOMAIN s : parts[s[p]] \in Nat
    BY <1>5, <1>6
  <2>2. Len(s) \in Nat /\ DOMAIN s = 1..Len(s)
    BY <1>3
  <2> HIDE DEF s
  <2> QED
    BY <2>1, <2>2
<1>8. PartsRead(facts, s, n)
  BY <1>5 DEF PartsRead, RowsInv
<1>9. Collecting(facts, reader')
  <2>1. s \in Seq(Nat) /\ reader.since \in Nat
    BY <1>3
  <2> HIDE DEF s, n
  <2>2. reader' \in [step: ReadStep, entry: Seq(Nat), parts: Seq(Nat), since: Nat]
    BY <1>4, <1>7, <2>1 DEF ReadStep
  <2> QED
    BY <1>3, <1>4, <1>8, <2>2 DEF Collecting, StepRank
<1>10. TimelineInv' /\ ListingInv'
  BY <1>1 DEF ReadInv, TimelineInv, CausesFirst, PartsAreWhole, ListingInv
<1> QED
  BY <1>1, <1>9, <1>10 DEF ReadInv, ReaderInv

\* The sort gives every entry a place and puts no fact before its cause.
LEMMA AnswerKeepsReading ==
    ASSUME HistoryInv, RowsInv, ReadInv, Answer
    PROVE  ReadInv'
<1> DEFINE s == reader.entry
           n == Len(s)
           origin == [p \in DOMAIN s |-> CHOOSE i \in DOMAIN s : Place(s, i) = p]
           e == [p \in DOMAIN s |-> s[origin[p]]]
<1>1. /\ reader.step = "answer" /\ reader' = Idle /\ UNCHANGED <<facts, parts, listing>>
      /\ timeline' =
           [entry |-> e,
            parts |-> [p \in DOMAIN s |->
                IF origin[p] \in DOMAIN reader.parts THEN reader.parts[origin[p]] ELSE 0],
            since |-> reader.since]
  BY DEF Answer, recording
<1>2. Collecting(facts, reader)
  BY <1>1 DEF ReadInv, ReaderInv, Idle
<1>3. /\ s \in Seq(Nat) /\ n \in Nat /\ DOMAIN s = 1..n
      /\ Lists(facts, s, reader.since, 5) /\ InKinds(facts, s)
      /\ PartsRead(facts, s, reader.parts)
  BY <1>1, <1>2 DEF Collecting, StepRank
<1>4. /\ \A i \in 1..Len(facts) : facts[i].at \in Nat /\ Rank[facts[i].kind] \in 1..4
      /\ Len(facts) \in Nat
  BY FactsAre
<1> HIDE DEF s, n
<1>5. \A i \in 1..n : s[i] \in 1..Len(facts) /\ facts[s[i]].at \in Nat
  BY <1>3, <1>4 DEF Lists
<1>6. /\ \A i \in 1..n : Place(s, i) \in 1..n
      /\ \A i, j \in 1..n : i # j /\ ComesFirst(s, j, i) => Place(s, j) < Place(s, i)
      /\ \A i, j \in 1..n : Place(s, i) = Place(s, j) => i = j
      /\ \A p \in 1..n : \E i \in 1..n : Place(s, i) = p
  BY <1>3, <1>5, PlacesAreInOrder, PlacesAreTaken
<1>7. \A p \in 1..n : origin[p] \in 1..n /\ Place(s, origin[p]) = p /\ e[p] = s[origin[p]]
  BY <1>3, <1>6
<1>8. DOMAIN e = 1..n
  BY <1>3
<1> HIDE DEF origin, e
<1>9. Lists(facts, e, reader.since, 5)
  <2>1. ASSUME NEW p \in 1..n, NEW q \in 1..n, e[p] = e[q]
        PROVE  p = q
    <3>1. origin[p] = origin[q]
      BY <1>3, <1>7, <2>1 DEF Lists
    <3> QED
      BY <1>7, <3>1
  <2>2. ASSUME NEW i \in 1..reader.since, Rank[facts[i].kind] < 5
        PROVE  \E p \in 1..n : e[p] = i
    <3>1. PICK j \in 1..n : s[j] = i
      BY <1>3, <2>2 DEF Lists
    <3>2. Place(s, j) \in 1..n /\ origin[Place(s, j)] = j
      BY <1>6, <1>7
    <3>3. e[Place(s, j)] = i
      BY <1>7, <3>1, <3>2
    <3> QED
      BY <3>2, <3>3
  <2>3. \A p \in 1..n : e[p] \in 1..Len(facts) /\ Rank[facts[e[p]].kind] < 5
    BY <1>3, <1>7 DEF Lists
  <2>4. reader.since \in 0..Len(facts)
    BY <1>3 DEF Lists
  <2> QED
    BY <1>8, <2>1, <2>2, <2>3, <2>4 DEF Lists
<1>10. ASSUME NEW p \in 1..n, NEW q \in 1..n, facts[e[p]].cause = e[q]
       PROVE  q < p
  <2> DEFINE i == origin[p]
             j == origin[q]
  <2>1. /\ i \in 1..n /\ j \in 1..n /\ e[p] = s[i] /\ e[q] = s[j]
        /\ Place(s, i) = p /\ Place(s, j) = q
    BY <1>7
  <2>2. s[i] \in 1..Len(facts) /\ s[j] \in 1..Len(facts)
    BY <1>5, <2>1
  <2> HIDE DEF i, j
  <2>3. facts[s[i]].cause = s[j] /\ facts[s[i]].cause # 0
    BY <1>10, <2>1, <2>2
  <2>4. facts[s[j]].at <= facts[s[i]].at
    BY <2>2, <2>3 DEF HistoryInv, CausesAreOlder
  <2>5. Rank[facts[s[j]].kind] < Rank[facts[s[i]].kind]
    BY <2>2, <2>3 DEF RowsInv, WellMade
  <2>6. j < i
    <3>1. i < j => Rank[facts[s[i]].kind] <= Rank[facts[s[j]].kind]
      BY <1>3, <2>1 DEF InKinds
    <3>2. Rank[facts[s[i]].kind] \in 1..4 /\ Rank[facts[s[j]].kind] \in 1..4
      BY <1>4, <2>2
    <3> QED
      BY <2>1, <2>5, <3>1, <3>2
  <2>7. ComesFirst(s, j, i)
    BY <1>5, <2>1, <2>4, <2>6 DEF ComesFirst
  <2> QED
    BY <1>6, <2>1, <2>6, <2>7
<1>11. ASSUME NEW p \in 1..n
       PROVE  timeline'.parts[p] = facts[e[p]].parts
  <2> DEFINE i == origin[p]
  <2>1. i \in DOMAIN s /\ e[p] = s[i] /\ s[i] \in 1..Len(facts)
    BY <1>3, <1>5, <1>7
  <2>2. timeline'.parts[p] = IF i \in DOMAIN reader.parts THEN reader.parts[i] ELSE 0
    BY <1>1, <1>3
  <2> HIDE DEF i
  <2>3. facts[s[i]].kind = "WARRANTY" => facts[s[i]].parts = 0
    BY <2>1 DEF RowsInv, WellMade
  <2>4. IF i \in DOMAIN reader.parts THEN reader.parts[i] = facts[s[i]].parts
        ELSE facts[s[i]].kind = "WARRANTY"
    BY <1>3, <2>1 DEF PartsRead
  <2> QED
    BY <2>1, <2>2, <2>3, <2>4
<1>12. TimelineInv'
  <2>1. CausesFirst'
    BY <1>1, <1>8, <1>10 DEF CausesFirst
  <2>2. PartsAreWhole'
    BY <1>1, <1>8, <1>11 DEF PartsAreWhole
  <2>3. Lists(facts', timeline'.entry, timeline'.since, 5)
    BY <1>1, <1>9
  <2> QED
    BY <2>1, <2>2, <2>3 DEF TimelineInv
<1>13. ReaderInv' /\ ListingInv'
  BY <1>1 DEF ReadInv, ReaderInv, ListingInv
<1> QED
  BY <1>12, <1>13 DEF ReadInv

\* The list is asked for at an instant of the calendar.
LEMMA ConsultKeepsReading ==
    ASSUME HistoryInv, Consult
    PROVE  ReadInv'
<1>1. PICK at \in Consulted : reader' = [step |-> "warranties", at |-> at]
  BY DEF Consult
<1>2. timeline' = NoTimeline /\ listing' = NoListing /\ UNCHANGED facts
  BY DEF Consult, recording
<1>3. at \in Instant
  <2>1. Instants[moment] \in Instant
    BY HistoryAssumption DEF HistoryInv, TypeOK, Moment
  <2>2. \A d \in AskedDates : Midnight(d) \in Instant
    <3>1. DaySeconds \in Nat \ {0}
      BY DEF DaySeconds
    <3> QED
      BY <3>1, HistoryAssumption DEF Midnight, Instant
  <2> QED
    BY <1>1, <2>1, <2>2, HistoryAssumption DEF Consulted
<1>4. reader' \in [step: {"warranties"}, at: Instant]
  BY <1>1, <1>3
<1> QED
  BY <1>2, <1>4, NothingAnswered DEF ReadInv, ReaderInv

\* The list says of each warranty what IsValidAt says.
LEMMA ListWarrantiesKeepsReading ==
    ASSUME HistoryInv, ReadInv, ListWarranties
    PROVE  ReadInv'
<1> DEFINE ids == {i \in DOMAIN facts : facts[i].kind = "WARRANTY"}
           valid == {i \in ids : IsValidAt(facts[i], reader.at)}
<1>1. /\ reader.step = "warranties" /\ reader' = Idle /\ UNCHANGED <<facts, timeline>>
      /\ listing' = [at |-> reader.at, valid |-> valid, expired |-> ids \ valid]
  BY DEF ListWarranties, recording
<1>2. reader.at \in Instant
  BY <1>1 DEF ReadInv, ReaderInv, Idle, Collecting, ReadStep
<1>3. ListingInv'
  BY <1>1, <1>2, FactsAre DEF ListingInv, IsValidAt
<1> QED
  BY <1>1, <1>3 DEF ReadInv, ReaderInv, TimelineInv, CausesFirst, PartsAreWhole

LEMMA ReadStepKeeps == HistoryInv /\ RowsInv /\ ReadInv /\ [Next]_vars => ReadInv'
<1> SUFFICES ASSUME HistoryInv, RowsInv, ReadInv, [Next]_vars PROVE ReadInv'
  OBVIOUS
<1>1. CASE UNCHANGED reading
  BY <1>1, FactsGrow, RecordingKeepsReading
<1>2. ASSUME NEW w \in Writers,
             (\E kind \in Kind : Prepare(w, kind)) \/ Save(w) \/ Fail(w)
      PROVE  ReadInv'
  BY <1>1, <1>2 DEF Prepare, Save, Fail
<1>3. CASE FailRead
  BY <1>3 DEF FailRead, recording, ReadInv, ReaderInv, TimelineInv, CausesFirst,
     PartsAreWhole, ListingInv
<1>4. CASE Tick \/ UNCHANGED vars
  BY <1>1, <1>4 DEF Tick, vars, reading
<1> QED
  BY <1>2, <1>3, <1>4, BuildKeepsReading, ListKeepsReading, ListPartKeepsReading,
     AnswerKeepsReading, ConsultKeepsReading, ListWarrantiesKeepsReading DEF Next

LEMMA ReadInit == Init => RowsInv /\ ReadInv
<1> SUFFICES ASSUME Init PROVE RowsInv /\ ReadInv
  OBVIOUS
<1>1. /\ facts = <<>> /\ writer = [w \in Writers |-> Idle] /\ reader = Idle
      /\ timeline = NoTimeline /\ listing = NoListing
  BY DEF Init
<1>2. RowsInv
  BY <1>1 DEF RowsInv
<1>3. TimelineInv
  BY <1>1 DEF TimelineInv, Lists, NoTimeline, CausesFirst, PartsAreWhole
<1>4. ListingInv /\ ReaderInv
  BY <1>1 DEF ListingInv, ReaderInv, NoListing
<1> QED
  BY <1>2, <1>3, <1>4 DEF ReadInv

\* The three parts of the invariant hold together.
LEMMA RecordedAndRead == Spec => [](HistoryInv /\ RowsInv /\ ReadInv)
<1>1. Init => HistoryInv /\ RowsInv /\ ReadInv
  BY HistoryInit, ReadInit
<1>2. (HistoryInv /\ RowsInv /\ ReadInv) /\ [Next]_vars => (HistoryInv /\ RowsInv /\ ReadInv)'
  BY HistoryStep, RowsStep, ReadStepKeeps
<1> QED
  BY <1>1, <1>2, PTL DEF Spec

\* The timeline never shows a fact before what it is about, whatever is recorded
\* between its queries and however many facts share a moment (Build).
THEOREM CausesFirstHolds == Spec => []CausesFirst
<1>1. ReadInv => CausesFirst
  BY DEF ReadInv, TimelineInv
<1> QED
  BY <1>1, RecordedAndRead, PTL

\* An intervention in the timeline has all the parts it was registered with
\* (InterventionRepository.Save and the two queries of list).
THEOREM PartsAreWholeHolds == Spec => []PartsAreWhole
<1>1. ReadInv => PartsAreWhole
  BY DEF ReadInv, TimelineInv
<1> QED
  BY <1>1, RecordedAndRead, PTL

\* What was recorded when the timeline was asked for is in it exactly once, what
\* came later at most once (Build).
THEOREM NothingMissingHolds == Spec => []NothingMissing
<1>1. HistoryInv /\ ReadInv => NothingMissing
  <2> SUFFICES ASSUME HistoryInv, ReadInv PROVE NothingMissing
    OBVIOUS
  <2> DEFINE e == timeline.entry
             At(i) == {p \in DOMAIN e : e[p] = i}
  <2>1. /\ Len(facts) \in Nat /\ DOMAIN facts = 1..Len(facts)
        /\ \A i \in 1..Len(facts) : Rank[facts[i].kind] < 5
    BY FactsAre
  <2>2. Lists(facts, e, timeline.since, 5)
    BY DEF ReadInv, TimelineInv
  <2> SUFFICES ASSUME NEW i \in 1..Len(facts)
               PROVE  IF i <= timeline.since THEN Cardinality(At(i)) = 1
                      ELSE Cardinality(At(i)) <= 1
    BY <2>1 DEF NothingMissing
  <2>3. At(i) = {} \/ \E p \in DOMAIN e : At(i) = {p}
    BY <2>2 DEF Lists
  <2>4. i <= timeline.since => At(i) # {}
    BY <2>1, <2>2 DEF Lists
  <2> HIDE DEF At
  <2>5. At(i) # {} => Cardinality(At(i)) = 1
    BY <2>3, FS_Singleton
  <2>6. Cardinality({}) = 0
    BY FS_EmptySet
  <2>7. Cardinality(At(i)) = 1 \/ Cardinality(At(i)) = 0
    BY <2>5, <2>6
  <2> QED
    BY <2>4, <2>5, <2>7
<1> QED
  BY <1>1, RecordedAndRead, PTL

\* The list calls a warranty valid exactly while seconds are left to the end of its
\* coverage, the time of day of its issue on the day the coverage reaches
\* (NewWarranty, IsValidAt), for every calendar, every coverage and whatever
\* instant or date is asked for.
THEOREM ValidUntilTheInstantHolds == Spec => []ValidUntilTheInstant
<1>1. HistoryInv /\ RowsInv /\ ReadInv => ValidUntilTheInstant
  <2> SUFFICES ASSUME HistoryInv, RowsInv, ReadInv PROVE ValidUntilTheInstant
    OBVIOUS
  <2> DEFINE issued(i) == Instants[facts[i].at]
             lastDay(i) == DaysBefore(issued(i).date.month + facts[i].coverage)
                           + issued(i).date.day
             left(i) == DaySeconds * (lastDay(i) - DayNumber(listing.at.date))
                        + issued(i).second - listing.at.second
  <2>1. ASSUME NEW i \in listing.valid \cup listing.expired
        PROVE  /\ Earlier(listing.at, facts[i].expires) <=> left(i) > 0
               /\ left(i) \in Int
    <3>1. i \in 1..Len(facts) /\ facts[i].kind = "WARRANTY" /\ listing.at \in Instant
      BY DEF ReadInv, ListingInv
    <3>2. facts[i].coverage \in Nat /\ facts[i].expires = Expires(facts[i].at, facts[i].coverage)
      BY <3>1 DEF RowsInv, WellMade
    <3>3. Instants[facts[i].at] \in Instant
      <4>1. facts[i] \in Fact
        BY <3>1, FactsAre
      <4> QED
        BY <4>1, HistoryAssumption DEF Fact, Moment
    <3> DEFINE d == Instants[facts[i].at].date
               c == facts[i].coverage
               end == facts[i].expires
    <3>4. d \in Date
      BY <3>3 DEF Instant
    <3>5. AddMonths(d, c) \in Date /\ DayNumber(AddMonths(d, c)) = DaysBefore(d.month + c) + d.day
      BY <3>2, <3>4, AddMonthsIsDate, AddMonthsCountsDays
    <3>6. end = [date |-> AddMonths(d, c), second |-> Instants[facts[i].at].second]
      BY <3>2 DEF Expires
    <3>7. end \in Instant /\ DayNumber(end.date) = lastDay(i) /\ end.second = issued(i).second
      BY <3>3, <3>5, <3>6 DEF Instant
    <3>8. left(i) = DaySeconds * (DayNumber(end.date) - DayNumber(listing.at.date))
                    + end.second - listing.at.second
      BY <3>7
    <3>9. left(i) \in Int
      <4>1. /\ DayNumber(end.date) \in Nat /\ DayNumber(listing.at.date) \in Nat
            /\ end.second \in Nat /\ listing.at.second \in Nat
        <5>1. \A t \in Instant : t.date \in Date /\ t.second \in Nat
          BY DEF Instant
        <5> QED
          BY <3>1, <3>7, <5>1, DaysAreCounted
      <4> HIDE DEF left, end
      <4> QED
        BY <3>8, <4>1 DEF DaySeconds
    <3> HIDE DEF left, end
    <3> QED
      BY <3>1, <3>7, <3>8, <3>9, EarlierCountsSeconds DEF end
  <2> HIDE DEF left
  <2>2. \A i \in listing.valid : left(i) > 0
    BY <2>1 DEF ReadInv, ListingInv
  <2>3. \A i \in listing.expired : left(i) <= 0
    BY <2>1 DEF ReadInv, ListingInv
  <2> QED
    BY <2>2, <2>3 DEF ValidUntilTheInstant, left
<1> QED
  BY <1>1, RecordedAndRead, PTL
=============================================================================
