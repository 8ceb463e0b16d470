---------------------------- MODULE ReportsProofs ----------------------------
(***************************************************************************)
(* What the computations of Reports yield for every calendar: months       *)
(* divide the days, the study year holds today, a grid is whole weeks, the *)
(* list has an order, and a sum over days counts what lies on them.        *)
(*                                                                         *)
(* Induction is by the least number a statement fails for (Least).         *)
(***************************************************************************)
EXTENDS Reports, FiniteSetTheorems, NaturalsInduction, WellFoundedInduction,
        TLAPS

-----------------------------------------------------------------------------
(* Numbers.                                                                *)

\* A set of numbers with a member has a least one.
LEMMA Least ==
  ASSUME NEW T \in SUBSET Nat, T # {}
  PROVE  \E n \in T : \A m \in T : n <= m
<1>1. IsWellFoundedOn(OpToRel(<, Nat), Nat)
  BY NatLessThanWellFounded
<1>2. PICK n \in T : \A m \in T : ~ (<<m, n>> \in OpToRel(<, Nat))
  BY <1>1, WFMin
<1>3. ASSUME NEW m \in T
      PROVE  n <= m
  <2>1. ~ (m < n)
    BY <1>2 DEF OpToRel
  <2>. QED
    BY <2>1
<1>. QED
  BY <1>3

\* So has one of integers that are not below a bound,
LEMMA LeastInt ==
  ASSUME NEW T \in SUBSET Int, T # {}, NEW a \in Int, \A n \in T : a <= n
  PROVE  \E n \in T : \A m \in T : n <= m
<1>. DEFINE U == {n - a : n \in T}
<1>1. U \in SUBSET Nat
  <2>1. \A n \in T : n - a \in Nat
    OBVIOUS
  <2>. QED
    BY <2>1
<1>0. U # {}
  OBVIOUS
<1>. HIDE DEF U
<1>2. PICK k \in U : \A l \in U : k <= l
  BY <1>0, <1>1, Least
<1>3. PICK n \in T : k = n - a
  BY DEF U
<1>4. ASSUME NEW m \in T
      PROVE  n <= m
  <2>1. m - a \in U
    BY DEF U
  <2>. QED
    BY <2>1, <1>2, <1>3
<1>. QED
  BY <1>4

\* and one of integers that are not above one has a greatest.
LEMMA GreatestInt ==
  ASSUME NEW T \in SUBSET Int, T # {}, NEW b \in Int, \A n \in T : n <= b
  PROVE  \E n \in T : \A m \in T : m <= n
<1>. DEFINE U == {b - n : n \in T}
<1>1. U \in SUBSET Nat
  <2>1. \A n \in T : b - n \in Nat
    OBVIOUS
  <2>. QED
    BY <2>1
<1>0. U # {}
  OBVIOUS
<1>. HIDE DEF U
<1>2. PICK k \in U : \A l \in U : k <= l
  BY <1>0, <1>1, Least
<1>3. PICK n \in T : k = b - n
  BY DEF U
<1>4. ASSUME NEW m \in T
      PROVE  m <= n
  <2>1. b - m \in U
    BY DEF U
  <2>. QED
    BY <2>1, <1>2, <1>3
<1>. QED
  BY <1>4

\* A smallest and a largest number are Min and Max.
LEMMA MinIs ==
  ASSUME NEW T \in SUBSET Int, NEW n \in T, \A m \in T : n <= m
  PROVE  Min(T) = n
<1>1. n \in T /\ \A m \in T : n <= m
  OBVIOUS
<1>2. Min(T) \in T /\ \A m \in T : Min(T) <= m
  BY <1>1 DEF Min
<1>3. Min(T) <= n /\ n <= Min(T)
  BY <1>1, <1>2
<1>4. Min(T) \in Int /\ n \in Int
  BY <1>2
<1>. QED
  BY <1>3, <1>4

\* The greatest element, when one is known to be it.
LEMMA MaxIs ==
  ASSUME NEW T \in SUBSET Int, NEW n \in T, \A m \in T : m <= n
  PROVE  Max(T) = n
<1>1. n \in T /\ \A m \in T : n >= m
  OBVIOUS
<1>2. Max(T) \in T /\ \A m \in T : Max(T) >= m
  BY <1>1 DEF Max
<1>3. Max(T) >= n /\ n >= Max(T)
  BY <1>1, <1>2
<1>4. Max(T) \in Int /\ n \in Int
  BY <1>2
<1>. QED
  BY <1>3, <1>4

\* Division with remainder,
LEMMA DivMod ==
  ASSUME NEW a \in Int, NEW b \in Nat \ {0}
  PROVE  /\ a \div b \in Int
         /\ a % b \in 0 .. b - 1
         /\ a = b * (a \div b) + (a % b)
OBVIOUS

\* of which there is one.
LEMMA NextMultiple ==
  ASSUME NEW q \in Int, NEW p \in Int, NEW b \in Nat \ {0}, q < p
  PROVE  b * q + b <= b * p
OBVIOUS

\* Quotient and remainder are determined by what they add up to.
LEMMA DivUnique ==
  ASSUME NEW a \in Int, NEW b \in Nat \ {0}, NEW q \in Int,
         NEW r \in 0 .. b - 1, a = b * q + r
  PROVE  a \div b = q /\ a % b = r
<1>1. ~ (a \div b < q)
  BY NextMultiple, DivMod
<1>2. ~ (q < a \div b)
  BY NextMultiple, DivMod
<1>. QED
  BY <1>1, <1>2, DivMod

\* Two numbers with one remainder that are not far apart are the same.
LEMMA SameRemainder ==
  ASSUME NEW b \in Nat \ {0}, NEW m \in Int, NEW n \in Int,
         m % b = n % b, m - n < b, n - m < b
  PROVE  m = n
<1>1. m - n = b * (m \div b) - b * (n \div b)
  <2>1. m = b * (m \div b) + (m % b) /\ n = b * (n \div b) + (n % b)
    BY DivMod
  <2>. QED
    BY <2>1, DivMod
<1>2. m \div b \in Int /\ n \div b \in Int
  BY DivMod
<1>3. ~ (m \div b < n \div b)
  BY <1>1, <1>2, NextMultiple
<1>4. ~ (n \div b < m \div b)
  BY <1>1, <1>2, NextMultiple
<1>. QED
  BY <1>1, <1>2, <1>3, <1>4

-----------------------------------------------------------------------------
(* The calendar.                                                           *)

\* A day has slots and a week has days.
LEMMA Lengths == DayLength \in Nat \ {0} /\ WeekLength \in Nat \ {0}
BY ReportsAssumption

\* DaysBefore is the sum it says, which is defined for each month.
IsDaysBefore(f, n) ==
  f = [i \in 0 .. n |-> IF i = 0 THEN 0 ELSE f[i - 1] + MonthDays[i]]

\* Up to every month there is a function with the equations of DaysBefore:
\* else the least month without one would have one after all.
LEMMA DaysBeforeExists ==
  ASSUME NEW n \in 0 .. Months
  PROVE  \E f : IsDaysBefore(f, n)
<1>1. Months \in Nat
  BY ReportsAssumption DEF Months
<1>. DEFINE Bad == {k \in 0 .. Months : ~ \E f : IsDaysBefore(f, k)}
<1>2. ASSUME Bad # {}
      PROVE  FALSE
  <2>1. Bad \in SUBSET Nat
    BY <1>1
  <2>2. PICK k \in Bad : \A l \in Bad : k <= l
    <3>. HIDE DEF Bad
    <3>. QED
      BY <1>2, <2>1, Least
  <2>3. CASE k = 0
    <3>1. IsDaysBefore([i \in 0 .. 0 |-> 0], 0)
      BY DEF IsDaysBefore
    <3>. QED
      BY <3>1, <2>2, <2>3
  <2>4. CASE k # 0
    <3>1. k \in 1 .. Months /\ k - 1 \in 0 .. Months /\ k - 1 \notin Bad
      BY <1>1, <2>2, <2>4
    <3>2. PICK g : IsDaysBefore(g, k - 1)
      BY <3>1
    <3>. DEFINE f == [i \in 0 .. k |->
                        IF i = 0 THEN 0 ELSE g[i - 1] + MonthDays[i]]
    <3>3. \A i \in 0 .. k - 1 : f[i] = g[i]
      BY <3>1, <3>2 DEF IsDaysBefore
    <3>4. \A i \in 1 .. k : f[i - 1] = g[i - 1] /\ i - 1 \in 0 .. k
      <4>1. \A i \in 1 .. k : i - 1 \in 0 .. k - 1 /\ i - 1 \in 0 .. k
        BY <3>1
      <4>. HIDE DEF f
      <4>. QED
        BY <3>3, <4>1
    <3>5. \A i \in 0 .. k :
            f[i] = IF i = 0 THEN 0 ELSE f[i - 1] + MonthDays[i]
      <4>1. \A i \in 0 .. k :
              /\ f[i] = IF i = 0 THEN 0 ELSE g[i - 1] + MonthDays[i]
              /\ i = 0 \/ i \in 1 .. k
        BY <3>1
      <4>. HIDE DEF f
      <4>. QED
        BY <3>4, <4>1
    <3>6. f = [i \in 0 .. k |-> f[i]]
      OBVIOUS
    <3>. HIDE DEF f
    <3>7. IsDaysBefore(f, k)
      BY <3>5, <3>6 DEF IsDaysBefore
    <3>. QED
      BY <3>7, <2>2
  <2>. QED
    BY <2>3, <2>4
<1>. QED
  BY <1>2

\* DaysBefore satisfies its equations.
LEMMA DaysBeforeIs ==
  /\ Months \in Nat /\ Months > 1
  /\ DaysBefore[0] = 0
  /\ \A i \in 1 .. Months : DaysBefore[i] = DaysBefore[i - 1] + MonthDays[i]
<1>1. Months \in Nat /\ Months > 1
  BY ReportsAssumption DEF Months
<1>2. \E f : IsDaysBefore(f, Months)
  BY <1>1, DaysBeforeExists
<1>3. IsDaysBefore(DaysBefore, Months)
  BY <1>2 DEF DaysBefore, IsDaysBefore
<1>. QED
  BY <1>1, <1>3 DEF IsDaysBefore

\* Every month has days enough for a week.
LEMMA MonthDaysAre ==
  ASSUME NEW i \in 1 .. Months
  PROVE  MonthDays[i] \in Nat \ {0} /\ MonthDays[i] >= WeekLength
BY ReportsAssumption DEF Months

\* Its values are numbers that increase.
LEMMA DaysBeforeGrows ==
  ASSUME NEW i \in 0 .. Months
  PROVE  DaysBefore[i] \in Nat /\ DaysBefore[i] >= i
<1>. DEFINE Bad == {k \in 0 .. Months :
                      ~ (DaysBefore[k] \in Nat /\ DaysBefore[k] >= k)}
<1>1. ASSUME Bad # {}
      PROVE  FALSE
  <2>1. Bad \in SUBSET Nat
    BY DaysBeforeIs
  <2>2. PICK k \in Bad : \A l \in Bad : k <= l
    <3>. HIDE DEF Bad
    <3>. QED
      BY <1>1, <2>1, Least
  <2>3. k # 0
    BY DaysBeforeIs, <2>2
  <2>4. k \in 1 .. Months /\ k - 1 \in 0 .. Months /\ k - 1 \notin Bad
    BY DaysBeforeIs, <2>2, <2>3
  <2>5. DaysBefore[k] = DaysBefore[k - 1] + MonthDays[k]
    BY <2>4, DaysBeforeIs
  <2>6. DaysBefore[k - 1] \in Nat /\ DaysBefore[k - 1] >= k - 1
    BY <2>4
  <2>7. DaysBefore[k] \in Nat /\ DaysBefore[k] >= k
    BY <2>4, <2>5, <2>6, MonthDaysAre
  <2>. QED
    BY <2>2, <2>7
<1>. QED
  BY <1>1

\* A year has more than one day.
LEMMA YearHasDays == YearDays \in Nat /\ YearDays > 1
BY DaysBeforeIs, DaysBeforeGrows DEF YearDays

\* The number of a month, its year and its place in the year.
LEMMA MonthSplit ==
  ASSUME NEW m \in Int
  PROVE  /\ m \div Months \in Int
         /\ m % Months \in 0 .. Months - 1
         /\ m = Months * (m \div Months) + (m % Months)
BY DaysBeforeIs, DivMod

\* Where a month starts, by its year and its place in the year.
LEMMA MonthOfYear ==
  ASSUME NEW y \in Int, NEW i \in 0 .. Months - 1
  PROVE  MonthStart(y * Months + i) = y * YearDays + DaysBefore[i]
<1>1. y * Months + i \in Int /\ y * Months + i = Months * y + i
  BY DaysBeforeIs
<1>2. (y * Months + i) \div Months = y /\ (y * Months + i) % Months = i
  BY <1>1, DaysBeforeIs, DivUnique
<1>. QED
  BY <1>2 DEF MonthStart

\* Months start on days.
LEMMA MonthStartType ==
  ASSUME NEW m \in Int
  PROVE  MonthStart(m) \in Int
<1>1. m \div Months \in Int /\ m % Months \in 0 .. Months
  BY MonthSplit, DaysBeforeIs
<1>2. DaysBefore[m % Months] \in Nat
  BY <1>1, DaysBeforeGrows
<1>3. (m \div Months) * YearDays \in Int
  BY <1>1, YearHasDays
<1>. QED
  BY <1>2, <1>3 DEF MonthStart

\* A month ends where the next one begins,
LEMMA MonthLasts ==
  ASSUME NEW m \in Int
  PROVE  /\ (m % Months) + 1 \in 1 .. Months
         /\ MonthStart(m + 1) = MonthStart(m) + MonthDays[(m % Months) + 1]
<1>. DEFINE y == m \div Months
            i == m % Months
<1>1. y \in Int /\ i \in 0 .. Months - 1 /\ m = y * Months + i
  BY MonthSplit, DaysBeforeIs
<1>2. i + 1 \in 1 .. Months /\ DaysBefore[i + 1] = DaysBefore[i] + MonthDays[i + 1]
  BY <1>1, DaysBeforeIs
<1>3. MonthStart(m) = y * YearDays + DaysBefore[i]
  BY DEF MonthStart
<1>. HIDE DEF y, i
<1>6. /\ y * YearDays \in Int /\ (y + 1) * YearDays = y * YearDays + YearDays
      /\ DaysBefore[i] \in Nat /\ MonthDays[i + 1] \in Nat
  BY <1>1, <1>2, YearHasDays, DaysBeforeIs, DaysBeforeGrows, MonthDaysAre
<1>4. CASE i + 1 < Months
  <2>1. i + 1 \in 0 .. Months - 1 /\ m + 1 = y * Months + (i + 1)
    BY <1>1, <1>4, DaysBeforeIs
  <2>2. MonthStart(m + 1) = y * YearDays + DaysBefore[i + 1]
    BY <1>1, <2>1, MonthOfYear
  <2>. QED
    BY <1>2, <1>3, <1>6, <2>2 DEF i
<1>5. CASE i + 1 = Months
  <2>1. m + 1 = (y + 1) * Months + 0 /\ 0 \in 0 .. Months - 1 /\ y + 1 \in Int
    BY <1>1, <1>5, DaysBeforeIs
  <2>2. MonthStart(m + 1) = (y + 1) * YearDays + 0
    BY <2>1, MonthOfYear, DaysBeforeIs
  <2>3. DaysBefore[i + 1] = YearDays
    BY <1>5 DEF YearDays
  <2>. QED
    BY <1>2, <1>3, <1>6, <2>2, <2>3 DEF i
<1>. QED
  BY <1>1, <1>4, <1>5, DaysBeforeIs

\* so that months follow each other, each with a week or more.
LEMMA NextMonthLater ==
  ASSUME NEW m \in Int
  PROVE  /\ MonthStart(m) \in Int /\ MonthStart(m + 1) \in Int
         /\ MonthStart(m) < MonthStart(m + 1)
         /\ MonthStart(m) + WeekLength <= MonthStart(m + 1)
<1>1. /\ MonthDays[(m % Months) + 1] \in Nat \ {0}
      /\ MonthDays[(m % Months) + 1] >= WeekLength
  BY MonthLasts, MonthDaysAre
<1>2. MonthStart(m + 1) = MonthStart(m) + MonthDays[(m % Months) + 1]
  BY MonthLasts
<1>3. MonthStart(m) \in Int /\ WeekLength \in Nat
  BY MonthStartType, Lengths
<1>. QED
  BY <1>1, <1>2, <1>3

\* A later month starts later, in this year or another one.
LEMMA MonthsFollow ==
  ASSUME NEW m \in Int, NEW n \in Int, m < n
  PROVE  MonthStart(m) < MonthStart(n)
<1>. DEFINE Bad == {k \in Int : m < k /\ ~ (MonthStart(m) < MonthStart(k))}
<1>1. ASSUME Bad # {}
      PROVE  FALSE
  <2>1. PICK k \in Bad : \A l \in Bad : k <= l
    <3>1. Bad \in SUBSET Int /\ \A l \in Bad : m <= l
      OBVIOUS
    <3>. HIDE DEF Bad
    <3>. QED
      BY <1>1, <3>1, LeastInt
  <2>2. k - 1 \in Int /\ k - 1 \notin Bad /\ (k - 1) + 1 = k
    BY <2>1
  <2>3. MonthStart(k - 1) < MonthStart(k)
    BY <2>2, NextMonthLater
  <2>4. k - 1 = m \/ MonthStart(m) < MonthStart(k - 1)
    BY <2>1, <2>2
  <2>. QED
    BY <2>1, <2>2, <2>3, <2>4, MonthStartType
<1>. QED
  BY <1>1

\* Months and their first days are in the same order.
LEMMA MonthsInOrder ==
  ASSUME NEW m \in Int, NEW n \in Int
  PROVE  /\ m < n <=> MonthStart(m) < MonthStart(n)
         /\ m <= n <=> MonthStart(m) <= MonthStart(n)
BY MonthsFollow, MonthStartType

\* Every day is in one month.
LEMMA MonthOfIs ==
  ASSUME NEW d \in Int
  PROVE  /\ MonthOf(d) \in Int
         /\ MonthStart(MonthOf(d)) <= d /\ d < MonthStart(MonthOf(d) + 1)
<1>. DEFINE y == d \div YearDays
            In == {m \in y * Months .. (y + 1) * Months : MonthStart(m) <= d}
<1>1. /\ y \in Int /\ y + 1 \in Int
      /\ y * YearDays <= d /\ d < (y + 1) * YearDays
  BY DivMod, YearHasDays
<1>2. /\ y * Months \in Int /\ (y + 1) * Months \in Int
      /\ y * Months <= (y + 1) * Months
      /\ y * Months + 0 = y * Months /\ (y + 1) * Months + 0 = (y + 1) * Months
  BY <1>1, DaysBeforeIs
<1>3. /\ MonthStart(y * Months) = y * YearDays
      /\ MonthStart((y + 1) * Months) = (y + 1) * YearDays
  <2>1. 0 \in 0 .. Months - 1
    BY DaysBeforeIs
  <2>2. /\ MonthStart(y * Months + 0) = y * YearDays + 0
        /\ MonthStart((y + 1) * Months + 0) = (y + 1) * YearDays + 0
    BY <1>1, <2>1, MonthOfYear, DaysBeforeIs
  <2>. QED
    BY <1>1, <1>2, <2>2, YearHasDays
<1>4. PICK m \in In : \A n \in In : n <= m
  <2>1. /\ In \in SUBSET Int /\ In # {}
        /\ \A n \in In : n <= (y + 1) * Months
    BY <1>1, <1>2, <1>3
  <2>. HIDE DEF In
  <2>. QED
    BY <2>1, <1>2, GreatestInt
<1>5. m # (y + 1) * Months
  BY <1>1, <1>3, <1>4, YearHasDays
<1>6. m + 1 \in y * Months .. (y + 1) * Months /\ m \in Int
  BY <1>2, <1>4, <1>5
<1>7. d < MonthStart(m + 1)
  <2>1. m + 1 \notin In
    BY <1>4, <1>6
  <2>. QED
    BY <1>6, <2>1, MonthStartType
<1>8. \E n \in y * Months .. (y + 1) * Months :
        MonthStart(n) <= d /\ d < MonthStart(n + 1)
  BY <1>4, <1>7
<1>9. /\ MonthOf(d) \in y * Months .. (y + 1) * Months
      /\ MonthStart(MonthOf(d)) <= d /\ d < MonthStart(MonthOf(d) + 1)
  <2>. HIDE DEF In
  <2>. QED
    BY <1>8 DEF MonthOf
<1>. QED
  BY <1>2, <1>9

\* The month of a day is the only one that has it.
LEMMA MonthOfUnique ==
  ASSUME NEW d \in Int, NEW m \in Int,
         MonthStart(m) <= d, d < MonthStart(m + 1)
  PROVE  MonthOf(d) = m
<1>1. MonthOf(d) \in Int /\ MonthOf(d) + 1 \in Int /\ m + 1 \in Int
  BY MonthOfIs
<1>2. /\ MonthStart(MonthOf(d)) < MonthStart(m + 1)
      /\ MonthStart(m) < MonthStart(MonthOf(d) + 1)
  BY <1>1, MonthOfIs, MonthStartType
<1>3. MonthOf(d) < m + 1 /\ m < MonthOf(d) + 1
  BY <1>1, <1>2, MonthsInOrder
<1>. QED
  BY <1>1, <1>3

\* Months follow days.
LEMMA MonthOfOrder ==
  ASSUME NEW d \in Int, NEW e \in Int, d <= e
  PROVE  MonthOf(d) <= MonthOf(e)
<1>1. /\ MonthOf(d) \in Int /\ MonthOf(e) \in Int /\ MonthOf(e) + 1 \in Int
      /\ MonthStart(MonthOf(d)) < MonthStart(MonthOf(e) + 1)
  BY MonthOfIs, MonthStartType
<1>2. MonthOf(d) < MonthOf(e) + 1
  BY <1>1, MonthsInOrder
<1>. QED
  BY <1>1, <1>2

\* The month a study year begins in comes once in as many months as a year
\* has, so there is one study year today is in.
LEMMA StudyMonth ==
  ASSUME NEW k \in Int
  PROVE  \E m \in k - Months + 1 .. k : m % Months = FirstMonth
<1>. DEFINE r == (k - FirstMonth) % Months
            m == k - r
<1>1. /\ FirstMonth \in 0 .. Months - 1 /\ k - FirstMonth \in Int
      /\ Months \in Nat \ {0}
  BY ReportsAssumption, DaysBeforeIs DEF Months
<1>2. /\ r \in 0 .. Months - 1
      /\ (k - FirstMonth) \div Months \in Int
      /\ k - FirstMonth = Months * ((k - FirstMonth) \div Months) + r
  BY <1>1, DivMod
<1>3. /\ m \in Int /\ m \in k - Months + 1 .. k
      /\ m = Months * ((k - FirstMonth) \div Months) + FirstMonth
  BY <1>1, <1>2
<1>4. m % Months = FirstMonth
  <2>. HIDE DEF m
  <2>. QED
    BY <1>1, <1>2, <1>3, DivUnique
<1>. QED
  BY <1>3, <1>4

\* The study year of a day is the twelve months around it that start with
\* FirstMonth.
LEMMA StudentYearIs ==
  ASSUME NEW today \in Int
  PROVE  \E m \in Int :
           /\ m % Months = FirstMonth
           /\ StudentYear(today).from = MonthStart(m)
           /\ StudentYear(today).to = MonthStart(m + Months) - 1
           /\ MonthStart(m) \in Int /\ MonthStart(m + Months) \in Int
           /\ MonthStart(m) <= today /\ today < MonthStart(m + Months)
           /\ MonthStart(m) + 1 < MonthStart(m + Months)
<1>. DEFINE k == MonthOf(today)
            First(n) == n \in k - Months + 1 .. k /\ n % Months = FirstMonth
            m == CHOOSE n \in k - Months + 1 .. k : n % Months = FirstMonth
<1>1. k \in Int /\ k + 1 \in Int /\ Months \in Nat \ {0}
  BY MonthOfIs, DaysBeforeIs
<1>2. m \in k - Months + 1 .. k /\ m % Months = FirstMonth
  BY <1>1, StudyMonth
<1>3. /\ StudentYear(today).from = MonthStart(m)
      /\ StudentYear(today).to = MonthStart(m + Months) - 1
  BY DEF StudentYear
<1>. HIDE DEF m
<1>4. m \in Int /\ m + Months \in Int /\ m <= k /\ k + 1 <= m + Months
  BY <1>1, <1>2
<1>5. /\ MonthStart(m) \in Int /\ MonthStart(m + Months) \in Int
      /\ MonthStart(k) \in Int /\ MonthStart(k + 1) \in Int
  BY <1>1, <1>4, MonthStartType
<1>6. MonthStart(m) <= MonthStart(k) /\ MonthStart(k + 1) <= MonthStart(m + Months)
  BY <1>1, <1>4, MonthsInOrder
<1>7. MonthStart(k) <= today /\ today < MonthStart(k + 1)
  BY MonthOfIs
<1>8. MonthStart(m) + 1 < MonthStart(m + Months)
  <2>1. m + 1 \in Int /\ m < m + 1 /\ m + 1 < m + Months
    BY <1>4, DaysBeforeIs
  <2>2. /\ MonthStart(m) < MonthStart(m + 1)
        /\ MonthStart(m + 1) < MonthStart(m + Months)
    BY <1>4, <2>1, MonthsInOrder
  <2>. QED
    BY <1>5, <2>1, <2>2, MonthStartType
<1>. QED
  BY <1>2, <1>3, <1>4, <1>5, <1>6, <1>7, <1>8

\* The grid of a month.
LEMMA GridIs ==
  ASSUME NEW m \in Int
  PROVE  \E a \in Int, w \in Nat \ {0} :
           LET z == a + w * WeekLength - 1
           IN /\ Grid(m) = a .. z /\ z \in Int /\ a <= z
              /\ a % WeekLength = 0
              /\ a <= MonthStart(m) /\ MonthStart(m) - a <= WeekLength - 1
              /\ MonthStart(m + 1) - 1 <= z
              /\ z - (MonthStart(m + 1) - 1) <= WeekLength - 1
<1>. DEFINE s == MonthStart(m)
            e == MonthStart(m + 1) - 1
            a == Monday(s)
            w == (e - a) \div WeekLength + 1
            z == a + w * WeekLength - 1
<1>1. s \in Int /\ e \in Int /\ s <= e /\ WeekLength \in Nat \ {0}
  <2>1. MonthStart(m) \in Int /\ MonthStart(m + 1) \in Int
        /\ MonthStart(m) < MonthStart(m + 1)
    BY NextMonthLater
  <2>. QED
    BY <2>1, Lengths
<1>. HIDE DEF s, e
<1>2. /\ a \in Int /\ a <= s /\ s - a <= WeekLength - 1
      /\ a = WeekLength * (s \div WeekLength) + 0 /\ s \div WeekLength \in Int
  BY <1>1, DivMod DEF Monday
<1>. HIDE DEF a
<1>3. a % WeekLength = 0
  <2>1. 0 \in 0 .. WeekLength - 1
    BY <1>1
  <2>. QED
    BY <1>1, <1>2, <2>1, DivUnique
<1>. DEFINE q == (e - a) \div WeekLength
<1>4. /\ q \in Int /\ e - a \in Nat
      /\ WeekLength * q <= e - a /\ e - a < WeekLength * q + WeekLength
  BY <1>1, <1>2, DivMod
<1>. HIDE DEF q
<1>5. q \in Nat
  <2>1. ~ (q < 0)
    <3>1. q < 0 => WeekLength * q + WeekLength <= WeekLength * 0
      BY <1>1, <1>4, NextMultiple
    <3>. QED
      BY <1>1, <1>4, <3>1
  <2>. QED
    BY <1>4, <2>1
<1>6. /\ w \in Nat \ {0} /\ z = a + WeekLength * q + WeekLength - 1
      /\ WeekLength * q \in Int
  BY <1>1, <1>2, <1>5 DEF q
<1>7. /\ z \in Int /\ a <= z /\ e <= z /\ z - e <= WeekLength - 1
  BY <1>1, <1>2, <1>4, <1>6
<1>8. Grid(m) = a .. z
  BY DEF Grid, a, s, e
<1>. HIDE DEF w
<1>. QED
  BY <1>2, <1>3, <1>6, <1>7, <1>8 DEF s, e

\* A day is in the grid of a month and of that month of a year only if it is
\* in the month.
LEMMA InGridAndMonth ==
  ASSUME NEW m \in Int, NEW d \in Grid(m)
  PROVE  MonthOf(d) % Months = m % Months <=>
           MonthStart(m) <= d /\ d < MonthStart(m + 1)
<1>1. PICK a \in Int, z \in Int :
        /\ Grid(m) = a .. z
        /\ MonthStart(m) - a <= WeekLength - 1
        /\ z - (MonthStart(m + 1) - 1) <= WeekLength - 1
  BY GridIs
<1>0. d \in Int /\ m - 1 \in Int /\ m + 1 \in Int /\ m + 2 \in Int
  BY <1>1
<1>2. /\ d \in Int /\ a <= d /\ d <= z /\ WeekLength \in Nat
      /\ m - 1 \in Int /\ m + 1 \in Int /\ m + 2 \in Int
  BY <1>0, <1>1, Lengths
<1>9. /\ MonthStart(m - 1) \in Int /\ MonthStart(m) \in Int
      /\ MonthStart(m + 1) \in Int /\ MonthStart(m + 2) \in Int
  BY <1>0, MonthStartType
<1>3. /\ MonthStart(m - 1) + WeekLength <= MonthStart(m)
      /\ MonthStart(m + 1) + WeekLength <= MonthStart(m + 2)
  <2>1. (m - 1) + 1 = m /\ (m + 1) + 1 = m + 2
    OBVIOUS
  <2>2. /\ MonthStart(m - 1) + WeekLength <= MonthStart((m - 1) + 1)
        /\ MonthStart(m + 1) + WeekLength <= MonthStart((m + 1) + 1)
    BY <1>2, NextMonthLater
  <2>. QED
    BY <2>1, <2>2
<1>4. MonthStart(m - 1) <= d /\ d < MonthStart(m + 2)
  BY <1>1, <1>2, <1>3, <1>9
<1>5. /\ MonthOf(d) \in Int /\ MonthOf(d) + 1 \in Int
      /\ MonthStart(MonthOf(d)) <= d /\ d < MonthStart(MonthOf(d) + 1)
      /\ MonthStart(MonthOf(d)) \in Int /\ MonthStart(MonthOf(d) + 1) \in Int
  BY <1>2, MonthOfIs, MonthStartType
<1>6. /\ MonthStart(m - 1) < MonthStart(MonthOf(d) + 1)
      /\ MonthStart(MonthOf(d)) < MonthStart(m + 2)
  BY <1>2, <1>4, <1>5, <1>9
<1>7. m - 1 < MonthOf(d) + 1 /\ MonthOf(d) < m + 2
  BY <1>2, <1>5, <1>6, MonthsInOrder
<1>8. MonthOf(d) % Months = m % Months <=> MonthOf(d) = m
  <2>1. Months \in Nat \ {0} /\ Months >= 2
    BY DaysBeforeIs
  <2>2. MonthOf(d) - m < Months /\ m - MonthOf(d) < Months
    BY <1>5, <1>7, <2>1
  <2>. QED
    BY <1>5, <2>1, <2>2, SameRemainder
<1>. QED
  BY <1>2, <1>5, <1>8, MonthOfUnique

-----------------------------------------------------------------------------
(* Days.                                                                   *)

\* A time is its day and the slot in it.
LEMMA DayIs ==
  ASSUME NEW t \in Int
  PROVE  /\ Day(t) \in Int /\ t % DayLength \in 0 .. DayLength - 1
         /\ t = DayLength * Day(t) + (t % DayLength)
BY Lengths, DivMod DEF Day

\* Times from now on have days from now on.
LEMMA DayOfNat ==
  ASSUME NEW t \in Nat
  PROVE  Day(t) \in Nat
<1>1. ~ (Day(t) < 0)
  <2>1. Day(t) \in Int /\ t % DayLength < DayLength /\ t % DayLength \in Int
        /\ t = DayLength * Day(t) + (t % DayLength)
    BY DayIs, Lengths
  <2>2. Day(t) < 0 => DayLength * Day(t) + DayLength <= DayLength * 0
    BY <2>1, NextMultiple, Lengths
  <2>. QED
    BY <2>1, <2>2, Lengths
<1>. QED
  BY <1>1, DayIs

\* No day comes before that of an earlier time.
LEMMA DaysPass ==
  ASSUME NEW t \in Nat, NEW u \in Nat, t <= u
  PROVE  Day(t) <= Day(u)
<1>1. /\ Day(t) \in Int /\ t % DayLength \in 0 .. DayLength - 1
      /\ t = DayLength * Day(t) + (t % DayLength)
  BY DayIs
<1>2. /\ Day(u) \in Int /\ u % DayLength \in 0 .. DayLength - 1
      /\ u = DayLength * Day(u) + (u % DayLength)
  BY DayIs
<1>3. Day(u) < Day(t) => DayLength * Day(u) + DayLength <= DayLength * Day(t)
  BY <1>1, <1>2, NextMultiple, Lengths
<1>4. DayLength * Day(t) \in Int /\ DayLength * Day(u) \in Int
  BY <1>1, <1>2, Lengths
<1>. QED
  BY <1>1, <1>2, <1>3, <1>4, Lengths

\* The day in UTC is the one before where local time is ahead by more than
\* has passed of the day.
LEMMA UTCDayIs ==
  ASSUME NEW t \in Int, NEW zone \in 0 .. DayLength - 1
  PROVE  UTCDay(t, zone) = IF t % DayLength < zone THEN Day(t) - 1 ELSE Day(t)
<1>. DEFINE r == t % DayLength
<1>1. /\ DayLength \in Nat \ {0} /\ t - zone \in Int /\ zone \in Int
      /\ Day(t) \in Int /\ Day(t) - 1 \in Int /\ r \in 0 .. DayLength - 1
      /\ t = DayLength * Day(t) + r
      /\ DayLength * (Day(t) - 1) = DayLength * Day(t) - DayLength
  BY Lengths, DayIs
<1>. HIDE DEF r
<1>. DEFINE p == DayLength * Day(t)
<1>4. p \in Int /\ t = p + r /\ DayLength * (Day(t) - 1) = p - DayLength
  BY <1>1
<1>. HIDE DEF p
<1>2. CASE r < zone
  <2>1. /\ r - zone + DayLength \in 0 .. DayLength - 1
        /\ t - zone = p - DayLength + (r - zone + DayLength)
    BY <1>1, <1>2, <1>4
  <2>3. t - zone = DayLength * (Day(t) - 1) + (r - zone + DayLength)
    BY <1>1, <1>4, <2>1
  <2>2. UTCDay(t, zone) = Day(t) - 1
    BY <1>1, <2>1, <2>3, DivUnique DEF UTCDay
  <2>. QED
    BY <1>2, <2>2 DEF r
<1>3. CASE ~ (r < zone)
  <2>1. /\ r - zone \in 0 .. DayLength - 1
        /\ t - zone = p + (r - zone)
    BY <1>1, <1>3, <1>4
  <2>2. UTCDay(t, zone) = Day(t)
    BY <1>1, <2>1, DivUnique DEF UTCDay, p
  <2>. QED
    BY <1>3, <2>2 DEF r
<1>. QED
  BY <1>2, <1>3

\* What is marked as today.
LEMMA IsTodayIs ==
  ASSUME NEW d \in Int, NEW now \in Int, NEW zone \in 0 .. DayLength - 1,
         IsToday(d, now, zone)
  PROVE  d = IF zone = 0 \/ now % DayLength < zone THEN Day(now)
             ELSE Day(now) + 1
<1>1. DayLength \in Nat \ {0} /\ d * DayLength \in Int
      /\ d * DayLength = DayLength * d + 0
  BY Lengths
<1>2. Day(d * DayLength) = d /\ (d * DayLength) % DayLength = 0
  BY <1>1, DivUnique DEF Day
<1>3. UTCDay(d * DayLength, zone) = IF 0 < zone THEN d - 1 ELSE d
  BY <1>1, <1>2, UTCDayIs
<1>4. UTCDay(now, zone) = IF now % DayLength < zone THEN Day(now) - 1
                          ELSE Day(now)
  BY UTCDayIs
<1>5. Day(now) \in Int /\ now % DayLength \in Nat /\ zone \in Nat
  BY DayIs, Lengths
<1>. QED
  BY <1>3, <1>4, <1>5 DEF IsToday

-----------------------------------------------------------------------------
(* Orders.                                                                 *)

\* A finite set with a strict order has a list in that order: the place of a
\* member is the number of those before it.
LEMMA SortedListExists ==
  ASSUME NEW S, IsFiniteSet(S), NEW R,
         \A x \in S : <<x, x>> \notin R,
         \A x, y, z \in S : <<x, y>> \in R /\ <<y, z>> \in R => <<x, z>> \in R,
         \A x, y \in S : x = y \/ <<x, y>> \in R \/ <<y, x>> \in R
  PROVE  \E s \in SetToSeqs(S) :
           \A i, j \in DOMAIN s : i < j => <<s[i], s[j]>> \in R
<1>. DEFINE n == Cardinality(S)
            Below(x) == {y \in S : <<y, x>> \in R}
            f == [x \in S |-> Cardinality(Below(x)) + 1]
<1>1. n \in Nat
  BY FS_CardinalityType
<1>2. ASSUME NEW x \in S
      PROVE  /\ IsFiniteSet(Below(x)) /\ Cardinality(Below(x)) \in Nat
             /\ f[x] \in 1 .. n
  <2>1. Below(x) \in SUBSET (S \ {x})
    OBVIOUS
  <2>2. IsFiniteSet(S \ {x}) /\ Cardinality(S \ {x}) = n - 1
    BY FS_RemoveElement
  <2>. HIDE DEF Below
  <2>3. IsFiniteSet(Below(x)) /\ Cardinality(Below(x)) <= n - 1
    BY <2>1, <2>2, FS_Subset
  <2>4. Cardinality(Below(x)) \in Nat
    BY <2>3, FS_CardinalityType
  <2>. QED
    BY <1>1, <2>3, <2>4
<1>3. ASSUME NEW x \in S, NEW y \in S, <<x, y>> \in R
      PROVE  f[x] < f[y]
  <2>1. Below(x) \in SUBSET Below(y) /\ x \in Below(y) /\ x \notin Below(x)
    BY <1>3
  <2>2. /\ IsFiniteSet(Below(y))
        /\ Cardinality(Below(x)) \in Nat /\ Cardinality(Below(y)) \in Nat
    BY <1>2
  <2>3. f[x] = Cardinality(Below(x)) + 1 /\ f[y] = Cardinality(Below(y)) + 1
    OBVIOUS
  <2>. HIDE DEF Below, f
  <2>4. Cardinality(Below(x)) < Cardinality(Below(y))
    BY <2>1, <2>2, FS_Subset
  <2>. QED
    BY <2>2, <2>3, <2>4
<1>4. f \in [S -> 1 .. n]
  BY <1>2
<1>. HIDE DEF f
<1>5. \A x, y \in S : f[x] = f[y] => x = y
  <2>1. \A x \in S : f[x] \in Int
    BY <1>1, <1>4
  <2>2. \A x, y \in S : <<x, y>> \in R => f[x] < f[y]
    BY <1>3
  <2>3. ASSUME NEW x \in S, NEW y \in S, f[x] = f[y], x # y
        PROVE  FALSE
    <3>1. f[x] < f[y] \/ f[y] < f[x]
      BY <2>2, <2>3
    <3>2. f[x] \in Int
      BY <2>1
    <3>. QED
      BY <2>3, <3>1, <3>2
  <2>. QED
    BY <2>3
<1>6. f \in Injection(S, 1 .. n)
  BY <1>4, <1>5 DEF Injection, IsInjective
<1>7. IsFiniteSet(1 .. n) /\ Cardinality(1 .. n) = n
  BY <1>1, FS_Interval
<1>8. f \in Surjection(S, 1 .. n)
  BY <1>6, <1>7, FS_Injection
<1>9. \A i \in 1 .. n : \E x \in S : f[x] = i
  BY <1>8 DEF Surjection
<1>. DEFINE s == [i \in 1 .. n |-> CHOOSE x \in S : f[x] = i]
<1>10. \A i \in 1 .. n : s[i] \in S /\ f[s[i]] = i
  BY <1>9
<1>11. s \in [1 .. n -> S] /\ DOMAIN s = 1 .. n
  BY <1>10
<1>. HIDE DEF s
<1>12. s \in SetToSeqs(S)
  BY <1>10, <1>11 DEF SetToSeqs
<1>13. ASSUME NEW i \in 1 .. n, NEW j \in 1 .. n, i < j
       PROVE  <<s[i], s[j]>> \in R
  <2>1. s[i] \in S /\ s[j] \in S /\ s[i] # s[j] /\ ~ (f[s[j]] < f[s[i]])
    BY <1>1, <1>10, <1>13
  <2>. QED
    BY <1>3, <2>1
<1>. QED
  BY <1>11, <1>12, <1>13

\* A list of a finite set has each of its members once.
LEMMA ListHasAll ==
  ASSUME NEW S, IsFiniteSet(S), NEW s \in SetToSeqs(S)
  PROVE  /\ Cardinality(S) \in Nat
         /\ DOMAIN s = 1 .. Cardinality(S) /\ Len(s) = Cardinality(S)
         /\ \A i \in DOMAIN s : s[i] \in S
         /\ IsInjective(s) /\ Range(s) = S
<1>1. Cardinality(S) \in Nat
  BY FS_CardinalityType
<1>2. /\ s \in [1 .. Cardinality(S) -> S]
      /\ \A i, j \in 1 .. Cardinality(S) : i # j => s[i] # s[j]
  BY DEF SetToSeqs
<1>3. Len(s) = Cardinality(S)
  BY <1>1, <1>2
<1>4. IsInjective(s)
  BY <1>2 DEF IsInjective
<1>5. s \in Injection(1 .. Cardinality(S), S)
  BY <1>2, <1>4 DEF Injection
<1>6. s \in Surjection(1 .. Cardinality(S), S)
  <2>1. Cardinality(1 .. Cardinality(S)) = Cardinality(S)
    BY <1>1, FS_Interval
  <2>. QED
    BY <1>5, <2>1, FS_Injection
<1>7. Range(s) = S
  BY <1>2, <1>6 DEF Surjection, Range
<1>. QED
  BY <1>1, <1>2, <1>3, <1>4, <1>7

\* There is a list in the order of Before.
LEMMA ListedIs ==
  ASSUME NEW rows, NEW now \in Int, IsFiniteSet(DOMAIN rows),
         DOMAIN rows \subseteq Int,
         \A o \in DOMAIN rows : rows[o].date \in Int
  PROVE  LET s == Listed(rows, now)
         IN /\ s \in SetToSeqs(DOMAIN rows)
            /\ \A i, j \in DOMAIN s : i < j => Before(rows, now, s[i], s[j])
<1>. DEFINE D == DOMAIN rows
            R == {p \in D \X D : Before(rows, now, p[1], p[2])}
<1>1. \A x, y \in D : <<x, y>> \in R <=> Before(rows, now, x, y)
  OBVIOUS
<1>2. \A x \in D : ~ Before(rows, now, x, x)
  BY DEF Before, Past
<1>3. \A x, y, z \in D :
        Before(rows, now, x, y) /\ Before(rows, now, y, z)
          => Before(rows, now, x, z)
  BY DEF Before, Past
<1>4. \A x, y \in D :
        x = y \/ Before(rows, now, x, y) \/ Before(rows, now, y, x)
  BY DEF Before, Past
<1>. HIDE DEF R
<1>5. \E s \in SetToSeqs(D) :
        \A i, j \in DOMAIN s : i < j => <<s[i], s[j]>> \in R
  BY <1>1, <1>2, <1>3, <1>4, SortedListExists
<1>6. \E s \in SetToSeqs(D) :
        \A i, j \in DOMAIN s : i < j => Before(rows, now, s[i], s[j])
  <2>1. PICK s \in SetToSeqs(D) :
          \A i, j \in DOMAIN s : i < j => <<s[i], s[j]>> \in R
    BY <1>5
  <2>2. \A i \in DOMAIN s : s[i] \in D
    BY ListHasAll
  <2>. QED
    BY <1>1, <2>1, <2>2
<1>. QED
  BY <1>6 DEF Listed

\* What is in order step by step is in order.
LEMMA InOrderThroughout ==
  ASSUME NEW S, NEW n \in Nat, NEW s \in [1 .. n -> S], NEW entries,
         \A u \in S : entries[u].count \in Nat /\ entries[u].absent \in BOOLEAN,
         InOrder(s, entries),
         NEW i \in 1 .. n, NEW j \in 1 .. n, i < j
  PROVE  /\ entries[s[i]].absent => entries[s[j]].absent
         /\ entries[s[i]].absent = entries[s[j]].absent =>
              entries[s[i]].count <= entries[s[j]].count
<1>. DEFINE Le(e, f) == /\ e.absent => f.absent
                        /\ e.absent = f.absent => e.count <= f.count
            Bad == {k \in i + 1 .. n : ~ Le(entries[s[i]], entries[s[k]])}
<1>1. \A k \in 1 .. n - 1 : Le(entries[s[k]], entries[s[k + 1]])
  <2>1. Len(s) = n
    OBVIOUS
  <2>2. ASSUME NEW k \in 1 .. n - 1
        PROVE  Le(entries[s[k]], entries[s[k + 1]])
    <3>1. s[k] \in S /\ s[k + 1] \in S
      OBVIOUS
    <3>2. IF entries[s[k]].absent # entries[s[k + 1]].absent
            THEN entries[s[k + 1]].absent
            ELSE entries[s[k]].count <= entries[s[k + 1]].count
      BY <2>1 DEF InOrder
    <3>. QED
      BY <3>1, <3>2
  <2>. QED
    BY <2>2
<1>2. ASSUME Bad # {}
      PROVE  FALSE
  <2>1. Bad \in SUBSET Nat
    OBVIOUS
  <2>2. PICK k \in Bad : \A l \in Bad : k <= l
    <3>. HIDE DEF Bad
    <3>. QED
      BY <1>2, <2>1, Least
  <2>3. k \in i + 1 .. n /\ k - 1 \in 1 .. n - 1 /\ (k - 1) + 1 = k
    BY <2>2
  <2>4. Le(entries[s[k - 1]], entries[s[k]])
    <3>1. Le(entries[s[k - 1]], entries[s[(k - 1) + 1]])
      BY <1>1, <2>3
    <3>. QED
      BY <2>3, <3>1
  <2>5. k - 1 # i => Le(entries[s[i]], entries[s[k - 1]])
    BY <2>2, <2>3
  <2>6. s[i] \in S /\ s[k - 1] \in S /\ s[k] \in S
    BY <2>3
  <2>7. Le(entries[s[i]], entries[s[k]])
    BY <2>4, <2>5, <2>6
  <2>. QED
    BY <2>2, <2>7
<1>. QED
  BY <1>2

-----------------------------------------------------------------------------
(* Sums over days, and what they count.                                    *)

\* The fold the sum of f over a finite set is made of.
AMember(s) == CHOOSE x \in s : TRUE
IsSum(g, f, D) ==
  g = [s \in D |-> IF s = {} THEN 0
                   ELSE f[AMember(s)] + g[s \ {AMember(s)}]]

\* The equations of a sum have a solution on every finite set, by the size
\* of the set.
LEMMA SumExists ==
  ASSUME NEW S, IsFiniteSet(S), NEW f
  PROVE  \E g : IsSum(g, f, SUBSET S)
<1>. DEFINE Upto(n) == {s \in SUBSET S : Cardinality(s) <= n}
            Bad == {n \in Nat : ~ \E g : IsSum(g, f, Upto(n))}
<1>1. \A s \in SUBSET S : IsFiniteSet(s) /\ Cardinality(s) \in Nat
  BY FS_Subset, FS_CardinalityType
<1>2. \A s \in SUBSET S : s # {} =>
        /\ AMember(s) \in s /\ s \ {AMember(s)} \in SUBSET S
        /\ Cardinality(s \ {AMember(s)}) = Cardinality(s) - 1
  <2>1. ASSUME NEW s \in SUBSET S, s # {}
        PROVE  /\ AMember(s) \in s /\ s \ {AMember(s)} \in SUBSET S
               /\ Cardinality(s \ {AMember(s)}) = Cardinality(s) - 1
    <3>1. AMember(s) \in s
      BY <2>1 DEF AMember
    <3>2. Cardinality(s \ {AMember(s)}) = Cardinality(s) - 1
      BY <1>1, <3>1, FS_RemoveElement
    <3>. QED
      BY <3>1, <3>2
  <2>. QED
    BY <2>1
<1>3. ASSUME Bad # {}
      PROVE  FALSE
  <2>1. PICK n \in Bad : \A k \in Bad : n <= k
    <3>1. Bad \in SUBSET Nat
      OBVIOUS
    <3>. HIDE DEF Bad
    <3>. QED
      BY <1>3, <3>1, Least
  <2>2. CASE n = 0
    <3>. DEFINE g == [s \in Upto(0) |-> 0]
    <3>1. \A s \in Upto(0) : s = {}
      <4>1. \A s \in SUBSET S : Cardinality(s) <= 0 => s = {}
        BY <1>1, FS_EmptySet
      <4>. QED
        BY <4>1
    <3>2. IsSum(g, f, Upto(0))
      BY <3>1 DEF IsSum
    <3>. QED
      BY <2>1, <2>2, <3>2
  <2>3. CASE n # 0
    <3>1. n \in Nat /\ n - 1 \in Nat /\ n - 1 \notin Bad
      <4>1. n \in Nat /\ n - 1 \in Nat
        BY <2>1, <2>3
      <4>. HIDE DEF Bad
      <4>. QED
        BY <2>1, <4>1
    <3>2. PICK h : IsSum(h, f, Upto(n - 1))
      BY <3>1
    <3>. DEFINE g == [s \in Upto(n) |->
                        IF s = {} THEN 0
                        ELSE f[AMember(s)] + h[s \ {AMember(s)}]]
    <3>3. \A s \in Upto(n - 1) : s \in Upto(n) /\ g[s] = h[s]
      <4>1. \A s \in Upto(n - 1) : s \in Upto(n)
        BY <1>1, <3>1
      <4>2. \A s \in Upto(n - 1) :
              h[s] = IF s = {} THEN 0
                     ELSE f[AMember(s)] + h[s \ {AMember(s)}]
        BY <3>2 DEF IsSum
      <4>3. \A s \in Upto(n) :
              g[s] = IF s = {} THEN 0
                     ELSE f[AMember(s)] + h[s \ {AMember(s)}]
        OBVIOUS
      <4>. HIDE DEF g, Upto
      <4>. QED
        BY <4>1, <4>2, <4>3
    <3>4. \A s \in Upto(n) : s # {} => s \ {AMember(s)} \in Upto(n - 1)
      BY <1>1, <1>2, <3>1
    <3>5. \A s \in Upto(n) :
            g[s] = IF s = {} THEN 0
                   ELSE f[AMember(s)] + g[s \ {AMember(s)}]
      <4>1. \A s \in Upto(n) :
              g[s] = IF s = {} THEN 0
                     ELSE f[AMember(s)] + h[s \ {AMember(s)}]
        OBVIOUS
      <4>. HIDE DEF g, Upto
      <4>. QED
        BY <3>3, <3>4, <4>1
    <3>6. g = [s \in Upto(n) |-> g[s]]
      OBVIOUS
    <3>7. IsSum(g, f, Upto(n))
      <4>. HIDE DEF g, Upto
      <4>. QED
        BY <3>5, <3>6 DEF IsSum
    <3>. QED
      BY <2>1, <3>7
  <2>. QED
    BY <2>2, <2>3
<1>4. Cardinality(S) \in Nat /\ Upto(Cardinality(S)) = SUBSET S
  <2>1. \A s \in SUBSET S : Cardinality(s) <= Cardinality(S)
    BY FS_Subset
  <2>. QED
    BY <1>1, <2>1
<1>5. \E g : IsSum(g, f, Upto(Cardinality(S)))
  BY <1>3, <1>4
<1>. QED
  BY <1>4, <1>5

\* The sum is that of a member and of the rest, whichever the fold takes.
SumsBy(g, f, S) ==
  \A s \in SUBSET S : /\ s = {} => g[s] = 0
                      /\ s # {} => \E x \in s : g[s] = f[x] + g[s \ {x}]

\* The fold of the library is the sum, in whatever order it takes the keys.
LEMMA SumIs ==
  ASSUME NEW S, IsFiniteSet(S), NEW f
  PROVE  \E g : SumFunctionOnSet(f, S) = g[S] /\ SumsBy(g, f, S)
<1>. DEFINE g == CHOOSE h : IsSum(h, f, SUBSET S)
<1>1. IsSum(g, f, SUBSET S)
  BY SumExists
<1>2. SumFunctionOnSet(f, S) = g[S]
  BY DEF SumFunctionOnSet, FoldFunctionOnSet, MapThenFoldSet, IsSum, AMember
<1>. HIDE DEF g
<1>3. ASSUME NEW s \in SUBSET S
      PROVE  /\ s = {} => g[s] = 0
             /\ s # {} => \E x \in s : g[s] = f[x] + g[s \ {x}]
  <2>1. g[s] = IF s = {} THEN 0 ELSE f[AMember(s)] + g[s \ {AMember(s)}]
    BY <1>1 DEF IsSum
  <2>2. s # {} => AMember(s) \in s
    BY DEF AMember
  <2>. QED
    BY <2>1, <2>2
<1>. QED
  BY <1>2, <1>3 DEF SumsBy

\* A sum of numbers is one, and is positive if one of them is.
LEMMA SumOfNumbers ==
  ASSUME NEW S, IsFiniteSet(S), NEW f, \A x \in S : f[x] \in Nat
  PROVE  /\ SumFunctionOnSet(f, S) \in Nat
         /\ SumFunctionOnSet(f, S) > 0 <=> \E x \in S : f[x] > 0
<1>1. PICK g : SumFunctionOnSet(f, S) = g[S] /\ SumsBy(g, f, S)
  BY SumIs
<1>. DEFINE Right(s) == g[s] \in Nat /\ (g[s] > 0 <=> \E x \in s : f[x] > 0)
            Bad == {Cardinality(s) : s \in {t \in SUBSET S : ~ Right(t)}}
<1>2. \A s \in SUBSET S : IsFiniteSet(s) /\ Cardinality(s) \in Nat
  BY FS_Subset, FS_CardinalityType
<1>3. ASSUME Bad # {}
      PROVE  FALSE
  <2>1. PICK n \in Bad : \A k \in Bad : n <= k
    <3>1. Bad \in SUBSET Nat
      BY <1>2
    <3>. HIDE DEF Bad
    <3>. QED
      BY <1>3, <3>1, Least
  <2>2. PICK s \in SUBSET S : ~ Right(s) /\ Cardinality(s) = n
    BY <2>1
  <2>3. s # {}
    <3>1. s = {} => g[s] = 0
      BY <1>1 DEF SumsBy
    <3>. QED
      BY <2>2, <3>1
  <2>4. PICK x \in s : g[s] = f[x] + g[s \ {x}]
    BY <1>1, <2>3 DEF SumsBy
  <2>5. Right(s \ {x})
    <3>1. s \ {x} \in SUBSET S /\ Cardinality(s \ {x}) = n - 1
      BY <1>2, <2>2, FS_RemoveElement
    <3>2. n - 1 \notin Bad
      <4>1. n \in Nat
        BY <1>2, <2>2
      <4>. HIDE DEF Bad
      <4>. QED
        BY <2>1, <4>1
    <3>. QED
      BY <3>1, <3>2
  <2>6. f[x] \in Nat /\ g[s \ {x}] \in Nat
    BY <2>5
  <2>7. \A y \in s : y = x \/ y \in s \ {x}
    OBVIOUS
  <2>8. Right(s)
    BY <2>4, <2>5, <2>6, <2>7
  <2>. QED
    BY <2>2, <2>8
<1>4. Right(S)
  BY <1>3
<1>. QED
  BY <1>1, <1>4

\* The sum of how many have each key is how many have one of the keys.
HaveKey(O, key, x) == {o \in O : key[o] = x}
HaveKeyIn(O, key, S) == {o \in O : key[o] \in S}

\* Counts by key add up to the count of everything that has one of the keys.
LEMMA SumOfCounts ==
  ASSUME NEW S, IsFiniteSet(S), NEW O, IsFiniteSet(O), NEW key, NEW f,
         \A x \in S : f[x] = Cardinality(HaveKey(O, key, x))
  PROVE  SumFunctionOnSet(f, S) = Cardinality(HaveKeyIn(O, key, S))
<1>. USE DEF HaveKey, HaveKeyIn
<1>1. PICK g : SumFunctionOnSet(f, S) = g[S] /\ SumsBy(g, f, S)
  BY SumIs
<1>. DEFINE With(s) == {o \in O : key[o] \in s}
            Bad == {Cardinality(s) :
                      s \in {t \in SUBSET S : g[t] # Cardinality(With(t))}}
<1>2. \A s \in SUBSET S : IsFiniteSet(s) /\ Cardinality(s) \in Nat
  BY FS_Subset, FS_CardinalityType
<1>3. ASSUME NEW s
      PROVE  IsFiniteSet(With(s)) /\ Cardinality(With(s)) \in Nat
  <2>1. With(s) \in SUBSET O
    OBVIOUS
  <2>. HIDE DEF With
  <2>. QED
    BY <2>1, FS_Subset, FS_CardinalityType
<1>4. ASSUME Bad # {}
      PROVE  FALSE
  <2>1. PICK n \in Bad : \A k \in Bad : n <= k
    <3>1. Bad \in SUBSET Nat
      BY <1>2
    <3>. HIDE DEF Bad
    <3>. QED
      BY <1>4, <3>1, Least
  <2>2. PICK s \in SUBSET S : g[s] # Cardinality(With(s)) /\ Cardinality(s) = n
    BY <2>1
  <2>3. s # {}
    <3>1. s = {} => g[s] = 0
      BY <1>1 DEF SumsBy
    <3>2. s = {} => With(s) = {}
      OBVIOUS
    <3>. HIDE DEF With
    <3>. QED
      BY <2>2, <3>1, <3>2, FS_EmptySet
  <2>4. PICK x \in s : g[s] = f[x] + g[s \ {x}]
    BY <1>1, <2>3 DEF SumsBy
  <2>5. g[s \ {x}] = Cardinality(With(s \ {x}))
    <3>1. s \ {x} \in SUBSET S /\ Cardinality(s \ {x}) = n - 1
      BY <1>2, <2>2, FS_RemoveElement
    <3>2. n - 1 \notin Bad
      <4>1. n \in Nat
        BY <1>2, <2>2
      <4>. HIDE DEF Bad
      <4>. QED
        BY <2>1, <4>1
    <3>. QED
      BY <3>1, <3>2
  <2>6. f[x] = Cardinality(With({x}))
    <3>1. With({x}) = {o \in O : key[o] = x}
      OBVIOUS
    <3>. HIDE DEF With
    <3>. QED
      BY <3>1
  <2>7. /\ With(s) = With({x}) \cup With(s \ {x})
        /\ With({x}) \cap With(s \ {x}) = {}
    OBVIOUS
  <2>8. Cardinality(With(s)) = Cardinality(With({x})) + Cardinality(With(s \ {x}))
    <3>. HIDE DEF With
    <3>1. IsFiniteSet(With({x})) /\ IsFiniteSet(With(s \ {x}))
      BY <1>3
    <3>2. Cardinality(With(s)) = Cardinality(With({x}))
            + Cardinality(With(s \ {x})) - Cardinality({})
      BY <2>7, <3>1, FS_Union
    <3>. QED
      BY <1>3, <3>2, FS_EmptySet
  <2>. QED
    BY <2>2, <2>4, <2>5, <2>6, <2>8
<1>5. g[S] = Cardinality(With(S))
  <2>1. g[S] # Cardinality(With(S)) => Cardinality(S) \in Bad
    OBVIOUS
  <2>. HIDE DEF Bad
  <2>. QED
    BY <1>4, <2>1
<1>. QED
  BY <1>1, <1>5

\* How often something happens in a month.
LEMMA InMonthIs ==
  ASSUME NEW activity, NEW from \in Int, NEW to \in Int, NEW m \in Int,
         \A d \in from .. to : At(activity, d) \in Nat
  PROVE  InMonth(activity, from, to, m) > 0 <=>
           \E d \in from .. to : MonthOf(d) = m /\ At(activity, d) > 0
<1>. DEFINE S == {d \in from .. to : MonthOf(d) = m}
            f == Daily(activity, from, to)
<1>1. IsFiniteSet(S)
  <2>1. IsFiniteSet(from .. to) /\ S \in SUBSET (from .. to)
    BY FS_Interval
  <2>. QED
    BY <2>1, FS_Subset
<1>2. \A d \in S : f[d] = At(activity, d) /\ f[d] \in Nat
  BY DEF Daily
<1>3. SumFunctionOnSet(f, S) > 0 <=> \E d \in S : f[d] > 0
  <2>. HIDE DEF S, f
  <2>. QED
    BY <1>1, <1>2, SumOfNumbers
<1>4. InMonth(activity, from, to, m) > 0 <=> \E d \in S : f[d] > 0
  BY <1>3 DEF InMonth
<1>. QED
  BY <1>2, <1>4

-----------------------------------------------------------------------------
(* Streaks.                                                                *)

\* What Streaks says of the months from a to n: A are those with activity.
IsStreak(f, a, n, A) ==
  f = [m \in a - 1 .. n |->
         IF m < a THEN 0 ELSE IF m \in A THEN f[m - 1] + 1 ELSE 0]

\* The equations of the streaks have a solution up to every month.
LEMMA StreakExists ==
  ASSUME NEW a \in Int, NEW A, NEW n \in Int, a - 1 <= n
  PROVE  \E f : IsStreak(f, a, n, A)
<1>. DEFINE Bad == {k \in Int : a - 1 <= k /\ ~ \E f : IsStreak(f, a, k, A)}
<1>1. ASSUME Bad # {}
      PROVE  FALSE
  <2>1. PICK k \in Bad : \A l \in Bad : k <= l
    <3>1. Bad \in SUBSET Int /\ a - 1 \in Int /\ \A l \in Bad : a - 1 <= l
      OBVIOUS
    <3>. HIDE DEF Bad
    <3>. QED
      BY <1>1, <3>1, LeastInt
  <2>2. CASE k = a - 1
    <3>. DEFINE f == [m \in a - 1 .. a - 1 |-> 0]
    <3>1. IsStreak(f, a, a - 1, A)
      BY DEF IsStreak
    <3>. QED
      BY <2>1, <2>2, <3>1
  <2>3. CASE k # a - 1
    <3>1. k \in Int /\ a <= k /\ k - 1 \in Int /\ k - 1 \notin Bad
      <4>1. k \in Int /\ a <= k /\ k - 1 \in Int
        BY <2>1, <2>3
      <4>. HIDE DEF Bad
      <4>. QED
        BY <2>1, <4>1
    <3>2. PICK g : IsStreak(g, a, k - 1, A)
      BY <3>1
    <3>. DEFINE f == [m \in a - 1 .. k |->
                        IF m < a THEN 0
                        ELSE IF m \in A THEN g[m - 1] + 1 ELSE 0]
    <3>3. \A m \in a - 1 .. k - 1 : f[m] = g[m]
      <4>1. \A m \in a - 1 .. k - 1 :
              /\ m \in a - 1 .. k
              /\ g[m] = IF m < a THEN 0
                        ELSE IF m \in A THEN g[m - 1] + 1 ELSE 0
        BY <3>1, <3>2 DEF IsStreak
      <4>2. \A m \in a - 1 .. k :
              f[m] = IF m < a THEN 0
                     ELSE IF m \in A THEN g[m - 1] + 1 ELSE 0
        OBVIOUS
      <4>. HIDE DEF f
      <4>. QED
        BY <4>1, <4>2
    <3>4. \A m \in a - 1 .. k :
            f[m] = IF m < a THEN 0
                   ELSE IF m \in A THEN f[m - 1] + 1 ELSE 0
      <4>1. \A m \in a - 1 .. k :
              /\ f[m] = IF m < a THEN 0
                        ELSE IF m \in A THEN g[m - 1] + 1 ELSE 0
              /\ m < a \/ m - 1 \in a - 1 .. k - 1
        BY <3>1
      <4>. HIDE DEF f
      <4>. QED
        BY <3>3, <4>1
    <3>5. f = [m \in a - 1 .. k |-> f[m]]
      OBVIOUS
    <3>6. IsStreak(f, a, k, A)
      <4>. HIDE DEF f
      <4>. QED
        BY <3>4, <3>5 DEF IsStreak
    <3>. QED
      BY <2>1, <3>6
  <2>. QED
    BY <2>2, <2>3
<1>. QED
  BY <1>1

\* Streaks satisfies them, for the months in which the user had a duty.
LEMMA StreaksAre ==
  ASSUME NEW activity, NEW from \in Int, NEW to \in Int, from <= to
  PROVE  IsStreak(Streaks(activity, from, to), MonthOf(from), MonthOf(to),
                  {m \in Int : InMonth(activity, from, to, m) > 0})
<1>. DEFINE a == MonthOf(from)
            b == MonthOf(to)
            A == {m \in Int : InMonth(activity, from, to, m) > 0}
            Eq(f) == f = [m \in a - 1 .. b |->
                            IF m < a THEN 0
                            ELSE IF InMonth(activity, from, to, m) > 0
                                 THEN f[m - 1] + 1 ELSE 0]
<1>1. a \in Int /\ b \in Int /\ a - 1 <= b
  BY MonthOfIs, MonthOfOrder
<1>2. \A f : IsStreak(f, a, b, A) <=> Eq(f)
  <2>1. \A m \in a - 1 .. b : m \in A <=> InMonth(activity, from, to, m) > 0
    BY <1>1
  <2>. HIDE DEF A, a, b
  <2>. QED
    BY <2>1 DEF IsStreak
<1>3. \E f : Eq(f)
  <2>. HIDE DEF A, a, b, Eq
  <2>. QED
    BY <1>1, <1>2, StreakExists
<1>4. Eq(CHOOSE f : Eq(f))
  <2>. HIDE DEF Eq
  <2>. QED
    BY <1>3
<1>5. Streaks(activity, from, to) = CHOOSE f : Eq(f)
  BY DEF Streaks
<1>6. Eq(Streaks(activity, from, to))
  <2>. HIDE DEF Eq
  <2>. QED
    BY <1>4, <1>5
<1>. QED
  <2>. HIDE DEF Eq
  <2>. QED
    BY <1>2, <1>6

\* A streak is the longest run of months of A that ends with a month.
Run(a, A, m, k) == k <= m - a + 1 /\ \A i \in m - k + 1 .. m : i \in A
LongestRun(a, b, A, m) == Max({k \in 0 .. b - a + 1 : Run(a, A, m, k)})

\* A streak is the length of the longest run that ends with its month.
LEMMA StreakIsRun ==
  ASSUME NEW a \in Int, NEW b \in Int, a <= b, NEW A, NEW f,
         IsStreak(f, a, b, A), NEW m \in a - 1 .. b
  PROVE  /\ f[m] \in 0 .. b - a + 1
         /\ f[m] = LongestRun(a, b, A, m)
<1>. DEFINE Stops(k) == /\ f[k] \in Nat /\ f[k] <= k - a + 1
                        /\ \A i \in k - f[k] + 1 .. k : i \in A
                        /\ k - f[k] < a \/ k - f[k] \notin A
            Bad == {k \in a - 1 .. b : ~ Stops(k)}
<1>1. \A k \in a - 1 .. b : f[k] = IF k < a THEN 0
                                   ELSE IF k \in A THEN f[k - 1] + 1 ELSE 0
  BY DEF IsStreak
<1>2. ASSUME Bad # {}
      PROVE  FALSE
  <2>1. PICK k \in Bad : \A l \in Bad : k <= l
    <3>1. Bad \in SUBSET Int /\ a - 1 \in Int /\ \A l \in Bad : a - 1 <= l
      OBVIOUS
    <3>. HIDE DEF Bad
    <3>. QED
      BY <1>2, <3>1, LeastInt
  <2>2. k \in a - 1 .. b
    BY <2>1
  <2>3. CASE k < a \/ k \notin A
    <3>1. f[k] = 0
      BY <1>1, <2>2, <2>3
    <3>2. Stops(k)
      BY <2>2, <2>3, <3>1
    <3>. QED
      BY <2>1, <3>2
  <2>4. CASE a <= k /\ k \in A
    <3>1. k - 1 \in a - 1 .. b /\ k - 1 \notin Bad
      <4>1. k - 1 \in a - 1 .. b
        BY <2>2, <2>4
      <4>. HIDE DEF Bad
      <4>. QED
        BY <2>1, <2>2, <4>1
    <3>2. Stops(k - 1) /\ f[k] = f[k - 1] + 1
      BY <1>1, <2>2, <2>4, <3>1
    <3>3. k - f[k] = (k - 1) - f[k - 1]
      BY <2>2, <3>2
    <3>4. \A i \in k - f[k] + 1 .. k : i = k \/ i \in (k - 1) - f[k - 1] + 1 .. k - 1
      BY <2>2, <3>2
    <3>5. Stops(k)
      BY <2>2, <2>4, <3>2, <3>3, <3>4
    <3>. QED
      BY <2>1, <3>5
  <2>. QED
    BY <2>2, <2>3, <2>4
<1>3. Stops(m)
  BY <1>2
<1>4. f[m] \in 0 .. b - a + 1 /\ Run(a, A, m, f[m])
  BY <1>3 DEF Run
<1>5. ASSUME NEW k \in 0 .. b - a + 1, Run(a, A, m, k)
      PROVE  k <= f[m]
  <2>1. ASSUME f[m] < k
        PROVE  FALSE
    <3>1. /\ m - f[m] \in m - k + 1 .. m
          /\ a <= m - f[m]
      BY <1>3, <1>5, <2>1 DEF Run
    <3>. QED
      BY <1>3, <1>5, <3>1 DEF Run
  <2>. QED
    BY <1>3, <2>1
<1>. DEFINE T == {k \in 0 .. b - a + 1 : Run(a, A, m, k)}
<1>6. T \in SUBSET Int /\ f[m] \in T /\ \A k \in T : k <= f[m]
  BY <1>4, <1>5
<1>7. Max(T) = f[m]
  <2>. HIDE DEF T
  <2>. QED
    BY <1>6, MaxIs
<1>. QED
  BY <1>4, <1>7 DEF LongestRun

\* The longest of the streaks is the longest of the runs.
LEMMA LongestStreak ==
  ASSUME NEW a \in Int, NEW b \in Int, a <= b, NEW A, NEW f,
         IsStreak(f, a, b, A)
  PROVE  Max({f[m] : m \in DOMAIN f}) = Max({LongestRun(a, b, A, m) : m \in a .. b})
<1>. DEFINE T == {f[m] : m \in a .. b}
<1>1. /\ DOMAIN f = a - 1 .. b /\ f[a - 1] = 0
      /\ \A m \in a .. b : m \in a - 1 .. b
  BY DEF IsStreak
<1>2. \A m \in a - 1 .. b : f[m] \in 0 .. b - a + 1 /\ f[m] = LongestRun(a, b, A, m)
  BY StreakIsRun
<1>3. T = {LongestRun(a, b, A, m) : m \in a .. b}
  BY <1>1, <1>2
<1>4. T \in SUBSET Int /\ T # {} /\ \A k \in T : k <= b - a + 1 /\ 0 <= k
  BY <1>1, <1>2
<1>5. PICK k \in T : \A l \in T : l <= k
  <2>1. b - a + 1 \in Int
    OBVIOUS
  <2>. HIDE DEF T
  <2>. QED
    BY <1>4, <2>1, GreatestInt
<1>6. Max(T) = k
  <2>. HIDE DEF T
  <2>. QED
    BY <1>4, <1>5, MaxIs
<1>. DEFINE U == {f[m] : m \in DOMAIN f}
<1>7. U \in SUBSET Int /\ k \in U /\ \A l \in U : l <= k
  <2>1. U \in SUBSET Int
    BY <1>1, <1>2
  <2>2. k \in U
    BY <1>1, <1>5
  <2>3. ASSUME NEW m \in DOMAIN f
        PROVE  f[m] <= k
    <3>1. m = a - 1 \/ m \in a .. b
      BY <1>1
    <3>2. CASE m = a - 1
      BY <1>1, <1>4, <1>5, <3>2
    <3>3. CASE m \in a .. b
      BY <1>5, <3>3
    <3>. QED
      BY <3>1, <3>2, <3>3
  <2>. QED
    BY <2>1, <2>2, <2>3
<1>8. Max(U) = k
  <2>. HIDE DEF U
  <2>. QED
    BY <1>7, MaxIs
<1>. QED
  BY <1>3, <1>6, <1>8

=============================================================================
