------------------------------ MODULE Reports ------------------------------
(***************************************************************************)
(* What the pages compute from the rows their queries have returned: the   *)
(* calendar grid, ranges of days, the status of a duty, the order of       *)
(* lists, the heat map with its statistics, and the table of the export.   *)
(*                                                                         *)
(* A time is a number of slots of the server's local time, a day a number  *)
(* of DayLength slots, and a month a number: month 0 begins on day 0.  All *)
(* years are alike, and there is no daylight saving time.                  *)
(***************************************************************************)
EXTENDS Integers, Sequences, FiniteSets, FiniteSetsExt, SequencesExt

CONSTANTS
  DayLength,    \* slots of a day
  WeekLength,   \* 7: days of a week, the first of them a Monday
  MonthDays,    \* days of each month of a year
  FirstMonth    \* September: the month of the year, from 0, study begins in

ASSUME ReportsAssumption ==
  /\ DayLength \in Nat \ {0}
  /\ WeekLength \in Nat \ {0}
  /\ MonthDays \in Seq(Nat \ {0})
  /\ Len(MonthDays) > 1
  /\ \A i \in 1 .. Len(MonthDays) : MonthDays[i] >= WeekLength
  /\ FirstMonth \in 0 .. Len(MonthDays) - 1

-----------------------------------------------------------------------------
(* The calendar.                                                           *)

Months == Len(MonthDays)
DaysBefore[i \in 0 .. Months] ==
  IF i = 0 THEN 0 ELSE DaysBefore[i - 1] + MonthDays[i]
YearDays == DaysBefore[Months]

MonthStart(m) == (m \div Months) * YearDays + DaysBefore[m % Months]
MonthOf(d) ==
  CHOOSE m \in (d \div YearDays) * Months .. (d \div YearDays + 1) * Months :
    MonthStart(m) <= d /\ d < MonthStart(m + 1)

Day(time) == time \div DayLength

\* The day of SQLite's DATE() and of Truncate(24 * time.Hour): a day of UTC.
\* zone says how many slots local time is ahead of it.
UTCDay(time, zone) == (time - zone) \div DayLength

Monday(d) == d - (d % WeekLength)

\* buildCalendar: whole weeks until the month is over.
Grid(m) ==
  LET start == Monday(MonthStart(m))
      last == MonthStart(m + 1) - 1
      weeks == (last - start) \div WeekLength + 1
  IN start .. start + weeks * WeekLength - 1

\* Mutant: only the clock is truncated.
IsTodayOfUTC(d, now, zone) == d = UTCDay(now, zone)

\* Truncate on both: the local midnight a cell begins with is late on the day
\* before in UTC.
IsToday(d, now, zone) == UTCDay(d * DayLength, zone) = UTCDay(now, zone)

\* A time that is missing in a query string is the zero time.
Zero == 0

\* Mutant: the first year to begin after today.
StudentYearNext(today) ==
  LET m == CHOOSE m \in MonthOf(today) + 1 .. MonthOf(today) + Months :
             m % Months = FirstMonth
  IN [from |-> MonthStart(m), to |-> MonthStart(m + Months) - 1]

StudentYear(today) ==
  LET m == CHOOSE m \in MonthOf(today) - Months + 1 .. MonthOf(today) :
             m % Months = FirstMonth
  IN [from |-> MonthStart(m), to |-> MonthStart(m + Months) - 1]

-----------------------------------------------------------------------------
(* Ranges.                                                                 *)

\* Mutant: the last day is within.
InRangeInclusive(date, from, to) == from <= Day(date) /\ Day(date) <= to

\* date >= 'from' AND date <= 'to': the text of a time is greater than that
\* of its day.
InRange(date, from, to) == from <= Day(date) /\ Day(date) < to

Reversed(range) ==
  range.from # Zero /\ range.to # Zero /\ range.from > range.to

\* The leaderboard: a range that is no range, or none at all.
ShownRange(range, today) ==
  IF Reversed(range) \/ (range.from = Zero /\ range.to = Zero)
    THEN StudentYear(today) ELSE range

\* The export wants both ends; it asks for the time twice.
ExportedRange(range, today, later) ==
  IF range.from = Zero \/ range.to = Zero
    THEN [from |-> StudentYear(today).from, to |-> StudentYear(later).to]
    ELSE range

\* leaderboardRoles
LeaderboardRoles(filter) ==
  CASE filter = "organizers" -> {"organizer", "admin"}
    [] filter = "all" -> {"participant", "organizer", "admin"}
    [] OTHER -> {"participant"}

-----------------------------------------------------------------------------
(* Duties and how many take part.                                          *)

\* ComputeOccStatus
Status(duty, count) ==
  IF count < duty.min THEN "under"
  ELSE IF count > duty.max THEN "over" ELSE "good"

\* A count that a map does not hold.
At(f, k) == IF k \in DOMAIN f THEN f[k] ELSE 0

Needed(duty, count) == IF count < duty.min THEN duty.min - count ELSE 0

\* A line of the dashboard, the list and the calendar.
Line(duty, count) ==
  [duty |-> duty, count |-> count, status |-> Status(duty, count),
   needed |-> Needed(duty, count)]
Lines(rows, counts) == [o \in DOMAIN rows |-> Line(rows[o], At(counts, o))]

Past(date, now) == date < now

\* The order of the list: upcoming ones, the earliest first, then the past
\* ones, the latest first; rows of one time stay in the order of their ids.
Before(rows, now, o, p) ==
  LET d == rows[o].date
      e == rows[p].date
  IN IF Past(d, now) # Past(e, now) THEN Past(e, now)
     ELSE IF d = e THEN o < p
     ELSE IF Past(d, now) THEN d > e ELSE d < e

Listed(rows, now) ==
  CHOOSE s \in SetToSeqs(DOMAIN rows) :
    \A i, j \in DOMAIN s : i < j => Before(rows, now, s[i], s[j])

\* Mutant: the busiest first.
InOrderBusiest(s, entries) ==
  \A i \in 1 .. Len(s) - 1 :
    LET e == entries[s[i]]
        f == entries[s[i + 1]]
    IN IF e.absent # f.absent THEN f.absent ELSE e.count >= f.count

\* sort.Slice is not stable: any order in which no free user follows one who
\* is absent, nor one with less to do one with more.
InOrder(s, entries) ==
  \A i \in 1 .. Len(s) - 1 :
    LET e == entries[s[i]]
        f == entries[s[i + 1]]
    IN IF e.absent # f.absent THEN f.absent ELSE e.count <= f.count

-----------------------------------------------------------------------------
(* The heat map of a year and its statistics.                              *)

Level(count) == IF count >= 4 THEN 4 ELSE count

\* isCurrentlyOOO and buildHeatmap compare bare days.
Covers(period, d) == period.from <= d /\ d <= period.to

Heatmap(activity, periods, from, to) ==
  [d \in Monday(from) .. to |->
     [count |-> At(activity, d), level |-> Level(At(activity, d)),
      absent |-> \E p \in periods : Covers(p, d)]]

Daily(activity, from, to) == [d \in from .. to |-> At(activity, d)]
InMonth(activity, from, to, m) ==
  SumFunctionOnSet(Daily(activity, from, to),
                   {d \in from .. to : MonthOf(d) = m})

\* Mutant: a month without duties does not end a streak.
StreaksGoOn(activity, from, to) ==
  LET streak[m \in MonthOf(from) - 1 .. MonthOf(to)] ==
        IF m < MonthOf(from) THEN 0
        ELSE IF InMonth(activity, from, to, m) > 0 THEN streak[m - 1] + 1
        ELSE streak[m - 1]
  IN streak

\* The streak in progress after each month.
Streaks(activity, from, to) ==
  LET streak[m \in MonthOf(from) - 1 .. MonthOf(to)] ==
        IF m < MonthOf(from) THEN 0
        ELSE IF InMonth(activity, from, to, m) > 0 THEN streak[m - 1] + 1
        ELSE 0
  IN streak

\* computeProfileStats; the average is total / months.
Stats(activity, from, to) ==
  LET streak == Streaks(activity, from, to)
  IN [total |-> SumFunction(Daily(activity, from, to)),
      months |-> MonthOf(to) - MonthOf(from) + 1,
      current |-> streak[MonthOf(to)],
      longest |-> Max({streak[m] : m \in DOMAIN streak})]

-----------------------------------------------------------------------------
(* The table of the export.                                                *)

\* Rows and marks are found by what is printed, not by id.
Key(date, title, group) == <<Day(date), title, group>>

\* marks are the rows of the query, pairs of a key and the name of a user;
\* entries the columns, names the names of their users, and occs the lines.
\* totals is filled in the order of the leaderboard, the highest count first:
\* of users with one name the last one counts.
Pivot(marks, entries, occs, groups) ==
  LET key == [o \in DOMAIN occs |->
                Key(occs[o].date, occs[o].title,
                    IF occs[o].group \in groups THEN occs[o].group ELSE 0)]
  IN [key |-> key,
      name |-> [u \in DOMAIN entries |-> entries[u].name],
      total |-> [u \in DOMAIN entries |->
                   Min({entries[v].count :
                          v \in {w \in DOMAIN entries :
                                   entries[w].name = entries[u].name}})],
      crosses |-> {c \in (DOMAIN occs) \X (DOMAIN entries) :
                     <<key[c[1]], entries[c[2]].name>> \in marks}]

=============================================================================
