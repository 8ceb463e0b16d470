------------------------------- MODULE Series -------------------------------
(***************************************************************************)
(* Recurring duties and their groups.  One form creates a whole series,    *)
(* and an edit or a deletion applies to one duty, to it and the later      *)
(* ones, or to all of the series.  There is no transaction: a series is    *)
(* created and edited row by row, each statement on its own, from what     *)
(* earlier statements read, while other requests do the same.              *)
(*                                                                         *)
(* A day is a number, day 1 being the first of the first month.  The group *)
(* stands for all a form says beside the date: title, description and      *)
(* limits are written wherever it is.  The participants a date change must *)
(* spare are in Roster; here that check can only end a request, as Fail.   *)
(***************************************************************************)
EXTENDS Integers, Sequences, FiniteSets

CONSTANTS
  Requests,        \* the requests that can be in progress at the same time
  MonthDays,       \* the calendar: how many days its months have
  Dates, Untils,   \* dates and last days the forms of a behaviour choose
  Groups,          \* group ids, 0 is no group
  Colors,
  MaxSeries,       \* 365: occurrences one form creates at most
  MaxOccurrences,  \* bound: occurrences created in a behaviour
  MaxSeriesIds     \* bound: series begun in a behaviour

Repeats == {"", "daily", "weekly", "biweekly", "monthly"}
Scopes == {"single", "future", "all"}

\* The day a month begins, the first one after the calendar included.
MonthStart[m \in 1 .. Len(MonthDays) + 1] ==
  IF m = 1 THEN 1 ELSE MonthStart[m - 1] + MonthDays[m - 1]
Days == 1 .. MonthStart[Len(MonthDays) + 1] - 1

ASSUME SeriesAssumption ==
  /\ MonthDays \in Seq(28 .. 31)
  /\ Dates \subseteq Days
  /\ Untils \subseteq Days
  /\ Groups \subseteq Nat \ {0}
  /\ MaxSeries \in Nat \ {0}
  /\ MaxOccurrences \in Nat
  /\ MaxSeriesIds \in Nat

OccIds == 1 .. MaxOccurrences
SeriesIds == 0 .. MaxSeriesIds    \* recurrence_id, 0 is the empty one
AnyGroup == Groups \cup {0}

\* A row of the table occurrences.
Row == [series : SeriesIds, date : Days, group : AnyGroup]

VARIABLES
  occs,        \* the table occurrences: id -> row
  lastOcc,     \* its AUTOINCREMENT counter
  lastSeries,  \* how many recurrence ids were drawn; none is drawn twice
  groups,      \* the table groups: id -> color
  pc,          \* the statement each request is about to run
  local,       \* what each request has read or been asked for
  overtaken    \* history: requests after whose start another one has written

vars == <<occs, lastOcc, lastSeries, groups, pc, local, overtaken>>
tables == <<occs, lastOcc, lastSeries, groups>>

-----------------------------------------------------------------------------
(* generateRecurrenceDates.                                                *)

MonthOf(d) == CHOOSE m \in 1 .. Len(MonthDays) :
                MonthStart[m] <= d /\ d < MonthStart[m + 1]
DayOfMonth(d) == d - MonthStart[MonthOf(d)] + 1

\* AddDate(0, 1, 0): the same day of the next month; when that month has no
\* such day, as many days into the month after it.
NextMonth(d) == MonthStart[MonthOf(d) + 1] + DayOfMonth(d) - 1

\* Mutant: a month is thirty days.
AdvanceByThirty(d, repeat) ==
  CASE repeat = "daily" -> d + 1
    [] repeat = "weekly" -> d + 7
    [] repeat = "biweekly" -> d + 14
    [] repeat = "monthly" -> d + 30

Advance(d, repeat) ==
  CASE repeat = "daily" -> d + 1
    [] repeat = "weekly" -> d + 7
    [] repeat = "biweekly" -> d + 14
    [] repeat = "monthly" -> NextMonth(d)

\* The dates in the order they are generated; it stops after the last day.
Generated(start, until, repeat) ==
  LET cur[k \in 0 .. MaxSeries] ==
        IF k = 0 THEN start
        ELSE IF cur[k - 1] > until THEN cur[k - 1]
        ELSE Advance(cur[k - 1], repeat)
  IN cur

\* Mutant: not truncated to MaxSeries dates.
RecurrenceDatesAll(start, until, repeat) ==
  {d \in Days : d <= until /\ \E k \in 0 .. MaxSeries :
                  Generated(start, until, repeat)[k] = d}

\* At most MaxSeries of them; the last day is inclusive.
RecurrenceDates(start, until, repeat) ==
  {d \in Days : d <= until /\ \E k \in 0 .. MaxSeries - 1 :
                  Generated(start, until, repeat)[k] = d}

-----------------------------------------------------------------------------
(* The requests.                                                           *)

Nothing == [none |-> TRUE]
Creation == [group : AnyGroup, series : SeriesIds,
             left : SUBSET Days, made : Nat]
EditForm == [occ : OccIds, group : AnyGroup, date : Days,
             scope : Scopes]
SingleEdit == [occ : OccIds, row : Row]
SeriesRead == [group : AnyGroup, series : SeriesIds, from : Nat]
SeriesEdit == [group : AnyGroup, series : SeriesIds, from : Nat,
               rows : UNION {[S -> Row] : S \in SUBSET OccIds}]
Deletion == [occ : OccIds, series : SeriesIds, from : Nat]
Coloring == [group : Groups, color : Colors]

LocalsAt(step) ==
  CASE step = "idle" -> {Nothing}
    [] step \in {"crt_insert", "crt_answer"} -> Creation
    [] step = "upd_get" -> EditForm
    [] step = "upd_save" -> SingleEdit
    [] step = "upd_siblings" -> SeriesRead
    [] step \in {"upd_series", "upd_answer"} -> SeriesEdit
    [] step = "del_run" -> Deletion
    [] step = "grp_save" -> Coloring

Steps == {"idle", "crt_insert", "crt_answer", "upd_get", "upd_save",
          "upd_siblings", "upd_series", "upd_answer", "del_run", "grp_save"}

Goto(r, step, value) ==
  /\ pc' = [pc EXCEPT ![r] = step]
  /\ local' = [local EXCEPT ![r] = value]
Finish(r) == Goto(r, "idle", Nothing)

At(r, step) == pc[r] = step

\* A request that writes overtakes the others in progress.
Reads ==
  overtaken' = [q \in Requests |-> pc'[q] # "idle" /\ overtaken[q]]
Writes(r) ==
  overtaken' = [q \in Requests |-> pc'[q] # "idle" /\ (overtaken[q] \/ q # r)]

Put(table, id, row) ==
  [k \in DOMAIN table \cup {id} |-> IF k = id THEN row ELSE table[k]]
Keep(table, ids) == [k \in DOMAIN table \cap ids |-> table[k]]

\* The foreign key group_id, with the empty one allowed.
HasGroup(group) == group = 0 \/ group \in DOMAIN groups

Members(series) == {o \in DOMAIN occs : occs[o].series = series}

-----------------------------------------------------------------------------
(* Create: the form's group is looked up, then one INSERT for each date.   *)

\* "repeat" without "repeat_until" is not repeated; a single date is no
\* series.
Create(r, group, start, repeat, until) ==
  LET dates == IF repeat = "" THEN {start}
               ELSE RecurrenceDates(start, until, repeat)
      recurs == Cardinality(dates) > 1
      series == IF recurs THEN lastSeries + 1 ELSE 0
  IN /\ At(r, "idle")
     /\ HasGroup(group)
     /\ repeat # "" => start <= until
     /\ lastOcc < MaxOccurrences
     /\ recurs => lastSeries < MaxSeriesIds
     /\ lastSeries' = IF recurs THEN lastSeries + 1 ELSE lastSeries
     /\ Goto(r, "crt_insert",
             [group |-> group, series |-> series,
              left |-> dates, made |-> 0])
     /\ Reads
     /\ UNCHANGED <<occs, lastOcc, groups>>

\* The next date of the loop, and where the loop goes from it.
NextDate(r, d) ==
  d \in local[r].left /\ \A e \in local[r].left : d <= e
AfterDate(r, d, made) ==
  Goto(r, IF local[r].left = {d} THEN "crt_answer" ELSE "crt_insert",
       [local[r] EXCEPT !.left = @ \ {d}, !.made = made])

\* Mutant: only the first occurrence gets the id of the series.
CreateInsertAlone(r, d) ==
  /\ At(r, "crt_insert")
  /\ NextDate(r, d)
  /\ HasGroup(local[r].group)
  /\ lastOcc < MaxOccurrences
  /\ lastOcc' = lastOcc + 1
  /\ occs' = Put(occs, lastOcc + 1,
       [series |-> IF local[r].made = 0 THEN local[r].series ELSE 0,
        date |-> d, group |-> local[r].group])
  /\ AfterDate(r, d, local[r].made + 1)
  /\ Writes(r)
  /\ UNCHANGED <<lastSeries, groups>>

\* Mutant: the statement names the id, and the counter of the table stays.
CreateInsertUncounted(r, d) ==
  /\ At(r, "crt_insert")
  /\ NextDate(r, d)
  /\ HasGroup(local[r].group)
  /\ lastOcc < MaxOccurrences
  /\ occs' = Put(occs, lastOcc + 1,
       [series |-> local[r].series, date |-> d, group |-> local[r].group])
  /\ AfterDate(r, d, local[r].made + 1)
  /\ Writes(r)
  /\ UNCHANGED <<lastOcc, lastSeries, groups>>

CreateInsert(r, d) ==
  /\ At(r, "crt_insert")
  /\ NextDate(r, d)
  /\ HasGroup(local[r].group)
  /\ lastOcc < MaxOccurrences
  /\ lastOcc' = lastOcc + 1
  /\ occs' = Put(occs, lastOcc + 1,
       [series |-> local[r].series, date |-> d, group |-> local[r].group])
  /\ AfterDate(r, d, local[r].made + 1)
  /\ Writes(r)
  /\ UNCHANGED <<lastSeries, groups>>

\* The group is gone, the context is cancelled or the statement fails: it is
\* logged, and the loop goes on.
CreateInsertFails(r, d) ==
  /\ At(r, "crt_insert")
  /\ NextDate(r, d)
  /\ AfterDate(r, d, local[r].made)
  /\ Reads
  /\ UNCHANGED tables

\* "n duties created", or a failure when there are none.
CreateAnswer(r) ==
  At(r, "crt_answer") /\ Finish(r) /\ Reads /\ UNCHANGED tables

-----------------------------------------------------------------------------
(* Update.                                                                 *)

\* The form's group is looked up,
Update(r, o, group, date, scope) ==
  /\ At(r, "idle")
  /\ o <= lastOcc
  /\ HasGroup(group)
  /\ Goto(r, "upd_get", [occ |-> o, group |-> group,
                         date |-> date, scope |-> scope])
  /\ Reads
  /\ UNCHANGED tables

\* Mutant: the form has no recurrence id, and none is taken from the row.
UpdateGetForgets(r) ==
  /\ At(r, "upd_get")
  /\ local[r].occ \in DOMAIN occs
  /\ LET job == local[r]
         existing == occs[job.occ]
     IN IF job.scope = "single" \/ existing.series = 0
        THEN Goto(r, "upd_save", [occ |-> job.occ,
                  row |-> [series |-> 0, date |-> job.date,
                           group |-> job.group]])
        ELSE Goto(r, "upd_siblings",
                  [group |-> job.group,
                   series |-> existing.series,
                   from |-> IF job.scope = "all" THEN 1 ELSE existing.date])
  /\ Reads
  /\ UNCHANGED tables

\* and the row: its recurrence id, and the date "future" counts from.
UpdateGet(r) ==
  /\ At(r, "upd_get")
  /\ local[r].occ \in DOMAIN occs
  /\ LET job == local[r]
         existing == occs[job.occ]
     IN IF job.scope = "single" \/ existing.series = 0
        THEN Goto(r, "upd_save", [occ |-> job.occ,
                  row |-> [series |-> existing.series, date |-> job.date,
                           group |-> job.group]])
        ELSE Goto(r, "upd_siblings",
                  [group |-> job.group,
                   series |-> existing.series,
                   from |-> IF job.scope = "all" THEN 1 ELSE existing.date])
  /\ Reads
  /\ UNCHANGED tables

\* UpdateOccurrence saves the whole row, if it is there and has a group.
UpdateSave(r) ==
  /\ At(r, "upd_save")
  /\ IF local[r].occ \in DOMAIN occs
     THEN /\ HasGroup(local[r].row.group)
          /\ occs' = [occs EXCEPT ![local[r].occ] = local[r].row]
     ELSE occs' = occs
  /\ Finish(r)
  /\ Writes(r)
  /\ UNCHANGED <<lastOcc, lastSeries, groups>>

\* Mutant: the duty itself is not one of "this and future duties".
UpdateReadSiblingsAfter(r) ==
  /\ At(r, "upd_siblings")
  /\ LET job == local[r]
         ids == {o \in Members(job.series) : occs[o].date > job.from}
     IN Goto(r, IF ids = {} THEN "upd_answer" ELSE "upd_series",
             [group |-> job.group,
              series |-> job.series, from |-> job.from,
              rows |-> Keep(occs, ids)])
  /\ Reads
  /\ UNCHANGED tables

\* FindByRecurrenceID reads all rows, and the loop skips the earlier ones.
UpdateReadSiblings(r) ==
  /\ At(r, "upd_siblings")
  /\ LET job == local[r]
         ids == {o \in Members(job.series) : occs[o].date >= job.from}
     IN Goto(r, IF ids = {} THEN "upd_answer" ELSE "upd_series",
             [group |-> job.group,
              series |-> job.series, from |-> job.from,
              rows |-> Keep(occs, ids)])
  /\ Reads
  /\ UNCHANGED tables

\* ORDER BY date.
NextSibling(r, o) ==
  /\ o \in DOMAIN local[r].rows
  /\ \A p \in DOMAIN local[r].rows :
       local[r].rows[o].date <= local[r].rows[p].date

\* Mutant: the date of the form is taken over too.
UpdateSaveSiblingDated(r, o) ==
  /\ At(r, "upd_series")
  /\ NextSibling(r, o)
  /\ LET rows == local[r].rows
         saved == [rows[o] EXCEPT !.group = local[r].group,
                                  !.date = local[r].from]
     IN /\ IF o \in DOMAIN occs
           THEN /\ HasGroup(saved.group)
                /\ occs' = [occs EXCEPT ![o] = saved]
           ELSE occs' = occs
        /\ Goto(r, IF DOMAIN rows = {o} THEN "upd_answer" ELSE "upd_series",
                [local[r] EXCEPT !.rows = Keep(rows, DOMAIN rows \ {o})])
  /\ Writes(r)
  /\ UNCHANGED <<lastOcc, lastSeries, groups>>

\* One row is saved as it was read, with what the form says.
UpdateSaveSibling(r, o) ==
  /\ At(r, "upd_series")
  /\ NextSibling(r, o)
  /\ LET rows == local[r].rows
         saved == [rows[o] EXCEPT !.group = local[r].group]
     IN /\ IF o \in DOMAIN occs
           THEN /\ HasGroup(saved.group)
                /\ occs' = [occs EXCEPT ![o] = saved]
           ELSE occs' = occs
        /\ Goto(r, IF DOMAIN rows = {o} THEN "upd_answer" ELSE "upd_series",
                [local[r] EXCEPT !.rows = Keep(rows, DOMAIN rows \ {o})])
  /\ Writes(r)
  /\ UNCHANGED <<lastOcc, lastSeries, groups>>

\* "n duties updated".
UpdateAnswer(r) ==
  At(r, "upd_answer") /\ Finish(r) /\ Reads /\ UNCHANGED tables

-----------------------------------------------------------------------------
(* Delete.                                                                 *)

\* The row is read for its series and date; a row that cannot be read is
\* deleted on its own.
Delete(r, o, scope) ==
  /\ At(r, "idle")
  /\ o <= lastOcc
  /\ LET series == IF scope = "single" \/ o \notin DOMAIN occs THEN 0
                   ELSE occs[o].series
         from == IF scope = "future" /\ series # 0 THEN occs[o].date ELSE 1
     IN Goto(r, "del_run", [occ |-> o, series |-> series, from |-> from])
  /\ Reads
  /\ UNCHANGED tables

\* Mutant: the WHERE clause has only the date.
DoomedByDate(job) ==
  IF job.series = 0 THEN {job.occ}
  ELSE {o \in DOMAIN occs : occs[o].date >= job.from}

Doomed(job) ==
  IF job.series = 0 THEN {job.occ}
  ELSE {o \in Members(job.series) : occs[o].date >= job.from}

DeleteRun(r) ==
  /\ At(r, "del_run")
  /\ occs' = Keep(occs, DOMAIN occs \ Doomed(local[r]))
  /\ Finish(r)
  /\ Writes(r)
  /\ UNCHANGED <<lastOcc, lastSeries, groups>>

-----------------------------------------------------------------------------
(* Groups.                                                                 *)

CreateGroup(r, group, color) ==
  /\ pc[r] = "idle"
  /\ \A g \in Groups : g < group => g \in DOMAIN groups
  /\ group \notin DOMAIN groups
  /\ groups' = Put(groups, group, color)
  /\ UNCHANGED <<occs, lastOcc, lastSeries, pc, local>>
  /\ Writes(r)

\* ON DELETE SET NULL.
DeleteGroup(r, group) ==
  /\ pc[r] = "idle"
  /\ group \in DOMAIN groups
  /\ groups' = Keep(groups, DOMAIN groups \ {group})
  /\ occs' = [o \in DOMAIN occs |->
                IF occs[o].group = group THEN [occs[o] EXCEPT !.group = 0]
                ELSE occs[o]]
  /\ UNCHANGED <<lastOcc, lastSeries, pc, local>>
  /\ Writes(r)

\* UpdateColor reads the row and writes it back with another color.
UpdateColor(r, group, color) ==
  /\ At(r, "idle")
  /\ group \in DOMAIN groups
  /\ Goto(r, "grp_save", [group |-> group, color |-> color])
  /\ Reads
  /\ UNCHANGED tables

UpdateColorSave(r) ==
  /\ At(r, "grp_save")
  /\ groups' = IF local[r].group \in DOMAIN groups
               THEN [groups EXCEPT ![local[r].group] = local[r].color]
               ELSE groups
  /\ Finish(r)
  /\ Writes(r)
  /\ UNCHANGED <<occs, lastOcc, lastSeries>>

-----------------------------------------------------------------------------
\* A statement fails, a row is not found or a foreign key is violated, the
\* check of the participants refuses the date, or the process dies.  Not in
\* the loop of Create, which goes on, unless the process dies.
Fail(r) == pc[r] # "idle" /\ Finish(r) /\ Reads /\ UNCHANGED tables

Start(r) ==
  \/ \E group \in AnyGroup, start \in Dates, until \in Untils,
        repeat \in Repeats : Create(r, group, start, repeat, until)
  \/ \E o \in OccIds, group \in AnyGroup, date \in Dates,
        scope \in Scopes : Update(r, o, group, date, scope)
  \/ \E o \in OccIds, scope \in Scopes : Delete(r, o, scope)
  \/ \E group \in Groups, color \in Colors :
       CreateGroup(r, group, color) \/ UpdateColor(r, group, color)
  \/ \E group \in Groups : DeleteGroup(r, group)

Continue(r) ==
  \/ \E d \in Days : CreateInsert(r, d) \/ CreateInsertFails(r, d)
  \/ CreateAnswer(r)
  \/ UpdateGet(r)
  \/ UpdateSave(r)
  \/ UpdateReadSiblings(r)
  \/ \E o \in OccIds : UpdateSaveSibling(r, o)
  \/ UpdateAnswer(r)
  \/ DeleteRun(r)
  \/ UpdateColorSave(r)

Init ==
  /\ occs = [o \in {} |-> o]
  /\ lastOcc = 0
  /\ lastSeries = 0
  /\ groups = [g \in {} |-> g]
  /\ pc = [r \in Requests |-> "idle"]
  /\ local = [r \in Requests |-> Nothing]
  /\ overtaken = [r \in Requests |-> FALSE]

Next == \E r \in Requests : Start(r) \/ Continue(r) \/ Fail(r)

Spec == Init /\ [][Next]_vars

-----------------------------------------------------------------------------
(* Properties.                                                             *)

TypeOK ==
  /\ lastOcc \in 0 .. MaxOccurrences
  /\ DOMAIN occs \subseteq 1 .. lastOcc
  /\ occs \in [DOMAIN occs -> Row]
  /\ lastSeries \in 0 .. MaxSeriesIds
  /\ DOMAIN groups \subseteq Groups
  /\ groups \in [DOMAIN groups -> Colors]
  /\ pc \in [Requests -> Steps]
  /\ DOMAIN local = Requests
  /\ \A r \in Requests : local[r] \in LocalsAt(pc[r])
  /\ overtaken \in [Requests -> BOOLEAN]

\* A duty's group exists, though groups are deleted between the look-up of a
\* form's group and the rows it is written to: a series edited then is left
\* edited in part, never with a group that is gone.
GroupsExist ==
  \A o \in DOMAIN occs : occs[o].group # 0 => occs[o].group \in DOMAIN groups

\* A duty stays in its series, or out of any, whatever edits are in progress:
\* rows are written back whole, the recurrence id with them, long after they
\* were read.  And no edit brings a deleted duty back.
StaysInSeries ==
  /\ \A o \in DOMAIN occs \cap DOMAIN occs' : occs'[o].series = occs[o].series
  /\ DOMAIN occs' \cap 1 .. lastOcc \subseteq DOMAIN occs
SeriesStays == [][StaysInSeries]_vars

\* One form creates at most MaxSeries duties of a series, and nothing adds
\* to it later: those that exist and those still to be created are no more.
ToCreate(s) ==
  UNION {local[r].left : r \in {q \in Requests : /\ pc[q] = "crt_insert"
                                                /\ local[q].series = s}}
SeriesBounded ==
  \A s \in 1 .. MaxSeriesIds :
    Cardinality(Members(s)) + Cardinality(ToCreate(s)) <= MaxSeries

\* The dates a form asks for: by counting days, and on the day of the month
\* it starts on if every month has that day.
AskedFor(start, until, repeat) ==
  {d \in start .. until :
     CASE repeat = "daily" -> TRUE
       [] repeat = "weekly" -> (d - start) % 7 = 0
       [] repeat = "biweekly" -> (d - start) % 14 = 0
       [] repeat = "monthly" -> DayOfMonth(d) = DayOfMonth(start)}
EveryMonthHas(d) ==
  \A m \in 1 .. Len(MonthDays) : DayOfMonth(d) <= MonthDays[m]

\* The dates of a form are the asked ones, in order, until MaxSeries are
\* reached.  A monthly series that starts late in a month is moved by a short
\* month, into the first days of the next one, and stays there.  (This reads
\* no table: the states before anything is planned show it for all states.)
DatesAsAsked ==
  lastOcc = 0 /\ (\A r \in Requests : pc[r] = "idle") =>
  \A start, until \in Days, repeat \in Repeats \ {""} : start <= until =>
    LET dates == RecurrenceDates(start, until, repeat)
        asked == AskedFor(start, until, repeat)
    IN IF repeat = "monthly" /\ ~EveryMonthHas(start)
       THEN \A d, e \in dates : d < e =>
              \/ DayOfMonth(e) = DayOfMonth(d)
              \/ DayOfMonth(d) > 28 /\ DayOfMonth(e) <= 3
       ELSE dates = {d \in asked :
                       Cardinality({e \in asked : e < d}) < MaxSeries}

\* A repetition has the dates that were asked for, and never more than the
\* limit, whatever is edited and deleted while its rows are created.
RepeatsAsAsked == DatesAsAsked /\ SeriesBounded

\* The answer of Create is true: unless somebody else has written meanwhile,
\* the series has as many duties as it says, in the group asked for, though
\* failed rows are skipped.
AnswersCount ==
  \A r \in Requests :
    pc[r] = "crt_answer" /\ local[r].series # 0 /\ ~overtaken[r] =>
      /\ Cardinality(Members(local[r].series)) = local[r].made
      /\ \A o \in Members(local[r].series) : occs[o].group = local[r].group

\* An edit that answers has reached every duty in its scope, unless somebody
\* else has written meanwhile: the loop of single saves leaves none out.
EditIsWhole ==
  \A r \in Requests :
    pc[r] = "upd_answer" /\ ~overtaken[r] =>
      \A o \in Members(local[r].series) :
        occs[o].date >= local[r].from =>
          occs[o].group = local[r].group

\* An edit of a series moves no duty to another date.  It writes the dates
\* back that it read, so it can undo a move only if that move came between.
MovesOnlyAlone ==
  \A r \in Requests, o \in DOMAIN occs \cap DOMAIN occs' :
    pc[r] = "upd_series" /\ local'[r] # local[r] /\ ~overtaken[r] =>
      occs'[o].date = occs[o].date
SeriesEditKeepsDates == [][MovesOnlyAlone]_vars

\* A deletion takes other duties than the one it was asked for only from the
\* series of that one, and then the last ones of it by the dates they have
\* now, though it goes by a date that was read before; and that one itself,
\* unless somebody else has written meanwhile.
TakesTheEnd ==
  \A r \in Requests :
    LET job == local[r]
        gone == DOMAIN occs \ DOMAIN occs'
    IN pc[r] = "del_run" /\ pc'[r] = "idle" /\ gone # {} =>
         /\ \A o \in gone \ {job.occ} :
              /\ occs[o].series # 0
              /\ occs[o].series = job.series
              /\ \A p \in Members(job.series) \ gone :
                   occs[p].date < occs[o].date
         /\ ~overtaken[r] => job.occ \in gone
DeletionInScope == [][TakesTheEnd]_vars

=============================================================================
