------------------------------- MODULE Pages --------------------------------
(***************************************************************************)
(* The pages that show who does how much and when: leaderboard, export,    *)
(* free users, dashboard, profile, calendar and list.  A page is several   *)
(* SQL statements without a transaction, then a computation of Reports; a  *)
(* step is one statement of a page, or a write of some other request, which*)
(* may come between two statements.                                        *)
(*                                                                         *)
(* One page at a time: pages write nothing, so they do not meet.  The clock*)
(* is read where the code reads it, by some pages more than once.  Of some *)
(* reads the code drops the error and shows what they returned, which is   *)
(* any part of their rows; page.lost names those that did not return all.  *)
(***************************************************************************)
EXTENDS Reports

CONSTANTS
  Zones,      \* by how many slots local time may be ahead of UTC
  People,     \* account id -> [name, role]
  Rows,       \* rows that duties may have, and be changed to
  Groups,     \* group ids, 0 is no group
  Periods,    \* periods of absence there may be: [user, from, to]
  MaxDuties,  \* bound: duty ids
  MaxParts,   \* bound: participations at a time
  MaxChanges, \* bound: writes between the first and last statement of a page
  MaxLost,    \* bound: reads of one page whose error is dropped
  Nows,       \* times at which pages are asked for
  Boards,     \* query strings of leaderboard and export:
              \* [from, to, filter, group]
  Views,      \* query strings of calendar and list: [group, status, hidePast]
  ShownMonths,
  TopSize     \* 5: entries of the leaderboard on the dashboard

Roles == {"admin", "organizer", "participant"}
Row == [date : Nat, title : {Rows[i].title : i \in DOMAIN Rows},
        group : Groups \cup {0}, min : Nat, max : Nat]

ASSUME PagesAssumption ==
  /\ Zones \subseteq 0 .. DayLength - 1
  /\ \A i \in DOMAIN Rows : Rows[i] \in Row
  /\ \A u \in DOMAIN People : People[u].role \in Roles
  /\ Groups \subseteq Nat \ {0}
  /\ \A p \in Periods : /\ p.user \in DOMAIN People
                         /\ p.from \in Nat /\ p.to \in Nat /\ p.from <= p.to
  /\ MaxDuties \in Nat /\ MaxParts \in Nat
  /\ MaxChanges \in Nat /\ MaxLost \in Nat
  /\ Nows \subseteq Nat
  /\ \A query \in Boards : query.from \in Nat /\ query.to \in Nat
  /\ \A view \in Views : view.group \in Nat /\ view.hidePast \in BOOLEAN
  /\ ShownMonths \subseteq Nat

VARIABLES
  zone,      \* never changes
  users,     \* the ids in the table users
  duties,    \* the table occurrences: id -> row
  groups,    \* the ids in the table groups
  parts,     \* the table participations: pairs of a user and a duty
  ooo,       \* the table out_of_office
  page,      \* the page in progress: its next statement, what it was asked
             \* for, what it has read and, as history, what it has not
  changes    \* history: writes since it began

vars == <<zone, users, duties, groups, parts, ooo, page, changes>>
tables == <<users, duties, groups, parts, ooo>>

Idle == [step |-> "idle", form |-> <<>>, got |-> <<>>, lost |-> {}]

-----------------------------------------------------------------------------
(* Queries.                                                                *)

Select(ids) == [o \in DOMAIN duties \cap ids |-> duties[o]]
DutiesOf(u) == {o \in DOMAIN duties : <<u, o>> \in parts}

\* CountAllByOccurrence: duties without participants have no row.
Counts ==
  [o \in {p[2] : p \in parts} |-> Cardinality({p \in parts : p[2] = o})]

\* roleFilterArgs
RoleFilter(roles) == IF roles = {} THEN {"participant"} ELSE roles

Entries(roles, counted) ==
  [u \in {v \in users : People[v].role \in RoleFilter(roles)} |->
     [name |-> People[u].name,
      count |-> Cardinality(DutiesOf(u) \cap counted)]]
InGroup(row, group) == group > 0 => row.group = group
OfGroup(group) == {o \in DOMAIN duties : InGroup(duties[o], group)}

LeaderboardAll(roles, group) ==
  Entries(roles, OfGroup(group))

\* Mutant: the last day is within.
LeaderboardInRangeInclusive(from, to, roles, group) ==
  Entries(roles, {o \in OfGroup(group) :
                    InRangeInclusive(duties[o].date, from, to)})

LeaderboardInRange(from, to, roles, group) ==
  Entries(roles, {o \in OfGroup(group) : InRange(duties[o].date, from, to)})

\* GetLeaderboard
Leaderboard(range, roles, group) ==
  IF range.from = Zero /\ range.to = Zero
    THEN LeaderboardAll(roles, group)
    ELSE LeaderboardInRange(range.from, range.to, roles, group)

\* ExportInRange
ExportInRange(range, roles, group) ==
  {<<Key(duties[p[2]].date, duties[p[2]].title, duties[p[2]].group),
     People[p[1]].name>> :
     p \in {q \in parts : /\ InRange(duties[q[2]].date, range.from, range.to)
                          /\ People[q[1]].role \in RoleFilter(roles)
                          /\ InGroup(duties[q[2]], group)}}

FindInRange(range, group) ==
  Select({o \in OfGroup(group) :
            InRange(duties[o].date, range.from, range.to)})

\* Mutant: also duties that are just full.
FindOpenSpotsFull ==
  Select({o \in DOMAIN duties : At(Counts, o) <= duties[o].max})

FindOpenSpots ==
  Select({o \in DOMAIN duties : At(Counts, o) < duties[o].max})

FindUpcomingByUser(u, now) ==
  Select({o \in DutiesOf(u) : duties[o].date >= now})
FindAllByUser(u) == Select(DutiesOf(u))

\* DATE(date) = ?
FindByDate(d) ==
  Select({o \in DOMAIN duties : UTCDay(duties[o].date, zone) = d})

FindByGroup(group) == Select(OfGroup(group))

\* CountByUserGroupedByDate: the range is of local days, the groups are of
\* days of UTC.
CountByDate(u, from, to) ==
  LET within == {o \in DutiesOf(u) : InRange(duties[o].date, from, to)}
      day(o) == UTCDay(duties[o].date, zone)
  IN [d \in {day(o) : o \in within} |->
        Cardinality({o \in within : day(o) = d})]

\* FindAllForDate
AbsentOn(d) == {p.user : p \in {q \in ooo : Covers(q, d)}}

-----------------------------------------------------------------------------
(* Writes of other requests, each one statement.                           *)

\* A page whose answer is out is not changed any more.
Done == {"board_done", "export_done", "free_done", "dash_done",
         "profile_done", "cal_done", "day_done", "list_done"}
Elsewhere ==
  /\ page.step \notin Done
  /\ page.step # "idle" => changes < MaxChanges
  /\ changes' = IF page.step = "idle" THEN 0 ELSE changes + 1
  /\ UNCHANGED <<zone, page>>

CreateUser(u) ==
  /\ u \notin users
  /\ users' = users \cup {u}
  /\ UNCHANGED <<duties, groups, parts, ooo>>

\* Mutant: without its participations.
DeleteUserAlone(u) ==
  /\ u \in users
  /\ users' = users \ {u}
  /\ ooo' = {p \in ooo : p.user # u}
  /\ UNCHANGED <<duties, groups, parts>>

DeleteUser(u) ==
  /\ u \in users
  /\ users' = users \ {u}
  /\ parts' = {p \in parts : p[1] # u}
  /\ ooo' = {p \in ooo : p.user # u}
  /\ UNCHANGED <<duties, groups>>

SaveDuty(o, row) ==
  /\ row.group \in groups \cup {0}
  /\ o \in DOMAIN duties \/ (\A p \in 1 .. o - 1 : p \in DOMAIN duties)
  /\ duties' = [p \in DOMAIN duties \cup {o} |->
                  IF p = o THEN row ELSE duties[p]]
  /\ UNCHANGED <<users, groups, parts, ooo>>

DeleteDuty(o) ==
  /\ o \in DOMAIN duties
  /\ duties' = [p \in DOMAIN duties \ {o} |-> duties[p]]
  /\ parts' = {p \in parts : p[2] # o}
  /\ UNCHANGED <<users, groups, ooo>>

CreateGroup(g) ==
  /\ g \notin groups
  /\ groups' = groups \cup {g}
  /\ UNCHANGED <<users, duties, parts, ooo>>

DeleteGroup(g) ==
  /\ g \in groups
  /\ groups' = groups \ {g}
  /\ duties' = [o \in DOMAIN duties |->
                  IF duties[o].group = g THEN [duties[o] EXCEPT !.group = 0]
                  ELSE duties[o]]
  /\ UNCHANGED <<users, parts, ooo>>

Join(u, o) ==
  /\ u \in users /\ o \in DOMAIN duties /\ <<u, o>> \notin parts
  /\ Cardinality(parts) < MaxParts
  /\ parts' = parts \cup {<<u, o>>}
  /\ UNCHANGED <<users, duties, groups, ooo>>

Leave(u, o) ==
  /\ <<u, o>> \in parts
  /\ parts' = parts \ {<<u, o>>}
  /\ UNCHANGED <<users, duties, groups, ooo>>

AddOOO(p) ==
  /\ p.user \in users /\ p \notin ooo
  /\ ooo' = ooo \cup {p}
  /\ UNCHANGED <<users, duties, groups, parts>>

RemoveOOO(p) ==
  /\ p \in ooo
  /\ ooo' = ooo \ {p}
  /\ UNCHANGED <<users, duties, groups, parts>>

Write ==
  /\ Elsewhere
  /\ \/ \E u \in DOMAIN People : CreateUser(u) \/ DeleteUser(u)
     \/ \E o \in 1 .. MaxDuties :
          \/ \E i \in DOMAIN Rows : SaveDuty(o, Rows[i])
          \/ DeleteDuty(o)
          \/ \E u \in users : Join(u, o) \/ Leave(u, o)
     \/ \E g \in Groups : CreateGroup(g) \/ DeleteGroup(g)
     \/ \E p \in Periods : AddOOO(p) \/ RemoveOOO(p)

-----------------------------------------------------------------------------
(* Pages.                                                                  *)

AtStep(step) == page.step = step
Form == page.form
Got == page.got

Lost == page.lost

Reach(step, form, got, lost) ==
  /\ Cardinality(lost) <= MaxLost
  /\ page' = [step |-> step, form |-> form, got |-> got, lost |-> lost]
  /\ changes' = IF page.step = "idle" THEN 0 ELSE changes
  /\ UNCHANGED <<zone, tables>>
Goto(step, form, got) == Reach(step, form, got, Lost)

\* The next statement reads one thing more.
Then(step, result) == Goto(step, Form, Append(Got, result))

\* A read whose error is dropped returns the rows before the error.
Reads == {"periods", "activity", "occs", "counts", "groups", "upcoming"}
Missing(read, all, some) == IF some = all THEN Lost ELSE Lost \cup {read}

\* LeaderboardHandler.Show
ShowLeaderboard(query, now) ==
  /\ AtStep("idle")
  /\ Goto("board_done", [query |-> query, now |-> now],
          <<Leaderboard(ShownRange(query, Day(now)),
                        LeaderboardRoles(query.filter), query.group)>>)

\* LeaderboardHandler.Export: the rows,
Export(query, first, second) ==
  LET range == ExportedRange(query, Day(first), Day(second))
      roles == LeaderboardRoles(query.filter)
  IN /\ AtStep("idle")
     /\ first <= second
     /\ ~Reversed(query)
     /\ Goto("export_entries",
             [range |-> range, roles |-> roles, group |-> query.group],
             <<ExportInRange(range, roles, query.group)>>)

\* the columns,
ExportEntries ==
  /\ AtStep("export_entries")
  /\ Then("export_occs", Leaderboard(Form.range, Form.roles, Form.group))

\* the lines,
ExportOccs ==
  /\ AtStep("export_occs")
  /\ Then("export_groups", FindInRange(Form.range, Form.group))

\* and the names of the groups.
ExportGroups ==
  /\ AtStep("export_groups")
  /\ \E named \in SUBSET groups :
       Reach("export_done", Form, <<Pivot(Got[1], Got[2], Got[3], named)>>,
             Missing("groups", groups, named))

\* AvailableUsers: the duty, then GetAvailableUsersForDate.
Free(o) ==
  /\ AtStep("idle")
  /\ o \in DOMAIN duties
  /\ Goto("free_users", [day |-> Day(duties[o].date)], <<>>)
FreeUsers == AtStep("free_users") /\ Then("free_counts", users)
FreeCounts ==
  /\ AtStep("free_counts")
  /\ Then("free_absent", Leaderboard([from |-> Zero, to |-> Zero], {}, 0))
FreeAbsent ==
  /\ AtStep("free_absent")
  /\ LET entries ==
           [u \in Got[1] |->
              [count |-> IF u \in DOMAIN Got[2] THEN Got[2][u].count ELSE 0,
               absent |-> u \in AbsentOn(Form.day)]]
     IN \E s \in SetToSeqs(Got[1]) :
          InOrder(s, entries) /\ Goto("free_done", Form, <<s, entries>>)

\* DashboardHandler.Show
Dashboard(u) ==
  /\ AtStep("idle")
  /\ u \in users
  /\ Goto("dash_counts", [user |-> u], <<FindOpenSpots>>)
DashboardCounts(now) ==
  /\ AtStep("dash_counts")
  /\ LET coming == {o \in DOMAIN Got[1] : ~Past(Got[1][o].date, now)}
     IN Goto("dash_upcoming", [user |-> Form.user, now |-> now],
             <<Lines([o \in coming |-> Got[1][o]], Counts), Counts>>)
DashboardUpcoming(now) ==
  /\ AtStep("dash_upcoming")
  /\ Form.now <= now
  /\ LET upcoming == FindUpcomingByUser(Form.user, now)
     IN \E ids \in SUBSET DOMAIN upcoming :
          Reach(IF People[Form.user].role = "participant" THEN "dash_done"
                ELSE "dash_top", Form,
                <<Got[1], Lines(Restrict(upcoming, ids), Got[2])>>,
                Missing("upcoming", DOMAIN upcoming, ids))
DashboardTop ==
  /\ AtStep("dash_top")
  /\ LET entries == Leaderboard([from |-> Zero, to |-> Zero],
                                {"participant"}, 0)
     IN \E top \in SUBSET DOMAIN entries :
          /\ Cardinality(top) = Min({TopSize, Cardinality(DOMAIN entries)})
          /\ \A u \in top, v \in DOMAIN entries \ top :
               entries[u].count >= entries[v].count
          /\ Then("dash_done", top)

\* ProfileHandler.Show: periods, activity of a year,
PeriodsOf(u) == {p \in ooo : p.user = u}
Year(u, now) ==
  [user |-> u, now |-> now, from |-> Day(now) - YearDays, to |-> Day(now)]
Profile(u) ==
  /\ AtStep("idle")
  /\ u \in users
  /\ \E periods \in SUBSET PeriodsOf(u) :
       Reach("profile_activity", [user |-> u], <<periods>>,
             Missing("periods", PeriodsOf(u), periods))
ProfileActivity(now) ==
  /\ AtStep("profile_activity")
  /\ LET form == Year(Form.user, now)
         activity == CountByDate(form.user, form.from, form.to)
     IN \E days \in SUBSET DOMAIN activity :
          Reach("profile_occs", form, <<Got[1], Restrict(activity, days)>>,
                Missing("activity", DOMAIN activity, days))

\* ProfileHandler.ShowPublic, somebody else's: the account, then the activity
\* before the periods.
ShowPublic(u) ==
  /\ AtStep("idle")
  /\ u \in users
  /\ Goto("public_activity", [user |-> u], <<>>)
PublicActivity(now) ==
  /\ AtStep("public_activity")
  /\ LET form == Year(Form.user, now)
         activity == CountByDate(form.user, form.from, form.to)
     IN \E days \in SUBSET DOMAIN activity :
          Reach("public_ooo", form, <<Restrict(activity, days)>>,
                Missing("activity", DOMAIN activity, days))
PublicOOO ==
  /\ AtStep("public_ooo")
  /\ \E periods \in SUBSET PeriodsOf(Form.user) :
       Reach("profile_occs", Form, <<periods, Got[1]>>,
             Missing("periods", PeriodsOf(Form.user), periods))

\* And the duties of either, buildUserOccurrences; isCurrentlyOOO asks for
\* the time once more.
ProfileOccs ==
  /\ AtStep("profile_occs")
  /\ LET occs == FindAllByUser(Form.user)
     IN \E ids \in SUBSET DOMAIN occs :
          Reach("profile_counts", Form, Append(Got, Restrict(occs, ids)),
                Missing("occs", DOMAIN occs, ids))
ProfileCounts(sorted, shown) ==
  /\ AtStep("profile_counts")
  /\ Form.now <= sorted /\ sorted <= shown
  /\ \E ids \in SUBSET DOMAIN Counts :
       Reach("profile_done", Form,
             <<Heatmap(Got[2], Got[1], Form.from, Form.to),
               Stats(Got[2], Form.from, Form.to),
               \E p \in Got[1] : Covers(p, Day(shown)),
               Listed(Got[3], sorted), Lines(Got[3], Restrict(Counts, ids))>>,
             Missing("counts", DOMAIN Counts, ids))

\* The lines a filter leaves.
Kept(rows, counts, view, now) ==
  LET lines == Lines(rows, counts)
  IN [o \in {i \in DOMAIN lines :
               /\ view.hidePast => ~Past(rows[i].date, now)
               /\ view.status # "" => lines[i].status = view.status} |->
        lines[o]]

\* CalendarHandler.Show: the time that is past, and later that of today.
Calendar(month, view) ==
  /\ AtStep("idle")
  /\ LET occs == FindByGroup(view.group)
     IN \E ids \in SUBSET DOMAIN occs :
          Reach("cal_counts", [month |-> month, view |-> view],
                <<Restrict(occs, ids)>>, Missing("occs", DOMAIN occs, ids))
CalendarCounts(now, today) ==
  /\ AtStep("cal_counts")
  /\ now <= today
  /\ \E ids \in SUBSET DOMAIN Counts :
       LET kept == Kept(Got[1], Restrict(Counts, ids), Form.view, now)
       IN Reach("cal_done",
                [month |-> Form.month, view |-> Form.view,
                 now |-> now, today |-> today],
                <<[d \in Grid(Form.month) |->
                     [today |-> IsToday(d, today, zone),
                      current |-> MonthOf(d) % Months = Form.month % Months,
                      occurrences |-> {o \in DOMAIN kept :
                                         Day(kept[o].duty.date) = d}]]>>,
                Missing("counts", DOMAIN Counts, ids))

\* DayOccurrences
DayOccurrences(d) ==
  AtStep("idle") /\ Goto("day_counts", [day |-> d], <<FindByDate(d)>>)
DayCounts ==
  AtStep("day_counts") /\ Goto("day_done", Form, <<Lines(Got[1], Counts)>>)

\* OccurrenceHandler.List
List(view) ==
  /\ AtStep("idle")
  /\ Goto("list_counts", [view |-> view], <<FindByGroup(view.group)>>)
ListCounts(now) ==
  /\ AtStep("list_counts")
  /\ LET kept == Kept(Got[1], Counts, Form.view, now)
     IN Goto("list_done", [view |-> Form.view, now |-> now],
             <<kept, Listed([o \in DOMAIN kept |-> kept[o].duty], now)>>)

\* The answer is shown, or the request fails, or the process stops.
End ==
  /\ page.step # "idle"
  /\ page' = Idle
  /\ changes' = 0
  /\ UNCHANGED <<zone, tables>>

Begin ==
  \/ \E query \in Boards, now \in Nows :
       \/ ShowLeaderboard(query, now)
       \/ \E later \in Nows : Export(query, now, later)
  \/ \E o \in 1 .. MaxDuties : Free(o)
  \/ \E u \in users : Dashboard(u) \/ Profile(u) \/ ShowPublic(u)
  \/ \E view \in Views :
       List(view) \/ \E month \in ShownMonths : Calendar(month, view)
  \/ \E now \in Nows : DayOccurrences(Day(now))

Continue ==
  \/ ExportEntries \/ ExportOccs \/ ExportGroups
  \/ FreeUsers \/ FreeCounts \/ FreeAbsent
  \/ \E now \in Nows :
       \/ DashboardCounts(now) \/ DashboardUpcoming(now)
       \/ ProfileActivity(now) \/ PublicActivity(now)
       \/ ListCounts(now)
       \/ \E later \in Nows :
            ProfileCounts(now, later) \/ CalendarCounts(now, later)
  \/ DashboardTop \/ PublicOOO \/ ProfileOccs \/ DayCounts

Init ==
  /\ zone \in Zones
  /\ users = {}
  /\ duties = [o \in {} |-> o]
  /\ groups = {}
  /\ parts = {}
  /\ ooo = {}
  /\ page = Idle
  /\ changes = 0

Next == Write \/ Begin \/ Continue \/ End

Spec == Init /\ [][Next]_vars

-----------------------------------------------------------------------------
(* Properties.                                                             *)

Steps == Done \cup
  {"idle", "export_entries", "export_occs", "export_groups", "free_users",
   "free_counts", "free_absent", "dash_counts", "dash_upcoming", "dash_top",
   "profile_activity", "public_activity", "public_ooo", "profile_occs",
   "profile_counts", "cal_counts", "day_counts", "list_counts"}

TypeOK ==
  /\ zone \in Zones
  /\ users \subseteq DOMAIN People
  /\ DOMAIN duties \subseteq 1 .. MaxDuties
  /\ \A o \in DOMAIN duties : duties[o] \in Row
  /\ groups \subseteq Groups
  /\ parts \subseteq users \X DOMAIN duties
  /\ ooo \subseteq {p \in Periods : p.user \in users}
  /\ page.step \in Steps /\ Lost \subseteq Reads
  /\ changes \in 0 .. MaxChanges

\* Nobody has written since the page began: it should show what is there.
Undisturbed == changes = 0

OfNoRange(query) ==
  Reversed(query) \/ (query.from = Zero /\ query.to = Zero)

\* A leaderboard for no range, or for one that ends before it begins, is that
\* of the study year today is in: it counts the duties since the last first
\* day of study that are before today, and none of another study year.
BegunBetween(d, e) ==
  \E f \in d + 1 .. e : \E m \in MonthOf(d) .. MonthOf(e) :
    m % Months = FirstMonth /\ MonthStart(m) = f
BoardIsOfThisYear ==
  AtStep("board_done") /\ Undisturbed /\ OfNoRange(Form.query) =>
    LET today == Day(Form.now)
        counted(u) == {o \in DutiesOf(u) : InGroup(duties[o], Form.query.group)}
        day(o) == Day(duties[o].date)
    IN \A u \in DOMAIN Got[1] :
         /\ Got[1][u].count >=
              Cardinality({o \in counted(u) :
                             day(o) < today /\ ~BegunBetween(day(o), today)})
         /\ Got[1][u].count <=
              Cardinality({o \in counted(u) :
                             /\ ~BegunBetween(day(o), today)
                             /\ ~BegunBetween(today, day(o))})

\* Unless two users have one name, or two duties one date, title and group:
\* those are taken for one.
AddsUp(table) ==
  IsInjective(table.name) /\ IsInjective(table.key) =>
    \A u \in DOMAIN table.name :
      table.total[u] =
        Cardinality({o \in DOMAIN table.key : <<o, u>> \in table.crosses})

\* The export's queries agree on the days of a range, on its roles and on its
\* groups.  A cross is only where somebody of that name has a duty printed
\* like this one; every duty before the last day has a line, and there a cross
\* for each of its participants; and the totals are the numbers of crosses
\* below them.  When names of groups are missing, because the error of reading
\* them is dropped, duties with a group may lose their crosses, and the totals
\* say so to nobody.  Of the last day, which FindInRange misses, it says nothing.
WithinRange(o) ==
  /\ InGroup(duties[o], Form.group)
  /\ Form.range.from <= Day(duties[o].date)
  /\ Day(duties[o].date) < Form.range.to
Listable(p) == People[p[1]].role \in Form.roles /\ WithinRange(p[2])
KeyOf(o) == Key(duties[o].date, duties[o].title, duties[o].group)
ExportTrue ==
  AtStep("export_done") /\ Undisturbed =>
    LET table == Got[1]
    IN /\ \A o \in DOMAIN duties : WithinRange(o) => o \in DOMAIN table.key
       /\ \A p \in parts :
            Listable(p) /\ (Lost = {} \/ duties[p[2]].group = 0) =>
              <<p[2], p[1]>> \in table.crosses
       /\ \A c \in table.crosses : \E p \in parts :
            /\ People[p[1]].role \in Form.roles
            /\ InGroup(duties[p[2]], Form.group)
            /\ People[p[1]].name = table.name[c[2]]
            /\ KeyOf(p[2]) = table.key[c[1]]
       /\ Lost = {} => AddsUp(table)

\* Free users: nobody who is absent comes before somebody who is not, and of
\* the participants those with fewer duties come first.  Nothing of the kind
\* is true of organizers and administrators.
ParticipantsRanked ==
  AtStep("free_done") =>
    LET s == Got[1]
        entries == Got[2]
        comparable(u, v) ==
          /\ entries[u].absent = entries[v].absent
          /\ People[u].role = "participant" /\ People[v].role = "participant"
    IN \A i, j \in DOMAIN s : i < j =>
         /\ entries[s[i]].absent => entries[s[j]].absent
         /\ Undisturbed /\ comparable(s[i], s[j]) =>
              Cardinality(DutiesOf(s[i])) <= Cardinality(DutiesOf(s[j]))

\* "Sorted by total participation count ascending (least done first), with OOO
\* users at the bottom": of everybody, whatever the role.  An organizer's
\* duties count nothing, and one who has many comes first: see run pages_free.
LeastDoneFirst ==
  AtStep("free_done") /\ Undisturbed =>
    LET s == Got[1]
        entries == Got[2]
    IN \A i, j \in DOMAIN s :
         i < j /\ entries[s[i]].absent = entries[s[j]].absent =>
           Cardinality(DutiesOf(s[i])) <= Cardinality(DutiesOf(s[j]))

\* An open duty of the dashboard has a place, and every duty to come that has
\* one is there; when somebody joins while the page is read it can show a
\* full duty as open, but it asks for people only where it says they lack.
OpenHaveRoom ==
  AtStep("dash_done") =>
    LET open == Got[1]
    IN /\ \A o \in DOMAIN open :
            /\ ~Past(open[o].duty.date, Form.now)
            /\ open[o].needed > 0 <=> open[o].status = "under"
       /\ Undisturbed =>
            DOMAIN open = {o \in DOMAIN duties :
                             /\ ~Past(duties[o].date, Form.now)
                             /\ Cardinality({p \in parts : p[2] = o})
                                  < duties[o].max}

\* The heat map shows no duty on another day than its own or, where local
\* time is ahead, the day before; if all of the activity was read it shows all
\* duties of the year before today; and the statistics count no more than the
\* year has.
ActivityNearItsDay ==
  AtStep("profile_done") /\ Undisturbed =>
    LET cells == Got[1]
        on(d) == Cardinality({o \in DutiesOf(Form.user) :
                                Day(duties[o].date) = d})
        shown(d) == IF d \in DOMAIN cells THEN cells[d].count ELSE 0
        year == Form.from .. Form.to - 1
    IN /\ \A d \in year : shown(d) <= on(d) + on(d + 1)
       /\ zone = 0 => \A d \in year : shown(d) <= on(d)
       /\ "activity" \notin Lost =>
            /\ \A d \in Form.from + 1 .. Form.to - 1 :
                 shown(d - 1) + shown(d) >= on(d)
            /\ zone = 0 => \A d \in year : shown(d) >= on(d)
       /\ Got[2].total <= SumFunction([d \in Form.from .. Form.to |-> on(d)])

\* The streak is the number of months up to this one without a gap, and the
\* longest one that of any months without a gap.
StreaksAreRuns ==
  AtStep("profile_done") =>
    LET cells == Got[1]
        active(m) == \E d \in Form.from .. Form.to :
                       MonthOf(d) = m /\ cells[d].count > 0
        first == MonthOf(Form.from)
        last == MonthOf(Form.to)
        run(m, k) == k <= m - first + 1 /\ \A i \in m - k + 1 .. m : active(i)
        longest(m) == Max({k \in 0 .. last - first + 1 : run(m, k)})
    IN /\ Got[2].current = longest(last)
       /\ Got[2].longest = Max({longest(m) : m \in first .. last})

\* What a profile says of a year: no more than there was, near its day, and
\* statistics that agree with the heat map.
ProfileTrue == ActivityNearItsDay /\ StreaksAreRuns

\* The calendar of a month: whole weeks that hold every day of the month and
\* none that holds no day of it.  No duty of the month is on another day than
\* its own, and if the reads it takes succeeded each one the filters leave is
\* there: the duties, and with a filter for the status the counts.
CalendarIsWhole ==
  AtStep("cal_done") =>
    LET cells == Got[1]
        month == {d \in DOMAIN cells : cells[d].current}
        view == Form.view
    IN /\ Cardinality(DOMAIN cells) % WeekLength = 0
       /\ Min(DOMAIN cells) % WeekLength = 0
       /\ Cardinality(month) = MonthDays[(Form.month % Months) + 1]
       /\ Cardinality(DOMAIN cells \ month) <= 2 * (WeekLength - 1)
       /\ Undisturbed =>
            \A o \in DOMAIN duties :
              LET row == duties[o]
                  here == {d \in month : o \in cells[d].occurrences}
                  due == /\ MonthOf(Day(row.date)) = Form.month
                         /\ view.group \in {0, row.group}
                         /\ view.hidePast => ~Past(row.date, Form.now)
                  left == view.status \in {"", Status(row, At(Counts, o))}
                  complete == Lost \subseteq
                                IF view.status = "" THEN {"counts"} ELSE {}
              IN /\ here \subseteq IF due THEN {Day(row.date)} ELSE {}
                 /\ complete =>
                      here = IF due /\ left THEN {Day(row.date)} ELSE {}

\* At most one cell of a calendar is marked as today, and it is today's where
\* local time is that of UTC, or the hour is early enough for the days of
\* local time and of UTC to be apart.
TodayIsMarked ==
  AtStep("cal_done") =>
    LET now == Form.today
        marked == {d \in DOMAIN Got[1] : Got[1][d].today}
    IN /\ Cardinality(marked) <= 1
       /\ zone = 0 \/ now % DayLength < zone =>
            marked = {Day(now)} \cap DOMAIN Got[1]

\* The page of a day has all duties of it that are not so early that they are
\* of the day before in UTC, and of other days only such early ones.
DayShowsItsDuties ==
  AtStep("day_done") /\ Undisturbed =>
    \A o \in DOMAIN duties :
      duties[o].date % DayLength >= zone =>
        (o \in DOMAIN Got[1] <=> Day(duties[o].date) = Form.day)

\* The calendar of a month, its mark of today, and the page of one of its
\* days, as far as time zones and dropped errors leave them true.
CalendarTrue == CalendarIsWhole /\ TodayIsMarked /\ DayShowsItsDuties

\* The list has every duty that passes the filters once: what is to come
\* first, in order, and then what is past, the latest first.
UpcomingFirst ==
  AtStep("list_done") =>
    LET lines == Got[1]
        s == Got[2]
        date(i) == lines[s[i]].duty.date
    IN /\ Range(s) = DOMAIN lines /\ IsInjective(s)
       /\ \A i, j \in DOMAIN s : i < j =>
            \/ Form.now <= date(i) /\ (date(i) <= date(j) \/ date(j) < Form.now)
            \/ date(i) < Form.now /\ date(j) <= date(i)

\* The two lists of duties, of open ones and of all, leave nothing out that
\* belongs to them and are in the order they promise.
ListsTrue == OpenHaveRoom /\ UpcomingFirst

=============================================================================
