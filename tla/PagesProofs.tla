----------------------------- MODULE PagesProofs -----------------------------
(***************************************************************************)
(* What the pages show, for every calendar, every set of accounts, duties  *)
(* and periods, and any number of writes between their statements.         *)
(***************************************************************************)
EXTENDS Pages, ReportsProofs, SequenceTheorems

-----------------------------------------------------------------------------
(* The tables.                                                             *)

\* Beside the types: a duty's group exists, and the accounts are finitely many.
TablesOK ==
  /\ zone \in Zones
  /\ users \subseteq DOMAIN People /\ IsFiniteSet(users)
  /\ DOMAIN duties \subseteq 1 .. MaxDuties
  /\ \A o \in DOMAIN duties : duties[o] \in Row /\ duties[o].group \in groups \cup {0}
  /\ groups \subseteq Groups
  /\ parts \subseteq users \X DOMAIN duties
  /\ ooo \subseteq {p \in Periods : p.user \in users}

BaseInv == TypeOK /\ TablesOK

\* Every small database of the initial states is well formed.
LEMMA InitBase == ASSUME Init PROVE BaseInv
<1>1. "idle" \in Steps
  BY DEF Steps
<1>2. IsFiniteSet({}) /\ MaxChanges \in Nat
  BY FS_EmptySet, PagesAssumption
<1>. QED
  BY <1>1, <1>2 DEF Init, BaseInv, TypeOK, TablesOK, Idle, Lost

\* A row as a form or the deletion of its group leaves it.
LEMMA RowStaysRow ==
  ASSUME NEW row \in Row
  PROVE  /\ [row EXCEPT !.group = 0] \in Row
         /\ [row EXCEPT !.group = 0].group = 0
BY DEF Row

\* The rows to choose from are rows.
LEMMA RowsAre == \A i \in DOMAIN Rows : Rows[i] \in Row
BY PagesAssumption

\* So is what any write leaves.
LEMMA WriteKeepsTables ==
  ASSUME TablesOK, Write
  PROVE  TablesOK'
<1>. USE DEF TablesOK
<1>1. zone' = zone
  BY DEF Write, Elsewhere
<1>2. ASSUME NEW u \in DOMAIN People, CreateUser(u)
      PROVE  TablesOK'
  <2>1. IsFiniteSet(users')
    BY <1>2, FS_AddElement DEF CreateUser
  <2>. QED
    BY <1>1, <1>2, <2>1 DEF CreateUser
<1>3. ASSUME NEW u \in DOMAIN People, DeleteUser(u)
      PROVE  TablesOK'
  <2>1. IsFiniteSet(users')
    BY <1>3, FS_RemoveElement DEF DeleteUser
  <2>2. /\ UNCHANGED <<duties, groups>>
        /\ users' \subseteq DOMAIN People
    BY <1>3 DEF DeleteUser
  <2>3. parts' \subseteq users' \X DOMAIN duties
    BY <1>3 DEF DeleteUser
  <2>4. ooo' \subseteq {p \in Periods : p.user \in users'}
    BY <1>3 DEF DeleteUser
  <2>. QED
    BY <1>1, <2>1, <2>2, <2>3, <2>4
<1>4. ASSUME NEW o \in 1 .. MaxDuties, NEW i \in DOMAIN Rows, SaveDuty(o, Rows[i])
      PROVE  TablesOK'
  <2>1. /\ DOMAIN duties' = DOMAIN duties \cup {o}
        /\ \A p \in DOMAIN duties' : duties'[p] = IF p = o THEN Rows[i] ELSE duties[p]
        /\ Rows[i] \in Row /\ Rows[i].group \in groups \cup {0}
        /\ UNCHANGED <<users, groups, parts, ooo>>
    BY <1>4, RowsAre DEF SaveDuty
  <2>. QED
    BY <1>1, <2>1
<1>5. ASSUME NEW o \in 1 .. MaxDuties, DeleteDuty(o)
      PROVE  TablesOK'
  <2>1. /\ DOMAIN duties' = DOMAIN duties \ {o}
        /\ \A p \in DOMAIN duties' : duties'[p] = duties[p]
        /\ UNCHANGED <<users, groups, ooo>>
    BY <1>5 DEF DeleteDuty
  <2>2. parts' \subseteq users \X DOMAIN duties'
    BY <1>5, <2>1 DEF DeleteDuty
  <2>. QED
    BY <1>1, <2>1, <2>2
<1>6. ASSUME NEW u \in users, NEW o \in 1 .. MaxDuties, Join(u, o)
      PROVE  TablesOK'
  BY <1>1, <1>6 DEF Join
<1>7. ASSUME NEW u \in users, NEW o \in 1 .. MaxDuties, Leave(u, o)
      PROVE  TablesOK'
  BY <1>1, <1>7 DEF Leave
<1>8. ASSUME NEW g \in Groups, CreateGroup(g)
      PROVE  TablesOK'
  BY <1>1, <1>8 DEF CreateGroup
<1>9. ASSUME NEW g \in Groups, DeleteGroup(g)
      PROVE  TablesOK'
  <2>1. /\ DOMAIN duties' = DOMAIN duties /\ groups' = groups \ {g}
        /\ \A o \in DOMAIN duties :
             duties'[o] = IF duties[o].group = g THEN [duties[o] EXCEPT !.group = 0]
                          ELSE duties[o]
        /\ UNCHANGED <<users, parts, ooo>>
    BY <1>9 DEF DeleteGroup
  <2>2. ASSUME NEW o \in DOMAIN duties
        PROVE  duties'[o] \in Row /\ duties'[o].group \in groups' \cup {0}
    BY <2>1, RowStaysRow
  <2>. QED
    BY <1>1, <2>1, <2>2
<1>10. ASSUME NEW p \in Periods, AddOOO(p)
       PROVE  TablesOK'
  BY <1>1, <1>10 DEF AddOOO
<1>11. ASSUME NEW p \in Periods, RemoveOOO(p)
       PROVE  TablesOK'
  BY <1>1, <1>11 DEF RemoveOOO
<1>. HIDE DEF TablesOK
<1>. QED
  BY <1>2, <1>3, <1>4, <1>5, <1>6, <1>7, <1>8, <1>9, <1>10, <1>11 DEF Write

-----------------------------------------------------------------------------
(* The pages.                                                              *)

\* From which step to which, and that no more than reads get lost.
BeginsAt ==
  /\ page.step = "idle" /\ changes' = 0
  /\ Lost' \subseteq Lost \cup Reads
  /\ UNCHANGED <<zone, tables>>
ContinuesAt ==
  /\ page.step # "idle" /\ changes' = changes
  /\ Lost \subseteq Lost' /\ Lost' \subseteq Lost \cup Reads
  /\ UNCHANGED <<zone, tables>>

\* A read that is not among the lost ones has returned all of its rows.
LEMMA MissingIs ==
  ASSUME NEW read \in Reads, NEW all, NEW some
  PROVE  /\ Lost \subseteq Missing(read, all, some)
         /\ Missing(read, all, some) \subseteq Lost \cup Reads
         /\ read \notin Missing(read, all, some) => some = all
BY DEF Missing

\* The names of the reads.
LEMMA ReadsAre ==
  /\ "periods" \in Reads /\ "activity" \in Reads /\ "occs" \in Reads
  /\ "counts" \in Reads /\ "groups" \in Reads /\ "upcoming" \in Reads
BY DEF Reads

\* What Goto and Reach make of a page.
LEMMA Reaches ==
  \A step, form, got, lost :
    Reach(step, form, got, lost) =>
      /\ page'.step = step /\ page'.form = form /\ page'.got = got
      /\ Lost' = lost
      /\ changes' = IF page.step = "idle" THEN 0 ELSE changes
      /\ UNCHANGED <<zone, tables>>
BY DEF Reach, Lost

\* The steps that begin a page, by what they lead to.
LEMMA Begins ==
  ASSUME Begin
  PROVE  /\ BeginsAt
         /\ \/ /\ page'.step = "board_done"
               /\ \E query \in Boards, now \in Nows : ShowLeaderboard(query, now)
            \/ /\ page'.step = "export_entries"
               /\ \E query \in Boards, now \in Nows, later \in Nows : Export(query, now, later)
            \/ /\ page'.step = "free_users"
               /\ \E o \in 1 .. MaxDuties : Free(o)
            \/ /\ page'.step = "dash_counts"
               /\ \E u \in users : Dashboard(u)
            \/ /\ page'.step = "profile_activity"
               /\ \E u \in users : Profile(u)
            \/ /\ page'.step = "public_activity"
               /\ \E u \in users : ShowPublic(u)
            \/ /\ page'.step = "list_counts"
               /\ \E view \in Views : List(view)
            \/ /\ page'.step = "cal_counts"
               /\ \E month \in ShownMonths, view \in Views : Calendar(month, view)
            \/ /\ page'.step = "day_counts"
               /\ \E now \in Nows : DayOccurrences(Day(now))
<1>1. \A step, form, got : AtStep("idle") /\ Goto(step, form, got) =>
        BeginsAt /\ page'.step = step
  BY Reaches DEF AtStep, Goto, BeginsAt
<1>2. \A step, form, got, read, all, some :
        /\ AtStep("idle") /\ read \in Reads
        /\ Reach(step, form, got, Missing(read, all, some))
        => BeginsAt /\ page'.step = step
  BY Reaches, MissingIs DEF AtStep, BeginsAt
<1>3. ASSUME NEW query \in Boards, NEW now \in Nows, ShowLeaderboard(query, now)
      PROVE  BeginsAt /\ page'.step = "board_done"
  BY <1>1, <1>3 DEF ShowLeaderboard
<1>4. ASSUME NEW query \in Boards, NEW now \in Nows, NEW later \in Nows, Export(query, now, later)
      PROVE  BeginsAt /\ page'.step = "export_entries"
  BY <1>1, <1>4 DEF Export
<1>5. ASSUME NEW o \in 1 .. MaxDuties, Free(o)
      PROVE  BeginsAt /\ page'.step = "free_users"
  BY <1>1, <1>5 DEF Free
<1>6. ASSUME NEW u \in users, Dashboard(u)
      PROVE  BeginsAt /\ page'.step = "dash_counts"
  BY <1>1, <1>6 DEF Dashboard
<1>7. ASSUME NEW u \in users, Profile(u)
      PROVE  BeginsAt /\ page'.step = "profile_activity"
  BY <1>2, ReadsAre, <1>7 DEF Profile
<1>8. ASSUME NEW u \in users, ShowPublic(u)
      PROVE  BeginsAt /\ page'.step = "public_activity"
  BY <1>1, <1>8 DEF ShowPublic
<1>9. ASSUME NEW view \in Views, List(view)
      PROVE  BeginsAt /\ page'.step = "list_counts"
  BY <1>1, <1>9 DEF List
<1>10. ASSUME NEW month \in ShownMonths, NEW view \in Views, Calendar(month, view)
      PROVE  BeginsAt /\ page'.step = "cal_counts"
  BY <1>2, ReadsAre, <1>10 DEF Calendar
<1>11. ASSUME NEW now \in Nows, DayOccurrences(Day(now))
      PROVE  BeginsAt /\ page'.step = "day_counts"
  BY <1>1, <1>11 DEF DayOccurrences
<1>. QED
  BY <1>3, <1>4, <1>5, <1>6, <1>7, <1>8, <1>9, <1>10, <1>11 DEF Begin

\* The later statements, by what they lead to.
LEMMA Continues ==
  ASSUME Continue
  PROVE  /\ ContinuesAt
         /\ \/ page'.step = "export_occs" /\ ExportEntries
            \/ page'.step = "export_groups" /\ ExportOccs
            \/ page'.step = "export_done" /\ ExportGroups
            \/ page'.step = "free_counts" /\ FreeUsers
            \/ page'.step = "free_absent" /\ FreeCounts
            \/ page'.step = "free_done" /\ FreeAbsent
            \/ /\ page'.step = "dash_upcoming"
               /\ \E now \in Nows : DashboardCounts(now)
            \/ /\ page'.step \in {"dash_done", "dash_top"}
               /\ \E now \in Nows : DashboardUpcoming(now)
            \/ page'.step = "dash_done" /\ DashboardTop
            \/ /\ page'.step = "profile_occs"
               /\ \E now \in Nows : ProfileActivity(now)
            \/ /\ page'.step = "public_ooo"
               /\ \E now \in Nows : PublicActivity(now)
            \/ page'.step = "profile_occs" /\ PublicOOO
            \/ page'.step = "profile_counts" /\ ProfileOccs
            \/ /\ page'.step = "profile_done"
               /\ \E now \in Nows, later \in Nows : ProfileCounts(now, later)
            \/ /\ page'.step = "cal_done"
               /\ \E now \in Nows, later \in Nows : CalendarCounts(now, later)
            \/ page'.step = "day_done" /\ DayCounts
            \/ /\ page'.step = "list_done"
               /\ \E now \in Nows : ListCounts(now)
<1>1. \A at, step, form, got :
        at # "idle" /\ AtStep(at) /\ Goto(step, form, got) =>
          ContinuesAt /\ page'.step = step
  BY Reaches DEF AtStep, Goto, ContinuesAt
<1>2. \A at, step, form, got, read, all, some :
        /\ at # "idle" /\ AtStep(at) /\ read \in Reads
        /\ Reach(step, form, got, Missing(read, all, some))
        => ContinuesAt /\ page'.step = step
  BY Reaches, MissingIs DEF AtStep, ContinuesAt
<1>3. ExportEntries => ContinuesAt /\ page'.step = "export_occs"
  BY <1>1 DEF ExportEntries, Then
<1>4. ExportOccs => ContinuesAt /\ page'.step = "export_groups"
  BY <1>1 DEF ExportOccs, Then
<1>5. ExportGroups => ContinuesAt /\ page'.step = "export_done"
  BY <1>2, ReadsAre DEF ExportGroups
<1>6. FreeUsers => ContinuesAt /\ page'.step = "free_counts"
  BY <1>1 DEF FreeUsers, Then
<1>7. FreeCounts => ContinuesAt /\ page'.step = "free_absent"
  BY <1>1 DEF FreeCounts, Then
<1>8. FreeAbsent => ContinuesAt /\ page'.step = "free_done"
  BY <1>1 DEF FreeAbsent
<1>9. ASSUME NEW now \in Nows, DashboardCounts(now)
      PROVE  ContinuesAt /\ page'.step = "dash_upcoming"
  BY <1>1, <1>9 DEF DashboardCounts
<1>10. ASSUME NEW now \in Nows, DashboardUpcoming(now)
      PROVE  ContinuesAt /\ page'.step \in {"dash_done", "dash_top"}
  BY <1>2, ReadsAre, <1>10 DEF DashboardUpcoming
<1>11. DashboardTop => ContinuesAt /\ page'.step = "dash_done"
  BY <1>1 DEF DashboardTop, Then
<1>12. ASSUME NEW now \in Nows, ProfileActivity(now)
      PROVE  ContinuesAt /\ page'.step = "profile_occs"
  BY <1>2, ReadsAre, <1>12 DEF ProfileActivity
<1>13. ASSUME NEW now \in Nows, PublicActivity(now)
      PROVE  ContinuesAt /\ page'.step = "public_ooo"
  BY <1>2, ReadsAre, <1>13 DEF PublicActivity
<1>14. PublicOOO => ContinuesAt /\ page'.step = "profile_occs"
  BY <1>2, ReadsAre DEF PublicOOO
<1>15. ProfileOccs => ContinuesAt /\ page'.step = "profile_counts"
  BY <1>2, ReadsAre DEF ProfileOccs
<1>16. ASSUME NEW now \in Nows, NEW later \in Nows, ProfileCounts(now, later)
      PROVE  ContinuesAt /\ page'.step = "profile_done"
  BY <1>2, ReadsAre, <1>16 DEF ProfileCounts
<1>17. ASSUME NEW now \in Nows, NEW later \in Nows, CalendarCounts(now, later)
      PROVE  ContinuesAt /\ page'.step = "cal_done"
  BY <1>2, ReadsAre, <1>17 DEF CalendarCounts
<1>18. DayCounts => ContinuesAt /\ page'.step = "day_done"
  BY <1>1 DEF DayCounts
<1>19. ASSUME NEW now \in Nows, ListCounts(now)
      PROVE  ContinuesAt /\ page'.step = "list_done"
  BY <1>1, <1>19 DEF ListCounts
<1>. QED
  BY <1>3, <1>4, <1>5, <1>6, <1>7, <1>8, <1>9, <1>10, <1>11, <1>12,
     <1>13, <1>14, <1>15, <1>16, <1>17, <1>18, <1>19 DEF Continue

\* A write leaves the page as it is, and is counted while there is one.
LEMMA Writes ==
  ASSUME Write, changes \in Nat
  PROVE  /\ page' = page /\ page.step \notin Done
         /\ page.step = "idle" \/ changes' # 0
BY DEF Write, Elsewhere

\* What a step does to the page: nothing, or end it, or take it to the next
\* statement, with the tables as they are.
LEMMA Moves ==
  ASSUME BaseInv, [Next]_vars
  PROVE  \/ UNCHANGED vars
         \/ /\ Write /\ page' = page /\ page.step \notin Done
            /\ page.step = "idle" \/ changes' # 0
         \/ page' = Idle /\ changes' = 0 /\ UNCHANGED <<zone, tables>>
         \/ Begin /\ BeginsAt
         \/ Continue /\ ContinuesAt
<1>1. changes \in Nat
  BY PagesAssumption DEF BaseInv, TypeOK
<1>2. CASE End
  BY <1>2 DEF End
<1>. QED
  BY <1>1, <1>2, Begins, Continues, Writes DEF Next

\* Tables and page keep their types.
LEMMA StepBase ==
  ASSUME BaseInv, [Next]_vars
  PROVE  BaseInv'
<1>1. MaxChanges \in Nat
  BY PagesAssumption
<1>2. /\ TablesOK /\ page.step \in Steps /\ changes \in 0 .. MaxChanges
      /\ Lost \subseteq Reads
  BY DEF BaseInv, TypeOK
<1>3. (UNCHANGED <<zone, tables>>) => TablesOK'
  BY <1>2 DEF TablesOK, tables
<1>4. CASE UNCHANGED vars
  BY <1>4 DEF vars, BaseInv, TypeOK, TablesOK, Lost
<1>5. CASE Write
  <2>1. TablesOK'
    BY <1>2, <1>5, WriteKeepsTables
  <2>2. page' = page /\ changes' \in 0 .. MaxChanges
    BY <1>1, <1>2, <1>5 DEF Write, Elsewhere
  <2>. QED
    BY <1>2, <2>1, <2>2 DEF BaseInv, TypeOK, TablesOK, Lost
<1>6. CASE page' = Idle /\ changes' = 0 /\ UNCHANGED <<zone, tables>>
  <2>1. /\ page'.step \in Steps /\ changes' \in 0 .. MaxChanges
        /\ Lost' \subseteq Reads
    BY <1>1, <1>6 DEF Idle, Steps, Lost
  <2>. QED
    BY <1>3, <1>6, <2>1 DEF BaseInv, TypeOK, TablesOK
<1>7. CASE Begin /\ BeginsAt
  <2>1. page'.step \in Steps
    BY <1>7, Begins DEF Steps, Done
  <2>2. TablesOK' /\ changes' \in 0 .. MaxChanges /\ Lost' \subseteq Reads
    BY <1>1, <1>2, <1>3, <1>7 DEF BeginsAt
  <2>. QED
    BY <2>1, <2>2 DEF BaseInv, TypeOK, TablesOK
<1>8. CASE Continue /\ ContinuesAt
  <2>1. page'.step \in Steps
    BY <1>8, Continues DEF Steps, Done
  <2>2. TablesOK' /\ changes' \in 0 .. MaxChanges /\ Lost' \subseteq Reads
    BY <1>2, <1>3, <1>8 DEF ContinuesAt
  <2>. QED
    BY <2>1, <2>2 DEF BaseInv, TypeOK, TablesOK
<1>. QED
  BY <1>4, <1>5, <1>6, <1>7, <1>8, Moves

\* The invariant that all the others build on.
LEMMA BaseHolds == Spec => []BaseInv
<1>1. Init => BaseInv
  BY InitBase
<1>2. BaseInv /\ [Next]_vars => BaseInv'
  BY StepBase
<1>. QED
  BY <1>1, <1>2, PTL DEF Spec

\* Tables and pages hold what they are for: every state has the types.
THEOREM PagesTypeCorrect == Spec => []TypeOK
<1>1. BaseInv => TypeOK
  BY DEF BaseInv
<1>. QED
  BY <1>1, BaseHolds, PTL

-----------------------------------------------------------------------------
(* The leaderboard.                                                        *)

BoardSeen ==
  page.step = "board_done" /\ Undisturbed =>
    \E query \in Boards, now \in Nows :
      /\ page.form = [query |-> query, now |-> now]
      /\ page.got = <<Leaderboard(ShownRange(query, Day(now)),
                                  LeaderboardRoles(query.filter), query.group)>>

\* What is known of a leaderboard: it was asked for, and its range computed.
LEMMA StepBoard ==
  ASSUME BaseInv, BoardSeen, [Next]_vars
  PROVE  BoardSeen'
<1>. SUFFICES ASSUME page'.step = "board_done", changes' = 0
              PROVE  BoardSeen'
  BY DEF BoardSeen, Undisturbed
<1>1. CASE UNCHANGED vars
  <2>1. UNCHANGED <<users, duties, parts, page, changes>>
    BY <1>1 DEF vars
  <2>2. \A range, roles, group :
          Leaderboard(range, roles, group)' = Leaderboard(range, roles, group)
    BY <2>1 DEF Leaderboard, LeaderboardAll, LeaderboardInRange, Entries,
       OfGroup, DutiesOf
  <2>. QED
    BY <2>1, <2>2 DEF BoardSeen, Undisturbed
<1>2. CASE page' = page /\ page.step \notin Done
  BY <1>2 DEF Done
<1>3. CASE page' = Idle
  BY <1>3 DEF Idle
<1>4. CASE Begin /\ BeginsAt
  <2>1. PICK query \in Boards, now \in Nows : ShowLeaderboard(query, now)
    BY <1>4, Begins
  <2>2. /\ page'.form = [query |-> query, now |-> now]
        /\ page'.got = <<Leaderboard(ShownRange(query, Day(now)),
                                     LeaderboardRoles(query.filter), query.group)>>
        /\ UNCHANGED <<users, duties, parts>>
    BY <2>1 DEF ShowLeaderboard, Goto, Reach, tables
  <2>3. \A range, roles, group :
          Leaderboard(range, roles, group)' = Leaderboard(range, roles, group)
    BY <2>2 DEF Leaderboard, LeaderboardAll, LeaderboardInRange, Entries,
       OfGroup, DutiesOf
  <2>. QED
    BY <2>2, <2>3 DEF BoardSeen
<1>5. CASE Continue /\ ContinuesAt
  BY <1>5, Continues
<1>. QED
  BY <1>1, <1>2, <1>3, <1>4, <1>5, Moves

\* A study year begins between two days if FirstMonth does.
LEMMA BegunIs ==
  ASSUME NEW d \in Int, NEW e \in Int
  PROVE  BegunBetween(d, e) <=>
           \E m \in Int : /\ m % Months = FirstMonth
                          /\ d < MonthStart(m) /\ MonthStart(m) <= e
<1>1. ASSUME NEW m \in Int, d < MonthStart(m), MonthStart(m) <= e
      PROVE  m \in MonthOf(d) .. MonthOf(e) /\ MonthStart(m) \in d + 1 .. e
  <2>1. /\ MonthOf(d) \in Int /\ MonthOf(e) \in Int
        /\ MonthStart(MonthOf(d)) <= d /\ e < MonthStart(MonthOf(e) + 1)
    BY MonthOfIs
  <2>2. /\ MonthStart(m) \in Int /\ MonthStart(MonthOf(d)) \in Int
        /\ MonthStart(MonthOf(e) + 1) \in Int
    BY <2>1, MonthStartType
  <2>3. MonthOf(d) < m
    BY <1>1, <2>1, <2>2, MonthsInOrder
  <2>4. m < MonthOf(e) + 1
    BY <1>1, <2>1, <2>2, MonthsInOrder
  <2>. QED
    BY <1>1, <2>1, <2>2, <2>3, <2>4
<1>2. ASSUME BegunBetween(d, e)
      PROVE  \E m \in Int : /\ m % Months = FirstMonth
                            /\ d < MonthStart(m) /\ MonthStart(m) <= e
  <2>1. PICK f \in d + 1 .. e, m \in MonthOf(d) .. MonthOf(e) :
          m % Months = FirstMonth /\ MonthStart(m) = f
    BY <1>2 DEF BegunBetween
  <2>2. m \in Int
    BY <2>1, MonthOfIs
  <2>. QED
    BY <2>1, <2>2
<1>. QED
  BY <1>1, <1>2 DEF BegunBetween

\* Days of one study year.
LEMMA NoneBegun ==
  ASSUME NEW m \in Int, m % Months = FirstMonth,
         NEW d \in Int, NEW e \in Int,
         MonthStart(m) <= d, e < MonthStart(m + Months)
  PROVE  ~BegunBetween(d, e)
<1>. SUFFICES ASSUME NEW n \in Int, n % Months = FirstMonth,
                     d < MonthStart(n), MonthStart(n) <= e
              PROVE  FALSE
  BY BegunIs
<1>1. Months \in Nat \ {0} /\ m + Months \in Int
  BY DaysBeforeIs
<1>2. /\ MonthStart(m) \in Int /\ MonthStart(n) \in Int
      /\ MonthStart(m + Months) \in Int
  BY <1>1, MonthStartType
<1>3. m < n /\ n < m + Months
  <2>1. MonthStart(m) < MonthStart(n) /\ MonthStart(n) < MonthStart(m + Months)
    BY <1>2
  <2>. QED
    BY <1>1, <2>1, MonthsInOrder
<1>4. n = m
  <2>1. n % Months = m % Months /\ n - m < Months /\ m - n < Months
    BY <1>1, <1>3
  <2>. QED
    BY <1>1, <2>1, SameRemainder
<1>. QED
  BY <1>3, <1>4

\* The duties of a user and the numbers of their parts.
LEMMA DutiesAre ==
  ASSUME TablesOK
  PROVE  /\ IsFiniteSet(DOMAIN duties) /\ DOMAIN duties \subseteq Nat
         /\ \A o \in DOMAIN duties :
              /\ duties[o] \in Row /\ duties[o].group \in groups \cup {0}
              /\ duties[o].date \in Nat /\ duties[o].min \in Nat
              /\ duties[o].max \in Nat /\ duties[o].group \in Nat
              /\ Day(duties[o].date) \in Nat
         /\ \A u : /\ DutiesOf(u) \subseteq DOMAIN duties
                   /\ IsFiniteSet(DutiesOf(u))
<1>1. DOMAIN duties \subseteq 1 .. MaxDuties /\ MaxDuties \in Nat
  BY PagesAssumption DEF TablesOK
<1>2. IsFiniteSet(DOMAIN duties)
  <2>1. IsFiniteSet(1 .. MaxDuties)
    BY <1>1, FS_Interval
  <2>. QED
    BY <1>1, <2>1, FS_Subset
<1>3. \A u : DutiesOf(u) \subseteq DOMAIN duties
  BY DEF DutiesOf
<1>4. \A u : IsFiniteSet(DutiesOf(u))
  BY <1>2, <1>3, FS_Subset
<1>5. ASSUME NEW o \in DOMAIN duties
      PROVE  /\ duties[o] \in Row /\ duties[o].group \in groups \cup {0}
             /\ duties[o].date \in Nat /\ duties[o].min \in Nat
             /\ duties[o].max \in Nat /\ duties[o].group \in Nat
             /\ Day(duties[o].date) \in Nat
  <2>1. /\ duties[o] \in Row /\ duties[o].group \in groups \cup {0}
        /\ groups \subseteq Groups
    BY DEF TablesOK
  <2>2. /\ duties[o].date \in Nat /\ duties[o].min \in Nat
        /\ duties[o].max \in Nat
    BY <2>1 DEF Row
  <2>3. Groups \subseteq Nat
    BY PagesAssumption
  <2>4. duties[o].group \in Nat
    <3>1. CASE duties[o].group = 0
      BY <3>1
    <3>2. CASE duties[o].group \in groups
      BY <2>1, <2>3, <3>2
    <3>. QED
      BY <2>1, <3>1, <3>2
  <2>. QED
    BY <2>1, <2>2, <2>4, DayOfNat
<1>. QED
  BY <1>1, <1>2, <1>3, <1>4, <1>5

\* Ranges and times are numbers.
LEMMA QueriesAre ==
  /\ \A query \in Boards : query.from \in Nat /\ query.to \in Nat
  /\ \A now \in Nows : now \in Nat /\ Day(now) \in Nat
BY PagesAssumption, DayOfNat

\* The range of the study year is that of the property.
LEMMA SeenIsOfThisYear ==
  ASSUME BaseInv, BoardSeen
  PROVE  BoardIsOfThisYear
<1>. SUFFICES ASSUME page.step = "board_done", Undisturbed, OfNoRange(page.form.query)
              PROVE  BoardIsOfThisYear
  BY DEF BoardIsOfThisYear, AtStep, Form
<1>1. PICK query \in Boards, now \in Nows :
        /\ page.form = [query |-> query, now |-> now]
        /\ page.got = <<Leaderboard(ShownRange(query, Day(now)),
                                    LeaderboardRoles(query.filter), query.group)>>
  BY DEF BoardSeen
<1>. DEFINE today == Day(now)
            range == StudentYear(today)
            counted(u) == {o \in DutiesOf(u) : InGroup(duties[o], query.group)}
            day(o) == Day(duties[o].date)
            within(u) == {o \in counted(u) : InRange(duties[o].date, range.from, range.to)}
            board == Leaderboard(range, LeaderboardRoles(query.filter), query.group)
<1>2. TablesOK
  BY DEF BaseInv
<1>3. today \in Nat
  BY QueriesAre
<1>4. PICK m \in Int :
        /\ m % Months = FirstMonth
        /\ range.from = MonthStart(m)
        /\ range.to = MonthStart(m + Months) - 1
        /\ MonthStart(m) \in Int /\ MonthStart(m + Months) \in Int
        /\ MonthStart(m) <= today /\ today < MonthStart(m + Months)
        /\ MonthStart(m) + 1 < MonthStart(m + Months)
  <2>1. today \in Int
    BY <1>3
  <2>. HIDE DEF today
  <2>. QED
    BY <2>1, StudentYearIs
<1>5. page.form.query = query /\ page.form.now = now /\ page.got[1] = board
  <2>1. ShownRange(query, today) = range
    BY <1>1 DEF OfNoRange, ShownRange
  <2>. QED
    BY <1>1, <2>1
<1>6. ASSUME NEW u \in DOMAIN board
      PROVE  board[u].count = Cardinality(within(u))
  <2>1. ~(range.from = Zero /\ range.to = Zero)
    BY <1>4 DEF Zero
  <2>2. board = LeaderboardInRange(range.from, range.to,
                                   LeaderboardRoles(query.filter), query.group)
    BY <2>1 DEF Leaderboard
  <2>3. board[u].count =
          Cardinality(DutiesOf(u) \cap
            {o \in OfGroup(query.group) : InRange(duties[o].date, range.from, range.to)})
    BY <2>2 DEF LeaderboardInRange, Entries
  <2>4. DutiesOf(u) \cap
          {o \in OfGroup(query.group) : InRange(duties[o].date, range.from, range.to)}
        = within(u)
    BY DEF OfGroup, DutiesOf
  <2>. QED
    BY <2>3, <2>4
<1>. HIDE DEF board, range
<1>7. ASSUME NEW u
      PROVE  LET early == {o \in counted(u) :
                             day(o) < today /\ ~BegunBetween(day(o), today)}
                 near == {o \in counted(u) :
                            /\ ~BegunBetween(day(o), today)
                            /\ ~BegunBetween(today, day(o))}
             IN /\ Cardinality(early) <= Cardinality(within(u))
                /\ Cardinality(within(u)) <= Cardinality(near)
  <2>. DEFINE early == {o \in counted(u) :
                          day(o) < today /\ ~BegunBetween(day(o), today)}
              near == {o \in counted(u) :
                         /\ ~BegunBetween(day(o), today)
                         /\ ~BegunBetween(today, day(o))}
  <2>1. \A o \in counted(u) : day(o) \in Nat
    BY <1>2, DutiesAre
  <2>2. ASSUME NEW o \in early PROVE o \in within(u)
    <3>1. day(o) \in Int /\ o \in counted(u) /\ day(o) < today
      BY <2>1
    <3>2. range.from <= day(o)
      <4>. SUFFICES ASSUME day(o) < MonthStart(m) PROVE FALSE
        BY <1>4, <3>1
      <4>1. BegunBetween(day(o), today)
        BY <1>3, <1>4, <3>1, BegunIs
      <4>. QED
        BY <4>1
    <3>3. day(o) < range.to
      BY <1>3, <1>4, <3>1
    <3>. QED
      BY <3>1, <3>2, <3>3 DEF InRange
  <2>3. ASSUME NEW o \in within(u) PROVE o \in near
    <3>1. /\ day(o) \in Int /\ o \in counted(u)
          /\ MonthStart(m) <= day(o) /\ day(o) < MonthStart(m + Months)
      <4>1. day(o) \in Int /\ o \in counted(u)
        BY <2>1
      <4>2. range.from <= day(o) /\ day(o) < range.to
        BY DEF InRange
      <4>. QED
        BY <1>4, <4>1, <4>2
    <3>2. ~BegunBetween(day(o), today)
      BY <1>3, <1>4, <3>1, NoneBegun
    <3>3. ~BegunBetween(today, day(o))
      BY <1>3, <1>4, <3>1, NoneBegun
    <3>. QED
      BY <3>1, <3>2, <3>3
  <2>4. IsFiniteSet(counted(u))
    <3>1. IsFiniteSet(DutiesOf(u)) /\ counted(u) \subseteq DutiesOf(u)
      BY <1>2, DutiesAre
    <3>. QED
      BY <3>1, FS_Subset
  <2>5. /\ early \subseteq within(u) /\ within(u) \subseteq near
        /\ within(u) \subseteq counted(u) /\ near \subseteq counted(u)
    BY <2>2, <2>3
  <2>. HIDE DEF early, near, within, counted, day
  <2>6. IsFiniteSet(within(u)) /\ IsFiniteSet(near)
    BY <2>4, <2>5, FS_Subset
  <2>7. Cardinality(early) <= Cardinality(within(u))
    BY <2>5, <2>6, FS_Subset
  <2>8. Cardinality(within(u)) <= Cardinality(near)
    BY <2>5, <2>6, FS_Subset
  <2>. QED
    BY <2>7, <2>8 DEF early, near
<1>8. ASSUME NEW u
      PROVE  Cardinality(within(u)) \in Nat
  <2>1. within(u) \subseteq DutiesOf(u)
    OBVIOUS
  <2>. QED
    BY <1>2, <2>1, DutiesAre, FS_Subset, FS_CardinalityType
<1>. HIDE DEF within
<1>. QED
  BY <1>5, <1>6, <1>7, <1>8 DEF BoardIsOfThisYear, Form, Got

\* Without a range the leaderboard is that of the study year today is in, in
\* every calendar and whenever the year begins (studentYear and Show).
THEOREM BoardOfStudyYear == Spec => []BoardIsOfThisYear
<1>1. Init => BoardSeen
  BY DEF Init, BoardSeen, Idle
<1>2. BaseInv /\ BoardSeen /\ [Next]_vars => BoardSeen'
  BY StepBoard
<1>3. BaseInv /\ BoardSeen => BoardIsOfThisYear
  BY SeenIsOfThisYear
<1>. QED
  BY <1>1, <1>2, <1>3, BaseHolds, PTL DEF Spec

-----------------------------------------------------------------------------
(* Free users.                                                             *)

\* What is known of the users read, of the leaderboard read, and of the list.
ReadUsers(S) ==
  /\ IsFiniteSet(S) /\ S \subseteq DOMAIN People
  /\ Undisturbed => S = users
ReadBoard(B) ==
  /\ \A u \in DOMAIN B : People[u].role = "participant" /\ B[u].count \in Nat
  /\ Undisturbed =>
       \A u \in users : People[u].role = "participant" =>
         u \in DOMAIN B /\ B[u].count = Cardinality(DutiesOf(u))
FreeList(S, s, entries) ==
  /\ IsFiniteSet(S) /\ s \in SetToSeqs(S) /\ DOMAIN entries = S
  /\ InOrder(s, entries)
  /\ \A u \in S :
       /\ entries[u].count \in Nat /\ entries[u].absent \in BOOLEAN
       /\ Undisturbed /\ People[u].role = "participant" =>
            entries[u].count = Cardinality(DutiesOf(u))
FreeSeen ==
  /\ page.step = "free_users" => page.got = <<>>
  /\ page.step = "free_counts" =>
       \E S : page.got = <<S>> /\ ReadUsers(S)
  /\ page.step = "free_absent" =>
       \E S, B : page.got = <<S, B>> /\ ReadUsers(S) /\ ReadBoard(B)
  /\ page.step = "free_done" =>
       \E S, s, entries : page.got = <<s, entries>> /\ FreeList(S, s, entries)

\* What a statement adds to what has been read.
LEMMA AppendIs ==
  ASSUME NEW T, NEW s \in Seq(T), NEW t \in Seq(T), Len(t) = Len(s) + 1,
         \A i \in 1 .. Len(s) : t[i] = s[i]
  PROVE  Append(s, t[Len(s) + 1]) = t
<1>. DEFINE x == t[Len(s) + 1]
<1>1. x \in T
  OBVIOUS
<1>2. /\ Append(s, x) \in Seq(T) /\ Len(Append(s, x)) = Len(t)
      /\ \A i \in 1 .. Len(s) : Append(s, x)[i] = t[i]
      /\ Append(s, x)[Len(s) + 1] = x
  BY <1>1, AppendProperties
<1>3. \A i \in 1 .. Len(Append(s, x)) : Append(s, x)[i] = t[i]
  BY <1>2
<1>. HIDE DEF x
<1>4. Append(s, x) = t
  BY <1>2, <1>3, SeqEqual
<1>. QED
  BY <1>4 DEF x

\* Appending to short sequences.
LEMMA Appends ==
  /\ \A x : Append(<<>>, x) = <<x>>
  /\ \A x, y : Append(<<x>>, y) = <<x, y>>
  /\ \A x, y, z : Append(<<x, y>>, z) = <<x, y, z>>
<1>1. ASSUME NEW x
      PROVE  Append(<<>>, x) = <<x>>
  OBVIOUS
<1>2. ASSUME NEW x, NEW y
      PROVE  Append(<<x>>, y) = <<x, y>>
  <2>. DEFINE T == {x, y}
              s == <<x>>
              t == <<x, y>>
  <2>1. s \in Seq(T) /\ t \in Seq(T)
    OBVIOUS
  <2>2. /\ Len(s) = 1 /\ Len(t) = Len(s) + 1 /\ t[2] = y
        /\ \A i \in 1 .. Len(s) : t[i] = s[i]
    OBVIOUS
  <2>. HIDE DEF s, t, T
  <2>3. Append(s, t[Len(s) + 1]) = t
    BY <2>1, <2>2, AppendIs
  <2>. QED
    BY <2>2, <2>3 DEF s, t
<1>3. ASSUME NEW x, NEW y, NEW z
      PROVE  Append(<<x, y>>, z) = <<x, y, z>>
  <2>. DEFINE T == {x, y, z}
              s == <<x, y>>
              t == <<x, y, z>>
  <2>1. s \in Seq(T) /\ t \in Seq(T)
    OBVIOUS
  <2>2. /\ Len(s) = 2 /\ Len(t) = Len(s) + 1 /\ t[3] = z
        /\ \A i \in 1 .. Len(s) : t[i] = s[i]
    OBVIOUS
  <2>. HIDE DEF s, t, T
  <2>3. Append(s, t[Len(s) + 1]) = t
    BY <2>1, <2>2, AppendIs
  <2>. QED
    BY <2>2, <2>3 DEF s, t
<1>. QED
  BY <1>1, <1>2, <1>3

\* The leaderboard without a range counts every duty of each participant.
LEMMA BoardOfParticipants ==
  ASSUME TablesOK
  PROVE  LET B == Leaderboard([from |-> Zero, to |-> Zero], {}, 0)
         IN /\ DOMAIN B = {u \in users : People[u].role = "participant"}
            /\ \A u \in DOMAIN B : B[u].count = Cardinality(DutiesOf(u))
            /\ \A u : Cardinality(DutiesOf(u)) \in Nat
<1>. DEFINE B == Leaderboard([from |-> Zero, to |-> Zero], {}, 0)
<1>1. B = Entries({}, OfGroup(0))
  BY DEF Leaderboard, LeaderboardAll
<1>2. OfGroup(0) = DOMAIN duties
  BY DEF OfGroup, InGroup
<1>3. DOMAIN B = {u \in users : People[u].role = "participant"}
  BY <1>1 DEF Entries, RoleFilter
<1>4. \A u : DutiesOf(u) \cap DOMAIN duties = DutiesOf(u)
  BY DEF DutiesOf
<1>5. ASSUME NEW u \in DOMAIN B
      PROVE  B[u].count = Cardinality(DutiesOf(u))
  BY <1>1, <1>2, <1>4 DEF Entries
<1>6. \A u : Cardinality(DutiesOf(u)) \in Nat
  BY DutiesAre, FS_CardinalityType
<1>. QED
  BY <1>3, <1>5, <1>6

\* A page that is left alone, or has not read anything that is still true,
\* keeps what is known of it.
LEMMA FreeKept ==
  ASSUME FreeSeen, page' = page,
         \/ UNCHANGED vars
         \/ page.step \notin Done /\ (page.step = "idle" \/ changes' # 0)
  PROVE  FreeSeen'
<1>1. CASE UNCHANGED vars
  <2>1. UNCHANGED <<users, duties, parts, page, changes>>
    BY <1>1 DEF vars
  <2>2. \A u : DutiesOf(u)' = DutiesOf(u)
    BY <2>1 DEF DutiesOf
  <2>3. /\ \A S : ReadUsers(S)' = ReadUsers(S)
        /\ \A B : ReadBoard(B)' = ReadBoard(B)
        /\ \A S, s, entries : FreeList(S, s, entries)' = FreeList(S, s, entries)
    BY <2>1, <2>2 DEF ReadUsers, ReadBoard, FreeList, Undisturbed
  <2>. QED
    BY <2>1, <2>3 DEF FreeSeen
<1>2. CASE page.step \notin Done /\ page.step = "idle"
  BY <1>2 DEF FreeSeen
<1>3. CASE page.step \notin Done /\ changes' # 0
  <2>1. page.step # "free_done"
    BY <1>3 DEF Done
  <2>2. /\ \A S : ReadUsers(S) => ReadUsers(S)'
        /\ \A B : ReadBoard(B) => ReadBoard(B)'
    BY <1>3 DEF ReadUsers, ReadBoard, Undisturbed
  <2>. QED
    BY <2>1, <2>2 DEF FreeSeen
<1>. QED
  BY <1>1, <1>2, <1>3

\* Every statement of the page adds what it has read.
LEMMA StepFree ==
  ASSUME BaseInv, FreeSeen, [Next]_vars
  PROVE  FreeSeen'
<1>0. TablesOK
  BY DEF BaseInv
<1>1. CASE UNCHANGED vars
  BY <1>1, FreeKept DEF vars
<1>2. CASE page' = page /\ page.step \notin Done /\ (page.step = "idle" \/ changes' # 0)
  BY <1>2, FreeKept
<1>3. CASE page' = Idle
  BY <1>3 DEF Idle, FreeSeen
<1>4. CASE Begin /\ BeginsAt
  <2>. SUFFICES ASSUME page'.step = "free_users" PROVE page'.got = <<>>
    BY <1>4, Begins DEF FreeSeen
  <2>1. PICK o \in 1 .. MaxDuties : Free(o)
    BY <1>4, Begins
  <2>. QED
    BY <2>1 DEF Free, Goto, Reach
<1>5. CASE Continue /\ ContinuesAt
  <2>0. /\ UNCHANGED <<users, duties, parts, changes>> /\ Undisturbed' = Undisturbed
        /\ \A u : DutiesOf(u)' = DutiesOf(u)
        /\ \A S : ReadUsers(S)' = ReadUsers(S)
    BY <1>5 DEF ContinuesAt, tables, Undisturbed, DutiesOf, ReadUsers
  <2>1. CASE page'.step = "free_counts" /\ FreeUsers
    <3>1. page'.got = <<users>>
      BY <2>1, Appends DEF FreeUsers, FreeSeen, Then, Goto, Reach, Form, Got, AtStep
    <3>2. ReadUsers(users)
      BY <1>0 DEF TablesOK, ReadUsers
    <3>. QED
      BY <2>0, <2>1, <3>1, <3>2 DEF FreeSeen
  <2>2. CASE page'.step = "free_absent" /\ FreeCounts
    <3>. DEFINE B == Leaderboard([from |-> Zero, to |-> Zero], {}, 0)
    <3>1. PICK S : page.got = <<S>> /\ ReadUsers(S)
      BY <2>2 DEF FreeCounts, FreeSeen, AtStep
    <3>2. page'.got = <<S, B>>
      BY <2>2, <3>1, Appends DEF FreeCounts, Then, Goto, Reach, Form, Got
    <3>. HIDE DEF B
    <3>3. /\ DOMAIN B = {u \in users : People[u].role = "participant"}
          /\ \A u \in DOMAIN B : B[u].count = Cardinality(DutiesOf(u))
          /\ \A u : Cardinality(DutiesOf(u)) \in Nat
      BY <1>0, BoardOfParticipants DEF B
    <3>4. \E C : page'.got = <<S, C>> /\ ReadBoard(C)'
      <4>1. PICK C : C = B
        OBVIOUS
      <4>2. ReadBoard(C)'
        BY <2>0, <3>3, <4>1 DEF ReadBoard
      <4>. QED
        BY <3>2, <4>1, <4>2
    <3>. QED
      BY <2>0, <2>2, <3>1, <3>4 DEF FreeSeen
  <2>3. CASE page'.step = "free_done" /\ FreeAbsent
    <3>1. PICK S, B : page.got = <<S, B>> /\ ReadUsers(S) /\ ReadBoard(B)
      BY <2>3 DEF FreeAbsent, FreeSeen, AtStep
    <3>. DEFINE made == [u \in S |-> [count |-> IF u \in DOMAIN B THEN B[u].count ELSE 0,
                                      absent |-> u \in AbsentOn(page.form.day)]]
    <3>2. PICK s \in SetToSeqs(S) : InOrder(s, made) /\ page'.got = <<s, made>>
      BY <2>3, <3>1 DEF FreeAbsent, Goto, Reach, Form, Got
    <3>3. \A u \in S : /\ made[u].count = IF u \in DOMAIN B THEN B[u].count ELSE 0
                       /\ made[u].absent \in BOOLEAN
      <4>1. ASSUME NEW u \in S
            PROVE  made[u].count = IF u \in DOMAIN B THEN B[u].count ELSE 0
        OBVIOUS
      <4>2. ASSUME NEW u \in S
            PROVE  made[u].absent \in BOOLEAN
        <5>1. made[u] = [count |-> IF u \in DOMAIN B THEN B[u].count ELSE 0,
                         absent |-> u \in AbsentOn(page.form.day)]
          OBVIOUS
        <5>2. [count |-> IF u \in DOMAIN B THEN B[u].count ELSE 0,
               absent |-> u \in AbsentOn(page.form.day)].absent \in BOOLEAN
          OBVIOUS
        <5>. QED
          BY <5>1, <5>2
      <4>. QED
        BY <4>1, <4>2
    <3>4. PICK entries : entries = made
      OBVIOUS
    <3>5. DOMAIN entries = S
      BY <3>4
    <3>. HIDE DEF made
    <3>6. FreeList(S, s, entries)'
      <4>1. /\ IsFiniteSet(S) /\ s \in SetToSeqs(S) /\ DOMAIN entries = S
            /\ InOrder(s, entries)
        BY <3>1, <3>2, <3>4, <3>5 DEF ReadUsers
      <4>2. ASSUME NEW u \in S
            PROVE  /\ entries[u].count \in Nat /\ entries[u].absent \in BOOLEAN
                   /\ Undisturbed' /\ People[u].role = "participant" =>
                        entries[u].count = Cardinality(DutiesOf(u)')
        BY <2>0, <3>1, <3>3, <3>4 DEF ReadUsers, ReadBoard
      <4>. QED
        BY <4>1, <4>2 DEF FreeList
    <3>. QED
      BY <2>3, <3>2, <3>4, <3>6 DEF FreeSeen
  <2>4. CASE page'.step \notin {"free_users", "free_counts", "free_absent", "free_done"}
    BY <2>4 DEF FreeSeen
  <2>. QED
    BY <1>5, <2>1, <2>2, <2>3, <2>4, Continues
<1>. QED
  BY <1>1, <1>2, <1>3, <1>4, <1>5, Moves

\* Sorted by what was read, absent users after the others.
LEMMA SeenIsRanked ==
  ASSUME FreeSeen
  PROVE  ParticipantsRanked
<1>. SUFFICES ASSUME page.step = "free_done"
              PROVE  ParticipantsRanked
  BY DEF ParticipantsRanked, AtStep
<1>1. PICK S, s, entries : page.got = <<s, entries>> /\ FreeList(S, s, entries)
  BY DEF FreeSeen
<1>2. page.got[1] = s /\ page.got[2] = entries /\ DOMAIN entries = S
  BY <1>1 DEF FreeList
<1>3. /\ Cardinality(S) \in Nat /\ DOMAIN s = 1 .. Cardinality(S)
      /\ \A i \in DOMAIN s : s[i] \in S
  BY <1>1, ListHasAll DEF FreeList
<1>4. s \in [1 .. Cardinality(S) -> S]
  BY <1>1 DEF FreeList, SetToSeqs
<1>5. ASSUME NEW i \in DOMAIN s, NEW j \in DOMAIN s, i < j
      PROVE  /\ entries[s[i]].absent => entries[s[j]].absent
             /\ entries[s[i]].absent = entries[s[j]].absent =>
                  entries[s[i]].count <= entries[s[j]].count
  <2>1. /\ \A u \in S : entries[u].count \in Nat /\ entries[u].absent \in BOOLEAN
        /\ InOrder(s, entries)
    BY <1>1 DEF FreeList
  <2>2. i \in 1 .. Cardinality(S) /\ j \in 1 .. Cardinality(S)
    BY <1>3
  <2>. QED
    BY <1>3, <1>4, <1>5, <2>1, <2>2, InOrderThroughout
<1>6. ASSUME Undisturbed, NEW u \in S, People[u].role = "participant"
      PROVE  Cardinality(DutiesOf(u)) = entries[u].count
  BY <1>1, <1>6 DEF FreeList
<1>. QED
  BY <1>2, <1>3, <1>5, <1>6 DEF ParticipantsRanked, Got

\* Free participants come in the order of their duties if nobody writes between
\* the statements of the page, and the absent come last in any case
\* (GetAvailableUsersForDate).
THEOREM ParticipantsAreRanked == Spec => []ParticipantsRanked
<1>1. Init => FreeSeen
  BY DEF Init, FreeSeen, Idle
<1>2. BaseInv /\ FreeSeen /\ [Next]_vars => FreeSeen'
  BY StepFree
<1>3. FreeSeen => ParticipantsRanked
  BY SeenIsRanked
<1>. QED
  BY <1>1, <1>2, <1>3, BaseHolds, PTL DEF Spec

-----------------------------------------------------------------------------
(* Rows and lines.                                                         *)

\* Rows of duties as a statement returns them, whatever has become of them.
RowsRead(rows) ==
  /\ IsFiniteSet(DOMAIN rows) /\ DOMAIN rows \subseteq Nat
  /\ \A o \in DOMAIN rows :
       /\ rows[o].date \in Nat /\ rows[o].group \in Nat
       /\ rows[o].min \in Nat /\ rows[o].max \in Nat

\* A query returns rows as they are in the table.
LEMMA SelectIs ==
  ASSUME TablesOK, NEW ids
  PROVE  /\ RowsRead(Select(ids)) /\ DOMAIN Select(ids) = DOMAIN duties \cap ids
         /\ \A o \in DOMAIN Select(ids) : Select(ids)[o] = duties[o]
<1>. DEFINE rows == Select(ids)
<1>1. /\ DOMAIN rows = DOMAIN duties \cap ids
      /\ \A o \in DOMAIN rows : rows[o] = duties[o]
  BY DEF Select
<1>2. /\ IsFiniteSet(DOMAIN duties) /\ DOMAIN duties \subseteq Nat
      /\ \A o \in DOMAIN duties :
           /\ duties[o].date \in Nat /\ duties[o].min \in Nat
           /\ duties[o].max \in Nat /\ duties[o].group \in Nat
  BY DutiesAre
<1>. HIDE DEF rows
<1>3. IsFiniteSet(DOMAIN rows)
  BY <1>1, <1>2, FS_Subset
<1>4. RowsRead(rows)
  BY <1>1, <1>2, <1>3 DEF RowsRead
<1>. QED
  BY <1>1, <1>4 DEF rows

\* The counts by duty are those of the participations.
LEMMA CountsAre ==
  ASSUME TablesOK, NEW o
  PROVE  /\ At(Counts, o) = Cardinality({p \in parts : p[2] = o})
         /\ At(Counts, o) \in Nat
<1>. DEFINE of == {p \in parts : p[2] = o}
<1>1. IsFiniteSet(users \X DOMAIN duties)
  <2>1. IsFiniteSet(users) /\ IsFiniteSet(DOMAIN duties)
    BY DutiesAre DEF TablesOK
  <2>. QED
    BY <2>1, FS_Product
<1>2. of \subseteq users \X DOMAIN duties
  BY DEF TablesOK
<1>3. IsFiniteSet(of) /\ Cardinality(of) \in Nat
  BY <1>1, <1>2, FS_Subset, FS_CardinalityType
<1>4. At(Counts, o) = Cardinality(of)
  <2>1. CASE o \in {p[2] : p \in parts}
    BY <2>1 DEF At, Counts
  <2>2. CASE o \notin {p[2] : p \in parts}
    <3>1. of = {} /\ At(Counts, o) = 0
      BY <2>2 DEF At, Counts
    <3>. QED
      BY <3>1, FS_EmptySet
  <2>. QED
    BY <2>1, <2>2
<1>. QED
  BY <1>3, <1>4

\* A line is made of its row and its count.
LEMMA LinesAre ==
  ASSUME NEW rows, NEW counts
  PROVE  /\ DOMAIN Lines(rows, counts) = DOMAIN rows
         /\ \A o \in DOMAIN rows :
              LET line == Lines(rows, counts)[o]
                  count == At(counts, o)
              IN /\ line.duty = rows[o] /\ line.count = count
                 /\ line.status = Status(rows[o], count)
                 /\ line.needed = Needed(rows[o], count)
BY DEF Lines, Line

\* The page asks for people exactly where the status says they lack.
LEMMA NeededIs ==
  ASSUME NEW duty, duty.min \in Nat, NEW count \in Nat
  PROVE  Needed(duty, count) > 0 <=> Status(duty, count) = "under"
<1>1. CASE count < duty.min
  <2>1. Needed(duty, count) = duty.min - count
    BY <1>1 DEF Needed
  <2>2. Status(duty, count) = "under"
    BY <1>1 DEF Status
  <2>. QED
    BY <1>1, <2>1, <2>2
<1>2. CASE ~(count < duty.min)
  <2>1. Needed(duty, count) = 0
    BY <1>2 DEF Needed
  <2>2. Status(duty, count) \in {"over", "good"}
    BY <1>2 DEF Status
  <2>. QED
    BY <2>1, <2>2
<1>. QED
  BY <1>1, <1>2

-----------------------------------------------------------------------------
(* The dashboard.                                                          *)

OpenRows(rows) ==
  /\ RowsRead(rows)
  /\ Undisturbed =>
       /\ \A o \in DOMAIN rows : rows[o] = duties[o]
       /\ DOMAIN rows = {o \in DOMAIN duties :
                           Cardinality({p \in parts : p[2] = o}) < duties[o].max}
OpenLines(lines, now) ==
  /\ \A o \in DOMAIN lines :
       /\ ~Past(lines[o].duty.date, now)
       /\ lines[o].needed > 0 <=> lines[o].status = "under"
  /\ Undisturbed =>
       DOMAIN lines = {o \in DOMAIN duties :
                         /\ ~Past(duties[o].date, now)
                         /\ Cardinality({p \in parts : p[2] = o}) < duties[o].max}
DashSeen ==
  /\ page.step = "dash_counts" =>
       \E rows : page.got = <<rows>> /\ OpenRows(rows)
  /\ page.step \in {"dash_upcoming", "dash_top"} =>
       \E lines, more : page.got = <<lines, more>> /\ OpenLines(lines, page.form.now)
  /\ page.step = "dash_done" =>
       \E lines : page.got[1] = lines /\ OpenLines(lines, page.form.now)

\* As FreeKept, for the dashboard.
LEMMA DashKept ==
  ASSUME DashSeen, page' = page,
         \/ UNCHANGED vars
         \/ page.step \notin Done /\ (page.step = "idle" \/ changes' # 0)
  PROVE  DashSeen'
<1>1. CASE UNCHANGED vars
  <2>1. UNCHANGED <<duties, parts, page, changes>>
    BY <1>1 DEF vars
  <2>2. /\ \A rows : OpenRows(rows)' = OpenRows(rows)
        /\ \A lines, now : OpenLines(lines, now)' = OpenLines(lines, now)
    BY <2>1 DEF OpenRows, OpenLines, Undisturbed
  <2>. QED
    BY <2>1, <2>2 DEF DashSeen
<1>2. CASE page.step = "idle"
  BY <1>2 DEF DashSeen
<1>3. CASE page.step \notin Done /\ changes' # 0
  <2>1. page.step # "dash_done"
    BY <1>3 DEF Done
  <2>2. /\ \A rows : OpenRows(rows) => OpenRows(rows)'
        /\ \A lines, now : OpenLines(lines, now) => OpenLines(lines, now)'
    BY <1>3 DEF OpenRows, OpenLines, Undisturbed
  <2>. QED
    BY <2>1, <2>2 DEF DashSeen
<1>. QED
  BY <1>1, <1>2, <1>3

\* As StepFree, for the dashboard.
LEMMA StepDash ==
  ASSUME BaseInv, DashSeen, [Next]_vars
  PROVE  DashSeen'
<1>0. TablesOK
  BY DEF BaseInv
<1>1. CASE UNCHANGED vars
  BY <1>1, DashKept DEF vars
<1>2. CASE page' = page /\ page.step \notin Done /\ (page.step = "idle" \/ changes' # 0)
  BY <1>2, DashKept
<1>3. CASE page' = Idle
  BY <1>3 DEF Idle, DashSeen
<1>4. CASE Begin /\ BeginsAt
  <2>. SUFFICES ASSUME page'.step = "dash_counts"
                PROVE  \E rows : page'.got = <<rows>> /\ OpenRows(rows)'
    BY <1>4, Begins DEF DashSeen
  <2>1. PICK u \in users : Dashboard(u)
    BY <1>4, Begins
  <2>2. page'.got = <<FindOpenSpots>> /\ UNCHANGED <<duties, parts>>
    BY <2>1 DEF Dashboard, Goto, Reach, tables
  <2>3. PICK rows : rows = FindOpenSpots
    OBVIOUS
  <2>4. /\ RowsRead(rows) /\ \A o \in DOMAIN rows : rows[o] = duties[o]
        /\ DOMAIN rows = {o \in DOMAIN duties : At(Counts, o) < duties[o].max}
    BY <1>0, <2>3, SelectIs DEF FindOpenSpots
  <2>5. \A o : At(Counts, o) = Cardinality({p \in parts : p[2] = o})
    BY <1>0, CountsAre
  <2>6. DOMAIN rows = {o \in DOMAIN duties :
                         Cardinality({p \in parts : p[2] = o}) < duties[o].max}
    BY <2>4, <2>5
  <2>. QED
    BY <2>2, <2>3, <2>4, <2>6 DEF OpenRows
<1>5. CASE Continue /\ ContinuesAt
  <2>0. /\ UNCHANGED <<duties, parts, changes>>
        /\ \A lines, now : OpenLines(lines, now)' = OpenLines(lines, now)
    BY <1>5 DEF ContinuesAt, tables, Undisturbed, OpenLines
  <2>1. CASE /\ page'.step = "dash_upcoming"
             /\ \E now \in Nows : DashboardCounts(now)
    <3>0. PICK now \in Nows : DashboardCounts(now)
      BY <2>1
    <3>1. PICK rows : page.got = <<rows>> /\ OpenRows(rows)
      BY <3>0 DEF DashboardCounts, DashSeen, AtStep
    <3>. DEFINE coming == {o \in DOMAIN rows : ~Past(rows[o].date, now)}
                kept == [o \in coming |-> rows[o]]
    <3>2. page'.got = <<Lines(kept, Counts), Counts>> /\ page'.form.now = now
      BY <3>0, <3>1 DEF DashboardCounts, Goto, Reach, Form, Got
    <3>3. PICK lines, counts : lines = Lines(kept, Counts) /\ counts = Counts
      OBVIOUS
    <3>4. \A o : At(counts, o) \in Nat
      BY <1>0, <3>3, CountsAre
    <3>5. /\ DOMAIN lines = coming
          /\ \A o \in coming :
               /\ lines[o].duty = rows[o]
               /\ lines[o].status = Status(rows[o], At(counts, o))
               /\ lines[o].needed = Needed(rows[o], At(counts, o))
      BY <3>3, LinesAre
    <3>6. ASSUME NEW o \in DOMAIN lines
          PROVE  /\ ~Past(lines[o].duty.date, now)
                 /\ lines[o].needed > 0 <=> lines[o].status = "under"
      <4>1. rows[o].min \in Nat
        BY <3>1, <3>5 DEF OpenRows, RowsRead
      <4>. QED
        BY <3>4, <3>5, <4>1, NeededIs
    <3>7. OpenLines(lines, now)
      BY <3>1, <3>5, <3>6 DEF OpenRows, OpenLines
    <3>. QED
      BY <2>0, <2>1, <3>2, <3>3, <3>7 DEF DashSeen
  <2>2. CASE /\ page'.step \in {"dash_done", "dash_top"}
             /\ \E now \in Nows : DashboardUpcoming(now)
    <3>1. PICK now \in Nows : DashboardUpcoming(now)
      BY <2>2
    <3>2. PICK lines, more : /\ page.got = <<lines, more>>
                             /\ OpenLines(lines, page.form.now)
      BY <3>1 DEF DashboardUpcoming, DashSeen, AtStep
    <3>3. PICK upcoming : page'.got = <<lines, upcoming>> /\ page'.form = page.form
      BY <3>1, <3>2 DEF DashboardUpcoming, Reach, Form, Got
    <3>. QED
      BY <2>0, <2>2, <3>2, <3>3 DEF DashSeen
  <2>3. CASE page'.step = "dash_done" /\ DashboardTop
    <3>1. PICK lines, more : /\ page.got = <<lines, more>>
                             /\ OpenLines(lines, page.form.now)
      BY <2>3 DEF DashboardTop, DashSeen, AtStep
    <3>2. PICK top : page'.got = Append(<<lines, more>>, top) /\ page'.form = page.form
      BY <2>3, <3>1 DEF DashboardTop, Then, Goto, Reach, Form, Got
    <3>3. page'.got[1] = lines
      BY <3>2, Appends
    <3>. QED
      BY <2>0, <2>3, <3>1, <3>2, <3>3 DEF DashSeen
  <2>4. CASE page'.step \notin {"dash_counts", "dash_upcoming", "dash_top", "dash_done"}
    BY <2>4 DEF DashSeen
  <2>. QED
    BY <1>5, <2>1, <2>2, <2>3, <2>4, Continues
<1>. QED
  BY <1>1, <1>2, <1>3, <1>4, <1>5, Moves

\* The dashboard shows the open duties to come, all of them and no other
\* when nobody has written since it began (Show, FindOpenSpots).
THEOREM OpenDutiesHaveRoom == Spec => []OpenHaveRoom
<1>1. Init => DashSeen
  BY DEF Init, DashSeen, Idle
<1>2. BaseInv /\ DashSeen /\ [Next]_vars => DashSeen'
  BY StepDash
<1>3. DashSeen => OpenHaveRoom
  BY DEF DashSeen, OpenLines, OpenHaveRoom, AtStep, Form, Got
<1>. QED
  BY <1>1, <1>2, <1>3, BaseHolds, PTL DEF Spec

-----------------------------------------------------------------------------
(* The list.                                                               *)

ListSeen ==
  /\ page.step = "list_counts" =>
       \E rows : \E view \in Views :
         /\ page.got = <<rows>> /\ page.form = [view |-> view]
         /\ RowsRead(rows)
  /\ page.step = "list_done" =>
       \E lines : \E now \in Nows :
         LET listed == [o \in DOMAIN lines |-> lines[o].duty]
         IN /\ page.got = <<lines, Listed(listed, now)>>
            /\ page.form.now = now /\ RowsRead(listed)

\* What passes the filters, each with its row.
LEMMA KeptRows ==
  ASSUME NEW rows, NEW counts, NEW view, NEW now
  PROVE  /\ DOMAIN Kept(rows, counts, view, now) \subseteq DOMAIN rows
         /\ \A o \in DOMAIN Kept(rows, counts, view, now) :
              Kept(rows, counts, view, now)[o].duty = rows[o]
<1>1. /\ DOMAIN Lines(rows, counts) = DOMAIN rows
      /\ \A o \in DOMAIN rows : Lines(rows, counts)[o].duty = rows[o]
  BY LinesAre
<1>. QED
  BY <1>1 DEF Kept

\* What the filters of list and calendar let through.
LEMMA KeptIs ==
  ASSUME NEW rows, NEW counts, NEW view, NEW now, NEW o \in DOMAIN rows
  PROVE  o \in DOMAIN Kept(rows, counts, view, now) <=>
           /\ view.hidePast => ~Past(rows[o].date, now)
           /\ view.status \in {"", Status(rows[o], At(counts, o))}
<1>1. /\ DOMAIN Lines(rows, counts) = DOMAIN rows
      /\ Lines(rows, counts)[o].status = Status(rows[o], At(counts, o))
  BY LinesAre
<1>. QED
  BY <1>1 DEF Kept

\* As StepFree, for the list.
LEMMA StepList ==
  ASSUME BaseInv, ListSeen, [Next]_vars
  PROVE  ListSeen'
<1>0. TablesOK
  BY DEF BaseInv
<1>1. CASE page' = page
  BY <1>1 DEF ListSeen
<1>3. CASE page' = Idle
  BY <1>3 DEF Idle, ListSeen
<1>4. CASE Begin /\ BeginsAt
  <2>. SUFFICES ASSUME page'.step = "list_counts"
                PROVE  \E rows : \E view \in Views :
                         /\ page'.got = <<rows>>
                         /\ page'.form = [view |-> view]
                         /\ RowsRead(rows)
    BY <1>4, Begins DEF ListSeen
  <2>1. PICK view \in Views : List(view)
    BY <1>4, Begins
  <2>2. /\ page'.got = <<FindByGroup(view.group)>>
        /\ page'.form = [view |-> view]
    BY <2>1 DEF List, Goto, Reach
  <2>3. PICK rows : rows = FindByGroup(view.group)
    OBVIOUS
  <2>4. RowsRead(rows)
    BY <1>0, <2>3, SelectIs DEF FindByGroup
  <2>. QED
    BY <2>2, <2>3, <2>4
<1>5. CASE Continue /\ ContinuesAt
  <2>1. CASE page'.step = "list_done" /\ \E now \in Nows : ListCounts(now)
    <3>0. PICK now \in Nows : ListCounts(now)
      BY <2>1
    <3>1. PICK rows : \E view \in Views :
            /\ page.got = <<rows>> /\ page.form = [view |-> view]
            /\ RowsRead(rows)
      BY <3>0 DEF ListCounts, ListSeen, AtStep
    <3>7. PICK view \in Views : page.form = [view |-> view]
      BY <3>1
    <3>2. PICK lines : lines = Kept(rows, Counts, view, now)
      OBVIOUS
    <3>. DEFINE listed == [o \in DOMAIN lines |-> lines[o].duty]
    <3>3. /\ page'.got = <<lines, Listed(listed, now)>>
          /\ page'.form = [view |-> view, now |-> now]
      BY <3>0, <3>1, <3>2, <3>7 DEF ListCounts, Goto, Reach, Form, Got
    <3>4. RowsRead(listed)
      <4>1. /\ DOMAIN lines \subseteq DOMAIN rows
            /\ \A o \in DOMAIN lines : lines[o].duty = rows[o]
        BY <3>2, KeptRows
      <4>2. IsFiniteSet(DOMAIN rows) /\ DOMAIN rows \subseteq Nat
        BY <3>1 DEF RowsRead
      <4>3. IsFiniteSet(DOMAIN lines)
        BY <4>1, <4>2, FS_Subset
      <4>4. DOMAIN listed = DOMAIN lines /\ \A o \in DOMAIN listed : listed[o] = rows[o]
        BY <4>1
      <4>. HIDE DEF listed
      <4>. QED
        BY <3>1, <4>1, <4>3, <4>4 DEF RowsRead
    <3>. HIDE DEF listed
    <3>5. page'.form.now = now
      BY <3>3
    <3>. QED
      BY <2>1, <3>3, <3>4, <3>5 DEF ListSeen, listed
  <2>2. CASE page'.step \notin {"list_counts", "list_done"}
    BY <2>2 DEF ListSeen
  <2>. QED
    BY <1>5, <2>1, <2>2, Continues
<1>. QED
  BY <1>1, <1>3, <1>4, <1>5, Moves DEF vars

\* The list is in the order that List asks for.
LEMMA SeenIsInOrder ==
  ASSUME ListSeen
  PROVE  UpcomingFirst
<1>. SUFFICES ASSUME page.step = "list_done"
              PROVE  UpcomingFirst
  BY DEF UpcomingFirst, AtStep
<1>. DEFINE listed(lines) == [o \in DOMAIN lines |-> lines[o].duty]
<1>1. PICK lines : \E now \in Nows :
        /\ page.got = <<lines, Listed(listed(lines), now)>>
        /\ page.form.now = now /\ RowsRead(listed(lines))
  BY DEF ListSeen
<1>0. PICK now \in Nows : /\ page.got = <<lines, Listed(listed(lines), now)>>
                         /\ page.form.now = now
  BY <1>1
<1>2. PICK rows : rows = listed(lines)
  OBVIOUS
<1>3. DOMAIN rows = DOMAIN lines /\ \A o \in DOMAIN rows : rows[o] = lines[o].duty
  BY <1>2
<1>4. PICK s : s = Listed(rows, now)
  OBVIOUS
<1>5. page.got[1] = lines /\ page.got[2] = s
  BY <1>0, <1>2, <1>4
<1>. HIDE DEF listed
<1>6. /\ IsFiniteSet(DOMAIN rows) /\ DOMAIN rows \subseteq Nat /\ now \in Nat
      /\ \A o \in DOMAIN rows : rows[o].date \in Nat
  BY <1>1, <1>2, QueriesAre DEF RowsRead
<1>7. /\ s \in SetToSeqs(DOMAIN rows)
      /\ \A i, j \in DOMAIN s : i < j => Before(rows, now, s[i], s[j])
  <2>1. now \in Int /\ DOMAIN rows \subseteq Int /\ \A o \in DOMAIN rows : rows[o].date \in Int
    BY <1>6
  <2>. QED
    BY <1>4, <1>6, <2>1, ListedIs
<1>8. /\ Range(s) = DOMAIN rows /\ IsInjective(s)
      /\ \A i \in DOMAIN s : s[i] \in DOMAIN rows
  BY <1>6, <1>7, ListHasAll
<1>9. ASSUME NEW i \in DOMAIN s, NEW j \in DOMAIN s, i < j
      PROVE  LET d == lines[s[i]].duty.date
                 e == lines[s[j]].duty.date
             IN \/ now <= d /\ (d <= e \/ e < now)
                \/ d < now /\ e <= d
  <2>. DEFINE d == rows[s[i]].date
              e == rows[s[j]].date
  <2>1. d \in Nat /\ e \in Nat /\ now \in Nat
    BY <1>6, <1>8
  <2>2. Before(rows, now, s[i], s[j])
    BY <1>7, <1>9
  <2>3. d = lines[s[i]].duty.date /\ e = lines[s[j]].duty.date
    BY <1>3, <1>8
  <2>4. IF Past(d, now) # Past(e, now) THEN Past(e, now)
        ELSE IF d = e THEN s[i] < s[j]
        ELSE IF Past(d, now) THEN d > e ELSE d < e
    BY <2>2 DEF Before
  <2>. HIDE DEF d, e
  <2>5. \/ now <= d /\ (d <= e \/ e < now)
        \/ d < now /\ e <= d
    BY <2>1, <2>4 DEF Past
  <2>. QED
    BY <2>3, <2>5
<1>. QED
  BY <1>0, <1>3, <1>5, <1>8, <1>9 DEF UpcomingFirst, Form, Got

\* The list holds every duty its filters leave once, what is to come first
\* and then the past, the latest first (List, its sort.SliceStable).
THEOREM ListInOrder == Spec => []UpcomingFirst
<1>1. Init => ListSeen
  BY DEF Init, ListSeen, Idle
<1>2. BaseInv /\ ListSeen /\ [Next]_vars => ListSeen'
  BY StepList
<1>3. ListSeen => UpcomingFirst
  BY SeenIsInOrder
<1>. QED
  BY <1>1, <1>2, <1>3, BaseHolds, PTL DEF Spec

\* Neither list leaves out a duty that belongs to it.
THEOREM ListsAreTrue == Spec => []ListsTrue
BY OpenDutiesHaveRoom, ListInOrder, PTL DEF ListsTrue

-----------------------------------------------------------------------------
(* The calendar and the page of a day.                                     *)

\* The rows a page has read are those of the duties of a set, as they are.
RowsOf(rows, ids) ==
  Undisturbed => /\ DOMAIN rows = DOMAIN duties \cap ids
                 /\ \A o \in DOMAIN rows : rows[o] = duties[o]
OnDay(d) == {o \in DOMAIN duties : UTCDay(duties[o].date, zone) = d}

\* Some of the rows, and all of them if the read has not failed.
SomeOf(rows, ids, lost) ==
  Undisturbed => /\ DOMAIN rows \subseteq DOMAIN duties \cap ids
                 /\ "occs" \notin lost => DOMAIN rows = DOMAIN duties \cap ids
                 /\ \A o \in DOMAIN rows : rows[o] = duties[o]

\* Where a duty may be, what the status filter says of it, and when nothing
\* that decides about it is missing.
Due(o, d, view, now) ==
  /\ InGroup(duties[o], view.group) /\ Day(duties[o].date) = d
  /\ view.hidePast => ~Past(duties[o].date, now)
Left(o, view) == view.status \in {"", Status(duties[o], At(Counts, o))}
Complete(view, lost) ==
  lost \subseteq IF view.status = "" THEN {"counts"} ELSE {}

CellsAre(cells, month, view, now, today, lost) ==
  /\ DOMAIN cells = Grid(month)
  /\ \A d \in Grid(month) :
       /\ cells[d].today <=> IsToday(d, today, zone)
       /\ cells[d].current <=> MonthOf(d) % Months = month % Months
  /\ Undisturbed => \A d \in Grid(month), o \in DOMAIN duties :
       /\ o \in cells[d].occurrences => Due(o, d, view, now)
       /\ Complete(view, lost) =>
            (o \in cells[d].occurrences <=> Due(o, d, view, now) /\ Left(o, view))
CalForm(month, view, now, today) ==
  page.form = [month |-> month, view |-> view, now |-> now, today |-> today]
CalAsked(rows, month, view) ==
  /\ page.got = <<rows>> /\ page.form = [month |-> month, view |-> view]
  /\ SomeOf(rows, OfGroup(view.group), Lost)
CalShown(cells, month, view, now, today) ==
  /\ page.got = <<cells>> /\ CalForm(month, view, now, today)
  /\ CellsAre(cells, month, view, now, today, Lost)
CalSeen ==
  /\ page.step = "cal_counts" =>
       \E rows : \E month \in ShownMonths, view \in Views :
         CalAsked(rows, month, view)
  /\ page.step = "cal_done" =>
       \E cells : \E month \in ShownMonths, view \in Views,
                     now \in Nows, today \in Nows :
         CalShown(cells, month, view, now, today)
  /\ page.step = "day_counts" =>
       \E rows : \E d \in Int :
         /\ page.got = <<rows>> /\ page.form = [day |-> d]
         /\ RowsOf(rows, OnDay(d))
  /\ page.step = "day_done" =>
       \E lines : \E d \in Int :
         /\ page.got = <<lines>> /\ page.form = [day |-> d]
         /\ Undisturbed => DOMAIN lines = OnDay(d)

\* As FreeKept, for the calendar.
LEMMA CalKept ==
  ASSUME CalSeen, page' = page,
         \/ UNCHANGED vars
         \/ page.step \notin Done /\ (page.step = "idle" \/ changes' # 0)
  PROVE  CalSeen'
<1>1. CASE UNCHANGED vars
  <2>1. UNCHANGED <<zone, duties, parts, page, changes>>
    BY <1>1 DEF vars
  <2>2. /\ \A rows, d : RowsOf(rows, OnDay(d))' = RowsOf(rows, OnDay(d))
        /\ \A d : OnDay(d)' = OnDay(d) /\ OfGroup(d)' = OfGroup(d)
        /\ Counts' = Counts /\ Undisturbed' = Undisturbed /\ Lost' = Lost
    BY <2>1 DEF RowsOf, OfGroup, OnDay, Undisturbed, Counts, Lost
  <2>3. /\ \A cells, month, view, now, today :
             CalShown(cells, month, view, now, today)'
               = CalShown(cells, month, view, now, today)
        /\ \A rows, month, view :
             CalAsked(rows, month, view)' = CalAsked(rows, month, view)
    BY <2>1, <2>2 DEF CalShown, CalAsked, CellsAre, CalForm, SomeOf, Due, Left,
       Complete
  <2>4. CASE page.step = "cal_counts"
    BY <2>1, <2>2, <2>3, <2>4 DEF CalSeen
  <2>5. CASE page.step = "cal_done"
    BY <2>1, <2>2, <2>3, <2>5 DEF CalSeen
  <2>6. CASE page.step = "day_counts"
    BY <2>1, <2>2, <2>3, <2>6 DEF CalSeen
  <2>7. CASE page.step = "day_done"
    BY <2>1, <2>2, <2>3, <2>7 DEF CalSeen
  <2>8. CASE page.step \notin {"cal_counts", "cal_done", "day_counts", "day_done"}
    BY <2>1, <2>8 DEF CalSeen
  <2>. QED
    BY <2>4, <2>5, <2>6, <2>7, <2>8
<1>2. CASE page.step = "idle"
  BY <1>2 DEF CalSeen
<1>3. CASE page.step \notin Done /\ changes' # 0
  <2>1. page.step # "cal_done" /\ page.step # "day_done"
    BY <1>3 DEF Done
  <2>2. /\ \A rows, d : RowsOf(rows, OnDay(d))'
        /\ \A rows, month, view :
             CalAsked(rows, month, view) => CalAsked(rows, month, view)'
    BY <1>3 DEF RowsOf, Undisturbed, CalAsked, SomeOf
  <2>3. CASE page.step = "cal_counts"
    BY <2>1, <2>2, <2>3 DEF CalSeen
  <2>4. CASE page.step = "day_counts"
    BY <2>1, <2>2, <2>4 DEF CalSeen
  <2>5. CASE page.step \notin {"cal_counts", "day_counts"}
    BY <2>1, <2>5 DEF CalSeen
  <2>. QED
    BY <2>3, <2>4, <2>5
<1>. QED
  BY <1>1, <1>2, <1>3

\* What the first statement of the calendar has read.
LEMMA FormBegins ==
  ASSUME Begin, BeginsAt, TablesOK, page'.step \in {"cal_counts", "day_counts"}
  PROVE  CalSeen'
<1>0. /\ UNCHANGED <<zone, duties, parts>>
      /\ \A ids : RowsOf(Select(ids), ids)
  BY SelectIs DEF BeginsAt, tables, RowsOf
<1>1. CASE page'.step = "cal_counts"
  <2>1. PICK month \in ShownMonths, view \in Views : Calendar(month, view)
    BY <1>1, Begins
  <2>. DEFINE all == FindByGroup(view.group)
  <2>2. PICK ids \in SUBSET DOMAIN all :
          Reach("cal_counts", [month |-> month, view |-> view],
                <<Restrict(all, ids)>>, Missing("occs", DOMAIN all, ids))
    BY <2>1 DEF Calendar
  <2>3. /\ DOMAIN all = DOMAIN duties \cap OfGroup(view.group)
        /\ \A o \in DOMAIN all : all[o] = duties[o]
    BY SelectIs DEF FindByGroup
  <2>4. PICK rows : rows = Restrict(all, ids)
    OBVIOUS
  <2>5. DOMAIN rows = ids /\ \A o \in ids : rows[o] = all[o]
    BY <2>4 DEF Restrict
  <2>6. /\ page'.got = <<rows>> /\ page'.form = [month |-> month, view |-> view]
        /\ Lost' = Missing("occs", DOMAIN all, ids)
    BY <2>2, <2>4, Reaches
  <2>7. "occs" \notin Lost' => ids = DOMAIN all
    BY <2>6, ReadsAre, MissingIs
  <2>. HIDE DEF all
  <2>8. SomeOf(rows, OfGroup(view.group), Lost)'
    BY <1>0, <2>2, <2>3, <2>5, <2>7 DEF SomeOf, OfGroup
  <2>. QED
    BY <1>1, <2>6, <2>8 DEF CalSeen, CalAsked
<1>2. CASE page'.step = "day_counts"
  <2>1. PICK now \in Nows : DayOccurrences(Day(now))
    BY <1>2, Begins
  <2>2. PICK d \in Int : d = Day(now)
    BY QueriesAre
  <2>3. PICK rows : rows = FindByDate(d)
    OBVIOUS
  <2>4. page'.got = <<rows>> /\ page'.form = [day |-> d]
    BY <2>1, <2>2, <2>3 DEF DayOccurrences, Goto, Reach
  <2>5. /\ DOMAIN rows = DOMAIN duties \cap OnDay(d)
        /\ \A o \in DOMAIN rows : rows[o] = duties[o]
    BY <2>3, SelectIs DEF FindByDate, OnDay
  <2>6. RowsOf(rows, OnDay(d))'
    BY <1>0, <2>5 DEF RowsOf, OnDay
  <2>. QED
    BY <1>2, <2>4, <2>6 DEF CalSeen
<1>. QED
  BY <1>1, <1>2

\* A page on which nothing is missing has all duties, and the counts if it
\* filters by them.
LEMMA CompleteHas ==
  ASSUME NEW view, NEW lost, Complete(view, lost)
  PROVE  "occs" \notin lost /\ ("counts" \in lost => view.status = "")
BY Zenon DEF Complete

\* What CalendarCounts makes of the rows and the counts it has.
CellsOf(cells, kept, month, today) ==
  /\ DOMAIN cells = Grid(month)
  /\ \A d \in Grid(month) :
       /\ cells[d].today <=> IsToday(d, today, zone)
       /\ cells[d].current <=> MonthOf(d) % Months = month % Months
       /\ cells[d].occurrences = {o \in DOMAIN kept : Day(kept[o].duty.date) = d}
Made(rows, counts, kept, view, now, before, lost) ==
  /\ SomeOf(rows, OfGroup(view.group), before) /\ before \subseteq lost
  /\ "counts" \notin lost => counts = Counts
  /\ kept = Kept(rows, counts, view, now)

\* The cells of the calendar are those that CellsAre asks for.
LEMMA CellsComputed ==
  ASSUME NEW rows, NEW counts, NEW kept, NEW view, NEW now, NEW before, NEW lost,
         NEW cells, NEW month, NEW today,
         Made(rows, counts, kept, view, now, before, lost),
         CellsOf(cells, kept, month, today)
  PROVE  CellsAre(cells, month, view, now, today, lost)
<1>0. /\ SomeOf(rows, OfGroup(view.group), before) /\ before \subseteq lost
      /\ "counts" \notin lost => counts = Counts
      /\ kept = Kept(rows, counts, view, now)
  BY DEF Made
<1>1. /\ DOMAIN cells = Grid(month)
      /\ \A d \in Grid(month) :
           /\ cells[d].today <=> IsToday(d, today, zone)
           /\ cells[d].current <=> MonthOf(d) % Months = month % Months
           /\ cells[d].occurrences = {o \in DOMAIN kept :
                                        Day(kept[o].duty.date) = d}
  BY DEF CellsOf
<1>2. /\ DOMAIN kept \subseteq DOMAIN rows
      /\ \A o \in DOMAIN kept : kept[o].duty = rows[o]
  BY <1>0, KeptRows
<1>3. \A o \in DOMAIN rows : o \in DOMAIN kept <=>
        /\ view.hidePast => ~Past(rows[o].date, now)
        /\ view.status \in {"", Status(rows[o], At(counts, o))}
  BY <1>0, KeptIs
<1>6. ASSUME Undisturbed, NEW d \in Grid(month), NEW o \in DOMAIN duties
      PROVE  /\ o \in cells[d].occurrences => Due(o, d, view, now)
             /\ Complete(view, lost) =>
                  (o \in cells[d].occurrences <=>
                     Due(o, d, view, now) /\ Left(o, view))
  <2>1. /\ o \in DOMAIN rows => InGroup(duties[o], view.group)
        /\ "occs" \notin lost /\ InGroup(duties[o], view.group) => o \in DOMAIN rows
        /\ o \in DOMAIN rows => rows[o] = duties[o]
    BY <1>0, <1>6 DEF SomeOf, OfGroup
  <2>2. o \in cells[d].occurrences <=>
          o \in DOMAIN kept /\ Day(kept[o].duty.date) = d
    BY <1>1
  <2>3. o \in DOMAIN kept => o \in DOMAIN rows /\ kept[o].duty = duties[o]
    BY <1>2, <2>1
  <2>4. o \in DOMAIN rows =>
          (o \in DOMAIN kept <=>
             /\ view.hidePast => ~Past(duties[o].date, now)
             /\ view.status \in {"", Status(duties[o], At(counts, o))})
    BY <1>3, <2>1
  <2>5. o \in cells[d].occurrences => Due(o, d, view, now)
    BY <2>1, <2>2, <2>3, <2>4 DEF Due
  <2>6. ASSUME Complete(view, lost)
        PROVE  o \in cells[d].occurrences <=> Due(o, d, view, now) /\ Left(o, view)
    <3>1. "occs" \notin lost /\ ("counts" \in lost => view.status = "")
      BY <2>6, CompleteHas
    <3>2. view.status \in {"", Status(duties[o], At(counts, o))} <=> Left(o, view)
      BY <1>0, <3>1, Zenon DEF Left
    <3>3. /\ Due(o, d, view, now) => o \in DOMAIN rows
          /\ o \in DOMAIN kept => (Day(kept[o].duty.date) = d <=> Day(duties[o].date) = d)
      BY <2>1, <2>3, <3>1 DEF Due
    <3>4. o \in DOMAIN rows =>
            (o \in DOMAIN kept <=>
               (view.hidePast => ~Past(duties[o].date, now)) /\ Left(o, view))
      BY <2>4, <3>2
    <3>. QED
      BY <2>1, <2>2, <2>3, <2>5, <3>3, <3>4 DEF Due
  <2>. QED
    BY <2>5, <2>6
<1>. QED
  BY <1>1, <1>6 DEF CellsAre

\* As StepFree, for the calendar and the page of a day.
LEMMA StepCal ==
  ASSUME BaseInv, CalSeen, [Next]_vars
  PROVE  CalSeen'
<1>0. TablesOK
  BY DEF BaseInv
<1>1. CASE UNCHANGED vars
  BY <1>1, CalKept DEF vars
<1>2. CASE page' = page /\ page.step \notin Done /\ (page.step = "idle" \/ changes' # 0)
  BY <1>2, CalKept
<1>3. CASE page' = Idle
  BY <1>3 DEF Idle, CalSeen
<1>4. CASE Begin /\ BeginsAt
  <2>1. CASE page'.step \in {"cal_counts", "day_counts"}
    BY <1>0, <1>4, <2>1, FormBegins
  <2>2. CASE page'.step \notin {"cal_counts", "cal_done", "day_counts", "day_done"}
    BY <2>2 DEF CalSeen
  <2>. QED
    BY <1>4, <2>1, <2>2, Begins
<1>5. CASE Continue /\ ContinuesAt
  <2>0. /\ UNCHANGED <<zone, duties, parts, changes>>
        /\ Counts' = Counts /\ Undisturbed' = Undisturbed
        /\ \A d : OnDay(d)' = OnDay(d)
    BY <1>5 DEF ContinuesAt, tables, Undisturbed, Counts, OnDay
  <2>1. CASE /\ page'.step = "cal_done"
             /\ \E now \in Nows, later \in Nows : CalendarCounts(now, later)
    <3>1. PICK now \in Nows, today \in Nows : CalendarCounts(now, today)
      BY <2>1
    <3>2. PICK rows : \E month \in ShownMonths, view \in Views :
            CalAsked(rows, month, view)
      BY <3>1 DEF CalendarCounts, CalSeen, AtStep
    <3>3. PICK month \in ShownMonths, view \in Views : CalAsked(rows, month, view)
      BY <3>2
    <3>4. Form.month = month /\ Form.view = view /\ Got[1] = rows
      BY <3>3 DEF CalAsked, Form, Got
    <3>. DEFINE kept(counts) == Kept(rows, counts, view, now)
                made(counts) == [d \in Grid(month) |->
                  [today |-> IsToday(d, today, zone),
                   current |-> MonthOf(d) % Months = month % Months,
                   occurrences |-> {o \in DOMAIN kept(counts) :
                                      Day(kept(counts)[o].duty.date) = d}]]
    <3>5. PICK ids \in SUBSET DOMAIN Counts :
            Reach("cal_done",
                  [month |-> month, view |-> view, now |-> now, today |-> today],
                  <<made(Restrict(Counts, ids))>>,
                  Missing("counts", DOMAIN Counts, ids))
      BY <3>1, <3>4 DEF CalendarCounts
    <3>6. PICK counts : counts = Restrict(Counts, ids)
      OBVIOUS
    <3>7. /\ page'.got = <<made(counts)>>
          /\ page'.form = [month |-> month, view |-> view,
                           now |-> now, today |-> today]
          /\ Lost' = Missing("counts", DOMAIN Counts, ids)
      BY <3>5, <3>6, Reaches
    <3>8. "counts" \notin Lost' => counts = Counts
      <4>1. "counts" \notin Lost' => ids = DOMAIN Counts
        BY <3>7, ReadsAre, MissingIs
      <4>2. Restrict(Counts, DOMAIN Counts) = Counts
        BY DEF Restrict, Counts
      <4>. QED
        BY <3>6, <4>1, <4>2
    <3>9. SomeOf(rows, OfGroup(view.group), Lost) /\ Lost \subseteq Lost'
      BY <1>5, <3>3 DEF CalAsked, ContinuesAt
    <3>10. PICK cells, lines : cells = made(counts) /\ lines = kept(counts)
      OBVIOUS
    <3>. HIDE DEF kept
    <3>14. /\ DOMAIN cells = Grid(month)
           /\ \A d \in Grid(month) :
                /\ cells[d].today <=> IsToday(d, today, zone)
                /\ cells[d].current <=> MonthOf(d) % Months = month % Months
                /\ cells[d].occurrences = {o \in DOMAIN lines :
                                             Day(lines[o].duty.date) = d}
      BY <3>10
    <3>. HIDE DEF made
    <3>15. lines = Kept(rows, counts, view, now)
      BY <3>10 DEF kept
    <3>11. PICK before, lost : before = Lost /\ lost = Lost'
      OBVIOUS
    <3>16. Made(rows, counts, lines, view, now, before, lost)
      BY <3>8, <3>9, <3>11, <3>15 DEF Made
    <3>17. CellsOf(cells, lines, month, today)
      BY <3>14 DEF CellsOf
    <3>18. CellsAre(cells, month, view, now, today, lost)
      BY <3>16, <3>17, CellsComputed
    <3>12. CellsAre(cells, month, view, now, today, Lost)'
      BY <2>0, <3>11, <3>18 DEF CellsAre, Due, Left, Complete
    <3>13. CalShown(cells, month, view, now, today)'
      BY <3>7, <3>10, <3>12 DEF CalShown, CalForm
    <3>. QED
      BY <2>1, <3>13 DEF CalSeen
  <2>2. CASE page'.step = "day_done" /\ DayCounts
    <3>1. PICK rows : \E d \in Int :
            /\ page.got = <<rows>> /\ page.form = [day |-> d]
            /\ RowsOf(rows, OnDay(d))
      BY <2>2 DEF DayCounts, CalSeen, AtStep
    <3>2. PICK d \in Int : page.form = [day |-> d] /\ RowsOf(rows, OnDay(d))
      BY <3>1
    <3>3. PICK lines : lines = Lines(rows, Counts)
      OBVIOUS
    <3>4. page'.got = <<lines>> /\ page'.form = [day |-> d]
      BY <2>2, <3>1, <3>2, <3>3 DEF DayCounts, Goto, Reach, Form, Got
    <3>5. DOMAIN lines = DOMAIN rows
      BY <3>3 DEF Lines
    <3>6. Undisturbed' => DOMAIN lines = OnDay(d)'
      BY <2>0, <3>2, <3>5 DEF RowsOf, OnDay
    <3>. QED
      BY <2>2, <3>4, <3>6 DEF CalSeen
  <2>3. CASE page'.step \notin {"cal_counts", "cal_done", "day_counts", "day_done"}
    BY <2>3 DEF CalSeen
  <2>. QED
    BY <1>5, <2>1, <2>2, <2>3, Continues
<1>. QED
  BY <1>1, <1>2, <1>3, <1>4, <1>5, Moves

\* The cells of a month: whole weeks around it, and the month's days in them.
LEMMA GridOfMonth ==
  ASSUME NEW m \in Nat
  PROVE  LET days == MonthStart(m) .. MonthStart(m + 1) - 1
         IN /\ Grid(m) \subseteq Int /\ days \subseteq Grid(m)
            /\ {d \in Grid(m) : MonthOf(d) % Months = m % Months} = days
            /\ Cardinality(Grid(m)) % WeekLength = 0
            /\ Min(Grid(m)) % WeekLength = 0
            /\ Cardinality(days) = MonthDays[(m % Months) + 1]
            /\ Cardinality(Grid(m) \ days) <= 2 * (WeekLength - 1)
<1>. DEFINE s == MonthStart(m)
            e == MonthStart(m + 1)
            days == s .. e - 1
<1>0. m \in Int
  OBVIOUS
<1>1. s \in Int /\ e \in Int /\ s < e
  BY NextMonthLater
<1>2. (m % Months) + 1 \in 1 .. Months /\ e = s + MonthDays[(m % Months) + 1]
  BY MonthLasts
<1>3. MonthDays[(m % Months) + 1] \in Nat
  BY <1>2, MonthDaysAre
<1>4. PICK a \in Int, w \in Nat \ {0} :
        LET z == a + w * WeekLength - 1
        IN /\ Grid(m) = a .. z /\ z \in Int /\ a <= z
           /\ a % WeekLength = 0
           /\ a <= s /\ s - a <= WeekLength - 1
           /\ e - 1 <= z /\ z - (e - 1) <= WeekLength - 1
  BY <1>0, GridIs
<1>. DEFINE z == a + w * WeekLength - 1
<1>5. \A d \in Grid(m) : MonthOf(d) % Months = m % Months <=> s <= d /\ d < e
  BY InGridAndMonth
<1>6. WeekLength \in Nat \ {0} /\ w * WeekLength \in Int
      /\ w * WeekLength = WeekLength * w + 0
  BY Lengths
<1>7. (w * WeekLength) % WeekLength = 0
  BY <1>6, DivUnique
<1>8. z - a + 1 = w * WeekLength
  BY <1>6
<1>. HIDE DEF s, e, z
<1>9. /\ Grid(m) = a .. z /\ z \in Int /\ a <= z /\ a % WeekLength = 0
      /\ a <= s /\ s - a <= WeekLength - 1
      /\ e - 1 <= z /\ z - (e - 1) <= WeekLength - 1
  BY <1>4 DEF z
<1>10. Cardinality(Grid(m)) = z - a + 1 /\ IsFiniteSet(Grid(m))
  BY <1>9, FS_Interval
<1>11. Min(Grid(m)) = a
  <2>1. Grid(m) \in SUBSET Int /\ a \in Grid(m) /\ \A d \in Grid(m) : a <= d
    BY <1>9
  <2>. QED
    BY <2>1, MinIs
<1>12. days \subseteq Grid(m) /\ Grid(m) \subseteq Int
  BY <1>1, <1>9
<1>13. {d \in Grid(m) : MonthOf(d) % Months = m % Months} = days
  BY <1>1, <1>5, <1>12
<1>14. Cardinality(days) = e - s /\ e - 1 \in Int
  BY <1>1, FS_Interval
<1>15. Cardinality(Grid(m) \ days) = Cardinality(Grid(m)) - Cardinality(days)
  <2>1. Grid(m) \cap days = days
    BY <1>12
  <2>. QED
    BY <1>10, <2>1, FS_Difference
<1>16. Cardinality(Grid(m) \ days) <= 2 * (WeekLength - 1)
  BY <1>1, <1>6, <1>9, <1>10, <1>14, <1>15
<1>17. Cardinality(Grid(m)) % WeekLength = 0
  BY <1>7, <1>8, <1>10
<1>18. Cardinality(days) = MonthDays[(m % Months) + 1]
  BY <1>1, <1>2, <1>3, <1>14
<1>. QED
  BY <1>9, <1>11, <1>12, <1>13, <1>16, <1>17, <1>18 DEF s, e

\* The grid begins and ends with a week and has the whole month.
LEMMA SeenIsWhole ==
  ASSUME BaseInv, CalSeen
  PROVE  CalendarIsWhole
<1>. SUFFICES ASSUME page.step = "cal_done"
              PROVE  CalendarIsWhole
  BY DEF CalendarIsWhole, AtStep
<1>0. TablesOK
  BY DEF BaseInv
<1>1. PICK cells : \E month \in ShownMonths, view \in Views, now \in Nows, today \in Nows :
        CalShown(cells, month, view, now, today)
  BY DEF CalSeen
<1>2. PICK m \in ShownMonths, view \in Views, now \in Nows, today \in Nows :
        /\ page.got = <<cells>> /\ CalForm(m, view, now, today)
        /\ CellsAre(cells, m, view, now, today, Lost)
  BY <1>1 DEF CalShown
<1>3. /\ page.form.month = m /\ page.form.view = view /\ page.form.now = now
      /\ page.got[1] = cells
  BY <1>2 DEF CalForm
<1>4. m \in Nat /\ view.group \in Nat
  BY PagesAssumption
<1>. DEFINE days == MonthStart(m) .. MonthStart(m + 1) - 1
            current == {d \in DOMAIN cells : cells[d].current}
<1>5. /\ days \subseteq Grid(m)
      /\ {d \in Grid(m) : MonthOf(d) % Months = m % Months} = days
      /\ Cardinality(Grid(m)) % WeekLength = 0
      /\ Min(Grid(m)) % WeekLength = 0
      /\ Cardinality(days) = MonthDays[(m % Months) + 1]
      /\ Cardinality(Grid(m) \ days) <= 2 * (WeekLength - 1)
  BY <1>4, GridOfMonth
<1>6. DOMAIN cells = Grid(m) /\ current = days
  <2>1. DOMAIN cells = Grid(m)
        /\ \A d \in Grid(m) : cells[d].current <=> MonthOf(d) % Months = m % Months
    BY <1>2 DEF CellsAre
  <2>. QED
    BY <1>5, <2>1
<1>7. ASSUME Undisturbed, NEW o \in DOMAIN duties
      PROVE  LET row == duties[o]
                 here == {d \in current : o \in cells[d].occurrences}
                 due == /\ MonthOf(Day(row.date)) = m
                        /\ view.group \in {0, row.group}
                        /\ view.hidePast => ~Past(row.date, now)
             IN /\ here \subseteq IF due THEN {Day(row.date)} ELSE {}
                /\ Complete(view, Lost) =>
                     here = IF due /\ Left(o, view) THEN {Day(row.date)} ELSE {}
  <2>. DEFINE row == duties[o]
              here == {d \in current : o \in cells[d].occurrences}
              coming == view.hidePast => ~Past(row.date, now)
              fits == view.group \in {0, row.group}
              day == Day(row.date)
  <2>1. day \in Int /\ row.group \in Nat
    BY <1>0, DutiesAre
  <2>2. \A d \in Grid(m) :
          /\ o \in cells[d].occurrences => InGroup(row, view.group) /\ day = d /\ coming
          /\ Complete(view, Lost) =>
               (o \in cells[d].occurrences <=>
                  InGroup(row, view.group) /\ day = d /\ coming /\ Left(o, view))
    BY <1>2, <1>7 DEF CellsAre, Due
  <2>3. InGroup(row, view.group) <=> fits
    BY <1>4, <2>1 DEF InGroup
  <2>4. day \in days <=> MonthOf(day) = m
    <3>1. m \in Int /\ MonthStart(m) \in Int /\ MonthStart(m + 1) \in Int
      BY <1>4, NextMonthLater
    <3>2. MonthStart(m) <= day /\ day < MonthStart(m + 1) => MonthOf(day) = m
      BY <2>1, <3>1, MonthOfUnique
    <3>3. MonthStart(MonthOf(day)) <= day /\ day < MonthStart(MonthOf(day) + 1)
      BY <2>1, MonthOfIs
    <3>. QED
      BY <2>1, <3>1, <3>2, <3>3
  <2>. HIDE DEF row, coming, fits, day, days, current
  <2>5. /\ \A d \in here : d \in days /\ fits /\ day = d /\ coming
        /\ Complete(view, Lost) =>
             here = {d \in days : fits /\ day = d /\ coming /\ Left(o, view)}
    BY <1>5, <1>6, <2>2, <2>3 DEF days
  <2>6. here \subseteq IF MonthOf(day) = m /\ fits /\ coming THEN {day} ELSE {}
    BY <2>4, <2>5
  <2>7. Complete(view, Lost) =>
          here = IF (MonthOf(day) = m /\ fits /\ coming) /\ Left(o, view)
                 THEN {day} ELSE {}
    BY <2>4, <2>5
  <2>. QED
    BY <2>6, <2>7 DEF row, coming, fits, day
<1>8. /\ Cardinality(DOMAIN cells) % WeekLength = 0
      /\ Min(DOMAIN cells) % WeekLength = 0
      /\ Cardinality(current) = MonthDays[(m % Months) + 1]
      /\ Cardinality(DOMAIN cells \ current) <= 2 * (WeekLength - 1)
  BY <1>5, <1>6
<1>. HIDE DEF current
<1>. QED
  BY <1>3, <1>7, <1>8 DEF CalendarIsWhole, Form, Got, current, Complete, Left

\* Only one cell can be that of today.
LEMMA SeenIsMarked ==
  ASSUME BaseInv, CalSeen
  PROVE  TodayIsMarked
<1>. SUFFICES ASSUME page.step = "cal_done"
              PROVE  TodayIsMarked
  BY DEF TodayIsMarked, AtStep
<1>1. PICK cells : \E month \in ShownMonths, view \in Views, before \in Nows, now \in Nows :
        CalShown(cells, month, view, before, now)
  BY DEF CalSeen
<1>2. PICK m \in ShownMonths, view \in Views, before \in Nows, now \in Nows :
        /\ page.got = <<cells>> /\ CalForm(m, view, before, now)
        /\ CellsAre(cells, m, view, before, now, Lost)
  BY <1>1 DEF CalShown
<1>3. page.form.today = now /\ page.got[1] = cells
  BY <1>2 DEF CalForm
<1>4. m \in Nat /\ now \in Nat /\ Day(now) \in Nat /\ now \in Int
  <2>1. m \in Nat
    BY PagesAssumption
  <2>2. now \in Nat /\ Day(now) \in Nat
    BY QueriesAre
  <2>. QED
    BY <2>1, <2>2
<1>5. PICK ahead \in 0 .. DayLength - 1 : ahead = zone
  BY PagesAssumption DEF BaseInv, TablesOK
<1>6. Grid(m) \subseteq Int
  BY <1>4, GridOfMonth
<1>. DEFINE marked == {d \in DOMAIN cells : cells[d].today}
            t == IF ahead = 0 \/ now % DayLength < ahead THEN Day(now)
                 ELSE Day(now) + 1
<1>7. /\ DOMAIN cells = Grid(m)
      /\ \A d \in Grid(m) : cells[d].today <=> IsToday(d, now, ahead)
  BY <1>2, <1>5 DEF CellsAre
<1>8. marked \subseteq {t}
  <2>. SUFFICES ASSUME NEW d \in Grid(m), IsToday(d, now, ahead)
                PROVE  d = t
    BY <1>7
  <2>1. d \in Int
    BY <1>6
  <2>. QED
    BY <1>4, <2>1, IsTodayIs
<1>9. ahead = 0 \/ now % DayLength < ahead => IsToday(Day(now), now, ahead)
  <2>. DEFINE midnight == Day(now) * DayLength
  <2>1. /\ DayLength \in Nat \ {0} /\ Day(now) \in Int /\ midnight \in Int
        /\ midnight = DayLength * Day(now) + 0
    BY <1>4, Lengths
  <2>2. Day(midnight) = Day(now) /\ midnight % DayLength = 0
    BY <2>1, DivUnique DEF Day
  <2>3. now % DayLength \in 0 .. DayLength - 1
    BY <1>4, DayIs
  <2>. HIDE DEF midnight
  <2>4. /\ UTCDay(midnight, ahead) = IF 0 < ahead THEN Day(now) - 1 ELSE Day(now)
        /\ UTCDay(now, ahead) = IF now % DayLength < ahead THEN Day(now) - 1 ELSE Day(now)
    BY <1>4, <2>1, <2>2, UTCDayIs
  <2>5. ahead = 0 \/ now % DayLength < ahead => UTCDay(midnight, ahead) = UTCDay(now, ahead)
    BY <2>3, <2>4
  <2>. QED
    BY <2>5 DEF IsToday, midnight
<1>10. Cardinality(marked) <= 1
  <2>1. IsFiniteSet({t}) /\ Cardinality({t}) = 1 /\ marked \in SUBSET {t}
    BY <1>8, FS_Singleton
  <2>2. IsFiniteSet(marked) /\ Cardinality(marked) <= Cardinality({t})
    BY <2>1, FS_Subset
  <2>. QED
    BY <2>1, <2>2
<1>11. ahead = 0 \/ now % DayLength < ahead =>
         t = Day(now) /\ marked = {Day(now)} \cap DOMAIN cells
  BY <1>7, <1>8, <1>9
<1>. HIDE DEF marked, t
<1>. QED
  BY <1>3, <1>5, <1>10, <1>11 DEF TodayIsMarked, Form, Got, marked

\* The page of a day has the duties of the day that are not early.
LEMMA SeenIsOfTheDay ==
  ASSUME BaseInv, CalSeen
  PROVE  DayShowsItsDuties
<1>. SUFFICES ASSUME page.step = "day_done", Undisturbed, NEW o \in DOMAIN duties,
                     duties[o].date % DayLength >= zone
              PROVE  o \in DOMAIN Got[1] <=> Day(duties[o].date) = Form.day
  BY DEF DayShowsItsDuties, AtStep
<1>1. PICK lines : \E d \in Int :
        /\ page.got = <<lines>> /\ page.form = [day |-> d]
        /\ Undisturbed => DOMAIN lines = OnDay(d)
  BY DEF CalSeen
<1>2. PICK d \in Int :
        /\ page.got = <<lines>> /\ page.form = [day |-> d]
        /\ DOMAIN lines = OnDay(d)
  BY <1>1
<1>3. page.got[1] = lines /\ page.form.day = d
  BY <1>2
<1>4. PICK ahead \in 0 .. DayLength - 1 : ahead = zone
  BY PagesAssumption DEF BaseInv, TablesOK
<1>5. PICK date \in Int : date = duties[o].date
  BY DutiesAre DEF BaseInv
<1>6. o \in DOMAIN lines <=> UTCDay(date, ahead) = d
  BY <1>2, <1>4, <1>5 DEF OnDay
<1>7. UTCDay(date, ahead) = IF date % DayLength < ahead THEN Day(date) - 1 ELSE Day(date)
  BY UTCDayIs
<1>8. Day(date) \in Int /\ date % DayLength \in Int
  BY DayIs
<1>9. o \in DOMAIN lines <=> Day(date) = d
  BY <1>4, <1>5, <1>6, <1>7, <1>8
<1>. QED
  BY <1>3, <1>4, <1>5, <1>9 DEF Form, Got

\* A calendar is whole weeks around its month.  No duty of the month is in
\* another cell than that of its day, and if no read failed each one that
\* passes the filters is in it.  At most one day is marked, and it is today
\* where local time is that of UTC, or the hour is early.  A day's page has
\* the duties of its cell that are not early, and no other that is not early
\* (buildCalendar, isToday, FindByDate).
THEOREM CalendarIsTrue == Spec => []CalendarTrue
<1>1. Init => CalSeen
  BY DEF Init, CalSeen, Idle
<1>2. BaseInv /\ CalSeen /\ [Next]_vars => CalSeen'
  BY StepCal
<1>3. BaseInv /\ CalSeen => CalendarTrue
  BY SeenIsWhole, SeenIsMarked, SeenIsOfTheDay DEF CalendarTrue
<1>. QED
  BY <1>1, <1>2, <1>3, BaseHolds, PTL DEF Spec

-----------------------------------------------------------------------------
(* The export.                                                             *)

ExportSteps == {"export_entries", "export_occs", "export_groups", "export_done"}
Marks == ExportInRange(page.form.range, page.form.roles, page.form.group)
Columns == Leaderboard(page.form.range, page.form.roles, page.form.group)
Sheet == FindInRange(page.form.range, page.form.group)
ExportForm ==
  \E query \in Boards, now \in Nows, later \in Nows :
    /\ now <= later
    /\ page.form = [range |-> ExportedRange(query, Day(now), Day(later)),
                    roles |-> LeaderboardRoles(query.filter), group |-> query.group]
Table(named) == Pivot(Marks, Columns, Sheet, named)
Named(named) == named \subseteq groups /\ (Lost = {} => named = groups)
ExportSeen ==
  /\ page.step \in ExportSteps => ExportForm
  /\ Undisturbed =>
       /\ page.step = "export_entries" => page.got = <<Marks>>
       /\ page.step = "export_occs" => page.got = <<Marks, Columns>>
       /\ page.step = "export_groups" => page.got = <<Marks, Columns, Sheet>>
       /\ page.step = "export_done" =>
            \E named : Named(named) /\ page.got = <<Table(named)>>

\* While nobody writes, the four queries of the export stay what they are.
LEMMA SameTables ==
  ASSUME UNCHANGED tables, page'.form = page.form
  PROVE  /\ Marks' = Marks /\ Columns' = Columns /\ Sheet' = Sheet
         /\ ExportForm' = ExportForm
         /\ \A named : Table(named)' = Table(named)
<1>1. UNCHANGED <<users, duties, groups, parts>>
  BY DEF tables
<1>2. Marks' = Marks
  BY <1>1 DEF Marks, ExportInRange
<1>3. Columns' = Columns
  BY <1>1 DEF Columns, Leaderboard, LeaderboardAll, LeaderboardInRange, Entries,
     OfGroup, DutiesOf
<1>4. Sheet' = Sheet
  BY <1>1 DEF Sheet, FindInRange, Select, OfGroup
<1>. QED
  BY <1>2, <1>3, <1>4 DEF ExportForm, Table

\* As StepFree, for the export.
LEMMA StepExport ==
  ASSUME BaseInv, ExportSeen, [Next]_vars
  PROVE  ExportSeen'
<1>1. CASE UNCHANGED vars
  <2>1. UNCHANGED <<tables, page, changes, groups>>
    BY <1>1 DEF vars, tables
  <2>2. \A named : Named(named)' = Named(named)
    BY <2>1 DEF Named, Lost
  <2>. QED
    BY <2>1, <2>2, SameTables DEF ExportSeen, Undisturbed
<1>2. CASE page' = page /\ page.step \notin Done /\ (page.step = "idle" \/ changes' # 0)
  BY <1>2 DEF ExportSeen, ExportForm, ExportSteps, Undisturbed
<1>3. CASE page' = Idle
  BY <1>3 DEF Idle, ExportSeen, ExportSteps
<1>4. CASE Begin /\ BeginsAt
  <2>1. CASE page'.step = "export_entries"
    <3>1. PICK query \in Boards, now \in Nows, later \in Nows : Export(query, now, later)
      BY <1>4, <2>1, Begins
    <3>. DEFINE range == ExportedRange(query, Day(now), Day(later))
                roles == LeaderboardRoles(query.filter)
    <3>2. /\ page'.form = [range |-> range, roles |-> roles, group |-> query.group]
          /\ page'.got = <<ExportInRange(range, roles, query.group)>>
          /\ now <= later /\ UNCHANGED <<duties, parts>>
      BY <3>1 DEF Export, Goto, Reach, tables
    <3>. HIDE DEF range, roles
    <3>3. ExportInRange(range, roles, query.group)' = ExportInRange(range, roles, query.group)
      BY <3>2 DEF ExportInRange
    <3>4. page'.got = <<Marks'>>
      BY <3>2, <3>3 DEF Marks
    <3>5. ExportForm'
      BY <3>2 DEF ExportForm, range, roles
    <3>. QED
      BY <2>1, <3>4, <3>5 DEF ExportSeen
  <2>2. CASE page'.step \notin ExportSteps
    BY <2>2 DEF ExportSeen, ExportSteps
  <2>. QED
    BY <1>4, <2>1, <2>2, Begins DEF ExportSteps
<1>5. CASE Continue /\ ContinuesAt
  <2>0. UNCHANGED <<tables, groups, changes>> /\ Undisturbed' = Undisturbed
    BY <1>5 DEF ContinuesAt, tables, Undisturbed
  <2>1. CASE page'.step = "export_occs" /\ ExportEntries
    <3>1. page.step = "export_entries" /\ page'.form = page.form
          /\ page'.got = Append(page.got, Columns)
      BY <2>1 DEF ExportEntries, Then, Goto, Reach, AtStep, Form, Got, Columns
    <3>2. ExportForm /\ (Undisturbed => page.got = <<Marks>>)
      BY <3>1 DEF ExportSeen, ExportSteps
    <3>. QED
      BY <2>0, <2>1, <3>1, <3>2, Appends, SameTables DEF ExportSeen
  <2>2. CASE page'.step = "export_groups" /\ ExportOccs
    <3>1. page.step = "export_occs" /\ page'.form = page.form
          /\ page'.got = Append(page.got, Sheet)
      BY <2>2 DEF ExportOccs, Then, Goto, Reach, AtStep, Form, Got, Sheet
    <3>2. ExportForm /\ (Undisturbed => page.got = <<Marks, Columns>>)
      BY <3>1 DEF ExportSeen, ExportSteps
    <3>3. Undisturbed => page'.got = <<Marks, Columns, Sheet>>
      BY <3>1, <3>2, Appends
    <3>4. ExportForm' /\ (Undisturbed' => page'.got = <<Marks', Columns', Sheet'>>)
      BY <2>0, <3>1, <3>2, <3>3, SameTables
    <3>. QED
      BY <2>2, <3>4 DEF ExportSeen
  <2>3. CASE page'.step = "export_done" /\ ExportGroups
    <3>1. page.step = "export_groups" /\ Got = page.got /\ Form = page.form
      BY <2>3 DEF ExportGroups, AtStep, Form, Got
    <3>2. PICK named \in SUBSET groups :
            Reach("export_done", Form, <<Pivot(Got[1], Got[2], Got[3], named)>>,
                  Missing("groups", groups, named))
      BY <2>3 DEF ExportGroups
    <3>3. /\ page'.form = page.form
          /\ page'.got = <<Pivot(page.got[1], page.got[2], page.got[3], named)>>
          /\ Lost' = Missing("groups", groups, named)
      BY <3>1, <3>2, Reaches
    <3>4. ExportForm /\ (Undisturbed => page.got = <<Marks, Columns, Sheet>>)
      BY <3>1 DEF ExportSeen, ExportSteps
    <3>5. Undisturbed => page'.got = <<Table(named)>>
      BY <3>3, <3>4 DEF Table
    <3>6. Lost' = {} => named = groups
      BY <3>3, ReadsAre, MissingIs
    <3>7. ExportForm' /\ Named(named)' /\ Table(named)' = Table(named)
      BY <2>0, <3>2, <3>3, <3>4, <3>6, SameTables DEF Named
    <3>8. Undisturbed' => page'.got = <<Table(named)'>>
      BY <2>0, <3>5, <3>7
    <3>. QED
      BY <2>3, <3>7, <3>8 DEF ExportSeen
  <2>4. CASE page'.step \notin ExportSteps
    BY <2>4 DEF ExportSeen, ExportSteps
  <2>. QED
    BY <1>5, <2>1, <2>2, <2>3, <2>4, Continues DEF ExportSteps
<1>. QED
  BY <1>1, <1>2, <1>3, <1>4, <1>5, Moves

\* The export asks for a range and for roles.
LEMMA ExportAsks ==
  ASSUME ExportForm
  PROVE  /\ ~(page.form.range.from = Zero /\ page.form.range.to = Zero)
         /\ RoleFilter(page.form.roles) = page.form.roles
<1>1. PICK query \in Boards, now \in Nows, later \in Nows :
     /\ now <= later
     /\ page.form = [range |-> ExportedRange(query, Day(now), Day(later)),
                     roles |-> LeaderboardRoles(query.filter), group |-> query.group]
  BY DEF ExportForm
<1>2. page.form.roles # {}
  <2>1. LeaderboardRoles(query.filter) # {}
    BY DEF LeaderboardRoles
  <2>. QED
    BY <1>1, <2>1
<1>3. PICK first \in Nat, second \in Nat :
        first = Day(now) /\ second = Day(later) /\ first <= second
  <2>1. now \in Nat /\ later \in Nat /\ Day(now) \in Nat /\ Day(later) \in Nat
    BY QueriesAre
  <2>. QED
    BY <1>1, <2>1, DaysPass
<1>4. ~(StudentYear(first).from = Zero /\ StudentYear(second).to = Zero)
  <2>1. PICK m \in Int :
          /\ StudentYear(first).from = MonthStart(m)
          /\ StudentYear(first).to = MonthStart(m + Months) - 1
          /\ MonthStart(m) \in Int /\ MonthStart(m + Months) \in Int
          /\ MonthStart(m) + 1 < MonthStart(m + Months)
    BY StudentYearIs
  <2>2. PICK n \in Int :
          /\ StudentYear(second).from = MonthStart(n)
          /\ StudentYear(second).to = MonthStart(n + Months) - 1
          /\ MonthStart(n) \in Int /\ MonthStart(n + Months) \in Int
          /\ MonthStart(n) <= second /\ second < MonthStart(n + Months)
    <3>1. second \in Int
      OBVIOUS
    <3>. QED
      BY <3>1, StudentYearIs
  <2>3. StudentYear(second).to = 0 => first = second
    BY <1>3, <2>2
  <2>. QED
    BY <2>1, <2>3 DEF Zero
<1>5. page.form.range = ExportedRange(query, first, second)
  BY <1>1, <1>3
<1>. QED
  BY <1>2, <1>4, <1>5 DEF ExportedRange, RoleFilter

\* The columns and the lines of an export, from the tables.
Exported ==
  {o \in DOMAIN duties : /\ InGroup(duties[o], page.form.group)
                         /\ InRange(duties[o].date, page.form.range.from,
                                    page.form.range.to)}

\* The columns of the export and what they count.
LEMMA ColumnsAre ==
  ASSUME TablesOK, ExportForm
  PROVE  /\ DOMAIN Columns = {u \in users : People[u].role \in page.form.roles}
         /\ \A u \in DOMAIN Columns :
              /\ Columns[u].name = People[u].name
              /\ Columns[u].count = Cardinality(DutiesOf(u) \cap Exported)
              /\ Columns[u].count \in Nat
<1>. DEFINE range == page.form.range
            roles == page.form.roles
            ids == {o \in OfGroup(page.form.group) :
                      InRange(duties[o].date, range.from, range.to)}
<1>1. /\ ~(range.from = Zero /\ range.to = Zero)
      /\ RoleFilter(roles) = roles
  BY ExportAsks
<1>2. Columns = Entries(roles, ids)
  BY <1>1 DEF Columns, Leaderboard, LeaderboardInRange
<1>3. ids = Exported
  BY DEF OfGroup, Exported
<1>. HIDE DEF ids, range, roles
<1>4. /\ DOMAIN Columns = {u \in users : People[u].role \in roles}
      /\ \A u \in DOMAIN Columns :
           /\ Columns[u].name = People[u].name
           /\ Columns[u].count = Cardinality(DutiesOf(u) \cap Exported)
  BY <1>1, <1>2, <1>3 DEF Entries
<1>5. \A u : Cardinality(DutiesOf(u) \cap Exported) \in Nat
  BY DutiesAre, FS_Intersection, FS_CardinalityType
<1>. QED
  BY <1>4, <1>5 DEF roles

\* The lines of the export.
LEMMA SheetIs ==
  ASSUME TablesOK
  PROVE  /\ DOMAIN Sheet = Exported
         /\ \A o \in Exported : Sheet[o] = duties[o]
<1>1. {o \in OfGroup(page.form.group) :
         InRange(duties[o].date, page.form.range.from, page.form.range.to)} = Exported
  BY DEF OfGroup, Exported
<1>2. Sheet = Select(Exported)
  BY <1>1 DEF Sheet, FindInRange
<1>3. Exported \subseteq DOMAIN duties
  BY DEF Exported
<1>. QED
  BY <1>2, <1>3 DEF Select

\* The rows of the export's query, and what makes a participation one of them.
LEMMA MarksAre ==
  ASSUME TablesOK, ExportForm
  PROVE  /\ \A p \in parts : Listable(p) =>
              <<KeyOf(p[2]), People[p[1]].name>> \in Marks
         /\ \A k, n : <<k, n>> \in Marks =>
              \E p \in parts : Listable(p) /\ k = KeyOf(p[2]) /\ n = People[p[1]].name
         /\ \A p \in parts : Listable(p) =>
              /\ p[1] \in users /\ People[p[1]].role \in page.form.roles
              /\ p[2] \in Exported
<1>. DEFINE marked(p) == /\ InRange(duties[p[2]].date, page.form.range.from,
                                    page.form.range.to)
                         /\ People[p[1]].role \in RoleFilter(page.form.roles)
                         /\ InGroup(duties[p[2]], page.form.group)
            mark(p) == <<Key(duties[p[2]].date, duties[p[2]].title,
                             duties[p[2]].group), People[p[1]].name>>
<1>1. Marks = {mark(p) : p \in {q \in parts : marked(q)}}
  BY DEF Marks, ExportInRange
<1>2. \A p : marked(p) <=> Listable(p)
  BY ExportAsks DEF Listable, WithinRange, Form, InRange
<1>3. \A p : mark(p) = <<KeyOf(p[2]), People[p[1]].name>>
  BY DEF KeyOf
<1>4. ASSUME NEW p \in parts, Listable(p)
      PROVE  /\ p[1] \in users /\ People[p[1]].role \in page.form.roles
             /\ p[2] \in Exported
  <2>1. p[1] \in users /\ p[2] \in DOMAIN duties
    BY DEF TablesOK
  <2>. QED
    BY <1>4, <2>1 DEF Listable, WithinRange, Exported, InRange, Form
<1>. HIDE DEF mark, marked
<1>5. ASSUME NEW k, NEW n, <<k, n>> \in Marks
      PROVE  \E p \in parts : Listable(p) /\ k = KeyOf(p[2]) /\ n = People[p[1]].name
  <2>1. PICK p \in parts : Listable(p) /\ <<k, n>> = mark(p)
    BY <1>1, <1>2, <1>5
  <2>2. <<k, n>> = <<KeyOf(p[2]), People[p[1]].name>>
    BY <1>3, <2>1
  <2>. QED
    BY <2>1, <2>2
<1>6. ASSUME NEW p \in parts, Listable(p)
      PROVE  <<KeyOf(p[2]), People[p[1]].name>> \in Marks
  BY <1>1, <1>2, <1>3, <1>6
<1>. QED
  BY <1>4, <1>5, <1>6

\* How a line is looked up when some names of groups are missing.
Label(o, named) == Key(duties[o].date, duties[o].title,
                       IF duties[o].group \in named THEN duties[o].group ELSE 0)

\* The table made of them: where its crosses are, and what its totals.
LEMMA TableIs ==
  ASSUME TablesOK, ExportForm, NEW named
  PROVE  LET table == Table(named)
         IN /\ DOMAIN table.key = Exported
            /\ \A o \in Exported : table.key[o] = Label(o, named)
            /\ DOMAIN table.name = DOMAIN Columns
            /\ \A u \in DOMAIN Columns : table.name[u] = People[u].name
            /\ \A c : c \in table.crosses <=>
                 /\ c \in Exported \X DOMAIN Columns
                 /\ <<Label(c[1], named), People[c[2]].name>> \in Marks
            /\ \A u \in DOMAIN Columns : table.total[u] =
                 Min({Columns[v].count : v \in {w \in DOMAIN Columns :
                        People[w].name = People[u].name}})
<1>. DEFINE key == [o \in DOMAIN Sheet |->
                      Key(Sheet[o].date, Sheet[o].title,
                          IF Sheet[o].group \in named THEN Sheet[o].group ELSE 0)]
            alike(u) == {w \in DOMAIN Columns : Columns[w].name = Columns[u].name}
<1>1. DOMAIN Sheet = Exported /\ \A o \in Exported : Sheet[o] = duties[o]
  BY SheetIs
<1>3. DOMAIN key = Exported
  BY <1>1
<1>4. \A o \in Exported : key[o] = Label(o, named)
  BY <1>1 DEF Label
<1>5. \A u \in DOMAIN Columns : Columns[u].name = People[u].name
  BY ColumnsAre
<1>6. PICK table : table = Table(named)
  OBVIOUS
<1>7. /\ table.key = key
      /\ table.name = [u \in DOMAIN Columns |-> Columns[u].name]
      /\ table.total = [u \in DOMAIN Columns |-> Min({Columns[v].count : v \in alike(u)})]
      /\ table.crosses = {c \in (DOMAIN Sheet) \X (DOMAIN Columns) :
                            <<key[c[1]], Columns[c[2]].name>> \in Marks}
  BY <1>6 DEF Pivot, Table
<1>. HIDE DEF key, alike
<1>8. ASSUME NEW c
      PROVE  c \in table.crosses <=>
               /\ c \in Exported \X DOMAIN Columns
               /\ <<Label(c[1], named), People[c[2]].name>> \in Marks
  <2>1. c \in table.crosses <=>
          /\ c \in Exported \X DOMAIN Columns
          /\ <<key[c[1]], Columns[c[2]].name>> \in Marks
    BY <1>1, <1>7
  <2>2. c \in Exported \X DOMAIN Columns =>
          key[c[1]] = Label(c[1], named) /\ Columns[c[2]].name = People[c[2]].name
    BY <1>4, <1>5
  <2>. QED
    BY <2>1, <2>2
<1>9. ASSUME NEW u \in DOMAIN Columns
      PROVE  /\ table.name[u] = People[u].name
             /\ table.total[u] =
                  Min({Columns[v].count : v \in {w \in DOMAIN Columns :
                         People[w].name = People[u].name}})
  <2>1. alike(u) = {w \in DOMAIN Columns : People[w].name = People[u].name}
    BY <1>5 DEF alike
  <2>2. table.total[u] = Min({Columns[v].count : v \in alike(u)})
    BY <1>7
  <2>. QED
    BY <1>5, <1>7, <2>1, <2>2
<1>10. DOMAIN table.name = DOMAIN Columns
  BY <1>7
<1>. QED
  BY <1>3, <1>4, <1>6, <1>7, <1>8, <1>9, <1>10

\* The crosses of a line and of a column add up to what is printed beside
\* them, unless two of them are printed alike.
LEMMA SeenIsTrue ==
  ASSUME BaseInv, ExportSeen
  PROVE  ExportTrue
<1>. SUFFICES ASSUME page.step = "export_done", Undisturbed
              PROVE  ExportTrue
  BY DEF ExportTrue, AtStep
<1>1. TablesOK /\ ExportForm
  BY DEF BaseInv, ExportSeen, ExportSteps
<1>2. PICK named : Named(named) /\ page.got = <<Table(named)>>
  BY DEF ExportSeen
<1>0. PICK table : table = Table(named)
  OBVIOUS
<1>3. page.got[1] = table
  BY <1>0, <1>2
<1>4. /\ DOMAIN table.key = Exported
      /\ \A o \in Exported : table.key[o] = Label(o, named)
      /\ DOMAIN table.name = DOMAIN Columns
      /\ \A u \in DOMAIN Columns : table.name[u] = People[u].name
      /\ \A c : c \in table.crosses <=>
           /\ c \in Exported \X DOMAIN Columns
           /\ <<Label(c[1], named), People[c[2]].name>> \in Marks
      /\ \A u \in DOMAIN Columns : table.total[u] =
           Min({Columns[v].count : v \in {w \in DOMAIN Columns :
                  People[w].name = People[u].name}})
  BY <1>0, <1>1, TableIs
<1>5. /\ DOMAIN Columns = {u \in users : People[u].role \in page.form.roles}
      /\ \A u \in DOMAIN Columns :
           /\ Columns[u].count = Cardinality(DutiesOf(u) \cap Exported)
           /\ Columns[u].count \in Nat
  BY <1>1, ColumnsAre
<1>6. /\ \A p \in parts : Listable(p) =>
           <<KeyOf(p[2]), People[p[1]].name>> \in Marks
      /\ \A k, n : <<k, n>> \in Marks =>
           \E p \in parts : Listable(p) /\ k = KeyOf(p[2]) /\ n = People[p[1]].name
      /\ \A p \in parts : Listable(p) =>
           /\ p[1] \in users /\ People[p[1]].role \in page.form.roles
           /\ p[2] \in Exported
  BY <1>1, MarksAre
<1>12. ASSUME NEW o \in Exported, Lost = {} \/ duties[o].group = 0
       PROVE  Label(o, named) = KeyOf(o)
  <2>1. Lost = {} => duties[o].group \in named \cup {0}
    BY <1>1, <1>2 DEF Named, TablesOK, Exported
  <2>2. (IF duties[o].group \in named THEN duties[o].group ELSE 0) = duties[o].group
    BY <1>12, <2>1
  <2>. QED
    BY <2>2 DEF Label, KeyOf
<1>7. ASSUME NEW p \in parts, Listable(p)
      PROVE  /\ p[1] \in DOMAIN Columns /\ p[2] \in Exported
             /\ Lost = {} \/ duties[p[2]].group = 0 =>
                  <<p[2], p[1]>> \in table.crosses
  <2>1. p[1] \in DOMAIN Columns /\ p[2] \in Exported
    BY <1>5, <1>6, <1>7
  <2>. DEFINE c == <<p[2], p[1]>>
  <2>2. c \in Exported \X DOMAIN Columns /\ c[1] = p[2] /\ c[2] = p[1]
    BY <2>1
  <2>. HIDE DEF c
  <2>3. Label(p[2], named) = KeyOf(p[2]) => c \in table.crosses
    BY <1>4, <1>6, <1>7, <2>2
  <2>4. Lost = {} \/ duties[p[2]].group = 0 => c \in table.crosses
    BY <1>12, <2>1, <2>3
  <2>. QED
    BY <2>1, <2>4 DEF c
<1>8. ASSUME NEW c \in table.crosses
      PROVE  /\ c[1] \in Exported /\ c[2] \in DOMAIN Columns
             /\ \E p \in parts :
                  /\ Listable(p)
                  /\ People[p[1]].name = table.name[c[2]]
                  /\ KeyOf(p[2]) = table.key[c[1]]
  <2>1. /\ c \in Exported \X DOMAIN Columns
        /\ <<Label(c[1], named), People[c[2]].name>> \in Marks
    BY <1>4
  <2>2. PICK p \in parts :
          /\ Listable(p) /\ Label(c[1], named) = KeyOf(p[2])
          /\ People[c[2]].name = People[p[1]].name
    BY <1>6, <2>1
  <2>. QED
    BY <1>4, <2>1, <2>2
<1>9. \A o \in DOMAIN duties : WithinRange(o) => o \in Exported
  BY DEF Exported, InRange, WithinRange, Form
<1>10. ASSUME Lost = {}, IsInjective(table.name), IsInjective(table.key),
              NEW u \in DOMAIN Columns
       PROVE  table.total[u] = Cardinality({o \in Exported : <<o, u>> \in table.crosses})
  <2>1. \A v, w \in DOMAIN Columns : People[v].name = People[w].name => v = w
    BY <1>4, <1>10 DEF IsInjective
  <2>0. \A o \in Exported : table.key[o] = KeyOf(o)
    BY <1>4, <1>10, <1>12
  <2>2. \A o, p \in Exported : KeyOf(o) = KeyOf(p) => o = p
    BY <1>4, <1>10, <2>0 DEF IsInjective
  <2>3. {w \in DOMAIN Columns : People[w].name = People[u].name} = {u}
    BY <2>1
  <2>4. table.total[u] = Min({Columns[u].count})
    <3>1. {Columns[v].count : v \in {u}} = {Columns[u].count}
      OBVIOUS
    <3>. QED
      BY <1>4, <2>3, <3>1
  <2>5. table.total[u] = Columns[u].count
    <3>0. Columns[u].count \in Int
      <4>1. Columns[u].count \in Nat
        BY <1>1, ColumnsAre, Zenon
      <4>. QED
        BY <4>1
    <3>1. PICK n \in Int : n = Columns[u].count
      BY <3>0
    <3>2. {n} \in SUBSET Int /\ n \in {n} /\ \A m \in {n} : n <= m
      OBVIOUS
    <3>3. Min({n}) = n
      BY <3>2, MinIs
    <3>. QED
      BY <2>4, <3>1, <3>3
  <2>6. ASSUME NEW o \in Exported, <<o, u>> \in table.crosses
        PROVE  o \in DutiesOf(u)
    <3>. DEFINE c == <<o, u>>
    <3>1. c[1] = o /\ c[2] = u
      OBVIOUS
    <3>. HIDE DEF c
    <3>2. PICK p \in parts :
            /\ Listable(p)
            /\ People[p[1]].name = table.name[c[2]]
            /\ KeyOf(p[2]) = table.key[c[1]]
      BY <1>8, <2>6 DEF c
    <3>3. p[1] \in DOMAIN Columns /\ p[2] \in Exported
      BY <1>7, <3>2
    <3>4. p[1] = u /\ p[2] = o
      BY <1>4, <2>0, <2>1, <2>2, <3>1, <3>2, <3>3
    <3>5. p = <<u, o>> /\ o \in DOMAIN duties
      BY <1>1, <3>4 DEF TablesOK, Exported
    <3>. QED
      BY <3>5 DEF DutiesOf
  <2>7. ASSUME NEW o \in Exported, o \in DutiesOf(u)
        PROVE  <<o, u>> \in table.crosses
    <3>. DEFINE p == <<u, o>>
    <3>1. p \in parts /\ p[1] = u /\ p[2] = o
      BY <2>7 DEF DutiesOf
    <3>2. People[u].role \in page.form.roles
      BY <1>5
    <3>3. Listable(p)
      BY <3>1, <3>2 DEF Listable, WithinRange, Exported, InRange, Form
    <3>. HIDE DEF p
    <3>. QED
      BY <1>7, <1>10, <3>1, <3>3
  <2>8. {o \in Exported : <<o, u>> \in table.crosses} = DutiesOf(u) \cap Exported
    BY <2>6, <2>7
  <2>. QED
    BY <1>5, <2>5, <2>8
<1>11. Lost = {} => AddsUp(table)
  BY <1>4, <1>10 DEF AddsUp
<1>13. \A c \in table.crosses : \E p \in parts :
         /\ People[p[1]].role \in Form.roles
         /\ InGroup(duties[p[2]], Form.group)
         /\ People[p[1]].name = table.name[c[2]]
         /\ KeyOf(p[2]) = table.key[c[1]]
  BY <1>8 DEF Listable, WithinRange
<1>. QED
  BY <1>3, <1>4, <1>7, <1>9, <1>11, <1>13 DEF ExportTrue, Form, Got

\* The queries of an export agree: every duty of its range before the last
\* day has a line, and a cross for each participant unless the name of its
\* group is missing; a cross belongs to a participation that is printed like
\* it; and if no read failed the totals are the numbers of crosses below them,
\* unless names or lines coincide (Export).
THEOREM ExportIsTrue == Spec => []ExportTrue
<1>1. Init => ExportSeen
  BY DEF Init, ExportSeen, ExportSteps, Idle
<1>2. BaseInv /\ ExportSeen /\ [Next]_vars => ExportSeen'
  BY StepExport
<1>3. BaseInv /\ ExportSeen => ExportTrue
  BY SeenIsTrue
<1>. QED
  BY <1>1, <1>2, <1>3, BaseHolds, PTL DEF Spec

-----------------------------------------------------------------------------
(* The profile.                                                            *)

\* The duties a day of the heat map counts.
CountedIn(form, d) ==
  {o \in DutiesOf(form.user) : /\ InRange(duties[o].date, form.from, form.to)
                               /\ UTCDay(duties[o].date, zone) = d}
CountedOn(d) == CountedIn(page.form, d)

\* What is read of the activity: all of it on some of the days, and on all of
\* them if the read has not failed.
ReadOn(A, form, days) ==
  \A d \in Int : At(A, d) = IF d \in days THEN Cardinality(CountedIn(form, d)) ELSE 0
ActivityOf(A, form, lost) ==
  /\ \A d \in Int : At(A, d) \in Nat
  /\ Undisturbed =>
       \E days : ReadOn(A, form, days) /\ ("activity" \notin lost => days = Int)
ActivityRead(A) == ActivityOf(A, page.form, Lost)
YearSteps == {"public_ooo", "profile_occs", "profile_counts", "profile_done"}
ProfileForm == \E u : \E now \in Nows : page.form = Year(u, now)
ProfileSeen ==
  /\ page.step \in YearSteps => ProfileForm
  /\ page.step = "public_ooo" => \E A : page.got = <<A>> /\ ActivityRead(A)
  /\ page.step = "profile_occs" =>
       \E P, A : page.got = <<P, A>> /\ ActivityRead(A)
  /\ page.step = "profile_counts" =>
       \E P, A, rows : page.got = <<P, A, rows>> /\ ActivityRead(A)
  /\ page.step = "profile_done" =>
       \E P, A : /\ page.got[1] = Heatmap(A, P, page.form.from, page.form.to)
                 /\ page.got[2] = Stats(A, page.form.from, page.form.to)
                 /\ ActivityRead(A)

\* The query of the heat map counts by the day of UTC.
LEMMA ActivityIs ==
  ASSUME TablesOK, NEW form,
         NEW all, all = CountByDate(form.user, form.from, form.to),
         NEW some \in SUBSET DOMAIN all, NEW lost,
         "activity" \notin lost => some = DOMAIN all
  PROVE  ActivityOf(Restrict(all, some), form, lost)
<1>. DEFINE within == {o \in DutiesOf(form.user) :
                         InRange(duties[o].date, form.from, form.to)}
            day(o) == UTCDay(duties[o].date, zone)
            days == {d \in Int : d \in DOMAIN all => d \in some}
<1>1. PICK A : A = Restrict(all, some)
  OBVIOUS
<1>2. all = [d \in {day(o) : o \in within} |-> Cardinality({o \in within : day(o) = d})]
  BY DEF CountByDate
<1>3. \A d : CountedIn(form, d) = {o \in within : day(o) = d}
  BY DEF CountedIn
<1>4. DOMAIN all = {day(o) : o \in within}
  BY <1>2
<1>5. \A d \in DOMAIN all : all[d] = Cardinality(CountedIn(form, d))
  BY <1>2, <1>3
<1>6. \A d : d \notin DOMAIN all => CountedIn(form, d) = {}
  BY <1>3, <1>4
<1>7. DOMAIN A = some /\ \A d \in some : A[d] = all[d]
  BY <1>1 DEF Restrict
<1>. HIDE DEF within, day
<1>8. ASSUME NEW d \in Int
      PROVE  At(A, d) = IF d \in days THEN Cardinality(CountedIn(form, d)) ELSE 0
  <2>1. CASE d \in some
    BY <1>5, <1>7, <2>1 DEF At
  <2>2. CASE d \notin some /\ d \in DOMAIN all
    BY <1>7, <2>2 DEF At
  <2>3. CASE d \notin DOMAIN all
    <3>1. At(A, d) = 0
      BY <1>7, <2>3 DEF At
    <3>2. Cardinality(CountedIn(form, d)) = 0
      BY <1>6, <2>3, FS_EmptySet
    <3>. QED
      BY <3>1, <3>2
  <2>. QED
    BY <2>1, <2>2, <2>3
<1>9. \A d : Cardinality(CountedIn(form, d)) \in Nat
  <2>1. \A d : CountedIn(form, d) \subseteq DutiesOf(form.user)
    BY DEF CountedIn
  <2>. QED
    BY <2>1, DutiesAre, FS_Subset, FS_CardinalityType
<1>10. \A d \in Int : At(A, d) \in Nat
  BY <1>8, <1>9
<1>11. "activity" \notin lost => days = Int
  OBVIOUS
<1>. HIDE DEF days
<1>12. ReadOn(A, form, days)
  BY <1>8 DEF ReadOn
<1>. QED
  BY <1>1, <1>10, <1>11, <1>12 DEF ActivityOf

\* As FreeKept, for the profile.
LEMMA ProfileKept ==
  ASSUME ProfileSeen, page' = page,
         \/ UNCHANGED vars
         \/ page.step \notin Done /\ (page.step = "idle" \/ changes' # 0)
  PROVE  ProfileSeen'
<1>0. ProfileForm => ProfileForm'
  BY DEF ProfileForm
<1>1. CASE UNCHANGED vars
  <2>1. UNCHANGED <<zone, duties, parts, page, changes>>
    BY <1>1 DEF vars
  <2>2. \A A : ActivityRead(A)' = ActivityRead(A)
    BY <2>1 DEF ActivityRead, ActivityOf, ReadOn, CountedIn, DutiesOf, Undisturbed, Lost
  <2>. QED
    BY <1>0, <2>1, <2>2 DEF ProfileSeen
<1>2. CASE page.step = "idle"
  BY <1>2 DEF ProfileSeen, YearSteps
<1>3. CASE page.step \notin Done /\ changes' # 0
  <2>1. page.step # "profile_done"
    BY <1>3 DEF Done
  <2>2. \A A : ActivityRead(A) => ActivityRead(A)'
    BY <1>3 DEF ActivityRead, ActivityOf, Undisturbed
  <2>. QED
    BY <1>0, <2>1, <2>2 DEF ProfileSeen
<1>. QED
  BY <1>1, <1>2, <1>3

\* The statement that reads the activity, of either profile.
LEMMA ReadsActivity ==
  ASSUME TablesOK, ContinuesAt, NEW u, NEW now \in Nows, NEW step, NEW before,
         LET form == Year(u, now)
             all == CountByDate(form.user, form.from, form.to)
         IN \E some \in SUBSET DOMAIN all :
              Reach(step, form, Append(before, Restrict(all, some)),
                    Missing("activity", DOMAIN all, some))
  PROVE  ProfileForm' /\ \E A : page'.got = Append(before, A) /\ ActivityRead(A)'
<1>1. PICK form, all : /\ form = Year(u, now)
                       /\ all = CountByDate(form.user, form.from, form.to)
  OBVIOUS
<1>2. PICK some \in SUBSET DOMAIN all :
        Reach(step, form, Append(before, Restrict(all, some)),
              Missing("activity", DOMAIN all, some))
  BY <1>1
<1>3. PICK A : A = Restrict(all, some)
  OBVIOUS
<1>4. /\ page'.form = form /\ page'.got = Append(before, A)
      /\ Lost' = Missing("activity", DOMAIN all, some)
  BY <1>2, <1>3, Reaches
<1>5. PICK lost : lost = Lost'
  OBVIOUS
<1>6. "activity" \notin lost => some = DOMAIN all
  BY <1>4, <1>5, ReadsAre, MissingIs
<1>7. ActivityOf(A, form, lost)
  BY <1>1, <1>3, <1>6, ActivityIs
<1>8. UNCHANGED <<zone, duties, parts, changes>>
  BY DEF ContinuesAt, tables
<1>9. ActivityRead(A)'
  BY <1>4, <1>5, <1>7, <1>8
     DEF ActivityRead, ActivityOf, ReadOn, CountedIn, DutiesOf, Undisturbed
<1>10. ProfileForm'
  BY <1>1, <1>4 DEF ProfileForm
<1>. QED
  BY <1>4, <1>9, <1>10

\* As StepFree, for the profile.
LEMMA StepProfile ==
  ASSUME BaseInv, ProfileSeen, [Next]_vars
  PROVE  ProfileSeen'
<1>0. TablesOK
  BY DEF BaseInv
<1>1. CASE UNCHANGED vars
  BY <1>1, ProfileKept DEF vars
<1>2. CASE page' = page /\ page.step \notin Done /\ (page.step = "idle" \/ changes' # 0)
  BY <1>2, ProfileKept
<1>3. CASE page' = Idle
  BY <1>3 DEF Idle, ProfileSeen, YearSteps
<1>4. CASE Begin /\ BeginsAt
  <2>1. page'.step \notin YearSteps
    BY <1>4, Begins DEF YearSteps
  <2>. QED
    BY <2>1 DEF ProfileSeen, YearSteps
<1>5. CASE Continue /\ ContinuesAt
  <2>0. UNCHANGED <<zone, users, duties, parts, changes>> /\ Lost \subseteq Lost'
    BY <1>5 DEF ContinuesAt, tables
  <2>1. ASSUME page'.form = page.form
        PROVE  /\ ProfileForm => ProfileForm'
               /\ \A A : ActivityRead(A) => ActivityRead(A)'
    <3>1. ProfileForm => ProfileForm'
      BY <2>1 DEF ProfileForm
    <3>2. \A A, days : ReadOn(A, page.form, days)' = ReadOn(A, page.form, days)
      BY <2>0, <2>1 DEF ReadOn, CountedIn, DutiesOf
    <3>3. ASSUME NEW A, ActivityRead(A) PROVE ActivityRead(A)'
      <4>1. /\ \A d \in Int : At(A, d) \in Nat
            /\ Undisturbed =>
                 \E days : ReadOn(A, page.form, days) /\ ("activity" \notin Lost => days = Int)
        BY <3>3 DEF ActivityRead, ActivityOf
      <4>2. Undisturbed' =>
              \E days : ReadOn(A, page.form, days)' /\ ("activity" \notin Lost' => days = Int)
        BY <2>0, <3>2, <4>1 DEF Undisturbed
      <4>. QED
        BY <4>1, <4>2 DEF ActivityRead, ActivityOf
    <3>. QED
      BY <3>1, <3>3
  <2>2. \A x, y : Append(<<>>, x) = <<x>> /\ Append(<<y>>, x) = <<y, x>>
    BY Appends
  <2>3. CASE /\ page'.step = "profile_occs"
             /\ \E now \in Nows : ProfileActivity(now)
    <3>1. PICK now \in Nows : ProfileActivity(now)
      BY <2>3
    <3>2. PICK u, P : u = Form.user /\ P = Got[1]
      OBVIOUS
    <3>3. LET form == Year(u, now)
              all == CountByDate(form.user, form.from, form.to)
          IN \E some \in SUBSET DOMAIN all :
               Reach("profile_occs", form, Append(<<P>>, Restrict(all, some)),
                     Missing("activity", DOMAIN all, some))
      BY <2>2, <3>1, <3>2 DEF ProfileActivity
    <3>4. ProfileForm' /\ \E A : page'.got = Append(<<P>>, A) /\ ActivityRead(A)'
      BY <1>0, <1>5, <3>3, ReadsActivity
    <3>. QED
      BY <2>2, <2>3, <3>4 DEF ProfileSeen
  <2>4. CASE /\ page'.step = "public_ooo"
             /\ \E now \in Nows : PublicActivity(now)
    <3>1. PICK now \in Nows : PublicActivity(now)
      BY <2>4
    <3>2. PICK u, none : u = Form.user /\ none = <<>>
      OBVIOUS
    <3>3. LET form == Year(u, now)
              all == CountByDate(form.user, form.from, form.to)
          IN \E some \in SUBSET DOMAIN all :
               Reach("public_ooo", form, Append(none, Restrict(all, some)),
                     Missing("activity", DOMAIN all, some))
      BY <2>2, <3>1, <3>2 DEF PublicActivity
    <3>4. ProfileForm' /\ \E A : page'.got = Append(none, A) /\ ActivityRead(A)'
      BY <1>0, <1>5, <3>3, ReadsActivity
    <3>. QED
      BY <2>2, <2>4, <3>2, <3>4 DEF ProfileSeen
  <2>5. CASE page'.step = "profile_occs" /\ PublicOOO
    <3>0. PICK all : all = PeriodsOf(Form.user)
      OBVIOUS
    <3>5. page.step = "public_ooo" /\ Form = page.form /\ Got = page.got
      BY <2>5 DEF PublicOOO, AtStep, Form, Got
    <3>6. PICK P \in SUBSET all :
            Reach("profile_occs", Form, <<P, Got[1]>>, Missing("periods", all, P))
      BY <2>5, <3>0 DEF PublicOOO
    <3>1. page'.form = page.form /\ page'.got = <<P, page.got[1]>>
      BY <3>5, <3>6, Reaches
    <3>2. ProfileForm /\ \E B : page.got = <<B>> /\ ActivityRead(B)
      BY <3>5 DEF ProfileSeen, YearSteps
    <3>3. \E B : page'.got = <<P, B>> /\ ActivityRead(B)
      BY <3>1, <3>2
    <3>. QED
      BY <2>1, <2>5, <3>1, <3>2, <3>3 DEF ProfileSeen
  <2>6. CASE page'.step = "profile_counts" /\ ProfileOccs
    <3>0. PICK all : all = FindAllByUser(Form.user)
      OBVIOUS
    <3>5. page.step = "profile_occs" /\ Form = page.form /\ Got = page.got
      BY <2>6 DEF ProfileOccs, AtStep, Form, Got
    <3>6. PICK ids \in SUBSET DOMAIN all :
            Reach("profile_counts", Form, Append(Got, Restrict(all, ids)),
                  Missing("occs", DOMAIN all, ids))
      BY <2>6, <3>0 DEF ProfileOccs
    <3>7. PICK rows : rows = Restrict(all, ids)
      OBVIOUS
    <3>1. page'.form = page.form /\ page'.got = Append(page.got, rows)
      BY <3>5, <3>6, <3>7, Reaches
    <3>2. ProfileForm /\ \E P, B : page.got = <<P, B>> /\ ActivityRead(B)
      BY <3>5 DEF ProfileSeen, YearSteps
    <3>3. \E P, B : page'.got = <<P, B, rows>> /\ ActivityRead(B)
      BY <3>1, <3>2, Appends
    <3>. QED
      BY <2>1, <2>6, <3>1, <3>2, <3>3 DEF ProfileSeen
  <2>7. CASE /\ page'.step = "profile_done"
             /\ \E sorted \in Nows, shown \in Nows : ProfileCounts(sorted, shown)
    <3>0. PICK sorted \in Nows, shown \in Nows : ProfileCounts(sorted, shown)
      BY <2>7
    <3>5. page.step = "profile_counts" /\ Form = page.form /\ Got = page.got
      BY <3>0 DEF ProfileCounts, AtStep, Form, Got
    <3>6. PICK heatmap, stats, absent, listed :
            /\ heatmap = Heatmap(Got[2], Got[1], Form.from, Form.to)
            /\ stats = Stats(Got[2], Form.from, Form.to)
            /\ absent = (\E p \in Got[1] : Covers(p, Day(shown)))
            /\ listed = Listed(Got[3], sorted)
      OBVIOUS
    <3>7. \E ids, lines :
            Reach("profile_done", Form, <<heatmap, stats, absent, listed, lines>>,
                  Missing("counts", DOMAIN Counts, ids))
      BY <3>0, <3>6 DEF ProfileCounts
    <3>1. page'.form = page.form /\ page'.got[1] = heatmap /\ page'.got[2] = stats
      BY <3>5, <3>7, Reaches
    <3>2. ProfileForm /\ \E P, B, rows : page.got = <<P, B, rows>> /\ ActivityRead(B)
      BY <3>5 DEF ProfileSeen, YearSteps
    <3>3. PICK P, B : page.got[1] = P /\ page.got[2] = B /\ ActivityRead(B)
      BY <3>2
    <3>. QED
      BY <2>1, <2>7, <3>1, <3>2, <3>3, <3>5, <3>6 DEF ProfileSeen
  <2>8. CASE page'.step \notin YearSteps
    BY <2>8 DEF ProfileSeen, YearSteps
  <2>. QED
    BY <1>5, <2>3, <2>4, <2>5, <2>6, <2>7, <2>8, Continues DEF YearSteps
<1>. QED
  BY <1>1, <1>2, <1>3, <1>4, <1>5, Moves

\* The range of a profile is the year that ends today.
LEMMA ProfileIs ==
  ASSUME ProfileForm
  PROVE  /\ page.form.from \in Int /\ page.form.to \in Int
         /\ page.form.from < page.form.to /\ Monday(page.form.from) <= page.form.from
         /\ Monday(page.form.from) \in Int
<1>1. PICK u : \E now \in Nows : page.form = Year(u, now)
  BY DEF ProfileForm
<1>2. PICK now \in Nows : page.form.to = Day(now) /\ page.form.from = Day(now) - YearDays
  BY <1>1 DEF Year
<1>3. Day(now) \in Nat /\ YearDays \in Nat /\ YearDays > 1
  BY QueriesAre, YearHasDays
<1>4. page.form.from \in Int /\ page.form.to \in Int /\ page.form.from < page.form.to
  BY <1>2, <1>3
<1>5. page.form.from % WeekLength \in 0 .. WeekLength - 1 /\ WeekLength \in Nat \ {0}
  BY <1>4, Lengths, DivMod
<1>. QED
  BY <1>4, <1>5 DEF Monday

\* The cells of the days of the year.
LEMMA HeatmapIs ==
  ASSUME NEW A, NEW P, NEW from \in Int, NEW to \in Int, Monday(from) \in Int,
         Monday(from) <= from
  PROVE  LET cells == Heatmap(A, P, from, to)
         IN \A d \in from .. to : d \in DOMAIN cells /\ cells[d].count = At(A, d)
<1>1. from .. to \subseteq Monday(from) .. to
  OBVIOUS
<1>. QED
  BY <1>1 DEF Heatmap

\* A duty is counted on its day or the day before.
LEMMA DayOrBefore ==
  ASSUME TablesOK, NEW o \in DOMAIN duties
  PROVE  /\ UTCDay(duties[o].date, zone) \in Int
         /\ UTCDay(duties[o].date, zone) \in
              {Day(duties[o].date), Day(duties[o].date) - 1}
         /\ zone = 0 => UTCDay(duties[o].date, zone) = Day(duties[o].date)
<1>1. PICK ahead \in 0 .. DayLength - 1 : ahead = zone
  BY PagesAssumption DEF TablesOK
<1>2. PICK date \in Int : date = duties[o].date
  BY DutiesAre
<1>3. UTCDay(date, ahead) = IF date % DayLength < ahead THEN Day(date) - 1 ELSE Day(date)
  BY UTCDayIs
<1>4. Day(date) \in Int /\ date % DayLength \in 0 .. DayLength - 1 /\ DayLength \in Nat \ {0}
  BY DayIs, Lengths
<1>5. ahead = 0 => UTCDay(date, ahead) = Day(date)
  BY <1>3, <1>4
<1>6. UTCDay(date, ahead) \in Int /\ UTCDay(date, ahead) \in {Day(date), Day(date) - 1}
  BY <1>3, <1>4
<1>. QED
  BY <1>1, <1>2, <1>5, <1>6

\* Counting a set within two others.
LEMMA AtMostBoth ==
  ASSUME NEW S, NEW T, IsFiniteSet(S), IsFiniteSet(T), NEW U \in SUBSET (S \cup T)
  PROVE  Cardinality(U) <= Cardinality(S) + Cardinality(T)
<1>1. /\ IsFiniteSet(S \cup T)
      /\ Cardinality(S \cup T) = Cardinality(S) + Cardinality(T) - Cardinality(S \cap T)
  BY FS_Union
<1>2. IsFiniteSet(S \cap T) /\ Cardinality(S \cap T) \in Nat
  BY FS_Intersection, FS_CardinalityType
<1>3. IsFiniteSet(U) /\ Cardinality(U) <= Cardinality(S \cup T)
  BY <1>1, FS_Subset
<1>4. /\ Cardinality(S) \in Nat /\ Cardinality(T) \in Nat
      /\ Cardinality(S \cup T) \in Nat /\ Cardinality(U) \in Nat
  BY <1>1, <1>3, FS_CardinalityType
<1>. QED
  BY <1>1, <1>2, <1>3, <1>4

\* What is counted on a day and what is on it.
DutyOn(d) == {o \in DutiesOf(page.form.user) : Day(duties[o].date) = d}
\* A duty is counted on its day or on the one before, as UTC has it.
LEMMA CountsNearby ==
  ASSUME TablesOK, ProfileForm
  PROVE  LET from == page.form.from
             to == page.form.to
         IN /\ \A d \in Int : IsFiniteSet(DutyOn(d)) /\ IsFiniteSet(CountedOn(d))
            /\ \A d \in from + 1 .. to - 1 : DutyOn(d) \subseteq CountedOn(d - 1) \cup CountedOn(d)
            /\ \A d \in from .. to - 1 : CountedOn(d) \subseteq DutyOn(d) \cup DutyOn(d + 1)
            /\ zone = 0 => \A d \in from .. to - 1 : CountedOn(d) = DutyOn(d)
<1>. DEFINE from == page.form.from
            to == page.form.to
            day(o) == Day(duties[o].date)
            utc(o) == UTCDay(duties[o].date, zone)
            mine == DutiesOf(page.form.user)
<1>1. from \in Int /\ to \in Int /\ from < to
  BY ProfileIs
<1>2. IsFiniteSet(mine) /\ mine \subseteq DOMAIN duties
  BY DutiesAre
<1>3. \A o \in mine : /\ day(o) \in Int /\ utc(o) \in Int /\ utc(o) \in {day(o), day(o) - 1}
                      /\ zone = 0 => utc(o) = day(o)
  BY <1>2, DutiesAre, DayOrBefore
<1>4. \A d : CountedOn(d) = {o \in mine : from <= day(o) /\ day(o) < to /\ utc(o) = d}
  BY DEF CountedOn, CountedIn, InRange
<1>5. \A d : DutyOn(d) = {o \in mine : day(o) = d}
  BY DEF DutyOn
<1>6. \A d : DutyOn(d) \subseteq mine /\ CountedOn(d) \subseteq mine
  BY <1>4, <1>5
<1>. HIDE DEF mine, day, utc, from, to
<1>7. \A d \in Int : IsFiniteSet(DutyOn(d)) /\ IsFiniteSet(CountedOn(d))
  BY <1>2, <1>6, FS_Subset
<1>8. \A d \in from + 1 .. to - 1 : DutyOn(d) \subseteq CountedOn(d - 1) \cup CountedOn(d)
  BY <1>1, <1>3, <1>4, <1>5
<1>9. \A d \in from .. to - 1 : CountedOn(d) \subseteq DutyOn(d) \cup DutyOn(d + 1)
  BY <1>1, <1>3, <1>4, <1>5
<1>10. zone = 0 => \A d \in from .. to - 1 : CountedOn(d) = DutyOn(d)
  BY <1>1, <1>3, <1>4, <1>5
<1>. QED
  BY <1>7, <1>8, <1>9, <1>10 DEF from, to

\* The total of the statistics, and the duties of the year.
LEMMA TotalIs ==
  ASSUME TablesOK, ProfileForm, NEW A, NEW days, ReadOn(A, page.form, days)
  PROVE  SumFunction(Daily(A, page.form.from, page.form.to)) <=
           SumFunction([d \in page.form.from .. page.form.to |-> Cardinality(DutyOn(d))])
<1>. DEFINE from == page.form.from
            to == page.form.to
            mine == DutiesOf(page.form.user)
            O == {o \in mine : /\ InRange(duties[o].date, from, to)
                               /\ UTCDay(duties[o].date, zone) \in days}
            utc == [o \in mine |-> UTCDay(duties[o].date, zone)]
            day == [o \in mine |-> Day(duties[o].date)]
            f == Daily(A, from, to)
            g == [d \in from .. to |-> Cardinality(DutyOn(d))]
            S == from .. to
<1>1. from \in Int /\ to \in Int /\ from < to
  BY ProfileIs
<1>2. IsFiniteSet(mine) /\ O \subseteq mine
  BY DutiesAre
<1>3. IsFiniteSet(O)
  BY <1>2, FS_Subset
<1>4. IsFiniteSet(S)
  BY <1>1, FS_Interval
<1>5. ASSUME NEW d \in S
      PROVE  f[d] = Cardinality({o \in O : utc[o] = d})
  <2>1. f[d] = At(A, d) /\ d \in Int
    BY <1>1 DEF Daily
  <2>2. {o \in O : utc[o] = d} = IF d \in days THEN CountedOn(d) ELSE {}
    BY DEF CountedOn, CountedIn
  <2>3. At(A, d) = IF d \in days THEN Cardinality(CountedOn(d)) ELSE 0
    BY <2>1 DEF ReadOn, CountedOn
  <2>. QED
    BY <2>1, <2>2, <2>3, FS_EmptySet
<1>6. ASSUME NEW d \in S
      PROVE  g[d] = Cardinality({o \in mine : day[o] = d})
  <2>1. {o \in mine : day[o] = d} = DutyOn(d)
    BY DEF DutyOn
  <2>. QED
    BY <2>1
<1>7. DOMAIN f = S /\ DOMAIN g = S
  BY DEF Daily
<1>8. {o \in O : utc[o] \in S} \subseteq {o \in mine : day[o] \in S}
  <2>1. \A o \in mine : day[o] = Day(duties[o].date) /\ day[o] \in Int
    BY DutiesAre
  <2>2. \A o \in O : from <= day[o] /\ day[o] < to
    BY <2>1 DEF InRange
  <2>. QED
    BY <1>1, <1>2, <2>1, <2>2
<1>. HIDE DEF mine, O, utc, day, f, g, S
<1>9. SumFunctionOnSet(f, S) = Cardinality({o \in O : utc[o] \in S})
  <2>1. \A d \in S : f[d] = Cardinality(HaveKey(O, utc, d))
    BY <1>5 DEF HaveKey
  <2>2. SumFunctionOnSet(f, S) = Cardinality(HaveKeyIn(O, utc, S))
    BY <1>3, <1>4, <2>1, SumOfCounts
  <2>. QED
    BY <2>2 DEF HaveKeyIn
<1>10. SumFunctionOnSet(g, S) = Cardinality({o \in mine : day[o] \in S})
  <2>1. \A d \in S : g[d] = Cardinality(HaveKey(mine, day, d))
    BY <1>6 DEF HaveKey
  <2>2. SumFunctionOnSet(g, S) = Cardinality(HaveKeyIn(mine, day, S))
    BY <1>2, <1>4, <2>1, SumOfCounts
  <2>. QED
    BY <2>2 DEF HaveKeyIn
<1>11. IsFiniteSet({o \in mine : day[o] \in S})
  <2>1. {o \in mine : day[o] \in S} \subseteq mine
    OBVIOUS
  <2>. QED
    BY <1>2, <2>1, FS_Subset
<1>12. SumFunctionOnSet(f, S) <= SumFunctionOnSet(g, S)
  BY <1>8, <1>9, <1>10, <1>11, FS_Subset
<1>13. SumFunction(f) = SumFunctionOnSet(f, S) /\ SumFunction(g) = SumFunctionOnSet(g, S)
  BY <1>7 DEF SumFunction
<1>. QED
  BY <1>12, <1>13 DEF f, g

\* The heat map shows the activity up to those hours.
LEMMA SeenIsNear ==
  ASSUME BaseInv, ProfileSeen
  PROVE  ActivityNearItsDay
<1>. SUFFICES ASSUME page.step = "profile_done", Undisturbed
              PROVE  ActivityNearItsDay
  BY DEF ActivityNearItsDay, AtStep
<1>. DEFINE from == page.form.from
            to == page.form.to
            complete == "activity" \notin Lost
<1>0. TablesOK /\ ProfileForm
  BY DEF BaseInv, ProfileSeen, YearSteps
<1>1. PICK P, A : /\ page.got[1] = Heatmap(A, P, from, to)
                  /\ page.got[2] = Stats(A, from, to)
                  /\ ActivityRead(A)
  BY DEF ProfileSeen
<1>2. PICK days : ReadOn(A, page.form, days) /\ (complete => days = Int)
  BY <1>1 DEF ActivityRead, ActivityOf
<1>3. from \in Int /\ to \in Int /\ from < to /\ Monday(from) <= from /\ Monday(from) \in Int
  BY <1>0, ProfileIs
<1>4. /\ \A d \in Int : IsFiniteSet(DutyOn(d)) /\ IsFiniteSet(CountedOn(d))
      /\ \A d \in from + 1 .. to - 1 : DutyOn(d) \subseteq CountedOn(d - 1) \cup CountedOn(d)
      /\ \A d \in from .. to - 1 : CountedOn(d) \subseteq DutyOn(d) \cup DutyOn(d + 1)
      /\ zone = 0 => \A d \in from .. to - 1 : CountedOn(d) = DutyOn(d)
  BY <1>0, CountsNearby
<1>5. page.got[2].total <= SumFunction([d \in from .. to |-> Cardinality(DutyOn(d))])
  <2>1. page.got[2].total = SumFunction(Daily(A, from, to))
    BY <1>1 DEF Stats
  <2>. QED
    BY <1>0, <1>2, <2>1, TotalIs
<1>6. PICK cells : cells = page.got[1]
  OBVIOUS
<1>. HIDE DEF from, to, complete
<1>7. \A d \in from .. to : d \in DOMAIN cells /\ cells[d].count = At(A, d)
  BY <1>1, <1>3, <1>6, HeatmapIs
<1>. DEFINE shown(d) == IF d \in DOMAIN cells THEN cells[d].count ELSE 0
<1>8. ASSUME NEW d \in from .. to
      PROVE  /\ shown(d) \in Nat /\ Cardinality(CountedOn(d)) \in Nat
             /\ shown(d) <= Cardinality(CountedOn(d))
             /\ complete => shown(d) = Cardinality(CountedOn(d))
  <2>1. d \in Int
    BY <1>3
  <2>2. shown(d) = At(A, d)
    BY <1>7
  <2>3. At(A, d) = IF d \in days THEN Cardinality(CountedOn(d)) ELSE 0
    BY <1>2, <2>1 DEF ReadOn, CountedOn
  <2>4. Cardinality(CountedOn(d)) \in Nat
    BY <1>4, <2>1, FS_CardinalityType
  <2>. QED
    BY <1>2, <2>1, <2>2, <2>3, <2>4
<1>. HIDE DEF shown
<1>9. ASSUME NEW d \in from + 1 .. to - 1, complete
      PROVE  shown(d - 1) + shown(d) >= Cardinality(DutyOn(d))
  <2>1. d \in Int /\ d - 1 \in Int /\ d \in from .. to /\ d - 1 \in from .. to
    BY <1>3
  <2>2. Cardinality(DutyOn(d)) <= Cardinality(CountedOn(d - 1)) + Cardinality(CountedOn(d))
    BY <1>4, <2>1, AtMostBoth
  <2>3. /\ Cardinality(DutyOn(d)) \in Nat /\ Cardinality(CountedOn(d - 1)) \in Nat
        /\ Cardinality(CountedOn(d)) \in Nat
    BY <1>4, <2>1, FS_CardinalityType
  <2>. QED
    BY <1>8, <1>9, <2>1, <2>2, <2>3
<1>10. ASSUME NEW d \in from .. to - 1
       PROVE  /\ shown(d) <= Cardinality(DutyOn(d)) + Cardinality(DutyOn(d + 1))
              /\ zone = 0 => shown(d) <= Cardinality(DutyOn(d))
              /\ zone = 0 /\ complete => shown(d) >= Cardinality(DutyOn(d))
  <2>1. d \in Int /\ d + 1 \in Int /\ d \in from .. to
    BY <1>3
  <2>2. Cardinality(CountedOn(d)) <= Cardinality(DutyOn(d)) + Cardinality(DutyOn(d + 1))
    BY <1>4, <2>1, AtMostBoth
  <2>3. zone = 0 => CountedOn(d) = DutyOn(d)
    BY <1>4
  <2>4. Cardinality(DutyOn(d)) \in Nat /\ Cardinality(DutyOn(d + 1)) \in Nat
    BY <1>4, <2>1, FS_CardinalityType
  <2>. QED
    BY <1>8, <2>1, <2>2, <2>3, <2>4
<1>12. \A d : DutyOn(d) = {o \in DutiesOf(page.form.user) : Day(duties[o].date) = d}
  BY DEF DutyOn
<1>14. page.got[2].total <=
         SumFunction([d \in from .. to |->
           Cardinality({o \in DutiesOf(page.form.user) : Day(duties[o].date) = d})])
  BY <1>5 DEF DutyOn
<1>15. complete => \A d \in from + 1 .. to - 1 : shown(d - 1) + shown(d) >=
         Cardinality({o \in DutiesOf(page.form.user) : Day(duties[o].date) = d})
  BY <1>9, <1>12
<1>16. \A d \in from .. to - 1 : shown(d) <=
         Cardinality({o \in DutiesOf(page.form.user) : Day(duties[o].date) = d})
         + Cardinality({o \in DutiesOf(page.form.user) : Day(duties[o].date) = d + 1})
  BY <1>10, <1>12
<1>17. zone = 0 => \A d \in from .. to - 1 : shown(d) <=
         Cardinality({o \in DutiesOf(page.form.user) : Day(duties[o].date) = d})
  BY <1>10, <1>12
<1>18. complete /\ zone = 0 => \A d \in from .. to - 1 : shown(d) >=
         Cardinality({o \in DutiesOf(page.form.user) : Day(duties[o].date) = d})
  BY <1>10, <1>12
<1>. QED
  BY <1>6, <1>14, <1>15, <1>16, <1>17, <1>18
     DEF ActivityNearItsDay, Form, Got, from, to, shown, complete

\* The streaks over the months of the cells are those over the activity.
LEMMA SeenIsRun ==
  ASSUME ProfileSeen
  PROVE  StreaksAreRuns
<1>. SUFFICES ASSUME page.step = "profile_done"
              PROVE  StreaksAreRuns
  BY DEF StreaksAreRuns, AtStep
<1>0. ProfileForm
  BY DEF ProfileSeen, YearSteps
<1>1. PICK P, A : /\ page.got[1] = Heatmap(A, P, page.form.from, page.form.to)
                  /\ page.got[2] = Stats(A, page.form.from, page.form.to)
                  /\ ActivityRead(A)
  BY DEF ProfileSeen
<1>2. PICK from \in Int, to \in Int :
        from = page.form.from /\ to = page.form.to /\ from < to
        /\ Monday(from) <= from /\ Monday(from) \in Int
  BY <1>0, ProfileIs
<1>3. PICK cells, stats : cells = page.got[1] /\ stats = page.got[2]
  OBVIOUS
<1>4. \A d \in from .. to : d \in DOMAIN cells /\ cells[d].count = At(A, d)
  BY <1>1, <1>2, <1>3, HeatmapIs
<1>5. \A d \in from .. to : At(A, d) \in Nat
  BY <1>1, <1>2 DEF ActivityRead, ActivityOf
<1>. DEFINE first == MonthOf(from)
            last == MonthOf(to)
            S == {m \in Int : InMonth(A, from, to, m) > 0}
            streak == Streaks(A, from, to)
            active(m) == \E d \in from .. to : MonthOf(d) = m /\ cells[d].count > 0
            run(m, k) == k <= m - first + 1 /\ \A i \in m - k + 1 .. m : active(i)
            longest(m) == Max({k \in 0 .. last - first + 1 : run(m, k)})
<1>6. first \in Int /\ last \in Int /\ first <= last
  BY <1>2, MonthOfIs, MonthOfOrder
<1>7. ASSUME NEW m \in Int
      PROVE  m \in S <=> active(m)
  <2>1. InMonth(A, from, to, m) > 0 <=>
          \E d \in from .. to : MonthOf(d) = m /\ At(A, d) > 0
    BY <1>5, InMonthIs
  <2>. QED
    BY <1>4, <2>1
<1>8. IsStreak(streak, first, last, S)
  BY <1>2, StreaksAre
<1>9. stats.current = streak[last] /\ stats.longest = Max({streak[m] : m \in DOMAIN streak})
  BY <1>1, <1>2, <1>3 DEF Stats
<1>. HIDE DEF S, streak, first, last, active
<1>10. ASSUME NEW m \in Int
       PROVE  longest(m) = LongestRun(first, last, S, m)
  <2>1. ASSUME NEW k \in 0 .. last - first + 1
        PROVE  run(m, k) <=> Run(first, S, m, k)
    <3>1. \A i \in m - k + 1 .. m : i \in Int
      BY <1>6
    <3>. QED
      BY <1>7, <3>1 DEF Run
  <2>2. {k \in 0 .. last - first + 1 : run(m, k)} =
          {k \in 0 .. last - first + 1 : Run(first, S, m, k)}
    BY <2>1
  <2>. QED
    BY <2>2 DEF LongestRun
<1>11. stats.current = longest(last)
  <2>1. last \in first - 1 .. last
    BY <1>6
  <2>2. streak[last] = LongestRun(first, last, S, last)
    BY <1>6, <1>8, <2>1, StreakIsRun
  <2>. QED
    BY <1>6, <1>9, <1>10, <2>2
<1>12. stats.longest = Max({longest(m) : m \in first .. last})
  <2>1. Max({streak[m] : m \in DOMAIN streak}) =
          Max({LongestRun(first, last, S, m) : m \in first .. last})
    BY <1>6, <1>8, LongestStreak
  <2>. HIDE DEF longest
  <2>2. {longest(m) : m \in first .. last} =
          {LongestRun(first, last, S, m) : m \in first .. last}
    BY <1>6, <1>10
  <2>. QED
    BY <1>9, <2>1, <2>2
<1>. QED
  BY <1>2, <1>3, <1>11, <1>12
     DEF StreaksAreRuns, Form, Got, first, last, active

\* The heat map shows a duty of the last year on its day or, where local time
\* is ahead, the day before, and on no other; it shows all of them that are
\* before today if the read has not failed; its total is not above their
\* number; and the streaks are what the months with and without shown duties
\* make them (CountByUserGroupedByDate, computeProfileStats).
THEOREM ProfileIsTrue == Spec => []ProfileTrue
<1>1. Init => ProfileSeen
  BY DEF Init, ProfileSeen, YearSteps, Idle
<1>2. BaseInv /\ ProfileSeen /\ [Next]_vars => ProfileSeen'
  BY StepProfile
<1>3. BaseInv /\ ProfileSeen => ProfileTrue
  BY SeenIsNear, SeenIsRun DEF ProfileTrue
<1>. QED
  BY <1>1, <1>2, <1>3, BaseHolds, PTL DEF Spec

=============================================================================
