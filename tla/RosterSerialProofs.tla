------------------------- MODULE RosterSerialProofs -------------------------
(***************************************************************************)
(* What the checks of the services achieve when requests do not overlap    *)
(* and no read fails unnoticed: a roster served one request at a time.     *)
(***************************************************************************)
EXTENDS RosterProofs

\* One request at a time, and the errors UpdateOccurrence ignores absent.
OneAtATime == \A r, s \in Requests : r = s
Serially == OneAtATime /\ ~UncheckedErrors

\* What the statements before have established for the next one.
JoinReady(r) ==
  /\ pc[r] \in JoinSteps =>
       local[r].occ \in DOMAIN occs /\ occs[local[r].occ] = local[r].row
  /\ pc[r] \in {"signup_count", "signup_insert", "assign_insert"} =>
       ~OutOn(local[r].user, Day(local[r].row.date))
  /\ pc[r] = "signup_insert" =>
       local[r].row.over \/ Count(local[r].occ) < local[r].row.max

AbsenceReady(r) ==
  /\ pc[r] \in AbsenceSteps =>
       ~DutyInRange(local[r].user, local[r].from, local[r].to)
  /\ pc[r] = "ooo_save" =>
       ~OverlapsPeriod(local[r].user, local[r].from, local[r].to)

EditReady(r) ==
  /\ pc[r] = "upd_ooo" => local[r].seen = ParticipantsOf(local[r].occ)
  /\ pc[r] = "upd_save" /\ local[r].occ \in DOMAIN occs =>
       \/ occs[local[r].occ].date = local[r].row.date
       \/ \A u \in ParticipantsOf(local[r].occ) :
            ~OutOn(u, Day(local[r].row.date))

Ready(r) == JoinReady(r) /\ AbsenceReady(r) /\ EditReady(r)

SerialInv == /\ TypeOK /\ NoDanglingRows
             /\ \A r \in Requests : Ready(r)
             /\ NoDutyInsideAbsence /\ PeriodsDisjoint

-----------------------------------------------------------------------------
(* What the next statement of the request relies on.                       *)

\* Queries give the same answers while the tables stay the same.
LEMMA SameAnswers ==
  ASSUME UNCHANGED tables
  PROVE  /\ \A u, day : OutOn(u, day)' = OutOn(u, day)
         /\ \A u, from, to :
              DutyInRange(u, from, to)' = DutyInRange(u, from, to)
         /\ \A u, from, to :
              OverlapsPeriod(u, from, to)' = OverlapsPeriod(u, from, to)
         /\ \A o : ParticipantsOf(o)' = ParticipantsOf(o)
         /\ \A o : Count(o)' = Count(o)
BY DEF tables, OutOn, DutyInRange, OverlapsPeriod, ParticipantsOf, Count, Day

\* A request that has nothing in progress relies on nothing.
LEMMA IdleReady ==
  ASSUME NEW r \in Requests, pc'[r] = "idle"
  PROVE  Ready(r)'
BY DEF Ready, JoinReady, AbsenceReady, EditReady, JoinSteps, AbsenceSteps

\* The first statement establishes what the second relies on,
LEMMA StartReady ==
  ASSUME SerialInv, NEW r \in Requests, Start(r)
  PROVE  Ready(r)'
<1>. USE DEF SerialInv, TypeOK, RequestsOK
<1>1. ASSUME NEW u \in Users, NEW o \in OccIds, SignUp(r, u, o)
      PROVE  Ready(r)'
  BY <1>1 DEF SignUp, Goto, Ready, JoinReady, AbsenceReady, EditReady, tables,
     JoinSteps, AbsenceSteps
<1>2. ASSUME NEW u \in Users, NEW from \in Days, NEW to \in Days,
             AddOOO(r, u, from, to)
      PROVE  Ready(r)'
  <2>1. ~DutyInRange(u, from, to)'
    BY <1>2, SameAnswers DEF AddOOO
  <2>2. pc'[r] = "ooo_overlap" /\ local'[r].user = u
        /\ local'[r].from = from /\ local'[r].to = to
    BY <1>2 DEF AddOOO, Goto
  <2>. QED
    BY <2>1, <2>2 DEF Ready, JoinReady, AbsenceReady, EditReady, JoinSteps
<1>3. ASSUME pc'[r] \in {"idle", "remove_delete", "assign_find", "ooo_delete",
                         "upd_find", "user_delete"}
      PROVE  Ready(r)'
  BY <1>3 DEF Ready, JoinReady, AbsenceReady, EditReady, JoinSteps, AbsenceSteps
<1>. QED
  BY <1>1, <1>2, <1>3 DEF Start, Withdraw, Assign, RemoveParticipant,
     RemoveOOO, RemoveOOOAdmin, Create, Update, Delete, DeleteUser, Goto,
     request, Begins

\* and each later one what the statement after it relies on.
LEMMA ContinueReady ==
  ASSUME SerialInv, Serially, NEW r \in Requests, Continue(r)
  PROVE  Ready(r)'
<1>. USE DEF SerialInv, TypeOK, RequestsOK
<1>1. CASE pc'[r] = "idle"
  BY <1>1, IdleReady
<1>2. CASE SignUpCheckOOO(r) \/ SignUpCount(r) \/ AssignCheckOOO(r)
  <2>1. UNCHANGED tables
    BY <1>2 DEF SignUpCheckOOO, SignUpCount, AssignCheckOOO
  <2>2. CASE ~(pc'[r] = "idle")
    <3>1. /\ pc[r] \in JoinSteps /\ pc'[r] \in JoinSteps /\ local' = local
          /\ pc'[r] \in {"signup_count", "signup_insert", "assign_insert"}
      BY <1>2, <2>2 DEF SignUpCheckOOO, SignUpCount, AssignCheckOOO, At,
         Advance, Finish, Goto, JoinSteps
    <3>2. ~OutOn(local[r].user, Day(local[r].row.date))
      BY <1>2, <2>2 DEF SignUpCheckOOO, SignUpCount, AssignCheckOOO, At,
         Finish, Goto, Ready, JoinReady
    <3>3. pc'[r] = "signup_insert" =>
            local[r].row.over \/ Count(local[r].occ) < local[r].row.max
      <4>1. CASE SignUpCheckOOO(r)
        BY <4>1, <2>2 DEF SignUpCheckOOO, Advance, Finish, Goto
      <4>2. CASE SignUpCount(r)
        <5>1. ~(Count(local[r].occ) >= local[r].row.max)
          BY <4>2, <2>2 DEF SignUpCount, Finish, Goto
        <5>2. Count(local[r].occ) \in Int /\ local[r].row.max \in Int
          <6>1. Count(local[r].occ) \in Nat
            <7>1. ParticipantsOf(local[r].occ) \in SUBSET Users
              BY DEF ParticipantsOf
            <7>. QED
              BY <7>1, FS_Subset, FS_CardinalityType, RosterAssumption
                 DEF Count
          <6>2. local[r].row.max \in Limits
            BY <3>1, LocalTypes DEF Joining, Occurrence
          <6>3. \A limit \in Limits : limit \in Int
            BY RosterAssumption
          <6>. QED
            BY <6>1, <6>2, <6>3
        <5>. QED
          BY <5>1, <5>2
      <4>3. CASE AssignCheckOOO(r)
        BY <4>3, <2>2 DEF AssignCheckOOO, Advance, Finish, Goto
      <4>. QED
        BY <1>2, <4>1, <4>2, <4>3
    <3>4. /\ local[r].occ \in DOMAIN occs
          /\ occs[local[r].occ] = local[r].row
      BY <3>1 DEF Ready, JoinReady
    <3>5. JoinReady(r)'
      BY <2>1, <3>1, <3>2, <3>3, <3>4, SameAnswers DEF JoinReady, tables, Day
    <3>6. AbsenceReady(r)' /\ EditReady(r)'
      BY <3>1 DEF AbsenceReady, EditReady, AbsenceSteps
    <3>. QED
      BY <3>5, <3>6 DEF Ready
  <2>. QED
    BY <1>1, <2>2
<1>3. CASE AssignFind(r)
  <2>1. CASE local[r].occ \in DOMAIN occs
    BY <1>3, <2>1 DEF AssignFind, Goto, Ready, JoinReady, AbsenceReady,
       EditReady, JoinSteps, AbsenceSteps, tables
  <2>. QED
    BY <1>1, <1>3, <2>1 DEF AssignFind, Finish, Goto
<1>4. CASE AddOOOCheckOverlap(r)
  <2>1. CASE OverlapsPeriod(local[r].user, local[r].from, local[r].to)
    BY <1>1, <1>4, <2>1 DEF AddOOOCheckOverlap, Finish, Goto
  <2>2. CASE ~OverlapsPeriod(local[r].user, local[r].from, local[r].to)
    <3>1. /\ pc[r] \in AbsenceSteps /\ pc'[r] = "ooo_save" /\ local' = local
          /\ UNCHANGED tables
      BY <1>4, <2>2 DEF AddOOOCheckOverlap, At, Advance, AbsenceSteps
    <3>2. ~DutyInRange(local[r].user, local[r].from, local[r].to)
      BY <3>1 DEF Ready, AbsenceReady
    <3>3. AbsenceReady(r)'
      BY <2>2, <3>1, <3>2, SameAnswers DEF AbsenceReady
    <3>. QED
      BY <3>1, <3>3 DEF Ready, JoinReady, EditReady, JoinSteps
  <2>. QED
    BY <2>1, <2>2
<1>5. CASE UpdateFind(r)
  BY <1>5 DEF UpdateFind, Advance, At, Ready, JoinReady, AbsenceReady,
     EditReady, JoinSteps, AbsenceSteps, tables
<1>6. CASE UpdateReadParticipants(r)
  BY <1>6, SameAnswers DEF UpdateReadParticipants, Goto, Ready, JoinReady,
     AbsenceReady, EditReady, JoinSteps, AbsenceSteps
<1>7. CASE UpdateCheckOOO(r)
  <2>1. CASE local[r].seen \cap AbsentOn(Day(local[r].row.date)) # {}
    BY <1>1, <1>7, <2>1 DEF UpdateCheckOOO, Finish, Goto
  <2>2. CASE local[r].seen \cap AbsentOn(Day(local[r].row.date)) = {}
    <3>0. ParticipantsOf(local[r].occ) \subseteq Users
      BY DEF ParticipantsOf
    <3>1. local[r].seen = ParticipantsOf(local[r].occ)
      BY <1>7 DEF UpdateCheckOOO, At, Ready, EditReady
    <3>2. /\ pc'[r] = "upd_save" /\ local'[r].occ = local[r].occ
          /\ local'[r].row = local[r].row /\ UNCHANGED tables
      BY <1>7, <2>2 DEF UpdateCheckOOO, Goto
    <3>3. EditReady(r)'
      <4>1. \A u \in ParticipantsOf(local[r].occ) :
              ~OutOn(u, Day(local[r].row.date))
        BY <2>2, <3>0, <3>1 DEF AbsentOn
      <4>. QED
        BY <3>2, <4>1, SameAnswers DEF EditReady, Day
    <3>. QED
      BY <3>2, <3>3 DEF Ready, JoinReady, AbsenceReady, JoinSteps, AbsenceSteps
  <2>. QED
    BY <2>1, <2>2
<1>8. ~UpdateFindFails(r) /\ ~UpdateReadFails(r)
  BY DEF UpdateFindFails, UpdateReadFails, Serially
<1>. QED
  BY <1>1, <1>2, <1>3, <1>4, <1>5, <1>6, <1>7, <1>8 DEF Continue,
     SignUpInsert, SignUpRefused, AssignInsert, AssignRefused, CountAndInsert,
     InsertRefused, DeleteParticipation, AddOOOSave, AddOOORefused,
     RemoveOOODelete, UpdateSave, DeleteUserRow, Finish, Goto

\* With one request at a time, that request's next statement is all that
\* relies on anything.
LEMMA NextReady ==
  ASSUME SerialInv, Serially, [Next]_vars
  PROVE  \A r \in Requests : Ready(r)'
<1>1. CASE UNCHANGED vars
  <2>1. UNCHANGED tables /\ pc' = pc /\ local' = local
    BY <1>1 DEF vars, tables
  <2>. QED
    BY <2>1, SameAnswers DEF SerialInv, Ready, JoinReady, AbsenceReady,
       EditReady, tables, Day
<1>2. ASSUME NEW r \in Requests, Start(r) \/ Continue(r) \/ Fail(r)
      PROVE  \A s \in Requests : Ready(s)'
  <2>1. Ready(r)'
    <3>1. CASE Fail(r)
      BY <3>1, IdleReady DEF Fail, Finish, Goto, SerialInv, TypeOK, RequestsOK
    <3>. QED
      BY <1>2, <3>1, StartReady, ContinueReady
  <2>. QED
    BY <2>1 DEF Serially, OneAtATime
<1>. QED
  BY <1>1, <1>2 DEF Next

-----------------------------------------------------------------------------
(* Duties and absences.                                                    *)

\* No statement puts a duty inside a period or a period around a duty.
LEMMA NextNoDutyInside ==
  ASSUME SerialInv, [Next]_vars, TypeOK'
  PROVE  NoDutyInsideAbsence'
<1>. USE DEF SerialInv, TypeOK
<1>1. CASE UNCHANGED tables
  BY <1>1 DEF tables, NoDutyInsideAbsence
<1>2. ASSUME NEW r \in Requests, Writes(r) PROVE NoDutyInsideAbsence'
  <2>. SUFFICES ASSUME NEW k \in DOMAIN ooo', NEW o \in DOMAIN occs',
                       <<ooo'[k].user, o>> \in parts'
                PROVE  ~(/\ ooo'[k].from <= occs'[o].date[1]
                         /\ occs'[o].date[1] < ooo'[k].to)
    BY DEF NoDutyInsideAbsence
  <2>0. \A i \in DOMAIN ooo : ooo[i].from \in Int /\ ooo[i].to \in Int
    <3>1. \A i \in DOMAIN ooo : ooo[i].from \in Days /\ ooo[i].to \in Days
      BY DEF TablesOK, Period
    <3>2. Days \subseteq Int
      BY RosterAssumption
    <3>. QED
      BY <3>1, <3>2
  <2>1. CASE SignUpInsert(r) \/ AssignInsert(r)
    <3>1. /\ parts' = parts \cup {<<local[r].user, local[r].occ>>}
          /\ occs' = occs /\ ooo' = ooo
          /\ pc[r] \in {"signup_insert", "assign_insert"}
      BY <2>1 DEF SignUpInsert, AssignInsert, CountAndInsert, At
    <3>2. CASE <<ooo[k].user, o>> \in parts
      BY <3>1, <3>2 DEF NoDutyInsideAbsence
    <3>3. CASE ooo[k].user = local[r].user /\ o = local[r].occ
      <4>1. occs[o].date[1] = Day(local[r].row.date)
        BY <3>1, <3>3 DEF Ready, JoinReady, JoinSteps, Day
      <4>2. ~(ooo[k].from <= occs[o].date[1] /\ occs[o].date[1] <= ooo[k].to)
        BY <3>1, <3>3, <4>1 DEF Ready, JoinReady, OutOn
      <4>3. occs[o].date[1] \in Int
        BY <3>1, RosterAssumption DEF TablesOK, Occurrence, Dates
      <4>. QED
        BY <3>1, <4>2, <4>3, <2>0
    <3>. QED
      BY <3>1, <3>2, <3>3
  <2>2. CASE AddOOOSave(r)
    <3>1. /\ parts' = parts /\ occs' = occs
          /\ pc[r] = "ooo_save"
          /\ ooo' = Put(ooo, lastOoo + 1,
                        [user |-> local[r].user, from |-> local[r].from,
                         to |-> local[r].to])
      BY <2>2 DEF AddOOOSave, At
    <3>2. CASE k # lastOoo + 1
      BY <3>1, <3>2 DEF Put, NoDutyInsideAbsence
    <3>3. CASE k = lastOoo + 1
      BY <3>1, <3>3 DEF Put, Ready, AbsenceReady, AbsenceSteps, DutyInRange,
         Day
    <3>. QED
      BY <3>2, <3>3
  <2>3. CASE UpdateSave(r)
    <3>1. /\ parts' = parts /\ ooo' = ooo
          /\ pc[r] = "upd_save"
          /\ occs' = IF local[r].occ \in DOMAIN occs
                     THEN Put(occs, local[r].occ, local[r].row) ELSE occs
      BY <2>3 DEF UpdateSave, At
    <3>2. CASE occs'[o].date = occs[o].date /\ o \in DOMAIN occs
      BY <3>1, <3>2 DEF NoDutyInsideAbsence
    <3>3. CASE ~(occs'[o].date = occs[o].date /\ o \in DOMAIN occs)
      <4>1. o = local[r].occ /\ o \in DOMAIN occs
            /\ occs'[o] = local[r].row
        BY <3>1, <3>3 DEF Put
      <4>2. ooo[k].user \in ParticipantsOf(o)
        BY <3>1 DEF ParticipantsOf, TablesOK
      <4>3. ~OutOn(ooo[k].user, Day(local[r].row.date))
        BY <3>1, <3>3, <4>1, <4>2 DEF Ready, EditReady
      <4>4. occs'[o].date[1] \in Int
        BY RosterAssumption DEF TablesOK, Occurrence, Dates
      <4>. QED
        BY <3>1, <4>1, <4>3, <4>4, <2>0 DEF OutOn, Day
    <3>. QED
      BY <3>2, <3>3
  <2>4. ASSUME NEW row \in Occurrence, Create(r, row)
        PROVE  o \in DOMAIN occs /\ occs'[o] = occs[o]
               /\ parts' = parts /\ ooo' = ooo
    BY <2>4 DEF Create, Put, NoDanglingRows, TablesOK
  <2>5. CASE DeleteParticipation(r)
    BY <2>5 DEF DeleteParticipation, NoDutyInsideAbsence
  <2>6. CASE RemoveOOODelete(r) \/ \E i \in PeriodIds : RemoveOOOAdmin(r, i)
    BY <2>6 DEF RemoveOOODelete, RemoveOOOAdmin, Keep, NoDutyInsideAbsence
  <2>7. CASE DeleteUserRow(r)
    BY <2>7 DEF DeleteUserRow, Keep, NoDutyInsideAbsence
  <2>8. CASE \E i \in OccIds : Delete(r, i)
    BY <2>8 DEF Delete, Keep, NoDutyInsideAbsence
  <2>9. CASE \E row \in Occurrence : Create(r, row)
    BY <2>4, <2>9 DEF NoDutyInsideAbsence
  <2>. QED
    BY <1>2, <2>1, <2>2, <2>3, <2>5, <2>6, <2>7, <2>8, <2>9 DEF Writes
<1>. QED
  BY <1>1, <1>2, OnlyWriters

\* A new period shares no day with the user's other ones.
LEMMA NextPeriodsDisjoint ==
  ASSUME SerialInv, [Next]_vars
  PROVE  PeriodsDisjoint'
<1>. USE DEF SerialInv, TypeOK
<1>1. CASE UNCHANGED tables
  BY <1>1 DEF tables, PeriodsDisjoint
<1>2. ASSUME NEW r \in Requests, Writes(r) PROVE PeriodsDisjoint'
  <2>1. CASE AddOOOSave(r)
    <3>1. /\ pc[r] = "ooo_save"
          /\ ooo' = Put(ooo, lastOoo + 1,
                        [user |-> local[r].user, from |-> local[r].from,
                         to |-> local[r].to])
      BY <2>1 DEF AddOOOSave, At
    <3>2. \A k \in DOMAIN ooo :
            /\ k # lastOoo + 1
            /\ ooo[k].from \in Days /\ ooo[k].to \in Days
      BY DEF TablesOK, Period
    <3>3. local[r].from \in Days /\ local[r].to \in Days
      BY <3>1, LocalTypes DEF AbsenceSteps, Absence
    <3>4. \A k \in DOMAIN ooo : ooo[k].user = local[r].user =>
            local[r].to < ooo[k].from \/ ooo[k].to < local[r].from
      <4>1. Days \subseteq Int
        BY RosterAssumption
      <4>2. ~OverlapsPeriod(local[r].user, local[r].from, local[r].to)
        BY <3>1 DEF Ready, AbsenceReady
      <4>. QED
        BY <3>2, <3>3, <4>1, <4>2 DEF OverlapsPeriod
    <3>. QED
      BY <3>1, <3>2, <3>4 DEF Put, PeriodsDisjoint
  <2>2. CASE RemoveOOODelete(r) \/ DeleteUserRow(r)
             \/ \E i \in PeriodIds : RemoveOOOAdmin(r, i)
    <3>1. PICK ids \in SUBSET DOMAIN ooo : ooo' = Keep(ooo, ids)
      <4>1. CASE RemoveOOODelete(r)
        BY <4>1 DEF RemoveOOODelete
      <4>2. CASE DeleteUserRow(r)
        BY <4>2 DEF DeleteUserRow
      <4>3. CASE \E i \in PeriodIds : RemoveOOOAdmin(r, i)
        BY <4>3 DEF RemoveOOOAdmin
      <4>. QED
        BY <2>2, <4>1, <4>2, <4>3
    <3>. QED
      BY <3>1 DEF Keep, PeriodsDisjoint
  <2>3. CASE ooo' = ooo
    BY <2>3 DEF PeriodsDisjoint
  <2>. QED
    BY <1>2, <2>1, <2>2, <2>3 DEF Writes, SignUpInsert, AssignInsert,
       CountAndInsert, DeleteParticipation, UpdateSave, Create, Delete
<1>. QED
  BY <1>1, <1>2, OnlyWriters

-----------------------------------------------------------------------------
(* The theorems.                                                           *)

\* Served one at a time, the roster keeps the invariant.
LEMMA SerialInvariant == Serially => (Spec => []SerialInv)
<1>. SUFFICES ASSUME Serially PROVE Spec => []SerialInv
  OBVIOUS
<1>1. Init => SerialInv
  <2>. SUFFICES ASSUME Init PROVE SerialInv
    OBVIOUS
  <2>1. \A r \in Requests : Ready(r)
    BY DEF Init, Ready, JoinReady, AbsenceReady, EditReady, JoinSteps,
       AbsenceSteps
  <2>. QED
    BY <2>1, InitType DEF Init, SerialInv, NoDanglingRows,
       NoDutyInsideAbsence, PeriodsDisjoint
<1>2. SerialInv /\ [Next]_vars => SerialInv'
  <2>. SUFFICES ASSUME SerialInv, [Next]_vars PROVE SerialInv'
    OBVIOUS
  <2>1. TypeOK'
    BY NextType DEF SerialInv
  <2>. QED
    BY <2>1, NextNoDanglingRows, NextReady, NextNoDutyInside,
       NextPeriodsDisjoint DEF SerialInv
<1>. QED
  BY <1>1, <1>2, PTL DEF Spec

\* Served one at a time, requests never leave a user with a duty inside a
\* period (its last day excepted) or with two periods on one day.
THEOREM SerialAbsences ==
  ASSUME Serially
  PROVE  Spec => [](NoDutyInsideAbsence /\ PeriodsDisjoint)
<1>1. SerialInv => NoDutyInsideAbsence /\ PeriodsDisjoint
  BY DEF SerialInv
<1>. QED
  BY <1>1, SerialInvariant, PTL

\* Served one at a time, a sign-up is accepted only while a place is free.
THEOREM SerialSignUps ==
  ASSUME Serially
  PROVE  Spec => SignUpFindsPlace
<1>1. SerialInv /\ [Next]_vars => [AcceptsIntoPlace]_vars
  BY DEF AcceptsIntoPlace, SerialInv, Inserts, Ready, JoinReady, JoinSteps
<1>. QED
  BY <1>1, SerialInvariant, PTL DEF Spec, SignUpFindsPlace

\* Served one at a time, nobody is put on a duty on a day of a period.
THEOREM SerialJoining ==
  ASSUME Serially
  PROVE  Spec => JoiningAvoidsAbsence
<1>1. SerialInv /\ [Next]_vars => [JoinsWhilePresent]_vars
  BY DEF JoinsWhilePresent, SerialInv, Inserts, Covers, Ready, JoinReady,
     JoinSteps, OutOn, Day
<1>. QED
  BY <1>1, SerialInvariant, PTL DEF Spec, JoiningAvoidsAbsence

\* Served one at a time, and with no read failing unnoticed, an occurrence
\* moves to another day only when all its participants are there then.
THEOREM SerialMoves ==
  ASSUME Serially
  PROVE  Spec => MovingAvoidsAbsence
<1>1. SerialInv /\ [Next]_vars => [MovesWherePresent]_vars
  <2>. SUFFICES ASSUME SerialInv, [Next]_vars,
                       NEW o \in DOMAIN occs \cap DOMAIN occs',
                       occs'[o].date[1] # occs[o].date[1],
                       NEW k \in DOMAIN ooo, <<ooo[k].user, o>> \in parts
                PROVE  ~Covers(k, occs'[o].date[1])
    BY DEF MovesWherePresent
  <2>1. PICK r \in Requests : Writes(r)
    BY OnlyWriters DEF tables
  <2>2. UpdateSave(r)
    <3>1. ~ \E row \in Occurrence : Create(r, row)
      BY DEF Create, Put, SerialInv, TypeOK, TablesOK
    <3>2. ~ \E i \in OccIds : Delete(r, i)
      BY DEF Delete, Keep
    <3>. QED
      BY <2>1, <3>1, <3>2 DEF Writes, SignUpInsert, AssignInsert,
         CountAndInsert, DeleteParticipation, AddOOOSave, RemoveOOODelete,
         RemoveOOOAdmin, DeleteUserRow
  <2>3. o = local[r].occ /\ occs'[o] = local[r].row /\ pc[r] = "upd_save"
    BY <2>2 DEF UpdateSave, Put, At
  <2>4. ooo[k].user \in ParticipantsOf(o)
    BY DEF ParticipantsOf, SerialInv, TypeOK, TablesOK
  <2>. QED
    BY <2>3, <2>4 DEF SerialInv, Ready, EditReady, OutOn, Covers, Day
<1>. QED
  BY <1>1, SerialInvariant, PTL DEF Spec, MovingAvoidsAbsence

-----------------------------------------------------------------------------
(* Served one request at a time, the roster implements RosterSpec: every   *)
(* statement is a step of it or leaves what it speaks of unchanged.        *)

AssignSteps == {"assign_find", "assign_ooo", "assign_insert"}

\* What the start of a request has established beside Ready.
Begun(r) ==
  /\ pc[r] \in AbsenceSteps => local[r].from <= local[r].to
  /\ pc[r] = "user_delete" => users \ {local[r].user} # {}
  /\ pc[r] \in AssignSteps => "assign" \in Ops

\* No period ends before it begins: two periods of one user that share no
\* day are different records.
Ordered == \A k \in DOMAIN ooo : ooo[k].from <= ooo[k].to

PromiseInv == /\ SerialInv
              /\ \A r \in Requests : Begun(r)
              /\ Ordered

Absences == {ooo[k] : k \in DOMAIN ooo}

-----------------------------------------------------------------------------
(* The invariant.                                                          *)

LEMMA NextBegun ==
  ASSUME PromiseInv, Serially, [Next]_vars
  PROVE  \A r \in Requests : Begun(r)'
<1>. USE DEF PromiseInv, SerialInv, TypeOK, RequestsOK
<1>1. CASE UNCHANGED vars
  BY <1>1 DEF vars, Begun
<1>2. ASSUME NEW r \in Requests, Start(r) \/ Continue(r) \/ Fail(r)
      PROVE  Begun(r)'
  <2>1. CASE pc'[r] \notin AbsenceSteps \cup AssignSteps \cup {"user_delete"}
    BY <2>1 DEF Begun
  <2>2. CASE Start(r)
    <3>1. ASSUME NEW u \in Users, NEW from \in Days, NEW to \in Days,
                 AddOOO(r, u, from, to)
          PROVE  Begun(r)'
      <4>1. /\ pc'[r] = "ooo_overlap" /\ from <= to
            /\ local'[r].from = from /\ local'[r].to = to
        BY <3>1 DEF AddOOO, Goto
      <4>. QED
        BY <4>1 DEF Begun, AssignSteps
    <3>2. ASSUME NEW admin \in Users, NEW u \in Users,
                 DeleteUser(r, admin, u)
          PROVE  Begun(r)'
      BY <3>2 DEF DeleteUser, Goto, tables, Begun, AbsenceSteps, AssignSteps
    <3>3. ASSUME NEW u \in Users, NEW o \in OccIds, Assign(r, u, o)
          PROVE  Begun(r)'
      BY <3>3 DEF Assign, Begins, Goto, Begun, AbsenceSteps, AssignSteps
    <3>4. ASSUME pc'[r] \in {"idle", "signup_ooo", "remove_delete",
                             "ooo_delete", "upd_find"}
          PROVE  Begun(r)'
      BY <2>1, <3>4 DEF AbsenceSteps, AssignSteps
    <3>. QED
      BY <2>2, <3>1, <3>2, <3>3, <3>4 DEF Start, SignUp, Withdraw,
         RemoveParticipant, RemoveOOO, RemoveOOOAdmin, Create, Update, Delete,
         Goto, request, Begins
  <2>3. CASE AddOOOCheckOverlap(r)
    BY <2>3, <2>1 DEF AddOOOCheckOverlap, Advance, Finish, Goto, At, Begun,
       AbsenceSteps, AssignSteps
  <2>4. CASE AssignFind(r) \/ AssignCheckOOO(r)
    BY <2>4, <2>1 DEF AssignFind, AssignCheckOOO, Advance, Finish, Goto, At,
       Begun, AbsenceSteps, AssignSteps
  <2>5. CASE Continue(r) /\ ~AddOOOCheckOverlap(r)
             /\ ~AssignFind(r) /\ ~AssignCheckOOO(r)
    <3>1. pc'[r] \in {"idle", "signup_insert", "signup_count", "upd_parts",
                      "upd_save", "upd_ooo"}
      BY <2>5 DEF Continue, SignUpCheckOOO, SignUpCount, SignUpInsert,
         SignUpRefused, AssignInsert, AssignRefused, CountAndInsert,
         InsertRefused, DeleteParticipation, AddOOOSave, AddOOORefused,
         RemoveOOODelete, UpdateFind, UpdateFindFails, UpdateReadParticipants,
         UpdateReadFails, UpdateCheckOOO, UpdateSave, DeleteUserRow, Advance,
         Finish, Goto
    <3>. QED
      BY <2>1, <3>1 DEF AbsenceSteps, AssignSteps
  <2>6. CASE Fail(r)
    BY <2>1, <2>6 DEF Fail, Finish, Goto, AbsenceSteps, AssignSteps
  <2>. QED
    BY <1>2, <2>2, <2>3, <2>4, <2>5, <2>6
<1>. QED
  BY <1>1, <1>2 DEF Next, Serially, OneAtATime

LEMMA NextOrdered ==
  ASSUME PromiseInv, [Next]_vars
  PROVE  Ordered'
<1>. USE DEF PromiseInv
<1>1. CASE ooo' = ooo
  BY <1>1 DEF Ordered
<1>2. ASSUME NEW r \in Requests, Writes(r), ooo' # ooo PROVE Ordered'
  <2>1. CASE AddOOOSave(r)
    BY <2>1 DEF AddOOOSave, Put, At, Begun, AbsenceSteps, Ordered
  <2>2. CASE RemoveOOODelete(r)
    BY <2>2 DEF RemoveOOODelete, Keep, Ordered
  <2>3. CASE DeleteUserRow(r)
    BY <2>3 DEF DeleteUserRow, Keep, Ordered
  <2>4. CASE \E k \in PeriodIds : RemoveOOOAdmin(r, k)
    BY <2>4 DEF RemoveOOOAdmin, Keep, Ordered
  <2>. QED
    BY <1>2, <2>1, <2>2, <2>3, <2>4 DEF Writes, SignUpInsert, AssignInsert,
       CountAndInsert, DeleteParticipation, UpdateSave, Create, Delete
<1>. QED
  BY <1>1, <1>2, OnlyWriters DEF tables

LEMMA PromiseInvariant == Serially => (Spec => []PromiseInv)
<1>. SUFFICES ASSUME Serially PROVE Spec => []PromiseInv
  OBVIOUS
<1>1. Init => \A r \in Requests : Begun(r)
  BY DEF Init, Begun, AbsenceSteps, AssignSteps
<1>2. Init => Ordered
  BY DEF Init, Ordered
<1>3. PromiseInv /\ [Next]_vars => (\A r \in Requests : Begun(r))'
  BY NextBegun
<1>4. PromiseInv /\ [Next]_vars => Ordered'
  BY NextOrdered
<1>5. PromiseInv <=> SerialInv /\ (\A r \in Requests : Begun(r)) /\ Ordered
  BY DEF PromiseInv
<1>. QED
  BY <1>1, <1>2, <1>3, <1>4, <1>5, SerialInvariant, PTL DEF Spec

-----------------------------------------------------------------------------
(* The statements that write, one promise each.                            *)

\* To be out on no period is to be present.
LEMMA OutIsAbsent ==
  ASSUME NEW u, NEW day, ~OutOn(u, day)
  PROVE  Promise!Present(u, day)
BY DEF OutOn, Promise!Present, Promise!Covers

\* A duty is joined by somebody there, into a free place unless assigned.
LEMMA InsertKeepsPromise ==
  ASSUME PromiseInv, NEW r \in Requests, SignUpInsert(r) \/ AssignInsert(r)
  PROVE  Promise!Next
<1>0. PICK u, o : u = local[r].user /\ o = local[r].occ
  OBVIOUS
<1>1. CanInsert(u, o) /\ parts' = parts \cup {<<u, o>>}
      /\ pc[r] \in {"signup_insert", "assign_insert"}
      /\ users' = users /\ occs' = occs /\ lastOcc' = lastOcc /\ ooo' = ooo
  BY <1>0 DEF SignUpInsert, AssignInsert, CountAndInsert, At
<1>2. /\ o \in DOMAIN occs /\ occs[o] = local[r].row
      /\ ~OutOn(u, Day(occs[o].date))
      /\ pc[r] = "signup_insert" => occs[o].over \/ Count(o) < occs[o].max
      /\ pc[r] = "assign_insert" => "assign" \in Ops
  BY <1>0, <1>1 DEF PromiseInv, SerialInv, Ready, JoinReady, Begun, JoinSteps,
     AssignSteps
<1>3. Promise!Join(u, o)
  BY <1>1, <1>2, OutIsAbsent DEF Promise!Join, CanInsert, Day
<1>4. u \in Users
  BY <1>1 DEF CanInsert, PromiseInv, SerialInv, TypeOK, TablesOK
<1>5. Count(o) = Promise!Cardinality(Promise!OnDuty(o))
  BY DEF Count, ParticipantsOf, Promise!OnDuty, Promise!Cardinality,
     Cardinality
<1>6. CASE pc[r] = "signup_insert"
  <2>1. Promise!SignUp(u, o)
    BY <1>2, <1>3, <1>5, <1>6 DEF Promise!SignUp
  <2>. QED
    BY <1>2, <1>4, <2>1 DEF Promise!Next
<1>7. CASE pc[r] = "assign_insert"
  <2>1. Promise!Assign(u, o)
    BY <1>2, <1>3, <1>7 DEF Promise!Assign
  <2>. QED
    BY <1>2, <1>4, <2>1 DEF Promise!Next
<1>. QED
  BY <1>1, <1>6, <1>7

\* An absence is announced outside the duties and the other absences.
LEMMA SaveKeepsPromise ==
  ASSUME PromiseInv, NEW r \in Requests, AddOOOSave(r)
  PROVE  Promise!Next
<1>0. PICK u, from, to :
        u = local[r].user /\ from = local[r].from /\ to = local[r].to
  OBVIOUS
<1>. DEFINE period == [user |-> u, from |-> from, to |-> to]
<1>1. /\ u \in users /\ pc[r] = "ooo_save"
      /\ ooo' = Put(ooo, lastOoo + 1, period)
      /\ users' = users /\ occs' = occs /\ lastOcc' = lastOcc
      /\ parts' = parts
  BY <1>0 DEF AddOOOSave, At
<1>2. /\ from <= to
      /\ ~DutyInRange(u, from, to)
      /\ ~OverlapsPeriod(u, from, to)
  BY <1>0, <1>1 DEF PromiseInv, SerialInv, Ready, AbsenceReady, Begun,
     AbsenceSteps
<1>3. u \in Users /\ from \in Days /\ to \in Days
  BY <1>0, <1>1, LocalTypes DEF PromiseInv, SerialInv, TypeOK, AbsenceSteps,
     Absence
<1>4. lastOoo + 1 \notin DOMAIN ooo
  BY RosterAssumption DEF PromiseInv, SerialInv, TypeOK, TablesOK
<1>5. Absences' = Absences \cup {period}
  BY <1>1, <1>4 DEF Absences, Put
<1>6. \A k \in DOMAIN ooo : ooo[k].user = u =>
        to < ooo[k].from \/ ooo[k].to < from
  <2>1. \A k \in DOMAIN ooo : ooo[k].from \in Days /\ ooo[k].to \in Days
    BY DEF PromiseInv, SerialInv, TypeOK, TablesOK, Period
  <2>2. Days \subseteq Int
    BY RosterAssumption
  <2>. QED
    BY <1>2, <1>3, <2>1, <2>2 DEF OverlapsPeriod
<1>7. \A o \in DOMAIN occs : <<u, o>> \in parts =>
        ~(from <= occs[o].date[1] /\ occs[o].date[1] < to)
  BY <1>2 DEF DutyInRange, Day
<1>8. Promise!Announce(u, from, to)
  BY <1>1, <1>2, <1>5, <1>6, <1>7 DEF Promise!Announce, Absences
<1>. QED
  BY <1>3, <1>8 DEF Promise!Next

\* A deleted period takes one absence away, if it was there.
LEMMA DeletePeriodKeepsPromise ==
  ASSUME PromiseInv, NEW k, ooo' = Keep(ooo, DOMAIN ooo \ {k}),
         UNCHANGED <<users, occs, lastOcc, parts>>
  PROVE  Promise!Next \/ UNCHANGED Promise!promised
<1>1. CASE k \in DOMAIN ooo
  <2>1. \A j \in DOMAIN ooo : j # k => ooo[j] # ooo[k]
    <3>1. \A j \in DOMAIN ooo : ooo[j].from \in Int /\ ooo[j].to \in Int
      <4>1. \A j \in DOMAIN ooo : ooo[j].from \in Days /\ ooo[j].to \in Days
        BY DEF PromiseInv, SerialInv, TypeOK, TablesOK, Period
      <4>2. Days \subseteq Int
        BY RosterAssumption
      <4>. QED
        BY <4>1, <4>2
    <3>. QED
      BY <1>1, <3>1 DEF PromiseInv, SerialInv, PeriodsDisjoint, Ordered
  <2>2. PICK a \in Absences : a = ooo[k]
    BY <1>1 DEF Absences
  <2>3. Absences' = Absences \ {a}
    BY <1>1, <2>1, <2>2 DEF Absences, Keep
  <2>4. Promise!Return(a)
    BY <2>3 DEF Promise!Return, Absences
  <2>. QED
    BY <2>4 DEF Promise!Next, Absences
<1>2. CASE k \notin DOMAIN ooo
  <2>1. Absences' = Absences
    BY <1>2 DEF Absences, Keep
  <2>. QED
    BY <2>1 DEF Promise!promised, Absences
<1>. QED
  BY <1>1, <1>2

\* An edit moves a duty where everybody on it is present; a row that is gone
\* stays gone.
LEMMA UpdateKeepsPromise ==
  ASSUME PromiseInv, NEW r \in Requests, UpdateSave(r)
  PROVE  Promise!Next \/ UNCHANGED Promise!promised
<1>. DEFINE o == local[r].occ
            row == local[r].row
<1>1. /\ pc[r] = "upd_save"
      /\ occs' = IF o \in DOMAIN occs THEN Put(occs, o, row) ELSE occs
      /\ UNCHANGED <<users, lastOcc, parts, ooo>>
  BY DEF UpdateSave, At
<1>2. CASE o \in DOMAIN occs
  <2>1. occs' = [occs EXCEPT ![o] = row]
    <3>1. occs = [i \in DOMAIN occs |-> occs[i]]
      BY DEF PromiseInv, SerialInv, TypeOK, TablesOK
    <3>2. DOMAIN occs \cup {o} = DOMAIN occs
      BY <1>2
    <3>. QED
      BY <1>1, <1>2, <3>1, <3>2 DEF Put
  <2>2. occs[o].date # row.date =>
          \A u \in Promise!OnDuty(o) : Promise!Present(u, row.date[1])
    BY <1>1, <1>2, OutIsAbsent DEF PromiseInv, SerialInv, Ready, EditReady,
       Promise!OnDuty, ParticipantsOf, Day
  <2>3. row \in Occurrence
    BY <1>1, LocalTypes DEF PromiseInv, SerialInv, TypeOK, EditSteps, Edit
  <2>4. Promise!Edit(o, row)
    BY <1>1, <1>2, <2>1, <2>2 DEF Promise!Edit
  <2>. QED
    BY <1>2, <2>3, <2>4 DEF Promise!Next
<1>3. CASE o \notin DOMAIN occs
  BY <1>1, <1>3 DEF Promise!promised
<1>. QED
  BY <1>2, <1>3

\* An account is closed with everything of it, never the last one.
LEMMA DeleteUserKeepsPromise ==
  ASSUME PromiseInv, NEW r \in Requests, DeleteUserRow(r)
  PROVE  Promise!Next \/ UNCHANGED Promise!promised
<1>0. PICK u : u = local[r].user
  OBVIOUS
<1>1. /\ pc[r] = "user_delete" /\ users' = users \ {u}
      /\ parts' = {p \in parts : p[1] # u}
      /\ ooo' = Keep(ooo, {k \in DOMAIN ooo : ooo[k].user # u})
      /\ occs' = occs /\ lastOcc' = lastOcc
  BY <1>0 DEF DeleteUserRow, At
<1>2. Absences' = {a \in Absences : a.user # u}
  BY <1>1 DEF Absences, Keep
<1>3. CASE u \in users
  <2>1. users \ {u} # {}
    BY <1>0, <1>1 DEF PromiseInv, Begun
  <2>2. Promise!Close(u)
    BY <1>1, <1>2, <2>1 DEF Promise!Close, Absences
  <2>. QED
    BY <1>3, <2>2 DEF Promise!Next
<1>4. CASE u \notin users
  <2>1. users' = users
    BY <1>1, <1>4
  <2>2. parts' = parts
    <3>1. \A p \in parts : p[1] # u
      BY <1>4 DEF PromiseInv, SerialInv, NoDanglingRows
    <3>. QED
      BY <1>1, <3>1
  <2>3. Absences' = Absences
    <3>1. \A a \in Absences : a.user # u
      BY <1>4 DEF PromiseInv, SerialInv, NoDanglingRows, Absences
    <3>. QED
      BY <1>2, <3>1
  <2>. QED
    BY <1>1, <2>1, <2>2, <2>3 DEF Promise!promised, Absences
<1>. QED
  BY <1>3, <1>4

LEMMA StepKeepsPromise ==
  ASSUME PromiseInv, [Next]_vars
  PROVE  Promise!Next \/ UNCHANGED Promise!promised
<1>1. CASE UNCHANGED tables
  BY <1>1 DEF tables, Promise!promised
<1>2. ASSUME NEW r \in Requests, Writes(r)
      PROVE  Promise!Next \/ UNCHANGED Promise!promised
  <2>1. CASE SignUpInsert(r) \/ AssignInsert(r)
    BY <2>1, InsertKeepsPromise
  <2>2. CASE DeleteParticipation(r)
    <3>. DEFINE u == local[r].user
                o == local[r].occ
    <3>1. parts' = parts \ {<<u, o>>}
          /\ UNCHANGED <<users, occs, lastOcc, ooo>>
      BY <2>2 DEF DeleteParticipation
    <3>2. CASE <<u, o>> \in parts
      <4>1. Promise!Leave(u, o)
        BY <3>1 DEF Promise!Leave
      <4>. QED
        BY <3>2, <4>1 DEF Promise!Next
    <3>3. CASE <<u, o>> \notin parts
      BY <3>1, <3>3 DEF Promise!promised
    <3>. QED
      BY <3>2, <3>3
  <2>3. CASE AddOOOSave(r)
    BY <2>3, SaveKeepsPromise
  <2>4. CASE RemoveOOODelete(r)
    BY <2>4, DeletePeriodKeepsPromise DEF RemoveOOODelete
  <2>5. CASE \E k \in PeriodIds : RemoveOOOAdmin(r, k)
    BY <2>5, DeletePeriodKeepsPromise DEF RemoveOOOAdmin
  <2>6. CASE UpdateSave(r)
    BY <2>6, UpdateKeepsPromise
  <2>7. CASE DeleteUserRow(r)
    BY <2>7, DeleteUserKeepsPromise
  <2>8. ASSUME NEW row \in Occurrence, Create(r, row)
        PROVE  Promise!Next
    <3>1. Promise!Plan(row)
      BY <2>8 DEF Create, Put, Promise!Plan
    <3>. QED
      BY <3>1 DEF Promise!Next
  <2>9. ASSUME NEW o \in OccIds, Delete(r, o)
        PROVE  Promise!Next
    <3>1. o \in DOMAIN occs /\ occs' = [i \in DOMAIN occs \ {o} |-> occs[i]]
          /\ parts' = {p \in parts : p[2] # o}
          /\ UNCHANGED <<users, lastOcc, ooo>>
      <4>1. DOMAIN occs \cap (DOMAIN occs \ {o}) = DOMAIN occs \ {o}
        OBVIOUS
      <4>. QED
        BY <2>9, <4>1 DEF Delete, Keep
    <3>2. Promise!Cancel(o)
      BY <3>1 DEF Promise!Cancel
    <3>. QED
      BY <3>1, <3>2 DEF Promise!Next
  <2>. QED
    BY <1>2, <2>1, <2>2, <2>3, <2>4, <2>5, <2>6, <2>7, <2>8, <2>9 DEF Writes
<1>. QED
  BY <1>1, <1>2, OnlyWriters

-----------------------------------------------------------------------------
\* Served one at a time and with no read failing unnoticed, whatever accounts,
\* days and limits there are, each request acts on the roster as one step of
\* what RosterSpec promises, or not at all.
THEOREM SerialPromise ==
  ASSUME Serially
  PROVE  Spec => KeepsPromise
<1>1. Init => Promise!Init
  BY DEF Init, Promise!Init
<1>2. PromiseInv /\ [Next]_vars => [Promise!Next]_(Promise!promised)
  BY StepKeepsPromise
<1>. QED
  BY <1>1, <1>2, PromiseInvariant, PTL DEF Spec, KeepsPromise, Promise!Spec

=============================================================================
