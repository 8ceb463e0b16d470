------------------------------- MODULE Roster -------------------------------
(***************************************************************************)
(* The duty roster: the tables users, occurrences, participations and      *)
(* out_of_office, and the HTTP requests that read and write them.          *)
(*                                                                         *)
(* Every request is a goroutine of its own and every repository call is an *)
(* SQL statement of its own, so a service method interleaves with all the  *)
(* others between two of its calls.  A step of this module is one          *)
(* statement; pc[r] names the statement request r runs next, and local[r]  *)
(* is what it remembers of the earlier ones.  The first statement of a     *)
(* request is its start action: what the session middleware reads before   *)
(* it is used by no later statement.  A first statement that finds nothing *)
(* to do ends the request without a change, so the start action is only    *)
(* enabled when it goes on.                                                *)
(***************************************************************************)
EXTENDS Integers, FiniteSets

CONSTANTS
  Users,           \* ids of the accounts that exist at the start
  Requests,        \* the requests that can be in progress at the same time
  Days,            \* calendar days, as integers
  Times,           \* times of day an occurrence can be planned at
  Limits,          \* values the form can give max_participants
  MaxOccurrences,  \* bound: occurrences created in a behaviour
  MaxPeriods,      \* bound: out-of-office periods created in a behaviour
  Ops,             \* the operations the requests of a behaviour use
  UncheckedErrors  \* whether a read whose error is not looked at may fail

AllOps == {"signup", "withdraw", "assign", "remove", "create", "update",
           "delete", "addooo", "removeooo", "deleteuser"}

ASSUME RosterAssumption ==
  /\ IsFiniteSet(Users)
  /\ IsFiniteSet(Requests)
  /\ Days \subseteq Int
  /\ Limits \subseteq 1 .. 1000
  /\ MaxOccurrences \in Nat
  /\ MaxPeriods \in Nat
  /\ Ops \subseteq AllOps
  /\ UncheckedErrors \in BOOLEAN

OccIds == 1 .. MaxOccurrences
PeriodIds == 1 .. MaxPeriods

\* time.Time of an occurrence: the day and the time of day, see Day below.
Dates == Days \X Times

\* A row of the table occurrences, and of out_of_office.
Occurrence == [date : Dates, max : Limits, over : BOOLEAN]
Period == [user : Users, from : Days, to : Days]

VARIABLES
  users,    \* the ids in the table users
  occs,     \* the table occurrences: id -> row
  lastOcc,  \* its AUTOINCREMENT counter: an id is never given out twice
  parts,    \* the table participations: <<user, occurrence>>, UNIQUE
  ooo,      \* the table out_of_office: id -> row
  lastOoo,  \* its AUTOINCREMENT counter
  pc,       \* the statement each request is about to run
  local     \* what each request has read or been asked for

vars == <<users, occs, lastOcc, parts, ooo, lastOoo, pc, local>>
request == <<pc, local>>
tables == <<users, occs, lastOcc, parts, ooo, lastOoo>>

-----------------------------------------------------------------------------
(* The requests.  local[r] is a record whose fields depend on pc[r].        *)

Nothing == [none |-> TRUE]
Joining == [user : Users, occ : OccIds, row : Occurrence]
Membership == [user : Users, occ : OccIds]
Absence == [user : Users, from : Days, to : Days]
PeriodRef == [id : PeriodIds]
Edit == [occ : OccIds, row : Occurrence]
CheckedEdit == [occ : OccIds, row : Occurrence, seen : SUBSET Users]
Account == [user : Users]

JoinSteps == {"signup_ooo", "signup_count", "signup_insert",
              "assign_ooo", "assign_insert"}
MemberSteps == {"assign_find", "remove_delete"}
AbsenceSteps == {"ooo_overlap", "ooo_save"}
EditSteps == {"upd_find", "upd_parts", "upd_save"}

LocalValues == {Nothing} \cup Joining \cup Membership \cup Absence
               \cup PeriodRef \cup Edit \cup CheckedEdit \cup Account

\* What the request at a statement remembers.
Locals(step, value) ==
  /\ step = "idle" => value = Nothing
  /\ step \in JoinSteps => value \in Joining
  /\ step \in MemberSteps => value \in Membership
  /\ step \in AbsenceSteps => value \in Absence
  /\ step = "ooo_delete" => value \in PeriodRef
  /\ step \in EditSteps => value \in Edit
  /\ step = "upd_ooo" => value \in CheckedEdit
  /\ step = "user_delete" => value \in Account

Steps == {"idle", "ooo_delete", "upd_ooo", "user_delete"}
         \cup JoinSteps \cup MemberSteps \cup AbsenceSteps \cup EditSteps

\* The request goes on to its next statement, or it has answered.
Goto(r, step, value) ==
  /\ pc' = [pc EXCEPT ![r] = step]
  /\ local' = [local EXCEPT ![r] = value]
Advance(r, step) == pc' = [pc EXCEPT ![r] = step] /\ UNCHANGED local
Finish(r) == Goto(r, "idle", Nothing)

\* AuthRequired: somebody who has an account makes the request.
Begins(r, op) == op \in Ops /\ pc[r] = "idle" /\ users # {}
At(r, step) == pc[r] = step

-----------------------------------------------------------------------------
(* The queries.                                                            *)

\* toDate, and the day a DATETIME text starts with.
Day(date) == date[1]

ParticipantsOf(o) == {u \in Users : <<u, o>> \in parts}

\* CountByOccurrence.
Count(o) == Cardinality(ParticipantsOf(o))

\* getOOOOnDate: both ends of a period are inclusive, compared by day.
OutOn(u, day) ==
  \E k \in DOMAIN ooo : /\ ooo[k].user = u
                        /\ ooo[k].from <= day
                        /\ day <= ooo[k].to

\* FindAllForDate: who has a period on that day, both ends inclusive.
AbsentOn(day) == {u \in Users : OutOn(u, day)}

\* Mutant: the first day is not part of the range either.
DutyInRangeStartExcluded(u, from, to) ==
  \E o \in DOMAIN occs : /\ <<u, o>> \in parts
                         /\ from < Day(occs[o].date)
                         /\ Day(occs[o].date) < to

\* ExistsForUserInDateRange.  The column holds a day followed by a time of
\* day and is compared as text with a bare day: a text is greater than its
\* prefix, so a date on the first day is inside and one on the last is not.
DutyInRange(u, from, to) ==
  \E o \in DOMAIN occs : /\ <<u, o>> \in parts
                         /\ from <= Day(occs[o].date)
                         /\ Day(occs[o].date) < to

\* Mutant: periods may touch.
OverlapsPeriodInside(u, from, to) ==
  \E k \in DOMAIN ooo : /\ ooo[k].user = u
                        /\ from < ooo[k].to
                        /\ ooo[k].from < to

\* The loop of AddOutOfOffice over FindByUser: a shared day is an overlap.
OverlapsPeriod(u, from, to) ==
  \E k \in DOMAIN ooo : /\ ooo[k].user = u
                        /\ from <= ooo[k].to
                        /\ ooo[k].from <= to

\* A row is written under an id; ON DELETE CASCADE takes the rows that
\* refer to a deleted one.
Put(table, id, row) ==
  [k \in DOMAIN table \cup {id} |-> IF k = id THEN row ELSE table[k]]
Keep(table, ids) == [k \in DOMAIN table \cap ids |-> table[k]]

-----------------------------------------------------------------------------
(* CountAndInsert, the transaction SignUp and AssignParticipant share: it  *)
(* inserts whatever the count is, and the table refuses a second row for   *)
(* the same user and a row whose user or occurrence is gone.               *)

\* Mutant: the connection does not switch the foreign keys on.
CanInsertWithoutForeignKeys(u, o) == <<u, o>> \notin parts

CanInsert(u, o) == <<u, o>> \notin parts /\ u \in users /\ o \in DOMAIN occs

CountAndInsert(r) ==
  /\ CanInsert(local[r].user, local[r].occ)
  /\ parts' = parts \cup {<<local[r].user, local[r].occ>>}
  /\ Finish(r)
  /\ UNCHANGED <<users, occs, lastOcc, ooo, lastOoo>>

InsertRefused(r) ==
  /\ ~CanInsert(local[r].user, local[r].occ)
  /\ Finish(r)
  /\ UNCHANGED tables

-----------------------------------------------------------------------------
(* SignUp and Withdraw: a participant, for themselves.                     *)

SignUp(r, u, o) ==
  /\ Begins(r, "signup")
  /\ u \in users
  /\ o \in DOMAIN occs
  /\ Goto(r, "signup_ooo", [user |-> u, occ |-> o, row |-> occs[o]])
  /\ UNCHANGED tables

SignUpCheckOOO(r) ==
  /\ At(r, "signup_ooo")
  /\ IF OutOn(local[r].user, Day(local[r].row.date))
       THEN Finish(r)                             \* ErrUserOOO
       ELSE Advance(r, IF local[r].row.over THEN "signup_insert"
                                          ELSE "signup_count")
  /\ UNCHANGED tables

\* Mutant: full is one participant later.
SignUpCountOneMore(r) ==
  /\ At(r, "signup_count")
  /\ IF Count(local[r].occ) > local[r].row.max
       THEN Finish(r)
       ELSE Advance(r, "signup_insert")
  /\ UNCHANGED tables

SignUpCount(r) ==
  /\ At(r, "signup_count")
  /\ IF Count(local[r].occ) >= local[r].row.max
       THEN Finish(r)                             \* ErrOccurrenceFull
       ELSE Advance(r, "signup_insert")
  /\ UNCHANGED tables

SignUpInsert(r) == At(r, "signup_insert") /\ CountAndInsert(r)
SignUpRefused(r) == At(r, "signup_insert") /\ InsertRefused(r)

Withdraw(r, u, o) ==
  /\ Begins(r, "withdraw")
  /\ <<u, o>> \in parts
  /\ Goto(r, "remove_delete", [user |-> u, occ |-> o])
  /\ UNCHANGED tables

-----------------------------------------------------------------------------
(* AssignParticipant and RemoveParticipant: an organizer, for any user.    *)

Assign(r, u, o) ==
  /\ Begins(r, "assign")
  /\ u \in users
  /\ Goto(r, "assign_find", [user |-> u, occ |-> o])
  /\ UNCHANGED tables

\* Mutant: the row that was found is not kept.
AssignFindUnread(r) ==
  /\ At(r, "assign_find")
  /\ Advance(r, "assign_ooo")
  /\ UNCHANGED tables

AssignFind(r) ==
  /\ At(r, "assign_find")
  /\ IF local[r].occ \in DOMAIN occs
       THEN Goto(r, "assign_ooo", [user |-> local[r].user,
                     occ |-> local[r].occ, row |-> occs[local[r].occ]])
       ELSE Finish(r)                             \* ErrOccurrenceNotFound
  /\ UNCHANGED tables

AssignCheckOOO(r) ==
  /\ At(r, "assign_ooo")
  /\ IF OutOn(local[r].user, Day(local[r].row.date))
       THEN Finish(r)                             \* ErrUserOOO
       ELSE Advance(r, "assign_insert")
  /\ UNCHANGED tables

AssignInsert(r) == At(r, "assign_insert") /\ CountAndInsert(r)
AssignRefused(r) == At(r, "assign_insert") /\ InsertRefused(r)

RemoveParticipant(r, u, o) ==
  /\ Begins(r, "remove")
  /\ u \in users
  /\ Goto(r, "remove_delete", [user |-> u, occ |-> o])
  /\ UNCHANGED tables

\* DeleteByOccurrenceAndUser, the last statement of Withdraw too.
DeleteParticipation(r) ==
  /\ At(r, "remove_delete")
  /\ parts' = parts \ {<<local[r].user, local[r].occ>>}
  /\ Finish(r)
  /\ UNCHANGED <<users, occs, lastOcc, ooo, lastOoo>>

-----------------------------------------------------------------------------
(* AddOutOfOffice, RemoveOutOfOffice and RemoveOutOfOfficeAdmin.           *)

\* An administrator may add a period for any id; ErrOOOConflict ends it.
AddOOO(r, u, from, to) ==
  /\ Begins(r, "addooo")
  /\ from <= to
  /\ ~DutyInRange(u, from, to)
  /\ Goto(r, "ooo_overlap", [user |-> u, from |-> from, to |-> to])
  /\ UNCHANGED tables

AddOOOCheckOverlap(r) ==
  /\ At(r, "ooo_overlap")
  /\ IF OverlapsPeriod(local[r].user, local[r].from, local[r].to)
       THEN Finish(r)                             \* ErrOOOOverlap
       ELSE Advance(r, "ooo_save")
  /\ UNCHANGED tables

\* Mutant: the bounds reach the columns in the order of the form's fields.
AddOOOSaveSwapped(r) ==
  /\ At(r, "ooo_save")
  /\ lastOoo < MaxPeriods
  /\ local[r].user \in users
  /\ lastOoo' = lastOoo + 1
  /\ ooo' = Put(ooo, lastOoo + 1, [user |-> local[r].user,
                                   from |-> local[r].to, to |-> local[r].from])
  /\ Finish(r)
  /\ UNCHANGED <<users, occs, lastOcc, parts>>

AddOOOSave(r) ==
  /\ At(r, "ooo_save")
  /\ lastOoo < MaxPeriods
  /\ local[r].user \in users
  /\ lastOoo' = lastOoo + 1
  /\ ooo' = Put(ooo, lastOoo + 1, [user |-> local[r].user,
                                   from |-> local[r].from, to |-> local[r].to])
  /\ Finish(r)
  /\ UNCHANGED <<users, occs, lastOcc, parts>>

\* The user is gone and the foreign key refuses the row, or the bound on
\* periods is reached.
AddOOORefused(r) ==
  /\ At(r, "ooo_save")
  /\ local[r].user \notin users \/ lastOoo = MaxPeriods
  /\ Finish(r)
  /\ UNCHANGED tables

\* FindByID and the test of the owner; an administrator skips both.
RemoveOOO(r, u, k) ==
  /\ Begins(r, "removeooo")
  /\ u \in users
  /\ k \in DOMAIN ooo
  /\ ooo[k].user = u
  /\ Goto(r, "ooo_delete", [id |-> k])
  /\ UNCHANGED tables

RemoveOOODelete(r) ==
  /\ At(r, "ooo_delete")
  /\ ooo' = Keep(ooo, DOMAIN ooo \ {local[r].id})
  /\ Finish(r)
  /\ UNCHANGED <<users, occs, lastOcc, parts, lastOoo>>

RemoveOOOAdmin(r, k) ==
  /\ Begins(r, "removeooo")
  /\ k \in DOMAIN ooo
  /\ ooo' = Keep(ooo, DOMAIN ooo \ {k})
  /\ UNCHANGED <<users, occs, lastOcc, parts, lastOoo, request>>

-----------------------------------------------------------------------------
(* CreateOccurrence, UpdateOccurrence, DeleteOccurrence: an organizer.     *)

Create(r, row) ==
  /\ Begins(r, "create")
  /\ lastOcc < MaxOccurrences
  /\ lastOcc' = lastOcc + 1
  /\ occs' = Put(occs, lastOcc + 1, row)
  /\ UNCHANGED <<users, parts, ooo, lastOoo, request>>

\* The handler reads the row it is about to replace.
Update(r, o, row) ==
  /\ Begins(r, "update")
  /\ o \in DOMAIN occs
  /\ Goto(r, "upd_find", [occ |-> o, row |-> row])
  /\ UNCHANGED tables

\* The service reads it again.  A row that is gone, like a date that is the
\* same instant, skips the test of the participants.
UpdateFind(r) ==
  /\ At(r, "upd_find")
  /\ Advance(r, IF /\ local[r].occ \in DOMAIN occs
                   /\ occs[local[r].occ].date # local[r].row.date
                THEN "upd_parts" ELSE "upd_save")
  /\ UNCHANGED tables

\* So does an error of that read.
UpdateFindFails(r) ==
  /\ UncheckedErrors
  /\ At(r, "upd_find")
  /\ Advance(r, "upd_save")
  /\ UNCHANGED tables

UpdateReadParticipants(r) ==
  /\ At(r, "upd_parts")
  /\ Goto(r, "upd_ooo", [occ |-> local[r].occ, row |-> local[r].row,
              seen |-> ParticipantsOf(local[r].occ)])
  /\ UNCHANGED tables

\* The error of this read is dropped: nobody is checked.
UpdateReadFails(r) ==
  /\ UncheckedErrors
  /\ At(r, "upd_parts")
  /\ Goto(r, "upd_ooo", [occ |-> local[r].occ, row |-> local[r].row,
              seen |-> {}])
  /\ UNCHANGED tables

UpdateCheckOOO(r) ==
  /\ At(r, "upd_ooo")
  /\ IF local[r].seen \cap AbsentOn(Day(local[r].row.date)) # {}
       THEN Finish(r)                             \* "cannot change date"
       ELSE Goto(r, "upd_save", [occ |-> local[r].occ,
                     row |-> local[r].row])
  /\ UNCHANGED tables

\* Mutant: an upsert.
UpdateSaveOrInsert(r) ==
  /\ At(r, "upd_save")
  /\ occs' = Put(occs, local[r].occ, local[r].row)
  /\ Finish(r)
  /\ UNCHANGED <<users, lastOcc, parts, ooo, lastOoo>>

\* UPDATE ... WHERE id: nothing is written when the row is gone.
UpdateSave(r) ==
  /\ At(r, "upd_save")
  /\ occs' = IF local[r].occ \in DOMAIN occs
             THEN Put(occs, local[r].occ, local[r].row) ELSE occs
  /\ Finish(r)
  /\ UNCHANGED <<users, lastOcc, parts, ooo, lastOoo>>

Delete(r, o) ==
  /\ Begins(r, "delete")
  /\ o \in DOMAIN occs
  /\ occs' = Keep(occs, DOMAIN occs \ {o})
  /\ parts' = {p \in parts : p[2] # o}
  /\ UNCHANGED <<users, lastOcc, ooo, lastOoo, request>>

-----------------------------------------------------------------------------
(* DeleteUser: an administrator, never for their own account.              *)

DeleteUser(r, admin, u) ==
  /\ Begins(r, "deleteuser")
  /\ admin \in users
  /\ u \in users \ {admin}
  /\ Goto(r, "user_delete", [user |-> u])
  /\ UNCHANGED tables

DeleteUserRow(r) ==
  /\ At(r, "user_delete")
  /\ users' = users \ {local[r].user}
  /\ parts' = {p \in parts : p[1] # local[r].user}
  /\ ooo' = Keep(ooo, {k \in DOMAIN ooo : ooo[k].user # local[r].user})
  /\ Finish(r)
  /\ UNCHANGED <<occs, lastOcc, lastOoo>>

-----------------------------------------------------------------------------
\* A statement fails, the browser goes away and the context is cancelled, or
\* the process dies: what was committed stays and the rest is not done.
Fail(r) ==
  /\ pc[r] # "idle"
  /\ Finish(r)
  /\ UNCHANGED tables

Start(r) ==
  \/ \E u \in Users, o \in OccIds :
       \/ SignUp(r, u, o)
       \/ Withdraw(r, u, o)
       \/ Assign(r, u, o)
       \/ RemoveParticipant(r, u, o)
  \/ \E u \in Users, from, to \in Days : AddOOO(r, u, from, to)
  \/ \E u \in Users, k \in PeriodIds : RemoveOOO(r, u, k)
  \/ \E k \in PeriodIds : RemoveOOOAdmin(r, k)
  \/ \E row \in Occurrence : Create(r, row)
  \/ \E o \in OccIds, row \in Occurrence : Update(r, o, row)
  \/ \E o \in OccIds : Delete(r, o)
  \/ \E admin, u \in Users : DeleteUser(r, admin, u)

Continue(r) ==
  \/ SignUpCheckOOO(r)
  \/ SignUpCount(r)
  \/ SignUpInsert(r)
  \/ SignUpRefused(r)
  \/ AssignFind(r)
  \/ AssignCheckOOO(r)
  \/ AssignInsert(r)
  \/ AssignRefused(r)
  \/ DeleteParticipation(r)
  \/ AddOOOCheckOverlap(r)
  \/ AddOOOSave(r)
  \/ AddOOORefused(r)
  \/ RemoveOOODelete(r)
  \/ UpdateFind(r)
  \/ UpdateFindFails(r)
  \/ UpdateReadParticipants(r)
  \/ UpdateReadFails(r)
  \/ UpdateCheckOOO(r)
  \/ UpdateSave(r)
  \/ DeleteUserRow(r)

\* The administrator has made the accounts, and nothing is planned yet.
Init ==
  /\ users = Users
  /\ occs = [o \in {} |-> o]
  /\ lastOcc = 0
  /\ parts = {}
  /\ ooo = [k \in {} |-> k]
  /\ lastOoo = 0
  /\ pc = [r \in Requests |-> "idle"]
  /\ local = [r \in Requests |-> Nothing]

Next == \E r \in Requests : Start(r) \/ Continue(r) \/ Fail(r)

Spec == Init /\ [][Next]_vars

-----------------------------------------------------------------------------
(* Properties.                                                             *)

TablesOK ==
  /\ users \subseteq Users
  /\ lastOcc \in 0 .. MaxOccurrences
  /\ DOMAIN occs \subseteq 1 .. lastOcc
  /\ occs \in [DOMAIN occs -> Occurrence]
  /\ parts \subseteq Users \X OccIds
  /\ lastOoo \in 0 .. MaxPeriods
  /\ DOMAIN ooo \subseteq 1 .. lastOoo
  /\ ooo \in [DOMAIN ooo -> Period]

RequestsOK ==
  /\ pc \in [Requests -> Steps]
  /\ local \in [Requests -> LocalValues]
  /\ \A r \in Requests : Locals(pc[r], local[r])

\* The tables hold rows of their types under ids their counters have given
\* out, and every request remembers what its next statement needs.
TypeOK == TablesOK /\ RequestsOK

\* However sign-ups, deletions of occurrences and deletions of accounts
\* interleave, no participation or out-of-office period is left behind
\* without its user and its occurrence: the last statement of a request that
\* checked them long ago is refused when they are gone.
NoDanglingRows ==
  /\ parts \subseteq users \X DOMAIN occs
  /\ \A k \in DOMAIN ooo : ooo[k].user \in users

\* What was deleted stays deleted: a request that read a row before another
\* one deleted it (an edit form saved late, a sign-up) never brings an
\* occurrence, an account or a period back, and ids are not given out twice.
NothingResurrected ==
  [][ /\ users' \subseteq users
      /\ DOMAIN occs' \cap 1 .. lastOcc \subseteq DOMAIN occs
      /\ DOMAIN ooo' \cap 1 .. lastOoo \subseteq DOMAIN ooo ]_vars

\* The count SignUp looks at is taken in one statement and the insertion is
\* another, so concurrent sign-ups can pass the same test; but each request
\* in progress can add one participant too many, no more.  (Without Assign,
\* which may exceed the limit on purpose, and Update, which may lower it.)
OvershootBounded ==
  \A o \in DOMAIN occs :
    ~occs[o].over => Count(o) <= occs[o].max + Cardinality(Requests) - 1

\* The sign-ups that have seen a free place and have not taken it yet.
Admitted(o) ==
  {r \in Requests : pc[r] = "signup_insert" /\ local[r].occ = o}

\* Why it holds: participants and admitted sign-ups together stay within it.
\* A sign-up is admitted while at most max - 1 places are taken.
AdmittedBounded ==
  \A o \in DOMAIN occs :
    ~occs[o].over => Count(o) + Cardinality(Admitted(o))
                       <= occs[o].max + Cardinality(Requests) - 1

Inserts(r, steps) ==
  pc[r] \in steps /\ pc'[r] = "idle" /\ parts' # parts

\* SignUp is "blocked if full and over-limit not allowed": a sign-up that is
\* accepted finds a place free, by the occurrence as it then is.
AcceptsIntoPlace ==
  \A r \in Requests : Inserts(r, {"signup_insert"}) =>
    LET o == local[r].occ IN occs[o].over \/ Count(o) < occs[o].max
SignUpFindsPlace == [][AcceptsIntoPlace]_vars

Covers(k, day) == ooo[k].from <= day /\ day <= ooo[k].to

\* SignUp and AssignParticipant are "blocked if the user is OOO on that
\* date": nobody is put on a duty on a day of one of their periods.
JoinsWhilePresent ==
  \A r \in Requests : Inserts(r, {"signup_insert", "assign_insert"}) =>
    \A k \in DOMAIN ooo :
      ooo[k].user = local[r].user => ~Covers(k, occs[local[r].occ].date[1])
JoiningAvoidsAbsence == [][JoinsWhilePresent]_vars

\* UpdateOccurrence refuses to move an occurrence to another day when a
\* participant is out of office then: the day it is moved to is free of
\* absences of everyone on the duty.
MovesWherePresent ==
  \A o \in DOMAIN occs \cap DOMAIN occs' :
    occs'[o].date[1] # occs[o].date[1] =>
      \A k \in DOMAIN ooo :
        <<ooo[k].user, o>> \in parts => ~Covers(k, occs'[o].date[1])
MovingAvoidsAbsence == [][MovesWherePresent]_vars

\* AddOutOfOffice compares the new period with all periods of the user: no
\* two periods of one user share a day.
PeriodsDisjoint ==
  \A j, k \in DOMAIN ooo :
    j # k /\ ooo[j].user = ooo[k].user =>
      ooo[j].to < ooo[k].from \/ ooo[k].to < ooo[j].from

\* The two checks together, whatever the order of sign-ups, assignments, date
\* changes and absences: nobody has a duty on a day of a period of theirs
\* other than its last one.
NoDutyInsideAbsence ==
  \A k \in DOMAIN ooo, o \in DOMAIN occs :
    <<ooo[k].user, o>> \in parts =>
      ~(ooo[k].from <= occs[o].date[1] /\ occs[o].date[1] < ooo[k].to)

\* AddOutOfOffice "cannot set out-of-office: user is assigned to an
\* occurrence on that date": no duty on any day of a period.
NoDutyDuringAbsence ==
  \A k \in DOMAIN ooo, o \in DOMAIN occs :
    <<ooo[k].user, o>> \in parts => ~Covers(k, occs[o].date[1])

\* The tables as the people on the roster see them: the periods are a set.
Promise == INSTANCE RosterSpec WITH
  Rows <- Occurrence,
  Assigning <- "assign" \in Ops,
  accounts <- users,
  duties <- occs,
  planned <- lastOcc,
  onDuty <- parts,
  absences <- {ooo[k] : k \in DOMAIN ooo}

\* Every request as a whole does what the roster promises, in one step and by
\* the tables as they are then, or nothing: nothing another statement of it
\* does shows, and no account is deleted that is the last one.
KeepsPromise == Promise!Spec

=============================================================================
