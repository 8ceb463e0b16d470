---------------------------- MODULE RosterProofs ----------------------------
(***************************************************************************)
(* What Roster guarantees for every set of users, requests, days and every *)
(* bound, checked by TLAPS.                                                *)
(***************************************************************************)
EXTENDS Roster, FiniteSetTheorems, TLAPS

-----------------------------------------------------------------------------
(* Lemmas about the steps of a request.                                    *)

\* What a request remembers is one of the local values.
LEMMA LocalsAreValues ==
  ASSUME NEW step \in Steps, NEW value, Locals(step, value)
  PROVE  value \in LocalValues
BY DEF Steps, Locals, LocalValues, JoinSteps, MemberSteps, AbsenceSteps,
       EditSteps

\* A request that goes on keeps the type of the requests' state.
LEMMA GotoType ==
  ASSUME RequestsOK, NEW r \in Requests, NEW step \in Steps, NEW value,
         Locals(step, value), Goto(r, step, value)
  PROVE  RequestsOK'
<1>1. value \in LocalValues
  BY LocalsAreValues
<1>2. \A s \in Requests : Locals(pc'[s], local'[s])
  BY DEF Goto, RequestsOK
<1>. QED
  BY <1>1, <1>2 DEF Goto, RequestsOK

\* So does one whose answer is sent,
LEMMA FinishType ==
  ASSUME RequestsOK, NEW r \in Requests, Finish(r)
  PROVE  RequestsOK'
<1>1. Locals("idle", Nothing) /\ "idle" \in Steps
  BY DEF Locals, Steps, JoinSteps, MemberSteps, AbsenceSteps, EditSteps
<1>. QED
  BY <1>1, GotoType DEF Finish

\* and one that advances to a statement with the same local values.
LEMMA AdvanceType ==
  ASSUME RequestsOK, NEW r \in Requests, NEW step \in Steps,
         Locals(step, local[r]), Advance(r, step)
  PROVE  RequestsOK'
<1>1. local' = local
  BY DEF Advance
<1>2. \A s \in Requests : Locals(pc'[s], local'[s])
  BY <1>1 DEF Advance, RequestsOK
<1>. QED
  BY <1>1, <1>2 DEF Advance, RequestsOK

\* The type of the local values at each statement.
LEMMA LocalTypes ==
  ASSUME RequestsOK, NEW r \in Requests
  PROVE  /\ pc[r] \in JoinSteps => local[r] \in Joining
         /\ pc[r] \in MemberSteps => local[r] \in Membership
         /\ pc[r] \in AbsenceSteps => local[r] \in Absence
         /\ pc[r] = "ooo_delete" => local[r] \in PeriodRef
         /\ pc[r] \in EditSteps => local[r] \in Edit
         /\ pc[r] = "upd_ooo" => local[r] \in CheckedEdit
         /\ pc[r] = "user_delete" => local[r] \in Account
BY DEF RequestsOK, Locals

-----------------------------------------------------------------------------
(* Type correctness.                                                       *)

\* Each start action keeps the types.
LEMMA StartType ==
  ASSUME TypeOK, NEW r \in Requests, Start(r)
  PROVE  TypeOK'
<1>. USE DEF TypeOK
<1>1. ASSUME NEW u \in Users, NEW o \in OccIds, SignUp(r, u, o)
      PROVE  TypeOK'
  <2>1. [user |-> u, occ |-> o, row |-> occs[o]] \in Joining
    BY <1>1 DEF SignUp, TablesOK, Joining
  <2>2. RequestsOK'
    BY <1>1, <2>1, GotoType DEF SignUp, Locals, Steps, JoinSteps, MemberSteps,
       AbsenceSteps, EditSteps
  <2>. QED
    BY <1>1, <2>2 DEF SignUp, tables, TablesOK
<1>2. ASSUME NEW u \in Users, NEW o \in OccIds,
             Withdraw(r, u, o) \/ RemoveParticipant(r, u, o) \/ Assign(r, u, o)
      PROVE  TypeOK'
  <2>1. [user |-> u, occ |-> o] \in Membership
    BY DEF Membership
  <2>2. RequestsOK'
    BY <1>2, <2>1, GotoType DEF Withdraw, RemoveParticipant, Assign, Locals,
       Steps, JoinSteps, MemberSteps, AbsenceSteps, EditSteps
  <2>. QED
    BY <1>2, <2>2 DEF Withdraw, RemoveParticipant, Assign, tables, TablesOK
<1>3. ASSUME NEW u \in Users, NEW from \in Days, NEW to \in Days,
             AddOOO(r, u, from, to)
      PROVE  TypeOK'
  <2>1. [user |-> u, from |-> from, to |-> to] \in Absence
    BY DEF Absence
  <2>2. RequestsOK'
    BY <1>3, <2>1, GotoType DEF AddOOO, Locals, Steps, JoinSteps, MemberSteps,
       AbsenceSteps, EditSteps
  <2>. QED
    BY <1>3, <2>2 DEF AddOOO, tables, TablesOK
<1>4. ASSUME NEW u \in Users, NEW k \in PeriodIds, RemoveOOO(r, u, k)
      PROVE  TypeOK'
  <2>1. [id |-> k] \in PeriodRef
    BY DEF PeriodRef
  <2>2. RequestsOK'
    BY <1>4, <2>1, GotoType DEF RemoveOOO, Locals, Steps, JoinSteps,
       MemberSteps, AbsenceSteps, EditSteps
  <2>. QED
    BY <1>4, <2>2 DEF RemoveOOO, tables, TablesOK
<1>5. ASSUME NEW k \in PeriodIds, RemoveOOOAdmin(r, k)
      PROVE  TypeOK'
  BY <1>5 DEF RemoveOOOAdmin, Keep, request, TablesOK, RequestsOK
<1>6. ASSUME NEW row \in Occurrence, Create(r, row)
      PROVE  TypeOK'
  BY <1>6, RosterAssumption
     DEF Create, Put, request, TablesOK, RequestsOK, OccIds
<1>7. ASSUME NEW o \in OccIds, NEW row \in Occurrence, Update(r, o, row)
      PROVE  TypeOK'
  <2>1. [occ |-> o, row |-> row] \in Edit
    BY DEF Edit
  <2>2. RequestsOK'
    BY <1>7, <2>1, GotoType DEF Update, Locals, Steps, JoinSteps, MemberSteps,
       AbsenceSteps, EditSteps
  <2>. QED
    BY <1>7, <2>2 DEF Update, tables, TablesOK
<1>8. ASSUME NEW o \in OccIds, Delete(r, o)
      PROVE  TypeOK'
  BY <1>8 DEF Delete, Keep, request, TablesOK, RequestsOK
<1>9. ASSUME NEW admin \in Users, NEW u \in Users, DeleteUser(r, admin, u)
      PROVE  TypeOK'
  <2>1. [user |-> u] \in Account
    BY DEF Account
  <2>2. RequestsOK'
    BY <1>9, <2>1, GotoType DEF DeleteUser, Locals, Steps, JoinSteps,
       MemberSteps, AbsenceSteps, EditSteps
  <2>. QED
    BY <1>9, <2>2 DEF DeleteUser, tables, TablesOK
<1>. QED
  BY <1>1, <1>2, <1>3, <1>4, <1>5, <1>6, <1>7, <1>8, <1>9 DEF Start

\* Each later statement of a request keeps the types.
LEMMA ContinueType ==
  ASSUME TypeOK, NEW r \in Requests, Continue(r)
  PROVE  TypeOK'
<1>. USE DEF TypeOK
<1>1. CASE SignUpCheckOOO(r) \/ SignUpCount(r) \/ AssignCheckOOO(r)
  <2>1. pc[r] \in JoinSteps /\ local[r] \in Joining
    BY <1>1, LocalTypes
       DEF SignUpCheckOOO, SignUpCount, AssignCheckOOO, At, JoinSteps
  <2>2. \A step \in JoinSteps : step \in Steps /\ Locals(step, local[r])
    BY <2>1 DEF Locals, Steps, JoinSteps, MemberSteps, AbsenceSteps, EditSteps
  <2>3. Finish(r) \/ \E step \in JoinSteps : Advance(r, step)
    BY <1>1 DEF SignUpCheckOOO, SignUpCount, AssignCheckOOO, JoinSteps
  <2>4. RequestsOK'
    BY <2>2, <2>3, FinishType, AdvanceType
  <2>. QED
    BY <1>1, <2>4
       DEF SignUpCheckOOO, SignUpCount, AssignCheckOOO, tables, TablesOK
<1>2. CASE SignUpInsert(r) \/ AssignInsert(r)
  <2>1. local[r] \in Joining
    BY <1>2, LocalTypes DEF SignUpInsert, AssignInsert, At, JoinSteps
  <2>2. RequestsOK'
    BY <1>2, FinishType DEF SignUpInsert, AssignInsert, CountAndInsert
  <2>. QED
    BY <1>2, <2>1, <2>2
       DEF SignUpInsert, AssignInsert, CountAndInsert, Joining, TablesOK
<1>3. CASE SignUpRefused(r) \/ AssignRefused(r) \/ AddOOORefused(r)
  BY <1>3, FinishType DEF SignUpRefused, AssignRefused, InsertRefused,
     AddOOORefused, tables, TablesOK
<1>4. CASE AssignFind(r)
  <2>1. local[r] \in Membership
    BY <1>4, LocalTypes DEF AssignFind, At, MemberSteps
  <2>2. CASE local[r].occ \in DOMAIN occs
    <3>1. [user |-> local[r].user, occ |-> local[r].occ,
           row |-> occs[local[r].occ]] \in Joining
      BY <2>1, <2>2 DEF Membership, Joining, TablesOK
    <3>2. RequestsOK'
      BY <1>4, <2>2, <3>1, GotoType DEF AssignFind, Locals, Steps, JoinSteps,
         MemberSteps, AbsenceSteps, EditSteps
    <3>. QED
      BY <1>4, <3>2 DEF AssignFind, tables, TablesOK
  <2>3. CASE local[r].occ \notin DOMAIN occs
    BY <1>4, <2>3, FinishType DEF AssignFind, tables, TablesOK
  <2>. QED
    BY <2>2, <2>3
<1>5. CASE DeleteParticipation(r)
  BY <1>5, FinishType DEF DeleteParticipation, TablesOK
<1>6. CASE AddOOOCheckOverlap(r)
  <2>1. local[r] \in Absence
    BY <1>6, LocalTypes DEF AddOOOCheckOverlap, At, AbsenceSteps
  <2>2. "ooo_save" \in Steps /\ Locals("ooo_save", local[r])
    BY <2>1 DEF Locals, Steps, JoinSteps, MemberSteps, AbsenceSteps, EditSteps
  <2>3. RequestsOK'
    BY <1>6, <2>2, FinishType, AdvanceType DEF AddOOOCheckOverlap
  <2>. QED
    BY <1>6, <2>3 DEF AddOOOCheckOverlap, tables, TablesOK
<1>7. CASE AddOOOSave(r)
  <2>1. local[r] \in Absence
    BY <1>7, LocalTypes DEF AddOOOSave, At, AbsenceSteps
  <2>2. [user |-> local[r].user, from |-> local[r].from,
         to |-> local[r].to] \in Period
    BY <2>1 DEF Absence, Period
  <2>3. RequestsOK'
    BY <1>7, FinishType DEF AddOOOSave
  <2>. QED
    BY <1>7, <2>2, <2>3, RosterAssumption DEF AddOOOSave, Put, TablesOK
<1>8. CASE RemoveOOODelete(r)
  BY <1>8, FinishType DEF RemoveOOODelete, Keep, TablesOK
<1>9. CASE UpdateFind(r) \/ UpdateFindFails(r)
  <2>1. local[r] \in Edit
    BY <1>9, LocalTypes DEF UpdateFind, UpdateFindFails, At, EditSteps
  <2>2. \A step \in EditSteps : step \in Steps /\ Locals(step, local[r])
    BY <2>1 DEF Locals, Steps, JoinSteps, MemberSteps, AbsenceSteps, EditSteps
  <2>3. \E step \in EditSteps : Advance(r, step)
    BY <1>9 DEF UpdateFind, UpdateFindFails, EditSteps
  <2>4. RequestsOK'
    BY <2>2, <2>3, AdvanceType
  <2>. QED
    BY <1>9, <2>4 DEF UpdateFind, UpdateFindFails, tables, TablesOK
<1>10. CASE UpdateReadParticipants(r) \/ UpdateReadFails(r)
  <2>1. local[r] \in Edit
    BY <1>10, LocalTypes
       DEF UpdateReadParticipants, UpdateReadFails, At, EditSteps
  <2>2. PICK seen \in SUBSET Users :
          Goto(r, "upd_ooo", [occ |-> local[r].occ, row |-> local[r].row,
                              seen |-> seen])
    BY <1>10 DEF UpdateReadParticipants, UpdateReadFails, ParticipantsOf
  <2>3. [occ |-> local[r].occ, row |-> local[r].row, seen |-> seen]
          \in CheckedEdit
    BY <2>1 DEF Edit, CheckedEdit
  <2>4. RequestsOK'
    BY <2>2, <2>3, GotoType DEF Locals, Steps, JoinSteps, MemberSteps,
       AbsenceSteps, EditSteps
  <2>. QED
    BY <1>10, <2>4
       DEF UpdateReadParticipants, UpdateReadFails, tables, TablesOK
<1>11. CASE UpdateCheckOOO(r)
  <2>1. local[r] \in CheckedEdit
    BY <1>11, LocalTypes DEF UpdateCheckOOO, At
  <2>2. [occ |-> local[r].occ, row |-> local[r].row] \in Edit
    BY <2>1 DEF Edit, CheckedEdit
  <2>3. RequestsOK'
    BY <1>11, <2>2, GotoType, FinishType DEF UpdateCheckOOO, Locals, Steps,
       JoinSteps, MemberSteps, AbsenceSteps, EditSteps
  <2>. QED
    BY <1>11, <2>3 DEF UpdateCheckOOO, tables, TablesOK
<1>12. CASE UpdateSave(r)
  <2>1. local[r].row \in Occurrence
    BY <1>12, LocalTypes DEF UpdateSave, At, EditSteps, Edit
  <2>2. RequestsOK'
    BY <1>12, FinishType DEF UpdateSave
  <2>. QED
    BY <1>12, <2>1, <2>2 DEF UpdateSave, Put, TablesOK
<1>13. CASE DeleteUserRow(r)
  BY <1>13, FinishType DEF DeleteUserRow, Keep, TablesOK
<1>. QED
  BY <1>1, <1>2, <1>3, <1>4, <1>5, <1>6, <1>7, <1>8, <1>9, <1>10, <1>11,
     <1>12, <1>13 DEF Continue

\* The empty roster has the types.
LEMMA InitType == Init => TypeOK
BY RosterAssumption DEF Init, TypeOK, TablesOK, RequestsOK, Steps, LocalValues,
   Locals, JoinSteps, MemberSteps, AbsenceSteps, EditSteps

\* Every step keeps the types, those of a failing request included.
LEMMA NextType == TypeOK /\ [Next]_vars => TypeOK'
<1>. SUFFICES ASSUME TypeOK, [Next]_vars PROVE TypeOK'
  OBVIOUS
<1>1. CASE UNCHANGED vars
  BY <1>1 DEF vars, TypeOK, TablesOK, RequestsOK
<1>2. ASSUME NEW r \in Requests, Fail(r) PROVE TypeOK'
  BY <1>2, FinishType DEF Fail, tables, TypeOK, TablesOK
<1>. QED
  BY <1>1, <1>2, StartType, ContinueType DEF Next

\* In every run of the server the tables hold rows of their types, under ids
\* the counters have given out, and each request has the local values its
\* next statement uses.
THEOREM TypeCorrect == Spec => []TypeOK
BY InitType, NextType, PTL DEF Spec

-----------------------------------------------------------------------------
(* The steps that write.                                                   *)

Writes(r) ==
  \/ SignUpInsert(r)
  \/ AssignInsert(r)
  \/ DeleteParticipation(r)
  \/ AddOOOSave(r)
  \/ RemoveOOODelete(r)
  \/ UpdateSave(r)
  \/ DeleteUserRow(r)
  \/ \E k \in PeriodIds : RemoveOOOAdmin(r, k)
  \/ \E row \in Occurrence : Create(r, row)
  \/ \E o \in OccIds : Delete(r, o)

\* All other statements, and every failure, leave the tables as they are.
LEMMA OnlyWriters ==
  ASSUME [Next]_vars
  PROVE  UNCHANGED tables \/ \E r \in Requests : Writes(r)
<1>1. ASSUME NEW r \in Requests, Start(r)
      PROVE  UNCHANGED tables \/ Writes(r)
  BY <1>1 DEF Start, SignUp, Withdraw, Assign, RemoveParticipant, AddOOO,
     RemoveOOO, Update, DeleteUser, Writes
<1>2. ASSUME NEW r \in Requests, Continue(r)
      PROVE  UNCHANGED tables \/ Writes(r)
  BY <1>2 DEF Continue, SignUpCheckOOO, SignUpCount, SignUpRefused, AssignFind,
     AssignCheckOOO, AssignRefused, InsertRefused, AddOOOCheckOverlap,
     AddOOORefused, UpdateFind, UpdateFindFails, UpdateReadParticipants,
     UpdateReadFails, UpdateCheckOOO, Writes
<1>3. ASSUME NEW r \in Requests, Fail(r)
      PROVE  UNCHANGED tables
  BY <1>3 DEF Fail
<1>. QED
  BY <1>1, <1>2, <1>3 DEF Next, vars, tables

\* A request's step touches its own local state only.
LEMMA OthersKeepLocals ==
  ASSUME TypeOK, NEW r \in Requests, Start(r) \/ Continue(r) \/ Fail(r),
         NEW s \in Requests, s # r
  PROVE  pc'[s] = pc[s] /\ local'[s] = local[s]
<1>. USE DEF TypeOK, RequestsOK, Goto, Advance, Finish
<1>1. CASE Start(r)
  BY <1>1 DEF Start, SignUp, Withdraw, Assign, RemoveParticipant, AddOOO,
     RemoveOOO, RemoveOOOAdmin, Create, Update, Delete, DeleteUser, request
<1>2. CASE Continue(r)
  BY <1>2 DEF Continue, SignUpCheckOOO, SignUpCount, SignUpInsert,
     SignUpRefused, AssignFind, AssignCheckOOO, AssignInsert, AssignRefused,
     DeleteParticipation, AddOOOCheckOverlap, AddOOOSave, AddOOORefused,
     RemoveOOODelete, UpdateFind, UpdateFindFails, UpdateReadParticipants,
     UpdateReadFails, UpdateCheckOOO, UpdateSave, DeleteUserRow,
     CountAndInsert, InsertRefused
<1>3. CASE Fail(r)
  BY <1>3 DEF Fail
<1>. QED
  BY <1>1, <1>2, <1>3

-----------------------------------------------------------------------------
(* The foreign keys.                                                       *)

\* A step leaves no row without the rows it refers to.
LEMMA NextNoDanglingRows ==
  ASSUME TypeOK, NoDanglingRows, [Next]_vars
  PROVE  NoDanglingRows'
<1>1. CASE UNCHANGED tables
  BY <1>1 DEF tables, NoDanglingRows
<1>2. ASSUME NEW r \in Requests, Writes(r) PROVE NoDanglingRows'
  <2>1. CASE SignUpInsert(r) \/ AssignInsert(r)
    BY <2>1 DEF SignUpInsert, AssignInsert, CountAndInsert, CanInsert,
       NoDanglingRows
  <2>2. CASE DeleteParticipation(r)
    BY <2>2 DEF DeleteParticipation, NoDanglingRows
  <2>3. CASE AddOOOSave(r)
    BY <2>3 DEF AddOOOSave, Put, NoDanglingRows
  <2>4. CASE RemoveOOODelete(r) \/ \E k \in PeriodIds : RemoveOOOAdmin(r, k)
    BY <2>4 DEF RemoveOOODelete, RemoveOOOAdmin, Keep, NoDanglingRows
  <2>5. CASE UpdateSave(r)
    BY <2>5 DEF UpdateSave, Put, NoDanglingRows
  <2>6. CASE DeleteUserRow(r)
    BY <2>6 DEF DeleteUserRow, Keep, NoDanglingRows
  <2>7. ASSUME NEW row \in Occurrence, Create(r, row) PROVE NoDanglingRows'
    BY <2>7 DEF Create, Put, NoDanglingRows
  <2>8. ASSUME NEW o \in OccIds, Delete(r, o) PROVE NoDanglingRows'
    BY <2>8 DEF Delete, Keep, NoDanglingRows
  <2>. QED
    BY <1>2, <2>1, <2>2, <2>3, <2>4, <2>5, <2>6, <2>7, <2>8 DEF Writes
<1>. QED
  BY <1>1, <1>2, OnlyWriters

\* However many requests interleave, and wherever they fail, every
\* participation and every out-of-office period refers to existing rows.
THEOREM RowsNeverDangle == Spec => []NoDanglingRows
<1>1. Init => NoDanglingRows
  BY DEF Init, NoDanglingRows
<1>2. TypeOK /\ NoDanglingRows /\ [Next]_vars => NoDanglingRows'
  BY NextNoDanglingRows
<1>. QED
  BY <1>1, <1>2, TypeCorrect, PTL DEF Spec

-----------------------------------------------------------------------------
(* Deletions are final.                                                    *)

\* An occurrence, an account or a period that was deleted is not there again
\* later, whatever a request that had read it before still writes.
THEOREM DeletedStaysDeleted == Spec => NothingResurrected
<1>. DEFINE Final == /\ users' \subseteq users
                     /\ DOMAIN occs' \cap 1 .. lastOcc \subseteq DOMAIN occs
                     /\ DOMAIN ooo' \cap 1 .. lastOoo \subseteq DOMAIN ooo
<1>1. TypeOK /\ [Next]_vars => [Final]_vars
  <2>. SUFFICES ASSUME TypeOK, [Next]_vars PROVE Final
    OBVIOUS
  <2>1. CASE UNCHANGED tables
    BY <2>1 DEF tables
  <2>2. ASSUME NEW r \in Requests, Writes(r) PROVE Final
    <3>. USE DEF TypeOK, TablesOK
    <3>1. CASE SignUpInsert(r) \/ AssignInsert(r) \/ DeleteParticipation(r)
      BY <3>1 DEF SignUpInsert, AssignInsert, CountAndInsert,
         DeleteParticipation
    <3>2. CASE AddOOOSave(r)
      BY <3>2 DEF AddOOOSave, Put
    <3>3. CASE RemoveOOODelete(r) \/ \E k \in PeriodIds : RemoveOOOAdmin(r, k)
      BY <3>3 DEF RemoveOOODelete, RemoveOOOAdmin, Keep
    <3>4. CASE UpdateSave(r)
      BY <3>4 DEF UpdateSave, Put
    <3>5. CASE DeleteUserRow(r)
      BY <3>5 DEF DeleteUserRow, Keep
    <3>6. ASSUME NEW row \in Occurrence, Create(r, row) PROVE Final
      BY <3>6 DEF Create, Put
    <3>7. ASSUME NEW o \in OccIds, Delete(r, o) PROVE Final
      BY <3>7 DEF Delete, Keep
    <3>. QED
      BY <2>2, <3>1, <3>2, <3>3, <3>4, <3>5, <3>6, <3>7 DEF Writes
  <2>. QED
    BY <2>1, <2>2, OnlyWriters
<1>. QED
  BY <1>1, TypeCorrect, PTL DEF Spec, NothingResurrected

-----------------------------------------------------------------------------
(* How far concurrent sign-ups can overfill an occurrence, for every       *)
(* number of requests.                                                     *)

\* Assign exceeds the limit on purpose and Update can lower it: neither is
\* in progress.
AssignAndEditSteps ==
  {"assign_find", "assign_ooo", "assign_insert", "upd_ooo"} \cup EditSteps

OnlySignUps == \A r \in Requests : pc[r] \notin AssignAndEditSteps

SignUpSteps == {"signup_ooo", "signup_count", "signup_insert"}

\* The row a sign-up has read is the row of the table, as long as there is
\* one: nobody edits it, and its id will not be given to another occurrence.
RowsCurrent ==
  \A r \in Requests : pc[r] \in SignUpSteps =>
    /\ local[r].occ <= lastOcc
    /\ local[r].occ \in DOMAIN occs => occs[local[r].occ] = local[r].row

CapacityInv ==
  TypeOK /\ NoDanglingRows /\ OnlySignUps /\ RowsCurrent /\ AdmittedBounded

-----------------------------------------------------------------------------
(* Counting.                                                               *)

\* The participants of an occurrence can be counted.
LEMMA ParticipantsFinite ==
  ASSUME NEW o
  PROVE  IsFiniteSet(ParticipantsOf(o)) /\ Count(o) \in Nat
<1>1. ParticipantsOf(o) \in SUBSET Users
  BY DEF ParticipantsOf
<1>. QED
  BY <1>1, FS_Subset, FS_CardinalityType, RosterAssumption DEF Count

\* So can the sign-ups that have seen a free place, each a request.
LEMMA AdmittedFinite ==
  ASSUME NEW o
  PROVE  /\ IsFiniteSet(Admitted(o))
         /\ Cardinality(Admitted(o)) \in Nat
         /\ Cardinality(Requests) \in Nat
         /\ Cardinality(Admitted(o)) <= Cardinality(Requests)
<1>1. Admitted(o) \in SUBSET Requests
  BY DEF Admitted
<1>. QED
  BY <1>1, FS_Subset, FS_CardinalityType, RosterAssumption

\* The limit of a planned occurrence is a positive number.
LEMMA LimitType ==
  ASSUME TypeOK, NEW o \in DOMAIN occs
  PROVE  occs[o].max \in Nat /\ occs[o].max >= 1
<1>1. occs[o].max \in Limits
  BY DEF TypeOK, TablesOK, Occurrence
<1>2. \A limit \in Limits : limit \in Nat /\ limit >= 1
  BY RosterAssumption
<1>. QED
  BY <1>1, <1>2

\* No row is new or changed, nobody joins and no sign-up is admitted.
Shrinking ==
  /\ parts' \subseteq parts
  /\ DOMAIN occs' \subseteq DOMAIN occs
  /\ \A o \in DOMAIN occs' : occs'[o] = occs[o]
  /\ \A r \in Requests : pc'[r] = "signup_insert" =>
       pc[r] = "signup_insert" /\ local'[r] = local[r]

\* Such a step leaves the bound in place.
LEMMA ShrinkingKeepsBound ==
  ASSUME TypeOK, AdmittedBounded, Shrinking
  PROVE  AdmittedBounded'
<1>. SUFFICES ASSUME NEW o \in DOMAIN occs', ~occs'[o].over
              PROVE  Count(o)' + Cardinality(Admitted(o)')
                       <= occs'[o].max + Cardinality(Requests) - 1
  BY DEF AdmittedBounded
<1>1. o \in DOMAIN occs /\ occs'[o] = occs[o]
  BY DEF Shrinking
<1>2. /\ Count(o)' <= Count(o)
      /\ Count(o)' \in Nat
      /\ Count(o) \in Nat
  <2>1. ParticipantsOf(o)' \in SUBSET ParticipantsOf(o)
    BY DEF ParticipantsOf, Shrinking
  <2>. QED
    BY <2>1, ParticipantsFinite, FS_Subset, FS_CardinalityType DEF Count
<1>3. /\ Cardinality(Admitted(o)') <= Cardinality(Admitted(o))
      /\ Cardinality(Admitted(o)') \in Nat
      /\ Cardinality(Admitted(o)) \in Nat
      /\ Cardinality(Requests) \in Nat
  <2>1. Admitted(o)' \in SUBSET Admitted(o)
    BY DEF Admitted, Shrinking
  <2>. QED
    BY <2>1, AdmittedFinite, FS_Subset, FS_CardinalityType
<1>4. Count(o) + Cardinality(Admitted(o))
        <= occs[o].max + Cardinality(Requests) - 1
  BY <1>1 DEF AdmittedBounded
<1>. QED
  BY <1>1, <1>2, <1>3, <1>4, LimitType

-----------------------------------------------------------------------------
(* The steps that do not shrink.                                           *)

\* A new occurrence has no participants, and no sign-up has its id.
LEMMA CreateKeepsBound ==
  ASSUME CapacityInv, NEW r \in Requests, NEW row \in Occurrence,
         Create(r, row), TypeOK'
  PROVE  AdmittedBounded'
<1>. USE DEF CapacityInv
<1>. SUFFICES ASSUME NEW o \in DOMAIN occs', ~occs'[o].over
              PROVE  Count(o)' + Cardinality(Admitted(o)')
                       <= occs'[o].max + Cardinality(Requests) - 1
  BY DEF AdmittedBounded
<1>1. parts' = parts /\ pc' = pc /\ local' = local
  BY DEF Create, request
<1>2. Count(o)' = Count(o) /\ Admitted(o)' = Admitted(o)
  BY <1>1 DEF Count, ParticipantsOf, Admitted
<1>3. CASE o \in DOMAIN occs
  <2>1. occs'[o] = occs[o]
    BY <1>3 DEF Create, Put, TypeOK, TablesOK
  <2>. QED
    BY <1>2, <1>3, <2>1 DEF AdmittedBounded
<1>4. CASE o \notin DOMAIN occs
  <2>1. o = lastOcc + 1 /\ lastOcc \in Int
    BY <1>4 DEF Create, Put, TypeOK, TablesOK
  <2>2. ParticipantsOf(o) = {}
    BY <1>4 DEF NoDanglingRows, ParticipantsOf
  <2>3. Admitted(o) = {}
    BY <2>1, LocalTypes DEF RowsCurrent, SignUpSteps, Admitted, TypeOK,
       JoinSteps, Joining, OccIds
  <2>4. occs'[o].max >= 1 /\ occs'[o].max \in Nat
    <3>1. occs'[o].max \in Limits
      BY DEF TypeOK, TablesOK, Occurrence
    <3>2. \A limit \in Limits : limit \in Nat /\ limit >= 1
      BY RosterAssumption
    <3>. QED
      BY <3>1, <3>2
  <2>5. Cardinality(Requests) \in Nat
    BY AdmittedFinite
  <2>. QED
    BY <1>2, <2>2, <2>3, <2>4, <2>5, FS_EmptySet DEF Count
<1>. QED
  BY <1>3, <1>4

\* A sign-up is admitted by the count it sees, which is below the limit; all
\* requests together are at most that many admitted sign-ups.
LEMMA CountKeepsBound ==
  ASSUME CapacityInv, NEW r \in Requests, SignUpCount(r)
  PROVE  AdmittedBounded'
<1>. USE DEF CapacityInv
<1>2. CASE Count(local[r].occ) >= local[r].row.max
  <2>1. Shrinking
    BY <1>2 DEF SignUpCount, Shrinking, Finish, Goto, tables, TypeOK,
       RequestsOK
  <2>. QED
    BY <2>1, ShrinkingKeepsBound
<1>3. CASE ~(Count(local[r].occ) >= local[r].row.max)
  <2>1. /\ pc' = [pc EXCEPT ![r] = "signup_insert"]
        /\ local' = local /\ parts' = parts /\ occs' = occs
    BY <1>3 DEF SignUpCount, Advance, tables
  <2>. SUFFICES ASSUME NEW o \in DOMAIN occs', ~occs'[o].over
                PROVE  Count(o)' + Cardinality(Admitted(o)')
                         <= occs'[o].max + Cardinality(Requests) - 1
    BY DEF AdmittedBounded
  <2>2. Count(o)' = Count(o)
    BY <2>1 DEF Count, ParticipantsOf
  <2>3. CASE o = local[r].occ
    <3>1. local[r].row = occs[o]
      BY <2>1, <2>3 DEF SignUpCount, At, RowsCurrent, SignUpSteps
    <3>2. Count(o) < occs[o].max
      BY <1>3, <2>1, <2>3, <3>1, LimitType, ParticipantsFinite
    <3>3. /\ Cardinality(Admitted(o)') <= Cardinality(Requests)
          /\ Cardinality(Admitted(o)') \in Nat
          /\ Cardinality(Requests) \in Nat
      <4>1. Admitted(o)' \in SUBSET Requests
        BY DEF Admitted
      <4>. QED
        BY <4>1, FS_Subset, FS_CardinalityType, RosterAssumption
    <3>. QED
      BY <2>1, <2>2, <3>2, <3>3, LimitType, ParticipantsFinite
  <2>4. CASE o # local[r].occ
    <3>1. Admitted(o)' = Admitted(o)
      BY <2>1, <2>4 DEF SignUpCount, At, Admitted, TypeOK, RequestsOK
    <3>. QED
      BY <2>1, <2>2, <3>1 DEF AdmittedBounded
  <2>. QED
    BY <2>3, <2>4
<1>. QED
  BY <1>2, <1>3

\* A sign-up that takes its place is no longer admitted: the sum stays.
LEMMA InsertKeepsBound ==
  ASSUME CapacityInv, NEW r \in Requests, SignUpInsert(r)
  PROVE  AdmittedBounded'
<1>. USE DEF CapacityInv
<1>1. /\ parts' = parts \cup {<<local[r].user, local[r].occ>>}
      /\ <<local[r].user, local[r].occ>> \notin parts
      /\ occs' = occs
      /\ pc[r] = "signup_insert"
      /\ pc' = [pc EXCEPT ![r] = "idle"]
      /\ local' = [local EXCEPT ![r] = Nothing]
  BY DEF SignUpInsert, CountAndInsert, CanInsert, At, Finish, Goto
<1>2. local[r].user \in Users
  BY <1>1, LocalTypes DEF TypeOK, JoinSteps, Joining
<1>. SUFFICES ASSUME NEW o \in DOMAIN occs', ~occs'[o].over
              PROVE  Count(o)' + Cardinality(Admitted(o)')
                       <= occs'[o].max + Cardinality(Requests) - 1
  BY DEF AdmittedBounded
<1>3. Count(o) + Cardinality(Admitted(o))
        <= occs[o].max + Cardinality(Requests) - 1
  BY <1>1 DEF AdmittedBounded
<1>4. CASE o = local[r].occ
  <2>1. ParticipantsOf(o)' = ParticipantsOf(o) \cup {local[r].user}
    BY <1>1, <1>2, <1>4 DEF ParticipantsOf
  <2>2. local[r].user \notin ParticipantsOf(o)
    BY <1>1, <1>4 DEF ParticipantsOf
  <2>3. Count(o)' = Count(o) + 1
    BY <2>1, <2>2, ParticipantsFinite, FS_AddElement DEF Count
  <2>4. Admitted(o)' = Admitted(o) \ {r} /\ r \in Admitted(o)
    BY <1>1, <1>4 DEF Admitted, TypeOK, RequestsOK
  <2>5. Cardinality(Admitted(o)') = Cardinality(Admitted(o)) - 1
    BY <2>4, AdmittedFinite, FS_RemoveElement
  <2>. QED
    BY <1>1, <1>3, <2>3, <2>5, ParticipantsFinite, AdmittedFinite, LimitType
<1>5. CASE o # local[r].occ
  <2>1. ParticipantsOf(o)' = ParticipantsOf(o)
    BY <1>1, <1>5 DEF ParticipantsOf
  <2>2. Admitted(o)' = Admitted(o)
    BY <1>1, <1>5 DEF Admitted, TypeOK, RequestsOK
  <2>. QED
    BY <1>1, <1>3, <2>1, <2>2 DEF Count
<1>. QED
  BY <1>4, <1>5

\* A sign-up that is not counted is for an occurrence without a limit.
LEMMA CheckOOOKeepsBound ==
  ASSUME CapacityInv, NEW r \in Requests, SignUpCheckOOO(r)
  PROVE  AdmittedBounded'
<1>. USE DEF CapacityInv
<1>1. parts' = parts /\ occs' = occs
  BY DEF SignUpCheckOOO, tables
<1>2. CASE Advance(r, "signup_insert") /\ local[r].row.over
  <2>. SUFFICES ASSUME NEW o \in DOMAIN occs', ~occs'[o].over
                PROVE  Count(o)' + Cardinality(Admitted(o)')
                         <= occs'[o].max + Cardinality(Requests) - 1
    BY DEF AdmittedBounded
  <2>1. o # local[r].occ
    BY <1>1, <1>2 DEF SignUpCheckOOO, At, RowsCurrent, SignUpSteps
  <2>2. Admitted(o)' = Admitted(o)
    BY <1>2, <2>1 DEF Advance, SignUpCheckOOO, At, Admitted, TypeOK, RequestsOK
  <2>3. Count(o)' = Count(o)
    BY <1>1 DEF Count, ParticipantsOf
  <2>. QED
    BY <1>1, <2>2, <2>3 DEF AdmittedBounded
<1>3. CASE Advance(r, "signup_count") \/ Finish(r)
  <2>1. Shrinking
    BY <1>1, <1>3 DEF Shrinking, Advance, Finish, Goto, TypeOK, RequestsOK
  <2>. QED
    BY <2>1, ShrinkingKeepsBound
<1>. QED
  BY <1>2, <1>3 DEF SignUpCheckOOO

-----------------------------------------------------------------------------
(* The other parts of the invariant.                                       *)

\* Requests that assign or edit never begin.
LEMMA NextOnlySignUps ==
  ASSUME TypeOK, OnlySignUps, [Next]_vars, Ops \cap {"assign", "update"} = {}
  PROVE  OnlySignUps'
<1>. USE DEF OnlySignUps, AssignAndEditSteps, EditSteps, TypeOK, RequestsOK
<1>1. CASE UNCHANGED vars
  BY <1>1 DEF vars
<1>2. ASSUME NEW r \in Requests, Start(r) PROVE OnlySignUps'
  BY <1>2 DEF Start, SignUp, Withdraw, Assign, RemoveParticipant, AddOOO,
     RemoveOOO, RemoveOOOAdmin, Create, Update, Delete, DeleteUser, Begins,
     Goto, request
<1>3. ASSUME NEW r \in Requests, Continue(r) PROVE OnlySignUps'
  BY <1>3 DEF Continue, SignUpCheckOOO, SignUpCount, SignUpInsert,
     SignUpRefused, AssignFind, AssignCheckOOO, AssignInsert, AssignRefused,
     DeleteParticipation, AddOOOCheckOverlap, AddOOOSave, AddOOORefused,
     RemoveOOODelete, UpdateFind, UpdateFindFails, UpdateReadParticipants,
     UpdateReadFails, UpdateCheckOOO, UpdateSave, DeleteUserRow,
     CountAndInsert, InsertRefused, At, Advance, Finish, Goto
<1>4. ASSUME NEW r \in Requests, Fail(r) PROVE OnlySignUps'
  BY <1>4 DEF Fail, Finish, Goto
<1>. QED
  BY <1>1, <1>2, <1>3, <1>4 DEF Next

\* Without edits a row never changes while it exists.
LEMMA RowsImmutable ==
  ASSUME TypeOK, OnlySignUps, [Next]_vars
  PROVE  /\ lastOcc <= lastOcc'
         /\ \A o \in DOMAIN occs' : o <= lastOcc =>
              o \in DOMAIN occs /\ occs'[o] = occs[o]
<1>. DEFINE Kept == /\ lastOcc <= lastOcc'
                    /\ \A o \in DOMAIN occs' : o <= lastOcc =>
                         o \in DOMAIN occs /\ occs'[o] = occs[o]
<1>0. lastOcc \in Int /\ \A o \in DOMAIN occs : o \in 1 .. lastOcc
  BY DEF TypeOK, TablesOK
<1>1. ASSUME occs' = occs, lastOcc' = lastOcc PROVE Kept
  BY <1>0, <1>1
<1>2. ASSUME NEW r \in Requests, Writes(r) PROVE Kept
  <2>1. ~UpdateSave(r)
    BY DEF UpdateSave, At, OnlySignUps, AssignAndEditSteps, EditSteps
  <2>2. ASSUME NEW row \in Occurrence, Create(r, row) PROVE Kept
    BY <2>2, <1>0 DEF Create, Put
  <2>3. ASSUME NEW o \in OccIds, Delete(r, o) PROVE Kept
    BY <2>3, <1>0 DEF Delete, Keep
  <2>4. CASE \/ SignUpInsert(r) \/ AssignInsert(r) \/ DeleteParticipation(r)
             \/ AddOOOSave(r) \/ RemoveOOODelete(r) \/ DeleteUserRow(r)
             \/ \E k \in PeriodIds : RemoveOOOAdmin(r, k)
    <3>1. occs' = occs /\ lastOcc' = lastOcc
      BY <2>4 DEF SignUpInsert, AssignInsert, CountAndInsert,
         DeleteParticipation, AddOOOSave, RemoveOOODelete, RemoveOOOAdmin,
         DeleteUserRow
    <3>. QED
      BY <3>1, <1>1
  <2>. QED
    BY <1>2, <2>1, <2>2, <2>3, <2>4 DEF Writes
<1>3. CASE UNCHANGED tables
  BY <1>1, <1>3 DEF tables
<1>. QED
  BY <1>2, <1>3, OnlyWriters

\* A sign-up in progress has just read its row or keeps the one it read.
LEMMA SignUpLocals ==
  ASSUME TypeOK, NEW r \in Requests, Start(r) \/ Continue(r) \/ Fail(r),
         NEW s \in Requests, pc'[s] \in SignUpSteps
  PROVE  \/ pc[s] \in SignUpSteps /\ local'[s] = local[s]
         \/ \E o \in DOMAIN occs :
              /\ local'[s].occ = o /\ local'[s].row = occs[o]
              /\ occs' = occs /\ lastOcc' = lastOcc
<1>1. CASE s # r
  BY <1>1, OthersKeepLocals
<1>2. CASE s = r
  <2>. USE <1>2 DEF TypeOK, RequestsOK, SignUpSteps, Goto, Advance, Finish
  <2>1. CASE Start(r)
    <3>1. ASSUME NEW u \in Users, NEW o \in OccIds, SignUp(r, u, o)
          PROVE  /\ o \in DOMAIN occs
                 /\ local'[r].occ = o /\ local'[r].row = occs[o]
                 /\ occs' = occs /\ lastOcc' = lastOcc
      BY <3>1 DEF SignUp, tables
    <3>2. CASE \E u \in Users, o \in OccIds : SignUp(r, u, o)
      BY <3>1, <3>2
    <3>3. CASE ~ \E u \in Users, o \in OccIds : SignUp(r, u, o)
      BY <2>1, <3>3 DEF Start, Withdraw, Assign, RemoveParticipant, AddOOO,
         RemoveOOO, RemoveOOOAdmin, Create, Update, Delete, DeleteUser,
         request, Begins
    <3>. QED
      BY <3>2, <3>3
  <2>2. CASE Continue(r)
    BY <2>2 DEF Continue, SignUpCheckOOO, SignUpCount, SignUpInsert,
       SignUpRefused, AssignFind, AssignCheckOOO, AssignInsert, AssignRefused,
       DeleteParticipation, AddOOOCheckOverlap, AddOOOSave, AddOOORefused,
       RemoveOOODelete, UpdateFind, UpdateFindFails, UpdateReadParticipants,
       UpdateReadFails, UpdateCheckOOO, UpdateSave, DeleteUserRow,
       CountAndInsert, InsertRefused, At
  <2>3. CASE Fail(r)
    BY <2>3 DEF Fail
  <2>. QED
    BY <2>1, <2>2, <2>3
<1>. QED
  BY <1>1, <1>2

\* A sign-up in progress knows the row as it still is, if it still is.
LEMMA NextRowsCurrent ==
  ASSUME TypeOK, OnlySignUps, RowsCurrent, [Next]_vars
  PROVE  RowsCurrent'
<1>1. CASE UNCHANGED vars
  BY <1>1 DEF vars, RowsCurrent
<1>2. ASSUME NEW r \in Requests, Start(r) \/ Continue(r) \/ Fail(r)
      PROVE  RowsCurrent'
  <2>. SUFFICES ASSUME NEW s \in Requests, pc'[s] \in SignUpSteps
                PROVE  /\ local'[s].occ <= lastOcc'
                       /\ local'[s].occ \in DOMAIN occs' =>
                            occs'[local'[s].occ] = local'[s].row
    BY DEF RowsCurrent
  <2>1. CASE pc[s] \in SignUpSteps /\ local'[s] = local[s]
    <3>1. /\ local[s].occ <= lastOcc
          /\ local[s].occ \in DOMAIN occs => occs[local[s].occ] = local[s].row
      BY <2>1 DEF RowsCurrent
    <3>2. local[s].occ \in Int /\ lastOcc \in Int /\ lastOcc' \in Int
      BY <2>1, LocalTypes, NextType
         DEF TypeOK, TablesOK, SignUpSteps, JoinSteps, Joining, OccIds
    <3>. QED
      BY <2>1, <3>1, <3>2, RowsImmutable
  <2>2. CASE \E o \in DOMAIN occs :
               /\ local'[s].occ = o /\ local'[s].row = occs[o]
               /\ occs' = occs /\ lastOcc' = lastOcc
    BY <2>2 DEF TypeOK, TablesOK
  <2>. QED
    BY <1>2, <2>1, <2>2, SignUpLocals
<1>. QED
  BY <1>1, <1>2 DEF Next

\* No step takes participants and admitted sign-ups past the bound.
LEMMA NextAdmittedBounded ==
  ASSUME CapacityInv, [Next]_vars, TypeOK'
  PROVE  AdmittedBounded'
<1>. USE DEF CapacityInv
<1>1. CASE UNCHANGED vars
  <2>1. Shrinking
    BY <1>1 DEF vars, Shrinking
  <2>. QED
    BY <2>1, ShrinkingKeepsBound
<1>2. ASSUME NEW r \in Requests, Start(r) PROVE AdmittedBounded'
  <2>1. ASSUME NEW row \in Occurrence, Create(r, row) PROVE AdmittedBounded'
    BY <2>1, CreateKeepsBound
  <2>2. ASSUME ~ \E row \in Occurrence : Create(r, row) PROVE Shrinking
    <3>. USE DEF Shrinking, Goto, TypeOK, RequestsOK
    <3>1. CASE \E o \in OccIds : Delete(r, o)
      BY <3>1 DEF Delete, Keep, request
    <3>2. CASE \E k \in PeriodIds : RemoveOOOAdmin(r, k)
      BY <3>2 DEF RemoveOOOAdmin, request
    <3>. QED
      BY <1>2, <2>2, <3>1, <3>2 DEF Start, SignUp, Withdraw, Assign,
         RemoveParticipant, AddOOO, RemoveOOO, Update, DeleteUser, tables
  <2>. QED
    BY <2>1, <2>2, ShrinkingKeepsBound
<1>3. ASSUME NEW r \in Requests, Continue(r) PROVE AdmittedBounded'
  <2>1. CASE SignUpCheckOOO(r) \/ SignUpCount(r) \/ SignUpInsert(r)
    BY <2>1, CheckOOOKeepsBound, CountKeepsBound, InsertKeepsBound
  <2>2. ASSUME ~(SignUpCheckOOO(r) \/ SignUpCount(r) \/ SignUpInsert(r))
        PROVE  Shrinking
    <3>. USE DEF Shrinking, Finish, Goto, Advance, TypeOK, RequestsOK
    <3>1. pc[r] \notin AssignAndEditSteps
      BY DEF OnlySignUps
    <3>2. CASE SignUpRefused(r) \/ AddOOORefused(r) \/ AddOOOCheckOverlap(r)
      BY <3>2 DEF SignUpRefused, InsertRefused, AddOOORefused,
         AddOOOCheckOverlap, tables
    <3>3. CASE DeleteParticipation(r) \/ AddOOOSave(r) \/ RemoveOOODelete(r)
               \/ DeleteUserRow(r)
      BY <3>3 DEF DeleteParticipation, AddOOOSave, RemoveOOODelete,
         DeleteUserRow
    <3>. QED
      BY <1>3, <2>2, <3>1, <3>2, <3>3 DEF Continue, AssignAndEditSteps,
         EditSteps, At, AssignFind, AssignCheckOOO, AssignInsert,
         AssignRefused, UpdateFind, UpdateFindFails, UpdateReadParticipants,
         UpdateReadFails, UpdateCheckOOO, UpdateSave
  <2>. QED
    BY <2>1, <2>2, ShrinkingKeepsBound
<1>4. ASSUME NEW r \in Requests, Fail(r) PROVE AdmittedBounded'
  <2>1. Shrinking
    BY <1>4 DEF Fail, Finish, Goto, tables, Shrinking, TypeOK, RequestsOK
  <2>. QED
    BY <2>1, ShrinkingKeepsBound
<1>. QED
  BY <1>1, <1>2, <1>3, <1>4 DEF Next

-----------------------------------------------------------------------------

\* As long as nobody assigns or edits, N requests that sign up, withdraw,
\* remove, create, delete and fail in any order put at most N - 1
\* participants too many on an occurrence that does not allow more.
THEOREM OvershootIsBounded ==
  ASSUME Ops \cap {"assign", "update"} = {}
  PROVE  Spec => [](AdmittedBounded /\ OvershootBounded)
<1>1. Init => CapacityInv
  <2>. SUFFICES ASSUME Init PROVE CapacityInv
    OBVIOUS
  <2>1. TypeOK
    BY InitType
  <2>2. NoDanglingRows /\ OnlySignUps /\ RowsCurrent /\ AdmittedBounded
    BY DEF Init, NoDanglingRows, OnlySignUps, RowsCurrent, AdmittedBounded,
       AssignAndEditSteps, EditSteps, SignUpSteps
  <2>. QED
    BY <2>1, <2>2 DEF CapacityInv
<1>2. CapacityInv /\ [Next]_vars => CapacityInv'
  BY NextType, NextNoDanglingRows, NextOnlySignUps, NextRowsCurrent,
     NextAdmittedBounded DEF CapacityInv
<1>3. CapacityInv => AdmittedBounded /\ OvershootBounded
  <2>. SUFFICES ASSUME CapacityInv, NEW o \in DOMAIN occs, ~occs[o].over
                PROVE  Count(o) <= occs[o].max + Cardinality(Requests) - 1
    BY DEF CapacityInv, OvershootBounded
  <2>1. Count(o) + Cardinality(Admitted(o))
          <= occs[o].max + Cardinality(Requests) - 1
    BY DEF CapacityInv, AdmittedBounded
  <2>2. occs[o].max \in Nat
    BY LimitType DEF CapacityInv
  <2>. QED
    BY <2>1, <2>2, ParticipantsFinite, AdmittedFinite
<1>. QED
  BY <1>1, <1>2, <1>3, PTL DEF Spec

=============================================================================
