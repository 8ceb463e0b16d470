---------------------------- MODULE SeriesProofs ----------------------------
(***************************************************************************)
(* What holds of series for every calendar, any number of requests, duties *)
(* and groups: what a row keeps while it is in the hands of a request, and *)
(* what an answer may say of the rows when nobody else has written.        *)
(***************************************************************************)
EXTENDS Series, FiniteSetTheorems, NaturalsInduction, WellFoundedInduction,
        TLAPS

\* A step of one request.
Step(r) == Start(r) \/ Continue(r) \/ Fail(r)

TablesOK ==
  /\ lastOcc \in 0 .. MaxOccurrences
  /\ DOMAIN occs \subseteq 1 .. lastOcc
  /\ occs \in [DOMAIN occs -> Row]
  /\ lastSeries \in 0 .. MaxSeriesIds
  /\ DOMAIN groups \subseteq Groups
  /\ groups \in [DOMAIN groups -> Colors]

RequestsOK ==
  /\ pc \in [Requests -> Steps]
  /\ DOMAIN local = Requests
  /\ \A r \in Requests : local[r] \in LocalsAt(pc[r])

-----------------------------------------------------------------------------
\* Operators.

LEMMA DaysAreNumbers == Days \subseteq Nat \ {0}
<1>1. \A d \in Days : d \in Nat /\ d >= 1
  BY SMT DEF Days
<1> QED  BY <1>1

LEMMA PutIs ==
  ASSUME NEW f, NEW k, NEW x
  PROVE  /\ DOMAIN Put(f, k, x) = DOMAIN f \cup {k}
         /\ Put(f, k, x)[k] = x
         /\ \A j \in DOMAIN f : j # k => Put(f, k, x)[j] = f[j]
  BY DEF Put

LEMMA PutType ==
  ASSUME NEW S, NEW T, NEW f \in [S -> T], NEW k, NEW x \in T
  PROVE  Put(f, k, x) \in [S \cup {k} -> T]
  BY DEF Put

LEMMA KeepIs ==
  ASSUME NEW f, NEW ids
  PROVE  /\ DOMAIN Keep(f, ids) = DOMAIN f \cap ids
         /\ \A j \in DOMAIN f \cap ids : Keep(f, ids)[j] = f[j]
  BY DEF Keep

LEMMA KeepType ==
  ASSUME NEW T, NEW f, f \in [DOMAIN f -> T], NEW ids
  PROVE  Keep(f, ids) \in [DOMAIN f \cap ids -> T]
  BY DEF Keep

\* A row is written with another group.
LEMMA RowWithGroup ==
  ASSUME NEW row \in Row, NEW g \in AnyGroup
  PROVE  /\ [row EXCEPT !.group = g] \in Row
         /\ [row EXCEPT !.group = g].series = row.series
         /\ [row EXCEPT !.group = g].date = row.date
         /\ [row EXCEPT !.group = g].group = g
  BY DEF Row

LEMMA DatesAreDays ==
  ASSUME NEW start, NEW until, NEW repeat
  PROVE  RecurrenceDates(start, until, repeat) \subseteq Days
  BY DEF RecurrenceDates

LEMMA ReadRows ==
  ASSUME NEW x, NEW S, S \subseteq OccIds, x \in [S -> Row]
  PROVE  x \in UNION {[T -> Row] : T \in SUBSET OccIds}
  OBVIOUS

LEMMA RowsRead ==
  ASSUME NEW x \in UNION {[T -> Row] : T \in SUBSET OccIds}
  PROVE  /\ DOMAIN x \subseteq OccIds
         /\ x \in [DOMAIN x -> Row]
  OBVIOUS

-----------------------------------------------------------------------------
\* Types.

LEMMA GotoType ==
  ASSUME RequestsOK, NEW r \in Requests, NEW step \in Steps,
         NEW value \in LocalsAt(step), Goto(r, step, value)
  PROVE  RequestsOK'
<1>1. /\ pc' \in [Requests -> Steps]
      /\ DOMAIN local' = Requests
  BY DEF RequestsOK, Goto
<1>2. pc'[r] = step /\ local'[r] = value
  BY DEF RequestsOK, Goto
<1>3. \A q \in Requests \ {r} : pc'[q] = pc[q] /\ local'[q] = local[q]
  BY DEF RequestsOK, Goto
<1>4. ASSUME NEW q \in Requests PROVE local'[q] \in LocalsAt(pc'[q])
  <2>1. CASE q = r
    BY <1>2, <2>1
  <2>2. CASE q # r
    <3>1. local[q] \in LocalsAt(pc[q])
      BY DEF RequestsOK
    <3> QED  BY <1>3, <2>2, <3>1
  <2> QED  BY <2>1, <2>2
<1>5. \A q \in Requests : local'[q] \in LocalsAt(pc[q])'
  BY <1>4 DEF LocalsAt
<1> QED  BY <1>1, <1>5 DEF RequestsOK

LEMMA FinishType ==
  ASSUME RequestsOK, NEW r \in Requests, Finish(r)
  PROVE  RequestsOK'
<1>1. "idle" \in Steps /\ Nothing \in LocalsAt("idle")
  BY DEF Steps, LocalsAt
<1> QED  BY <1>1, GotoType DEF Finish

LEMMA OvertakenType ==
  ASSUME Reads \/ \E r \in Requests : Writes(r)
  PROVE  overtaken' \in [Requests -> BOOLEAN]
  BY DEF Reads, Writes

LEMMA StaysType ==
  ASSUME TablesOK, UNCHANGED tables PROVE TablesOK'
  BY DEF TablesOK, tables

\* Create ends with nothing written; the dates are days of the calendar.
LEMMA CreateType ==
  ASSUME SeriesAssumption, TablesOK, RequestsOK, NEW r \in Requests,
         NEW group \in AnyGroup, NEW start \in Dates, NEW until \in Untils,
         NEW repeat \in Repeats, Create(r, group, start, repeat, until)
  PROVE  TablesOK' /\ RequestsOK'
<1>0. lastSeries \in 0 .. MaxSeriesIds /\ MaxSeriesIds \in Nat
  BY DEF SeriesAssumption, TablesOK
<1>1. /\ \/ lastSeries' = lastSeries
         \/ lastSeries < MaxSeriesIds /\ lastSeries' = lastSeries + 1
      /\ UNCHANGED <<occs, lastOcc, groups>>
  BY DEF Create
<1>2. TablesOK'
  <2>1. lastSeries' \in 0 .. MaxSeriesIds
    BY <1>0, <1>1
  <2> QED  BY <1>1, <2>1 DEF TablesOK
<1> DEFINE dates == IF repeat = "" THEN {start}
                    ELSE RecurrenceDates(start, until, repeat)
           series == IF Cardinality(dates) > 1 THEN lastSeries + 1 ELSE 0
           value == [group |-> group, series |-> series,
                     left |-> dates, made |-> 0]
<1>3. dates \in SUBSET Days
  BY DatesAreDays DEF SeriesAssumption
<1>4. Goto(r, "crt_insert", value)
  BY DEF Create
<1>5. series \in SeriesIds
  <2>1. series = 0 \/ (series = lastSeries + 1 /\ lastSeries < MaxSeriesIds)
    BY DEF Create
  <2> HIDE DEF series
  <2> QED  BY <1>0, <2>1 DEF SeriesIds
<1>6. value \in Creation
  BY <1>3, <1>5 DEF Creation
<1>7. "crt_insert" \in Steps /\ value \in LocalsAt("crt_insert")
  BY <1>6 DEF Steps, LocalsAt
<1> QED  BY <1>2, <1>4, <1>7, GotoType

LEMMA AfterDateType ==
  ASSUME RequestsOK, NEW r \in Requests, At(r, "crt_insert"),
         NEW d, NEW made \in Nat, AfterDate(r, d, made)
  PROVE  RequestsOK'
<1>1. local[r] \in Creation
  BY DEF RequestsOK, LocalsAt, At
<1> DEFINE value == [local[r] EXCEPT !.left = @ \ {d}, !.made = made]
           step == IF local[r].left = {d} THEN "crt_answer" ELSE "crt_insert"
<1>2. value \in Creation
  BY <1>1 DEF Creation
<1>3. step \in Steps /\ value \in LocalsAt(step)
  BY <1>2 DEF Steps, LocalsAt
<1>4. Goto(r, step, value)
  BY DEF AfterDate
<1> QED  BY <1>3, <1>4, GotoType

\* A row is added under the next id.
LEMMA InsertType ==
  ASSUME SeriesAssumption, TablesOK, NEW row \in Row,
         lastOcc < MaxOccurrences, lastOcc' = lastOcc + 1,
         occs' = Put(occs, lastOcc + 1, row), UNCHANGED <<lastSeries, groups>>
  PROVE  TablesOK'
<1>1. occs \in [DOMAIN occs -> Row] /\ DOMAIN occs \subseteq 1 .. lastOcc
      /\ lastOcc \in Nat
  BY DEF TablesOK
<1>2. occs' \in [DOMAIN occs \cup {lastOcc + 1} -> Row]
  BY <1>1, PutType
<1>3. DOMAIN occs' = DOMAIN occs \cup {lastOcc + 1}
  BY <1>2
<1>4. /\ DOMAIN occs' \subseteq 1 .. lastOcc'
      /\ lastOcc' \in 0 .. MaxOccurrences
  BY <1>1, <1>3 DEF SeriesAssumption
<1> QED  BY <1>2, <1>3, <1>4 DEF TablesOK

LEMMA CreateInsertType ==
  ASSUME SeriesAssumption, TablesOK, RequestsOK, NEW r \in Requests,
         NEW d \in Days, CreateInsert(r, d)
  PROVE  TablesOK' /\ RequestsOK'
<1>1. local[r] \in Creation /\ local[r].made \in Nat /\ At(r, "crt_insert")
  BY DEF RequestsOK, LocalsAt, At, CreateInsert, Creation
<1> DEFINE row == [series |-> local[r].series, date |-> d,
                   group |-> local[r].group]
<1>2. row \in Row
  BY <1>1 DEF Row, Creation
<1>3. TablesOK'
  BY <1>2, InsertType DEF CreateInsert
<1>4. RequestsOK'
  <2>1. local[r].made + 1 \in Nat
    BY <1>1
  <2> QED  BY <1>1, <2>1, AfterDateType DEF CreateInsert
<1> QED  BY <1>3, <1>4

LEMMA CreateFailsType ==
  ASSUME TablesOK, RequestsOK, NEW r \in Requests,
         NEW d \in Days, CreateInsertFails(r, d)
  PROVE  TablesOK' /\ RequestsOK'
<1>1. local[r].made \in Nat /\ At(r, "crt_insert")
  BY DEF RequestsOK, LocalsAt, At, CreateInsertFails, Creation
<1> QED  BY <1>1, AfterDateType, StaysType DEF CreateInsertFails

LEMMA UpdateType ==
  ASSUME TablesOK, RequestsOK, NEW r \in Requests, NEW o \in OccIds,
         NEW group \in AnyGroup, NEW date \in Dates, NEW scope \in Scopes,
         SeriesAssumption, Update(r, o, group, date, scope)
  PROVE  TablesOK' /\ RequestsOK'
<1> DEFINE value == [occ |-> o, group |-> group, date |-> date,
                     scope |-> scope]
<1>1. value \in EditForm
  BY DEF EditForm, SeriesAssumption
<1>2. "upd_get" \in Steps /\ value \in LocalsAt("upd_get")
  BY <1>1 DEF Steps, LocalsAt
<1> QED  BY <1>2, GotoType, StaysType DEF Update

LEMMA UpdateGetType ==
  ASSUME TablesOK, RequestsOK, NEW r \in Requests, UpdateGet(r)
  PROVE  TablesOK' /\ RequestsOK'
<1> DEFINE job == local[r]
           existing == occs[job.occ]
           single == [occ |-> job.occ,
                      row |-> [series |-> existing.series, date |-> job.date,
                               group |-> job.group]]
           from == IF job.scope = "all" THEN 1 ELSE existing.date
           several == [group |-> job.group, series |-> existing.series,
                       from |-> from]
<1>1. job \in EditForm /\ existing \in Row
  BY DEF RequestsOK, LocalsAt, At, UpdateGet, TablesOK
<1>2. single \in SingleEdit
  BY <1>1 DEF SingleEdit, EditForm, Row
<1>3. from \in Nat
  BY <1>1, DaysAreNumbers DEF Row
<1>4. several \in SeriesRead
  BY <1>1, <1>3 DEF SeriesRead, EditForm, Row
<1>5. /\ "upd_save" \in Steps /\ single \in LocalsAt("upd_save")
      /\ "upd_siblings" \in Steps /\ several \in LocalsAt("upd_siblings")
  BY <1>2, <1>4 DEF Steps, LocalsAt
<1>6. Goto(r, "upd_save", single) \/ Goto(r, "upd_siblings", several)
  BY DEF UpdateGet
<1> QED  BY <1>5, <1>6, GotoType, StaysType DEF UpdateGet

\* A row is replaced by another one.
LEMMA ReplaceType ==
  ASSUME TablesOK, NEW o, NEW row \in Row,
         occs' = occs \/ occs' = [occs EXCEPT ![o] = row],
         UNCHANGED <<lastOcc, lastSeries, groups>>
  PROVE  TablesOK'
  BY DEF TablesOK

LEMMA UpdateSaveType ==
  ASSUME TablesOK, RequestsOK, NEW r \in Requests, UpdateSave(r)
  PROVE  TablesOK' /\ RequestsOK'
<1>1. local[r].row \in Row
  BY DEF RequestsOK, LocalsAt, At, UpdateSave, SingleEdit
<1> QED  BY <1>1, ReplaceType, FinishType DEF UpdateSave

LEMMA UpdateReadType ==
  ASSUME SeriesAssumption, TablesOK, RequestsOK, NEW r \in Requests,
         UpdateReadSiblings(r)
  PROVE  TablesOK' /\ RequestsOK'
<1> DEFINE job == local[r]
           ids == {o \in Members(job.series) : occs[o].date >= job.from}
           step == IF ids = {} THEN "upd_answer" ELSE "upd_series"
           value == [group |-> job.group, series |-> job.series,
                     from |-> job.from, rows |-> Keep(occs, ids)]
<1>1. job \in SeriesRead
  BY DEF RequestsOK, LocalsAt, At, UpdateReadSiblings
<1>2. Keep(occs, ids) \in [DOMAIN occs \cap ids -> Row]
  BY KeepType DEF TablesOK
<1>3. DOMAIN occs \cap ids \subseteq OccIds
  BY DEF TablesOK, OccIds, SeriesAssumption
<1>4. value \in SeriesEdit
  BY <1>1, <1>2, <1>3, ReadRows DEF SeriesEdit, SeriesRead
<1>5. step \in Steps /\ value \in LocalsAt(step)
  BY <1>4 DEF Steps, LocalsAt
<1>6. Goto(r, step, value)
  BY DEF UpdateReadSiblings
<1> QED  BY <1>5, <1>6, GotoType, StaysType DEF UpdateReadSiblings

LEMMA UpdateSiblingType ==
  ASSUME TablesOK, RequestsOK, NEW r \in Requests, NEW o \in OccIds,
         UpdateSaveSibling(r, o)
  PROVE  TablesOK' /\ RequestsOK'
<1> DEFINE rows == local[r].rows
           saved == [rows[o] EXCEPT !.group = local[r].group]
           step == IF DOMAIN rows = {o} THEN "upd_answer" ELSE "upd_series"
           value == [local[r] EXCEPT !.rows = Keep(rows, DOMAIN rows \ {o})]
<1>1. local[r] \in SeriesEdit /\ o \in DOMAIN rows
  BY DEF RequestsOK, LocalsAt, At, UpdateSaveSibling, NextSibling
<1>2. DOMAIN rows \subseteq OccIds /\ rows \in [DOMAIN rows -> Row]
  BY <1>1, RowsRead DEF SeriesEdit
<1>3. saved \in Row
  <2>1. rows[o] \in Row /\ local[r].group \in AnyGroup
    BY <1>1, <1>2 DEF SeriesEdit
  <2> QED  BY <2>1, RowWithGroup
<1>4. TablesOK'
  BY <1>3, ReplaceType DEF UpdateSaveSibling
<1>5. Keep(rows, DOMAIN rows \ {o}) \in UNION {[T -> Row] : T \in SUBSET OccIds}
  <2> DEFINE S == DOMAIN rows \cap (DOMAIN rows \ {o})
  <2>1. Keep(rows, DOMAIN rows \ {o}) \in [S -> Row]
    <3> HIDE DEF rows
    <3> QED  BY <1>2, KeepType
  <2>2. S \subseteq OccIds
    BY <1>2
  <2> HIDE DEF S
  <2> QED  BY <2>1, <2>2, ReadRows
<1>6. value \in SeriesEdit
  BY <1>1, <1>5 DEF SeriesEdit
<1>7. step \in Steps /\ value \in LocalsAt(step)
  BY <1>6 DEF Steps, LocalsAt
<1>8. Goto(r, step, value)
  BY DEF UpdateSaveSibling
<1> QED  BY <1>4, <1>7, <1>8, GotoType

LEMMA DeleteType ==
  ASSUME SeriesAssumption, TablesOK, RequestsOK, NEW r \in Requests,
         NEW o \in OccIds, NEW scope \in Scopes, Delete(r, o, scope)
  PROVE  TablesOK' /\ RequestsOK'
<1> DEFINE series == IF scope = "single" \/ o \notin DOMAIN occs THEN 0
                     ELSE occs[o].series
           from == IF scope = "future" /\ series # 0 THEN occs[o].date ELSE 1
           value == [occ |-> o, series |-> series, from |-> from]
<1>1. o \in DOMAIN occs => occs[o] \in Row
  BY DEF TablesOK
<1>2. series \in SeriesIds
  BY <1>1 DEF Row, SeriesIds, SeriesAssumption
<1>3. from \in Nat
  BY <1>1, DaysAreNumbers DEF Row
<1>4. value \in Deletion
  BY <1>2, <1>3 DEF Deletion
<1>5. "del_run" \in Steps /\ value \in LocalsAt("del_run")
  BY <1>4 DEF Steps, LocalsAt
<1>6. Goto(r, "del_run", value)
  BY DEF Delete
<1> QED  BY <1>5, <1>6, GotoType, StaysType DEF Delete

LEMMA DeleteRunType ==
  ASSUME TablesOK, RequestsOK, NEW r \in Requests, DeleteRun(r)
  PROVE  TablesOK' /\ RequestsOK'
<1> DEFINE ids == DOMAIN occs \ Doomed(local[r])
<1>1. occs' \in [DOMAIN occs \cap ids -> Row]
  BY KeepType DEF DeleteRun, TablesOK
<1>2. TablesOK'
  BY <1>1 DEF TablesOK, DeleteRun
<1> QED  BY <1>2, FinishType DEF DeleteRun

LEMMA GroupType ==
  ASSUME TablesOK, RequestsOK, NEW r \in Requests,
         \/ \E group \in Groups, color \in Colors :
              CreateGroup(r, group, color) \/ UpdateColor(r, group, color)
         \/ \E group \in Groups : DeleteGroup(r, group)
         \/ UpdateColorSave(r)
  PROVE  TablesOK' /\ RequestsOK'
<1>1. ASSUME NEW group \in Groups, NEW color \in Colors,
             CreateGroup(r, group, color)
      PROVE  TablesOK' /\ RequestsOK'
  <2>1. groups' \in [DOMAIN groups \cup {group} -> Colors]
    BY <1>1, PutType DEF CreateGroup, TablesOK
  <2> QED  BY <1>1, <2>1 DEF CreateGroup, TablesOK, RequestsOK
<1>2. ASSUME NEW group \in Groups, NEW color \in Colors,
             UpdateColor(r, group, color)
      PROVE  TablesOK' /\ RequestsOK'
  <2> DEFINE value == [group |-> group, color |-> color]
  <2>1. "grp_save" \in Steps /\ value \in LocalsAt("grp_save")
    BY DEF Steps, LocalsAt, Coloring
  <2> QED  BY <1>2, <2>1, GotoType, StaysType DEF UpdateColor
<1>3. ASSUME NEW group \in Groups, DeleteGroup(r, group)
      PROVE  TablesOK' /\ RequestsOK'
  <2> DEFINE ids == DOMAIN groups \ {group}
  <2>1. groups' \in [DOMAIN groups \cap ids -> Colors]
    BY <1>3, KeepType DEF DeleteGroup, TablesOK
  <2>2. DOMAIN occs' = DOMAIN occs
    BY <1>3 DEF DeleteGroup
  <2>3. ASSUME NEW o \in DOMAIN occs
        PROVE  /\ occs[o] \in Row
               /\ [occs[o] EXCEPT !.group = 0] \in Row
    <3>1. occs[o] \in Row
      BY DEF TablesOK
    <3>2. 0 \in AnyGroup
      BY DEF AnyGroup
    <3> QED  BY <3>1, <3>2, RowWithGroup
  <2>4. occs' \in [DOMAIN occs -> Row]
    BY <1>3, <2>3 DEF DeleteGroup
  <2> QED  BY <1>3, <2>1, <2>2, <2>4 DEF DeleteGroup, TablesOK, RequestsOK
<1>4. CASE UpdateColorSave(r)
  <2>1. local[r] \in Coloring
    BY <1>4 DEF RequestsOK, LocalsAt, At, UpdateColorSave
  <2>2. groups' \in [DOMAIN groups -> Colors]
    BY <1>4, <2>1 DEF UpdateColorSave, Coloring, TablesOK
  <2>3. DOMAIN groups' = DOMAIN groups
    BY <2>2
  <2> QED  BY <1>4, <2>2, <2>3, FinishType DEF UpdateColorSave, TablesOK
<1> QED  BY <1>1, <1>2, <1>3, <1>4

LEMMA StepType ==
  ASSUME SeriesAssumption, TypeOK, NEW r \in Requests, Step(r)
  PROVE  TablesOK' /\ RequestsOK'
<1>0. TablesOK /\ RequestsOK
  BY DEF TypeOK, TablesOK, RequestsOK
<1>1. CASE Start(r)
  BY <1>0, <1>1, CreateType, UpdateType, DeleteType, GroupType DEF Start
<1>2. CASE Continue(r)
  <2>1. CASE \E d \in Days : CreateInsert(r, d) \/ CreateInsertFails(r, d)
    BY <1>0, <2>1, CreateInsertType, CreateFailsType
  <2>2. CASE CreateAnswer(r) \/ UpdateAnswer(r)
    BY <1>0, <2>2, FinishType, StaysType DEF CreateAnswer, UpdateAnswer
  <2>3. CASE UpdateGet(r)
    BY <1>0, <2>3, UpdateGetType
  <2>4. CASE UpdateSave(r)
    BY <1>0, <2>4, UpdateSaveType
  <2>5. CASE UpdateReadSiblings(r)
    BY <1>0, <2>5, UpdateReadType
  <2>6. CASE \E o \in OccIds : UpdateSaveSibling(r, o)
    BY <1>0, <2>6, UpdateSiblingType
  <2>7. CASE DeleteRun(r)
    BY <1>0, <2>7, DeleteRunType
  <2>8. CASE UpdateColorSave(r)
    BY <1>0, <2>8, GroupType
  <2> QED  BY <1>2, <2>1, <2>2, <2>3, <2>4, <2>5, <2>6, <2>7, <2>8
           DEF Continue
<1>3. CASE Fail(r)
  BY <1>0, <1>3, FinishType, StaysType DEF Fail
<1> QED  BY <1>1, <1>2, <1>3 DEF Step

\* Whoever acts is told apart from those it may overtake.
LEMMA StepOvertakes ==
  ASSUME NEW r \in Requests, Step(r)
  PROVE  Reads \/ Writes(r)
<1>1. CASE Start(r)
  BY <1>1 DEF Start, Create, Update, Delete, CreateGroup, UpdateColor,
              DeleteGroup
<1>2. CASE Continue(r)
  BY <1>2 DEF Continue, CreateInsert, CreateInsertFails, CreateAnswer,
              UpdateGet, UpdateSave, UpdateReadSiblings, UpdateSaveSibling,
              UpdateAnswer, DeleteRun, UpdateColorSave
<1> QED  BY <1>1, <1>2 DEF Step, Fail

LEMMA InitType == ASSUME SeriesAssumption, Init PROVE TypeOK
  BY DEF SeriesAssumption, Init, TypeOK, Steps, LocalsAt, Row

\* Tables and requests keep their types in every behaviour, whatever the
\* calendar: what a request has read is what its next statement needs.
THEOREM SeriesTypeCorrect == ASSUME SeriesAssumption PROVE Spec => []TypeOK
<1>1. Init => TypeOK
  BY InitType
<1>2. TypeOK /\ [Next]_vars => TypeOK'
  <2>1. ASSUME TypeOK, NEW r \in Requests, Step(r) PROVE TypeOK'
    BY <2>1, StepType, StepOvertakes, OvertakenType
       DEF TypeOK, TablesOK, RequestsOK
  <2>2. ASSUME TypeOK, UNCHANGED vars PROVE TypeOK'
    BY <2>2 DEF vars, TypeOK, LocalsAt
  <2> QED  BY <2>1, <2>2 DEF Next, Step
<1> QED  BY <1>1, <1>2, PTL DEF Spec

-----------------------------------------------------------------------------
\* What a step does to the request that takes it, and to the others.

LEMMA WritingSteps ==
  ASSUME NEW r \in Requests, Step(r)
  PROVE  \/ UNCHANGED <<occs, lastOcc>>
         \/ \E d \in Days : CreateInsert(r, d)
         \/ UpdateSave(r)
         \/ \E o \in OccIds : UpdateSaveSibling(r, o)
         \/ DeleteRun(r)
         \/ \E group \in Groups : DeleteGroup(r, group)
<1>1. CASE Start(r)
  BY <1>1 DEF Start, Create, Update, Delete, CreateGroup, UpdateColor, tables
<1>2. CASE Continue(r)
  BY <1>2 DEF Continue, CreateInsertFails, CreateAnswer, UpdateGet,
              UpdateReadSiblings, UpdateAnswer, UpdateColorSave, tables
<1>3. CASE Fail(r)
  BY <1>3 DEF Fail, tables
<1> QED  BY <1>1, <1>2, <1>3 DEF Step

\* The others go on from where they are; if anything was written while they
\* are in progress, they are overtaken.
LEMMA StepLeaves ==
  ASSUME RequestsOK, NEW r \in Requests, Step(r),
         NEW q \in Requests \ {r}
  PROVE  /\ pc'[q] = pc[q] /\ local'[q] = local[q]
         /\ pc[q] # "idle" =>
              \/ overtaken'[q]
              \/ /\ UNCHANGED <<occs, lastOcc>>
                 /\ overtaken[q] => overtaken'[q]
<1>1. \/ UNCHANGED <<pc, local>>
      \/ \E step, value : Goto(r, step, value)
  <2>1. CASE Start(r)
    BY <2>1 DEF Start, Create, Update, Delete, CreateGroup, UpdateColor,
                DeleteGroup
  <2>2. CASE Continue(r)
    BY <2>2 DEF Continue, CreateInsert, CreateInsertFails, CreateAnswer,
                UpdateGet, UpdateSave, UpdateReadSiblings, UpdateSaveSibling,
                UpdateAnswer, DeleteRun, UpdateColorSave, AfterDate, Finish
  <2> QED  BY <2>1, <2>2 DEF Step, Fail, Finish
<1>2. pc'[q] = pc[q] /\ local'[q] = local[q]
  BY <1>1 DEF RequestsOK, Goto
<1>3. (Reads /\ UNCHANGED <<occs, lastOcc>>) \/ Writes(r)
  <2>1. CASE Start(r)
    BY <2>1 DEF Start, Create, Update, Delete, CreateGroup, UpdateColor,
                DeleteGroup, tables
  <2>2. CASE Continue(r)
    BY <2>2 DEF Continue, CreateInsert, CreateInsertFails, CreateAnswer,
                UpdateGet, UpdateSave, UpdateReadSiblings, UpdateSaveSibling,
                UpdateAnswer, DeleteRun, UpdateColorSave, tables
  <2> QED  BY <2>1, <2>2 DEF Step, Fail, tables
<1>4. CASE Reads /\ UNCHANGED <<occs, lastOcc>>
  BY <1>2, <1>4 DEF Reads
<1>5. CASE Writes(r)
  BY <1>2, <1>5 DEF Writes
<1> QED  BY <1>2, <1>3, <1>4, <1>5

\* The steps by which a request comes to a statement.
LEMMA Arrivals ==
  ASSUME RequestsOK, NEW r \in Requests, Step(r)
  PROVE  /\ pc'[r] = "upd_save" => UpdateGet(r)
         /\ pc'[r] \in {"upd_series", "upd_answer"} =>
              \/ UpdateReadSiblings(r)
              \/ \E o \in OccIds : UpdateSaveSibling(r, o)
         /\ pc'[r] = "del_run" =>
              \E o \in OccIds, scope \in Scopes : Delete(r, o, scope)
         /\ pc'[r] \in {"crt_insert", "crt_answer"} =>
              \/ \E group \in AnyGroup, start \in Dates, until \in Untils,
                    repeat \in Repeats : Create(r, group, start, repeat, until)
              \/ \E d \in Days : CreateInsert(r, d) \/ CreateInsertFails(r, d)
<1>0. \A step, value : Goto(r, step, value) => pc'[r] = step
  BY DEF RequestsOK, Goto
<1>1. CASE \E o \in OccIds, group \in AnyGroup, date \in Dates,
              scope \in Scopes : Update(r, o, group, date, scope)
  <2>1. pc'[r] = "upd_get"
    BY <1>0, <1>1 DEF Update
  <2> QED  BY <2>1
<1>2. CASE \E o \in OccIds, scope \in Scopes : Delete(r, o, scope)
  <2>1. pc'[r] = "del_run"
    BY <1>0, <1>2 DEF Delete
  <2> QED  BY <1>2, <2>1
<1>3. CASE \/ \E group \in Groups, color \in Colors :
                CreateGroup(r, group, color)
           \/ \E group \in Groups : DeleteGroup(r, group)
  <2>1. pc'[r] = "idle"
    BY <1>3 DEF CreateGroup, DeleteGroup
  <2> QED  BY <2>1
<1>4. CASE \E group \in Groups, color \in Colors : UpdateColor(r, group, color)
  <2>1. pc'[r] = "grp_save"
    BY <1>0, <1>4 DEF UpdateColor
  <2> QED  BY <2>1
<1>5. CASE \/ CreateAnswer(r) \/ UpdateAnswer(r) \/ UpdateSave(r)
           \/ DeleteRun(r) \/ UpdateColorSave(r) \/ Fail(r)
  <2>1. pc'[r] = "idle"
    BY <1>0, <1>5 DEF CreateAnswer, UpdateAnswer, UpdateSave, DeleteRun,
                      UpdateColorSave, Fail, Finish
  <2> QED  BY <2>1
<1>6. CASE UpdateGet(r)
  <2>1. pc'[r] \in {"upd_save", "upd_siblings"}
    BY <1>0, <1>6 DEF UpdateGet
  <2> QED  BY <1>6, <2>1
<1>7. CASE UpdateReadSiblings(r) \/ \E o \in OccIds : UpdateSaveSibling(r, o)
  <2>1. pc'[r] \in {"upd_series", "upd_answer"}
    BY <1>0, <1>7 DEF UpdateReadSiblings, UpdateSaveSibling
  <2> QED  BY <1>7, <2>1
<1>8. CASE \/ \E group \in AnyGroup, start \in Dates, until \in Untils,
                 repeat \in Repeats : Create(r, group, start, repeat, until)
           \/ \E d \in Days : CreateInsert(r, d) \/ CreateInsertFails(r, d)
  <2>1. pc'[r] \in {"crt_insert", "crt_answer"}
    BY <1>0, <1>8 DEF Create, CreateInsert, CreateInsertFails, AfterDate
  <2> QED  BY <1>8, <2>1
<1> QED  BY <1>1, <1>2, <1>3, <1>4, <1>5, <1>6, <1>7, <1>8
         DEF Step, Start, Continue

-----------------------------------------------------------------------------
\* Groups.

LEMMA InitGroups == ASSUME Init PROVE GroupsExist
  BY DEF Init, GroupsExist

LEMMA StepGroups ==
  ASSUME TypeOK, GroupsExist, NEW r \in Requests, Step(r)
  PROVE  GroupsExist'
<1>0. TablesOK /\ RequestsOK
  BY DEF TypeOK, TablesOK, RequestsOK
<1>1. \/ UNCHANGED groups
      \/ \E group \in Groups, color \in Colors : CreateGroup(r, group, color)
      \/ \E group \in Groups : DeleteGroup(r, group)
      \/ UpdateColorSave(r)
  <2>1. CASE Start(r)
    BY <2>1 DEF Start, Create, Update, Delete, UpdateColor, tables
  <2>2. CASE Continue(r)
    BY <2>2 DEF Continue, CreateInsert, CreateInsertFails, CreateAnswer,
                UpdateGet, UpdateSave, UpdateReadSiblings, UpdateSaveSibling,
                UpdateAnswer, DeleteRun, tables
  <2> QED  BY <2>1, <2>2 DEF Step, Fail, tables
<1>2. ASSUME NEW group \in Groups, NEW color \in Colors,
             CreateGroup(r, group, color)
      PROVE  GroupsExist'
  <2>1. DOMAIN groups' = DOMAIN groups \cup {group}
    BY <1>2, PutIs DEF CreateGroup
  <2> QED  BY <1>2, <2>1 DEF CreateGroup, GroupsExist
<1>3. ASSUME NEW group \in Groups, DeleteGroup(r, group)
      PROVE  GroupsExist'
  <2>1. DOMAIN groups' = DOMAIN groups \ {group}
    <3>1. groups' = Keep(groups, DOMAIN groups \ {group})
      BY <1>3 DEF DeleteGroup
    <3>2. DOMAIN groups' = DOMAIN groups \cap (DOMAIN groups \ {group})
      BY <3>1, KeepIs
    <3> QED  BY <3>2
  <2>2. ASSUME NEW o \in DOMAIN occs
        PROVE  occs'[o].group = IF occs[o].group = group THEN 0
                                ELSE occs[o].group
    <3>1. occs[o] \in Row
      BY <1>0 DEF TablesOK
    <3>2. 0 \in AnyGroup
      BY DEF AnyGroup
    <3> QED  BY <1>3, <3>1, <3>2, RowWithGroup DEF DeleteGroup
  <2>3. DOMAIN occs' = DOMAIN occs
    BY <1>3 DEF DeleteGroup
  <2> QED  BY <2>1, <2>2, <2>3 DEF GroupsExist
<1>4. CASE UpdateColorSave(r)
  BY <1>4 DEF UpdateColorSave, GroupsExist
<1>5. CASE UNCHANGED <<groups, occs>>
  BY <1>5 DEF GroupsExist
<1>6. ASSUME NEW d \in Days, CreateInsert(r, d), UNCHANGED groups
      PROVE  GroupsExist'
  <2> DEFINE row == [series |-> local[r].series, date |-> d,
                     group |-> local[r].group]
  <2>1. /\ DOMAIN occs' = DOMAIN occs \cup {lastOcc + 1}
        /\ occs'[lastOcc + 1] = row
        /\ \A o \in DOMAIN occs : o # lastOcc + 1 => occs'[o] = occs[o]
    <3> HIDE DEF row
    <3>1. occs' = Put(occs, lastOcc + 1, row)
      BY <1>6 DEF CreateInsert, row
    <3> QED  BY <3>1 DEF Put
  <2>2. row.group = 0 \/ row.group \in DOMAIN groups
    BY <1>6 DEF CreateInsert, HasGroup
  <2> HIDE DEF row
  <2>3. ASSUME NEW o \in DOMAIN occs', occs'[o].group # 0
        PROVE  occs'[o].group \in DOMAIN groups
    BY <2>1, <2>2, <2>3 DEF GroupsExist
  <2> QED  BY <1>6, <2>3 DEF GroupsExist
<1>7. ASSUME NEW o, NEW row, row.group = 0 \/ row.group \in DOMAIN groups,
             UNCHANGED groups, occs' = [occs EXCEPT ![o] = row]
      PROVE  GroupsExist'
  BY <1>7 DEF GroupsExist
<1>8. CASE UpdateSave(r)
  BY <1>5, <1>7, <1>8 DEF UpdateSave, HasGroup
<1>9. ASSUME NEW o \in OccIds, UpdateSaveSibling(r, o)
      PROVE  GroupsExist'
  BY <1>5, <1>7, <1>9 DEF UpdateSaveSibling, HasGroup
<1>10. CASE DeleteRun(r)
  <2>1. /\ DOMAIN occs' \subseteq DOMAIN occs
        /\ \A o \in DOMAIN occs' : occs'[o] = occs[o]
    BY <1>10, KeepIs DEF DeleteRun
  <2> QED  BY <1>10, <2>1 DEF DeleteRun, GroupsExist
<1> QED  BY <1>1, <1>2, <1>3, <1>4, <1>5, <1>6, <1>8, <1>9, <1>10,
            WritingSteps

\* However groups are deleted between the look-up of a form's group and the
\* rows written with it, no duty is left with a group that is gone.
THEOREM GroupsAlwaysExist ==
  ASSUME SeriesAssumption PROVE Spec => []GroupsExist
<1>1. Init => GroupsExist
  BY InitGroups
<1>2. TypeOK /\ GroupsExist /\ [Next]_vars => GroupsExist'
  <2>1. ASSUME GroupsExist, UNCHANGED vars PROVE GroupsExist'
    BY <2>1 DEF vars, GroupsExist
  <2> QED  BY <2>1, StepGroups DEF Next, Step
<1> QED  BY <1>1, <1>2, SeriesTypeCorrect, PTL DEF Spec

-----------------------------------------------------------------------------
\* What the statements that write do to the table.

LEMMA InsertIs ==
  ASSUME TablesOK, NEW r \in Requests, NEW d \in Days, CreateInsert(r, d)
  PROVE  /\ lastOcc \in Nat /\ lastOcc + 1 \notin DOMAIN occs
         /\ lastOcc' = lastOcc + 1
         /\ DOMAIN occs' = DOMAIN occs \cup {lastOcc + 1}
         /\ \A o \in DOMAIN occs : occs'[o] = occs[o]
         /\ occs'[lastOcc + 1].series = local[r].series
         /\ occs'[lastOcc + 1].group = local[r].group
<1> DEFINE row == [series |-> local[r].series, date |-> d,
                   group |-> local[r].group]
<1>1. lastOcc \in Nat /\ DOMAIN occs \subseteq 1 .. lastOcc
  BY DEF TablesOK
<1>2. lastOcc + 1 \notin DOMAIN occs
  BY <1>1
<1>3. lastOcc' = lastOcc + 1 /\ occs' = Put(occs, lastOcc + 1, row)
  BY DEF CreateInsert
<1>4. row.series = local[r].series /\ row.group = local[r].group
  OBVIOUS
<1> HIDE DEF row
<1>5. /\ DOMAIN occs' = DOMAIN occs \cup {lastOcc + 1}
      /\ occs'[lastOcc + 1] = row
      /\ \A o \in DOMAIN occs : o # lastOcc + 1 => occs'[o] = occs[o]
  BY <1>3 DEF Put
<1> QED  BY <1>1, <1>2, <1>3, <1>4, <1>5

LEMMA SaveIs ==
  ASSUME TablesOK, NEW r \in Requests, UpdateSave(r)
  PROVE  /\ DOMAIN occs' = DOMAIN occs /\ lastOcc' = lastOcc
         /\ \A o \in DOMAIN occs :
              occs'[o] = IF o = local[r].occ THEN local[r].row ELSE occs[o]
  BY DEF TablesOK, UpdateSave

\* Of the request as well, which has the row behind it.
LEMMA SiblingIs ==
  ASSUME TablesOK, RequestsOK, NEW r \in Requests, NEW o \in OccIds,
         UpdateSaveSibling(r, o)
  PROVE  LET rows == local[r].rows
         IN /\ At(r, "upd_series") /\ o \in DOMAIN rows
            /\ DOMAIN occs' = DOMAIN occs /\ lastOcc' = lastOcc
            /\ \A p \in DOMAIN occs : p # o => occs'[p] = occs[p]
            /\ o \in DOMAIN occs => /\ occs'[o].series = rows[o].series
                                    /\ occs'[o].date = rows[o].date
                                    /\ occs'[o].group = local[r].group
            /\ pc'[r] = "upd_answer" => DOMAIN rows = {o}
            /\ DOMAIN local'[r].rows = DOMAIN rows \ {o}
            /\ \A p \in DOMAIN rows \ {o} : local'[r].rows[p] = rows[p]
            /\ local'[r].series = local[r].series
            /\ local'[r].from = local[r].from
            /\ local'[r].group = local[r].group
<1> DEFINE rows == local[r].rows
           saved == [rows[o] EXCEPT !.group = local[r].group]
           step == IF DOMAIN rows = {o} THEN "upd_answer" ELSE "upd_series"
           rest == Keep(rows, DOMAIN rows \ {o})
           value == [local[r] EXCEPT !.rows = rest]
<1>1. local[r] \in SeriesEdit /\ At(r, "upd_series") /\ o \in DOMAIN rows
  BY DEF RequestsOK, LocalsAt, At, UpdateSaveSibling, NextSibling
<1>2. rows[o] \in Row /\ local[r].group \in AnyGroup
  BY <1>1, RowsRead DEF SeriesEdit
<1>3. /\ saved.series = rows[o].series
      /\ saved.date = rows[o].date
      /\ saved.group = local[r].group
  BY <1>2, RowWithGroup
<1>4. /\ Goto(r, step, value) /\ lastOcc' = lastOcc
      /\ occs' = IF o \in DOMAIN occs THEN [occs EXCEPT ![o] = saved] ELSE occs
  BY DEF UpdateSaveSibling
<1>5. pc'[r] = step /\ local'[r] = value
  BY <1>4 DEF RequestsOK, Goto
<1>6. /\ value.rows = rest /\ value.series = local[r].series
      /\ value.from = local[r].from /\ value.group = local[r].group
  BY <1>1 DEF SeriesEdit
<1>7. /\ DOMAIN rest = DOMAIN rows \ {o}
      /\ \A p \in DOMAIN rows \ {o} : rest[p] = rows[p]
  BY DEF Keep
<1>8. /\ DOMAIN occs' = DOMAIN occs
      /\ \A p \in DOMAIN occs : p # o => occs'[p] = occs[p]
      /\ o \in DOMAIN occs => occs'[o] = saved
  <2> HIDE DEF saved
  <2> QED  BY <1>4 DEF TablesOK
<1>9. step = "upd_answer" => DOMAIN rows = {o}
  OBVIOUS
<1> HIDE DEF saved, step, rest, value
<1> QED  BY <1>1, <1>3, <1>4, <1>5, <1>6, <1>7, <1>8, <1>9

LEMMA DeleteRunIs ==
  ASSUME NEW r \in Requests, DeleteRun(r)
  PROVE  /\ DOMAIN occs' = DOMAIN occs \ Doomed(local[r])
         /\ lastOcc' = lastOcc
         /\ \A o \in DOMAIN occs' : occs'[o] = occs[o]
  BY DEF DeleteRun, Keep

LEMMA DeleteGroupIs ==
  ASSUME TablesOK, NEW r \in Requests, NEW group \in Groups,
         DeleteGroup(r, group)
  PROVE  /\ DOMAIN occs' = DOMAIN occs
         /\ lastOcc' = lastOcc
         /\ \A o \in DOMAIN occs : /\ occs'[o].series = occs[o].series
                                   /\ occs'[o].date = occs[o].date
<1>1. ASSUME NEW o \in DOMAIN occs
      PROVE  /\ [occs[o] EXCEPT !.group = 0].series = occs[o].series
             /\ [occs[o] EXCEPT !.group = 0].date = occs[o].date
  <2>1. occs[o] \in Row /\ 0 \in AnyGroup
    BY DEF TablesOK, AnyGroup
  <2> QED  BY <2>1, RowWithGroup
<1> QED  BY <1>1 DEF DeleteGroup

-----------------------------------------------------------------------------
\* Rows in the hands of a request.

\* A row to be saved is in the series it was read in,
SaveInPlace(r) ==
  At(r, "upd_save") =>
    LET o == local[r].occ
    IN /\ o <= lastOcc
       /\ o \in DOMAIN occs => occs[o].series = local[r].row.series

\* and so are those of a series, at the dates they had, if nobody else has
\* written since.
SiblingsInPlace(r) ==
  At(r, "upd_series") =>
    LET rows == local[r].rows
    IN /\ DOMAIN rows \subseteq 1 .. lastOcc
       /\ \A o \in DOMAIN rows \cap DOMAIN occs :
            /\ occs[o].series = rows[o].series
            /\ ~overtaken[r] => occs[o].date = rows[o].date

InPlace == \A r \in Requests : SaveInPlace(r) /\ SiblingsInPlace(r)

\* With such rows no step changes the series of a duty.
LEMMA StepStays ==
  ASSUME TypeOK, InPlace, NEW r \in Requests, Step(r)
  PROVE  StaysInSeries /\ lastOcc' >= lastOcc /\ lastOcc' \in Nat
<1>0. TablesOK /\ RequestsOK /\ lastOcc \in Nat
      /\ DOMAIN occs \subseteq 1 .. lastOcc
  BY DEF TypeOK, TablesOK, RequestsOK
<1>1. CASE UNCHANGED <<occs, lastOcc>>
  BY <1>0, <1>1 DEF StaysInSeries
<1>2. ASSUME NEW d \in Days, CreateInsert(r, d)
      PROVE  StaysInSeries /\ lastOcc' >= lastOcc /\ lastOcc' \in Nat
  BY <1>0, <1>2, InsertIs DEF StaysInSeries
<1>3. CASE UpdateSave(r)
  <2>1. SaveInPlace(r) /\ At(r, "upd_save")
    BY <1>3 DEF InPlace, UpdateSave
  <2> QED  BY <1>0, <1>3, <2>1, SaveIs DEF SaveInPlace, StaysInSeries
<1>4. ASSUME NEW o \in OccIds, UpdateSaveSibling(r, o)
      PROVE  StaysInSeries /\ lastOcc' >= lastOcc /\ lastOcc' \in Nat
  <2>1. SiblingsInPlace(r)
    BY DEF InPlace
  <2> QED  BY <1>0, <1>4, <2>1, SiblingIs DEF SiblingsInPlace, StaysInSeries
<1>5. CASE DeleteRun(r)
  <2>1. /\ DOMAIN occs' \subseteq DOMAIN occs
        /\ lastOcc' = lastOcc
        /\ \A o \in DOMAIN occs' : occs'[o] = occs[o]
    BY <1>5, DeleteRunIs
  <2> QED  BY <1>0, <2>1 DEF StaysInSeries
<1>6. ASSUME NEW group \in Groups, DeleteGroup(r, group)
      PROVE  StaysInSeries /\ lastOcc' >= lastOcc /\ lastOcc' \in Nat
  BY <1>0, <1>6, DeleteGroupIs DEF StaysInSeries
<1> QED  BY <1>1, <1>2, <1>3, <1>4, <1>5, <1>6, WritingSteps

LEMMA InPlaceSave ==
  ASSUME TypeOK, InPlace, NEW r \in Requests, Step(r), NEW q \in Requests
  PROVE  SaveInPlace(q)'
<1>0. /\ TablesOK /\ RequestsOK /\ lastOcc \in Nat
      /\ DOMAIN occs \subseteq 1 .. lastOcc
  BY DEF TypeOK, TablesOK, RequestsOK
<1>1. CASE q # r
  <2>1. pc'[q] = pc[q] /\ local'[q] = local[q]
    BY <1>0, <1>1, StepLeaves
  <2>2. /\ \A o \in DOMAIN occs \cap DOMAIN occs' :
             occs'[o].series = occs[o].series
        /\ DOMAIN occs' \cap 1 .. lastOcc \subseteq DOMAIN occs
        /\ lastOcc' >= lastOcc /\ lastOcc' \in Nat
    BY StepStays DEF StaysInSeries
  <2>3. SaveInPlace(q)
    BY DEF InPlace
  <2>4. At(q, "upd_save") => local[q].occ \in Nat \ {0}
    BY <1>0 DEF RequestsOK, At, LocalsAt, SingleEdit, OccIds
  <2> QED  BY <1>0, <2>1, <2>2, <2>3, <2>4 DEF SaveInPlace, At
<1>2. CASE q = r /\ pc'[r] = "upd_save"
  <2>1. UpdateGet(r)
    BY <1>0, <1>2, Arrivals
  <2>2. /\ UNCHANGED <<occs, lastOcc>>
        /\ local[r].occ \in DOMAIN occs
        /\ local'[r] = [occ |-> local[r].occ,
                        row |-> [series |-> occs[local[r].occ].series,
                                 date |-> local[r].date,
                                 group |-> local[r].group]]
    BY <1>0, <1>2, <2>1 DEF UpdateGet, Goto, tables, RequestsOK
  <2> QED  BY <1>0, <1>2, <2>2 DEF SaveInPlace, At
<1> QED  BY <1>1, <1>2 DEF SaveInPlace, At

LEMMA InPlaceSiblings ==
  ASSUME TypeOK, InPlace, NEW r \in Requests, Step(r), NEW q \in Requests
  PROVE  SiblingsInPlace(q)'
<1>0. /\ TablesOK /\ RequestsOK /\ lastOcc \in Nat
      /\ DOMAIN occs \subseteq 1 .. lastOcc
  BY DEF TypeOK, TablesOK, RequestsOK
<1>1. CASE q # r /\ pc'[q] = "upd_series"
  <2>1. /\ pc[q] = "upd_series" /\ local'[q] = local[q]
        /\ ~overtaken'[q] => ~overtaken[q] /\ UNCHANGED <<occs, lastOcc>>
    BY <1>0, <1>1, StepLeaves
  <2>2. /\ \A o \in DOMAIN occs \cap DOMAIN occs' :
             occs'[o].series = occs[o].series
        /\ DOMAIN occs' \cap 1 .. lastOcc \subseteq DOMAIN occs
        /\ lastOcc' >= lastOcc /\ lastOcc' \in Nat
    BY StepStays DEF StaysInSeries
  <2>3. /\ DOMAIN local[q].rows \subseteq 1 .. lastOcc
        /\ \A o \in DOMAIN local[q].rows \cap DOMAIN occs :
             /\ occs[o].series = local[q].rows[o].series
             /\ ~overtaken[q] => occs[o].date = local[q].rows[o].date
    BY <2>1 DEF InPlace, SiblingsInPlace, At
  <2>4. DOMAIN local[q].rows \subseteq 1 .. lastOcc'
    BY <1>0, <2>2, <2>3
  <2>5. ASSUME NEW o \in DOMAIN local[q].rows \cap DOMAIN occs'
        PROVE  /\ occs'[o].series = local[q].rows[o].series
               /\ ~overtaken'[q] => occs'[o].date = local[q].rows[o].date
    BY <2>1, <2>2, <2>3
  <2> QED  BY <2>1, <2>4, <2>5 DEF SiblingsInPlace
<1>2. CASE q = r /\ pc'[r] = "upd_series" /\ UpdateReadSiblings(r)
  <2> DEFINE ids == {o \in Members(local[r].series) :
                       occs[o].date >= local[r].from}
  <2>1. UNCHANGED <<occs, lastOcc>> /\ local'[r].rows = Keep(occs, ids)
    BY <1>0, <1>2 DEF UpdateReadSiblings, Goto, tables, RequestsOK
  <2>2. /\ DOMAIN local'[r].rows = DOMAIN occs \cap ids
        /\ \A o \in DOMAIN occs \cap ids : local'[r].rows[o] = occs[o]
    <3> HIDE DEF ids
    <3> QED  BY <2>1 DEF Keep
  <2> HIDE DEF ids
  <2> QED  BY <1>0, <1>2, <2>1, <2>2 DEF SiblingsInPlace
<1>3. ASSUME q = r, pc'[r] = "upd_series", NEW o \in OccIds,
             UpdateSaveSibling(r, o)
      PROVE  SiblingsInPlace(q)'
  <2>1. /\ At(r, "upd_series") /\ lastOcc' = lastOcc
        /\ DOMAIN occs' = DOMAIN occs
        /\ \A p \in DOMAIN occs : p # o => occs'[p] = occs[p]
        /\ DOMAIN local'[r].rows = DOMAIN local[r].rows \ {o}
        /\ \A p \in DOMAIN local[r].rows \ {o} :
             local'[r].rows[p] = local[r].rows[p]
    BY <1>0, <1>3, SiblingIs
  <2>2. /\ DOMAIN local[r].rows \subseteq 1 .. lastOcc
        /\ \A p \in DOMAIN local[r].rows \cap DOMAIN occs :
             /\ occs[p].series = local[r].rows[p].series
             /\ ~overtaken[r] => occs[p].date = local[r].rows[p].date
    BY <2>1 DEF InPlace, SiblingsInPlace
  <2>3. overtaken'[r] <=> overtaken[r]
    BY <1>3 DEF UpdateSaveSibling, Writes
  <2> QED  BY <1>3, <2>1, <2>2, <2>3 DEF SiblingsInPlace
<1> QED  BY <1>0, <1>1, <1>2, <1>3, Arrivals DEF SiblingsInPlace, At

LEMMA InPlaceHolds == ASSUME SeriesAssumption PROVE Spec => []InPlace
<1>1. Init => InPlace
  BY DEF Init, InPlace, SaveInPlace, SiblingsInPlace, At
<1>2. TypeOK /\ InPlace /\ [Next]_vars => InPlace'
  <2>1. ASSUME InPlace, UNCHANGED vars PROVE InPlace'
    BY <2>1 DEF vars, InPlace, SaveInPlace, SiblingsInPlace, At
  <2>2. ASSUME TypeOK, InPlace, NEW r \in Requests, Step(r) PROVE InPlace'
    BY <2>2, InPlaceSave, InPlaceSiblings DEF InPlace
  <2> QED  BY <2>1, <2>2 DEF Next, Step
<1> QED  BY <1>1, <1>2, SeriesTypeCorrect, PTL DEF Spec

\* Whatever edits are in progress when a row is read and saved whole, a duty
\* stays in its series, and none that was deleted comes back.
THEOREM DutiesStayInSeries ==
  ASSUME SeriesAssumption PROVE Spec => SeriesStays
<1>1. TypeOK /\ InPlace /\ [Next]_vars => [StaysInSeries]_vars
  BY StepStays DEF Next, Step
<1> QED  BY <1>1, InPlaceHolds, SeriesTypeCorrect, PTL DEF Spec, SeriesStays

\* A request that saves the rows of a series one by one writes nothing else.
LEMMA SiblingSteps ==
  ASSUME NEW r \in Requests, Step(r), pc[r] = "upd_series"
  PROVE  \/ UNCHANGED <<occs, lastOcc>>
         \/ \E o \in OccIds : UpdateSaveSibling(r, o)
  BY WritingSteps DEF CreateInsert, UpdateSave, DeleteRun, DeleteGroup, At

LEMMA StepKeepsDates ==
  ASSUME TypeOK, InPlace, NEW r \in Requests, Step(r)
  PROVE  MovesOnlyAlone
<1>0. TablesOK /\ RequestsOK
  BY DEF TypeOK, TablesOK, RequestsOK
<1> SUFFICES ASSUME NEW q \in Requests, NEW p \in DOMAIN occs \cap DOMAIN occs',
                    pc[q] = "upd_series", local'[q] # local[q], ~overtaken[q]
             PROVE  occs'[p].date = occs[p].date
  BY DEF MovesOnlyAlone
<1>1. q = r
  BY <1>0, StepLeaves
<1>2. SiblingsInPlace(r)
  BY DEF InPlace
<1>3. ASSUME NEW o \in OccIds, UpdateSaveSibling(r, o)
      PROVE  occs'[p].date = occs[p].date
  <2>1. /\ o \in DOMAIN local[r].rows
        /\ p # o => occs'[p] = occs[p]
        /\ p = o => occs'[p].date = local[r].rows[o].date
    BY <1>0, <1>3, SiblingIs
  <2> QED  BY <1>1, <1>2, <2>1 DEF SiblingsInPlace, At
<1> QED  BY <1>1, <1>3, SiblingSteps

\* An edit of a series moves no duty, unless it takes a move back that was
\* made after it read the rows.
THEOREM SeriesEditsMoveNothing ==
  ASSUME SeriesAssumption PROVE Spec => SeriesEditKeepsDates
<1>1. TypeOK /\ InPlace /\ [Next]_vars => [MovesOnlyAlone]_vars
  BY StepKeepsDates DEF Next, Step
<1> QED  BY <1>1, InPlaceHolds, SeriesTypeCorrect, PTL
         DEF Spec, SeriesEditKeepsDates

-----------------------------------------------------------------------------
\* Deletions.

\* Until somebody else writes, the duty a deletion was asked for is in the
\* series, and not before the date, that the deletion goes by.
Aims(r) ==
  At(r, "del_run") /\ ~overtaken[r] /\ local[r].series # 0 =>
    LET o == local[r].occ
    IN /\ o \in DOMAIN occs
       /\ occs[o].series = local[r].series
       /\ occs[o].date >= local[r].from

LEMMA AimsStep ==
  ASSUME TypeOK, NEW q \in Requests, Aims(q), NEW r \in Requests, Step(r)
  PROVE  Aims(q)'
<1>0. TablesOK /\ RequestsOK
  BY DEF TypeOK, TablesOK, RequestsOK
<1>1. CASE q # r
  <2>1. pc'[q] = "del_run" /\ ~overtaken'[q] =>
          /\ pc[q] = "del_run" /\ local'[q] = local[q] /\ ~overtaken[q]
          /\ UNCHANGED occs
    BY <1>0, <1>1, StepLeaves
  <2>2. local'[q] = local[q]
    BY <1>0, <1>1, StepLeaves
  <2> QED  BY <2>1, <2>2 DEF Aims, At
<1>2. CASE q = r /\ pc'[r] = "del_run"
  <2>1. PICK o \in OccIds, scope \in Scopes : Delete(r, o, scope)
    BY <1>0, <1>2, Arrivals
  <2> DEFINE series == IF scope = "single" \/ o \notin DOMAIN occs THEN 0
                       ELSE occs[o].series
             from == IF scope = "future" /\ series # 0 THEN occs[o].date ELSE 1
  <2>2. UNCHANGED occs /\ local'[r] = [occ |-> o, series |-> series,
                                       from |-> from]
    BY <1>0, <2>1 DEF Delete, Goto, RequestsOK, tables
  <2>3. series # 0 => /\ o \in DOMAIN occs /\ occs[o].series = series
                      /\ occs[o].date >= from
    <3>1. o \in DOMAIN occs => occs[o].date \in Nat \ {0}
      BY <1>0, DaysAreNumbers DEF TablesOK, Row
    <3> QED  BY <3>1
  <2> HIDE DEF series, from
  <2> QED  BY <1>2, <2>2, <2>3 DEF Aims
<1> QED  BY <1>1, <1>2 DEF Aims, At

LEMMA AimsHold ==
  ASSUME SeriesAssumption PROVE Spec => [](\A r \in Requests : Aims(r))
<1> DEFINE I == \A r \in Requests : Aims(r)
<1>1. Init => I
  BY DEF Init, Aims, At
<1>2. TypeOK /\ I /\ [Next]_vars => I'
  <2>1. ASSUME I, UNCHANGED vars PROVE I'
    BY <2>1 DEF vars, Aims, At
  <2> QED  BY <2>1, AimsStep DEF Next, Step
<1> QED  BY <1>1, <1>2, SeriesTypeCorrect, PTL DEF Spec

\* A request about to delete does that, or nothing.
LEMMA DeletionSteps ==
  ASSUME NEW r \in Requests, Step(r), pc[r] = "del_run"
  PROVE  UNCHANGED <<occs, lastOcc>> \/ DeleteRun(r)
  BY WritingSteps DEF CreateInsert, UpdateSave, UpdateSaveSibling, DeleteGroup,
                      At

LEMMA StepTakes ==
  ASSUME TypeOK, \A q \in Requests : Aims(q), NEW r \in Requests, Step(r)
  PROVE  TakesTheEnd
<1>0. TablesOK /\ RequestsOK
  BY DEF TypeOK, TablesOK, RequestsOK
<1> DEFINE gone == DOMAIN occs \ DOMAIN occs'
<1> SUFFICES ASSUME NEW q \in Requests, pc[q] = "del_run", pc'[q] = "idle",
                    gone # {}
             PROVE  /\ \A o \in gone \ {local[q].occ} :
                         /\ occs[o].series # 0
                         /\ occs[o].series = local[q].series
                         /\ \A p \in Members(local[q].series) \ gone :
                              occs[p].date < occs[o].date
                    /\ ~overtaken[q] => local[q].occ \in gone
  BY DEF TakesTheEnd
<1>1. q = r
  <2>1. q # r => pc'[q] = pc[q]
    BY <1>0, StepLeaves
  <2> QED  BY <2>1
<1>2. DeleteRun(r)
  BY <1>1, DeletionSteps
<1>3. DOMAIN occs' = DOMAIN occs \ Doomed(local[r])
  BY <1>2, DeleteRunIs
<1>4. gone = DOMAIN occs \cap Doomed(local[r])
  BY <1>3
<1>5. /\ local[r] \in Deletion
      /\ \A o \in DOMAIN occs : occs[o].date \in Nat
  BY <1>0, <1>1, DaysAreNumbers DEF RequestsOK, LocalsAt, TablesOK, Row
<1>6. local[r].from \in Nat
  BY <1>5 DEF Deletion
<1> HIDE DEF gone
<1>7. CASE local[r].series = 0
  BY <1>1, <1>4, <1>7 DEF Doomed
<1>8. CASE local[r].series # 0
  <2>1. gone = {o \in DOMAIN occs : /\ occs[o].series = local[r].series
                                    /\ occs[o].date >= local[r].from}
    BY <1>4, <1>8 DEF Doomed, Members
  <2>2. ~overtaken[r] => local[r].occ \in gone
    BY <1>1, <1>8, <2>1 DEF Aims, At
  <2>3. ASSUME NEW o \in gone, NEW p \in Members(local[r].series) \ gone
        PROVE  occs[p].date < occs[o].date
    <3>1. p \in DOMAIN occs /\ ~(occs[p].date >= local[r].from)
      BY <2>1, <2>3 DEF Members
    <3>2. o \in DOMAIN occs /\ occs[o].date >= local[r].from
      BY <2>1
    <3> QED  BY <1>5, <1>6, <3>1, <3>2
  <2> QED  BY <1>1, <1>8, <2>1, <2>2, <2>3
<1> QED  BY <1>7, <1>8

\* A deletion takes the end of one series, by the dates the duties have now,
\* and the duty it was asked for unless somebody else has written meanwhile.
THEOREM DeletionsStayInScope ==
  ASSUME SeriesAssumption PROVE Spec => DeletionInScope
<1> DEFINE I == \A r \in Requests : Aims(r)
<1>1. TypeOK /\ I /\ [Next]_vars => [TakesTheEnd]_vars
  BY StepTakes DEF Next, Step
<1>2. Spec => []I
  BY AimsHold
<1> HIDE DEF I
<1> QED  BY <1>1, <1>2, SeriesTypeCorrect, PTL DEF Spec, DeletionInScope

-----------------------------------------------------------------------------
\* Answers.

\* Until somebody else writes, every duty in the scope of an edit has been
\* written or is among the rows still in hand.
Reaches(r) ==
  pc[r] \in {"upd_series", "upd_answer"} /\ ~overtaken[r] =>
    \A o \in DOMAIN occs :
      occs[o].series = local[r].series /\ occs[o].date >= local[r].from =>
        \/ pc[r] = "upd_series" /\ o \in DOMAIN local[r].rows
        \/ occs[o].group = local[r].group

LEMMA ReachesStep ==
  ASSUME TypeOK, NEW q \in Requests, Reaches(q), NEW r \in Requests, Step(r)
  PROVE  Reaches(q)'
<1>0. TablesOK /\ RequestsOK
  BY DEF TypeOK, TablesOK, RequestsOK
<1>1. CASE q # r
  <2>1. /\ pc'[q] = pc[q] /\ local'[q] = local[q]
        /\ pc[q] # "idle" /\ ~overtaken'[q] => ~overtaken[q] /\ UNCHANGED occs
    BY <1>0, <1>1, StepLeaves
  <2> QED  BY <2>1 DEF Reaches
<1>2. CASE q = r /\ UpdateReadSiblings(r)
  <2> DEFINE ids == {o \in Members(local[r].series) :
                       occs[o].date >= local[r].from}
             step == IF ids = {} THEN "upd_answer" ELSE "upd_series"
             value == [group |-> local[r].group, series |-> local[r].series,
                       from |-> local[r].from, rows |-> Keep(occs, ids)]
  <2>1. UNCHANGED occs /\ Goto(r, step, value)
    BY <1>2 DEF UpdateReadSiblings, tables
  <2>2. pc'[r] = step /\ local'[r] = value
    BY <1>0, <2>1 DEF Goto, RequestsOK
  <2>3. DOMAIN value.rows = ids
    BY DEF Keep, Members
  <2>4. \A o \in DOMAIN occs :
          occs[o].series = local[r].series /\ occs[o].date >= local[r].from =>
            o \in ids
    BY DEF Members
  <2>5. value.series = local[r].series /\ value.from = local[r].from
    OBVIOUS
  <2>6. ids # {} => step = "upd_series"
    OBVIOUS
  <2> HIDE DEF ids, step, value
  <2> QED  BY <1>2, <2>1, <2>2, <2>3, <2>4, <2>5, <2>6 DEF Reaches
<1>3. ASSUME q = r, NEW o \in OccIds, UpdateSaveSibling(r, o)
      PROVE  Reaches(q)'
  <2>1. /\ pc[r] = "upd_series" /\ pc'[r] \in {"upd_series", "upd_answer"}
        /\ overtaken'[r] <=> overtaken[r]
    BY <1>0, <1>3 DEF UpdateSaveSibling, Writes, At, Goto, RequestsOK
  <2>2. /\ o \in DOMAIN local[r].rows /\ DOMAIN occs' = DOMAIN occs
        /\ \A p \in DOMAIN occs : p # o => occs'[p] = occs[p]
        /\ o \in DOMAIN occs => occs'[o].group = local[r].group
        /\ pc'[r] = "upd_answer" => DOMAIN local[r].rows = {o}
        /\ DOMAIN local'[r].rows = DOMAIN local[r].rows \ {o}
        /\ local'[r].series = local[r].series
        /\ local'[r].from = local[r].from
        /\ local'[r].group = local[r].group
    BY <1>0, <1>3, SiblingIs
  <2> QED  BY <1>3, <2>1, <2>2 DEF Reaches
<1>4. CASE q = r /\ pc'[r] \notin {"upd_series", "upd_answer"}
  BY <1>4 DEF Reaches
<1> QED  BY <1>0, <1>1, <1>2, <1>3, <1>4, Arrivals

\* An edit of a series that answers has reached every duty in its scope,
\* unless somebody else has written meanwhile.
THEOREM EditsAreWhole == ASSUME SeriesAssumption PROVE Spec => []EditIsWhole
<1> DEFINE I == \A r \in Requests : Reaches(r)
<1>1. Init => I
  BY DEF Init, Reaches
<1>2. TypeOK /\ I /\ [Next]_vars => I'
  <2>1. ASSUME I, UNCHANGED vars PROVE I'
    BY <2>1 DEF vars, Reaches
  <2> QED  BY <2>1, ReachesStep DEF Next, Step
<1>3. I => EditIsWhole
  BY DEF Reaches, EditIsWhole, Members
<1> HIDE DEF I
<1> QED  BY <1>1, <1>2, <1>3, SeriesTypeCorrect, PTL DEF Spec

\* No series has a number that was not given out.
Creating == {"crt_insert", "crt_answer"}
SeriesKnown ==
  /\ \A o \in DOMAIN occs : occs[o].series <= lastSeries
  /\ \A r \in Requests : pc[r] \in Creating => local[r].series <= lastSeries

\* Until somebody else writes, the duties of a series are those its creation
\* has counted.
Counts(r) ==
  pc[r] \in Creating /\ local[r].series # 0 /\ ~overtaken[r] =>
    LET mine == {o \in DOMAIN occs : occs[o].series = local[r].series}
    IN /\ IsFiniteSet(mine) /\ Cardinality(mine) = local[r].made
       /\ \A o \in mine : occs[o].group = local[r].group

\* What a creation keeps in hand from one row to the next.
LEMMA AfterDateIs ==
  ASSUME RequestsOK, NEW r \in Requests, pc[r] = "crt_insert", NEW d,
         NEW made, AfterDate(r, d, made)
  PROVE  /\ pc'[r] \in Creating /\ local'[r].made = made
         /\ local'[r].series = local[r].series
         /\ local'[r].group = local[r].group
<1>1. local[r] \in Creation
  BY DEF RequestsOK, LocalsAt
<1>2. /\ pc'[r] \in Creating
      /\ local'[r] = [local[r] EXCEPT !.left = @ \ {d}, !.made = made]
  BY DEF RequestsOK, AfterDate, Goto, Creating
<1> QED  BY <1>1, <1>2 DEF Creation

LEMMA CreateIs ==
  ASSUME RequestsOK, NEW r \in Requests, NEW group, NEW start, NEW until,
         NEW repeat, Create(r, group, start, repeat, until)
  PROVE  /\ UNCHANGED occs
         /\ \/ local'[r].series = 0 /\ lastSeries' = lastSeries
            \/ /\ local'[r].series = lastSeries + 1
               /\ lastSeries' = lastSeries + 1
         /\ local'[r].made = 0 /\ local'[r].group = group
  BY DEF Create, Goto, RequestsOK

LEMMA KnownStep ==
  ASSUME TypeOK, InPlace, SeriesKnown, NEW r \in Requests, Step(r)
  PROVE  SeriesKnown'
<1>0. /\ TablesOK /\ RequestsOK /\ lastSeries \in Nat
      /\ \A o \in DOMAIN occs : occs[o].series \in Nat
  BY DEF TypeOK, TablesOK, RequestsOK, Row, SeriesIds
<1>1. \/ UNCHANGED lastSeries
      \/ \E group \in AnyGroup, start \in Dates, until \in Untils,
            repeat \in Repeats : Create(r, group, start, repeat, until)
  <2>1. CASE Start(r)
    BY <2>1 DEF Start, Update, Delete, UpdateColor, CreateGroup, DeleteGroup,
                tables
  <2>2. CASE Continue(r)
    BY <2>2 DEF Continue, CreateInsert, CreateInsertFails, CreateAnswer,
                UpdateGet, UpdateSave, UpdateReadSiblings, UpdateSaveSibling,
                UpdateAnswer, DeleteRun, UpdateColorSave, tables
  <2> QED  BY <2>1, <2>2 DEF Step, Fail, tables
<1>2. lastSeries' = lastSeries \/ lastSeries' = lastSeries + 1
  BY <1>0, <1>1, CreateIs
<1>3. \A q \in Requests : pc[q] \in Creating => local[q].series \in Nat
  BY <1>0 DEF RequestsOK, LocalsAt, Creating, Creation, SeriesIds
<1>4. ASSUME NEW q \in Requests, pc'[q] \in Creating
      PROVE  local'[q].series <= lastSeries'
  <2>1. CASE q # r
    <3>1. pc'[q] = pc[q] /\ local'[q] = local[q]
      BY <1>0, <2>1, StepLeaves
    <3> QED  BY <1>0, <1>2, <1>3, <1>4, <3>1 DEF SeriesKnown
  <2>2. ASSUME q = r, NEW d \in Days,
               CreateInsert(r, d) \/ CreateInsertFails(r, d)
        PROVE  local'[q].series <= lastSeries'
    <3>1. pc[r] = "crt_insert" /\ \E made : AfterDate(r, d, made)
      BY <2>2 DEF CreateInsert, CreateInsertFails, At
    <3>2. local'[r].series = local[r].series
      BY <1>0, <3>1, AfterDateIs
    <3>3. local[r].series <= lastSeries /\ local[r].series \in Nat
      BY <1>3, <3>1 DEF SeriesKnown, Creating
    <3> QED  BY <1>0, <1>2, <2>2, <3>2, <3>3
  <2>3. ASSUME q = r, NEW group \in AnyGroup, NEW start \in Dates,
               NEW until \in Untils, NEW repeat \in Repeats,
               Create(r, group, start, repeat, until)
        PROVE  local'[q].series <= lastSeries'
    BY <1>0, <2>3, CreateIs
  <2>4. q = r => \/ \E group \in AnyGroup, start \in Dates, until \in Untils,
                       repeat \in Repeats :
                         Create(r, group, start, repeat, until)
                 \/ \E d \in Days : \/ CreateInsert(r, d)
                                    \/ CreateInsertFails(r, d)
    BY <1>0, <1>4, Arrivals DEF Creating
  <2> QED  BY <2>1, <2>2, <2>3, <2>4
<1>5. ASSUME NEW o \in DOMAIN occs'
      PROVE  occs'[o].series <= lastSeries'
  <2>1. CASE o \in DOMAIN occs
    <3>1. occs'[o].series = occs[o].series
      BY <2>1, <1>5, StepStays DEF StaysInSeries
    <3> QED  BY <1>0, <1>2, <2>1, <3>1 DEF SeriesKnown
  <2>2. ASSUME NEW d \in Days, CreateInsert(r, d), o \notin DOMAIN occs
        PROVE  occs'[o].series <= lastSeries'
    <3>1. occs'[o].series = local[r].series
      BY <1>0, <1>5, <2>2, InsertIs
    <3>2. pc[r] \in Creating
      BY <2>2 DEF CreateInsert, At, Creating
    <3>3. local[r].series <= lastSeries /\ local[r].series \in Nat
      BY <1>3, <3>2 DEF SeriesKnown
    <3> QED  BY <1>0, <1>2, <3>1, <3>3
  <2>3. o \notin DOMAIN occs => \E d \in Days : CreateInsert(r, d)
    BY <1>0, <1>5, WritingSteps, SaveIs, SiblingIs, DeleteRunIs, DeleteGroupIs
  <2> QED  BY <2>1, <2>2, <2>3
<1> QED  BY <1>4, <1>5 DEF SeriesKnown

LEMMA CountsStep ==
  ASSUME TypeOK, SeriesKnown, NEW q \in Requests, Counts(q),
         NEW r \in Requests, Step(r)
  PROVE  Counts(q)'
<1>0. /\ TablesOK /\ RequestsOK /\ lastSeries \in Nat
      /\ \A o \in DOMAIN occs : occs[o].series \in Nat
  BY DEF TypeOK, TablesOK, RequestsOK, Row, SeriesIds
<1>1. CASE q # r
  <2>1. /\ pc'[q] = pc[q] /\ local'[q] = local[q]
        /\ pc[q] # "idle" /\ ~overtaken'[q] => ~overtaken[q] /\ UNCHANGED occs
    BY <1>0, <1>1, StepLeaves
  <2>2. CASE pc[q] \in Creating /\ ~overtaken'[q]
    <3>1. ~overtaken[q] /\ occs' = occs
      BY <2>1, <2>2 DEF Creating
    <3> QED  BY <2>1, <2>2, <3>1 DEF Counts
  <2> QED  BY <2>1, <2>2 DEF Counts
<1>2. ASSUME q = r, NEW group \in AnyGroup, NEW start \in Dates,
             NEW until \in Untils, NEW repeat \in Repeats,
             Create(r, group, start, repeat, until), local'[r].series # 0
      PROVE  Counts(q)'
  <2>1. /\ occs' = occs /\ local'[r].series = lastSeries + 1
        /\ local'[r].made = 0
    BY <1>0, <1>2, CreateIs
  <2>2. {o \in DOMAIN occs' : occs'[o].series = local'[r].series} = {}
    BY <1>0, <2>1 DEF SeriesKnown
  <2> QED  BY <1>2, <2>1, <2>2, FS_EmptySet DEF Counts
<1>3. ASSUME q = r, NEW d \in Days, CreateInsertFails(r, d)
      PROVE  Counts(q)'
  <2>1. /\ pc[r] = "crt_insert" /\ AfterDate(r, d, local[r].made)
        /\ occs' = occs
    BY <1>3 DEF CreateInsertFails, At, tables
  <2>2. /\ pc'[r] \in Creating /\ local'[r].made = local[r].made
        /\ local'[r].series = local[r].series
        /\ local'[r].group = local[r].group
    BY <1>0, <2>1, AfterDateIs
  <2>3. ~overtaken'[r] => ~overtaken[r]
    BY <1>3, <2>2 DEF CreateInsertFails, Reads, Creating
  <2> QED  BY <1>3, <2>1, <2>2, <2>3 DEF Counts, Creating
<1>4. ASSUME q = r, NEW d \in Days, CreateInsert(r, d)
      PROVE  Counts(q)'
  <2>1. pc[r] = "crt_insert" /\ AfterDate(r, d, local[r].made + 1)
    BY <1>4 DEF CreateInsert, At
  <2>2. /\ pc'[r] \in Creating /\ local'[r].made = local[r].made + 1
        /\ local'[r].series = local[r].series
        /\ local'[r].group = local[r].group
    BY <1>0, <2>1, AfterDateIs
  <2>3. ~overtaken'[r] => ~overtaken[r]
    BY <1>4, <2>2 DEF CreateInsert, Writes, Creating
  <2>4. /\ lastOcc + 1 \notin DOMAIN occs
        /\ DOMAIN occs' = DOMAIN occs \cup {lastOcc + 1}
        /\ \A o \in DOMAIN occs : occs'[o] = occs[o]
        /\ occs'[lastOcc + 1].series = local[r].series
        /\ occs'[lastOcc + 1].group = local[r].group
    BY <1>0, <1>4, InsertIs
  <2> DEFINE old == {o \in DOMAIN occs : occs[o].series = local[r].series}
             new == {o \in DOMAIN occs' : occs'[o].series = local'[r].series}
  <2>5. new = old \cup {lastOcc + 1} /\ lastOcc + 1 \notin old
    BY <2>2, <2>4
  <2>6. CASE local[r].series # 0 /\ ~overtaken'[r]
    <3>1. /\ IsFiniteSet(old) /\ Cardinality(old) = local[r].made
          /\ \A o \in old : occs[o].group = local[r].group
      BY <1>4, <2>1, <2>3, <2>6 DEF Counts, Creating
    <3>2. /\ IsFiniteSet(old \cup {lastOcc + 1})
          /\ Cardinality(old \cup {lastOcc + 1}) = Cardinality(old) + 1
      <4> HIDE DEF old
      <4> QED  BY <2>5, <3>1, FS_AddElement
    <3>3. IsFiniteSet(new) /\ Cardinality(new) = local'[r].made
      <4> HIDE DEF old, new
      <4> QED  BY <2>2, <2>5, <3>1, <3>2
    <3>4. \A o \in new : occs'[o].group = local'[r].group
      BY <2>2, <2>4, <2>5, <3>1
    <3> QED  BY <1>4, <3>3, <3>4 DEF Counts
  <2> QED  BY <1>4, <2>2, <2>6 DEF Counts
<1>5. CASE q = r /\ (pc'[r] \notin Creating \/ local'[r].series = 0)
  BY <1>5 DEF Counts
<1> QED  BY <1>0, <1>1, <1>2, <1>3, <1>4, <1>5, Arrivals DEF Creating

\* The number of duties a creation answers is the number the series has,
\* whatever rows failed, unless somebody else has written meanwhile.
THEOREM AnswersAreTrue == ASSUME SeriesAssumption PROVE Spec => []AnswersCount
<1> DEFINE I == SeriesKnown /\ \A r \in Requests : Counts(r)
<1>1. Init => I
  BY DEF Init, SeriesKnown, Counts, Creating
<1>2. TypeOK /\ InPlace /\ I /\ [Next]_vars => I'
  <2>1. ASSUME I, UNCHANGED vars PROVE I'
    BY <2>1 DEF vars, SeriesKnown, Counts
  <2> QED  BY <2>1, KnownStep, CountsStep DEF Next, Step
<1>3. I => AnswersCount
  BY DEF Counts, AnswersCount, Members, Creating
<1> HIDE DEF I
<1> QED  BY <1>1, <1>2, <1>3, InPlaceHolds, SeriesTypeCorrect, PTL DEF Spec

-----------------------------------------------------------------------------
\* How long a series can become.

\* One form has at most MaxSeries dates,
LEMMA DatesBounded ==
  ASSUME SeriesAssumption, NEW start, NEW until, NEW repeat
  PROVE  LET dates == RecurrenceDates(start, until, repeat)
         IN IsFiniteSet(dates) /\ Cardinality(dates) <= MaxSeries
<1> DEFINE cur == Generated(start, until, repeat)
           dates == RecurrenceDates(start, until, repeat)
           ks == {k \in 0 .. MaxSeries - 1 : cur[k] \in dates}
           f == [k \in ks |-> cur[k]]
<1>1. MaxSeries \in Nat \ {0}
  BY DEF SeriesAssumption
<1>2. /\ IsFiniteSet(0 .. MaxSeries - 1)
      /\ Cardinality(0 .. MaxSeries - 1) = MaxSeries
  BY <1>1, FS_Interval
<1>3. IsFiniteSet(ks) /\ Cardinality(ks) <= MaxSeries
  <2> DEFINE all == 0 .. MaxSeries - 1
  <2>1. ks \in SUBSET all
    OBVIOUS
  <2>2. IsFiniteSet(all) /\ Cardinality(all) = MaxSeries
    BY <1>2
  <2> HIDE DEF ks, all
  <2>3. IsFiniteSet(ks) /\ Cardinality(ks) <= Cardinality(all)
    BY <2>1, <2>2, FS_Subset
  <2> QED  BY <2>2, <2>3
<1>4. f \in Surjection(ks, dates)
  <2>1. \A d \in dates : \E k \in 0 .. MaxSeries - 1 : cur[k] = d
    BY DEF RecurrenceDates
  <2> HIDE DEF cur, dates
  <2> QED  BY <2>1 DEF Surjection
<1>5. IsFiniteSet(dates) /\ Cardinality(dates) <= Cardinality(ks)
  <2> HIDE DEF ks, f, dates
  <2> QED  BY <1>3, <1>4, FS_Surjection
<1>6. Cardinality(dates) \in Nat /\ Cardinality(ks) \in Nat
  <2> HIDE DEF ks, dates
  <2> QED  BY <1>3, <1>5, FS_CardinalityType
<1> QED  BY <1>1, <1>3, <1>5, <1>6

\* which a creation has still to write when it starts,
LEMMA CreateLeft ==
  ASSUME SeriesAssumption, RequestsOK, NEW r \in Requests, NEW group,
         NEW start, NEW until, NEW repeat,
         Create(r, group, start, repeat, until)
  PROVE  /\ IsFiniteSet(local'[r].left)
         /\ Cardinality(local'[r].left) <= MaxSeries
<1> DEFINE dates == IF repeat = "" THEN {start}
                    ELSE RecurrenceDates(start, until, repeat)
<1>1. local'[r].left = dates
  <2> DEFINE series == IF Cardinality(dates) > 1 THEN lastSeries + 1 ELSE 0
             value == [group |-> group, series |-> series,
                       left |-> dates, made |-> 0]
  <2>1. Goto(r, "crt_insert", value)
    BY DEF Create
  <2>2. value.left = dates
    OBVIOUS
  <2> HIDE DEF value, dates
  <2> QED  BY <2>1, <2>2 DEF Goto, RequestsOK
<1>2. \/ dates = {start}
      \/ dates = RecurrenceDates(start, until, repeat)
  OBVIOUS
<1> HIDE DEF dates
<1>3. MaxSeries \in Nat \ {0}
  BY DEF SeriesAssumption
<1>4. IsFiniteSet({start}) /\ Cardinality({start}) = 1
  BY FS_Singleton
<1>5. /\ IsFiniteSet(RecurrenceDates(start, until, repeat))
      /\ Cardinality(RecurrenceDates(start, until, repeat)) <= MaxSeries
  BY DatesBounded
<1>6. Cardinality({start}) <= MaxSeries
  BY <1>3, <1>4
<1>7. IsFiniteSet(dates) /\ Cardinality(dates) <= MaxSeries
  BY <1>2, <1>4, <1>5, <1>6
<1> QED  BY <1>1, <1>7

\* and each row it writes, or fails to, takes one off.
LEMMA AfterDateLeft ==
  ASSUME RequestsOK, NEW r \in Requests, pc[r] = "crt_insert", NEW d,
         NEW made, AfterDate(r, d, made)
  PROVE  local'[r].left = local[r].left \ {d}
<1>1. local[r] \in Creation
  BY DEF RequestsOK, LocalsAt
<1>2. local'[r] = [local[r] EXCEPT !.left = @ \ {d}, !.made = made]
  BY DEF RequestsOK, AfterDate, Goto
<1> QED  BY <1>1, <1>2 DEF Creation

\* A series gets a duty only from its creation.
LEMMA NoneJoins ==
  ASSUME TypeOK, InPlace, NEW r \in Requests, Step(r), NEW s
  PROVE  \/ Members(s)' \subseteq Members(s)
         \/ /\ \E d \in Days : CreateInsert(r, d)
            /\ local[r].series = s
            /\ lastOcc + 1 \notin Members(s)
            /\ Members(s)' = Members(s) \cup {lastOcc + 1}
<1>0. TablesOK /\ RequestsOK
  BY DEF TypeOK, TablesOK, RequestsOK
<1>1. CASE DOMAIN occs' \subseteq DOMAIN occs
  BY <1>1, StepStays DEF StaysInSeries, Members
<1>2. ASSUME NEW d \in Days, CreateInsert(r, d)
      PROVE  \/ Members(s)' \subseteq Members(s)
             \/ /\ local[r].series = s
                /\ lastOcc + 1 \notin Members(s)
                /\ Members(s)' = Members(s) \cup {lastOcc + 1}
  <2>1. /\ lastOcc + 1 \notin DOMAIN occs
        /\ DOMAIN occs' = DOMAIN occs \cup {lastOcc + 1}
        /\ \A o \in DOMAIN occs : occs'[o] = occs[o]
        /\ occs'[lastOcc + 1].series = local[r].series
    BY <1>0, <1>2, InsertIs
  <2> QED  BY <2>1 DEF Members
<1>3. DOMAIN occs' \subseteq DOMAIN occs \/ \E d \in Days : CreateInsert(r, d)
  BY <1>0, WritingSteps, SaveIs, SiblingIs, DeleteRunIs, DeleteGroupIs
<1> QED  BY <1>1, <1>2, <1>3

\* The members of a series can be counted.
LEMMA MembersFinite ==
  ASSUME TypeOK, NEW s
  PROVE  IsFiniteSet(Members(s)) /\ Cardinality(Members(s)) \in Nat
<1>1. Members(s) \in SUBSET (1 .. lastOcc) /\ lastOcc \in Int
  BY DEF TypeOK, Members
<1>2. IsFiniteSet(1 .. lastOcc)
  BY <1>1, FS_Interval
<1> QED  BY <1>1, <1>2, FS_Subset, FS_CardinalityType

\* A series has one creation at a time that adds to it,
Alone ==
  \A p, q \in Requests :
    /\ pc[p] = "crt_insert" /\ pc[q] = "crt_insert"
    /\ local[p].series = local[q].series /\ local[p].series # 0
    => p = q

\* and as many duties as it has, and that creation has still to write, are
\* not too many.
HasRoom(s, q) ==
  pc[q] = "crt_insert" /\ local[q].series = s =>
    /\ IsFiniteSet(local[q].left)
    /\ Cardinality(Members(s)) + Cardinality(local[q].left) <= MaxSeries
Room(s) ==
  /\ Cardinality(Members(s)) <= MaxSeries
  /\ \A q \in Requests : HasRoom(s, q)

\* An id of a series is given to one creation only.
LEMMA AloneStep ==
  ASSUME TypeOK, SeriesKnown, Alone, NEW r \in Requests, Step(r)
  PROVE  Alone'
<1>0. RequestsOK /\ lastSeries \in Nat
  BY DEF TypeOK, RequestsOK
<1>1. \A q \in Requests : q # r => pc'[q] = pc[q] /\ local'[q] = local[q]
  BY <1>0, StepLeaves
<1>2. ASSUME NEW q \in Requests, q # r, pc'[q] = "crt_insert",
             pc'[r] = "crt_insert", local'[r].series = local'[q].series,
             local'[r].series # 0
      PROVE  FALSE
  <2>1. /\ pc[q] = "crt_insert" /\ local[q].series <= lastSeries
        /\ local[q].series \in Nat /\ local'[q].series = local[q].series
    BY <1>0, <1>1, <1>2
       DEF SeriesKnown, Creating, RequestsOK, LocalsAt, Creation, SeriesIds
  <2>2. ASSUME NEW group \in AnyGroup, NEW start \in Dates,
               NEW until \in Untils, NEW repeat \in Repeats,
               Create(r, group, start, repeat, until)
        PROVE  FALSE
    <3>1. local'[r].series = 0 \/ local'[r].series = lastSeries + 1
      BY <1>0, <2>2, CreateIs
    <3> QED  BY <1>0, <1>2, <2>1, <3>1
  <2>3. ASSUME NEW d \in Days, CreateInsert(r, d) \/ CreateInsertFails(r, d)
        PROVE  FALSE
    <3>1. pc[r] = "crt_insert" /\ \E made : AfterDate(r, d, made)
      BY <2>3 DEF CreateInsert, CreateInsertFails, At
    <3>2. local'[r].series = local[r].series
      BY <1>0, <3>1, AfterDateIs
    <3> QED  BY <1>2, <2>1, <3>1, <3>2 DEF Alone
  <2> QED  BY <1>0, <1>2, <2>2, <2>3, Arrivals
<1> SUFFICES ASSUME NEW p \in Requests, NEW q \in Requests,
                    pc'[p] = "crt_insert", pc'[q] = "crt_insert",
                    local'[p].series = local'[q].series,
                    local'[p].series # 0
             PROVE  p = q
  BY DEF Alone
<1> QED  BY <1>1, <1>2 DEF Alone

\* A creation moves dates from those to be written to the members, or
\* drops them; nothing else adds a member.
LEMMA RoomStep ==
  ASSUME SeriesAssumption, TypeOK, InPlace, SeriesKnown, Alone,
         NEW s \in Nat \ {0}, Room(s), NEW r \in Requests, Step(r)
  PROVE  Room(s)'
<1>0. /\ TablesOK /\ RequestsOK /\ lastSeries \in Nat
      /\ MaxSeries \in Nat \ {0}
  BY DEF TypeOK, TablesOK, RequestsOK, SeriesAssumption
<1>1. \A q \in Requests : q # r => pc'[q] = pc[q] /\ local'[q] = local[q]
  BY <1>0, StepLeaves
<1>2. PICK old : old = Members(s)
  OBVIOUS
<1>3. PICK new : new = Members(s)'
  OBVIOUS
<1>4. /\ IsFiniteSet(old) /\ Cardinality(old) \in Nat
      /\ Cardinality(old) <= MaxSeries
  BY <1>2, MembersFinite DEF Room
<1>5. \A q \in Requests :
        pc[q] = "crt_insert" /\ local[q].series = s =>
          /\ IsFiniteSet(local[q].left)
          /\ Cardinality(local[q].left) \in Nat
          /\ Cardinality(old) + Cardinality(local[q].left) <= MaxSeries
  BY <1>2, FS_CardinalityType DEF Room, HasRoom
<1>6. SUFFICES /\ Cardinality(new) <= MaxSeries
               /\ \A q \in Requests :
                    pc'[q] = "crt_insert" /\ local'[q].series = s =>
                      /\ IsFiniteSet(local'[q].left)
                      /\ Cardinality(new) + Cardinality(local'[q].left)
                           <= MaxSeries
  BY <1>3 DEF Room, HasRoom
\* A row less in hand is one less to be written.
<1>7. ASSUME NEW d \in Days, CreateInsert(r, d) \/ CreateInsertFails(r, d)
      PROVE  /\ pc[r] = "crt_insert"
             /\ local'[r].series = local[r].series
             /\ local[r].series = s =>
                  /\ IsFiniteSet(local'[r].left)
                  /\ Cardinality(local'[r].left) = Cardinality(local[r].left) - 1
                  /\ Cardinality(local[r].left) >= 1
  <2>1. /\ pc[r] = "crt_insert" /\ d \in local[r].left
        /\ \E made : AfterDate(r, d, made)
    BY <1>7 DEF CreateInsert, CreateInsertFails, At, NextDate
  <2>2. /\ local'[r].series = local[r].series
        /\ local'[r].left = local[r].left \ {d}
    BY <1>0, <2>1, AfterDateIs, AfterDateLeft
  <2>3. CASE local[r].series = s
    <3>1. IsFiniteSet(local[r].left) /\ Cardinality(local[r].left) \in Nat
      BY <1>5, <2>1, <2>3
    <3>2. /\ IsFiniteSet(local[r].left \ {d})
          /\ Cardinality(local[r].left \ {d}) = Cardinality(local[r].left) - 1
      BY <2>1, <3>1, FS_RemoveElement
    <3>3. Cardinality(local[r].left \ {d}) \in Nat
      BY <3>2, FS_CardinalityType
    <3> QED  BY <2>1, <2>2, <3>1, <3>2, <3>3
  <2> QED  BY <2>1, <2>2, <2>3
<1>8. ASSUME NEW d \in Days, CreateInsert(r, d), local[r].series = s,
             lastOcc + 1 \notin old, new = old \cup {lastOcc + 1}
      PROVE  /\ Cardinality(new) <= MaxSeries
             /\ \A q \in Requests :
                  pc'[q] = "crt_insert" /\ local'[q].series = s =>
                    /\ IsFiniteSet(local'[q].left)
                    /\ Cardinality(new) + Cardinality(local'[q].left)
                         <= MaxSeries
  <2>1. Cardinality(new) = Cardinality(old) + 1
    BY <1>4, <1>8, FS_AddElement
  <2>2. /\ pc[r] = "crt_insert" /\ local'[r].series = s
        /\ IsFiniteSet(local'[r].left)
        /\ Cardinality(local'[r].left) = Cardinality(local[r].left) - 1
        /\ Cardinality(local[r].left) >= 1
    BY <1>7, <1>8
  <2>3. /\ Cardinality(local[r].left) \in Nat
        /\ Cardinality(old) + Cardinality(local[r].left) <= MaxSeries
    BY <1>5, <1>8, <2>2
  <2>4. Cardinality(new) + Cardinality(local'[r].left) <= MaxSeries
    BY <1>0, <1>4, <2>1, <2>2, <2>3
  <2>5. Cardinality(new) <= MaxSeries
    BY <1>0, <1>4, <2>1, <2>2, <2>3
  <2>6. ASSUME NEW q \in Requests, pc'[q] = "crt_insert",
               local'[q].series = s
        PROVE  q = r
    <3>1. q # r => pc[q] = "crt_insert" /\ local[q].series = s
      BY <1>1, <2>6
    <3> QED  BY <1>8, <2>2, <3>1 DEF Alone
  <2> QED  BY <2>2, <2>4, <2>5, <2>6
<1>9. CASE new \subseteq old
  <2>1. IsFiniteSet(new) /\ Cardinality(new) \in Nat
    BY <1>4, <1>9, FS_Subset, FS_CardinalityType
  <2>2. Cardinality(new) <= Cardinality(old)
    BY <1>4, <1>9, FS_Subset
  <2>3. ASSUME NEW q \in Requests, pc'[q] = "crt_insert",
               local'[q].series = s
        PROVE  /\ IsFiniteSet(local'[q].left)
               /\ Cardinality(new) + Cardinality(local'[q].left) <= MaxSeries
    <3>1. CASE q # r
      <4>1. pc[q] = "crt_insert" /\ local'[q] = local[q]
        BY <1>1, <2>3, <3>1
      <4> QED  BY <1>0, <1>4, <1>5, <2>1, <2>2, <2>3, <4>1
    <3>2. ASSUME q = r, NEW d \in Days,
                 CreateInsert(r, d) \/ CreateInsertFails(r, d)
          PROVE  /\ IsFiniteSet(local'[q].left)
                 /\ Cardinality(new) + Cardinality(local'[q].left) <= MaxSeries
      <4>1. /\ pc[r] = "crt_insert" /\ local[r].series = s
            /\ IsFiniteSet(local'[r].left)
            /\ Cardinality(local'[r].left) = Cardinality(local[r].left) - 1
        BY <1>7, <2>3, <3>2
      <4>2. /\ Cardinality(local[r].left) \in Nat
            /\ Cardinality(old) + Cardinality(local[r].left) <= MaxSeries
        BY <1>5, <4>1
      <4> QED  BY <1>0, <1>4, <2>1, <2>2, <3>2, <4>1, <4>2
    <3>3. ASSUME q = r, NEW group \in AnyGroup, NEW start \in Dates,
                 NEW until \in Untils, NEW repeat \in Repeats,
                 Create(r, group, start, repeat, until)
          PROVE  /\ IsFiniteSet(local'[q].left)
                 /\ Cardinality(new) + Cardinality(local'[q].left) <= MaxSeries
      <4>1. s = lastSeries + 1
        BY <1>0, <2>3, <3>3, CreateIs
      <4>2. old = {}
        <5>1. \A o \in DOMAIN occs :
                occs[o].series \in Nat /\ occs[o].series <= lastSeries
          BY <1>0 DEF SeriesKnown, TablesOK, Row, SeriesIds
        <5> QED  BY <1>0, <1>2, <4>1, <5>1 DEF Members
      <4>3. new = {}
        BY <1>9, <4>2
      <4>4. Cardinality(new) = 0
        BY <4>3, FS_EmptySet
      <4>5. /\ IsFiniteSet(local'[r].left)
            /\ Cardinality(local'[r].left) <= MaxSeries
        BY <1>0, <3>3, CreateLeft
      <4>6. Cardinality(local'[r].left) \in Nat
        BY <4>5, FS_CardinalityType
      <4> QED  BY <3>3, <4>4, <4>5, <4>6
    <3> QED  BY <1>0, <2>3, <3>1, <3>2, <3>3, Arrivals
  <2> QED  BY <1>0, <1>4, <2>1, <2>2, <2>3
<1> QED  BY <1>2, <1>3, <1>8, <1>9, NoneJoins

\* A series never has more duties than one form may ask for, those still to be
\* written included, whatever is edited and deleted meanwhile.
LEMMA SeriesAlwaysBounded ==
  ASSUME SeriesAssumption PROVE Spec => []SeriesBounded
<1> DEFINE Ids == 1 .. MaxSeriesIds
           I == SeriesKnown /\ Alone /\ \A s \in Ids : Room(s)
<1>0. Ids \subseteq Nat \ {0} /\ MaxSeries \in Nat \ {0}
  BY DEF SeriesAssumption
<1>1. Init => I
  <2>1. ASSUME Init, NEW s PROVE Members(s) = {}
    BY <2>1 DEF Init, Members
  <2>2. ASSUME Init, NEW s PROVE Room(s)
    <3>1. Cardinality(Members(s)) = 0
      BY <2>1, <2>2, FS_EmptySet
    <3> QED  BY <1>0, <2>2, <3>1 DEF Init, Room, HasRoom
  <2> QED  BY <2>2 DEF Init, SeriesKnown, Creating, Alone
<1>2. TypeOK /\ InPlace /\ I /\ [Next]_vars => I'
  <2>1. ASSUME I, UNCHANGED vars PROVE I'
    BY <2>1 DEF vars, SeriesKnown, Alone, Room, HasRoom, Members
  <2>2. ASSUME TypeOK, InPlace, I, NEW r \in Requests, Step(r) PROVE I'
    <3>1. SeriesKnown' /\ Alone'
      BY <2>2, KnownStep, AloneStep
    <3>2. ASSUME NEW s \in Ids PROVE Room(s)'
      BY <1>0, <2>2, RoomStep
    <3> QED  BY <3>1, <3>2
  <2> QED  BY <2>1, <2>2 DEF Next, Step
<1>3. TypeOK /\ I => SeriesBounded
  <2> SUFFICES ASSUME TypeOK, I, NEW s \in Ids
               PROVE  Cardinality(Members(s)) + Cardinality(ToCreate(s))
                        <= MaxSeries
    BY DEF SeriesBounded
  <2> DEFINE creating == {q \in Requests : /\ pc[q] = "crt_insert"
                                           /\ local[q].series = s}
  <2>1. Room(s) /\ Alone /\ s # 0
    BY <1>0
  <2>2. Cardinality(Members(s)) \in Nat
    BY MembersFinite
  <2>3. ToCreate(s) = UNION {local[r].left : r \in creating}
    BY DEF ToCreate
  <2>4. CASE creating = {}
    <3>1. ToCreate(s) = {}
      BY <2>3, <2>4
    <3>2. Cardinality(ToCreate(s)) = 0
      BY <3>1, FS_EmptySet
    <3> QED  BY <1>0, <2>1, <2>2, <3>2 DEF Room
  <2>5. CASE creating # {}
    <3>1. PICK q \in creating : TRUE
      BY <2>5
    <3>2. creating = {q}
      BY <2>1, <3>1 DEF Alone
    <3>3. ToCreate(s) = local[q].left
      BY <2>3, <3>2
    <3> QED  BY <2>1, <3>1, <3>3 DEF Room, HasRoom
  <2> QED  BY <2>4, <2>5
<1> HIDE DEF I
<1> QED  BY <1>1, <1>2, <1>3, InPlaceHolds, SeriesTypeCorrect, PTL DEF Spec

-----------------------------------------------------------------------------
\* The calendar.  Induction is by the least number a statement fails for.

\* A set of numbers with a member has a least one.
LEMMA Least ==
  ASSUME NEW T \in SUBSET Nat, T # {}
  PROVE  \E n \in T : \A m \in T : n <= m
<1>1. IsWellFoundedOn(OpToRel(<, Nat), Nat)
  BY NatLessThanWellFounded
<1>2. PICK n \in T : \A m \in T : ~ (<<m, n>> \in OpToRel(<, Nat))
  BY <1>1, WFMin
<1>3. ASSUME NEW m \in T PROVE n <= m
  <2>1. ~ (m < n)
    BY <1>2 DEF OpToRel
  <2> QED  BY <2>1
<1> QED  BY <1>3

\* MonthStart is the sum it says, which is defined for each month.
IsMonthStart(f, n) ==
  f = [m \in 1 .. n + 1 |-> IF m = 1 THEN 1 ELSE f[m - 1] + MonthDays[m - 1]]

\* The equations of MonthStart have a solution up to every month.
LEMMA MonthStartExists ==
  ASSUME SeriesAssumption, NEW n \in 0 .. Len(MonthDays)
  PROVE  \E f : IsMonthStart(f, n)
<1>1. Len(MonthDays) \in Nat
  BY DEF SeriesAssumption
<1> DEFINE Bad == {k \in 0 .. Len(MonthDays) : ~ \E f : IsMonthStart(f, k)}
<1>2. ASSUME Bad # {} PROVE FALSE
  <2>1. Bad \in SUBSET Nat
    BY <1>1
  <2>2. PICK k \in Bad : \A l \in Bad : k <= l
    <3> HIDE DEF Bad
    <3> QED  BY <1>2, <2>1, Least
  <2>3. CASE k = 0
    <3>1. IsMonthStart([m \in 1 .. 0 + 1 |-> 1], 0)
      BY DEF IsMonthStart
    <3> QED  BY <3>1, <2>2, <2>3
  <2>4. CASE k # 0
    <3>1. k \in 1 .. Len(MonthDays) /\ k - 1 \in 0 .. Len(MonthDays)
          /\ k - 1 \notin Bad
      BY <1>1, <2>2, <2>4
    <3>2. PICK g : IsMonthStart(g, k - 1)
      BY <3>1
    <3> DEFINE f == [m \in 1 .. k + 1 |->
                       IF m = 1 THEN 1 ELSE g[m - 1] + MonthDays[m - 1]]
    <3>3. \A m \in 1 .. k : f[m] = g[m]
      BY <3>1, <3>2 DEF IsMonthStart
    <3>4. \A m \in 2 .. k + 1 : f[m - 1] = g[m - 1]
      <4>1. \A m \in 2 .. k + 1 : m - 1 \in 1 .. k
        BY <3>1
      <4> HIDE DEF f
      <4> QED  BY <3>3, <4>1
    <3>5. \A m \in 1 .. k + 1 :
            f[m] = IF m = 1 THEN 1 ELSE f[m - 1] + MonthDays[m - 1]
      <4>1. \A m \in 1 .. k + 1 :
              /\ f[m] = IF m = 1 THEN 1 ELSE g[m - 1] + MonthDays[m - 1]
              /\ m = 1 \/ m \in 2 .. k + 1
        BY <3>1
      <4> HIDE DEF f
      <4> QED  BY <3>4, <4>1
    <3>6. f = [m \in 1 .. k + 1 |-> f[m]]
      OBVIOUS
    <3> HIDE DEF f
    <3>7. IsMonthStart(f, k)
      BY <3>5, <3>6 DEF IsMonthStart
    <3> QED  BY <3>7, <2>2
  <2> QED  BY <2>3, <2>4
<1> QED  BY <1>2

\* MonthStart satisfies its equations.
LEMMA MonthStartIs ==
  ASSUME SeriesAssumption
  PROVE  /\ Len(MonthDays) \in Nat
         /\ MonthStart[1] = 1
         /\ \A m \in 1 .. Len(MonthDays) :
              /\ MonthDays[m] \in 28 .. 31
              /\ MonthStart[m + 1] = MonthStart[m] + MonthDays[m]
<1>1. Len(MonthDays) \in Nat /\ Len(MonthDays) \in 0 .. Len(MonthDays)
  BY DEF SeriesAssumption
<1>2. \E f : IsMonthStart(f, Len(MonthDays))
  BY <1>1, MonthStartExists
<1>3. IsMonthStart(MonthStart, Len(MonthDays))
  BY <1>2 DEF MonthStart, IsMonthStart
<1>4. \A m \in 1 .. Len(MonthDays) : MonthDays[m] \in 28 .. 31
  BY DEF SeriesAssumption
<1>5. \A m \in 1 .. Len(MonthDays) + 1 :
        MonthStart[m] = IF m = 1 THEN 1
                        ELSE MonthStart[m - 1] + MonthDays[m - 1]
  BY <1>3 DEF IsMonthStart
<1>6. \A m \in 1 .. Len(MonthDays) :
        /\ m + 1 \in 1 .. Len(MonthDays) + 1 /\ m + 1 # 1 /\ (m + 1) - 1 = m
  BY <1>1
<1>7. \A m \in 1 .. Len(MonthDays) :
        MonthStart[m + 1] = MonthStart[(m + 1) - 1] + MonthDays[(m + 1) - 1]
  BY <1>5, <1>6
<1>8. 1 \in 1 .. Len(MonthDays) + 1
  BY <1>1
<1> QED  BY <1>1, <1>4, <1>5, <1>6, <1>7, <1>8

\* Months start on days.
LEMMA MonthStartType ==
  ASSUME SeriesAssumption, NEW n \in 1 .. Len(MonthDays) + 1
  PROVE  MonthStart[n] \in Nat \ {0}
<1> DEFINE Bad == {k \in 1 .. Len(MonthDays) + 1 :
                     MonthStart[k] \notin Nat \ {0}}
<1>1. ASSUME Bad # {} PROVE FALSE
  <2>1. Bad \in SUBSET Nat
    BY MonthStartIs
  <2>2. PICK k \in Bad : \A l \in Bad : k <= l
    <3> HIDE DEF Bad
    <3> QED  BY <1>1, <2>1, Least
  <2>3. k # 1
    BY <2>2, MonthStartIs
  <2>4. /\ k - 1 \in 1 .. Len(MonthDays) /\ (k - 1) + 1 = k
        /\ k - 1 \notin Bad /\ k - 1 \in 1 .. Len(MonthDays) + 1
    BY <2>2, <2>3, MonthStartIs
  <2>5. /\ MonthStart[k] = MonthStart[k - 1] + MonthDays[k - 1]
        /\ MonthDays[k - 1] \in 28 .. 31
    <3>1. /\ MonthStart[(k - 1) + 1] = MonthStart[k - 1] + MonthDays[k - 1]
          /\ MonthDays[k - 1] \in 28 .. 31
      BY <2>4, MonthStartIs
    <3> QED  BY <2>4, <3>1
  <2>6. MonthStart[k - 1] \in Nat \ {0}
    BY <2>4
  <2> QED  BY <2>2, <2>5, <2>6
<1> QED  BY <1>1

\* Months follow each other,
LEMMA MonthsFollow ==
  ASSUME SeriesAssumption, NEW m \in 1 .. Len(MonthDays),
         NEW n \in 1 .. Len(MonthDays) + 1, m < n
  PROVE  MonthStart[m + 1] <= MonthStart[n]
<1> DEFINE Bad == {k \in 1 .. Len(MonthDays) + 1 :
                     m < k /\ ~ (MonthStart[m + 1] <= MonthStart[k])}
<1>1. ASSUME Bad # {} PROVE FALSE
  <2>1. Bad \in SUBSET Nat
    BY MonthStartIs
  <2>2. PICK k \in Bad : \A l \in Bad : k <= l
    <3> HIDE DEF Bad
    <3> QED  BY <1>1, <2>1, Least
  <2>3. Len(MonthDays) \in Nat
    BY MonthStartIs
  <2>4. k # m + 1
    BY <2>2, <2>3, MonthStartType
  <2>5. /\ k - 1 \in 1 .. Len(MonthDays) /\ (k - 1) + 1 = k
        /\ k - 1 \notin Bad /\ k - 1 \in 1 .. Len(MonthDays) + 1
        /\ m < k - 1
    BY <2>2, <2>3, <2>4
  <2>6. MonthStart[m + 1] <= MonthStart[k - 1]
    BY <2>5
  <2>7. /\ MonthStart[k] = MonthStart[k - 1] + MonthDays[k - 1]
        /\ MonthDays[k - 1] \in 28 .. 31
    <3>1. /\ MonthStart[(k - 1) + 1] = MonthStart[k - 1] + MonthDays[k - 1]
          /\ MonthDays[k - 1] \in 28 .. 31
      BY <2>5, MonthStartIs
    <3> QED  BY <2>5, <3>1
  <2>8. MonthStart[m + 1] \in Nat /\ MonthStart[k - 1] \in Nat
    BY <2>3, <2>5, MonthStartType
  <2> QED  BY <2>2, <2>6, <2>7, <2>8
<1> QED  BY <1>1

\* and every day is in one of them.
LEMMA MonthOfIs ==
  ASSUME SeriesAssumption, NEW d \in Days
  PROVE  /\ MonthOf(d) \in 1 .. Len(MonthDays)
         /\ MonthStart[MonthOf(d)] <= d /\ d < MonthStart[MonthOf(d) + 1]
<1>0. /\ Len(MonthDays) \in Nat
      /\ Len(MonthDays) + 1 \in 1 .. Len(MonthDays) + 1
  BY MonthStartIs
<1>1. MonthStart[Len(MonthDays) + 1] \in Nat
  BY <1>0, MonthStartType
<1>2. d \in Nat /\ 1 <= d /\ d < MonthStart[Len(MonthDays) + 1]
  BY <1>1 DEF Days
<1> DEFINE Later == {m \in 1 .. Len(MonthDays) + 1 : d < MonthStart[m]}
<1>3. Later # {} /\ Later \in SUBSET Nat
  BY <1>0, <1>2
<1>4. PICK k \in Later : \A l \in Later : k <= l
  <2> HIDE DEF Later
  <2> QED  BY <1>3, Least
<1>5. k # 1
  BY <1>2, <1>4, MonthStartIs
<1>6. /\ k - 1 \in 1 .. Len(MonthDays) /\ (k - 1) + 1 = k
      /\ k - 1 \in 1 .. Len(MonthDays) + 1 /\ k - 1 \notin Later
  BY <1>0, <1>4, <1>5
<1>7. MonthStart[k - 1] \in Nat
  BY <1>6, MonthStartType
<1>8. MonthStart[k - 1] <= d /\ d < MonthStart[(k - 1) + 1]
  BY <1>2, <1>4, <1>6, <1>7
<1> QED  BY <1>6, <1>8 DEF MonthOf

\* The month of a day is the only one that has it.
LEMMA MonthOfUnique ==
  ASSUME SeriesAssumption, NEW d \in Days, NEW m \in 1 .. Len(MonthDays),
         MonthStart[m] <= d, d < MonthStart[m + 1]
  PROVE  MonthOf(d) = m
<1> DEFINE k == MonthOf(d)
<1>1. /\ k \in 1 .. Len(MonthDays)
      /\ MonthStart[k] <= d /\ d < MonthStart[k + 1]
  BY MonthOfIs
<1> HIDE DEF k
<1>2. Len(MonthDays) \in Nat /\ d \in Nat
  BY MonthStartIs, DaysAreNumbers
<1>3. \A i \in 1 .. Len(MonthDays) :
        /\ i \in 1 .. Len(MonthDays) + 1 /\ i + 1 \in 1 .. Len(MonthDays) + 1
        /\ MonthStart[i] \in Nat /\ MonthStart[i + 1] \in Nat
  <2>1. \A i \in 1 .. Len(MonthDays) :
          i \in 1 .. Len(MonthDays) + 1 /\ i + 1 \in 1 .. Len(MonthDays) + 1
    BY <1>2
  <2> QED  BY <2>1, MonthStartType
<1>4. ~ (k < m)
  <2>1. k < m => MonthStart[k + 1] <= MonthStart[m]
    BY <1>1, <1>3, MonthsFollow
  <2> QED  BY <1>1, <1>2, <1>3, <2>1
<1>5. ~ (m < k)
  <2>1. m < k => MonthStart[m + 1] <= MonthStart[k]
    BY <1>1, <1>3, MonthsFollow
  <2> QED  BY <1>1, <1>2, <1>3, <2>1
<1> QED  BY <1>1, <1>2, <1>4, <1>5 DEF k

-----------------------------------------------------------------------------
\* The dates of a form.

\* The date after x: once it is past the last day, it stays.
After(x, until, repeat) == IF x > until THEN x ELSE Advance(x, repeat)

IsGenerated(f, n, start, until, repeat) ==
  f = [k \in 0 .. n |-> IF k = 0 THEN start
                        ELSE After(f[k - 1], until, repeat)]

\* The equations of the generated dates have a solution up to every one.
LEMMA GeneratedExists ==
  ASSUME NEW n \in Nat, NEW start, NEW until, NEW repeat
  PROVE  \E f : IsGenerated(f, n, start, until, repeat)
<1> DEFINE Bad == {k \in Nat : ~ \E f : IsGenerated(f, k, start, until, repeat)}
<1>1. ASSUME Bad # {} PROVE FALSE
  <2>1. PICK k \in Bad : \A l \in Bad : k <= l
    <3>1. Bad \in SUBSET Nat
      OBVIOUS
    <3> HIDE DEF Bad
    <3> QED  BY <1>1, <3>1, Least
  <2>2. CASE k = 0
    <3>1. IsGenerated([j \in 0 .. 0 |-> start], 0, start, until, repeat)
      BY DEF IsGenerated
    <3> QED  BY <3>1, <2>1, <2>2
  <2>3. CASE k # 0
    <3>1. k \in Nat /\ k - 1 \in Nat /\ k - 1 \notin Bad
      BY <2>1, <2>3
    <3>2. PICK g : IsGenerated(g, k - 1, start, until, repeat)
      BY <3>1
    <3> DEFINE f == [j \in 0 .. k |-> IF j = 0 THEN start
                                      ELSE After(g[j - 1], until, repeat)]
    <3>3. \A j \in 0 .. k - 1 : f[j] = g[j]
      BY <3>1, <3>2 DEF IsGenerated
    <3>4. \A j \in 1 .. k : f[j - 1] = g[j - 1]
      <4>1. \A j \in 1 .. k : j - 1 \in 0 .. k - 1
        BY <3>1
      <4> HIDE DEF f
      <4> QED  BY <3>3, <4>1
    <3>5. \A j \in 0 .. k :
            f[j] = IF j = 0 THEN start ELSE After(f[j - 1], until, repeat)
      <4>1. \A j \in 0 .. k :
              /\ f[j] = IF j = 0 THEN start ELSE After(g[j - 1], until, repeat)
              /\ j = 0 \/ j \in 1 .. k
        BY <3>1
      <4> HIDE DEF f
      <4> QED  BY <3>4, <4>1
    <3>6. f = [j \in 0 .. k |-> f[j]]
      OBVIOUS
    <3> HIDE DEF f
    <3>7. IsGenerated(f, k, start, until, repeat)
      BY <3>5, <3>6 DEF IsGenerated
    <3> QED  BY <3>7, <2>1
  <2> QED  BY <2>2, <2>3
<1> QED  BY <1>1

\* Generated satisfies its equations.
LEMMA GeneratedIs ==
  ASSUME SeriesAssumption, NEW start, NEW until, NEW repeat
  PROVE  LET cur == Generated(start, until, repeat)
         IN /\ cur[0] = start
            /\ \A k \in 1 .. MaxSeries :
                 cur[k] = After(cur[k - 1], until, repeat)
<1> DEFINE Eq(f) ==
             f = [k \in 0 .. MaxSeries |->
                    IF k = 0 THEN start
                    ELSE IF f[k - 1] > until THEN f[k - 1]
                    ELSE Advance(f[k - 1], repeat)]
           cur == Generated(start, until, repeat)
<1>1. MaxSeries \in Nat \ {0}
  BY DEF SeriesAssumption
<1>2. \A f : IsGenerated(f, MaxSeries, start, until, repeat) <=> Eq(f)
  BY DEF IsGenerated, After
<1>3. \E f : Eq(f)
  <2> HIDE DEF Eq
  <2> QED  BY <1>1, <1>2, GeneratedExists
<1>4. Eq(CHOOSE f : Eq(f))
  <2> HIDE DEF Eq
  <2> QED  BY <1>3
<1>5. cur = CHOOSE f : Eq(f)
  BY DEF Generated
<1>6. Eq(cur)
  <2> HIDE DEF Eq, cur
  <2> QED  BY <1>4, <1>5
<1>7. IsGenerated(cur, MaxSeries, start, until, repeat)
  <2> HIDE DEF Eq, cur
  <2> QED  BY <1>2, <1>6
<1>8. \A k \in 0 .. MaxSeries :
        cur[k] = IF k = 0 THEN start ELSE After(cur[k - 1], until, repeat)
  <2> HIDE DEF cur
  <2> QED  BY <1>7 DEF IsGenerated
<1>9. 0 \in 0 .. MaxSeries /\ \A k \in 1 .. MaxSeries : k \in 0 .. MaxSeries /\ k # 0
  BY <1>1
<1> HIDE DEF cur
<1>10. /\ cur[0] = start
       /\ \A k \in 1 .. MaxSeries : cur[k] = After(cur[k - 1], until, repeat)
  BY <1>8, <1>9
<1> QED  BY <1>10 DEF cur

\* The numbers below one of them, in a set that ends.
LEMMA Below ==
  ASSUME NEW asked \in SUBSET Nat, NEW d \in Nat
  PROVE  /\ IsFiniteSet({e \in asked : e < d})
         /\ Cardinality({e \in asked : e < d}) \in Nat
<1> DEFINE below == {e \in asked : e < d}
<1>0. \A e \in asked : e \in Nat
  OBVIOUS
<1>1. below \in SUBSET (0 .. d) /\ IsFiniteSet(0 .. d)
  <2>1. below \in SUBSET (0 .. d)
    <3>1. ASSUME NEW e \in below PROVE e \in 0 .. d
      <4>1. e \in Nat /\ e < d
        BY <1>0
      <4> HIDE DEF below
      <4> QED  BY <4>1
    <3> HIDE DEF below
    <3> QED  BY <3>1
  <2>2. IsFiniteSet(0 .. d)
    BY FS_Interval
  <2> QED  BY <2>1, <2>2
<1> HIDE DEF below
<1>2. IsFiniteSet(below) /\ Cardinality(below) \in Nat
  BY <1>1, FS_Subset, FS_CardinalityType
<1> QED  BY <1>2 DEF below

Rank(asked, d) == Cardinality({e \in asked : e < d})

\* next leads from each member of a set to the next one, or past the last day,
Leads(next, asked, until) ==
  \A d \in asked :
    /\ next[d] > d
    /\ next[d] <= until => next[d] \in asked
    /\ \A e \in asked : d < e => next[d] <= e

\* and cur follows it until it is past that.
Follows(cur, n, next, asked, until) ==
  \A k \in 1 .. n :
    /\ cur[k - 1] > until => cur[k] = cur[k - 1]
    /\ cur[k - 1] \in asked => cur[k] = next[cur[k - 1]]

\* A walk through a set of numbers, from the least one to the next, until it
\* is past the last day: the first n steps find the n least ones.
LEMMA FirstOnes ==
  ASSUME NEW start \in Nat, NEW until \in Nat, start <= until,
         NEW asked \in SUBSET (start .. until), start \in asked,
         NEW next \in [asked -> Nat], Leads(next, asked, until),
         NEW n \in Nat \ {0}, NEW cur, cur[0] = start,
         Follows(cur, n, next, asked, until)
  PROVE  /\ \A k \in 0 .. n : cur[k] \in Nat
         /\ \A k \in 0 .. n : cur[k] <= until => cur[k] \in asked
         /\ \A d \in start .. until :
              (\E k \in 0 .. n - 1 : cur[k] = d) <=>
              d \in asked /\ Rank(asked, d) < n
<1> DEFINE below(d) == {e \in asked : e < d}
           Good(k) == /\ cur[k] \in Nat
                      /\ cur[k] <= until =>
                           /\ cur[k] \in asked
                           /\ Cardinality(below(cur[k])) = k
           Bad == {k \in 0 .. n : ~ Good(k)}
<1>0. /\ asked \in SUBSET Nat
      /\ \A d \in asked :
           /\ next[d] > d
           /\ next[d] <= until => next[d] \in asked
           /\ \A e \in asked : d < e => next[d] <= e
      /\ \A k \in 1 .. n :
           /\ cur[k - 1] > until => cur[k] = cur[k - 1]
           /\ cur[k - 1] \in asked => cur[k] = next[cur[k - 1]]
  BY DEF Leads, Follows
<1>1. \A d \in Nat : IsFiniteSet(below(d)) /\ Cardinality(below(d)) \in Nat
  BY <1>0, Below
<1>2. Good(0)
  <2>1. below(start) = {}
    <3>1. \A e \in asked : ~ (e < start)
      OBVIOUS
    <3> QED  BY <3>1
  <2>2. Cardinality(below(start)) = 0
    <3> HIDE DEF below
    <3> QED  BY <2>1, FS_EmptySet
  <2> QED  BY <2>2
<1>3. ASSUME NEW k \in 1 .. n, Good(k - 1) PROVE Good(k)
  <2>1. CASE cur[k - 1] > until
    <3>1. cur[k] = cur[k - 1]
      BY <1>0, <2>1
    <3> QED  BY <1>3, <2>1, <3>1
  <2>2. CASE ~ (cur[k - 1] > until)
    <3>1. PICK d \in asked : d = cur[k - 1]
      BY <1>3, <2>2
    <3>2. cur[k] = next[d] /\ Cardinality(below(d)) = k - 1
      <4>1. cur[k] = next[d]
        BY <1>0, <3>1
      <4> HIDE DEF below
      <4> QED  BY <1>3, <2>2, <3>1, <4>1
    <3>3. next[d] \in Nat /\ d \in Nat
      BY <1>0, <3>1
    <3>4. next[d] <= until => Cardinality(below(next[d])) = k
      <4>1. below(next[d]) = below(d) \cup {d} /\ d \notin below(d)
        <5>1. \A e \in asked : e < next[d] <=> e < d \/ e = d
          BY <1>0, <3>3
        <5>2. ~ (d < d)
          BY <3>3
        <5>3. d \in asked
          BY <3>1
        <5>4. below(next[d]) = {e \in asked : e < d \/ e = d}
          BY <5>1
        <5>5. {e \in asked : e < d \/ e = d} = below(d) \cup {d}
          BY <5>3
        <5> QED  BY <5>2, <5>4, <5>5
      <4>2. Cardinality(below(d) \cup {d}) = Cardinality(below(d)) + 1
        <5>1. IsFiniteSet(below(d)) /\ d \notin below(d)
          BY <1>1, <3>3, <4>1
        <5> HIDE DEF below
        <5> QED  BY <5>1, FS_AddElement
      <4> HIDE DEF below
      <4> QED  BY <3>2, <4>1, <4>2
    <3>5. next[d] <= until => next[d] \in asked
      BY <1>0, <3>1
    <3> HIDE DEF below
    <3> QED  BY <3>2, <3>3, <3>4, <3>5
  <2> QED  BY <2>1, <2>2
<1>4. \A k \in 0 .. n : Good(k)
  <2> SUFFICES ASSUME Bad # {} PROVE FALSE
    OBVIOUS
  <2>1. PICK k \in Bad : \A l \in Bad : k <= l
    <3>1. Bad \in SUBSET Nat
      OBVIOUS
    <3> HIDE DEF Bad
    <3> QED  BY <3>1, Least
  <2> HIDE DEF Good
  <2>2. k # 0
    BY <1>2, <2>1
  <2>3. k \in 1 .. n /\ k - 1 \in 0 .. n /\ k - 1 \notin Bad
    BY <2>1, <2>2
  <2> QED  BY <1>3, <2>1, <2>3
<1>5. ASSUME NEW k \in 0 .. n - 1, cur[k] \in start .. until
      PROVE  cur[k] \in asked /\ Cardinality(below(cur[k])) < n
  <2>1. Good(k) /\ cur[k] <= until /\ k < n
    BY <1>4, <1>5
  <2> HIDE DEF below
  <2> QED  BY <2>1
<1>6. ASSUME NEW d \in asked, Cardinality(below(d)) < n,
             \A k \in 0 .. n - 1 : cur[k] # d
      PROVE  FALSE
  <2> DEFINE Late == {k \in 0 .. n - 1 : ~ (cur[k] < d)}
  <2>0. d \in Nat /\ start <= d /\ d <= until
    OBVIOUS
  <2>1. ASSUME Late # {} PROVE FALSE
    <3>1. PICK k \in Late : \A l \in Late : k <= l
      <4>1. Late \in SUBSET Nat
        OBVIOUS
      <4> HIDE DEF Late
      <4> QED  BY <2>1, <4>1, Least
    <3>2. k # 0
      <4>1. cur[0] # d
        BY <1>6
      <4> QED  BY <2>0, <3>1, <4>1
    <3>3. k \in 1 .. n /\ k - 1 \in 0 .. n - 1 /\ k - 1 \notin Late
      BY <3>1, <3>2
    <3>4. cur[k - 1] < d /\ k - 1 \in 0 .. n
      BY <3>3
    <3>5. Good(k - 1)
      BY <1>4, <3>4
    <3>6. PICK c \in asked : c = cur[k - 1]
      <4>1. cur[k - 1] \in Nat /\ cur[k - 1] <= until
        BY <2>0, <3>4, <3>5
      <4> QED  BY <3>5, <4>1
    <3>7. cur[k] = next[c]
      BY <1>0, <3>3, <3>6
    <3>8. next[c] <= d
      BY <1>0, <3>4, <3>6
    <3>9. cur[k] # d
      BY <1>6, <3>1
    <3>10. next[c] \in Nat
      BY <3>6
    <3> QED  BY <2>0, <3>1, <3>7, <3>8, <3>9, <3>10
  <2>2. n - 1 \in 0 .. n - 1 /\ n - 1 \in 0 .. n
    OBVIOUS
  <2>3. cur[n - 1] < d
    BY <2>1, <2>2
  <2>4. Good(n - 1)
    BY <1>4, <2>2
  <2>5. PICK c \in asked : c = cur[n - 1] /\ Cardinality(below(c)) = n - 1
    <3>1. cur[n - 1] \in Nat /\ cur[n - 1] <= until
      BY <2>0, <2>3, <2>4
    <3> HIDE DEF below
    <3> QED  BY <2>4, <3>1
  <2>6. Cardinality(below(c) \cup {c}) = n
    <3>1. IsFiniteSet(below(c)) /\ c \notin below(c)
      BY <1>0, <1>1
    <3> HIDE DEF below
    <3>2. Cardinality(below(c) \cup {c}) = Cardinality(below(c)) + 1
      BY <3>1, FS_AddElement
    <3> QED  BY <2>5, <3>2
  <2>7. below(c) \cup {c} \in SUBSET below(d)
    <3>1. \A e \in asked : e < c \/ e = c => e < d
      BY <1>0, <2>0, <2>3, <2>5
    <3> QED  BY <3>1
  <2>8. Cardinality(below(c) \cup {c}) <= Cardinality(below(d))
    <3>1. IsFiniteSet(below(d))
      BY <1>1, <2>0
    <3> HIDE DEF below
    <3> QED  BY <2>7, <3>1, FS_Subset
  <2>9. Cardinality(below(d)) \in Nat
    BY <1>1, <2>0
  <2> HIDE DEF below
  <2> QED  BY <1>6, <2>6, <2>8, <2>9
<1> QED
  <2>1. \A k \in 0 .. n : /\ cur[k] \in Nat
                          /\ cur[k] <= until => cur[k] \in asked
    BY <1>4
  <2>2. ASSUME NEW d \in start .. until
        PROVE  (\E k \in 0 .. n - 1 : cur[k] = d) <=>
               d \in asked /\ Rank(asked, d) < n
    <3>1. Rank(asked, d) = Cardinality(below(d))
      BY DEF Rank
    <3> HIDE DEF below
    <3> QED  BY <1>5, <1>6, <3>1
  <2> QED  BY <2>1, <2>2

\* A month later it is the same day of the month, or one of the first three
\* when the month after is too short, or the calendar is over.
MovedTo(d, e) ==
  \/ DayOfMonth(e) = DayOfMonth(d)
  \/ DayOfMonth(d) > 28 /\ DayOfMonth(e) <= 3

\* A date is its month and its day of the month.
LEMMA DayOfMonthIs ==
  ASSUME SeriesAssumption, NEW d \in Days
  PROVE  LET m == MonthOf(d)
             a == DayOfMonth(d)
         IN /\ m \in 1 .. Len(MonthDays) /\ d \in Nat /\ a \in Nat
            /\ MonthStart[m] \in Nat /\ MonthStart[m + 1] \in Nat
            /\ d = MonthStart[m] + a - 1
            /\ 1 <= a /\ a <= MonthDays[m] /\ MonthDays[m] \in 28 .. 31
            /\ NextMonth(d) = MonthStart[m + 1] + a - 1
<1> DEFINE m == MonthOf(d)
<1>1. /\ m \in 1 .. Len(MonthDays)
      /\ MonthStart[m] <= d /\ d < MonthStart[m + 1]
  BY MonthOfIs
<1>2. /\ DayOfMonth(d) = d - MonthStart[m] + 1
      /\ NextMonth(d) = MonthStart[m + 1] + DayOfMonth(d) - 1
  BY DEF DayOfMonth, NextMonth
<1> HIDE DEF m
<1>3. Len(MonthDays) \in Nat /\ d \in Nat
  BY MonthStartIs, DaysAreNumbers
<1>4. m \in 1 .. Len(MonthDays) + 1 /\ m + 1 \in 1 .. Len(MonthDays) + 1
  BY <1>1, <1>3
<1>5. MonthStart[m] \in Nat /\ MonthStart[m + 1] \in Nat
  BY <1>4, MonthStartType
<1>6. MonthStart[m + 1] = MonthStart[m] + MonthDays[m]
      /\ MonthDays[m] \in 28 .. 31
  BY <1>1, MonthStartIs
<1>7. PICK a : a = DayOfMonth(d)
  OBVIOUS
<1>8. a \in Nat /\ d = MonthStart[m] + a - 1 /\ 1 <= a /\ a <= MonthDays[m]
  BY <1>1, <1>2, <1>3, <1>5, <1>6, <1>7
<1> QED  BY <1>1, <1>2, <1>3, <1>5, <1>6, <1>7, <1>8 DEF m

\* The day a of a month.
LEMMA DayInMonth ==
  ASSUME SeriesAssumption, NEW m \in 1 .. Len(MonthDays), NEW a \in Nat,
         1 <= a, a <= MonthDays[m]
  PROVE  LET d == MonthStart[m] + a - 1
         IN d \in Days /\ DayOfMonth(d) = a
<1> DEFINE d == MonthStart[m] + a - 1
<1>1. /\ Len(MonthDays) \in Nat /\ MonthDays[m] \in 28 .. 31
      /\ MonthStart[m + 1] = MonthStart[m] + MonthDays[m]
  BY MonthStartIs
<1>2. /\ m \in 1 .. Len(MonthDays) + 1 /\ m + 1 \in 1 .. Len(MonthDays) + 1
      /\ Len(MonthDays) + 1 \in 1 .. Len(MonthDays) + 1
      /\ m < Len(MonthDays) + 1
  BY <1>1
<1>3. /\ MonthStart[m] \in Nat \ {0} /\ MonthStart[m + 1] \in Nat
      /\ MonthStart[Len(MonthDays) + 1] \in Nat
  BY <1>2, MonthStartType
<1>4. MonthStart[m + 1] <= MonthStart[Len(MonthDays) + 1]
  BY <1>2, MonthsFollow
<1>5. d \in Nat /\ MonthStart[m] <= d /\ d < MonthStart[m + 1] /\ 1 <= d
  BY <1>1, <1>3
<1>6. d \in Days
  BY <1>3, <1>4, <1>5 DEF Days
<1>7. MonthOf(d) = m
  <2> HIDE DEF d
  <2> QED  BY <1>5, <1>6, MonthOfUnique
<1>8. DayOfMonth(d) = d - MonthStart[m] + 1
  BY <1>7 DEF DayOfMonth
<1>9. DayOfMonth(d) = a
  BY <1>3, <1>8
<1> QED  BY <1>6, <1>9

\* A month later is the same day of the next month, or past its end.
LEMMA NextMonthIs ==
  ASSUME SeriesAssumption, NEW d \in Days
  PROVE  /\ NextMonth(d) \in Nat /\ NextMonth(d) > d
         /\ NextMonth(d) \in Days => MovedTo(d, NextMonth(d))
         /\ NextMonth(d) \in Days /\ EveryMonthHas(d) =>
              DayOfMonth(NextMonth(d)) = DayOfMonth(d)
<1> DEFINE m == MonthOf(d)
           a == DayOfMonth(d)
           n == NextMonth(d)
<1>1. /\ m \in 1 .. Len(MonthDays) /\ d \in Nat /\ a \in Nat
      /\ MonthStart[m] \in Nat /\ MonthStart[m + 1] \in Nat
      /\ d = MonthStart[m] + a - 1
      /\ 1 <= a /\ a <= MonthDays[m] /\ MonthDays[m] \in 28 .. 31
      /\ n = MonthStart[m + 1] + a - 1
  BY DayOfMonthIs
<1>2. MonthStart[m + 1] = MonthStart[m] + MonthDays[m]
  BY <1>1, MonthStartIs
<1>3. Len(MonthDays) \in Nat
  BY MonthStartIs
<1>4. EveryMonthHas(d) => \A i \in 1 .. Len(MonthDays) : a <= MonthDays[i]
  BY DEF EveryMonthHas
<1>5. MovedTo(d, n) <=>
        DayOfMonth(n) = a \/ (a > 28 /\ DayOfMonth(n) <= 3)
  BY DEF MovedTo
<1> HIDE DEF m, a, n
<1>6. n \in Nat /\ n > d
  BY <1>1, <1>2
<1>7. n \in Days => n < MonthStart[Len(MonthDays) + 1]
  <2>1. MonthStart[Len(MonthDays) + 1] \in Nat
    BY <1>3, MonthStartType
  <2> QED  BY <1>6, <2>1 DEF Days
<1>8. CASE m = Len(MonthDays)
  BY <1>1, <1>6, <1>7, <1>8 DEF n, a
<1>9. CASE m # Len(MonthDays) /\ a <= MonthDays[m + 1]
  <2>1. m + 1 \in 1 .. Len(MonthDays)
    BY <1>1, <1>3, <1>9
  <2>2. DayOfMonth(n) = a
    BY <1>1, <1>9, <2>1, DayInMonth
  <2> QED  BY <1>5, <1>6, <2>2 DEF n, a
<1>10. CASE m # Len(MonthDays) /\ ~ (a <= MonthDays[m + 1])
  <2>1. m + 1 \in 1 .. Len(MonthDays) /\ (m + 1) + 1 = m + 2
    BY <1>1, <1>3, <1>10
  <2>2. /\ MonthDays[m + 1] \in 28 .. 31
        /\ MonthStart[m + 2] = MonthStart[m + 1] + MonthDays[m + 1]
    <3>1. /\ MonthDays[m + 1] \in 28 .. 31
          /\ MonthStart[(m + 1) + 1] = MonthStart[m + 1] + MonthDays[m + 1]
      BY <2>1, MonthStartIs
    <3> QED  BY <2>1, <3>1
  <2>3. ~ EveryMonthHas(d) /\ a > 28
    BY <1>1, <1>4, <1>10, <2>1, <2>2
  <2>4. PICK b \in Nat : 1 <= b /\ b <= 3 /\ n = MonthStart[m + 2] + b - 1
    <3>1. PICK c \in 28 .. 31 : c = MonthDays[m + 1]
      BY <2>2
    <3>2. c < a /\ a <= 31
      BY <1>1, <1>10, <3>1
    <3>3. a - c \in Nat /\ 1 <= a - c /\ a - c <= 3
      BY <1>1, <3>2
    <3>4. n = MonthStart[m + 2] + (a - c) - 1
      BY <1>1, <2>2, <3>1
    <3> QED  BY <3>3, <3>4
  <2>5. CASE m + 2 \in 1 .. Len(MonthDays)
    <3>1. MonthDays[m + 2] \in 28 .. 31
      BY <2>5, MonthStartIs
    <3>2. b <= MonthDays[m + 2]
      BY <2>4, <3>1
    <3>3. DayOfMonth(n) = b
      BY <2>4, <2>5, <3>2, DayInMonth
    <3> QED  BY <1>5, <1>6, <2>3, <2>4, <3>3 DEF n, a
  <2>6. CASE m + 2 \notin 1 .. Len(MonthDays)
    <3>1. m + 2 = Len(MonthDays) + 1 /\ m + 2 \in 1 .. Len(MonthDays) + 1
      BY <1>1, <1>3, <2>1, <2>6
    <3>2. MonthStart[m + 2] \in Nat
      BY <3>1, MonthStartType
    <3>3. n \notin Days
      BY <1>6, <1>7, <2>4, <3>1, <3>2
    <3> QED  BY <1>6, <3>3 DEF n, a
  <2> QED  BY <2>5, <2>6
<1> QED  BY <1>8, <1>9, <1>10

\* The next date with this day of the month is a month later or more.
LEMMA NoneBetween ==
  ASSUME SeriesAssumption, NEW d \in Days, NEW e \in Days, d < e,
         DayOfMonth(e) = DayOfMonth(d)
  PROVE  NextMonth(d) <= e
<1> DEFINE m == MonthOf(d)
           k == MonthOf(e)
           a == DayOfMonth(d)
<1>1. /\ m \in 1 .. Len(MonthDays) /\ d \in Nat /\ a \in Nat
      /\ MonthStart[m] \in Nat /\ MonthStart[m + 1] \in Nat
      /\ d = MonthStart[m] + a - 1 /\ NextMonth(d) = MonthStart[m + 1] + a - 1
  BY DayOfMonthIs
<1>2. /\ k \in 1 .. Len(MonthDays) /\ e \in Nat
      /\ MonthStart[k] \in Nat /\ MonthStart[k + 1] \in Nat
      /\ e = MonthStart[k] + a - 1
      /\ 1 <= a /\ a <= MonthDays[k] /\ MonthDays[k] \in 28 .. 31
  BY DayOfMonthIs
<1>3. Len(MonthDays) \in Nat /\ MonthStart[k + 1] = MonthStart[k] + MonthDays[k]
  BY <1>2, MonthStartIs
<1> HIDE DEF m, k, a
<1>4. m \in 1 .. Len(MonthDays) + 1 /\ k \in 1 .. Len(MonthDays) + 1
  BY <1>1, <1>2, <1>3
<1>5. ~ (k < m)
  <2>1. k < m => MonthStart[k + 1] <= MonthStart[m]
    BY <1>2, <1>4, MonthsFollow
  <2>2. e < MonthStart[k + 1]
    <3>1. PICK c \in 28 .. 31 : c = MonthDays[k]
      BY <1>2
    <3>2. a <= c /\ MonthStart[k + 1] = MonthStart[k] + c
      BY <1>2, <1>3, <3>1
    <3>3. MonthStart[k] + a - 1 < MonthStart[k] + c
      BY <1>1, <1>2, <3>2
    <3> QED  BY <1>2, <3>2, <3>3
  <2>3. MonthStart[m] <= d
    BY <1>1, <1>2
  <2> QED  BY <1>1, <1>2, <2>1, <2>2, <2>3
<1>6. k # m
  BY <1>1, <1>2
<1>7. MonthStart[m + 1] <= MonthStart[k]
  <2>1. m < k
    BY <1>1, <1>2, <1>3, <1>5, <1>6
  <2> QED  BY <1>1, <1>4, <2>1, MonthsFollow
<1> QED  BY <1>1, <1>2, <1>7

\* From one date asked for, the step leads to the next one,
Walks(start, until, repeat) ==
  LET asked == AskedFor(start, until, repeat)
  IN /\ start \in asked
     /\ \A d \in asked :
          /\ Advance(d, repeat) \in Nat
          /\ Advance(d, repeat) > d
          /\ Advance(d, repeat) <= until => Advance(d, repeat) \in asked
          /\ \A e \in asked : d < e => Advance(d, repeat) <= e

\* The days between two days of the calendar are in the calendar.
LEMMA DaysBetween ==
  ASSUME SeriesAssumption, NEW start \in Days, NEW until \in Days
  PROVE  start \in Nat /\ until \in Nat /\ start .. until \subseteq Days
<1>1. /\ Len(MonthDays) \in Nat
      /\ Len(MonthDays) + 1 \in 1 .. Len(MonthDays) + 1
  BY MonthStartIs
<1>2. MonthStart[Len(MonthDays) + 1] \in Nat
  BY <1>1, MonthStartType
<1>3. Days = 1 .. MonthStart[Len(MonthDays) + 1] - 1
  BY DEF Days
<1>4. /\ start \in Nat /\ until \in Nat /\ start >= 1
      /\ until <= MonthStart[Len(MonthDays) + 1] - 1
  BY <1>2, <1>3
<1>5. ASSUME NEW d \in start .. until PROVE d \in Days
  BY <1>2, <1>3, <1>4
<1> QED  BY <1>4, <1>5

\* by days and weeks,
LEMMA WalksDays ==
  ASSUME NEW start \in Nat, NEW until \in Nat, start <= until
  PROVE  Walks(start, until, "daily")
<1> DEFINE asked == AskedFor(start, until, "daily")
<1>1. /\ asked = start .. until
      /\ \A d : Advance(d, "daily") = d + 1
  BY DEF AskedFor, Advance
<1> HIDE DEF asked
<1>2. start \in asked
  BY <1>1
<1>3. ASSUME NEW d \in asked
      PROVE  /\ d + 1 \in Nat /\ d + 1 > d
             /\ d + 1 <= until => d + 1 \in asked
             /\ \A e \in asked : d < e => d + 1 <= e
  BY <1>1
<1> QED  BY <1>1, <1>2, <1>3 DEF Walks, asked

\* In steps of one or two weeks no date that was asked for is passed over.
LEMMA WalksWeeks ==
  ASSUME NEW start \in Nat, NEW until \in Nat, start <= until,
         NEW step \in {7, 14}, NEW asked,
         asked = {d \in start .. until : (d - start) % step = 0}
  PROVE  /\ start \in asked
         /\ \A d \in asked :
              /\ d + step \in Nat /\ d + step > d
              /\ d + step <= until => d + step \in asked
              /\ \A e \in asked : d < e => d + step <= e
<1>1. CASE step = 7
  <2>1. asked = {d \in start .. until : (d - start) % 7 = 0}
    BY <1>1
  <2> QED  BY <1>1, <2>1
<1>2. CASE step = 14
  <2>1. asked = {d \in start .. until : (d - start) % 14 = 0}
    BY <1>2
  <2> QED  BY <1>2, <2>1
<1> QED  BY <1>1, <1>2

\* So with the weekly repetition ...
LEMMA WalksWeekly ==
  ASSUME NEW start \in Nat, NEW until \in Nat, start <= until
  PROVE  Walks(start, until, "weekly")
<1> DEFINE asked == AskedFor(start, until, "weekly")
<1>1. /\ asked = {d \in start .. until : (d - start) % 7 = 0}
      /\ \A d : Advance(d, "weekly") = d + 7
  BY DEF AskedFor, Advance
<1> HIDE DEF asked
<1> QED  BY <1>1, WalksWeeks DEF Walks, asked

\* ... and with the biweekly one.
LEMMA WalksBiweekly ==
  ASSUME NEW start \in Nat, NEW until \in Nat, start <= until
  PROVE  Walks(start, until, "biweekly")
<1> DEFINE asked == AskedFor(start, until, "biweekly")
<1>1. /\ asked = {d \in start .. until : (d - start) % 14 = 0}
      /\ \A d : Advance(d, "biweekly") = d + 14
  BY DEF AskedFor, Advance
<1> HIDE DEF asked
<1> QED  BY <1>1, WalksWeeks DEF Walks, asked

\* and by months that all have the day.
LEMMA WalksMonths ==
  ASSUME SeriesAssumption, NEW start \in Days, NEW until \in Days,
         start <= until, EveryMonthHas(start)
  PROVE  Walks(start, until, "monthly")
<1> DEFINE asked == AskedFor(start, until, "monthly")
<1>0. start \in Nat /\ until \in Nat /\ start .. until \subseteq Days
  BY DaysBetween
<1>1. /\ asked = {d \in start .. until : DayOfMonth(d) = DayOfMonth(start)}
      /\ \A d : Advance(d, "monthly") = NextMonth(d)
  BY DEF AskedFor, Advance
<1> HIDE DEF asked
<1>2. start \in asked
  BY <1>0, <1>1
<1>3. ASSUME NEW d \in asked
      PROVE  /\ NextMonth(d) \in Nat /\ NextMonth(d) > d
             /\ NextMonth(d) <= until => NextMonth(d) \in asked
             /\ \A e \in asked : d < e => NextMonth(d) <= e
  <2>1. /\ d \in Days /\ DayOfMonth(d) = DayOfMonth(start)
        /\ start <= d /\ d \in Nat
    BY <1>0, <1>1
  <2>2. EveryMonthHas(d)
    BY <2>1 DEF EveryMonthHas
  <2>3. /\ NextMonth(d) \in Nat /\ NextMonth(d) > d
        /\ NextMonth(d) \in Days => DayOfMonth(NextMonth(d)) = DayOfMonth(d)
    BY <2>1, <2>2, NextMonthIs
  <2>4. NextMonth(d) <= until => NextMonth(d) \in start .. until
    BY <1>0, <2>1, <2>3
  <2>5. NextMonth(d) <= until => NextMonth(d) \in asked
    BY <1>0, <1>1, <2>1, <2>3, <2>4
  <2>6. ASSUME NEW e \in asked, d < e PROVE NextMonth(d) <= e
    <3>1. e \in Days /\ DayOfMonth(e) = DayOfMonth(d)
      BY <1>0, <1>1, <2>1
    <3> QED  BY <2>1, <2>6, <3>1, NoneBetween
  <2> QED  BY <2>3, <2>5, <2>6
<1> QED  BY <1>1, <1>2, <1>3 DEF Walks, asked

\* So the dates of a form are the first ones of those asked for,
LEMMA DatesOfWalk ==
  ASSUME SeriesAssumption, NEW start \in Days, NEW until \in Days,
         start <= until, NEW repeat, Walks(start, until, repeat)
  PROVE  LET asked == AskedFor(start, until, repeat)
         IN RecurrenceDates(start, until, repeat) =
              {d \in asked : Cardinality({e \in asked : e < d}) < MaxSeries}
<1> DEFINE asked == AskedFor(start, until, repeat)
           cur == Generated(start, until, repeat)
           dates == RecurrenceDates(start, until, repeat)
           next == [d \in asked |-> Advance(d, repeat)]
<1>0. /\ start \in Nat /\ until \in Nat /\ start .. until \subseteq Days
      /\ MaxSeries \in Nat \ {0}
  BY DaysBetween DEF SeriesAssumption
<1>1. asked \in SUBSET (start .. until)
  BY DEF AskedFor
<1>2. start \in asked
  BY DEF Walks
<1>3. \A d \in asked :
        /\ Advance(d, repeat) \in Nat
        /\ Advance(d, repeat) > d
        /\ Advance(d, repeat) <= until => Advance(d, repeat) \in asked
        /\ \A e \in asked : d < e => Advance(d, repeat) <= e
  BY DEF Walks
<1>4. dates = {d \in Days : d <= until /\ \E k \in 0 .. MaxSeries - 1 :
                               cur[k] = d}
  BY DEF RecurrenceDates
<1>5. /\ cur[0] = start
      /\ \A k \in 1 .. MaxSeries : cur[k] = After(cur[k - 1], until, repeat)
  BY GeneratedIs
<1> HIDE DEF asked, cur, dates
<1>6. /\ next \in [asked -> Nat]
      /\ \A d \in asked : next[d] = Advance(d, repeat)
  BY <1>3
<1> HIDE DEF next
<1>7. Leads(next, asked, until)
  BY <1>3, <1>6 DEF Leads
<1>8a. ASSUME NEW k \in 1 .. MaxSeries
      PROVE  /\ cur[k - 1] > until => cur[k] = cur[k - 1]
             /\ cur[k - 1] \in asked => cur[k] = next[cur[k - 1]]
  <2>1. cur[k] = After(cur[k - 1], until, repeat)
    BY <1>5
  <2>2. \A d \in asked : ~ (d > until)
    BY <1>0, <1>1
  <2> QED  BY <1>6, <2>1, <2>2 DEF After
<1>8. Follows(cur, MaxSeries, next, asked, until)
  BY <1>8a DEF Follows
<1>9. /\ \A k \in 0 .. MaxSeries : cur[k] <= until => cur[k] \in asked
      /\ \A d \in start .. until :
           (\E k \in 0 .. MaxSeries - 1 : cur[k] = d) <=>
           d \in asked /\ Rank(asked, d) < MaxSeries
  BY <1>0, <1>1, <1>2, <1>5, <1>6, <1>7, <1>8, FirstOnes
<1>10. ASSUME NEW d
       PROVE  d \in dates <=> d \in asked /\ Rank(asked, d) < MaxSeries
  <2>1. ASSUME d \in dates PROVE d \in start .. until
    <3>1. PICK k \in 0 .. MaxSeries - 1 : cur[k] = d /\ d <= until
      BY <1>4, <2>1
    <3>2. k \in 0 .. MaxSeries
      BY <1>0
    <3>3. d \in asked
      BY <1>9, <3>1, <3>2
    <3> QED  BY <1>1, <3>3
  <2>2. ASSUME d \in start .. until
        PROVE  d \in dates <=> \E k \in 0 .. MaxSeries - 1 : cur[k] = d
    <3>1. d \in Days /\ d <= until
      BY <1>0, <2>2
    <3> QED  BY <1>4, <3>1
  <2>3. d \in asked => d \in start .. until
    BY <1>1
  <2> QED  BY <1>9, <2>1, <2>2, <2>3
<1>11. dates = {d \in asked : Cardinality({e \in asked : e < d}) < MaxSeries}
  <2>1. dates = {d \in asked : Rank(asked, d) < MaxSeries}
    BY <1>10
  <2> QED  BY <2>1 DEF Rank
<1> QED  BY <1>11 DEF dates, asked

\* and those of a monthly one that starts late in a month are moved by a short
\* month once.
LEMMA DatesByMonths ==
  ASSUME SeriesAssumption, NEW start \in Days, NEW until \in Days,
         NEW d \in RecurrenceDates(start, until, "monthly"),
         NEW e \in RecurrenceDates(start, until, "monthly"), d < e
  PROVE  MovedTo(d, e)
<1> DEFINE cur == Generated(start, until, "monthly")
<1>0. /\ start \in Nat \ {0} /\ until \in Nat
      /\ MaxSeries \in Nat \ {0} /\ Days \subseteq Nat \ {0}
      /\ \A n \in Nat \ {0} : n <= until => n \in Days
  <2>1. \A n \in Nat \ {0} : n <= until => n \in 1 .. until
    OBVIOUS
  <2>2. /\ MaxSeries \in Nat \ {0} /\ Days \subseteq Nat \ {0}
        /\ until \in Nat
    BY DaysAreNumbers DEF SeriesAssumption
  <2>3. ASSUME NEW n \in Nat \ {0}, n <= until PROVE n \in Days
    <3>1. /\ Len(MonthDays) \in Nat
          /\ Len(MonthDays) + 1 \in 1 .. Len(MonthDays) + 1
      BY MonthStartIs
    <3>2. MonthStart[Len(MonthDays) + 1] \in Nat
      BY <3>1, MonthStartType
    <3> QED  BY <2>3, <3>2 DEF Days
  <2> QED  BY <2>2, <2>3
<1>1. /\ cur[0] = start
      /\ \A k \in 1 .. MaxSeries : cur[k] = After(cur[k - 1], until, "monthly")
  BY GeneratedIs
<1>2. ASSUME NEW c \in RecurrenceDates(start, until, "monthly")
      PROVE  c \in Days /\ c <= until /\ \E k \in 0 .. MaxSeries : cur[k] = c
  <2>1. /\ c \in Days /\ c <= until
        /\ \E k \in 0 .. MaxSeries - 1 : cur[k] = c
    BY DEF RecurrenceDates
  <2>2. \A k \in 0 .. MaxSeries - 1 : k \in 0 .. MaxSeries
    BY <1>0
  <2> QED  BY <2>1, <2>2
<1>3. PICK kd \in 0 .. MaxSeries : cur[kd] = d
  BY <1>2
<1>4. PICK ke \in 0 .. MaxSeries : cur[ke] = e
  BY <1>2
<1>5. d \in Days /\ e \in Days /\ d <= until /\ e <= until
  BY <1>2
<1> HIDE DEF cur
\* What comes after the j-th is not before it, and is it moved.
<1> DEFINE Good(j, k) == /\ cur[k] \in Nat \ {0} /\ cur[j] <= cur[k]
                         /\ cur[k] <= until => MovedTo(cur[j], cur[k])
<1>6. ASSUME NEW j \in 0 .. MaxSeries, cur[j] \in Nat \ {0}
      PROVE  \A k \in j .. MaxSeries : Good(j, k)
  <2> DEFINE Bad == {k \in j .. MaxSeries : ~ Good(j, k)}
  <2> SUFFICES ASSUME Bad # {} PROVE FALSE
    OBVIOUS
  <2>1. PICK k \in Bad : \A l \in Bad : k <= l
    <3>1. Bad \in SUBSET Nat
      BY <1>0
    <3> HIDE DEF Bad
    <3> QED  BY <3>1, Least
  <2>2. Good(j, j)
    BY <1>6 DEF MovedTo
  <2>3. k # j
    <3> HIDE DEF Good
    <3> QED  BY <2>1, <2>2
  <2>4. /\ k \in 1 .. MaxSeries /\ k - 1 \in j .. MaxSeries
        /\ k - 1 \notin Bad
    <3>1. k \in j .. MaxSeries /\ \A l \in Bad : k <= l
      BY <2>1
    <3> HIDE DEF Bad
    <3> QED  BY <1>0, <2>3, <3>1
  <2>5. Good(j, k - 1)
    <3> HIDE DEF Good
    <3> QED  BY <2>4
  <2>6. cur[k] = After(cur[k - 1], until, "monthly")
    BY <1>1, <2>4
  <2>7. CASE cur[k - 1] > until
    <3>1. cur[k] = cur[k - 1]
      BY <2>6, <2>7 DEF After
    <3> QED  BY <2>1, <2>5, <3>1
  <2>8. CASE ~ (cur[k - 1] > until)
    <3>1. cur[k] = NextMonth(cur[k - 1])
      BY <2>6, <2>8 DEF After, Advance
    <3>2. cur[k - 1] \in Days /\ cur[k - 1] <= until
      BY <1>0, <2>5, <2>8
    <3>3. /\ cur[k] \in Nat /\ cur[k] > cur[k - 1]
          /\ cur[k] \in Days => MovedTo(cur[k - 1], cur[k])
      BY <3>1, <3>2, NextMonthIs
    <3>4. cur[k] \in Nat \ {0} /\ cur[j] <= cur[k]
      BY <1>6, <2>5, <3>3
    <3>5. ASSUME cur[k] <= until PROVE MovedTo(cur[j], cur[k])
      <4>1. cur[k] \in Days
        BY <1>0, <3>4, <3>5
      <4>2. MovedTo(cur[j], cur[k - 1]) /\ MovedTo(cur[k - 1], cur[k])
        BY <2>5, <3>2, <3>3, <4>1
      <4>3. DayOfMonth(cur[k - 1]) \in Nat
        BY <3>2, DayOfMonthIs
      <4> QED  BY <4>2, <4>3 DEF MovedTo
    <3> QED  BY <2>1, <3>4, <3>5
  <2> QED  BY <2>7, <2>8
<1>7. ~ (ke < kd)
  <2>1. ASSUME ke < kd PROVE cur[ke] <= cur[kd]
    <3>1. kd \in ke .. MaxSeries
      BY <1>0, <2>1
    <3>2. Good(ke, kd)
      <4>1. cur[ke] \in Nat \ {0}
        BY <1>0, <1>4, <1>5
      <4> HIDE DEF Good
      <4> QED  BY <1>6, <3>1, <4>1
    <3> QED  BY <3>2
  <2> QED  BY <1>0, <1>3, <1>4, <1>5, <2>1
<1>8. Good(kd, ke)
  <2>1. cur[kd] \in Nat \ {0} /\ ke \in kd .. MaxSeries
    BY <1>0, <1>3, <1>5, <1>7
  <2> HIDE DEF Good
  <2> QED  BY <1>6, <2>1
<1> QED  BY <1>3, <1>4, <1>5, <1>8

\* What DatesAsAsked says of one form.
FormAsAsked(start, until, repeat) ==
  LET dates == RecurrenceDates(start, until, repeat)
      asked == AskedFor(start, until, repeat)
  IN IF repeat = "monthly" /\ ~EveryMonthHas(start)
     THEN \A d, e \in dates : d < e =>
            \/ DayOfMonth(e) = DayOfMonth(d)
            \/ DayOfMonth(d) > 28 /\ DayOfMonth(e) <= 3
     ELSE dates = {d \in asked :
                     Cardinality({e \in asked : e < d}) < MaxSeries}

\* Every form whose end is not before its start gets what it asked for.
LEMMA FormIs ==
  ASSUME SeriesAssumption, NEW start \in Days, NEW until \in Days,
         start <= until
  PROVE  /\ FormAsAsked(start, until, "daily")
         /\ FormAsAsked(start, until, "weekly")
         /\ FormAsAsked(start, until, "biweekly")
         /\ FormAsAsked(start, until, "monthly")
<1>0. start \in Nat /\ until \in Nat
  BY DaysBetween
<1>1. /\ Walks(start, until, "daily")
      /\ Walks(start, until, "weekly")
      /\ Walks(start, until, "biweekly")
  BY <1>0, WalksDays, WalksWeekly, WalksBiweekly
<1>2. ASSUME NEW repeat, Walks(start, until, repeat),
             repeat = "monthly" => EveryMonthHas(start)
      PROVE  FormAsAsked(start, until, repeat)
  BY <1>2, DatesOfWalk DEF FormAsAsked
<1>3. CASE EveryMonthHas(start)
  <2>1. Walks(start, until, "monthly")
    BY <1>3, WalksMonths
  <2> QED  BY <1>1, <1>2, <1>3, <2>1
<1>4. CASE ~EveryMonthHas(start)
  <2>1. FormAsAsked(start, until, "monthly")
    BY <1>4, DatesByMonths DEF FormAsAsked, MovedTo
  <2>2. /\ "daily" # "monthly" /\ "weekly" # "monthly"
        /\ "biweekly" # "monthly"
    OBVIOUS
  <2> QED  BY <1>1, <1>2, <2>1, <2>2
<1> QED  BY <1>3, <1>4

\* The same for all the forms there can be.
LEMMA DatesAreAsAsked == ASSUME SeriesAssumption PROVE DatesAsAsked
<1>1. ASSUME NEW start \in Days, NEW until \in Days,
             NEW repeat \in Repeats \ {""}, start <= until
      PROVE  FormAsAsked(start, until, repeat)
  <2>1. \/ repeat = "daily" \/ repeat = "weekly"
        \/ repeat = "biweekly" \/ repeat = "monthly"
    BY DEF Repeats
  <2> QED  BY <1>1, <2>1, FormIs
<1> QED  BY <1>1 DEF DatesAsAsked, FormAsAsked

\* A form's dates are those that were asked for, in whatever calendar, and a
\* series never has more duties than one form may ask for, those still to be
\* written included, whatever is edited and deleted meanwhile.
THEOREM RepeatsAreAsAsked ==
  ASSUME SeriesAssumption PROVE Spec => []RepeatsAsAsked
<1>1. SeriesBounded => RepeatsAsAsked
  BY DatesAreAsAsked DEF RepeatsAsAsked
<1> QED  BY <1>1, SeriesAlwaysBounded, PTL

=============================================================================
