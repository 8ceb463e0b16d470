--------------------------- MODULE EmailJobProofs ---------------------------
(***************************************************************************)
(* The e-mail job keeps its types, and the daily limit and the hour        *)
(* between two rows of the log, for any accounts, duties and limits.       *)
(***************************************************************************)
EXTENDS EmailJob, TLAPS

\* From its first read on, a cycle goes by a limit that was saved.
Limited ==
  pc \in {"users", "duties", "counts", "loop", "spacing", "send", "log"} =>
    \E limit \in Limits : run.limit = Effective(limit)

\* What the check of the limit found holds until the account is left: only
\* the job adds rows, and midnight takes them away.
Below ==
  pc \in {"spacing", "send", "log"} /\ run.user \in accounts =>
    today[run.user] < run.limit

\* So does what the check of the distance found, which time only increases.
Spaced ==
  pc \in {"send", "log"} /\ run.user \in accounts =>
    age[run.user] > Hour \/ run.blind

\* E-mails of the day that are not in the log: one about to be logged, and
\* those a failure kept out of it.
Pending(u) == IF pc = "log" /\ run.user = u THEN 1 ELSE 0
MailsLogged == \A u \in accounts : mails[u] <= today[u] + Pending(u) + faults

\* Nobody gets an e-mail unless some limit allows one.
SomeAllowed ==
  (\E u \in accounts : mails[u] > 0) =>
    \E limit \in Limits : Effective(limit) > 0

LogInv == Limited /\ Below /\ LogWithinLimit /\ MailsLogged /\ SomeAllowed
JobInv == TypeOK /\ LogInv

-----------------------------------------------------------------------------
\* The numbers among the constants.
LEMMA Numbers == /\ Hour \in Nat \ {0} /\ DayLength \in Nat \ {0}
                 /\ MaxFaults \in Nat /\ Limits \subseteq Int
BY EmailJobAssumption, Zenon

\* The limit that holds for a saved one is a number.
LEMMA EffectiveType == \A limit \in Limits : Effective(limit) \in Int
<1>. SUFFICES ASSUME NEW limit \in Limits PROVE Effective(limit) \in Int
  OBVIOUS
<1>1. limit \in Int
  BY Numbers
<1>. QED
  BY <1>1 DEF Effective

\* The values a cycle can hold, field by field.
LEMMA CycleFields ==
  ASSUME run \in Cycle
  PROVE  /\ run.limit \in Int /\ run.planned \in SUBSET Duties
         /\ run.soon \in SUBSET Duties /\ run.short \in SUBSET Duties
         /\ run.open \in SUBSET Duties /\ run.todo \in SUBSET Accounts
         /\ run.user \in Accounts \cup {Nobody}
         /\ run.kind \in {"none", "new_occurrence", "unfilled"}
BY DEF Cycle

\* Requests keep the types.
LEMMA RequestsType == TypeOK /\ Requests => TypeOK'
<1>. SUFFICES ASSUME TypeOK, Requests PROVE TypeOK'
  OBVIOUS
<1>. USE EmailJobAssumption DEF TypeOK, log, clock, job, post, tables
<1>1. ASSUME NEW d \in Duties, NEW new \in Duty, Plan(d, new)
      PROVE  TypeOK'
  BY <1>1 DEF Plan
<1>2. ASSUME NEW d \in Duties, NEW new \in Duty, Change(d, new)
      PROVE  TypeOK'
  BY <1>2 DEF Change, Elsewhere
<1>3. ASSUME NEW d \in Duties, Over(d)
      PROVE  TypeOK'
  <2>1. NoDuty \in Duty
    BY DEF NoDuty, Duty
  <2>. QED
    BY <1>3, <2>1 DEF Over, Elsewhere
<1>4. ASSUME NEW enabled \in BOOLEAN, NEW limit \in Limits,
             SaveSettings(enabled, limit)
      PROVE  TypeOK'
  BY <1>4 DEF SaveSettings, Elsewhere
<1>5. ASSUME NEW u \in Accounts, DeleteUser(u)
      PROVE  TypeOK'
  BY <1>5 DEF DeleteUser, Never
<1>. QED
  BY <1>1, <1>2, <1>3, <1>4, <1>5 DEF Requests

\* So does time.
LEMMA TimeType == TypeOK /\ PassTime => TypeOK'
<1>. SUFFICES ASSUME TypeOK, PassTime PROVE TypeOK'
  OBVIOUS
<1>. USE EmailJobAssumption
<1>1. age' \in [Accounts -> 0 .. Never]
  BY DEF TypeOK, PassTime, Never
<1>2. today' \in [Accounts -> Nat] /\ mails' \in [Accounts -> Nat]
  BY DEF TypeOK, PassTime, CountsNextTick
<1>3. daytime' \in 0 .. DayLength - 1
  BY DEF TypeOK, PassTime, NewDay
<1>4. timer' \in 1 .. Hour
  BY DEF TypeOK, PassTime
<1>5. tick' \in BOOLEAN
  BY DEF TypeOK, PassTime
<1>. QED
  BY <1>1, <1>2, <1>3, <1>4, <1>5 DEF TypeOK, PassTime, tables, job

\* A step of the goroutine that only changes what it does next.
LEMMA GotoType ==
  ASSUME TypeOK, NEW step \in JobSteps, NEW cycle \in Cycle,
         Goto(step, cycle),
         step \in {"spacing", "send", "log"} <=> cycle.user # Nobody,
         UNCHANGED <<tables, clock>>,
         age' \in [Accounts -> 0 .. Never], today' \in [Accounts -> Nat],
         mails' \in [Accounts -> Nat],
         announced' \subseteq Accounts \X Duties,
         faults' \in 0 .. MaxFaults
  PROVE  TypeOK'
BY DEF TypeOK, Goto, tables, clock

\* Giving up an account, or finishing with it, is such a step.
LEMMA LeaveType ==
  ASSUME TypeOK, pc \in {"spacing", "send", "log"}, GiveUp \/ NextUser,
         UNCHANGED <<tables, clock>>,
         age' \in [Accounts -> 0 .. Never], today' \in [Accounts -> Nat],
         mails' \in [Accounts -> Nat],
         announced' \subseteq Accounts \X Duties,
         faults' \in 0 .. MaxFaults
  PROVE  TypeOK'
<1>1. CASE NextUser
  <2>1. [run EXCEPT !.user = Nobody, !.kind = "none", !.blind = FALSE] \in Cycle
    BY DEF TypeOK, Cycle
  <2>. QED
    BY <1>1, <2>1, GotoType DEF NextUser, JobSteps, Cycle
<1>2. CASE ~NextUser
  <2>1. Goto("spacing", [run EXCEPT !.kind = "unfilled", !.blind = FALSE])
    BY <1>2 DEF GiveUp
  <2>2. /\ [run EXCEPT !.kind = "unfilled", !.blind = FALSE] \in Cycle
        /\ [run EXCEPT !.kind = "unfilled", !.blind = FALSE].user # Nobody
    BY DEF TypeOK, Cycle
  <2>. QED
    BY <2>1, <2>2, GotoType DEF JobSteps
<1>. QED
  BY <1>1, <1>2

\* The value between two cycles is one of a cycle.
LEMMA NoCycleType == NoCycle \in Cycle /\ NoCycle.user = Nobody
BY EmailJobAssumption DEF NoCycle, Cycle

\* Starting and stopping keep the types.
LEMMA StartType == TypeOK /\ (Start \/ Wake \/ TickReceived \/ Crash) => TypeOK'
<1>. SUFFICES ASSUME TypeOK, Start \/ Wake \/ TickReceived \/ Crash
              PROVE  TypeOK'
  OBVIOUS
<1>1. UNCHANGED <<tables, log, daytime, post>>
  BY DEF Start, Wake, TickReceived, Crash, Quiet, clock
<1>2. timer' \in {timer, Hour} /\ tick' \in {tick, FALSE}
  BY DEF Start, Wake, TickReceived, Crash, Quiet, clock
<1>3. timer' \in 1 .. Hour
  BY <1>2, Numbers DEF TypeOK
<1>4. faults' \in 0 .. MaxFaults
  <2>1. CASE Crash
    BY <2>1, Numbers DEF TypeOK, Crash, Fault
  <2>2. CASE ~Crash
    BY <2>2 DEF TypeOK, Start, Wake, TickReceived, Quiet
  <2>. QED
    BY <2>1, <2>2
<1>5. /\ pc' \in {"sleep", "config", "down"} /\ run' = NoCycle
  BY DEF Start, Wake, TickReceived, Crash, Goto
<1>6. /\ pc' \in JobSteps /\ run' \in Cycle
      /\ pc' \in {"spacing", "send", "log"} <=> run'.user # Nobody
  BY <1>5, NoCycleType DEF JobSteps
<1>. QED
  <2>1. tick' \in BOOLEAN
    BY <1>2 DEF TypeOK
  <2>. QED
    BY <1>1, <1>6, <1>3, <1>4, <2>1 DEF TypeOK, tables, log, post

\* The reads of a cycle, and an error of one, keep the types.
LEMMA LoadType ==
  TypeOK /\ (LoadConfig \/ LoadUsers \/ LoadDuties \/ LoadCounts \/ LoadFails)
    => TypeOK'
<1>. SUFFICES ASSUME TypeOK, LoadConfig \/ LoadUsers \/ LoadDuties
                             \/ LoadCounts \/ LoadFails
              PROVE  TypeOK'
  OBVIOUS
<1>1. /\ UNCHANGED <<tables, log, clock, post>>
      /\ faults' \in 0 .. MaxFaults
  BY EmailJobAssumption DEF TypeOK, LoadConfig, LoadUsers, LoadDuties,
     LoadCounts, LoadFails, Quiet, Fault
<1>2. run.user = Nobody /\ pc \notin {"spacing", "send", "log"}
  BY DEF TypeOK, LoadConfig, LoadUsers, LoadDuties, LoadCounts, LoadFails
<1>3. pc' \in {"users", "duties", "counts", "loop", "select"}
  BY DEF LoadConfig, LoadUsers, LoadDuties, LoadCounts, LoadFails, EndCycle,
     Goto
<1>4. run' \in Cycle /\ run'.user = Nobody
  <2>1. CASE run' = NoCycle
    BY <2>1, NoCycleType
  <2>2. CASE run' = [run EXCEPT !.limit = Effective(settings.limit)]
    <3>1. settings.limit \in Limits
      BY DEF TypeOK
    <3>2. Effective(settings.limit) \in Int
      BY <3>1, EffectiveType
    <3>3. run \in Cycle
      BY DEF TypeOK
    <3>. QED
      BY <1>2, <2>2, <3>2, <3>3 DEF Cycle
  <2>3. CASE run' = [run EXCEPT !.todo = accounts]
    BY <1>2, <2>3 DEF TypeOK, Cycle
  <2>4. CASE LoadDuties
    BY <1>2, <2>4 DEF TypeOK, Cycle, LoadDuties, Goto
  <2>5. CASE LoadCounts
    BY <1>2, <2>5 DEF TypeOK, Cycle, LoadCounts, Goto
  <2>. QED
    BY <2>1, <2>2, <2>3, <2>4, <2>5 DEF LoadConfig, LoadUsers, LoadFails,
       EndCycle, Goto
<1>. QED
  BY <1>1, <1>2, <1>3, <1>4
     DEF TypeOK, JobSteps, tables, log, clock, post

\* The choice of the next account keeps the types.
LEMMA CheckType ==
  ASSUME TypeOK, NEW u \in Accounts,
         CheckLimit(u) \/ CheckLimitFails(u)
  PROVE  TypeOK'
<1>1. /\ UNCHANGED <<tables, log, clock, post>>
      /\ faults' \in 0 .. MaxFaults
  BY EmailJobAssumption
     DEF TypeOK, CheckLimit, CheckLimitFails, Quiet, Fault
<1>2. run.user = Nobody
  BY DEF TypeOK, CheckLimit, CheckLimitFails
<1>3. CASE Goto("loop", [run EXCEPT !.todo = @ \ {u}])
  <2>1. run' \in Cycle /\ run'.user = Nobody /\ pc' = "loop"
    BY <1>2, <1>3 DEF TypeOK, Cycle, Goto
  <2>. QED
    BY <1>1, <2>1 DEF TypeOK, JobSteps, tables, log, clock, post
<1>4. CASE Goto("spacing", [run EXCEPT !.todo = @ \ {u}, !.user = u,
                                       !.kind = Kind(u)])
  <2>1. Kind(u) \in {"none", "new_occurrence", "unfilled"}
    BY DEF Kind
  <2>2. run' \in Cycle /\ run'.user = u /\ pc' = "spacing"
    BY <1>2, <1>4, <2>1 DEF TypeOK, Cycle, Goto
  <2>. QED
    BY <1>1, <2>2, EmailJobAssumption
       DEF TypeOK, JobSteps, tables, log, clock, post
<1>. QED
  BY <1>3, <1>4 DEF CheckLimit, CheckLimitFails

\* So does the end of the cycle.
LEMMA FinishedType == TypeOK /\ Finished => TypeOK'
<1>. SUFFICES ASSUME TypeOK, Finished PROVE TypeOK'
  OBVIOUS
<1>1. /\ UNCHANGED <<accounts, settings, duty, age, today, daytime, timer,
                     tick, mails, announced, faults>>
      /\ pc' = "select" /\ run' = NoCycle
  BY DEF Finished, Quiet, EndCycle, Goto, tables, log, clock, post
<1>. QED
  BY <1>1, NoCycleType DEF TypeOK, JobSteps

\* Sending, or not, and logging keep the types.
LEMMA SendType ==
  TypeOK /\ (CheckSpacing \/ CheckSpacingFails \/ Send \/ SendUnconfirmed
              \/ SendFails \/ LogSent \/ LogFails)
    => TypeOK'
<1>. SUFFICES ASSUME TypeOK, CheckSpacing \/ CheckSpacingFails \/ Send
                             \/ SendUnconfirmed \/ SendFails \/ LogSent
                             \/ LogFails
              PROVE  TypeOK'
  OBVIOUS
<1>1. run.user \in Accounts /\ pc \in {"spacing", "send", "log"}
  <2>1. pc \in {"spacing", "send", "log"}
    BY DEF CheckSpacing, CheckSpacingFails, Send, SendUnconfirmed, SendFails,
       LogSent, LogFails
  <2>. QED
    BY <2>1, CycleFields DEF TypeOK
<1>2. /\ UNCHANGED <<tables, clock>>
      /\ faults' \in 0 .. MaxFaults
  BY EmailJobAssumption DEF TypeOK, CheckSpacing, CheckSpacingFails, Send,
     SendUnconfirmed, SendFails, LogSent, LogFails, Quiet, Fault
<1>3. /\ age' \in [Accounts -> 0 .. Never]
      /\ today' \in [Accounts -> Nat]
  <2>1. CASE LogSent
    BY <1>1, <2>1, EmailJobAssumption DEF TypeOK, LogSent, log, Never
  <2>2. CASE UNCHANGED log
    BY <2>2 DEF TypeOK, log
  <2>. QED
    BY <2>1, <2>2 DEF CheckSpacing, CheckSpacingFails, Send,
       SendUnconfirmed, SendFails, LogFails, Quiet
<1>4. /\ mails' \in [Accounts -> Nat]
      /\ announced' \subseteq Accounts \X Duties
  <2>1. CASE Deliver
    <3>1. NewDuties(run.user) \subseteq Duties
      BY CycleFields DEF NewDuties, TypeOK
    <3>. QED
      BY <1>1, <2>1, <3>1 DEF TypeOK, Deliver
  <2>2. CASE UNCHANGED post
    BY <2>2 DEF TypeOK, post
  <2>. QED
    BY <2>1, <2>2 DEF CheckSpacing, CheckSpacingFails, Send,
       SendUnconfirmed, SendFails, LogSent, LogFails, Quiet
<1>5. CASE Goto("send", run) \/ Goto("log", run)
  BY <1>1, <1>2, <1>3, <1>4, <1>5, GotoType, EmailJobAssumption
     DEF TypeOK, JobSteps
<1>6. CASE Goto("send", [run EXCEPT !.blind = TRUE])
  <2>1. /\ [run EXCEPT !.blind = TRUE] \in Cycle
        /\ [run EXCEPT !.blind = TRUE].user # Nobody
    BY <1>1 DEF TypeOK, Cycle
  <2>. QED
    BY <1>1, <1>2, <1>3, <1>4, <1>6, <2>1, GotoType DEF TypeOK, JobSteps
<1>7. CASE GiveUp \/ NextUser
  BY <1>1, <1>2, <1>3, <1>4, <1>7, LeaveType
<1>. QED
  BY <1>5, <1>6, <1>7 DEF CheckSpacing, CheckSpacingFails, Send,
     SendUnconfirmed, SendFails, LogSent, LogFails

\* Every step keeps the types.
LEMMA NextType == TypeOK /\ [Next]_vars => TypeOK'
<1>. SUFFICES ASSUME TypeOK, [Next]_vars PROVE TypeOK'
  OBVIOUS
<1>1. CASE Work
  <2>1. CASE \E u \in Accounts : CheckLimit(u)
    BY <2>1, CheckType
  <2>2. CASE Start \/ Wake \/ TickReceived
    BY <2>2, StartType
  <2>3. CASE LoadConfig \/ LoadUsers \/ LoadDuties \/ LoadCounts
    BY <2>3, LoadType
  <2>4. CASE CheckSpacing \/ Send \/ LogSent
    BY <2>4, SendType
  <2>. QED
    BY <1>1, <2>1, <2>2, <2>3, <2>4, FinishedType DEF Work
<1>2. CASE Failures
  <2>1. CASE \E u \in Accounts : CheckLimitFails(u)
    BY <2>1, CheckType
  <2>2. CASE CheckSpacingFails \/ SendUnconfirmed \/ SendFails \/ LogFails
    BY <2>2, SendType
  <2>. QED
    BY <1>2, <2>1, <2>2, StartType, LoadType DEF Failures
<1>3. CASE UNCHANGED vars
  <2>1. UNCHANGED <<accounts, settings, duty, age, today, daytime, timer,
                    tick, pc, run, mails, announced, faults>>
    BY <1>3 DEF vars, tables, log, clock, job, post
  <2>. QED
    BY <2>1 DEF TypeOK
<1>. QED
  BY <1>1, <1>2, <1>3, RequestsType, TimeType DEF Next

\* So does the first state.
LEMMA InitType == Init => TypeOK
<1>. SUFFICES ASSUME Init PROVE TypeOK
  OBVIOUS
<1>1. duty \in [Duties -> Duty]
  BY DEF Init, NoDuty, Duty
<1>2. /\ age \in [Accounts -> 0 .. Never] /\ today \in [Accounts -> Nat]
      /\ daytime \in 0 .. DayLength - 1 /\ timer \in 1 .. Hour
      /\ mails \in [Accounts -> Nat] /\ faults \in 0 .. MaxFaults
  BY EmailJobAssumption DEF Init, Never
<1>3. /\ pc \in JobSteps /\ run \in Cycle
      /\ pc \in {"spacing", "send", "log"} <=> run.user # Nobody
  BY NoCycleType DEF Init, JobSteps
<1>4. /\ accounts \subseteq Accounts
      /\ settings \in [enabled : BOOLEAN, limit : Limits]
      /\ tick \in BOOLEAN /\ announced \subseteq Accounts \X Duties
  BY DEF Init
<1>. QED
  BY <1>1, <1>2, <1>3, <1>4 DEF TypeOK

\* The tables, the log and the job keep their types, and the job always
\* knows which account it is treating.
THEOREM JobTypeCorrect == Spec => []TypeOK
BY InitType, NextType, PTL DEF Spec

-----------------------------------------------------------------------------
\* A step after which the job treats no account, and which only forgets an
\* e-mail it had to log by a failure.
LEMMA RestingStep ==
  ASSUME JobInv, TypeOK', Limited',
         pc' \notin {"spacing", "send", "log"},
         UNCHANGED <<accounts, log, mails>>,
         faults' >= faults, pc = "log" => faults' > faults
  PROVE  LogInv'
<1>. USE DEF JobInv, TypeOK, LogInv
<1>1. Below'
  BY DEF Below
<1>2. LogWithinLimit'
  BY DEF LogWithinLimit, Within, Effective, log
<1>3. MailsLogged'
  <2>. SUFFICES ASSUME NEW u \in accounts
                PROVE  mails[u] <= today[u] + faults'
    BY DEF MailsLogged, Pending, log
  <2>1. mails[u] <= today[u] + Pending(u) + faults
    BY DEF MailsLogged
  <2>2. mails[u] \in Nat /\ today[u] \in Nat /\ faults \in Nat /\ faults' \in Nat
    BY Numbers
  <2>. QED
    BY <2>1, <2>2 DEF Pending
<1>4. SomeAllowed'
  BY DEF SomeAllowed, Effective
<1>. QED
  BY <1>1, <1>2, <1>3, <1>4

\* A step while an account is treated that sends and logs nothing.
LEMMA TreatingStep ==
  ASSUME JobInv, TypeOK',
         pc \in {"spacing", "send"}, pc' \in {"spacing", "send"},
         UNCHANGED <<accounts, log, mails>>,
         run'.limit = run.limit, run'.user = run.user,
         faults' >= faults
  PROVE  LogInv'
<1>. USE DEF JobInv, TypeOK, LogInv
<1>1. Limited' /\ Below'
  BY DEF Limited, Below, log, Effective
<1>2. LogWithinLimit'
  BY DEF LogWithinLimit, Within, Effective, log
<1>3. MailsLogged'
  <2>. SUFFICES ASSUME NEW u \in accounts
                PROVE  mails[u] <= today[u] + faults'
    BY DEF MailsLogged, Pending, log
  <2>1. mails[u] <= today[u] + faults
    BY DEF MailsLogged, Pending
  <2>2. mails[u] \in Nat /\ today[u] \in Nat /\ faults \in Nat /\ faults' \in Nat
    BY Numbers
  <2>. QED
    BY <2>1, <2>2
<1>4. SomeAllowed'
  BY DEF SomeAllowed, Effective
<1>. QED
  BY <1>1, <1>2, <1>3, <1>4

\* Requests leave the job, its cycle and what it knows as they are, except
\* that an account may go.
LEMMA RequestsInv == JobInv /\ Requests => LogInv'
<1>. SUFFICES ASSUME JobInv, Requests PROVE LogInv'
  OBVIOUS
<1>1. /\ UNCHANGED <<clock, job, mails, faults>>
      /\ accounts' \subseteq accounts
      /\ \A u \in accounts' : today'[u] = today[u]
  BY DEF Requests, Plan, Change, Over, SaveSettings, DeleteUser, Elsewhere,
     JobInv, TypeOK, log, post, tables
<1>. USE <1>1 DEF JobInv, LogInv, job
<1>2. Limited' /\ Below'
  BY DEF Limited, Below, Effective
<1>3. LogWithinLimit' /\ SomeAllowed'
  BY DEF LogWithinLimit, SomeAllowed, Within, Effective
<1>4. MailsLogged'
  BY DEF MailsLogged, Pending
<1>. QED
  BY <1>2, <1>3, <1>4

\* Midnight takes rows and e-mails of the day away together.
LEMMA TimeInv == JobInv /\ PassTime => LogInv'
<1>. SUFFICES ASSUME JobInv, PassTime PROVE LogInv'
  OBVIOUS
<1>1. UNCHANGED <<accounts, pc, run, faults>>
  BY DEF PassTime, tables, job
<1>2. \/ UNCHANGED <<today, mails>>
      \/ \A u \in Accounts : today'[u] = 0 /\ mails'[u] = 0
  BY DEF PassTime, CountsNextTick
<1>3. CASE UNCHANGED <<today, mails>>
  BY <1>1, <1>3 DEF JobInv, LogInv, Limited, Below, LogWithinLimit, Within,
     MailsLogged, SomeAllowed, Pending, Effective
<1>4. CASE \A u \in Accounts : today'[u] = 0 /\ mails'[u] = 0
  <2>1. accounts \subseteq Accounts /\ today \in [Accounts -> Nat]
        /\ run.limit \in Int /\ faults \in Nat
    BY Numbers, CycleFields DEF JobInv, TypeOK
  <2>2. Limited'
    BY <1>1 DEF JobInv, LogInv, Limited, Effective
  <2>3. Below'
    BY <1>1, <1>4, <2>1 DEF JobInv, LogInv, Below
  <2>4. LogWithinLimit' /\ SomeAllowed'
    BY <1>1, <1>4, <2>1 DEF LogWithinLimit, SomeAllowed
  <2>5. MailsLogged'
    BY <1>1, <1>4, <2>1 DEF MailsLogged, Pending
  <2>. QED
    BY <2>2, <2>3, <2>4, <2>5 DEF LogInv
<1>. QED
  BY <1>2, <1>3, <1>4

\* Starting, stopping and reading: a limit is taken over as it was saved.
LEMMA ReadInv ==
  /\ JobInv /\ TypeOK'
  /\ \/ Start \/ Wake \/ TickReceived \/ Crash
     \/ LoadConfig \/ LoadUsers \/ LoadDuties \/ LoadCounts \/ LoadFails
     \/ Finished
  => LogInv'
<1>. SUFFICES ASSUME JobInv, TypeOK',
                     \/ Start \/ Wake \/ TickReceived \/ Crash
                     \/ LoadConfig \/ LoadUsers \/ LoadDuties \/ LoadCounts
                     \/ LoadFails \/ Finished
              PROVE  LogInv'
  OBVIOUS
<1>1. /\ pc' \notin {"spacing", "send", "log"}
      /\ UNCHANGED <<accounts, log, mails>>
  BY DEF Start, Wake, TickReceived, Crash, LoadConfig, LoadUsers, LoadDuties,
     LoadCounts, LoadFails, Finished, EndCycle, Goto, Quiet, tables, post
<1>2. faults' >= faults /\ (pc = "log" => faults' > faults)
  <2>1. faults \in Nat
    BY Numbers DEF JobInv, TypeOK
  <2>2. CASE Crash \/ LoadFails
    BY <2>1, <2>2 DEF Crash, LoadFails, Fault
  <2>3. CASE ~(Crash \/ LoadFails)
    <3>1. faults' = faults /\ pc # "log"
      BY <2>3 DEF Start, Wake, TickReceived, LoadConfig, LoadUsers,
         LoadDuties, LoadCounts, Finished, Quiet
    <3>. QED
      BY <2>1, <3>1
  <2>. QED
    BY <2>2, <2>3
<1>3. Limited'
  <2>1. CASE pc' \in {"down", "sleep", "select", "config"}
    BY <2>1 DEF Limited
  <2>2. CASE LoadConfig /\ settings.enabled
    <3>1. settings.limit \in Limits /\ run \in Cycle
      BY DEF JobInv, TypeOK
    <3>2. run'.limit = Effective(settings.limit)
      BY <2>2, <3>1 DEF LoadConfig, Goto, Cycle
    <3>. QED
      BY <3>1, <3>2 DEF Limited, Effective
  <2>3. CASE LoadUsers \/ LoadDuties \/ LoadCounts
    <3>1. run'.limit = run.limit /\ pc \in {"users", "duties", "counts"}
      BY <2>3 DEF JobInv, TypeOK, LoadUsers, LoadDuties, LoadCounts, Goto,
         Cycle
    <3>. QED
      BY <3>1 DEF JobInv, LogInv, Limited, Effective
  <2>. QED
    BY <2>1, <2>2, <2>3 DEF Start, Wake, TickReceived, Crash, LoadConfig,
       LoadFails, Finished, EndCycle, Goto
<1>. QED
  BY <1>1, <1>2, <1>3, RestingStep

\* An account is passed over, or taken because it is below the limit.
LEMMA CheckInv ==
  ASSUME JobInv, TypeOK', NEW u \in Accounts,
         CheckLimit(u) \/ CheckLimitFails(u)
  PROVE  LogInv'
<1>1. /\ UNCHANGED <<accounts, log, mails>> /\ pc = "loop"
      /\ run'.limit = run.limit /\ pc' \in {"loop", "spacing"}
  BY DEF CheckLimit, CheckLimitFails, Goto, Quiet, tables, post, JobInv,
     TypeOK, Cycle
<1>2. faults' \in Nat /\ faults \in Nat /\ faults' >= faults
  BY Numbers DEF CheckLimit, CheckLimitFails, Fault, Quiet, JobInv, TypeOK
<1>3. Limited'
  BY <1>1 DEF JobInv, LogInv, Limited, Effective
<1>4. CASE pc' = "loop"
  BY <1>1, <1>2, <1>3, <1>4, RestingStep
<1>5. CASE pc' = "spacing"
  <2>1. run'.user = u /\ ~(today[u] >= run.limit)
    BY <1>5 DEF CheckLimit, CheckLimitFails, Goto, JobInv, TypeOK, Cycle
  <2>2. today[u] \in Nat /\ run.limit \in Int
    BY CycleFields DEF JobInv, TypeOK
  <2>3. Below'
    BY <1>1, <2>1, <2>2 DEF Below, log
  <2>4. LogWithinLimit' /\ SomeAllowed'
    BY <1>1 DEF JobInv, LogInv, LogWithinLimit, SomeAllowed, Within,
       Effective, log
  <2>5. MailsLogged'
    <3>1. UNCHANGED <<accounts, today, mails>>
      BY <1>1 DEF log
    <3>2. \A v \in accounts : Pending(v) = 0 /\ Pending(v)' = 0
      BY <1>1, <1>5 DEF Pending
    <3>3. \A v \in accounts : mails[v] \in Nat /\ today[v] \in Nat
      BY DEF JobInv, TypeOK
    <3>4. \A v \in accounts : mails[v] <= today[v] + faults
      BY <3>2, <3>3, <1>2 DEF JobInv, LogInv, MailsLogged
    <3>. QED
      BY <1>2, <3>1, <3>2, <3>3, <3>4 DEF MailsLogged
  <2>. QED
    BY <1>3, <2>3, <2>4, <2>5 DEF LogInv
<1>. QED
  BY <1>1, <1>4, <1>5

\* An e-mail that is not sent.
LEMMA SpacingInv ==
  JobInv /\ TypeOK' /\ (CheckSpacing \/ CheckSpacingFails \/ SendFails)
    => LogInv'
<1>. SUFFICES ASSUME JobInv, TypeOK',
                     CheckSpacing \/ CheckSpacingFails \/ SendFails
              PROVE  LogInv'
  OBVIOUS
<1>1. UNCHANGED <<accounts, log, mails>> /\ pc \in {"spacing", "send"}
  BY DEF CheckSpacing, CheckSpacingFails, SendFails, Quiet, tables, post
<1>2. faults' >= faults
  BY Numbers DEF CheckSpacing, CheckSpacingFails, SendFails, Fault, Quiet,
     JobInv, TypeOK
<1>3. /\ pc' \in {"spacing", "send", "loop"}
      /\ run'.limit = run.limit
      /\ pc' # "loop" => run'.user = run.user
  BY DEF CheckSpacing, CheckSpacingFails, SendFails, GiveUp, NextUser, Goto,
     JobInv, TypeOK, Cycle
<1>4. CASE pc' = "loop"
  <2>1. Limited'
    BY <1>1, <1>3 DEF JobInv, LogInv, Limited, Effective
  <2>. QED
    BY <1>1, <1>2, <1>4, <2>1, RestingStep
<1>5. CASE pc' # "loop"
  BY <1>1, <1>2, <1>3, <1>5, TreatingStep
<1>. QED
  BY <1>4, <1>5

\* An e-mail that arrives: the next step logs it, or a failure is counted.
LEMMA SendInv == JobInv /\ TypeOK' /\ (Send \/ SendUnconfirmed) => LogInv'
<1>. SUFFICES ASSUME JobInv, TypeOK', Send \/ SendUnconfirmed
              PROVE  LogInv'
  OBVIOUS
<1>1. /\ UNCHANGED <<accounts, age, today>> /\ pc = "send"
      /\ mails' = [mails EXCEPT ![run.user] = @ + 1]
      /\ run'.limit = run.limit
      /\ pc' \in {"loop", "spacing", "log"}
      /\ pc' # "loop" => run'.user = run.user
  BY DEF Send, SendUnconfirmed, Deliver, GiveUp, NextUser, Goto, tables, log,
     JobInv, TypeOK, Cycle
<1>2. /\ faults \in Nat /\ faults' \in Nat /\ faults' >= faults
      /\ pc' = "log" \/ faults' > faults
  BY Numbers DEF Send, SendUnconfirmed, Fault, Goto, JobInv, TypeOK
<1>3. Limited'
  BY <1>1 DEF JobInv, LogInv, Limited, Effective
<1>4. Below'
  BY <1>1 DEF JobInv, LogInv, Below
<1>5. LogWithinLimit'
  BY <1>1 DEF JobInv, LogInv, LogWithinLimit, Within, Effective
<1>6. /\ accounts \subseteq Accounts
      /\ mails \in [Accounts -> Nat] /\ today \in [Accounts -> Nat]
      /\ run.limit \in Int
  BY CycleFields DEF JobInv, TypeOK
<1>7. SomeAllowed'
  <2>1. CASE run.user \in accounts
    <3>1. PICK limit \in Limits : run.limit = Effective(limit)
      BY <1>1 DEF JobInv, LogInv, Limited
    <3>2. today[run.user] < run.limit /\ today[run.user] >= 0
      BY <1>1, <1>6, <2>1 DEF JobInv, LogInv, Below
    <3>3. Effective(limit) > 0
      BY <1>6, <2>1, <3>1, <3>2
    <3>. QED
      BY <3>3 DEF SomeAllowed, Effective
  <2>2. CASE run.user \notin accounts
    BY <1>1, <1>6, <2>2 DEF JobInv, LogInv, SomeAllowed, Effective
  <2>. QED
    BY <2>1, <2>2
<1>8. MailsLogged'
  <2>1. \A u \in accounts :
          mails[u] <= today[u] + faults /\ mails[u] \in Nat /\ today[u] \in Nat
    BY <1>1, <1>6 DEF JobInv, LogInv, MailsLogged, Pending
  <2>2. \A u \in accounts : u # run.user => mails'[u] = mails[u]
    BY <1>1, <1>6
  <2>3. \A u \in accounts : u = run.user => mails'[u] = mails[u] + 1
    BY <1>1, <1>6
  <2>4. CASE pc' = "log"
    <3>1. \A u \in accounts : Pending(u)' = IF u = run.user THEN 1 ELSE 0
      BY <1>1, <2>4 DEF Pending
    <3>. QED
      BY <1>1, <1>2, <2>1, <2>2, <2>3, <3>1 DEF MailsLogged
  <2>5. CASE pc' # "log"
    <3>1. \A u \in accounts : Pending(u)' = 0
      BY <2>5 DEF Pending
    <3>. QED
      BY <1>1, <1>2, <2>1, <2>2, <2>3, <2>5, <3>1 DEF MailsLogged
  <2>. QED
    BY <2>4, <2>5
<1>. QED
  BY <1>3, <1>4, <1>5, <1>7, <1>8 DEF LogInv

\* The row of an e-mail, written, refused or lost.
LEMMA LoggingInv == JobInv /\ TypeOK' /\ (LogSent \/ LogFails) => LogInv'
<1>. SUFFICES ASSUME JobInv, TypeOK', LogSent \/ LogFails PROVE LogInv'
  OBVIOUS
<1>1. /\ UNCHANGED <<accounts, mails>> /\ pc = "log"
      /\ pc' = "loop" /\ run'.limit = run.limit
  BY DEF LogSent, LogFails, NextUser, Goto, tables, post, JobInv, TypeOK,
     Cycle
<1>2. Limited'
  BY <1>1 DEF JobInv, LogInv, Limited, Effective
<1>3. CASE LogFails
  <2>1. UNCHANGED log /\ faults' > faults /\ faults' >= faults
    BY <1>3, Numbers DEF LogFails, Fault, JobInv, TypeOK
  <2>. QED
    BY <1>1, <1>2, <2>1, RestingStep
<1>4. CASE LogSent
  <2>1. /\ accounts \subseteq Accounts
        /\ mails \in [Accounts -> Nat] /\ today \in [Accounts -> Nat]
        /\ run.limit \in Int /\ faults \in Nat /\ faults' = faults
    BY <1>4, Numbers, CycleFields DEF JobInv, TypeOK, LogSent
  <2>2. \A u \in accounts : u # run.user => today'[u] = today[u]
    BY <1>4, <2>1 DEF LogSent, log
  <2>3. \A u \in accounts : u = run.user => today'[u] = today[u] + 1
    BY <1>4, <2>1 DEF LogSent
  <2>4. Below' /\ SomeAllowed'
    BY <1>1 DEF JobInv, LogInv, Below, SomeAllowed, Effective
  <2>5. LogWithinLimit'
    <3>. SUFFICES ASSUME NEW u \in accounts, today'[u] > 0
                  PROVE  Within(today'[u], 0)
      BY <1>1 DEF LogWithinLimit, Within, Effective
    <3>1. CASE u = run.user
      <4>1. PICK limit \in Limits : run.limit = Effective(limit)
        BY <1>1 DEF JobInv, LogInv, Limited
      <4>2. today[u] < run.limit
        BY <1>1, <3>1 DEF JobInv, LogInv, Below
      <4>3. today'[u] <= Effective(limit) + 0
        BY <2>1, <2>3, <3>1, <4>1, <4>2
      <4>. QED
        BY <4>3 DEF Within
    <3>2. CASE u # run.user
      BY <2>2, <3>2 DEF JobInv, LogInv, LogWithinLimit
    <3>. QED
      BY <3>1, <3>2
  <2>6. MailsLogged'
    <3>1. \A u \in accounts : Pending(u)' = 0
      BY <1>1 DEF Pending
    <3>2. \A u \in accounts : Pending(u) = IF u = run.user THEN 1 ELSE 0
      BY <1>1 DEF Pending
    <3>3. \A u \in accounts :
            mails[u] <= today[u] + Pending(u) + faults
            /\ mails[u] \in Nat /\ today[u] \in Nat
      BY <2>1 DEF JobInv, LogInv, MailsLogged
    <3>. QED
      BY <1>1, <2>1, <2>2, <2>3, <3>1, <3>2, <3>3 DEF MailsLogged
  <2>. QED
    BY <1>2, <2>4, <2>5, <2>6 DEF LogInv
<1>. QED
  BY <1>3, <1>4

\* The invariant holds in every behaviour.
LEMMA JobInvariant == Spec => []JobInv
<1>1. Init => JobInv
  <2>1. Init => LogInv
    BY DEF Init, LogInv, Limited, Below, LogWithinLimit, MailsLogged,
       SomeAllowed, Pending
  <2>. QED
    BY <2>1, InitType DEF JobInv
<1>2. JobInv /\ [Next]_vars => JobInv'
  <2>. SUFFICES ASSUME JobInv, [Next]_vars PROVE LogInv'
    BY NextType DEF JobInv
  <2>1. TypeOK'
    BY NextType DEF JobInv
  <2>2. CASE Requests
    BY <2>2, RequestsInv
  <2>3. CASE PassTime
    BY <2>3, TimeInv
  <2>4. CASE Work
    <3>1. CASE \E u \in Accounts : CheckLimit(u)
      BY <2>1, <3>1, CheckInv
    <3>. QED
      BY <2>1, <2>4, <3>1, ReadInv, SpacingInv, SendInv, LoggingInv DEF Work
  <2>5. CASE Failures
    <3>1. CASE \E u \in Accounts : CheckLimitFails(u)
      BY <2>1, <3>1, CheckInv
    <3>. QED
      BY <2>1, <2>5, <3>1, ReadInv, SpacingInv, SendInv, LoggingInv
         DEF Failures
  <2>6. CASE UNCHANGED vars
    <3>1. UNCHANGED <<accounts, today, pc, run, mails, faults>>
      BY <2>6 DEF vars, tables, log, clock, job, post
    <3>. QED
      BY <3>1 DEF JobInv, LogInv, Limited, Below, LogWithinLimit, MailsLogged,
         SomeAllowed, Pending, Within, Effective
  <2>. QED
    BY <2>2, <2>3, <2>4, <2>5, <2>6 DEF Next
<1>. QED
  BY <1>1, <1>2, PTL DEF Spec

\* max_emails_per_day as the log shows it: no account has more rows of one
\* day than the highest limit that can be saved allows, although the job
\* reads the limit at the start of a cycle, counts before it sends and writes
\* the row afterwards.
THEOREM LogNeverAboveLimit == Spec => []LogWithinLimit
BY JobInvariant, PTL DEF JobInv, LogInv

\* The e-mails of a day exceed that limit by no more than the failures and
\* crashes there were: each can lose the row of one e-mail.
THEOREM MailsNeverFarAboveLimit == Spec => []MailsBounded
<1>1. JobInv => MailsBounded
  <2>. SUFFICES ASSUME JobInv, NEW u \in accounts, mails[u] > 0
                PROVE  Within(mails[u], faults)
    BY DEF MailsBounded
  <2>1. /\ mails[u] \in Nat /\ today[u] \in Nat /\ faults \in Nat
        /\ run.limit \in Int
    BY Numbers, CycleFields DEF JobInv, TypeOK
  <2>2. mails[u] <= today[u] + Pending(u) + faults
    BY DEF JobInv, LogInv, MailsLogged
  <2>3. CASE Pending(u) = 1
    <3>1. pc = "log" /\ run.user = u
      BY <2>3 DEF Pending
    <3>2. PICK limit \in Limits : run.limit = Effective(limit)
      BY <3>1 DEF JobInv, LogInv, Limited
    <3>3. today[u] < run.limit
      BY <3>1 DEF JobInv, LogInv, Below
    <3>4. mails[u] <= Effective(limit) + faults
      BY <2>1, <2>2, <2>3, <3>2, <3>3
    <3>. QED
      BY <3>4 DEF Within
  <2>4. CASE Pending(u) = 0 /\ today[u] > 0
    <3>1. PICK limit \in Limits : today[u] <= Effective(limit) + 0
      BY <2>4 DEF JobInv, LogInv, LogWithinLimit, Within
    <3>2. mails[u] <= Effective(limit) + faults
      BY <2>1, <2>2, <2>4, <3>1, EffectiveType
    <3>. QED
      BY <3>2 DEF Within
  <2>5. CASE Pending(u) = 0 /\ today[u] = 0
    <3>1. PICK limit \in Limits : Effective(limit) > 0
      BY DEF JobInv, LogInv, SomeAllowed
    <3>2. mails[u] <= Effective(limit) + faults
      BY <2>1, <2>2, <2>5, <3>1, EffectiveType
    <3>. QED
      BY <3>2 DEF Within
  <2>. QED
    BY <2>1, <2>3, <2>4, <2>5 DEF Pending
<1>. QED
  BY <1>1, JobInvariant, PTL

-----------------------------------------------------------------------------
\* What the job knows about the last row of the account in hand.
LEMMA SpacedInvariant == Spec => []Spaced
<1>1. Init => Spaced
  BY DEF Init, Spaced
<1>2. JobInv /\ JobInv' /\ Spaced /\ [Next]_vars => Spaced'
  <2>. SUFFICES ASSUME JobInv, JobInv', Spaced, [Next]_vars,
                       pc' \in {"send", "log"}, run'.user \in accounts',
                       ~run'.blind
                PROVE  age'[run'.user] > Hour
    BY DEF Spaced
  <2>1. /\ Hour \in Nat /\ accounts \subseteq Accounts
        /\ age \in [Accounts -> 0 .. Never]
    BY Numbers DEF JobInv, TypeOK
  <2>2. CASE Requests
    <3>1. /\ UNCHANGED job /\ accounts' \subseteq accounts
          /\ \A u \in accounts' : age'[u] = age[u]
      BY <2>1, <2>2 DEF Requests, Plan, Change, Over, SaveSettings,
         DeleteUser, Elsewhere, log, JobInv, TypeOK
    <3>. QED
      BY <3>1 DEF Spaced, job
  <2>3. CASE PassTime
    <3>1. UNCHANGED <<accounts, pc, run>>
      BY <2>3 DEF PassTime, tables, job
    <3>2. age[run.user] > Hour /\ run.user \in accounts
      BY <3>1 DEF Spaced
    <3>3. age'[run.user] \in {age[run.user], age[run.user] + 1}
      BY <2>1, <2>3, <3>2 DEF PassTime, Never
    <3>4. age[run.user] \in Nat
      BY <2>1, <3>2 DEF Never
    <3>. QED
      BY <2>1, <3>1, <3>2, <3>3, <3>4
  <2>4. CASE CheckSpacing
    <3>1. age[run.user] > Hour /\ run' = run /\ age' = age
      BY <2>4 DEF CheckSpacing, GiveUp, NextUser, Goto, Quiet, log
    <3>. QED
      BY <3>1
  <2>5. CASE Send
    BY <2>5 DEF Send, Goto, Spaced, tables, log
  <2>6. CASE CheckSpacingFails
    <3>1. run' = [run EXCEPT !.blind = TRUE] /\ run \in Cycle
      BY <2>6 DEF CheckSpacingFails, Goto, JobInv, TypeOK
    <3>. QED
      BY <3>1 DEF Cycle
  <2>7. CASE ~Requests /\ ~PassTime /\ ~CheckSpacing /\ ~Send
             /\ ~CheckSpacingFails /\ ~UNCHANGED vars
    BY <2>7 DEF Next, Work, Failures, Start, Wake, TickReceived, Crash,
       LoadConfig, LoadUsers, LoadDuties, LoadCounts, LoadFails, CheckLimit,
       CheckLimitFails, Finished, SendUnconfirmed, SendFails, LogSent,
       LogFails, GiveUp, NextUser, EndCycle, Goto
  <2>8. CASE UNCHANGED vars
    BY <2>8 DEF Spaced, vars, tables, log, job
  <2>. QED
    BY <2>2, <2>3, <2>4, <2>5, <2>6, <2>7, <2>8
<1>. QED
  BY <1>1, <1>2, JobInvariant, PTL DEF Spec

\* Two rows of an account are more than an hour apart unless the error of
\* LastSentAt was dropped just before the later one: nothing else between the
\* look at the last row and the next row, not even a restart, brings them
\* nearer.
THEOREM RowsAnHourApart == Spec => LoggedAnHourApart
<1>1. JobInv /\ Spaced /\ [Next]_vars => [Apart]_vars
  <2>. SUFFICES ASSUME JobInv, Spaced, Next,
                       NEW u \in accounts \cap accounts', today'[u] > today[u]
                PROVE  age[u] > Hour \/ run.blind
    BY DEF Apart
  <2>1. today \in [Accounts -> Nat] /\ u \in Accounts
    BY DEF JobInv, TypeOK
  <2>2. CASE LogSent
    <3>1. u = run.user /\ pc = "log"
      BY <2>1, <2>2 DEF LogSent, log
    <3>. QED
      BY <3>1 DEF Spaced
  <2>3. CASE ~LogSent
    <3>1. today'[u] = today[u] \/ today'[u] = 0
      BY <2>1, <2>3 DEF Next, Requests, Work, Failures, Plan, Change, Over,
         SaveSettings, DeleteUser, Elsewhere, PassTime, CountsNextTick, Start,
         Wake, TickReceived, Crash, LoadConfig, LoadUsers, LoadDuties,
         LoadCounts, LoadFails, CheckLimit, CheckLimitFails, Finished,
         CheckSpacing, CheckSpacingFails, Send, SendUnconfirmed, SendFails,
         LogFails, Quiet, log
    <3>. QED
      BY <2>1, <3>1
  <2>. QED
    BY <2>2, <2>3
<1>. QED
  BY <1>1, JobInvariant, SpacedInvariant, PTL DEF Spec, LoggedAnHourApart

=============================================================================
