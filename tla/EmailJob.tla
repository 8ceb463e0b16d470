------------------------------ MODULE EmailJob ------------------------------
(***************************************************************************)
(* The background job that sends notifications: an hourly cycle reads the  *)
(* settings, the accounts, the duties and their participants, one SQL      *)
(* statement each, and then treats the accounts one by one: count the      *)
(* e-mails of the day, look at the time of the last one, send, log.        *)
(* Requests change all of it meanwhile, and the process can stop between   *)
(* any two of these steps.                                                 *)
(*                                                                         *)
(* Time passes in ticks.  Instead of times the module keeps ages, counted  *)
(* up to the largest that is ever compared with, and the tick of the day,  *)
(* so its behaviours are as long as the program runs.  Administrators get  *)
(* none of these e-mails and are left out.                                 *)
(***************************************************************************)
EXTENDS Integers, FiniteSets

CONSTANTS
  Participants,    \* accounts by role; a role never changes
  Organizers,
  Duties,          \* the duties planned at the same time
  Hour,            \* ticks in an hour: the ticker, and the least distance
  DayLength,       \* ticks in a day
  Limits,          \* values of the setting max_emails_per_day
  MaxFaults,       \* bound: failures and crashes in a behaviour
  Nobody

Accounts == Participants \cup Organizers

ASSUME EmailJobAssumption ==
  /\ Nobody \notin Accounts
  /\ Hour \in Nat \ {0}
  /\ DayLength \in Nat \ {0}
  /\ IsFiniteSet(Limits) /\ Limits \subseteq Int
  /\ MaxFaults \in Nat

Never == Hour + 1

\* When a duty is, and how its participants compare with its minimum and
\* its maximum.  A duty that is over, or deleted, is "none" and has nobody.
Duty == [when : {"none", "later", "soon"}, fill : {"short", "open", "full"}]
NoDuty == [when |-> "none", fill |-> "short"]
Planned == {duty \in Duty : duty.when # "none"}

VARIABLES
  accounts,  \* the table users
  settings,  \* max_emails_per_day; enabled means with a host and a sender
  duty,      \* the tables occurrences and participations
  age,       \* ticks since an account's newest row in the e-mail log
  today,     \* the number of its rows of this day
  daytime,   \* tick of the day
  timer,     \* ticks until the ticker fires
  tick,      \* its channel of one element
  pc,        \* what the job does next
  run,       \* what its cycle has read; blind, as history: not the last e-mail
  mails,     \* e-mails that reached an account this day
  announced, \* <<account, duty>>: new duties the account was told of
  faults     \* failures and crashes so far

clock == <<daytime, timer, tick>>
log == <<age, today>>
tables == <<accounts, settings, duty>>
post == <<mails, announced>>
job == <<pc, run>>
vars == <<tables, log, clock, job, post, faults>>

Cycle == [limit : Int, planned : SUBSET Duties, soon : SUBSET Duties,
          short : SUBSET Duties, open : SUBSET Duties,
          todo : SUBSET Accounts, user : Accounts \cup {Nobody},
          kind : {"none", "new_occurrence", "unfilled"},
          blind : BOOLEAN]

NoCycle == [limit |-> 0, planned |-> {}, soon |-> {}, short |-> {},
            open |-> {}, todo |-> {}, user |-> Nobody, kind |-> "none",
            blind |-> FALSE]

Goto(step, cycle) == pc' = step /\ run' = cycle
EndCycle == Goto("select", NoCycle)
NextUser == Goto("loop", [run EXCEPT !.user = Nobody, !.kind = "none",
                                     !.blind = FALSE])

\* A failure: the bound leaves the job time to work between failures.
Fault == faults < MaxFaults /\ faults' = faults + 1

-----------------------------------------------------------------------------
(* Requests change the tables at any time.                                 *)

Elsewhere == UNCHANGED <<log, clock, job, post, faults>>

Plan(d, new) ==
  /\ duty[d].when = "none" /\ new \in Planned /\ new.fill = "short"
  /\ duty' = [duty EXCEPT ![d] = new]
  /\ announced' = {a \in announced : a[2] # d}
  /\ UNCHANGED <<accounts, settings, log, clock, job, mails, faults>>

\* A date comes into the reminder window or is moved, people come and go.
Change(d, new) ==
  /\ duty[d].when # "none" /\ new \in Planned
  /\ duty' = [duty EXCEPT ![d] = new]
  /\ Elsewhere /\ UNCHANGED <<accounts, settings>>

Over(d) ==
  /\ duty[d].when # "none"
  /\ duty' = [duty EXCEPT ![d] = NoDuty]
  /\ Elsewhere /\ UNCHANGED <<accounts, settings>>

\* SetMultiple, in one transaction.
SaveSettings(enabled, limit) ==
  /\ settings' = [enabled |-> enabled, limit |-> limit]
  /\ Elsewhere /\ UNCHANGED <<accounts, duty>>

\* The rows of the log go with the account.
DeleteUser(u) ==
  /\ u \in accounts
  /\ accounts' = accounts \ {u}
  /\ age' = [age EXCEPT ![u] = Never]
  /\ today' = [today EXCEPT ![u] = 0]
  /\ UNCHANGED <<settings, duty, clock, job, post, faults>>

-----------------------------------------------------------------------------
(* Time.                                                                   *)

NewDay == daytime + 1 = DayLength

\* Mutant: the rows of all days count.
CountsNextTickAllDays == today

\* CountSentToday counts from midnight.
CountsNextTick == IF NewDay THEN [u \in Accounts |-> 0] ELSE today

\* A tick of the ticker that nobody has received is not sent twice.
PassTime ==
  /\ daytime' = IF NewDay THEN 0 ELSE daytime + 1
  /\ age' = [u \in Accounts |-> IF age[u] = Never THEN Never ELSE age[u] + 1]
  /\ today' = CountsNextTick
  /\ mails' = IF NewDay THEN [u \in Accounts |-> 0] ELSE mails
  /\ IF pc = "down" THEN UNCHANGED <<timer, tick>>
                    ELSE /\ timer' = IF timer = 1 THEN Hour ELSE timer - 1
                         /\ tick' = (tick \/ timer = 1)
  /\ UNCHANGED <<tables, job, announced, faults>>

-----------------------------------------------------------------------------
(* The goroutine of StartBackgroundJob.                                    *)

Quiet == UNCHANGED <<tables, log, clock, post, faults>>

Start ==
  /\ pc = "down"
  /\ Goto("sleep", NoCycle)
  /\ timer' = Hour
  /\ tick' = FALSE
  /\ UNCHANGED <<tables, log, daytime, post, faults>>

\* The first cycle does not wait for the ticker.
Wake == pc = "sleep" /\ Goto("config", NoCycle) /\ Quiet

TickReceived ==
  /\ pc = "select" /\ tick
  /\ tick' = FALSE
  /\ Goto("config", NoCycle)
  /\ UNCHANGED <<tables, log, daytime, timer, post, faults>>

\* The process is killed, or main returns on a signal: nothing waits for
\* the goroutine to finish its cycle.
Crash ==
  /\ pc # "down" /\ Fault
  /\ Goto("down", NoCycle)
  /\ timer' = Hour
  /\ tick' = FALSE
  /\ UNCHANGED <<tables, log, daytime, post>>

-----------------------------------------------------------------------------
(* runNotificationCycle: four reads, any error of which ends the cycle.    *)

\* GetEmailConfig: an absent or malformed number, or zero, is one a day.
Effective(limit) == IF limit = 0 THEN 1 ELSE limit

LoadConfig ==
  /\ pc = "config"
  /\ IF settings.enabled
       THEN Goto("users", [run EXCEPT !.limit = Effective(settings.limit)])
       ELSE EndCycle
  /\ Quiet

LoadUsers ==
  /\ pc = "users"
  /\ Goto("duties", [run EXCEPT !.todo = accounts])
  /\ Quiet

LoadDuties ==
  /\ pc = "duties"
  /\ Goto("counts", [run EXCEPT
       !.planned = {d \in Duties : duty[d].when # "none"},
       !.soon = {d \in Duties : duty[d].when = "soon"}])
  /\ Quiet

LoadCounts ==
  /\ pc = "counts"
  /\ Goto("loop", [run EXCEPT
       !.short = {d \in run.soon : duty[d].fill = "short"},
       !.open = {d \in run.planned : duty[d].fill # "full"}])
  /\ Quiet

LoadFails ==
  /\ pc \in {"config", "users", "duties", "counts"}
  /\ Fault
  /\ EndCycle
  /\ UNCHANGED <<tables, log, clock, post>>

-----------------------------------------------------------------------------
(* Its loop over the accounts.                                             *)

\* created_at is a column no statement writes: a row has its default, the
\* first second of 1970, and a digest is about later ones only.
CreatedAt(d) == 0
LastDigest(u) == 1
NewDuties(u) == {d \in run.open : CreatedAt(d) > LastDigest(u)}

Kind(u) ==
  IF u \in Participants /\ NewDuties(u) # {} THEN "new_occurrence"
  ELSE IF run.short # {} THEN "unfilled" ELSE "none"

\* Mutant: the account is not kept for the next steps.
CheckLimitUnnamed(u) ==
  /\ pc = "loop" /\ u \in run.todo
  /\ IF today[u] >= run.limit \/ Kind(u) = "none"
       THEN Goto("loop", [run EXCEPT !.todo = @ \ {u}])
       ELSE Goto("spacing", [run EXCEPT !.todo = @ \ {u}, !.kind = Kind(u)])
  /\ Quiet

\* Mutant: one more than the limit.
CheckLimitOneMore(u) ==
  /\ pc = "loop" /\ u \in run.todo
  /\ IF today[u] > run.limit \/ Kind(u) = "none"
       THEN Goto("loop", [run EXCEPT !.todo = @ \ {u}])
       ELSE Goto("spacing", [run EXCEPT !.todo = @ \ {u}, !.user = u,
                                        !.kind = Kind(u)])
  /\ Quiet

CheckLimit(u) ==
  /\ pc = "loop" /\ u \in run.todo
  /\ IF today[u] >= run.limit \/ Kind(u) = "none"
       THEN Goto("loop", [run EXCEPT !.todo = @ \ {u}])
       ELSE Goto("spacing", [run EXCEPT !.todo = @ \ {u}, !.user = u,
                                        !.kind = Kind(u)])
  /\ Quiet

CheckLimitFails(u) ==
  /\ pc = "loop" /\ u \in run.todo /\ Fault
  /\ Goto("loop", [run EXCEPT !.todo = @ \ {u}])
  /\ UNCHANGED <<tables, log, clock, post>>

Finished == pc = "loop" /\ run.todo = {} /\ EndCycle /\ Quiet

\* A digest that was not sent leaves room for the reminder.
GiveUp ==
  IF run.kind = "new_occurrence" /\ run.short # {}
    THEN Goto("spacing", [run EXCEPT !.kind = "unfilled", !.blind = FALSE])
    ELSE NextUser

\* Mutant: a full hour is enough.
CheckSpacingInclusive ==
  /\ pc = "spacing"
  /\ IF age[run.user] >= Hour THEN Goto("send", run) ELSE GiveUp
  /\ Quiet

CheckSpacing ==
  /\ pc = "spacing"
  /\ IF age[run.user] > Hour THEN Goto("send", run) ELSE GiveUp
  /\ Quiet

\* The error of LastSentAt is dropped: the last e-mail was in the year 1.
CheckSpacingFails ==
  /\ pc = "spacing" /\ Fault
  /\ Goto("send", [run EXCEPT !.blind = TRUE])
  /\ UNCHANGED <<tables, log, clock, post>>

Deliver ==
  /\ mails' = [mails EXCEPT ![run.user] = @ + 1]
  /\ announced' = IF run.kind = "new_occurrence"
                  THEN announced \cup ({run.user} \X NewDuties(run.user))
                  ELSE announced

Send ==
  /\ pc = "send"
  /\ Deliver
  /\ Goto("log", run)
  /\ UNCHANGED <<tables, log, clock, faults>>

\* The message is accepted, but the end of the dialogue, or Quit, fails.
SendUnconfirmed ==
  /\ pc = "send" /\ Fault
  /\ Deliver
  /\ GiveUp
  /\ UNCHANGED <<tables, log, clock>>

SendFails ==
  /\ pc = "send" /\ Fault
  /\ GiveUp
  /\ UNCHANGED <<tables, log, clock, post>>

\* Mutant: the row does not count for the day.
LogSentUncounted ==
  /\ pc = "log"
  /\ age' = [age EXCEPT ![run.user] = 0]
  /\ NextUser
  /\ UNCHANGED <<tables, today, clock, post, faults>>

\* The foreign key refuses the row of a deleted account, which nobody notices.
LogSent ==
  /\ pc = "log"
  /\ IF run.user \in accounts
       THEN /\ age' = [age EXCEPT ![run.user] = 0]
            /\ today' = [today EXCEPT ![run.user] = @ + 1]
       ELSE UNCHANGED log
  /\ NextUser
  /\ UNCHANGED <<tables, clock, post, faults>>

\* Nor is an error of the insertion noticed.
LogFails ==
  /\ pc = "log" /\ Fault
  /\ NextUser
  /\ UNCHANGED <<tables, log, clock, post>>

-----------------------------------------------------------------------------
Requests ==
  \/ \E d \in Duties, new \in Duty : Plan(d, new) \/ Change(d, new)
  \/ \E d \in Duties : Over(d)
  \/ \E enabled \in BOOLEAN, limit \in Limits : SaveSettings(enabled, limit)
  \/ \E u \in Accounts : DeleteUser(u)

Work ==
  \/ Start \/ Wake \/ TickReceived
  \/ LoadConfig \/ LoadUsers \/ LoadDuties \/ LoadCounts
  \/ \E u \in Accounts : CheckLimit(u)
  \/ Finished \/ CheckSpacing \/ Send \/ LogSent

Failures ==
  \/ Crash \/ LoadFails
  \/ \E u \in Accounts : CheckLimitFails(u)
  \/ CheckSpacingFails \/ SendUnconfirmed \/ SendFails \/ LogFails

\* A server that has not been started yet, with an empty log.
Init ==
  /\ accounts = Accounts
  /\ settings \in [enabled : BOOLEAN, limit : Limits]
  /\ duty = [d \in Duties |-> NoDuty]
  /\ age = [u \in Accounts |-> Never]
  /\ today = [u \in Accounts |-> 0]
  /\ daytime = 0
  /\ timer = Hour
  /\ tick = FALSE
  /\ pc = "down"
  /\ run = NoCycle
  /\ mails = [u \in Accounts |-> 0]
  /\ announced = {}
  /\ faults = 0

Next == Requests \/ PassTime \/ Work \/ Failures

Spec == Init /\ [][Next]_vars

\* The goroutine runs, a stopped server is started again, time goes on.
FairSpec == Spec /\ WF_vars(Work) /\ WF_vars(PassTime)

-----------------------------------------------------------------------------
(* Properties.                                                             *)

JobSteps == {"down", "sleep", "select", "config", "users", "duties",
             "counts", "loop", "spacing", "send", "log"}

\* Variables have their types, and the job knows whom it is treating.
TypeOK ==
  /\ accounts \subseteq Accounts
  /\ settings \in [enabled : BOOLEAN, limit : Limits]
  /\ duty \in [Duties -> Duty]
  /\ age \in [Accounts -> 0 .. Never]
  /\ today \in [Accounts -> Nat]
  /\ daytime \in 0 .. DayLength - 1
  /\ timer \in 1 .. Hour
  /\ tick \in BOOLEAN
  /\ pc \in JobSteps
  /\ run \in Cycle
  /\ mails \in [Accounts -> Nat]
  /\ announced \subseteq Accounts \X Duties
  /\ faults \in 0 .. MaxFaults
  /\ pc \in {"spacing", "send", "log"} <=> run.user # Nobody

Within(n, bonus) == \E limit \in Limits : n <= Effective(limit) + bonus

\* max_emails_per_day, as the log shows it: whatever the job had read of the
\* log before midnight, before a restart or before the settings changed, an
\* account never has more rows of one day than the highest limit that can be
\* saved.
LogWithinLimit == \A u \in accounts : today[u] > 0 => Within(today[u], 0)

\* The e-mails themselves can be more, because an e-mail is sent before it is
\* logged; but only by one for each failure or crash.
MailsBounded == \A u \in accounts : mails[u] > 0 => Within(mails[u], faults)

\* Two rows of an account are more than an hour apart, although the job looks
\* at the last one before it sends and the next is written afterwards, and
\* although a restart runs a cycle at once.  Only an e-mail sent after an error
\* of LastSentAt, which is dropped, may be nearer to the one before.
Apart ==
  \A u \in accounts \cap accounts' :
    today'[u] > today[u] => age[u] > Hour \/ run.blind
LoggedAnHourApart == [][Apart]_vars

Reminding(u, d) ==
  /\ u \in accounts
  /\ settings.enabled /\ Effective(settings.limit) > 0
  /\ duty[d] = [when |-> "soon", fill |-> "short"]

\* While a duty within the reminder window is short of participants, every
\* participant and organizer is reminded again and again: the hourly ticker,
\* the distance of more than an hour, the daily limit, restarts and cycles of
\* any length do not add up to a job that has a reason not to send every
\* time it looks.
Reminded ==
  \A u \in Accounts, d \in Duties :
    <>[]Reminding(u, d) => []<>(mails[u] > 0)

\* "Send notifications about occurrences that are genuinely new": a new duty
\* with free places is announced to every participant.
Announcing(u, d) ==
  /\ u \in accounts
  /\ settings.enabled /\ Effective(settings.limit) > 0
  /\ duty[d].when # "none" /\ duty[d].fill # "full"
NewDutiesAnnounced ==
  \A u \in Participants, d \in Duties :
    <>[]Announcing(u, d) => <>(<<u, d>> \in announced)

=============================================================================
