# A verification of DutyRound

DutyRound is a web application for planning duties: organizers publish occurrences
(duties) with a number of places, participants sign up, organizers assign and remove
people, everybody announces out-of-office periods. It is one Go process: gin
handlers, services, repositories of SQL statements, an SQLite file in WAL mode, and
one background goroutine that sends e-mail.

This directory holds TLA+ modules for the parts of it whose correctness depends on
order, concurrency and failure, TLC configurations that check them on small
instances, and TLAPS proofs for every size.

## 1. The system

### Parts, state and operations

| Part | Source | State | Operations |
| --- | --- | --- | --- |
| Duty roster | `service/occurrence.go`, `handler/occurrence.go`, `sqlite/participation.go`, `sqlite/occurrence.go` | tables `occurrences`, `participations` | sign up, withdraw, assign, remove, create, update, delete |
| Out-of-office | `service/user.go`, `handler/profile.go`, `sqlite/out_of_office.go` | table `out_of_office` | add, remove, remove by an administrator |
| Series | `service/occurrence.go` 304-376, `handler/occurrence.go` 152-388 | the column `recurrence_id` | create, update and delete a whole series or its future part |
| Accounts | `service/user.go`, `handler/user_admin.go`, `handler/profile.go` | table `users` | create, change password, set password, set e-mail, delete |
| Sessions | `handler/middleware.go`, `handler/auth.go` | the cookie | log in, log out, authenticate, authorize, CSRF token |
| E-mail job | `service/email.go`, `sqlite/email_log.go` | `email_notifications_log`, the goroutine | hourly cycle, test e-mail, stop |
| Settings | `service/settings.go`, `sqlite/settings.go` | table `settings` | save, read |
| Migrations | `cmd/server/migrations.go`, `migrations/` | the schema, `schema_migrations` | apply at start |
| Lifecycle | `cmd/server/main.go` | process, listener, goroutine | start, serve, shut down |
| Workload queries | `service/occurrence.go` 194-302, `sqlite/participation.go`, `handler/leaderboard.go`, `handler/calendar.go`, `handler/profile.go` | none | leaderboard, free users, export, heat map, calendar |
| Comments, groups | `sqlite/comment.go`, `sqlite/group.go`, `handler/group.go` | tables `comments`, `groups` | add, list, delete |
| First administrator | `cmd/seed/main.go` | none of its own | creates accounts while the server may run |
| Pages and texts | `i18n`, `templates`, `handler/renderer.go`, ... | none | rendering |

(Paths are under `src/internal/` except `cmd/` and `migrations/`.)

### How the parts interact

Everything meets in the database. A request is a goroutine: `AuthRequired` reads the
account of the session, the handler parses the form, the service runs its checks,
and every repository call is an SQL statement, committed by itself. There is no
mutex and, except for `CountAndInsert` and `SetMultiple`, no transaction: a service
method that reads, decides and writes interleaves with every other request between
any two of its statements, and a cancelled request or a stopped process ends between
any two of them. The database itself contributes three guarantees: a statement is
atomic, `participations` is unique in (user, duty), and foreign keys refuse or
cascade (the connection string in `sqlite/db.go` turns them on). `AUTOINCREMENT`
never gives an id out twice.

### What is hard, and what makes each part correct

* **Roster and absences.** A duty without over-limit must not be overfilled; nobody
  may have a duty on a day of absence; periods of a user do not overlap. Each rule
  is kept by several operations, each of which checks its own half in statements
  before the one that writes. Ranges of days are compared once as times (inclusive)
  and once as text (the last day excluded).
* **Deletion.** Accounts and duties disappear under requests that have read them;
  forms are saved long after they were opened.
* **Series.** Many rows written one by one, from rows read earlier; a row may fail
  and the rest go on; a group may be deleted under a form; months of different
  lengths.
* **Accounts.** Whole rows written back; two administrators; cookies that outlive
  the account, and answers that set the whole cookie again.
* **Comments.** Deleted by id, by what the session's account was when the request
  began; gone with their author or duty.
* **E-mail.** Send, then log; hourly tick against "more than one hour ago"; a daily
  limit; settings changed during a cycle; shutdown during a cycle.
* **Migrations.** Execute, then record, without a transaction; two processes on one
  file.
* **Pages.** Several queries that must agree while others write; ranges compared as
  text; days of UTC against days of local time; the study year; streaks.

`PROJECT.json` lists every hazard with its line and the properties that cover it.

## 2. Modules

| Module | Contents |
| --- | --- |
| `Roster` | the four tables and all requests on duties, absences and the deletion of accounts |
| `RosterSpec` | the promise: the same operations as single steps |
| `EmailJob` | the notification job: its goroutine, its cycle, the log, the settings and the time |
| `Migrations` | startup: executing and recording migrations, serving, stopping, new releases |
| `Series` | recurring duties and groups: creation, edits and deletion row by row; the dates of a repetition |
| `Accounts` | accounts, sessions in cookies, comments |
| `Reports` | what pages compute from rows: calendar, ranges, order, heat map, statistics, export |
| `Pages` | the queries of every page, interleaved with writes of others; extends `Reports` |
| `MCRoster`, `MCMigrations`, `MCSeries`, `MCAccounts`, `MCPages` | symmetry sets and the values of constants for TLC |
| `RosterProofs`, `RosterSerialProofs`, `EmailJobProofs`, `MigrationsProofs`, `SeriesProofs`, `AccountsProofs` | the theorems of section 4 |
| `ReportsProofs`, `PagesProofs` | lemmas about calendar, sums and streaks, and the theorems about pages |

The modules share the tables of the program and split its operations. `Roster` has
the single duty with its participants, `Series` the rows of a series without
participants, `Accounts` the account as a row with fields, `Pages` the rows that
reports read, with writes of any other part as single statements. What one of them
leaves of a request to another is noted where it is left.

### Roster

`users`, `occs`, `parts` and `ooo` are the tables, `lastOcc` and `lastOoo` their
`AUTOINCREMENT` counters. `pc[r]` is the statement request `r` is about to run
("idle" when it has been answered) and `local[r]` the values it carries: the row of
the duty SignUp read, the form of an edit, the dates of a period.

One action is one SQL statement together with the Go code up to the next one:

| Service method | Actions |
| --- | --- |
| `SignUp` | `SignUp` (FindByID), `SignUpCheckOOO`, `SignUpCount`, `SignUpInsert` or `SignUpRefused` |
| `Withdraw` | `Withdraw` (FindByOccurrence), `DeleteParticipation` |
| `AssignParticipant` | `Assign` (GetUser in the handler), `AssignFind`, `AssignCheckOOO`, `AssignInsert` or `AssignRefused` |
| `RemoveParticipant` | `RemoveParticipant` (GetUser in the handler), `DeleteParticipation` |
| `AddOutOfOffice` | `AddOOO` (ExistsForUserInDateRange), `AddOOOCheckOverlap`, `AddOOOSave` or `AddOOORefused` |
| `RemoveOutOfOffice` | `RemoveOOO` (FindByID and the owner), `RemoveOOODelete` |
| `RemoveOutOfOfficeAdmin` | `RemoveOOOAdmin` |
| `CreateOccurrence` | `Create` |
| `UpdateOccurrence` | `Update` (GetOccurrence in the handler), `UpdateFind`, `UpdateReadParticipants`, `UpdateCheckOOO`, `UpdateSave`; `UpdateFindFails` and `UpdateReadFails` are the errors the code does not look at |
| `DeleteOccurrence` | `Delete` |
| `DeleteUser` | `DeleteUser` (self-deletion guard, FindByID), `DeleteUserRow` |
| any | `Fail`: an error, a cancelled context or the end of the process after some of the statements |

Abstractions. A date is a day and a time of day. A duty keeps its date, its limit
and whether it may be exceeded: title, description, group and minimum do not matter
to any of these operations. `CountAndInsert` is one step: in WAL mode its
transaction, which reads before it writes, either commits on the snapshot it read or
fails with `SQLITE_BUSY`, and its count only colours the answer. The first statement
of a request is its start action; one that finds nothing to do would end the request
unchanged and is not a step of the module. Nothing but `Fail` models a stopped
process: a request whose goroutine is gone leaves the database as it is, as a failed
statement does.

### Properties of Roster

* `TypeOK`. The type invariant.
* `NoDanglingRows`. No participation or period outlives its user or duty, even when
  the row is inserted by a request whose checks are long past.
* `NothingResurrected`. No step brings a deleted account, duty or period back.
* `OvershootBounded`. Concurrent sign-ups can exceed a limit (see
  `roster_overfill`), by at most one participant for each other request.
* `SignUpFindsPlace`. An action property: a sign-up takes effect only while a place
  is free.
* `PeriodsDisjoint`, `NoDutyInsideAbsence`. Invariants the operations keep together.
  `NoDutyDuringAbsence` is the stronger rule the messages of the code speak of; it
  includes the last day of a period.
* `KeepsPromise`. The specification of `RosterSpec`, under the refinement mapping
  `Promise`: the tables are the promise's, `ooo` as a set of periods. Whatever
  statements an operation consists of and wherever it fails, what shows of it is one
  step of `RosterSpec` with its condition true in that moment, or nothing. The last
  account is never deleted.

`JoiningAvoidsAbsence`, `MovingAvoidsAbsence` and `AdmittedBounded` are stated for
the proofs. The first two are parts of the promise, the last one is the reason
`OvershootBounded` holds.

### EmailJob

`accounts`, `settings` and `duty` are what the job reads of the tables, `age` and
`today` what it asks of `email_notifications_log` (the time since the newest row of
an account, and the number of its rows since midnight UTC). `pc` is what the
goroutine does next and `run` what its cycle has read. `mails` are the e-mails that
reached an account since midnight, whether logged or not, and `announced` the new
duties it was told of: nothing in the program keeps these two.

| Code | Actions |
| --- | --- |
| `StartBackgroundJob` | `Start`, `Wake` (after ten seconds), `TickReceived` |
| `runNotificationCycle`, its reads | `LoadConfig`, `LoadUsers`, `LoadDuties`, `LoadCounts`, `LoadFails` |
| its loop | `CheckLimit` or `CheckLimitFails` for one account, `CheckSpacing` or `CheckSpacingFails`, `Finished` |
| `sendEmail` | `Send`, `SendUnconfirmed` (accepted, but an error is returned), `SendFails` |
| `LogSent` | `LogSent`, `LogFails` |
| end of the process | `Crash` |
| everything else in the program | `Plan`, `Change`, `Over`, `SaveSettings`, `DeleteUser` |
| the clock and `time.Ticker` | `PassTime` |

Abstractions. Time passes in ticks between any two steps. A duty is within the
reminder window or not, and short of participants, open or full; it changes from any
of these to any other. `enabled` stands for the switch together with a host and a
sender, without which the cycle ends too. Administrators get no e-mail and are left
out, roles are fixed when an account is created. `created_at` is a column nothing
writes, so `CreatedAt` is the first second of 1970 and the branch of the digest is
in the module but never taken. `Stop` closes a channel when `main` returns, and the
process ends with `main`: it is a `Crash`. The test e-mail goes to the administrator
who asks for it, and is neither counted nor logged.

### Properties of EmailJob

* `TypeOK`. The type invariant.
* `LogWithinLimit`. The limit of an e-mail is read at the start of the cycle, the
  count before it is sent, and the row is written after it; midnight, a restart or a
  new limit can fall in between.
* `MailsBounded`. The e-mails themselves exceed the limit by at most one for each
  failure. Without that allowance it does not hold: an e-mail is sent before it is
  logged.
* `LoggedAnHourApart`. An action property: a row is written only when the newest one
  is more than an hour old, unless the look at that one failed: the error of
  `LastSentAt` is dropped, and `run.blind` remembers it.
* `Reminded`. While a duty in the window is short of participants, there is again
  and again a day on which an account is reminded.
* `NewDutiesAnnounced`. What the digest is for.

### Migrations

`effect` is the set of statements whose tables, columns or rows are there,
`recorded` the table `schema_migrations`. A process has the files it found
(`files`), those it has not gone through (`todo`) and how many statements of the
current one it has executed (`line`).

| Code | Actions |
| --- | --- |
| `runMigrations` | `Boot` (the directory is read), `Check`, `Exec` or `ExecRefused` for one statement, `Record` or `RecordRefused`, `Migrated` |
| `main` | `Serve`, `Stop` (the signal, which is listened to once the port is open) |
| the process dies, the disk is full | `Crash` |
| another image is deployed | `Deploy` |

`Exec` of a file is one call of the driver and not one transaction: each statement
commits. `Rerunnable` are the files of `IF NOT EXISTS` and `OR IGNORE` statements
only, which may run twice; a second `ALTER TABLE ... ADD COLUMN` is an error.

* `RecordedInEffect`, `ServesWholeSchema`. What is recorded and what is served is
  there, however often processes died in the middle of a file or raced each other
  through it.
* `CutOnlyByCrash`. A file whose `ALTER TABLE` is in effect but not recorded, with
  no process on the way to record it, is *cut*. Two processes that start at once
  make each other fail but leave no file cut: that takes a crash in between.
* `CutForGood`. No later start gets past a file that was cut.
* `StartsUnlessWedged`. Every start comes to serve, unless a file is cut.

### Series

`occs` keeps of a row its series, its date and its group; the group stands for
everything that a form writes to all rows of a scope. `pc[r]` and `local[r]` are as
in `Roster`, `overtaken` is a history variable: the requests after whose start
another one has written a duty.

| Handler | Actions |
| --- | --- |
| `Create` | `Create` (the form, `generateRecurrenceDates`, the series id), `CreateInsert` or `CreateInsertFails` for one date, `CreateAnswer` |
| `Update` | `Update`, `UpdateGet`, then `UpdateSave` for one duty or `UpdateReadSiblings`, `UpdateSaveSibling` for one row, `UpdateAnswer` |
| `Delete` | `Delete` (the row is read), `DeleteRun` |
| `GroupHandler` | `CreateGroup`, `UpdateColor`, `UpdateColorSave`, `DeleteGroup` |
| any | `Fail` |

`RecurrenceDates` is `generateRecurrenceDates` on a calendar of months of any
lengths: `AddDate(0, 1, 0)` from the previous date, days that the next month does
not have running over into the one after, at most `MaxSeries` dates.

* `RepeatsAsAsked`. For every start, end and kind of repetition the dates are those
  that were asked for, counted independently: monthly ones on the day of the month
  they start on, if every month has it; otherwise a short month moves a date past
  its end, into the first days of the next one, where it stays. No series has more
  than the limit.
* `AnswersCount`. The answer of a creation says how many duties there are, failed
  rows included, unless somebody else has written meanwhile.
* `EditIsWhole`. An edit that has answered has reached every duty of its scope,
  unless somebody else has written meanwhile.
* `SeriesStays`. No duty changes its series.
* `SeriesEditKeepsDates`. An edit of a series moves nothing; it can undo a move only
  if that move came between reading and writing.
* `DeletionInScope`. Besides its own duty a deletion takes only the end of that
  duty's series.
* `GroupsExist`. No duty has a group that is gone (a theorem only).

Where a property says "unless somebody else has written", the other outcome is one
TLC finds: there is no transaction, and no comment promises more.

### Accounts

`users` keeps address, role and password of an account, `cookie[b]` the id in the
session of browser `b`. `local[r]` is a pair: who asks (browser, account and role as
`AuthRequired` read them, and the session the answer will set), and what the next
statement needs.

| Code | Actions |
| --- | --- |
| `Login`, `Logout`, `AuthRequired`, `RoleRequired`, the answer | `Login`, `Logout`, `Admitted`, `ClearSession`, `Answer` |
| `CreateUser`, the seed command | `Create` or `Seed`, `CreateFind`, `CreateInsert` |
| `SetEmail` | `SetEmail`, `SetEmailFind`, `SetEmailRead`, `UserSave` |
| `SetPassword`, `ChangePassword` | `SetPassword` or `ChangePassword`, `PasswordRead`, `UserSave` |
| `DeleteUser` | `Delete`, `DeleteFind`, `DeleteRun` |
| `AddComment` | `AddComment`, `AddCommentInsert` |
| `DeleteComment` | `DeleteComment`, `DeleteCommentFind`, `DeleteCommentRun` |
| elsewhere | `DeleteDuty` |
| any | `Fail`; `Lost` (the answer never arrives, or the process dies) |

An address is one of `Addresses` in lower or mixed case: `NormalizeEmail` and
`COLLATE NOCASE` are about nothing else. Passwords stand for their hashes.

* `AddressesUnique`. No two accounts have addresses that differ in case only, though
  the look-up comes before the insertion and the column compares as spelled.
* `StaleCookieStaysStale`. The cookie of a deleted account is nobody's.
* `EditsOneField`. Whole rows are written back, yet no role changes, and only one
  field unless somebody else wrote meanwhile.
* `LastAdminFallsToRace`. No administrator can delete themselves; two who delete
  each other at the same time leave none.
* `CommentsDeletedByTheirOwn`. By the author, by staff, or with account or duty.
* `CommentsAttached`. No comment outlives author or duty (a theorem only).

The comment at `handler/profile.go:131` says that a new password invalidates other
sessions. It does not: sessions are cookies, and the handler can only set the one of
the browser that asked. `PasswordRead` and `Answer` show it; other cookies of the
account stay valid for their week.

### Reports and Pages

A time is a number of slots of local time, `zone` says how many slots local time is
ahead of UTC, which is what SQLite's `DATE()` and Go's `Truncate(24 * time.Hour)`
work with. A page is a sequence of statements (`page.step`), what it was asked for
(`page.form`) and what it has read (`page.got`); a write of another request may come
between any two. The clock is read where the code reads it: the export asks for the
time twice, the calendar for what is past (`now`) and later for the day to mark
(`today`), a profile three times (the year, the order of its list, the absence of
today).

Some reads have an error that the code drops: the page is shown with what the
repository had scanned before it, nothing or the first rows. In the model such a
read returns any part of its rows, and `page.lost` names it if that is not all.
They are the duties and counts of the calendar (`calendar.go:49-50`), periods,
activity, duties and counts of a profile (`profile.go:46`, `50`, `92`, `93`, `226`,
`227`), the groups of the export (`leaderboard.go:202`) and the upcoming duties of
the dashboard (`dashboard.go:73`). Every other read that fails ends its request
(`End`). Names and colours of groups on calendar and profile, and the number on a
public profile (`profile.go:98`), are shown and not computed with; their dropped
errors are left out.

| Page | Actions |
| --- | --- |
| `LeaderboardHandler.Show` | `ShowLeaderboard` |
| `LeaderboardHandler.Export` | `Export`, `ExportEntries`, `ExportOccs`, `ExportGroups` |
| `AvailableUsers` | `Free`, `FreeUsers`, `FreeCounts`, `FreeAbsent` |
| `DashboardHandler.Show` | `Dashboard`, `DashboardCounts`, `DashboardUpcoming`, `DashboardTop` |
| `ProfileHandler.Show`, `ShowPublic` | `Profile`, `ProfileActivity`, or `ShowPublic`, `PublicActivity`, `PublicOOO`; then `ProfileOccs`, `ProfileCounts` |
| `CalendarHandler.Show`, `DayOccurrences` | `Calendar`, `CalendarCounts`; `DayOccurrences`, `DayCounts` |
| `OccurrenceHandler.List` | `List`, `ListCounts` |
| other requests | `Write` |

* `BoardIsOfThisYear`. Without a range the leaderboard counts the study year of
  today, in January too.
* `ExportTrue`. Rows, columns, lines and group names come from four queries and
  agree on range, roles and group: a line for every duty before the last day, a
  cross for every participant, no cross without somebody of that name in a duty
  printed like this one, and sums that are those of the crosses, unless two users
  have one name or two duties are printed alike. Without the groups' names the
  crosses of their duties vanish.
* `ParticipantsRanked`. Free users come before absent ones, and of the participants
  the less busy first.
* `ProfileTrue`. `ActivityNearItsDay`: the heat map shows a duty on its day or, where
  local time is ahead, the day before, all of them up to yesterday if the read
  succeeded, and a total not above what there was. `StreaksAreRuns`: the streaks are
  those of the months shown, of whatever rows.
* `CalendarTrue`. `CalendarIsWhole`: whole weeks, no duty of the month in a wrong
  cell, and each one the filters leave in its own if the reads it takes succeeded.
  `TodayIsMarked`: at most one cell, and today's in UTC or early in the day.
  `DayShowsItsDuties`: the duties of a day, except those early enough to be of the
  day before in UTC.
* `ListsTrue`. Open duties have room; the list has each duty once and in order.

`LeastDoneFirst` is what a comment says of free users, whatever their role, and does
not hold: the counts are those of participants, and organizers and administrators
always have none (run `pages_free`).

Three more deviations from what comments and texts say are in the model without a
run of their own. No property says that they should be so; the ones above leave
these cases open.

* The export has no line for the last day of its range, against "returns all
  occurrences in a date range" (`service/occurrence.go:268`) and "Get ALL occurrences
  in range" (`handler/leaderboard.go:193`): `FindInRange` compares as
  `ExistsForUserInDateRange` does (run `roster_last_day`).
* Ahead of UTC an early duty is on the day before in the heat map
  (`sqlite/participation.go:98`), whose counts are "grouped by date"
  (`service/occurrence.go:288`) and looked up by local days; and today's are missing.
* Ahead of UTC the page of a day lacks the early duties (`sqlite/occurrence.go:68`)
  that stand in its cell, which says "Click any day to see duties."

What a page shows of rows is stated for pages during which nobody has written
(`Undisturbed`): duties and users that come and go between two queries are steps of
the model, but no comment promises anything about a page they disturb. The shape of
the calendar, the marked day, the streaks and the order of the list hold in any
case. That tomorrow is marked as today late in the evening, where local time is
ahead, follows from `IsToday`; no comment speaks of it.

Left out: years differ in no length and there is no daylight saving time; the
average of the profile and the number on a public profile, which are quotients and
copies of what is there; the search of the list; the form of `ShowCreate` and the
page of a single duty, which show single rows. Pages write nothing and so do not
meet: one at a time is enough.

## 3. Runs

| Run | Instance | Shows |
| --- | --- | --- |
| `roster_serial` | 1 request at a time, 2 users, 3 days, 1 duty, 2 periods, limits 1 and 2, all operations | the checks of the services are right for every sequence of requests, and the whole implements `RosterSpec` |
| `roster_concurrent` | 2 requests, 2 users, 1 day with two times, 1 duty, 1 period, all operations, ignored errors | types, referential integrity, no resurrection |
| `roster_overshoot` | 3 requests, 4 users, 2 duties with 1 place | the overshoot is bounded |
| `roster_overfill` | 2 requests | violated: the last place is given twice |
| `roster_last_day` | 1 request | violated: a period may end on the day of a duty |
| `email_job` | 1 account, 1 duty, limits 0 (which counts as 1) and 2, days of 5 ticks, hours of 1 tick, 2 failures or crashes, dropped errors, fairness | limit and distance hold in the log, and the limit for the e-mails up to failures; reminders go on for ever |
| `email_digests` | no failures, fairness | violated: a new duty is never announced |
| `migrations` | the ten files of the repository, 2 processes, 3 releases, 1 crash, fairness | what is recorded and served is there; only a crash cuts a file; every start succeeds otherwise |
| `series` | 2 requests, months of 31, 28 and 31 days, 2 rows, 1 series of at most 3 dates, 1 group | creation, edits and deletions of series, and all dates of repetitions |
| `accounts` | 2 requests, 1 browser and the seed command, 2 accounts, 2 addresses, 2 passwords, 1 comment | accounts, cookies and comments |
| `pages` | 3 people, two of them alike, 2 duties, 2 participations, 2 time zones, a year of 3 + 4 days, 1 write and 1 dropped error between the statements of a page | every page over every small database |
| `pages_free` | 1 duty, 3 people | violated: an organizer with a duty comes before people without |

The violated ones are disagreements between the code and what its comments, messages
and documentation say; "findings" in `PROJECT.json` quotes both.

**Bounds.** Ids are never reused, so one duty or period that is created, deleted and
edited late already shows resurrection and dangling; two duties in
`roster_overshoot` let sign-ups for different duties coexist. Two requests are
enough for every race between a check and a write; three, with four users and one
place, for an overshoot of two. Three days give periods with a first, an inner and a
last day, two periods an overlap, a contact and a gap. `MaxOccurrences` and
`MaxPeriods` bound what is created in a behaviour; a request that would create more
does not begin (`Create`) or ends without effect (`AddOOORefused`).

For the e-mails an hour is one tick, so that "more than an hour" is two ticks and a
cycle one hour after an e-mail finds it too recent; a day has room for one e-mail
more than the limit and for midnight between any two steps. Two failures, crashes or
restarts anywhere lose a row and send twice. Accounts share nothing but what a cycle
has read at its start, and time may pass between any two of its steps, so one
account meets whatever treating others would add. Ages and the tick of the day are
bounded by what is compared with, not by the length of a behaviour; only failures
are counted (`MaxFaults`).

`migrations` has the real files, in three releases; statements of one kind in a row
count as one. A second crash adds nothing to the harm of the first, and two
processes are the old and the new container of a deployment. `series` has a month of
each relation to its neighbours (longer, shorter than the day asked for), a
repetition that ends before the limit and one cut off by it; two rows are a duty in
scope and one outside of it. In `accounts` one browser suffices because a request
keeps the cookie it was sent with while the browser gets another one; two accounts
are a pair of administrators or one with a participant (`MaxUsers`, `MaxComments`
bound the ids). The pages have two months, so that a study year ends inside a
calendar, weeks of three days that do not divide either, two slots a day for the
hour at which UTC is on the day before, and users and duties that are
printed alike (`MaxDuties`, `MaxParts`, `MaxChanges`). One dropped error of a page
(`MaxLost`) shows what each read's absence does to the rest. People of one name and role
are interchangeable, so the run uses symmetry.

The second of the two times lies after the last duty and after a
first day of study, so that the leaderboard of that day has something to count. One
bound does not bite and rests on its theorem: with two rows no stored series comes
near the limit of `RepeatsAsAsked` (`RepeatsAreAsAsked`).

**Deadlock** is checked in every run except `roster_concurrent`, where account
deletion meets a second request: two administrators can delete each other, and then
nobody can log in. The program behaves the same way.

**Fairness.** `EmailJob` has weak fairness of the goroutine's steps (`Work`: every
dialogue with the mail server ends by its deadline of 30 seconds, and a stopped
server is started again: the documented deployment has `restart: unless-stopped`)
and of `PassTime`. Failures and requests are not fair. `Migrations` has weak
fairness of `Work(p)`: a process goes on, and one that ended is started again, by
the same restart policy. Stopping, crashing and deploying are not fair. The other
modules state safety only.

## 4. Proofs

Every invariant and every action property that a passing run checks is also stated
by a theorem, for all values of the constants that the named assumption of its
module allows. Theorems that need more than that assumption say so in their
hypotheses and below.

The proofs about `Roster` hold for every set of users and requests, every number of
days, duties and periods and every set of limits, from `RosterAssumption`: users and
requests are finite sets, days are integers, limits lie between 1 and 1000 (the form
refuses others), the bounds are natural numbers.

* `TypeCorrect`, from `NextType`: one lemma for the start actions and one for the
  later statements. `TypeOK` ties `local[r]` to `pc[r]` (`Locals`), which makes it
  inductive.
* `RowsNeverDangle`, from `TypeOK /\ NoDanglingRows`. The step that matters is
  `CountAndInsert`, whose guard is the database's foreign keys, and the cascades.
* `DeletedStaysDeleted`, from `TypeOK`: new ids lie above the counters.
* `OvershootIsBounded` assumes that assignments and edits are not among the
  operations, which may exceed or lower a limit on purpose. `OvershootBounded` is
  not inductive: a state with too many admitted sign-ups satisfies it and its
  successor does not. The invariant `CapacityInv` adds `AdmittedBounded`, that rows
  do not change, that an admitted sign-up knows the current row, and referential
  integrity (a sign-up for a deleted duty must not be admitted to a later one). The
  counting step: when a sign-up is admitted at most `max - 1` places are taken, and
  all admitted requests together are at most `Cardinality(Requests)`.
* `SerialAbsences`, `SerialSignUps`, `SerialJoining`, `SerialMoves` assume
  `Serially`: one request at a time and no unnoticed errors. `SerialInv` adds to the
  rules what the statements before have established for the next one (`Ready`). The
  services are correct as sequential programs, and only as such: without the
  assumption `roster_overfill` violates one of these rules, and sign-ups on a day of
  absence, overlapping periods and moves to a day of absence arise in the same way
  from two requests that both check before either writes.
* `SerialPromise`, under the same assumption: `Spec =>
  KeepsPromise`. `PromiseInv` is `SerialInv`, what the start of a request has
  established beside it (`Begun`: the period to be stored does not end before it
  begins, the account to be deleted is not the last one), and that no stored period
  ends before it begins. The proof has a lemma for each statement that writes, which
  is a step of `RosterSpec`, and one case for all the others, which are stutters.

The proofs about `EmailJob` hold for every set of accounts, duties and limits and
for every length of an hour and a day, from `EmailJobAssumption` (both are positive,
limits are integers, `Nobody` is no account).

* `JobTypeCorrect`. `TypeOK` ties `run.user` to `pc`, so that sending and logging
  have an account.
* `LogNeverAboveLimit`, `MailsNeverFarAboveLimit`, from `JobInv`. That the log
  respects the limit is not inductive: the row is written steps after the count.
  `Limited` says that the limit of the cycle is one that was saved, `Below` that the
  count taken before is still below it when the row is written: nobody else writes
  rows, and midnight only takes away. `MailsLogged` counts e-mails against rows, the
  one on its way (`Pending`) and failures; `SomeAllowed` rules out e-mails when
  every limit is negative.
* `RowsAnHourApart`: `Spaced` carries what the check of the distance found, or that it
  could not look, to the step that writes the row.

The proofs about `Migrations` hold for any files, releases and number of processes,
from `MigrationsAssumption`: a release has the files that its files need, and those
come earlier by name.

* `StartupTypeCorrect`, and `RecordsAreTrue` from the invariant that a process which
  has executed `line` statements of its current file has their effects, since
  nothing takes an effect away.
* `ServedSchemaIsWhole`: every file that a process is done with is in effect.
* `OrderSuffices`: what a file needs is earlier, so the process is done with it;
  hence no statement is refused for want of a table.
* `StartsAloneCutNothing`: while nothing crashed, an `ALTER TABLE` that is in effect
  and unrecorded has a process that is about to record it: only one can have
  executed it, for it is refused to the second, and that process is ended by nothing
  else.
* `CutFilesStayCut`: a cut file is refused to every process that comes to it.

The proofs about `Series` (`SeriesAssumption`: months have 28 to 31 days, dates are
days of the calendar, ids are numbers) and `Accounts` (`AccountsAssumption`: the
first accounts have different, normalised addresses) hold for any number of
requests. Both follow one pattern: what a statement writes was read earlier, so the
invariant has to say what is still known of a row in the hands of a request.
`Arrivals` lists the steps by which a request comes to a statement, `StepLeaves`
says that a step leaves the others where they are and marks them as overtaken if it
writes.

* `SeriesTypeCorrect`, `GroupsAlwaysExist` (the second from the foreign key and `SET
  NULL`).
* `DutiesStayInSeries`, `SeriesEditsMoveNothing`, from `InPlace`: rows to be written
  back are of the series they are in, and at their dates if nobody has written
  since.
* `DeletionsStayInScope`, from what a deletion knows of its own duty.
* `EditsAreWhole`: the duties in scope are those still to be saved and those that
  have been. `AnswersAreTrue`: the number made is that of the members, and a new
  series has none.
* `RepeatsAreAsAsked` has two halves. That no series exceeds the limit follows from
  `Alone`, an id of a series is given to one creation only, and `Room`: the members
  and the dates this creation has still to write are at most `MaxSeries`; a written
  or failed date leaves the latter and at most joins the former. That the dates are
  those of the form is about `generateRecurrenceDates` itself. The loop walks from
  one date asked for to the next (`Walks`: steps of a day, one or two weeks, or a
  month when every month has the day), so its first `MaxSeries` steps are the
  `MaxSeries` least of them (`DatesOfWalk`). A day past the end of a month moves to
  the first three days of the one after (`NextMonthIs`), which every month has, so
  it moves once.
* `AccountsTypeCorrect`. `AddressesStayUnique`, from `Lower`: addresses are lower
  case in the table and in the hands of every request, so that the column's `UNIQUE`
  says more than it does. `StaleCookiesStayStale`, from `KnownIds`: sessions hold
  ids already given out.
* `EditsKeepTheRest`, from `RowsIn`: the row to be saved has the role the account
  has, and the other field if nobody has written since. `LastAdminIsRaced`, from
  `DeletionsIn`: who deletes is an administrator other than the deleted one, and
  still there unless overtaken; it rests on `RowsIn` because roles must not change
  under it.
* `CommentsStayAttached`, and `CommentsAreTheirOwn` from `CommentsIn`.

The proofs about `Reports` and `Pages` hold for any accounts, duties, periods,
filters and writes, any zone within a day ahead of UTC, and any calendar of at least
two months, none shorter than a week (`ReportsAssumption`, `PagesAssumption`). The
bounds on months are what the properties need: a year of one month has no study
year that begins inside it, and a month shorter than a week can lie inside a week
of another one.

* `PagesTypeCorrect`, from `BaseInv`: the tables refer to rows that exist, and each
  page has a step it can be at.
* The other theorems have an invariant for each page (`BoardSeen`, `FreeSeen`,
  `DashSeen`, `ListSeen`, `CalSeen`, `ExportSeen`, `ProfileSeen`). It says, for
  each of its statements, what those before have read: what the tables hold now,
  unless somebody has written since. Where a property has no such exception
  (`CalendarIsWhole`, `TodayIsMarked`, `UpcomingFirst`, `OpenHaveRoom`) it is about
  the rows that were read, and the invariant keeps those.
* `BoardOfStudyYear` rests on `StudentYearIs`: the study year is the only one that
  starts with `FirstMonth` and has the day.
* `ParticipantsAreRanked` and `ListsAreTrue` (with its parts `OpenDutiesHaveRoom` and
  `ListInOrder`) rest on sorting: in whatever order the code's maps are walked, the
  result has every row once and in order.
* `CalendarIsTrue`, from the arithmetic of weeks and months and from `UTCDay`, which
  differs from the local day by at most one. What was read is a part of the tables
  unless the read is in `Lost`; a filter for the status needs the counts too.
* `ExportIsTrue`, from `SumOfCounts`: crosses counted by line, and by column, are
  the crosses there are, if what is printed identifies duties and users. The
  table is looked at for any set of groups whose names were read (`Table(named)`).
* `ProfileIsTrue`, from `CountsNearby` (a duty is counted on its day or, where local
  time is ahead, on the one before), `TotalIs` (a sum over fewer days is not larger)
  and `StreakIsRun`: a streak is the length of the longest run of months that ends
  with its month, whatever the counts.

**Recursive functions.** `DaysBefore`, `MonthStart`, `Generated`, `Streaks` and the
sums of the library are recursive functions, that is, a `CHOOSE` of some function
that satisfies their equations, and nothing is known of them before one is shown to
exist. The library's theorems on induction take an operator as a parameter, which
no prover here can instantiate. So these existence lemmas (`DaysBeforeExists`,
`SumExists`, `StreakExists`, `MonthStartExists`, `GeneratedExists`), and the lemmas
that go along a walk or a run, are proved by the least number for which the
statement fails: for `0` it holds, and from the number before it follows.

**Only model-checked.** The liveness properties `Reminded` and `StartsUnlessWedged`:
they rest on weak fairness, that is on `ENABLED`, for which the prover has no rules,
and on well-founded arguments over temporal formulas. And the violations, which are
counterexamples of small instances by nature.

## 5. What is not modelled

* Translations (`i18n`), templates and their rendering, flash messages, the search
  of the list, logging: no state depends on them, and nothing but text is computed.
* The CSRF token: a random value compared with itself. It shares the cookie that
  `Answer` sets.
* Lengths and characters of texts (`domain/validation.go`): forms are refused or
  accepted before any of the steps modelled here. `NormalizeEmail` is in `Accounts`.
* The test e-mail, which is neither counted nor logged, and the recovery from a
  panic in a cycle, which nothing is known to raise.
* The page of settings. Saving them is `SaveSettings` in `EmailJob`.
* The drain of open requests at shutdown: a request either ends or fails, and every
  module of requests has the failure at every statement.

What could be added next: the hazards of `PROJECT.json` without a property, if the
code comes to promise something about them; the composition of `Roster` and
`Series`, in which edits of a series meet participants; and leap years and time
changes in `Reports`.
