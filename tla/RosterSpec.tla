----------------------------- MODULE RosterSpec -----------------------------
(***************************************************************************)
(* What the duty roster promises its users: sign-ups, assignments, edits   *)
(* and absences as single steps, each with the condition its service       *)
(* method checks in full.  Roster, served one request at a time, is shown  *)
(* to implement it.                                                        *)
(***************************************************************************)
EXTENDS Integers, FiniteSets

CONSTANTS
  Users,      \* everybody who has an account at the start
  Days,       \* calendar days
  Rows,       \* what a duty says: [date, max, over], date[1] its day
  Assigning   \* whether organizers put people on duties

VARIABLES
  accounts,   \* who has an account
  duties,     \* the duties planned: id -> row
  planned,    \* how many duties were ever planned
  onDuty,     \* <<user, duty>>
  absences    \* [user, from, to], both days inclusive

promised == <<accounts, duties, planned, onDuty, absences>>

Covers(a, day) == a.from <= day /\ day <= a.to
Present(u, day) == \A a \in absences : a.user = u => ~Covers(a, day)
OnDuty(o) == {u \in Users : <<u, o>> \in onDuty}

\* Somebody comes on a duty they are not on, on a day they are there.
Join(u, o) ==
  /\ u \in accounts
  /\ o \in DOMAIN duties
  /\ <<u, o>> \notin onDuty
  /\ Present(u, duties[o].date[1])
  /\ onDuty' = onDuty \cup {<<u, o>>}
  /\ UNCHANGED <<accounts, duties, planned, absences>>

\* For themselves while a place is free, or by an organizer over the limit.
SignUp(u, o) ==
  /\ o \in DOMAIN duties
  /\ duties[o].over \/ Cardinality(OnDuty(o)) < duties[o].max
  /\ Join(u, o)

Assign(u, o) == Assigning /\ Join(u, o)

Leave(u, o) ==
  /\ onDuty' = onDuty \ {<<u, o>>}
  /\ UNCHANGED <<accounts, duties, planned, absences>>

\* No day of the absence belongs to another one, and no day but the last one
\* has a duty of theirs.
Announce(u, from, to) ==
  /\ u \in accounts
  /\ from <= to
  /\ \A a \in absences : a.user = u => to < a.from \/ a.to < from
  /\ \A o \in DOMAIN duties : <<u, o>> \in onDuty =>
       ~(from <= duties[o].date[1] /\ duties[o].date[1] < to)
  /\ absences' = absences \cup {[user |-> u, from |-> from, to |-> to]}
  /\ UNCHANGED <<accounts, duties, planned, onDuty>>

Return(a) ==
  /\ absences' = absences \ {a}
  /\ UNCHANGED <<accounts, duties, planned, onDuty>>

Plan(row) ==
  /\ planned' = planned + 1
  /\ duties' = [o \in DOMAIN duties \cup {planned'} |->
                  IF o = planned' THEN row ELSE duties[o]]
  /\ UNCHANGED <<accounts, onDuty, absences>>

\* A duty moves to a date on which everybody on it is there.
Edit(o, row) ==
  /\ o \in DOMAIN duties
  /\ duties[o].date # row.date =>
       \A u \in OnDuty(o) : Present(u, row.date[1])
  /\ duties' = [duties EXCEPT ![o] = row]
  /\ UNCHANGED <<accounts, planned, onDuty, absences>>

\* Nobody stays on a duty that is called off.
Cancel(o) ==
  /\ duties' = [d \in DOMAIN duties \ {o} |-> duties[d]]
  /\ onDuty' = {p \in onDuty : p[2] # o}
  /\ UNCHANGED <<accounts, planned, absences>>

\* An account goes with its duties and absences, and never the last one.
Close(u) ==
  /\ accounts \ {u} # {}
  /\ accounts' = accounts \ {u}
  /\ onDuty' = {p \in onDuty : p[1] # u}
  /\ absences' = {a \in absences : a.user # u}
  /\ UNCHANGED <<duties, planned>>

Init ==
  /\ accounts = Users
  /\ duties = [o \in {} |-> o]
  /\ planned = 0
  /\ onDuty = {}
  /\ absences = {}

Next ==
  \/ \E u \in Users, o \in DOMAIN duties : SignUp(u, o) \/ Assign(u, o)
  \/ \E p \in onDuty : Leave(p[1], p[2])
  \/ \E u \in Users, from, to \in Days : Announce(u, from, to)
  \/ \E a \in absences : Return(a)
  \/ \E row \in Rows : Plan(row)
  \/ \E o \in DOMAIN duties, row \in Rows : Edit(o, row)
  \/ \E o \in DOMAIN duties : Cancel(o)
  \/ \E u \in accounts : Close(u)

Spec == Init /\ [][Next]_promised

=============================================================================
