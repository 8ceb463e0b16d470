------------------------------ MODULE Accounts ------------------------------
(***************************************************************************)
(* Accounts, the browsers that are signed in to them, and the comments     *)
(* they write.  The session lives in the browser's cookie and holds an     *)
(* account id: a request works with the cookie it was sent with, and its   *)
(* answer sets the whole cookie again.  An account is edited by reading    *)
(* its row, replacing a field and writing the row back.                    *)
(*                                                                         *)
(* A step is one SQL statement, or the arrival of an answer.  Passwords    *)
(* are those long enough to be accepted, and stand for their hashes; no    *)
(* operation changes a name or a role.  What deleting an account or a duty *)
(* does to the roster is in Roster.                                        *)
(***************************************************************************)
EXTENDS Integers, FiniteSets, Sequences

CONSTANTS
  Browsers,      \* positive numbers
  Requests,      \* the requests that can be in progress at the same time
  Addresses,     \* e-mail addresses that differ in more than case
  Passwords,
  FormRoles,     \* roles given to new accounts in a behaviour
  Duties,        \* duties that can be commented on
  Founders,      \* the rows of the accounts 1, 2, ... that exist at the start
  MaxUsers,      \* bound: ids given out in a behaviour
  MaxComments    \* bound: comments written in a behaviour

Roles == {"admin", "organizer", "participant"}
Spellings == Addresses \X {"lower", "mixed"}
Account == [email : Spellings, role : Roles, password : Passwords]

ASSUME AccountsAssumption ==
  /\ Browsers \subseteq Nat \ {0}
  /\ FormRoles \subseteq Roles
  /\ MaxUsers \in Nat
  /\ MaxComments \in Nat
  /\ Founders \in Seq(Account)
  /\ Len(Founders) <= MaxUsers
  /\ \A u \in DOMAIN Founders : Founders[u].email[2] = "lower"
  /\ \A u, v \in DOMAIN Founders :
       Founders[u].email = Founders[v].email => u = v

UserIds == 1 .. MaxUsers
CommentIds == 1 .. MaxComments
Comment == [author : UserIds, duty : Duties]

VARIABLES
  users,        \* the table users: id -> row
  lastUser,     \* its AUTOINCREMENT counter
  duties,       \* the ids in the table occurrences
  comments,     \* the table comments: id -> row
  lastComment,  \* its AUTOINCREMENT counter
  cookie,       \* the account id each browser's session holds, or 0
  pc, local,    \* the requests
  overtaken     \* history: requests after whose start users was written

vars == <<users, lastUser, duties, comments, lastComment, cookie, pc, local,
          overtaken>>
userTable == <<users, lastUser>>
commentTable == <<duties, comments, lastComment>>

-----------------------------------------------------------------------------
(* E-mail addresses.                                                       *)

\* Mutant: only trimmed.
Trimmed(email) == email

\* NormalizeEmail: lower case.
NormalizeEmail(email) == <<email[1], "lower">>

\* FindByEmail ... COLLATE NOCASE.
WithEmail(email) == {u \in DOMAIN users : users[u].email[1] = email[1]}

\* The column is UNIQUE as it is spelled.
EmailFree(email, u) == \A v \in DOMAIN users : users[v].email = email => v = u

-----------------------------------------------------------------------------
(* The requests.  The first four fields are in every one of them: where it *)
(* comes from, the session its answer will set, and who makes it.          *)

Nothing == [none |-> TRUE]
Idents == [browser : Browsers \cup {0}, session : 0 .. MaxUsers,
           actor : 0 .. MaxUsers, role : Roles]
Ident(b, u) ==
  [browser |-> b, session |-> u, actor |-> u, role |-> users[u].role]
Operator == [browser |-> 0, session |-> 0, actor |-> 0, role |-> "admin"]

Put(table, id, row) ==
  [k \in DOMAIN table \cup {id} |-> IF k = id THEN row ELSE table[k]]
Keep(table, ids) == [k \in DOMAIN table \cap ids |-> table[k]]

\* local[r] is the pair of who asks and what the next statement needs.
Goto(r, step, who, what) ==
  /\ pc' = [pc EXCEPT ![r] = step]
  /\ local' = [local EXCEPT ![r] = <<who, what>>]
Finish(r) == Goto(r, "idle", Operator, Nothing)
Who(r) == local[r][1]
What(r) == local[r][2]

At(r, step) == pc[r] = step

Reads == overtaken' = [q \in Requests |-> pc'[q] # "idle" /\ overtaken[q]]
Writes(r) ==
  overtaken' = [q \in Requests |-> pc'[q] # "idle" /\ (overtaken[q] \/ q # r)]

\* A request that changes nothing but itself.
Only(r) == Reads /\ UNCHANGED <<userTable, commentTable, cookie>>

\* The handler is done: its answer is on the way.
Answers(r) == Goto(r, "answer", Who(r), Nothing)

-----------------------------------------------------------------------------
(* Sessions.                                                               *)

\* Login reads the account by its address and compares the password.
Login(r, b, email, password) ==
  /\ At(r, "idle")
  /\ \E u \in WithEmail(email) :
       /\ users[u].password = password
       /\ Goto(r, "answer", Ident(b, u), Nothing)
  /\ Only(r)

\* AuthRequired and RoleRequired: the session's account is read.
Admitted(r, b, roles) ==
  /\ At(r, "idle")
  /\ cookie[b] \in DOMAIN users
  /\ users[cookie[b]].role \in roles
Admin == {"admin"}

\* The account is gone: the session is cleared.  (ShowLogin does so too.)
ClearSession(r, b) ==
  /\ At(r, "idle")
  /\ cookie[b] # 0
  /\ cookie[b] \notin DOMAIN users
  /\ cookie' = [cookie EXCEPT ![b] = 0]
  /\ UNCHANGED <<userTable, commentTable, pc, local, overtaken>>

Logout(r, b) ==
  /\ Admitted(r, b, Roles)
  /\ Goto(r, "answer", [Ident(b, cookie[b]) EXCEPT !.session = 0], Nothing)
  /\ Only(r)

\* The session of the request, as its handler left it, becomes the cookie.
Answer(r) ==
  /\ At(r, "answer")
  /\ cookie' = [b \in Browsers |->
                  IF b = Who(r).browser THEN Who(r).session ELSE cookie[b]]
  /\ Finish(r)
  /\ Reads
  /\ UNCHANGED <<userTable, commentTable>>

-----------------------------------------------------------------------------
(* CreateUser: an administrator, or the operator with the seed command.    *)

NewAccount(email, role, password) ==
  [email |-> NormalizeEmail(email), role |-> role, password |-> password]

Create(r, b, email, role, password) ==
  /\ Admitted(r, b, Admin)
  /\ Goto(r, "new_find", Ident(b, cookie[b]),
          NewAccount(email, role, password))
  /\ Only(r)

Seed(r, email, password) ==
  /\ At(r, "idle")
  /\ Goto(r, "new_find", Operator, NewAccount(email, "admin", password))
  /\ Only(r)

CreateFind(r) ==
  /\ At(r, "new_find")
  /\ IF WithEmail(What(r).email) # {}
       THEN Answers(r)                            \* ErrEmailTaken
       ELSE Goto(r, "new_insert", Who(r), What(r))
  /\ Only(r)

\* Mutant: the table has no AUTOINCREMENT: the largest id there is, plus one.
CreateInsertReusing(r) ==
  /\ At(r, "new_insert")
  /\ EmailFree(What(r).email, 0)
  /\ LET id == CHOOSE i \in 1 .. MaxUsers + 1 :
                 /\ \A u \in DOMAIN users : u < i
                 /\ i = 1 \/ i - 1 \in DOMAIN users
     IN /\ id <= MaxUsers
        /\ users' = Put(users, id, What(r))
        /\ lastUser' = IF id > lastUser THEN id ELSE lastUser
  /\ Answers(r)
  /\ Writes(r)
  /\ UNCHANGED <<commentTable, cookie>>

CreateInsert(r) ==
  /\ At(r, "new_insert")
  /\ EmailFree(What(r).email, 0)
  /\ lastUser < MaxUsers
  /\ lastUser' = lastUser + 1
  /\ users' = Put(users, lastUser + 1, What(r))
  /\ Answers(r)
  /\ Writes(r)
  /\ UNCHANGED <<commentTable, cookie>>

-----------------------------------------------------------------------------
(* SetEmail, SetPassword and ChangePassword.                               *)

SetEmail(r, b, u, email) ==
  /\ Admitted(r, b, Admin)
  /\ Goto(r, "email_find", Ident(b, cookie[b]),
          [user |-> u, email |-> NormalizeEmail(email)])
  /\ Only(r)

SetEmailFind(r) ==
  /\ At(r, "email_find")
  /\ IF \E u \in WithEmail(What(r).email) : u # What(r).user
       THEN Answers(r)                            \* ErrEmailTaken
       ELSE Goto(r, "email_read", Who(r), What(r))
  /\ Only(r)

\* Mutant: the row saved is a new one that has the address only.
SetEmailReadBlind(r) ==
  /\ At(r, "email_read")
  /\ Goto(r, "user_save", Who(r),
          [user |-> What(r).user,
           row |-> [email |-> What(r).email, role |-> "", password |-> ""]])
  /\ Only(r)

\* FindByID; the row will be saved with the new address.
SetEmailRead(r) ==
  /\ At(r, "email_read")
  /\ LET u == What(r).user
     IN IF u \in DOMAIN users
        THEN Goto(r, "user_save", Who(r),
                  [user |-> u,
                   row |-> [users[u] EXCEPT !.email = What(r).email]])
        ELSE Answers(r)                           \* ErrUserNotFound
  /\ Only(r)

SetPassword(r, b, u, password) ==
  /\ Admitted(r, b, Admin)
  /\ Goto(r, "pw_read", Ident(b, cookie[b]),
          [user |-> u, old |-> Passwords, new |-> password])
  /\ Only(r)

\* One's own, which has to be given.
ChangePassword(r, b, current, password) ==
  /\ Admitted(r, b, Roles)
  /\ Goto(r, "pw_read", Ident(b, cookie[b]),
          [user |-> cookie[b], old |-> {current}, new |-> password])
  /\ Only(r)

\* Mutant: the row saved is a new one, the role left out of it.
PasswordReadPartly(r) ==
  /\ At(r, "pw_read")
  /\ LET u == What(r).user
     IN IF u \in DOMAIN users /\ users[u].password \in What(r).old
        THEN Goto(r, "user_save", Who(r),
                  [user |-> u,
                   row |-> [users[u] EXCEPT !.password = What(r).new,
                                            !.role = "participant"]])
        ELSE Answers(r)
  /\ Only(r)

\* FindByID; a wrong current password ends it.
PasswordRead(r) ==
  /\ At(r, "pw_read")
  /\ LET u == What(r).user
     IN IF u \in DOMAIN users /\ users[u].password \in What(r).old
        THEN Goto(r, "user_save", Who(r),
                  [user |-> u,
                   row |-> [users[u] EXCEPT !.password = What(r).new]])
        ELSE Answers(r)
  /\ Only(r)

\* UPDATE of the whole row: nothing when it is gone.
UserSave(r) ==
  /\ At(r, "user_save")
  /\ LET u == What(r).user
     IN IF u \in DOMAIN users
        THEN /\ EmailFree(What(r).row.email, u)
             /\ users' = [users EXCEPT ![u] = What(r).row]
        ELSE users' = users
  /\ Answers(r)
  /\ Writes(r)
  /\ UNCHANGED <<lastUser, commentTable, cookie>>

-----------------------------------------------------------------------------
(* DeleteUser.                                                             *)

\* Mutant: also one's own account.
DeleteAnyone(r, b, u) ==
  /\ Admitted(r, b, Admin)
  /\ Goto(r, "del_find", Ident(b, cookie[b]), [user |-> u])
  /\ Only(r)

Delete(r, b, u) ==
  /\ Admitted(r, b, Admin)
  /\ u # cookie[b]                                \* cannotDeleteSelf
  /\ Goto(r, "del_find", Ident(b, cookie[b]), [user |-> u])
  /\ Only(r)

DeleteFind(r) ==
  /\ At(r, "del_find")
  /\ IF What(r).user \in DOMAIN users
       THEN Goto(r, "del_run", Who(r), What(r))
       ELSE Answers(r)                            \* ErrUserNotFound
  /\ Only(r)

\* ON DELETE CASCADE takes the comments of the account.
DeleteRun(r) ==
  /\ At(r, "del_run")
  /\ users' = Keep(users, DOMAIN users \ {What(r).user})
  /\ comments' = Keep(comments, {k \in DOMAIN comments :
                                   comments[k].author # What(r).user})
  /\ Answers(r)
  /\ Writes(r)
  /\ UNCHANGED <<lastUser, duties, lastComment, cookie>>

-----------------------------------------------------------------------------
(* Comments.  Their handlers set no cookie.                                *)

AddComment(r, b, d) ==
  /\ Admitted(r, b, Roles)
  /\ Goto(r, "cmt_insert", Ident(b, cookie[b]), [duty |-> d])
  /\ Only(r)

\* The foreign keys of the table.
CommentAllowed(author, duty) == author \in DOMAIN users /\ duty \in duties

AddCommentInsert(r) ==
  /\ At(r, "cmt_insert")
  /\ CommentAllowed(Who(r).actor, What(r).duty)
  /\ lastComment < MaxComments
  /\ lastComment' = lastComment + 1
  /\ comments' = Put(comments, lastComment + 1,
                     [author |-> Who(r).actor, duty |-> What(r).duty])
  /\ Finish(r)
  /\ Reads
  /\ UNCHANGED <<userTable, duties, cookie>>

\* The duty in the path is not looked at, the comment is found by its id.
DeleteComment(r, b, k) ==
  /\ Admitted(r, b, Roles)
  /\ Goto(r, "cmt_find", Ident(b, cookie[b]), [comment |-> k])
  /\ Only(r)

\* Mutant: everybody is staff.
MayDeleteAny(who, author) == who.role \in Roles

\* canDelete, by the role the account had when the request began.
MayDelete(who, author) ==
  who.actor = author \/ who.role \in {"admin", "organizer"}

DeleteCommentFind(r) ==
  /\ At(r, "cmt_find")
  /\ IF /\ What(r).comment \in DOMAIN comments
        /\ MayDelete(Who(r), comments[What(r).comment].author)
       THEN Goto(r, "cmt_run", Who(r), What(r))
       ELSE Finish(r)
  /\ Only(r)

DeleteCommentRun(r) ==
  /\ At(r, "cmt_run")
  /\ comments' = Keep(comments, DOMAIN comments \ {What(r).comment})
  /\ Finish(r)
  /\ Reads
  /\ UNCHANGED <<userTable, duties, lastComment, cookie>>

\* Elsewhere: an organizer deletes a duty, its comments with it.
DeleteDuty(d) ==
  /\ d \in duties
  /\ duties' = duties \ {d}
  /\ comments' = Keep(comments, {k \in DOMAIN comments : comments[k].duty # d})
  /\ UNCHANGED <<userTable, lastComment, cookie, pc, local, overtaken>>

-----------------------------------------------------------------------------
\* A statement fails or is refused by a constraint: the answer says so.
Fail(r) == pc[r] \notin {"idle", "answer"} /\ Answers(r) /\ Only(r)

\* The browser never sees the answer, or the process dies before it.
Lost(r) == pc[r] # "idle" /\ Finish(r) /\ Only(r)

Start(r) ==
  \/ \E b \in Browsers :
       \/ \E email \in Spellings, password \in Passwords :
            \/ Login(r, b, email, password)
            \/ \E role \in FormRoles : Create(r, b, email, role, password)
       \/ ClearSession(r, b)
       \/ Logout(r, b)
       \/ \E u \in 1 .. lastUser :
            \/ \E email \in Spellings : SetEmail(r, b, u, email)
            \/ \E password \in Passwords : SetPassword(r, b, u, password)
            \/ Delete(r, b, u)
       \/ \E old, new \in Passwords : ChangePassword(r, b, old, new)
       \/ \E d \in Duties : AddComment(r, b, d)
       \/ \E k \in 1 .. lastComment : DeleteComment(r, b, k)
  \/ \E email \in Spellings, password \in Passwords : Seed(r, email, password)

Continue(r) ==
  \/ Answer(r)
  \/ CreateFind(r)
  \/ CreateInsert(r)
  \/ SetEmailFind(r)
  \/ SetEmailRead(r)
  \/ PasswordRead(r)
  \/ UserSave(r)
  \/ DeleteFind(r)
  \/ DeleteRun(r)
  \/ AddCommentInsert(r)
  \/ DeleteCommentFind(r)
  \/ DeleteCommentRun(r)

Init ==
  /\ users = Founders
  /\ lastUser = Len(Founders)
  /\ duties = Duties
  /\ comments = [k \in {} |-> k]
  /\ lastComment = 0
  /\ cookie = [b \in Browsers |-> 0]
  /\ pc = [r \in Requests |-> "idle"]
  /\ local = [r \in Requests |-> <<Operator, Nothing>>]
  /\ overtaken = [r \in Requests |-> FALSE]

Next ==
  \/ \E r \in Requests : Start(r) \/ Continue(r) \/ Fail(r) \/ Lost(r)
  \/ \E d \in Duties : DeleteDuty(d)

Spec == Init /\ [][Next]_vars

-----------------------------------------------------------------------------
(* Properties.                                                             *)

WhatAt(step) ==
  CASE step \in {"idle", "answer"} -> {Nothing}
    [] step \in {"new_find", "new_insert"} -> Account
    [] step \in {"email_find", "email_read"} ->
         [user : UserIds, email : Spellings]
    [] step = "pw_read" ->
         [user : UserIds, old : SUBSET Passwords, new : Passwords]
    [] step = "user_save" -> [user : UserIds, row : Account]
    [] step \in {"del_find", "del_run"} -> [user : UserIds]
    [] step = "cmt_insert" -> [duty : Duties]
    [] step \in {"cmt_find", "cmt_run"} -> [comment : CommentIds]

Steps == {"idle", "answer", "new_find", "new_insert", "email_find",
          "email_read", "pw_read", "user_save", "del_find", "del_run",
          "cmt_insert", "cmt_find", "cmt_run"}

TypeOK ==
  /\ lastUser \in 0 .. MaxUsers
  /\ DOMAIN users \subseteq 1 .. lastUser
  /\ users \in [DOMAIN users -> Account]
  /\ duties \subseteq Duties
  /\ lastComment \in 0 .. MaxComments
  /\ DOMAIN comments \subseteq 1 .. lastComment
  /\ comments \in [DOMAIN comments -> Comment]
  /\ cookie \in [Browsers -> 0 .. MaxUsers]
  /\ pc \in [Requests -> Steps]
  /\ DOMAIN local = Requests
  /\ \A r \in Requests : local[r] \in Idents \X WhatAt(pc[r])
  /\ overtaken \in [Requests -> BOOLEAN]

\* No two accounts have addresses that differ in nothing but case, so Login
\* finds one account: not when two administrators give the same address at
\* the same time, each after a look-up that found it free, nor when a row is
\* saved that was read while its old address was still its own.
AddressesUnique ==
  \A u, v \in DOMAIN users : u # v => users[u].email[1] # users[v].email[1]

\* The cookie of an account that was deleted stays the cookie of nobody: ids
\* are never given out again, though the browser keeps it for a week.
StaleStays ==
  \A b \in Browsers :
    cookie'[b] = cookie[b] /\ cookie[b] # 0 /\ cookie[b] \notin DOMAIN users =>
      cookie'[b] \notin DOMAIN users'
StaleCookieStaysStale == [][StaleStays]_vars

\* The row that an edit writes back changes no role, and one of address and
\* password only: it takes the other one back to what it was only when
\* another request has written since it was read.
SavesItsField ==
  /\ \A u \in DOMAIN users \cap DOMAIN users' : users'[u].role = users[u].role
  /\ \A r \in Requests, u \in DOMAIN users \cap DOMAIN users' :
       pc[r] = "user_save" /\ pc'[r] # "user_save" /\ ~overtaken[r] =>
         \/ users'[u].email = users[u].email
         \/ users'[u].password = users[u].password
EditsOneField == [][SavesItsField]_vars

Admins(table) == {u \in DOMAIN table : table[u].role = "admin"}

\* Nobody can delete the last administrator, for it would be themselves: it
\* takes two who delete each other at the same time.
LastAdminStays ==
  Admins(users) # {} /\ Admins(users)' = {} =>
    \E r \in Requests : pc[r] = "del_run" /\ overtaken[r]
LastAdminFallsToRace == [][LastAdminStays]_vars

\* No comment is left of an account or a duty that is gone, a comment sent
\* before and inserted after the deletion included.
CommentsAttached ==
  \A k \in DOMAIN comments :
    comments[k].author \in DOMAIN users /\ comments[k].duty \in duties

\* A comment that its account and its duty outlive was deleted by its author
\* or by somebody who was staff.
DeletedByItsOwn ==
  \A k \in DOMAIN comments \ DOMAIN comments' :
    comments[k].author \in DOMAIN users' /\ comments[k].duty \in duties' =>
      \E r \in Requests :
        /\ pc[r] = "cmt_run"
        /\ \/ Who(r).actor = comments[k].author
           \/ Who(r).role # "participant"
CommentsDeletedByTheirOwn == [][DeletedByItsOwn]_vars

=============================================================================
