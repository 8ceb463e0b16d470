--------------------------- MODULE AccountsProofs ---------------------------
(***************************************************************************)
(* What holds of accounts, sessions and comments for any number of         *)
(* browsers, requests, addresses and accounts, however their statements    *)
(* interleave and fail.                                                    *)
(***************************************************************************)
EXTENDS Accounts, TLAPS

\* A step of one request.
Step(r) == Start(r) \/ Continue(r) \/ Fail(r) \/ Lost(r)

TablesOK ==
  /\ lastUser \in 0 .. MaxUsers
  /\ DOMAIN users \subseteq 1 .. lastUser
  /\ users \in [DOMAIN users -> Account]
  /\ duties \subseteq Duties
  /\ lastComment \in 0 .. MaxComments
  /\ DOMAIN comments \subseteq 1 .. lastComment
  /\ comments \in [DOMAIN comments -> Comment]
  /\ cookie \in [Browsers -> 0 .. MaxUsers]

RequestsOK ==
  /\ pc \in [Requests -> Steps]
  /\ DOMAIN local = Requests
  /\ \A r \in Requests : local[r] \in Idents \X WhatAt(pc[r])

-----------------------------------------------------------------------------
\* Types.

LEMMA KeepType ==
  ASSUME NEW T, NEW f, f \in [DOMAIN f -> T], NEW ids
  PROVE  Keep(f, ids) \in [DOMAIN f \cap ids -> T]
  BY DEF Keep

LEMMA LocalType ==
  ASSUME RequestsOK, NEW r \in Requests
  PROVE  /\ Who(r) \in Idents
         /\ What(r) \in WhatAt(pc[r])
  BY DEF RequestsOK, Who, What

LEMMA IdentType ==
  ASSUME AccountsAssumption, TablesOK, NEW b \in Browsers,
         NEW u \in DOMAIN users
  PROVE  /\ Ident(b, u) \in Idents
         /\ [Ident(b, u) EXCEPT !.session = 0] \in Idents
<1>1. users[u] \in Account /\ u \in 0 .. MaxUsers
  BY DEF TablesOK, AccountsAssumption
<1> QED  BY <1>1 DEF Ident, Idents, Account, AccountsAssumption

LEMMA GotoIs ==
  ASSUME RequestsOK, NEW r \in Requests, NEW step, NEW who, NEW what,
         Goto(r, step, who, what)
  PROVE  /\ pc'[r] = step /\ local'[r] = <<who, what>>
         /\ Who(r)' = who /\ What(r)' = what
         /\ \A q \in Requests \ {r} : pc'[q] = pc[q] /\ local'[q] = local[q]
<1>1. /\ pc'[r] = step /\ local'[r] = <<who, what>>
      /\ \A q \in Requests \ {r} : pc'[q] = pc[q] /\ local'[q] = local[q]
  BY DEF RequestsOK, Goto
<1> QED  BY <1>1 DEF Who, What

LEMMA GotoType ==
  ASSUME RequestsOK, NEW r \in Requests, NEW step \in Steps,
         NEW who \in Idents, NEW what \in WhatAt(step),
         Goto(r, step, who, what)
  PROVE  RequestsOK'
<1>1. pc' \in [Requests -> Steps] /\ DOMAIN local' = Requests
  BY DEF RequestsOK, Goto
<1>2. ASSUME NEW q \in Requests
      PROVE  local'[q] \in Idents \X WhatAt(pc'[q])
  <2>1. CASE q = r
    BY <2>1, GotoIs
  <2>2. CASE q # r
    BY <2>2, GotoIs DEF RequestsOK
  <2> QED  BY <2>1, <2>2
<1>3. \A q \in Requests : local'[q] \in (Idents \X WhatAt(pc[q]))'
  BY <1>2 DEF Idents, WhatAt
<1> QED  BY <1>1, <1>3 DEF RequestsOK

LEMMA AnswersType ==
  ASSUME RequestsOK, NEW r \in Requests, Answers(r) PROVE RequestsOK'
<1>1. "answer" \in Steps /\ Nothing \in WhatAt("answer")
  BY DEF Steps, WhatAt
<1> QED  BY <1>1, LocalType, GotoType DEF Answers

LEMMA FinishType ==
  ASSUME AccountsAssumption, RequestsOK, NEW r \in Requests, Finish(r)
  PROVE  RequestsOK'
<1>1. "idle" \in Steps /\ Nothing \in WhatAt("idle")
  BY DEF Steps, WhatAt
<1>2. Operator \in Idents
  BY DEF Operator, Idents, Roles, AccountsAssumption
<1> QED  BY <1>1, <1>2, GotoType DEF Finish

LEMMA StaysType ==
  ASSUME TablesOK, UNCHANGED <<userTable, commentTable, cookie>>
  PROVE  TablesOK'
  BY DEF TablesOK, userTable, commentTable

LEMMA OnlyType == ASSUME TablesOK, NEW r, Only(r) PROVE TablesOK'
  BY StaysType DEF Only

\* Requests begin with an account that is there.
LEMMA BeginType ==
  ASSUME AccountsAssumption, TablesOK, RequestsOK, NEW r \in Requests,
         NEW b \in Browsers, Admitted(r, b, Roles),
         NEW step \in Steps, NEW what \in WhatAt(step),
         \/ Goto(r, step, Ident(b, cookie[b]), what)
         \/ Goto(r, step, [Ident(b, cookie[b]) EXCEPT !.session = 0], what),
         Only(r)
  PROVE  TablesOK' /\ RequestsOK'
<1>1. cookie[b] \in DOMAIN users
  BY DEF Admitted
<1> QED  BY <1>1, IdentType, GotoType, OnlyType

LEMMA AdmittedAs ==
  ASSUME NEW r, NEW b, NEW roles, roles \subseteq Roles,
         Admitted(r, b, roles)
  PROVE  Admitted(r, b, Roles)
  BY DEF Admitted

LEMMA NormalType ==
  ASSUME NEW email \in Spellings
  PROVE  NormalizeEmail(email) \in Spellings
         /\ NormalizeEmail(email)[2] = "lower"
  BY DEF NormalizeEmail, Spellings

LEMMA StartType ==
  ASSUME AccountsAssumption, TablesOK, RequestsOK, NEW r \in Requests, Start(r)
  PROVE  TablesOK' /\ RequestsOK'
<1>0. Admin \subseteq Roles /\ 1 .. lastUser \subseteq UserIds
      /\ 1 .. lastComment \subseteq CommentIds
  BY DEF Admin, Roles, UserIds, CommentIds, TablesOK, AccountsAssumption
<1>1. ASSUME NEW b \in Browsers, NEW email \in Spellings,
             NEW password \in Passwords, Login(r, b, email, password)
      PROVE  TablesOK' /\ RequestsOK'
  <2>1. PICK u \in DOMAIN users : Goto(r, "answer", Ident(b, u), Nothing)
    BY <1>1 DEF Login, WithEmail
  <2>2. "answer" \in Steps /\ Nothing \in WhatAt("answer")
    BY DEF Steps, WhatAt
  <2> QED  BY <1>1, <2>1, <2>2, IdentType, GotoType, OnlyType DEF Login
<1>2. ASSUME NEW b \in Browsers, NEW email \in Spellings,
             NEW password \in Passwords, NEW role \in FormRoles,
             Create(r, b, email, role, password)
      PROVE  TablesOK' /\ RequestsOK'
  <2>1. /\ "new_find" \in Steps
        /\ NewAccount(email, role, password) \in WhatAt("new_find")
    BY NormalType DEF Steps, WhatAt, NewAccount, Account, AccountsAssumption
  <2> QED  BY <1>0, <1>2, <2>1, AdmittedAs, BeginType DEF Create
<1>3. ASSUME NEW b \in Browsers, ClearSession(r, b)
      PROVE  TablesOK' /\ RequestsOK'
  <2>1. 0 \in 0 .. MaxUsers
    BY DEF AccountsAssumption
  <2>2. cookie' \in [Browsers -> 0 .. MaxUsers]
    BY <1>3, <2>1 DEF ClearSession, TablesOK
  <2>3. RequestsOK'
    BY <1>3 DEF ClearSession, RequestsOK
  <2> QED  BY <1>3, <2>2, <2>3 DEF ClearSession, TablesOK, userTable,
                                   commentTable
<1>4. ASSUME NEW b \in Browsers, Logout(r, b)
      PROVE  TablesOK' /\ RequestsOK'
  <2>1. "answer" \in Steps /\ Nothing \in WhatAt("answer")
    BY DEF Steps, WhatAt
  <2> QED  BY <1>4, <2>1, BeginType DEF Logout
<1>5. ASSUME NEW b \in Browsers, NEW u \in 1 .. lastUser,
             NEW email \in Spellings, SetEmail(r, b, u, email)
      PROVE  TablesOK' /\ RequestsOK'
  <2> DEFINE what == [user |-> u, email |-> NormalizeEmail(email)]
  <2>1. "email_find" \in Steps /\ what \in WhatAt("email_find")
    BY <1>0, NormalType DEF Steps, WhatAt
  <2> HIDE DEF what
  <2> QED  BY <1>0, <1>5, <2>1, AdmittedAs, BeginType DEF SetEmail, what
<1>6. ASSUME NEW b \in Browsers, NEW u \in 1 .. lastUser,
             NEW password \in Passwords, SetPassword(r, b, u, password)
      PROVE  TablesOK' /\ RequestsOK'
  <2> DEFINE what == [user |-> u, old |-> Passwords, new |-> password]
  <2>1. "pw_read" \in Steps /\ what \in WhatAt("pw_read")
    BY <1>0 DEF Steps, WhatAt
  <2> HIDE DEF what
  <2> QED  BY <1>0, <1>6, <2>1, AdmittedAs, BeginType DEF SetPassword, what
<1>7. ASSUME NEW b \in Browsers, NEW u \in 1 .. lastUser, Delete(r, b, u)
      PROVE  TablesOK' /\ RequestsOK'
  <2>1. "del_find" \in Steps /\ [user |-> u] \in WhatAt("del_find")
    BY <1>0 DEF Steps, WhatAt
  <2> QED  BY <1>0, <1>7, <2>1, AdmittedAs, BeginType DEF Delete
<1>8. ASSUME NEW b \in Browsers, NEW old \in Passwords, NEW new \in Passwords,
             ChangePassword(r, b, old, new)
      PROVE  TablesOK' /\ RequestsOK'
  <2> DEFINE what == [user |-> cookie[b], old |-> {old}, new |-> new]
  <2>1. cookie[b] \in UserIds
    BY <1>0, <1>8 DEF ChangePassword, Admitted, TablesOK
  <2>2. "pw_read" \in Steps /\ what \in WhatAt("pw_read")
    BY <2>1 DEF Steps, WhatAt
  <2> HIDE DEF what
  <2> QED  BY <1>8, <2>2, BeginType DEF ChangePassword, what
<1>9. ASSUME NEW b \in Browsers, NEW d \in Duties, AddComment(r, b, d)
      PROVE  TablesOK' /\ RequestsOK'
  <2>1. "cmt_insert" \in Steps /\ [duty |-> d] \in WhatAt("cmt_insert")
    BY DEF Steps, WhatAt
  <2> QED  BY <1>9, <2>1, BeginType DEF AddComment
<1>10. ASSUME NEW b \in Browsers, NEW k \in 1 .. lastComment,
              DeleteComment(r, b, k)
       PROVE  TablesOK' /\ RequestsOK'
  <2>1. "cmt_find" \in Steps /\ [comment |-> k] \in WhatAt("cmt_find")
    BY <1>0 DEF Steps, WhatAt
  <2> QED  BY <1>10, <2>1, BeginType DEF DeleteComment
<1>11. ASSUME NEW email \in Spellings, NEW password \in Passwords,
              Seed(r, email, password)
       PROVE  TablesOK' /\ RequestsOK'
  <2>1. /\ "new_find" \in Steps
        /\ NewAccount(email, "admin", password) \in WhatAt("new_find")
    BY NormalType DEF Steps, WhatAt, NewAccount, Account, Roles
  <2>2. Operator \in Idents
    BY DEF Operator, Idents, Roles, AccountsAssumption
  <2> QED  BY <1>11, <2>1, <2>2, GotoType, OnlyType DEF Seed
<1> QED  BY <1>1, <1>2, <1>3, <1>4, <1>5, <1>6, <1>7, <1>8, <1>9, <1>10,
            <1>11 DEF Start

LEMMA CreateInsertIs ==
  ASSUME AccountsAssumption, TablesOK, RequestsOK, NEW r \in Requests,
         CreateInsert(r)
  PROVE  /\ What(r) \in Account /\ lastUser \in Nat
         /\ lastUser' = lastUser + 1 /\ lastUser' \in 0 .. MaxUsers
         /\ lastUser + 1 \notin DOMAIN users
         /\ DOMAIN users' = DOMAIN users \cup {lastUser + 1}
         /\ DOMAIN users' \subseteq 1 .. lastUser'
         /\ users' \in [DOMAIN users' -> Account]
         /\ users'[lastUser + 1] = What(r)
         /\ \A u \in DOMAIN users : users'[u] = users[u]
<1>1. What(r) \in Account
  BY LocalType DEF CreateInsert, At, WhatAt
<1>2. /\ lastUser \in Nat /\ MaxUsers \in Nat /\ lastUser < MaxUsers
      /\ DOMAIN users \subseteq 1 .. lastUser
      /\ users \in [DOMAIN users -> Account]
  BY DEF TablesOK, AccountsAssumption, CreateInsert
<1>3. users' = Put(users, lastUser + 1, What(r)) /\ lastUser' = lastUser + 1
  BY DEF CreateInsert
<1>4. lastUser + 1 \notin DOMAIN users /\ lastUser + 1 \in 0 .. MaxUsers
  BY <1>2
<1>5. /\ DOMAIN users' = DOMAIN users \cup {lastUser + 1}
      /\ users'[lastUser + 1] = What(r)
      /\ \A u \in DOMAIN users : users'[u] = users[u]
  BY <1>3, <1>4 DEF Put
<1>6. users' \in [DOMAIN users' -> Account]
  BY <1>1, <1>2, <1>3 DEF Put
<1>7. DOMAIN users' \subseteq 1 .. lastUser + 1
  BY <1>2, <1>5
<1> QED  BY <1>1, <1>2, <1>3, <1>4, <1>5, <1>6, <1>7

LEMMA AddCommentIs ==
  ASSUME AccountsAssumption, TablesOK, RequestsOK, NEW r \in Requests,
         AddCommentInsert(r)
  PROVE  \E row \in Comment :
           /\ row.author = Who(r).actor /\ row.duty = What(r).duty
           /\ lastComment \in Nat /\ lastComment' = lastComment + 1
           /\ lastComment' \in 0 .. MaxComments
           /\ DOMAIN comments' = DOMAIN comments \cup {lastComment + 1}
           /\ DOMAIN comments' \subseteq 1 .. lastComment'
           /\ comments' \in [DOMAIN comments' -> Comment]
           /\ comments'[lastComment + 1] = row
           /\ \A k \in DOMAIN comments : comments'[k] = comments[k]
<1>1. [author |-> Who(r).actor, duty |-> What(r).duty] \in Comment
  <2>1. What(r).duty \in Duties
    BY LocalType DEF AddCommentInsert, At, WhatAt
  <2>2. Who(r).actor \in UserIds
    BY DEF AddCommentInsert, CommentAllowed, TablesOK, UserIds,
           AccountsAssumption
  <2> QED  BY <2>1, <2>2 DEF Comment
<1>2. /\ lastComment \in Nat /\ MaxComments \in Nat
      /\ lastComment < MaxComments
      /\ DOMAIN comments \subseteq 1 .. lastComment
      /\ comments \in [DOMAIN comments -> Comment]
  BY DEF TablesOK, AccountsAssumption, AddCommentInsert
<1>3. PICK row \in Comment :
        /\ row.author = Who(r).actor /\ row.duty = What(r).duty
        /\ comments' = Put(comments, lastComment + 1, row)
  BY <1>1 DEF AddCommentInsert
<1>4. lastComment' = lastComment + 1 /\ lastComment + 1 \in 0 .. MaxComments
  BY <1>2 DEF AddCommentInsert
<1>5. lastComment + 1 \notin DOMAIN comments
  BY <1>2
<1>6. /\ DOMAIN comments' = DOMAIN comments \cup {lastComment + 1}
      /\ comments'[lastComment + 1] = row
      /\ \A k \in DOMAIN comments : comments'[k] = comments[k]
  BY <1>3, <1>5 DEF Put
<1>7. comments' \in [DOMAIN comments' -> Comment]
  BY <1>2, <1>3 DEF Put
<1>8. DOMAIN comments' \subseteq 1 .. lastComment + 1
  BY <1>2, <1>6
<1> QED  BY <1>2, <1>3, <1>4, <1>6, <1>7, <1>8

\* The row that an edit will write back.
LEMMA SetEmailReadIs ==
  ASSUME TablesOK, RequestsOK, NEW r \in Requests, SetEmailRead(r)
  PROVE  \/ Answers(r)
         \/ \E what \in WhatAt("user_save") :
              /\ Goto(r, "user_save", Who(r), what)
              /\ what.user \in DOMAIN users
              /\ what.row.role = users[what.user].role
              /\ what.row.password = users[what.user].password
              /\ what.row.email = What(r).email
<1> DEFINE u == What(r).user
           row == [users[u] EXCEPT !.email = What(r).email]
<1>1. u \in UserIds /\ What(r).email \in Spellings
  BY LocalType DEF SetEmailRead, At, WhatAt
<1>2. CASE u \in DOMAIN users
  <2>1. users[u] \in Account
    BY <1>2 DEF TablesOK
  <2>2. /\ row \in Account /\ row.role = users[u].role
        /\ row.password = users[u].password /\ row.email = What(r).email
    BY <1>1, <2>1 DEF Account
  <2>3. Goto(r, "user_save", Who(r), [user |-> u, row |-> row])
    BY <1>2 DEF SetEmailRead
  <2> HIDE DEF u, row
  <2>4. [user |-> u, row |-> row] \in WhatAt("user_save")
    BY <1>1, <2>2 DEF WhatAt
  <2> QED  BY <1>2, <2>2, <2>3, <2>4
<1>3. CASE u \notin DOMAIN users
  BY <1>3 DEF SetEmailRead
<1> QED  BY <1>2, <1>3

LEMMA PasswordReadIs ==
  ASSUME TablesOK, RequestsOK, NEW r \in Requests, PasswordRead(r)
  PROVE  \/ Answers(r)
         \/ \E what \in WhatAt("user_save") :
              /\ Goto(r, "user_save", Who(r), what)
              /\ what.user \in DOMAIN users
              /\ what.row.role = users[what.user].role
              /\ what.row.email = users[what.user].email
<1> DEFINE u == What(r).user
           row == [users[u] EXCEPT !.password = What(r).new]
<1>1. u \in UserIds /\ What(r).new \in Passwords
  BY LocalType DEF PasswordRead, At, WhatAt
<1>2. CASE u \in DOMAIN users /\ users[u].password \in What(r).old
  <2>1. users[u] \in Account
    BY <1>2 DEF TablesOK
  <2>2. /\ row \in Account /\ row.role = users[u].role
        /\ row.email = users[u].email
    BY <1>1, <2>1 DEF Account
  <2>3. Goto(r, "user_save", Who(r), [user |-> u, row |-> row])
    BY <1>2 DEF PasswordRead
  <2> HIDE DEF u, row
  <2>4. [user |-> u, row |-> row] \in WhatAt("user_save")
    BY <1>1, <2>2 DEF WhatAt
  <2> QED  BY <1>2, <2>2, <2>3, <2>4
<1>3. CASE ~(u \in DOMAIN users /\ users[u].password \in What(r).old)
  BY <1>3 DEF PasswordRead
<1> QED  BY <1>2, <1>3

LEMMA UserSaveIs ==
  ASSUME TablesOK, RequestsOK, NEW r \in Requests, UserSave(r)
  PROVE  LET what == What(r)
         IN /\ what.row \in Account
            /\ DOMAIN users' = DOMAIN users /\ lastUser' = lastUser
            /\ users' \in [DOMAIN users -> Account]
            /\ \A v \in DOMAIN users :
                 users'[v] = IF v = what.user THEN what.row ELSE users[v]
            /\ what.user \in DOMAIN users => EmailFree(what.row.email, what.user)
<1>1. What(r).row \in Account
  BY LocalType DEF UserSave, At, WhatAt
<1>2. users \in [DOMAIN users -> Account]
  BY DEF TablesOK
<1> QED  BY <1>1, <1>2 DEF UserSave

LEMMA DeleteRunIs ==
  ASSUME NEW r \in Requests, DeleteRun(r)
  PROVE  /\ DOMAIN users' = DOMAIN users \ {What(r).user}
         /\ lastUser' = lastUser
         /\ \A u \in DOMAIN users' : users'[u] = users[u]
  BY DEF DeleteRun, Keep

\* Comments are removed, and no other comment changes.
LEMMA KeepComments ==
  ASSUME TablesOK, NEW ids, comments' = Keep(comments, ids)
  PROVE  /\ DOMAIN comments' = DOMAIN comments \cap ids
         /\ comments' \in [DOMAIN comments' -> Comment]
         /\ \A k \in DOMAIN comments' : comments'[k] = comments[k]
  BY DEF Keep, TablesOK

LEMMA ContinueType ==
  ASSUME AccountsAssumption, TablesOK, RequestsOK, NEW r \in Requests,
         Continue(r)
  PROVE  TablesOK' /\ RequestsOK'
<1>1. CASE Answer(r)
  <2>1. Who(r).session \in 0 .. MaxUsers
    BY LocalType DEF Idents
  <2>2. cookie' \in [Browsers -> 0 .. MaxUsers]
    BY <1>1, <2>1 DEF Answer, TablesOK
  <2> QED  BY <1>1, <2>2, FinishType
           DEF Answer, TablesOK, userTable, commentTable
<1>2. CASE CreateFind(r)
  <2>1. What(r) \in WhatAt("new_insert") /\ "new_insert" \in Steps
    BY <1>2, LocalType DEF CreateFind, At, WhatAt, Steps
  <2> QED  BY <1>2, <2>1, LocalType, GotoType, AnswersType, OnlyType
           DEF CreateFind
<1>3. CASE CreateInsert(r)
  <2>1. TablesOK'
    BY <1>3, CreateInsertIs DEF TablesOK, CreateInsert, commentTable
  <2> QED  BY <1>3, <2>1, AnswersType DEF CreateInsert
<1>4. CASE SetEmailFind(r)
  <2>1. What(r) \in WhatAt("email_read") /\ "email_read" \in Steps
    BY <1>4, LocalType DEF SetEmailFind, At, WhatAt, Steps
  <2> QED  BY <1>4, <2>1, LocalType, GotoType, AnswersType, OnlyType
           DEF SetEmailFind
<1>5. CASE SetEmailRead(r)
  <2>1. "user_save" \in Steps
    BY DEF Steps
  <2>2. RequestsOK'
    BY <1>5, <2>1, SetEmailReadIs, LocalType, GotoType, AnswersType
  <2> QED  BY <1>5, <2>2, OnlyType DEF SetEmailRead
<1>6. CASE PasswordRead(r)
  <2>1. "user_save" \in Steps
    BY DEF Steps
  <2>2. RequestsOK'
    BY <1>6, <2>1, PasswordReadIs, LocalType, GotoType, AnswersType
  <2> QED  BY <1>6, <2>2, OnlyType DEF PasswordRead
<1>7. CASE UserSave(r)
  <2>1. TablesOK'
    BY <1>7, UserSaveIs DEF TablesOK, UserSave, commentTable
  <2> QED  BY <1>7, <2>1, AnswersType DEF UserSave
<1>8. CASE DeleteFind(r)
  <2>1. What(r) \in WhatAt("del_run") /\ "del_run" \in Steps
    BY <1>8, LocalType DEF DeleteFind, At, WhatAt, Steps
  <2> QED  BY <1>8, <2>1, LocalType, GotoType, AnswersType, OnlyType
           DEF DeleteFind
<1>9. CASE DeleteRun(r)
  <2>1. /\ DOMAIN comments' \subseteq DOMAIN comments
        /\ comments' \in [DOMAIN comments' -> Comment]
    BY <1>9, KeepComments DEF DeleteRun
  <2>2. users' \in [DOMAIN users' -> Account]
    BY <1>9 DEF DeleteRun, Keep, TablesOK
  <2>3. DOMAIN users' \subseteq DOMAIN users /\ lastUser' = lastUser
    BY <1>9, DeleteRunIs
  <2>4. TablesOK'
    BY <1>9, <2>1, <2>2, <2>3 DEF TablesOK, DeleteRun
  <2> QED  BY <1>9, <2>4, AnswersType DEF DeleteRun
<1>10. CASE AddCommentInsert(r)
  <2>1. TablesOK'
    BY <1>10, AddCommentIs DEF TablesOK, AddCommentInsert, userTable
  <2> QED  BY <1>10, <2>1, FinishType DEF AddCommentInsert
<1>11. CASE DeleteCommentFind(r)
  <2>1. What(r) \in WhatAt("cmt_run") /\ "cmt_run" \in Steps
    BY <1>11, LocalType DEF DeleteCommentFind, At, WhatAt, Steps
  <2> QED  BY <1>11, <2>1, LocalType, GotoType, FinishType, OnlyType
           DEF DeleteCommentFind
<1>12. CASE DeleteCommentRun(r)
  <2>1. /\ DOMAIN comments' \subseteq DOMAIN comments
        /\ comments' \in [DOMAIN comments' -> Comment]
    BY <1>12, KeepComments DEF DeleteCommentRun
  <2>2. TablesOK'
    BY <1>12, <2>1 DEF TablesOK, DeleteCommentRun, userTable
  <2> QED  BY <1>12, <2>2, FinishType DEF DeleteCommentRun
<1> QED  BY <1>1, <1>2, <1>3, <1>4, <1>5, <1>6, <1>7, <1>8, <1>9, <1>10,
            <1>11, <1>12 DEF Continue

LEMMA StepType ==
  ASSUME AccountsAssumption, TablesOK, RequestsOK, NEW r \in Requests, Step(r)
  PROVE  TablesOK' /\ RequestsOK'
<1>1. CASE Fail(r)
  BY <1>1, AnswersType, OnlyType DEF Fail
<1>2. CASE Lost(r)
  BY <1>2, FinishType, OnlyType DEF Lost
<1> QED  BY <1>1, <1>2, StartType, ContinueType DEF Step

LEMMA DeleteDutyType ==
  ASSUME TablesOK, RequestsOK, NEW d \in Duties, DeleteDuty(d)
  PROVE  TablesOK' /\ RequestsOK'
<1>1. /\ DOMAIN comments' \subseteq DOMAIN comments
      /\ comments' \in [DOMAIN comments' -> Comment]
  BY KeepComments DEF DeleteDuty
<1> QED  BY <1>1 DEF DeleteDuty, TablesOK, RequestsOK, userTable

-----------------------------------------------------------------------------
\* What a step does to the others: users is not written, or they are
\* overtaken.
LEMMA StepLeaves ==
  ASSUME RequestsOK, NEW r \in Requests, Step(r), NEW q \in Requests \ {r}
  PROVE  /\ pc'[q] = pc[q] /\ local'[q] = local[q]
         /\ Who(q)' = Who(q) /\ What(q)' = What(q)
         /\ pc[q] # "idle" /\ ~overtaken'[q] =>
              ~overtaken[q] /\ UNCHANGED userTable
<1>1. \/ UNCHANGED <<pc, local>>
      \/ \E step, who, what : Goto(r, step, who, what)
  <2>1. CASE Start(r)
    BY <2>1 DEF Start, Login, Create, ClearSession, Logout, SetEmail,
                SetPassword, Delete, ChangePassword, AddComment,
                DeleteComment, Seed
  <2>2. CASE Continue(r)
    BY <2>2 DEF Continue, Answer, CreateFind, CreateInsert, SetEmailFind,
                SetEmailRead, PasswordRead, UserSave, DeleteFind, DeleteRun,
                AddCommentInsert, DeleteCommentFind, DeleteCommentRun,
                Answers, Finish
  <2> QED  BY <2>1, <2>2 DEF Step, Fail, Lost, Answers, Finish
<1>2. pc'[q] = pc[q] /\ local'[q] = local[q]
  BY <1>1, GotoIs
<1>3. \/ (Reads \/ UNCHANGED overtaken) /\ UNCHANGED userTable
      \/ Writes(r)
  <2>1. CASE Start(r)
    BY <2>1 DEF Start, Login, Create, ClearSession, Logout, SetEmail,
                SetPassword, Delete, ChangePassword, AddComment,
                DeleteComment, Seed, Only
  <2>2. CASE Continue(r)
    BY <2>2 DEF Continue, Answer, CreateFind, CreateInsert, SetEmailFind,
                SetEmailRead, PasswordRead, UserSave, DeleteFind, DeleteRun,
                AddCommentInsert, DeleteCommentFind, DeleteCommentRun, Only
  <2> QED  BY <2>1, <2>2 DEF Step, Fail, Lost, Only
<1>4. CASE (Reads \/ UNCHANGED overtaken) /\ UNCHANGED userTable
  BY <1>2, <1>4 DEF Reads, Who, What
<1>5. CASE Writes(r)
  BY <1>2, <1>5 DEF Writes, Who, What
<1> QED  BY <1>3, <1>4, <1>5

LEMMA OvertakenType ==
  ASSUME TypeOK, NEW r \in Requests, Step(r)
  PROVE  overtaken' \in [Requests -> BOOLEAN]
<1>1. Reads \/ UNCHANGED overtaken \/ Writes(r)
  <2>1. CASE Start(r)
    BY <2>1 DEF Start, Login, Create, ClearSession, Logout, SetEmail,
                SetPassword, Delete, ChangePassword, AddComment,
                DeleteComment, Seed, Only
  <2>2. CASE Continue(r)
    BY <2>2 DEF Continue, Answer, CreateFind, CreateInsert, SetEmailFind,
                SetEmailRead, PasswordRead, UserSave, DeleteFind, DeleteRun,
                AddCommentInsert, DeleteCommentFind, DeleteCommentRun, Only
  <2> QED  BY <2>1, <2>2 DEF Step, Fail, Lost, Only
<1>2. CASE Reads \/ Writes(r)
  BY <1>2 DEF Reads, Writes
<1>3. CASE UNCHANGED overtaken
  BY <1>3 DEF TypeOK
<1> QED  BY <1>1, <1>2, <1>3

LEMMA InitType ==
  ASSUME AccountsAssumption, Init
  PROVE  TypeOK
<1>0. /\ users \in Seq(Account) /\ lastUser = Len(users)
      /\ Len(users) <= MaxUsers /\ MaxUsers \in Nat /\ MaxComments \in Nat
  BY DEF AccountsAssumption, Init
<1>1. TablesOK
  <2>1. /\ lastUser \in 0 .. MaxUsers
        /\ DOMAIN users \subseteq 1 .. lastUser
        /\ users \in [DOMAIN users -> Account]
    BY <1>0
  <2>2. /\ comments = [k \in {} |-> k] /\ lastComment = 0
        /\ duties = Duties /\ cookie = [b \in Browsers |-> 0]
    BY DEF Init
  <2>3. /\ DOMAIN comments \subseteq 1 .. lastComment
        /\ comments \in [DOMAIN comments -> Comment]
        /\ lastComment \in 0 .. MaxComments
        /\ cookie \in [Browsers -> 0 .. MaxUsers]
    BY <1>0, <2>2
  <2> QED  BY <2>1, <2>2, <2>3 DEF TablesOK
<1>2. Operator \in Idents /\ Nothing \in WhatAt("idle")
  BY DEF Operator, Idents, Roles, AccountsAssumption, WhatAt
<1>3. RequestsOK
  BY <1>2 DEF Init, RequestsOK, Steps
<1>4. overtaken \in [Requests -> BOOLEAN]
  BY DEF Init
<1> QED  BY <1>1, <1>3, <1>4 DEF TypeOK, TablesOK, RequestsOK

\* Every row, request and cookie is of its type, whatever fails.
THEOREM AccountsTypeCorrect == ASSUME AccountsAssumption PROVE Spec => []TypeOK
<1>1. Init => TypeOK
  BY InitType
<1>2. TypeOK /\ [Next]_vars => TypeOK'
  <2>1. ASSUME TypeOK, NEW r \in Requests, Step(r) PROVE TypeOK'
    BY <2>1, StepType, OvertakenType DEF TypeOK, TablesOK, RequestsOK
  <2>2. ASSUME TypeOK, NEW d \in Duties, DeleteDuty(d) PROVE TypeOK'
    <3>1. TablesOK' /\ RequestsOK'
      BY <2>2, DeleteDutyType DEF TypeOK, TablesOK, RequestsOK
    <3>2. overtaken' \in [Requests -> BOOLEAN]
      BY <2>2 DEF TypeOK, DeleteDuty
    <3> QED  BY <3>1, <3>2 DEF TypeOK, TablesOK, RequestsOK
  <2>3. ASSUME TypeOK, UNCHANGED vars PROVE TypeOK'
    <3>1. TablesOK' /\ RequestsOK'
      BY <2>3 DEF vars, TypeOK, TablesOK, RequestsOK
    <3>2. overtaken' \in [Requests -> BOOLEAN]
      BY <2>3 DEF vars, TypeOK
    <3> QED  BY <3>1, <3>2 DEF TypeOK, TablesOK, RequestsOK
  <2> QED  BY <2>1, <2>2, <2>3 DEF Next, Step
<1> QED  BY <1>1, <1>2, PTL DEF Spec

-----------------------------------------------------------------------------
\* The steps that write a table.

LEMMA UserWriters ==
  ASSUME NEW r \in Requests, Step(r)
  PROVE  UNCHANGED userTable \/ CreateInsert(r) \/ UserSave(r) \/ DeleteRun(r)
<1>1. CASE Start(r)
  BY <1>1 DEF Start, Login, Create, ClearSession, Logout, SetEmail,
              SetPassword, Delete, ChangePassword, AddComment,
              DeleteComment, Seed, Only
<1>2. CASE Continue(r)
  BY <1>2 DEF Continue, Answer, CreateFind, SetEmailFind, SetEmailRead,
              PasswordRead, DeleteFind, AddCommentInsert, DeleteCommentFind,
              DeleteCommentRun, Only
<1> QED  BY <1>1, <1>2 DEF Step, Fail, Lost, Only

LEMMA CommentWriters ==
  ASSUME NEW r \in Requests, Step(r)
  PROVE  /\ UNCHANGED duties
         /\ \/ UNCHANGED <<comments, lastComment>>
            \/ AddCommentInsert(r)
            \/ DeleteCommentRun(r)
            \/ DeleteRun(r)
<1>1. CASE Start(r)
  BY <1>1 DEF Start, Login, Create, ClearSession, Logout, SetEmail,
              SetPassword, Delete, ChangePassword, AddComment,
              DeleteComment, Seed, Only, commentTable
<1>2. CASE Continue(r)
  BY <1>2 DEF Continue, Answer, CreateFind, CreateInsert, SetEmailFind,
              SetEmailRead, PasswordRead, UserSave, DeleteFind, DeleteRun,
              AddCommentInsert, DeleteCommentFind, DeleteCommentRun, Only,
              commentTable
<1> QED  BY <1>1, <1>2 DEF Step, Fail, Lost, Only, commentTable

\* The steps by which a request comes to a statement.
LEMMA Arrivals ==
  ASSUME RequestsOK, NEW r \in Requests, Step(r)
  PROVE  /\ pc'[r] = "new_find" =>
              \E email \in Spellings, password \in Passwords :
                \/ \E b \in Browsers, role \in FormRoles :
                     Create(r, b, email, role, password)
                \/ Seed(r, email, password)
         /\ pc'[r] = "new_insert" => CreateFind(r)
         /\ pc'[r] = "email_find" =>
              \E b \in Browsers, u \in 1 .. lastUser, email \in Spellings :
                SetEmail(r, b, u, email)
         /\ pc'[r] = "email_read" => SetEmailFind(r)
         /\ pc'[r] = "user_save" => SetEmailRead(r) \/ PasswordRead(r)
         /\ pc'[r] = "del_find" =>
              \E b \in Browsers, u \in 1 .. lastUser : Delete(r, b, u)
         /\ pc'[r] = "del_run" => DeleteFind(r)
         /\ pc'[r] = "cmt_run" => DeleteCommentFind(r)
<1> DEFINE Quiet(step) == step \in {"idle", "answer", "pw_read", "cmt_insert",
                                    "cmt_find"}
<1>0. \A step, who, what : Goto(r, step, who, what) => pc'[r] = step
  BY DEF RequestsOK, Goto
<1>1. CASE \E b \in Browsers :
             \/ \E email \in Spellings, password \in Passwords :
                  Login(r, b, email, password)
             \/ ClearSession(r, b)
             \/ Logout(r, b)
             \/ \E u \in 1 .. lastUser, password \in Passwords :
                  SetPassword(r, b, u, password)
             \/ \E old, new \in Passwords : ChangePassword(r, b, old, new)
             \/ \E d \in Duties : AddComment(r, b, d)
             \/ \E k \in 1 .. lastComment : DeleteComment(r, b, k)
  <2>1. Quiet(pc'[r])
    BY <1>0, <1>1 DEF Login, ClearSession, Logout, SetPassword, At,
                      ChangePassword, AddComment, DeleteComment
  <2> QED  BY <2>1
<1>2. CASE \E email \in Spellings, password \in Passwords :
             \/ \E b \in Browsers, role \in FormRoles :
                  Create(r, b, email, role, password)
             \/ Seed(r, email, password)
  <2>1. pc'[r] = "new_find"
    BY <1>0, <1>2 DEF Create, Seed
  <2> QED  BY <1>2, <2>1
<1>3. CASE \E b \in Browsers, u \in 1 .. lastUser, email \in Spellings :
             SetEmail(r, b, u, email)
  <2>1. pc'[r] = "email_find"
    BY <1>0, <1>3 DEF SetEmail
  <2> QED  BY <1>3, <2>1
<1>4. CASE \E b \in Browsers, u \in 1 .. lastUser : Delete(r, b, u)
  <2>1. pc'[r] = "del_find"
    BY <1>0, <1>4 DEF Delete
  <2> QED  BY <1>4, <2>1
<1>5. CASE \/ Answer(r) \/ CreateInsert(r) \/ UserSave(r) \/ DeleteRun(r)
           \/ AddCommentInsert(r) \/ DeleteCommentRun(r)
           \/ Fail(r) \/ Lost(r)
  <2>1. Quiet(pc'[r])
    BY <1>0, <1>5 DEF Answer, CreateInsert, UserSave, DeleteRun, Lost, Fail,
                      AddCommentInsert, DeleteCommentRun, Answers, Finish
  <2> QED  BY <2>1
<1>6. CASE CreateFind(r)
  <2>1. pc'[r] \in {"answer", "new_insert"}
    BY <1>0, <1>6 DEF CreateFind, Answers
  <2> QED  BY <1>6, <2>1
<1>7. CASE SetEmailFind(r)
  <2>1. pc'[r] \in {"answer", "email_read"}
    BY <1>0, <1>7 DEF SetEmailFind, Answers
  <2> QED  BY <1>7, <2>1
<1>8. CASE SetEmailRead(r) \/ PasswordRead(r)
  <2>1. pc'[r] \in {"answer", "user_save"}
    BY <1>0, <1>8 DEF SetEmailRead, PasswordRead, Answers
  <2> QED  BY <1>8, <2>1
<1>9. CASE DeleteFind(r)
  <2>1. pc'[r] \in {"answer", "del_run"}
    BY <1>0, <1>9 DEF DeleteFind, Answers
  <2> QED  BY <1>9, <2>1
<1>10. CASE DeleteCommentFind(r)
  <2>1. pc'[r] \in {"idle", "cmt_run"}
    BY <1>0, <1>10 DEF DeleteCommentFind, Finish
  <2> QED  BY <1>10, <2>1
<1>11. CASE Start(r)
  BY <1>1, <1>2, <1>3, <1>4, <1>11 DEF Start
<1> QED  BY <1>5, <1>6, <1>7, <1>8, <1>9, <1>10, <1>11 DEF Step, Continue

-----------------------------------------------------------------------------
\* Sessions hold ids that were given out.

KnownIds ==
  /\ \A b \in Browsers : cookie[b] <= lastUser
  /\ \A r \in Requests : Who(r).session <= lastUser

\* Who asks comes from an account that is there, and stays.
LEMMA WhoComes ==
  ASSUME RequestsOK, NEW r \in Requests, Step(r)
  PROVE  \/ Who(r)' = Who(r)
         \/ Who(r)' = Operator
         \/ \E b \in Browsers, u \in DOMAIN users :
              \/ Who(r)' = Ident(b, u)
              \/ Who(r)' = [Ident(b, u) EXCEPT !.session = 0]
<1>0. \A step, who, what : Goto(r, step, who, what) => Who(r)' = who
  BY DEF RequestsOK, Goto, Who
<1>1. CASE Start(r)
  <2>1. CASE \E b \in Browsers : ClearSession(r, b)
    BY <2>1 DEF ClearSession, Who
  <2>2. CASE \E b \in Browsers :
               \/ Logout(r, b)
               \/ \E email \in Spellings, password \in Passwords :
                    Login(r, b, email, password)
    BY <1>0, <2>2 DEF Logout, Login, WithEmail, Admitted
  <2>3. CASE \E b \in Browsers :
               \/ \E email \in Spellings, password \in Passwords,
                     role \in FormRoles : Create(r, b, email, role, password)
               \/ \E u \in 1 .. lastUser, email \in Spellings :
                    SetEmail(r, b, u, email)
               \/ \E u \in 1 .. lastUser, password \in Passwords :
                    SetPassword(r, b, u, password)
               \/ \E u \in 1 .. lastUser : Delete(r, b, u)
               \/ \E old, new \in Passwords : ChangePassword(r, b, old, new)
               \/ \E d \in Duties : AddComment(r, b, d)
               \/ \E k \in 1 .. lastComment : DeleteComment(r, b, k)
    BY <1>0, <2>3 DEF Create, SetEmail, SetPassword, Delete, ChangePassword,
                      AddComment, DeleteComment, Admitted
  <2>4. CASE \E email \in Spellings, password \in Passwords :
               Seed(r, email, password)
    BY <1>0, <2>4 DEF Seed
  <2> QED  BY <1>1, <2>1, <2>2, <2>3, <2>4 DEF Start
<1>2. CASE Continue(r)
  BY <1>0, <1>2 DEF Continue, Answer, CreateFind, CreateInsert, SetEmailFind,
              SetEmailRead, PasswordRead, UserSave, DeleteFind, DeleteRun,
              AddCommentInsert, DeleteCommentFind, DeleteCommentRun,
              Answers, Finish
<1> QED  BY <1>0, <1>1, <1>2 DEF Step, Fail, Lost, Answers, Finish

\* Ids are given out in order.
LEMMA UsersGrow ==
  ASSUME AccountsAssumption, TypeOK, NEW r \in Requests, Step(r)
  PROVE  /\ lastUser \in Nat /\ lastUser' \in Nat /\ lastUser' >= lastUser
         /\ DOMAIN users' \cap 0 .. lastUser \subseteq DOMAIN users
         /\ DOMAIN users' \subseteq 1 .. lastUser'
<1>0. TablesOK /\ RequestsOK /\ lastUser \in Nat
      /\ DOMAIN users \subseteq 1 .. lastUser
  BY DEF TypeOK, TablesOK, RequestsOK
<1>1. CASE UNCHANGED userTable
  BY <1>0, <1>1 DEF userTable
<1>2. CASE CreateInsert(r)
  BY <1>0, <1>2, CreateInsertIs
<1>3. CASE UserSave(r)
  BY <1>0, <1>3, UserSaveIs
<1>4. CASE DeleteRun(r)
  <2>1. DOMAIN users' \subseteq DOMAIN users /\ lastUser' = lastUser
    BY <1>4, DeleteRunIs
  <2> QED  BY <1>0, <2>1
<1>5. \/ UNCHANGED userTable \/ CreateInsert(r) \/ UserSave(r) \/ DeleteRun(r)
  BY UserWriters
<1> QED  BY <1>1, <1>2, <1>3, <1>4, <1>5

LEMMA KnownStep ==
  ASSUME AccountsAssumption, TypeOK, KnownIds, NEW r \in Requests, Step(r)
  PROVE  KnownIds'
<1>0. /\ TablesOK /\ RequestsOK /\ DOMAIN users \subseteq 1 .. lastUser
      /\ cookie \in [Browsers -> Nat]
  BY DEF TypeOK, TablesOK, RequestsOK
<1>1. ASSUME NEW q \in Requests PROVE Who(q).session \in Nat
  BY <1>0, LocalType DEF Idents
<1>2. ASSUME NEW b \in Browsers PROVE cookie'[b] <= lastUser
  <2>1. \/ cookie'[b] = cookie[b]
        \/ cookie'[b] = 0
        \/ cookie'[b] = Who(r).session
    <3>1. CASE Start(r)
      BY <1>0, <3>1 DEF Start, Login, Create, ClearSession, Logout, SetEmail,
              SetPassword, Delete, ChangePassword, AddComment,
              DeleteComment, Seed, Only
    <3>2. CASE Continue(r)
      BY <3>2 DEF Continue, Answer, CreateFind, CreateInsert, SetEmailFind,
              SetEmailRead, PasswordRead, UserSave, DeleteFind, DeleteRun,
              AddCommentInsert, DeleteCommentFind, DeleteCommentRun, Only
    <3> QED  BY <3>1, <3>2 DEF Step, Fail, Lost, Only
  <2> QED  BY <2>1, UsersGrow DEF KnownIds
<1>3. Who(r)'.session <= lastUser
  <2>1. ASSUME NEW b \in Browsers, NEW u \in DOMAIN users
        PROVE  /\ Ident(b, u).session <= lastUser
               /\ [Ident(b, u) EXCEPT !.session = 0].session <= lastUser
    BY <1>0, UsersGrow DEF Ident
  <2>2. Operator.session <= lastUser
    BY UsersGrow DEF Operator
  <2> QED  BY <1>0, <2>1, <2>2, WhoComes DEF KnownIds
<1>4. ASSUME NEW q \in Requests PROVE Who(q)'.session <= lastUser
  <2>1. q # r => Who(q)' = Who(q)
    BY <1>0, StepLeaves
  <2> QED  BY <1>3, <2>1 DEF KnownIds
<1>5. TablesOK' /\ RequestsOK'
  BY <1>0, StepType
<1>6. ASSUME NEW q \in Requests PROVE Who(q)'.session \in Nat
  <2>1. local'[q][1] \in Idents
    BY <1>5 DEF RequestsOK, Idents
  <2> QED  BY <2>1 DEF Who, Idents
<1>7. ASSUME NEW q \in Requests PROVE Who(q)'.session <= lastUser'
  BY <1>4, <1>6, UsersGrow
<1>8. ASSUME NEW b \in Browsers PROVE cookie'[b] <= lastUser'
  <2>1. cookie'[b] \in Nat
    BY <1>5 DEF TablesOK
  <2> QED  BY <1>2, <2>1, UsersGrow
<1> QED  BY <1>7, <1>8 DEF KnownIds

\* The cookie of an account that was deleted is nobody's for as long as the
\* browser keeps it.
THEOREM StaleCookiesStayStale ==
  ASSUME AccountsAssumption PROVE Spec => StaleCookieStaysStale
<1>1. Init => KnownIds
  <2>1. ASSUME Init PROVE lastUser \in Nat
    BY <2>1 DEF Init, AccountsAssumption
  <2>2. Operator.session = 0
    BY DEF Operator
  <2> QED  BY <2>1, <2>2 DEF Init, KnownIds, Who
<1>2. TypeOK /\ KnownIds /\ [Next]_vars => KnownIds'
  <2>1. ASSUME KnownIds, NEW d \in Duties, DeleteDuty(d) PROVE KnownIds'
    BY <2>1 DEF DeleteDuty, userTable, KnownIds, Who
  <2>2. ASSUME KnownIds, UNCHANGED vars PROVE KnownIds'
    BY <2>2 DEF vars, KnownIds, Who
  <2> QED  BY <2>1, <2>2, KnownStep DEF Next, Step
<1>3. TypeOK /\ KnownIds /\ [Next]_vars => [StaleStays]_vars
  <2>1. ASSUME TypeOK, KnownIds, NEW r \in Requests, Step(r) PROVE StaleStays
    <3>1. cookie \in [Browsers -> 0 .. MaxUsers]
      BY <2>1 DEF TypeOK
    <3>2. ASSUME NEW b \in Browsers, cookie[b] \in DOMAIN users'
          PROVE  cookie[b] \in DOMAIN users
      BY <2>1, <3>1, <3>2, UsersGrow DEF KnownIds
    <3> QED  BY <3>2 DEF StaleStays
  <2>2. ASSUME NEW d \in Duties, DeleteDuty(d) PROVE StaleStays
    BY <2>2 DEF DeleteDuty, userTable, StaleStays
  <2> QED  BY <2>1, <2>2 DEF Next, Step
<1> QED  BY <1>1, <1>2, <1>3, AccountsTypeCorrect, PTL
         DEF Spec, StaleCookieStaysStale

-----------------------------------------------------------------------------
\* Addresses are lower case wherever one is, so that the column's UNIQUE is
\* of addresses that differ in more than case.

LowerIn(q) ==
  /\ pc[q] \in {"new_find", "new_insert", "email_find", "email_read"} =>
       What(q).email[2] = "lower"
  /\ pc[q] = "user_save" => What(q).row.email[2] = "lower"

LowerUsers == \A u \in DOMAIN users : users[u].email[2] = "lower"
SpelledOnce ==
  \A u, v \in DOMAIN users : users[u].email = users[v].email => u = v
Lower == LowerUsers /\ SpelledOnce /\ \A q \in Requests : LowerIn(q)

LEMMA LowerIsUnique == ASSUME TypeOK, Lower PROVE AddressesUnique
<1>1. ASSUME NEW u \in DOMAIN users
      PROVE  users[u].email = <<users[u].email[1], "lower">>
  <2>1. users[u] \in Account
    BY DEF TypeOK
  <2>2. users[u].email \in Spellings /\ users[u].email[2] = "lower"
    BY <2>1 DEF Account, Lower, LowerUsers
  <2> QED  BY <2>2 DEF Spellings
<1> QED  BY <1>1 DEF Lower, SpelledOnce, AddressesUnique

LEMMA LowerTable ==
  ASSUME AccountsAssumption, TypeOK, Lower, NEW r \in Requests, Step(r)
  PROVE  LowerUsers' /\ SpelledOnce'
<1>0. /\ TablesOK /\ RequestsOK /\ LowerUsers /\ SpelledOnce /\ LowerIn(r)
  BY DEF TypeOK, TablesOK, RequestsOK, Lower
<1>1. CASE UNCHANGED userTable
  BY <1>0, <1>1 DEF userTable, LowerUsers, SpelledOnce
<1>2. CASE CreateInsert(r)
  <2>1. /\ What(r).email[2] = "lower"
        /\ \A v \in DOMAIN users : users[v].email # What(r).email
    <3>1. \A v \in DOMAIN users : v # 0
      BY <1>0 DEF TablesOK
    <3> QED  BY <1>0, <1>2, <3>1 DEF CreateInsert, At, LowerIn, EmailFree
  <2>2. /\ DOMAIN users' = DOMAIN users \cup {lastUser + 1}
        /\ users'[lastUser + 1] = What(r)
        /\ \A u \in DOMAIN users : users'[u] = users[u]
    BY <1>0, <1>2, CreateInsertIs
  <2> QED  BY <1>0, <2>1, <2>2 DEF LowerUsers, SpelledOnce
<1>3. CASE UserSave(r)
  <2>1. What(r).row.email[2] = "lower"
    BY <1>0, <1>3 DEF UserSave, At, LowerIn
  <2>2. /\ DOMAIN users' = DOMAIN users
        /\ \A v \in DOMAIN users :
             users'[v] = IF v = What(r).user THEN What(r).row ELSE users[v]
        /\ What(r).user \in DOMAIN users =>
             EmailFree(What(r).row.email, What(r).user)
    BY <1>0, <1>3, UserSaveIs
  <2> QED  BY <1>0, <2>1, <2>2 DEF LowerUsers, SpelledOnce, EmailFree
<1>4. CASE DeleteRun(r)
  <2>1. /\ DOMAIN users' \subseteq DOMAIN users
        /\ \A u \in DOMAIN users' : users'[u] = users[u]
    BY <1>4, DeleteRunIs
  <2> QED  BY <1>0, <2>1 DEF LowerUsers, SpelledOnce
<1>5. UNCHANGED userTable \/ CreateInsert(r) \/ UserSave(r) \/ DeleteRun(r)
  BY UserWriters
<1> QED  BY <1>1, <1>2, <1>3, <1>4, <1>5

LEMMA LowerRequests ==
  ASSUME AccountsAssumption, TypeOK, Lower, NEW r \in Requests, Step(r),
         NEW q \in Requests
  PROVE  LowerIn(q)'
<1>0. TablesOK /\ RequestsOK /\ LowerIn(q)
  BY DEF TypeOK, TablesOK, RequestsOK, Lower
<1>1. CASE q # r
  <2>1. pc'[q] = pc[q] /\ What(q)' = What(q)
    BY <1>0, <1>1, StepLeaves
  <2> QED  BY <1>0, <2>1 DEF LowerIn
<1>2. CASE q = r
  <2>0. \A step, who, what : Goto(r, step, who, what) =>
          pc'[r] = step /\ What(r)' = what
    BY <1>0, GotoIs
  <2>1. CASE pc'[r] = "new_find"
    <3>1. PICK email \in Spellings, password \in Passwords :
            \/ \E b \in Browsers, role \in FormRoles :
                 Create(r, b, email, role, password)
            \/ Seed(r, email, password)
      BY <1>0, <2>1, Arrivals
    <3>2. \E role : What(r)' = NewAccount(email, role, password)
      BY <2>0, <3>1 DEF Create, Seed
    <3>3. What(r)'.email[2] = "lower"
      BY <3>2, NormalType DEF NewAccount
    <3> QED  BY <1>2, <2>1, <3>3 DEF LowerIn
  <2>2. CASE pc'[r] = "new_insert"
    <3>1. CreateFind(r)
      BY <1>0, <2>2, Arrivals
    <3>2. pc[r] = "new_find" /\ What(r)' = What(r)
      BY <2>0, <2>2, <3>1 DEF CreateFind, At, Answers
    <3> QED  BY <1>0, <1>2, <2>2, <3>2 DEF LowerIn
  <2>3. CASE pc'[r] = "email_find"
    <3>1. PICK b \in Browsers, u \in 1 .. lastUser, email \in Spellings :
            SetEmail(r, b, u, email)
      BY <1>0, <2>3, Arrivals
    <3>2. What(r)' = [user |-> u, email |-> NormalizeEmail(email)]
      BY <2>0, <3>1 DEF SetEmail
    <3>3. What(r)'.email[2] = "lower"
      BY <3>2, NormalType
    <3> QED  BY <1>2, <2>3, <3>3 DEF LowerIn
  <2>4. CASE pc'[r] = "email_read"
    <3>1. SetEmailFind(r)
      BY <1>0, <2>4, Arrivals
    <3>2. pc[r] = "email_find" /\ What(r)' = What(r)
      BY <2>0, <2>4, <3>1 DEF SetEmailFind, At, Answers
    <3> QED  BY <1>0, <1>2, <2>4, <3>2 DEF LowerIn
  <2>5. CASE pc'[r] = "user_save"
    <3>1. CASE SetEmailRead(r)
      <4>1. What(r)'.row.email = What(r).email
        BY <1>0, <2>0, <2>5, <3>1, SetEmailReadIs DEF Answers
      <4>2. What(r).email[2] = "lower"
        BY <1>0, <1>2, <3>1 DEF SetEmailRead, At, LowerIn
      <4> QED  BY <1>2, <2>5, <4>1, <4>2 DEF LowerIn
    <3>2. CASE PasswordRead(r)
      <4>1. \E u \in DOMAIN users : What(r)'.row.email = users[u].email
        BY <1>0, <2>0, <2>5, <3>2, PasswordReadIs DEF Answers
      <4>2. What(r)'.row.email[2] = "lower"
        BY <4>1 DEF Lower, LowerUsers
      <4> QED  BY <1>2, <2>5, <4>2 DEF LowerIn
    <3> QED  BY <1>0, <2>5, <3>1, <3>2, Arrivals
  <2> QED  BY <1>2, <2>1, <2>2, <2>3, <2>4, <2>5 DEF LowerIn
<1> QED  BY <1>1, <1>2

\* No two accounts have addresses that differ in nothing but case: the
\* look-up that finds one free is overtaken, the column is not.
THEOREM AddressesStayUnique ==
  ASSUME AccountsAssumption PROVE Spec => []AddressesUnique
<1>1. Init => Lower
  <2>1. ASSUME Init PROVE LowerUsers /\ SpelledOnce
    BY <2>1 DEF Init, AccountsAssumption, LowerUsers, SpelledOnce
  <2> QED  BY <2>1 DEF Init, Lower, LowerIn
<1>2. TypeOK /\ Lower /\ [Next]_vars => Lower'
  <2>1. ASSUME TypeOK, Lower, NEW r \in Requests, Step(r) PROVE Lower'
    BY <2>1, LowerTable, LowerRequests DEF Lower
  <2>2. ASSUME Lower, \/ UNCHANGED vars
                      \/ \E d \in Duties : DeleteDuty(d)
        PROVE  Lower'
    <3>1. UNCHANGED <<userTable, pc, local>>
      BY <2>2 DEF vars, userTable, DeleteDuty
    <3> QED  BY <2>2, <3>1 DEF userTable, Lower, LowerUsers, SpelledOnce,
                               LowerIn, What
  <2> QED  BY <2>1, <2>2 DEF Next, Step
<1>3. TypeOK /\ Lower => AddressesUnique
  BY LowerIsUnique
<1> QED  BY <1>1, <1>2, <1>3, AccountsTypeCorrect, PTL DEF Spec

-----------------------------------------------------------------------------
\* The row in the hands of an edit.

\* It has the role of the account, and the address or the password, if
\* nobody else has written since it was read.
RowIn(q) ==
  pc[q] = "user_save" =>
    LET u == What(q).user
        row == What(q).row
    IN /\ u \in 1 .. lastUser
       /\ u \in DOMAIN users =>
            /\ row.role = users[u].role
            /\ ~overtaken[q] => \/ row.email = users[u].email
                                \/ row.password = users[u].password

RowsIn == \A q \in Requests : RowIn(q)

RolesStay ==
  \A u \in DOMAIN users \cap DOMAIN users' : users'[u].role = users[u].role

LEMMA StepRoles ==
  ASSUME AccountsAssumption, TypeOK, RowsIn, NEW r \in Requests, Step(r)
  PROVE  RolesStay
<1>0. /\ TablesOK /\ RequestsOK /\ RowIn(r)
  BY DEF TypeOK, TablesOK, RequestsOK, RowsIn
<1>1. CASE UNCHANGED userTable
  BY <1>1 DEF userTable, RolesStay
<1>2. CASE CreateInsert(r)
  BY <1>0, <1>2, CreateInsertIs DEF RolesStay
<1>3. CASE UserSave(r)
  <2>1. /\ What(r).user \in DOMAIN users =>
             What(r).row.role = users[What(r).user].role
    BY <1>0, <1>3 DEF UserSave, At, RowIn
  <2>2. \A v \in DOMAIN users :
          users'[v] = IF v = What(r).user THEN What(r).row ELSE users[v]
    BY <1>0, <1>3, UserSaveIs
  <2> QED  BY <2>1, <2>2 DEF RolesStay
<1>4. CASE DeleteRun(r)
  BY <1>4, DeleteRunIs DEF RolesStay
<1>5. UNCHANGED userTable \/ CreateInsert(r) \/ UserSave(r) \/ DeleteRun(r)
  BY UserWriters
<1> QED  BY <1>1, <1>2, <1>3, <1>4, <1>5

LEMMA StepRows ==
  ASSUME AccountsAssumption, TypeOK, RowsIn, NEW r \in Requests, Step(r),
         NEW q \in Requests
  PROVE  RowIn(q)'
<1>0. TablesOK /\ RequestsOK /\ RowIn(q) /\ DOMAIN users \subseteq 1 .. lastUser
  BY DEF TypeOK, TablesOK, RequestsOK, RowsIn
<1>1. CASE q # r /\ pc[q] = "user_save"
  <2>1. /\ pc'[q] = pc[q] /\ What(q)' = What(q)
        /\ ~overtaken'[q] => ~overtaken[q] /\ UNCHANGED userTable
    BY <1>0, <1>1, StepLeaves
  <2>2. What(q).user \in 1 .. lastUser'
    BY <1>0, <1>1, UsersGrow DEF RowIn
  <2>3. CASE What(q).user \in DOMAIN users'
    <3>1. What(q).user \in DOMAIN users
      BY <1>0, <1>1, <2>3, UsersGrow DEF RowIn
    <3>2. users'[What(q).user].role = users[What(q).user].role
      BY <2>3, <3>1, StepRoles DEF RolesStay
    <3> QED  BY <1>0, <1>1, <2>1, <2>2, <3>1, <3>2 DEF RowIn, userTable
  <2> QED  BY <2>1, <2>2, <2>3 DEF RowIn
<1>2. CASE q # r /\ pc[q] # "user_save"
  <2>1. pc'[q] = pc[q]
    BY <1>0, <1>2, StepLeaves
  <2> QED  BY <1>2, <2>1 DEF RowIn
<1>3. CASE q = r /\ pc'[r] = "user_save"
  <2>0. \A step, who, what : Goto(r, step, who, what) =>
          pc'[r] = step /\ What(r)' = what
    BY <1>0, GotoIs
  <2>1. SetEmailRead(r) \/ PasswordRead(r)
    BY <1>0, <1>3, Arrivals
  <2>2. UNCHANGED userTable
    BY <2>1 DEF SetEmailRead, PasswordRead, Only
  <2>3. LET u == What(r)'.user
            row == What(r)'.row
        IN /\ u \in DOMAIN users
           /\ row.role = users[u].role
           /\ row.email = users[u].email \/ row.password = users[u].password
    BY <1>0, <1>3, <2>0, <2>1, SetEmailReadIs, PasswordReadIs DEF Answers
  <2> QED  BY <1>0, <1>3, <2>2, <2>3 DEF RowIn, userTable
<1> QED  BY <1>1, <1>2, <1>3 DEF RowIn

LEMMA RowsHold == ASSUME AccountsAssumption PROVE Spec => []RowsIn
<1>1. Init => RowsIn
  BY DEF Init, RowsIn, RowIn
<1>2. TypeOK /\ RowsIn /\ [Next]_vars => RowsIn'
  <2>1. ASSUME TypeOK, RowsIn, NEW r \in Requests, Step(r) PROVE RowsIn'
    BY <2>1, StepRows DEF RowsIn
  <2>2. ASSUME RowsIn, \/ UNCHANGED vars
                       \/ \E d \in Duties : DeleteDuty(d)
        PROVE  RowsIn'
    <3>1. UNCHANGED <<userTable, pc, local, overtaken>>
      BY <2>2 DEF vars, userTable, DeleteDuty
    <3> QED  BY <2>2, <3>1 DEF userTable, RowsIn, RowIn, What
  <2> QED  BY <2>1, <2>2 DEF Next, Step
<1> QED  BY <1>1, <1>2, AccountsTypeCorrect, PTL DEF Spec

\* An edit of an address or a password changes no role, and takes back the
\* other field only of an account that somebody else wrote meanwhile.
THEOREM EditsKeepTheRest ==
  ASSUME AccountsAssumption PROVE Spec => EditsOneField
<1>1. ASSUME TypeOK, RowsIn, NEW r \in Requests, Step(r) PROVE SavesItsField
  <2>0. /\ TablesOK /\ RequestsOK
    BY <1>1 DEF TypeOK, TablesOK, RequestsOK
  <2>1. RolesStay
    BY <1>1, StepRoles
  <2>2. ASSUME NEW q \in Requests, NEW u \in DOMAIN users \cap DOMAIN users',
               pc[q] = "user_save", pc'[q] # "user_save", ~overtaken[q]
        PROVE  \/ users'[u].email = users[u].email
               \/ users'[u].password = users[u].password
    <3>1. q = r
      BY <1>1, <2>0, <2>2, StepLeaves
    <3>2. UNCHANGED userTable \/ UserSave(r)
      <4>1. ~CreateInsert(r) /\ ~DeleteRun(r)
        BY <2>2, <3>1 DEF CreateInsert, DeleteRun, At
      <4> QED  BY <1>1, <4>1, UserWriters
    <3>3. CASE UNCHANGED userTable
      BY <3>3 DEF userTable
    <3>4. CASE UserSave(r)
      <4>1. users'[u] = IF u = What(r).user THEN What(r).row ELSE users[u]
        BY <1>1, <2>0, <2>2, <3>4, UserSaveIs
      <4>2. RowIn(r)
        BY <1>1 DEF RowsIn
      <4> QED  BY <2>2, <3>1, <4>1, <4>2 DEF RowIn
    <3> QED  BY <3>2, <3>3, <3>4
  <2> QED  BY <2>1, <2>2 DEF RolesStay, SavesItsField
<1>2. ASSUME NEW d \in Duties, DeleteDuty(d) PROVE SavesItsField
  BY <1>2 DEF DeleteDuty, userTable, SavesItsField
<1>3. TypeOK /\ RowsIn /\ [Next]_vars => [SavesItsField]_vars
  BY <1>1, <1>2 DEF Next, Step
<1> QED  BY <1>3, AccountsTypeCorrect, RowsHold, PTL DEF Spec, EditsOneField

-----------------------------------------------------------------------------
\* Who deletes is an administrator other than the deleted one, and is there
\* if nobody else has written since the request began.
DeletesIn(q) ==
  pc[q] \in {"del_find", "del_run"} =>
    LET a == Who(q).actor
    IN /\ What(q).user # a
       /\ a \in 1 .. lastUser
       /\ ~overtaken[q] => a \in DOMAIN users
       /\ a \in DOMAIN users => users[a].role = "admin"

DeletionsIn == \A q \in Requests : DeletesIn(q)

LEMMA StepDeletions ==
  ASSUME AccountsAssumption, TypeOK, RowsIn, DeletionsIn, NEW r \in Requests,
         Step(r), NEW q \in Requests
  PROVE  DeletesIn(q)'
<1>0. /\ TablesOK /\ RequestsOK /\ DeletesIn(q)
      /\ DOMAIN users \subseteq 1 .. lastUser
  BY DEF TypeOK, TablesOK, RequestsOK, DeletionsIn
<1>1. CASE q # r /\ pc[q] \in {"del_find", "del_run"}
  <2> DEFINE a == Who(q).actor
  <2>1. /\ pc'[q] = pc[q] /\ What(q)' = What(q) /\ Who(q)' = Who(q)
        /\ ~overtaken'[q] => ~overtaken[q] /\ UNCHANGED userTable
    BY <1>0, <1>1, StepLeaves
  <2>2. a \in 1 .. lastUser /\ a \in 1 .. lastUser'
    BY <1>0, <1>1, UsersGrow DEF DeletesIn
  <2>3. CASE a \in DOMAIN users'
    <3>1. a \in DOMAIN users
      BY <2>2, <2>3, UsersGrow
    <3>2. users'[a].role = users[a].role
      BY <2>3, <3>1, StepRoles DEF RolesStay
    <3> QED  BY <1>0, <1>1, <2>1, <2>2, <3>1, <3>2 DEF DeletesIn, userTable
  <2>4. CASE a \notin DOMAIN users'
    BY <1>0, <1>1, <2>1, <2>2, <2>4 DEF DeletesIn, userTable
  <2> QED  BY <2>3, <2>4
<1>2. CASE q # r /\ pc[q] \notin {"del_find", "del_run"}
  <2>1. pc'[q] = pc[q]
    BY <1>0, <1>2, StepLeaves
  <2> QED  BY <1>2, <2>1 DEF DeletesIn
<1>3. CASE q = r
  <2>0. \A step, who, what : Goto(r, step, who, what) =>
          pc'[r] = step /\ What(r)' = what /\ Who(r)' = who
    BY <1>0, GotoIs
  <2>1. CASE pc'[r] = "del_find"
    <3>1. PICK b \in Browsers, u \in 1 .. lastUser : Delete(r, b, u)
      BY <1>0, <2>1, Arrivals
    <3>2. Who(r)' = Ident(b, cookie[b]) /\ What(r)' = [user |-> u]
      BY <2>0, <3>1 DEF Delete
    <3>3. Who(r)'.actor = cookie[b] /\ What(r)'.user = u
      BY <3>2 DEF Ident
    <3>4. /\ u # cookie[b] /\ cookie[b] \in DOMAIN users
          /\ users[cookie[b]].role = "admin" /\ UNCHANGED userTable
      BY <3>1 DEF Delete, Admitted, Admin, Only
    <3> QED  BY <1>0, <1>3, <3>3, <3>4 DEF DeletesIn, userTable
  <2>2. CASE pc'[r] = "del_run"
    <3>1. DeleteFind(r)
      BY <1>0, <2>2, Arrivals
    <3>2. /\ pc[r] = "del_find" /\ Who(r)' = Who(r) /\ What(r)' = What(r)
          /\ UNCHANGED userTable /\ Reads
      BY <2>0, <2>2, <3>1 DEF DeleteFind, At, Answers, Only
    <3>3. ~overtaken'[r] => ~overtaken[r]
      BY <2>2, <3>2 DEF Reads
    <3> QED  BY <1>0, <1>3, <3>2, <3>3 DEF DeletesIn, userTable
  <2> QED  BY <1>3, <2>1, <2>2 DEF DeletesIn
<1> QED  BY <1>1, <1>2, <1>3

LEMMA DeletionsHold == ASSUME AccountsAssumption PROVE Spec => []DeletionsIn
<1>1. Init => DeletionsIn
  BY DEF Init, DeletionsIn, DeletesIn
<1>2. TypeOK /\ RowsIn /\ DeletionsIn /\ [Next]_vars => DeletionsIn'
  <2>1. ASSUME TypeOK, RowsIn, DeletionsIn, NEW r \in Requests, Step(r)
        PROVE  DeletionsIn'
    BY <2>1, StepDeletions DEF DeletionsIn
  <2>2. ASSUME DeletionsIn, \/ UNCHANGED vars
                            \/ \E d \in Duties : DeleteDuty(d)
        PROVE  DeletionsIn'
    <3>1. UNCHANGED <<userTable, pc, local, overtaken>>
      BY <2>2 DEF vars, userTable, DeleteDuty
    <3> QED  BY <2>2, <3>1 DEF userTable, DeletionsIn, DeletesIn, What, Who
  <2> QED  BY <2>1, <2>2 DEF Next, Step
<1> QED  BY <1>1, <1>2, AccountsTypeCorrect, RowsHold, PTL DEF Spec

LEMMA StepLastAdmin ==
  ASSUME AccountsAssumption, TypeOK, RowsIn, DeletionsIn,
         NEW r \in Requests, Step(r)
  PROVE  LastAdminStays
<1>0. TablesOK /\ RequestsOK
  BY DEF TypeOK, TablesOK, RequestsOK
<1>1. SUFFICES ASSUME NEW u \in Admins(users), Admins(users)' = {}
               PROVE  pc[r] = "del_run" /\ overtaken[r]
  BY DEF LastAdminStays
<1>2. u \in DOMAIN users /\ users[u].role = "admin"
  BY DEF Admins
<1>3. ASSUME NEW v \in DOMAIN users, users[v].role = "admin"
      PROVE  v \notin DOMAIN users'
  BY <1>1, <1>3, StepRoles DEF Admins, RolesStay
<1>4. DeleteRun(r)
  <2>1. ~UNCHANGED userTable
    BY <1>2, <1>3 DEF userTable
  <2>2. ~CreateInsert(r)
    BY <1>0, <1>2, <1>3, CreateInsertIs
  <2>3. ~UserSave(r)
    BY <1>0, <1>2, <1>3, UserSaveIs
  <2> QED  BY <2>1, <2>2, <2>3, UserWriters
<1>5. pc[r] = "del_run" /\ DOMAIN users' = DOMAIN users \ {What(r).user}
  BY <1>4, DeleteRunIs DEF DeleteRun, At
<1>6. DeletesIn(r)
  BY DEF DeletionsIn
<1> QED  BY <1>3, <1>5, <1>6 DEF DeletesIn

\* The last administrator is never deleted by a request that nobody else's
\* write came between.
THEOREM LastAdminIsRaced ==
  ASSUME AccountsAssumption PROVE Spec => LastAdminFallsToRace
<1>1. ASSUME NEW d \in Duties, DeleteDuty(d) PROVE LastAdminStays
  BY <1>1 DEF DeleteDuty, userTable, LastAdminStays, Admins
<1>2. TypeOK /\ RowsIn /\ DeletionsIn /\ [Next]_vars => [LastAdminStays]_vars
  BY <1>1, StepLastAdmin DEF Next, Step
<1> QED  BY <1>2, AccountsTypeCorrect, RowsHold, DeletionsHold, PTL
         DEF Spec, LastAdminFallsToRace

-----------------------------------------------------------------------------
\* Comments.

\* What a step makes of the comments.
LEMMA StepComments ==
  ASSUME AccountsAssumption, TypeOK, NEW r \in Requests, Step(r)
  PROVE  /\ lastComment \in Nat /\ lastComment' \in Nat
         /\ lastComment' >= lastComment
         /\ DOMAIN comments' \cap 1 .. lastComment \subseteq DOMAIN comments
         /\ \A k \in DOMAIN comments \cap DOMAIN comments' :
              comments'[k] = comments[k]
<1>0. /\ TablesOK /\ RequestsOK /\ lastComment \in Nat
      /\ DOMAIN comments \subseteq 1 .. lastComment
  BY DEF TypeOK, TablesOK, RequestsOK
<1>1. CASE UNCHANGED <<comments, lastComment>>
  BY <1>0, <1>1
<1>2. CASE AddCommentInsert(r)
  <2>1. /\ lastComment' = lastComment + 1
        /\ DOMAIN comments' = DOMAIN comments \cup {lastComment + 1}
        /\ \A k \in DOMAIN comments : comments'[k] = comments[k]
    BY <1>0, <1>2, AddCommentIs
  <2> QED  BY <1>0, <2>1
<1>3. CASE DeleteCommentRun(r) \/ DeleteRun(r)
  <2>1. /\ lastComment' = lastComment
        /\ DOMAIN comments' \subseteq DOMAIN comments
        /\ \A k \in DOMAIN comments' : comments'[k] = comments[k]
    BY <1>0, <1>3, KeepComments DEF DeleteCommentRun, DeleteRun
  <2> QED  BY <1>0, <2>1
<1>4. \/ UNCHANGED <<comments, lastComment>>
      \/ AddCommentInsert(r) \/ DeleteCommentRun(r) \/ DeleteRun(r)
  BY CommentWriters
<1> QED  BY <1>1, <1>2, <1>3, <1>4

LEMMA StepAttached ==
  ASSUME AccountsAssumption, TypeOK, CommentsAttached, NEW r \in Requests,
         Step(r)
  PROVE  CommentsAttached'
<1>0. TablesOK /\ RequestsOK /\ UNCHANGED duties
  BY CommentWriters DEF TypeOK, TablesOK, RequestsOK
<1>1. DeleteRun(r) \/ DOMAIN users \subseteq DOMAIN users'
  <2>1. UNCHANGED userTable => DOMAIN users \subseteq DOMAIN users'
    BY DEF userTable
  <2>2. CreateInsert(r) \/ UserSave(r) => DOMAIN users \subseteq DOMAIN users'
    BY <1>0, CreateInsertIs, UserSaveIs
  <2> QED  BY <2>1, <2>2, UserWriters
<1>2. CASE DeleteRun(r)
  <2> DEFINE ids == {k \in DOMAIN comments : comments[k].author # What(r).user}
  <2>1. comments' = Keep(comments, ids)
    BY <1>2 DEF DeleteRun
  <2>2. /\ DOMAIN comments' = DOMAIN comments \cap ids
        /\ \A k \in DOMAIN comments' : comments'[k] = comments[k]
    BY <1>0, <2>1, KeepComments
  <2>3. DOMAIN users' = DOMAIN users \ {What(r).user}
    BY <1>2, DeleteRunIs
  <2> QED  BY <1>0, <2>2, <2>3 DEF CommentsAttached
<1>3. CASE DOMAIN users \subseteq DOMAIN users'
  <2>1. \A k \in DOMAIN comments \cap DOMAIN comments' :
          comments'[k] = comments[k]
    BY StepComments
  <2>2. ASSUME NEW k \in DOMAIN comments' \ DOMAIN comments
        PROVE  /\ comments'[k].author \in DOMAIN users
               /\ comments'[k].duty \in duties
    <3>1. AddCommentInsert(r)
      <4>1. DeleteCommentRun(r) \/ DeleteRun(r) =>
              DOMAIN comments' \subseteq DOMAIN comments
        BY <1>0, KeepComments DEF DeleteCommentRun, DeleteRun
      <4> QED  BY <2>2, <4>1, CommentWriters
    <3>2. Who(r).actor \in DOMAIN users /\ What(r).duty \in duties
      BY <3>1 DEF AddCommentInsert, CommentAllowed
    <3>3. PICK row : /\ row.author = Who(r).actor /\ row.duty = What(r).duty
                     /\ DOMAIN comments' = DOMAIN comments \cup {lastComment + 1}
                     /\ comments'[lastComment + 1] = row
      BY <1>0, <3>1, AddCommentIs
    <3> QED  BY <2>2, <3>2, <3>3
  <2> QED  BY <1>0, <1>3, <2>1, <2>2 DEF CommentsAttached
<1> QED  BY <1>1, <1>2, <1>3

LEMMA DutyTakesComments ==
  ASSUME TypeOK, NEW d \in Duties, DeleteDuty(d)
  PROVE  /\ duties' = duties \ {d} /\ UNCHANGED <<users, lastComment, pc, local>>
         /\ DOMAIN comments' =
              DOMAIN comments \cap {k \in DOMAIN comments : comments[k].duty # d}
         /\ \A k \in DOMAIN comments' : comments'[k] = comments[k]
<1>1. TablesOK
  BY DEF TypeOK, TablesOK
<1> QED  BY <1>1, KeepComments DEF DeleteDuty, userTable

\* A comment outlives neither its author nor its duty, whichever of the
\* comment and the deletion is written first.
THEOREM CommentsStayAttached ==
  ASSUME AccountsAssumption PROVE Spec => []CommentsAttached
<1>1. Init => CommentsAttached
  BY DEF Init, CommentsAttached
<1>2. TypeOK /\ CommentsAttached /\ [Next]_vars => CommentsAttached'
  <2>1. ASSUME TypeOK, CommentsAttached, NEW d \in Duties, DeleteDuty(d)
        PROVE  CommentsAttached'
    <3>1. /\ duties' = duties \ {d} /\ users' = users
          /\ DOMAIN comments' \subseteq DOMAIN comments
          /\ \A k \in DOMAIN comments' :
               comments'[k] = comments[k] /\ comments[k].duty # d
      BY <2>1, DutyTakesComments
    <3> QED  BY <2>1, <3>1 DEF CommentsAttached
  <2>2. ASSUME CommentsAttached, UNCHANGED vars PROVE CommentsAttached'
    BY <2>2 DEF vars, CommentsAttached
  <2> QED  BY <2>1, <2>2, StepAttached DEF Next, Step
<1> QED  BY <1>1, <1>2, AccountsTypeCorrect, PTL DEF Spec

\* The comment that a request is about to delete is one it may delete.
CommentIn(q) ==
  pc[q] = "cmt_run" =>
    LET k == What(q).comment
    IN /\ k \in 1 .. lastComment
       /\ k \in DOMAIN comments => MayDelete(Who(q), comments[k].author)

CommentsIn == \A q \in Requests : CommentIn(q)

LEMMA StepCommentIn ==
  ASSUME AccountsAssumption, TypeOK, CommentsIn, NEW r \in Requests, Step(r),
         NEW q \in Requests
  PROVE  CommentIn(q)'
<1>0. /\ TablesOK /\ RequestsOK /\ CommentIn(q)
      /\ DOMAIN comments \subseteq 1 .. lastComment
  BY DEF TypeOK, TablesOK, RequestsOK, CommentsIn
<1>1. CASE q # r /\ pc[q] = "cmt_run"
  <2>1. pc'[q] = pc[q] /\ What(q)' = What(q) /\ Who(q)' = Who(q)
    BY <1>0, <1>1, StepLeaves
  <2>2. What(q).comment \in 1 .. lastComment'
    BY <1>0, <1>1, StepComments DEF CommentIn
  <2>3. What(q).comment \in DOMAIN comments' =>
          /\ What(q).comment \in DOMAIN comments
          /\ comments'[What(q).comment] = comments[What(q).comment]
    BY <1>0, <1>1, StepComments DEF CommentIn
  <2> QED  BY <1>0, <1>1, <2>1, <2>2, <2>3 DEF CommentIn, MayDelete
<1>2. CASE q # r /\ pc[q] # "cmt_run"
  <2>1. pc'[q] = pc[q]
    BY <1>0, <1>2, StepLeaves
  <2> QED  BY <1>2, <2>1 DEF CommentIn
<1>3. CASE q = r /\ pc'[r] = "cmt_run"
  <2>0. \A step, who, what : Goto(r, step, who, what) =>
          pc'[r] = step /\ What(r)' = what /\ Who(r)' = who
    BY <1>0, GotoIs
  <2>1. DeleteCommentFind(r)
    BY <1>0, <1>3, Arrivals
  <2>2. /\ Who(r)' = Who(r) /\ What(r)' = What(r)
        /\ What(r).comment \in DOMAIN comments
        /\ MayDelete(Who(r), comments[What(r).comment].author)
        /\ UNCHANGED commentTable
    BY <1>3, <2>0, <2>1 DEF DeleteCommentFind, Finish, Only
  <2> QED  BY <1>0, <1>3, <2>2 DEF CommentIn, commentTable, MayDelete
<1> QED  BY <1>1, <1>2, <1>3 DEF CommentIn

LEMMA CommentsHold == ASSUME AccountsAssumption PROVE Spec => []CommentsIn
<1>1. Init => CommentsIn
  BY DEF Init, CommentsIn, CommentIn
<1>2. TypeOK /\ CommentsIn /\ [Next]_vars => CommentsIn'
  <2>1. ASSUME TypeOK, CommentsIn, NEW r \in Requests, Step(r)
        PROVE  CommentsIn'
    BY <2>1, StepCommentIn DEF CommentsIn
  <2>2. ASSUME TypeOK, CommentsIn, NEW d \in Duties, DeleteDuty(d)
        PROVE  CommentsIn'
    BY <2>2, DutyTakesComments DEF CommentsIn, CommentIn, What, Who, MayDelete
  <2>3. ASSUME CommentsIn, UNCHANGED vars PROVE CommentsIn'
    BY <2>3 DEF vars, CommentsIn, CommentIn, What, Who, MayDelete
  <2> QED  BY <2>1, <2>2, <2>3 DEF Next, Step
<1> QED  BY <1>1, <1>2, AccountsTypeCorrect, PTL DEF Spec

LEMMA StepDeletedByItsOwn ==
  ASSUME AccountsAssumption, TypeOK, CommentsAttached, CommentsIn,
         NEW r \in Requests, Step(r)
  PROVE  DeletedByItsOwn
<1>0. TablesOK /\ RequestsOK /\ CommentIn(r)
  BY DEF TypeOK, TablesOK, RequestsOK, CommentsIn
<1> SUFFICES ASSUME NEW k \in DOMAIN comments \ DOMAIN comments',
                    comments[k].author \in DOMAIN users',
                    comments[k].duty \in duties'
             PROVE  /\ pc[r] = "cmt_run"
                    /\ \/ Who(r).actor = comments[k].author
                       \/ Who(r).role # "participant"
  BY DEF DeletedByItsOwn
<1>1. ~AddCommentInsert(r)
  BY <1>0, AddCommentIs
<1>2. ~DeleteRun(r)
  <2> SUFFICES ASSUME DeleteRun(r) PROVE FALSE
    OBVIOUS
  <2> DEFINE ids == {c \in DOMAIN comments : comments[c].author # What(r).user}
  <2>1. comments' = Keep(comments, ids)
    BY DEF DeleteRun
  <2>2. DOMAIN comments' = DOMAIN comments \cap ids
    BY <1>0, <2>1, KeepComments
  <2>3. DOMAIN users' = DOMAIN users \ {What(r).user}
    BY DeleteRunIs
  <2> QED  BY <2>2, <2>3
<1>3. DeleteCommentRun(r)
  BY <1>1, <1>2, CommentWriters
<1>4. pc[r] = "cmt_run" /\ k = What(r).comment
  <2>1. DOMAIN comments' =
          DOMAIN comments \cap (DOMAIN comments \ {What(r).comment})
    BY <1>0, <1>3, KeepComments DEF DeleteCommentRun
  <2> QED  BY <1>3, <2>1 DEF DeleteCommentRun, At
<1> QED  BY <1>0, <1>4 DEF CommentIn, MayDelete

\* A comment is deleted by its author, by staff, or with its account or duty.
THEOREM CommentsAreTheirOwn ==
  ASSUME AccountsAssumption PROVE Spec => CommentsDeletedByTheirOwn
<1>1. ASSUME TypeOK, NEW d \in Duties, DeleteDuty(d) PROVE DeletedByItsOwn
  BY <1>1, DutyTakesComments DEF DeletedByItsOwn
<1>2. TypeOK /\ CommentsAttached /\ CommentsIn /\ [Next]_vars =>
        [DeletedByItsOwn]_vars
  BY <1>1, StepDeletedByItsOwn DEF Next, Step
<1> QED  BY <1>2, AccountsTypeCorrect, CommentsStayAttached, CommentsHold, PTL
         DEF Spec, CommentsDeletedByTheirOwn

=============================================================================
