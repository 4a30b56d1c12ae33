--------------------------- MODULE AccountsProofs ---------------------------
(***************************************************************************)
(* Proofs about the accounts, for every number of users and of requests at *)
(* a time: every state has its type; an administrator remains unless a     *)
(* change was made by one who was none any more; avatars, second factors   *)
(* and codes are kept; wrong answers lock the account within a bound.      *)
(***************************************************************************)
EXTENDS Accounts, FiniteSetTheorems, WellFoundedInduction, TLAPS

\* What the threads hold: the copy of a row once it was read, the cookie that a route of
\* a user or administrator was entered with, and not the own row where that is refused.
Held ==
  \A t \in Threads :
    req[t] # Idle =>
      /\ req[t].at # "checked" => req[t].copy \in Row
      /\ req[t].route \notin OpenRoutes => req[t].by \in Cookie
      /\ req[t].route \in NotOnSelf => req[t].by \in Cookie /\ req[t].user # req[t].by.user

AccInv == TypeOK /\ Held /\ AdminRemains

\* A step that touches neither the role of a user nor whether he is there.
Quiet ==
  /\ users' \in [Users -> Row]
  /\ \A u \in Users : users'[u].role = users[u].role /\ users'[u].state = users[u].state
  /\ crossed' = crossed

ReqOK == req \in [Threads -> Requests] /\ Held

-----------------------------------------------------------------------------
\* Rows

Cols == {"state", "pwd", "role", "failed", "lock", "totp", "secret", "email", "code", "file"}

\* A commit makes a row of rows.
LEMMA UpdateRow ==
  ASSUME NEW row \in Row, NEW copy \in Row, NEW new \in Row
  PROVE  Update(row, copy, new) \in Row
<1>1. CASE row.state # "live"
  BY <1>1 DEF Update
<1>2. CASE row.state = "live"
  <2> DEFINE pick(c) == IF new[c] # copy[c] THEN new[c] ELSE row[c]
  <2>1. DOMAIN row = Cols
    BY DEF Row, Cols
  <2>2. Update(row, copy, new) = [c \in DOMAIN row |-> pick(c)]
    BY <1>2 DEF Update
  <2>3. /\ pick("state") \in {"none", "live", "deleted"}
        /\ pick("pwd") \in Ids /\ pick("role") \in {"admin", "soc"}
        /\ pick("failed") \in Nat /\ pick("lock") \in {"none", "live", "past"}
        /\ pick("totp") \in BOOLEAN /\ pick("secret") \in Ids
        /\ pick("email") \in BOOLEAN /\ pick("code") \in Ids /\ pick("file") \in Ids
    BY DEF Row
  <2>4. Update(row, copy, new) =
          [state |-> pick("state"), pwd |-> pick("pwd"), role |-> pick("role"),
           failed |-> pick("failed"), lock |-> pick("lock"), totp |-> pick("totp"),
           secret |-> pick("secret"), email |-> pick("email"), code |-> pick("code"),
           file |-> pick("file")]
    <3> HIDE DEF pick
    <3> QED BY <2>1, <2>2 DEF Cols
  <2> QED BY <2>3, <2>4 DEF Row
<1> QED BY <1>1, <1>2

\* A commit writes the columns that differ from the copy, and no others.
LEMMA UpdateColumn ==
  ASSUME NEW row \in Row, NEW copy \in Row, NEW new \in Row, NEW c \in Cols, new[c] = copy[c]
  PROVE  Update(row, copy, new)[c] = row[c]
<1>1. DOMAIN row = Cols
  BY DEF Row, Cols
<1> QED BY <1>1 DEF Update

\* Counting a failure and clearing the failures leave the role alone.
LEMMA FailureRow ==
  ASSUME NEW copy \in Row, NEW n \in Nat
  PROVE  /\ AddFailure(copy, n) \in Row /\ NoFailures(copy) \in Row
         /\ AddFailure(copy, n).role = copy.role /\ AddFailure(copy, n).state = copy.state
         /\ NoFailures(copy).role = copy.role /\ NoFailures(copy).state = copy.state
<1>1. [copy EXCEPT !.failed = n + 1] \in Row
  BY DEF Row
<1>2. \A lock \in {"none", "live", "past"} : [copy EXCEPT !.failed = n + 1, !.lock = lock] \in Row
  BY <1>1 DEF Row
<1>3. copy.lock \in {"none", "live", "past"}
  BY DEF Row
<1>4. AddFailure(copy, n) \in Row
  <2>1. CASE n + 1 >= Lockout
    <3>1. AddFailure(copy, n) = [copy EXCEPT !.failed = n + 1, !.lock = "live"]
      BY <2>1 DEF AddFailure
    <3> QED BY <1>2, <3>1
  <2>2. CASE ~(n + 1 >= Lockout)
    <3>1. AddFailure(copy, n) = [copy EXCEPT !.failed = n + 1, !.lock = copy.lock]
      BY <2>2 DEF AddFailure
    <3> QED BY <1>2, <1>3, <3>1
  <2> QED BY <2>1, <2>2
<1>5. NoFailures(copy) \in Row
  BY DEF Row, NoFailures
<1> QED BY <1>4, <1>5 DEF AddFailure, NoFailures, Row

\* A commit of a copy with its role and state is quiet.
LEMMA CommitQuiet ==
  ASSUME TypeOK, NEW t \in Threads, req[t].user \in Users, req[t].copy \in Row,
         NEW new \in Row, new.role = req[t].copy.role, new.state = req[t].copy.state,
         Commit(t, new), crossed' = crossed
  PROVE  Quiet
<1> DEFINE u == req[t].user
           row == Update(users[u], req[t].copy, new)
<1>1. users \in [Users -> Row] /\ users[u] \in Row
  BY DEF TypeOK
<1>2. row \in Row
  BY <1>1, UpdateRow
<1>3. row.role = users[u].role /\ row.state = users[u].state
  BY <1>1, UpdateColumn DEF Cols
<1>4. users' = [users EXCEPT ![u] = row]
  BY DEF Commit
<1> HIDE DEF row
<1> QED BY <1>1, <1>2, <1>3, <1>4 DEF Quiet

\* After a quiet step an administrator remains.
LEMMA QuietRemains == TypeOK /\ AdminRemains /\ Quiet => AdminRemains'
  BY DEF AdminRemains, Quiet

\* A request that ends leaves its thread idle.
LEMMA FinishReq ==
  ASSUME ReqOK, NEW t \in Threads, Finish(t)
  PROVE  ReqOK'
<1>1. req' = [req EXCEPT ![t] = Idle] /\ Idle \in Requests
  BY DEF Finish, Requests
<1>2. req' \in [Threads -> Requests]
  BY <1>1 DEF ReqOK
<1>3. Held'
  BY <1>1 DEF ReqOK, Held
<1> QED BY <1>2, <1>3 DEF ReqOK

\* A thread that holds a row holds a request.
LEMMA LoadedReq ==
  ASSUME ReqOK, NEW t \in Threads, req[t].at \in {"loaded", "failing", "verified"}
  PROVE  /\ req[t] # Idle /\ req[t].user \in Users /\ req[t].copy \in Row
         /\ req[t].route \in OpenRoutes \cup OwnRoutes \cup AdminRoutes
         /\ req[t].route \notin OpenRoutes => req[t].by \in Cookie
         /\ req[t].route \in NotOnSelf => req[t].user # req[t].by.user
<1>1. req[t] # Idle
  BY DEF Idle
<1>2. req[t] \in Requests
  BY DEF ReqOK
<1> QED BY <1>1, <1>2 DEF ReqOK, Held, Requests

-----------------------------------------------------------------------------
\* Steps

\* The types of everything but the rows and the requests.
OtherOK ==
  /\ routes \subseteq OpenRoutes \cup OwnRoutes \cup AdminRoutes
  /\ sessions \subseteq Cookie
  /\ made \in [Made -> Ids]
  /\ expired \subseteq Ids /\ files \subseteq Ids
  /\ wrong \in [Users -> Nat] /\ uses \in [Ids -> Nat]
  /\ crossed \in BOOLEAN /\ torn \subseteq Users /\ skewed \subseteq Users

LEMMA QuietInv ==
  ASSUME AccInv, Quiet, ReqOK', OtherOK'
  PROVE  AccInv'
<1>1. TypeOK'
  BY DEF Quiet, ReqOK, OtherOK, TypeOK
<1> QED BY <1>1, QuietRemains DEF AccInv, ReqOK

LEMMA Parts == AccInv => TypeOK /\ AdminRemains /\ ReqOK /\ OtherOK
  BY DEF AccInv, TypeOK, ReqOK, OtherOK

\* The history of wrong answers stays a number.
LEMMA WrongType ==
  ASSUME wrong \in [Users -> Nat], NEW u \in Users, NEW n,
         CountWrong(u, n) \/ ClearWrong(u) \/ UNCHANGED wrong
  PROVE  wrong' \in [Users -> Nat]
<1>1. CASE CountWrong(u, n)
  <2>1. PICK b \in BOOLEAN : b = (AddFailure(users[u], n).lock = "live")
    OBVIOUS
  <2>2. wrong' = [wrong EXCEPT ![u] = IF b THEN 0
                                      ELSE IF @ < MaxWrong THEN @ + 1 ELSE @]
    BY <1>1, <2>1 DEF CountWrong
  <2> QED BY <2>2
<1>2. CASE ClearWrong(u) \/ UNCHANGED wrong
  BY <1>2 DEF ClearWrong
<1> QED BY <1>1, <1>2

\* A new number is within the bound, and so is what was made.
LEMMA MakeType ==
  ASSUME made \in [Made -> Ids], NEW m \in Made, Make(m)
  PROVE  made' \in [Made -> Ids] /\ Fresh(m) \in Ids
  BY AccountsAssumption DEF Make, Fresh, Ids

\* A thread that goes on with a request it may have.
LEMMA GoOnReq ==
  ASSUME ReqOK, NEW t \in Threads, NEW r \in Requests, req' = [req EXCEPT ![t] = r],
         r.at # "checked" => r.copy \in Row,
         r.route \notin OpenRoutes => r.by \in Cookie,
         r.route \in NotOnSelf => r.by \in Cookie /\ r.user # r.by.user
  PROVE  ReqOK'
<1>1. req' \in [Threads -> Requests]
  BY DEF ReqOK
<1>2. Held'
  BY DEF ReqOK, Held
<1> QED BY <1>1, <1>2 DEF ReqOK

LEMMA ReadInv ==
  ASSUME AccInv, NEW t \in Threads, NEW u \in Users, NEW r \in OpenRoutes, Read(t, u, r)
  PROVE  AccInv'
<1> DEFINE new == [at |-> "loaded", route |-> r, by |-> None, user |-> u, copy |-> users[u]]
<1>1. users[u] \in Row
  BY DEF AccInv, TypeOK
<1>2. new \in Requests
  BY <1>1 DEF Requests
<1>3. req' = [req EXCEPT ![t] = new] /\ new.copy \in Row /\ new.route \in OpenRoutes
  BY <1>1 DEF Read
<1>4. new.route \notin NotOnSelf
  BY DEF OpenRoutes, NotOnSelf
<1> HIDE DEF new
<1>5. ReqOK'
  BY <1>2, <1>3, <1>4, GoOnReq, Parts
<1> QED BY <1>5, Parts, QuietInv DEF Read, Quiet, OtherOK, TypeOK, history

\* login with a wrong password.
LEMMA LoginWrongInv ==
  ASSUME AccInv, NEW t \in Threads, LoginWrong(t)
  PROVE  AccInv'
<1> DEFINE u == req[t].user  n == req[t].copy.failed
<1>1. u \in Users /\ req[t].copy \in Row /\ users[u] \in Row
  BY LoadedReq, Parts DEF LoginWrong, TypeOK
<1>2. n \in Nat
  BY <1>1 DEF Row
<1>3. users' = [users EXCEPT ![u] = IF users[u].state = "live" THEN AddFailure(users[u], n)
                                                              ELSE users[u]]
  BY DEF LoginWrong
<1>4. Quiet
  <2> HIDE DEF u, n
  <2>1. /\ AddFailure(users[u], n) \in Row
        /\ AddFailure(users[u], n).role = users[u].role
        /\ AddFailure(users[u], n).state = users[u].state
    BY <1>1, <1>2, FailureRow
  <2>2. crossed' = crossed
    BY DEF LoginWrong
  <2> QED BY <1>1, <1>3, <2>1, <2>2, Parts DEF Quiet, TypeOK
<1>5. ReqOK'
  BY Parts, FinishReq DEF LoginWrong
<1>6. wrong' \in [Users -> Nat]
  BY <1>1, Parts, WrongType DEF LoginWrong, OtherOK
<1>7. OtherOK'
  BY <1>6, Parts DEF LoginWrong, OtherOK
<1> QED BY <1>4, <1>5, <1>7, QuietInv

LEMMA LoginBadFactorInv ==
  ASSUME AccInv, NEW t \in Threads, LoginBadFactor(t)
  PROVE  AccInv'
<1> DEFINE u == req[t].user
           new == [req[t] EXCEPT !.at = "failing", !.copy = users[u]]
<1>1. /\ u \in Users /\ req[t].copy \in Row /\ users[u] \in Row
      /\ req[t].route \notin NotOnSelf
  BY LoadedReq, Parts DEF LoginBadFactor, TypeOK, NotOnSelf
<1>2. req[t] \in Requests /\ req[t] # Idle
  BY Parts DEF ReqOK, LoginBadFactor, Idle
<1>3. new \in Requests /\ new.copy \in Row /\ new.route = "login"
  BY <1>1, <1>2 DEF Requests, LoginBadFactor
<1>4. ReqOK'
  <2>1. CASE users[u].state = "live"
    <3>1. req' = [req EXCEPT ![t] = new]
      BY <2>1 DEF LoginBadFactor
    <3> HIDE DEF new
    <3> QED BY <1>3, <3>1, GoOnReq, Parts DEF OpenRoutes, NotOnSelf
  <2>2. CASE users[u].state # "live"
    BY <2>2, Parts, FinishReq DEF LoginBadFactor, Finish
  <2> QED BY <2>1, <2>2
<1> QED BY <1>4, Parts, QuietInv DEF LoginBadFactor, Quiet, OtherOK, TypeOK, history

\* _record_password_failure.
LEMMA RecordFailureInv ==
  ASSUME AccInv, NEW t \in Threads, RecordFailure(t)
  PROVE  AccInv'
<1>1. req[t].user \in Users /\ req[t].copy \in Row
  BY LoadedReq, Parts DEF RecordFailure
<1>2. req[t].copy.failed \in Nat
  BY <1>1 DEF Row
<1>3. Quiet
  BY <1>1, <1>2, Parts, FailureRow, CommitQuiet DEF RecordFailure
<1>4. ReqOK'
  BY Parts, FinishReq DEF RecordFailure
<1>5. wrong' \in [Users -> Nat]
  BY <1>1, Parts, WrongType DEF RecordFailure, OtherOK
<1>6. OtherOK'
  BY <1>5, Parts DEF RecordFailure, OtherOK
<1> QED BY <1>3, <1>4, <1>6, QuietInv

\* login with the code of a mail.
LEMMA LoginCodeInv ==
  ASSUME AccInv, NEW t \in Threads, LoginCode(t)
  PROVE  AccInv'
<1> DEFINE u == req[t].user  c == req[t].copy.code
           new == [req[t] EXCEPT !.at = "verified"]
<1>1. u \in Users /\ req[t].copy \in Row /\ users[u] \in Row
  BY LoadedReq, Parts DEF LoginCode, TypeOK
<1>2. req[t] \in Requests /\ req[t] # Idle
  BY Parts DEF ReqOK, LoginCode, Idle
<1>3. new \in Requests /\ new.copy \in Row /\ new.route = "login"
  BY <1>1, <1>2 DEF Requests, LoginCode
<1>4. ReqOK'
  <2>1. req' = [req EXCEPT ![t] = new]
    BY DEF LoginCode
  <2> HIDE DEF new
  <2> QED BY <1>3, <2>1, GoOnReq, Parts DEF OpenRoutes, NotOnSelf
<1>5. Quiet
  <2>1. 0 \in Ids
    BY AccountsAssumption DEF Ids
  <2>2. /\ [users[u] EXCEPT !.code = 0] \in Row
        /\ [users[u] EXCEPT !.code = 0].role = users[u].role
        /\ [users[u] EXCEPT !.code = 0].state = users[u].state
    BY <1>1, <2>1 DEF Row
  <2>3. /\ users' = [users EXCEPT ![u] = IF users[u].state = "live"
                                         THEN [users[u] EXCEPT !.code = 0] ELSE users[u]]
        /\ crossed' = crossed
    BY DEF LoginCode
  <2> HIDE DEF u
  <2> QED BY <1>1, <2>2, <2>3, Parts DEF Quiet, TypeOK
<1>6. OtherOK'
  <2>1. c \in Ids
    BY <1>1 DEF Row
  <2> QED BY <2>1, Parts DEF LoginCode, OtherOK
<1> QED BY <1>4, <1>5, <1>6, QuietInv

\* The end of login.
LEMMA LoginOpenInv ==
  ASSUME AccInv, NEW t \in Threads, LoginOpen(t)
  PROVE  AccInv'
<1> DEFINE u == req[t].user
<1>1. u \in Users /\ users[u] \in Row
  BY LoadedReq, Parts DEF LoginOpen, TypeOK
<1>2. ReqOK'
  BY Parts, FinishReq DEF LoginOpen
<1>3. CASE users[u].state = "live"
  <2>1. /\ users' = [users EXCEPT ![u] = NoFailures(users[u])]
        /\ sessions' = sessions \cup {[user |-> u, pwd |-> users[u].pwd, pending |-> 0]}
        /\ ClearWrong(u) /\ crossed' = crossed
    BY <1>3 DEF LoginOpen
  <2>2. /\ NoFailures(users[u]) \in Row
        /\ NoFailures(users[u]).role = users[u].role
        /\ NoFailures(users[u]).state = users[u].state
    BY <1>1, FailureRow
  <2>3. Quiet
    <3> HIDE DEF u
    <3> QED BY <1>1, <2>1, <2>2, Parts DEF Quiet, TypeOK
  <2>4. [user |-> u, pwd |-> users[u].pwd, pending |-> 0] \in Cookie
    BY <1>1, AccountsAssumption DEF Cookie, Row, Ids
  <2>5. OtherOK'
    BY <1>1, <2>1, <2>4, Parts, WrongType DEF LoginOpen, OtherOK
  <2> QED BY <1>2, <2>3, <2>5, QuietInv
<1>4. CASE users[u].state # "live"
  BY <1>2, <1>4, Parts, QuietInv DEF LoginOpen, Quiet, OtherOK, TypeOK
<1> QED BY <1>3, <1>4

\* A new code by mail, at the login or in the settings.
LEMMA NewCodeInv ==
  ASSUME AccInv, NEW t \in Threads, StartLoginCode(t) \/ StartCode(t)
  PROVE  AccInv'
<1> DEFINE new == [req[t].copy EXCEPT !.code = Fresh("code")]
<1>1. req[t].user \in Users /\ req[t].copy \in Row
  BY LoadedReq, Parts DEF StartLoginCode, StartCode, At
<1>2. made' \in [Made -> Ids] /\ Fresh("code") \in Ids
  BY Parts, MakeType DEF StartLoginCode, StartCode, OtherOK, Made
<1>3. new \in Row /\ new.role = req[t].copy.role /\ new.state = req[t].copy.state
  BY <1>1, <1>2 DEF Row
<1>4. Commit(t, new) /\ crossed' = crossed
  BY DEF StartLoginCode, StartCode, history
<1>5. Quiet
  <2> HIDE DEF new
  <2> QED BY <1>1, <1>3, <1>4, Parts, CommitQuiet
<1>6. ReqOK'
  BY Parts, FinishReq DEF StartLoginCode, StartCode
<1>7. OtherOK'
  BY <1>2, Parts DEF StartLoginCode, StartCode, OtherOK, history
<1> QED BY <1>5, <1>6, <1>7, QuietInv

\* load_user clears a session.
LEMMA SessionDroppedInv ==
  ASSUME AccInv, NEW c, SessionDropped(c)
  PROVE  AccInv'
<1>1. ReqOK'
  BY Parts DEF SessionDropped, ReqOK, Held
<1> QED BY <1>1, Parts, QuietInv DEF SessionDropped, Quiet, OtherOK, TypeOK, history

\* A request enters with a valid cookie.
LEMMA EnterInv ==
  ASSUME AccInv, NEW t \in Threads, NEW c \in sessions, NEW r \in OwnRoutes \cup AdminRoutes,
         NEW u \in Users, Enter(t, c, r, u)
  PROVE  AccInv'
<1> DEFINE new == [at |-> "checked", route |-> r, by |-> c, user |-> u, copy |-> None]
<1>1. c \in Cookie
  BY Parts DEF OtherOK
<1>2. new \in Requests /\ new.at = "checked" /\ new.by = c /\ new.user = u /\ new.route = r
  BY <1>1 DEF Requests
<1>3. req' = [req EXCEPT ![t] = new] /\ (r \in NotOnSelf => u # c.user)
  BY DEF Enter
<1> HIDE DEF new
<1>4. ReqOK'
  BY <1>1, <1>2, <1>3, GoOnReq, Parts
<1> QED BY <1>4, Parts, QuietInv DEF Enter, Quiet, OtherOK, TypeOK, history

\* The handler reads the row.
LEMMA LoadInv ==
  ASSUME AccInv, NEW t \in Threads, Load(t)
  PROVE  AccInv'
<1> DEFINE u == req[t].user
           new == [req[t] EXCEPT !.at = "loaded", !.copy = users[u]]
<1>1. req[t] # Idle /\ req[t] \in Requests /\ req[t].at = "checked"
  BY Parts DEF Load, Idle, ReqOK
<1>2. u \in Users /\ users[u] \in Row
  BY <1>1, Parts DEF Requests, TypeOK
<1>3. /\ new \in Requests /\ new.copy \in Row /\ new.route = req[t].route
      /\ new.by = req[t].by /\ new.user = req[t].user
  BY <1>1, <1>2 DEF Requests
<1>4. /\ req[t].route \notin OpenRoutes => req[t].by \in Cookie
      /\ req[t].route \in NotOnSelf => req[t].by \in Cookie /\ req[t].user # req[t].by.user
  BY <1>1, Parts DEF ReqOK, Held
<1>5. req' = [req EXCEPT ![t] = new] \/ Finish(t)
  BY DEF Load, Finish
<1>6. ReqOK'
  <2> HIDE DEF new
  <2> QED BY <1>3, <1>4, <1>5, GoOnReq, FinishReq, Parts
<1> QED BY <1>6, Parts, QuietInv DEF Load, Quiet, OtherOK, TypeOK, history

\* A handler that changes no row.
LEMMA NoRowInv ==
  ASSUME AccInv, NEW t \in Threads, Refuse(t) \/ EnableTotp(t) \/ Logout(t)
  PROVE  AccInv'
<1>1. ReqOK'
  BY Parts, FinishReq DEF Refuse, EnableTotp, Logout
<1>2. Quiet
  BY Parts DEF Refuse, EnableTotp, Logout, Quiet, TypeOK, history
<1>3. OtherOK'
  <2>1. CASE EnableTotp(t)
    <3>1. req[t].by \in Cookie
      BY <2>1, LoadedReq, Parts DEF EnableTotp, At, OpenRoutes
    <3>2. made' \in [Made -> Ids] /\ Fresh("secret") \in Ids
      BY <2>1, Parts, MakeType DEF EnableTotp, OtherOK, Made
    <3>3. [req[t].by EXCEPT !.pending = Fresh("secret")] \in Cookie
      BY <3>1, <3>2 DEF Cookie
    <3> QED BY <2>1, <3>2, <3>3, Parts DEF EnableTotp, OtherOK, history
  <2>2. CASE Refuse(t) \/ Logout(t)
    BY <2>2, Parts DEF Refuse, Logout, OtherOK, history
  <2> QED BY <2>1, <2>2
<1> QED BY <1>1, <1>2, <1>3, QuietInv

\* The second factor is set up or switched off.
LEMMA TotpInv ==
  ASSUME AccInv, NEW t \in Threads, VerifyNewTotp(t) \/ DisableTotp(t)
  PROVE  AccInv'
<1>1. /\ req[t].user \in Users /\ req[t].copy \in Row /\ req[t].by \in Cookie
  BY LoadedReq, Parts DEF VerifyNewTotp, DisableTotp, At, OpenRoutes
<1>2. 0 \in Ids /\ req[t].by.pending \in Ids
  BY <1>1, AccountsAssumption DEF Cookie, Ids
<1>3. PICK new \in Row : /\ new.role = req[t].copy.role /\ new.state = req[t].copy.state
                         /\ Commit(t, new)
  <2>1. CASE VerifyNewTotp(t)
    <3> DEFINE new == [req[t].copy EXCEPT !.totp = TRUE, !.secret = req[t].by.pending]
    <3>1. new \in Row /\ new.role = req[t].copy.role /\ new.state = req[t].copy.state
      BY <1>1, <1>2 DEF Row
    <3>2. Commit(t, new)
      BY <2>1 DEF VerifyNewTotp
    <3> QED BY <3>1, <3>2
  <2>2. CASE DisableTotp(t)
    <3> DEFINE new == [req[t].copy EXCEPT !.totp = FALSE, !.secret = 0]
    <3>1. new \in Row /\ new.role = req[t].copy.role /\ new.state = req[t].copy.state
      BY <1>1, <1>2 DEF Row
    <3>2. Commit(t, new)
      BY <2>2 DEF DisableTotp
    <3> QED BY <3>1, <3>2
  <2> QED BY <2>1, <2>2
<1>4. Quiet
  <2>1. crossed' = crossed
    BY DEF VerifyNewTotp, DisableTotp, history
  <2> QED BY <1>1, <1>3, <2>1, Parts, CommitQuiet
<1>5. ReqOK'
  BY Parts, FinishReq DEF VerifyNewTotp, DisableTotp
<1>6. OtherOK'
  <2>1. [req[t].by EXCEPT !.pending = 0] \in Cookie
    BY <1>1, <1>2 DEF Cookie
  <2> QED BY <1>1, <2>1, Parts DEF VerifyNewTotp, DisableTotp, OtherOK, history
<1> QED BY <1>4, <1>5, <1>6, QuietInv

LEMMA ChangePasswordInv ==
  ASSUME AccInv, NEW t \in Threads, ChangePassword(t)
  PROVE  AccInv'
<1> DEFINE new == [req[t].copy EXCEPT !.pwd = Fresh("pwd")]
<1>1. req[t].user \in Users /\ req[t].copy \in Row
  BY LoadedReq, Parts DEF ChangePassword, At
<1>2. made' \in [Made -> Ids] /\ Fresh("pwd") \in Ids
  BY Parts, MakeType DEF ChangePassword, OtherOK, Made
<1>3. new \in Row /\ new.role = req[t].copy.role /\ new.state = req[t].copy.state
  BY <1>1, <1>2 DEF Row
<1>4. Commit(t, new) /\ crossed' = crossed
  BY DEF ChangePassword, history
<1>5. Quiet
  <2> HIDE DEF new
  <2> QED BY <1>1, <1>3, <1>4, Parts, CommitQuiet
<1>6. ReqOK'
  BY Parts, FinishReq DEF ChangePassword
<1>7. OtherOK'
  BY <1>2, Parts DEF ChangePassword, OtherOK, history
<1> QED BY <1>5, <1>6, <1>7, QuietInv

\* verify_email_otp and disable_email_otp.
LEMMA ConfirmCodeInv ==
  ASSUME AccInv, NEW t \in Threads, ConfirmCode(t)
  PROVE  AccInv'
<1> DEFINE on == req[t].route = "verify_email_otp"
           new == [req[t].copy EXCEPT !.email = on, !.code = 0]
<1>1. req[t].user \in Users /\ req[t].copy \in Row
  BY LoadedReq, Parts DEF ConfirmCode, At
<1>2. 0 \in Ids
  BY AccountsAssumption DEF Ids
<1>3. new \in Row /\ new.role = req[t].copy.role /\ new.state = req[t].copy.state
  <2>1. CASE on
    <3>1. new = [req[t].copy EXCEPT !.email = TRUE, !.code = 0]
      BY <2>1
    <3> QED BY <1>1, <1>2, <3>1 DEF Row
  <2>2. CASE ~on
    <3>1. new = [req[t].copy EXCEPT !.email = FALSE, !.code = 0]
      BY <2>2
    <3> QED BY <1>1, <1>2, <3>1 DEF Row
  <2> QED BY <2>1, <2>2
<1>4. Commit(t, new) /\ crossed' = crossed
  BY DEF ConfirmCode, history
<1>5. Quiet
  <2> HIDE DEF new
  <2> QED BY <1>1, <1>3, <1>4, Parts, CommitQuiet
<1>6. ReqOK'
  BY Parts, FinishReq DEF ConfirmCode
<1>7. OtherOK'
  BY Parts DEF ConfirmCode, OtherOK, history
<1> QED BY <1>5, <1>6, <1>7, QuietInv

LEMMA UpdateProfileInv ==
  ASSUME AccInv, NEW t \in Threads, NEW upload \in BOOLEAN, NEW name,
         UpdateProfile(t, upload, name)
  PROVE  AccInv'
<1> DEFINE copy == req[t].copy
           file == IF upload THEN Fresh("file") ELSE copy.file
           new == [copy EXCEPT !.file = file]
<1>1. req[t].user \in Users /\ copy \in Row
  BY LoadedReq, Parts DEF UpdateProfile, At
<1>2. made' \in [Made -> Ids] /\ file \in Ids
  BY <1>1, Parts, MakeType DEF UpdateProfile, OtherOK, Made, Row
<1>3. new \in Row /\ new.role = copy.role /\ new.state = copy.state
  <2> HIDE DEF file
  <2> QED BY <1>1, <1>2 DEF Row
<1>4. crossed' = crossed /\ (Commit(t, new) \/ UNCHANGED users)
  BY DEF UpdateProfile
<1>5. Quiet
  <2> HIDE DEF new
  <2>1. CASE Commit(t, new)
    BY <1>1, <1>3, <1>4, <2>1, Parts, CommitQuiet
  <2>2. CASE UNCHANGED users
    BY <1>4, <2>2, Parts DEF Quiet, TypeOK
  <2> QED BY <1>4, <2>1, <2>2
<1>6. ReqOK'
  BY Parts, FinishReq DEF UpdateProfile
<1>7. files' \subseteq Ids /\ sessions' \subseteq Cookie /\ torn' \subseteq Users
  BY <1>1, <1>2, Parts DEF UpdateProfile, OtherOK
<1>8. OtherOK'
  BY <1>2, <1>7, Parts DEF UpdateProfile, OtherOK
<1> QED BY <1>5, <1>6, <1>8, QuietInv

\* Time passes.
LEMMA ClockInv ==
  ASSUME AccInv, (\E c \in Ids : CodeExpires(c)) \/ (\E u \in Users : LockRunsOut(u))
  PROVE  AccInv'
<1>1. ReqOK'
  BY Parts DEF CodeExpires, LockRunsOut, ReqOK, Held
<1>2. Quiet
  <2>1. ASSUME NEW u \in Users, LockRunsOut(u) PROVE Quiet
    <3>1. users[u] \in Row
      BY Parts DEF TypeOK
    <3>2. /\ [users[u] EXCEPT !.lock = "past"] \in Row
          /\ [users[u] EXCEPT !.lock = "past"].role = users[u].role
          /\ [users[u] EXCEPT !.lock = "past"].state = users[u].state
      BY <3>1 DEF Row
    <3>3. users' = [users EXCEPT ![u] = [users[u] EXCEPT !.lock = "past"]] /\ crossed' = crossed
      BY <2>1 DEF LockRunsOut, history
    <3> QED BY <3>2, <3>3, Parts DEF Quiet, TypeOK
  <2>2. ASSUME NEW c \in Ids, CodeExpires(c) PROVE Quiet
    BY <2>2, Parts DEF CodeExpires, Quiet, TypeOK, history
  <2> QED BY <2>1, <2>2
<1>3. OtherOK'
  BY Parts DEF CodeExpires, LockRunsOut, OtherOK, history
<1> QED BY <1>1, <1>2, <1>3, QuietInv

-----------------------------------------------------------------------------
\* The administration of users

\* The row a route of user administration writes, and the role in it.
LEMMA AdminRow ==
  ASSUME NEW copy \in Row, NEW r \in AdminRoutes \ {"create", "delete"},
         r = "reset_password" => Fresh("pwd") \in Ids
  PROVE  /\ AdminChange(r, copy) \in Row
         /\ AdminChange(r, copy).state = copy.state
         /\ r \notin {"promote", "demote"} => AdminChange(r, copy).role = copy.role
         /\ r = "promote" => AdminChange(r, copy).role = "admin"
<1>1. /\ NoFailures(copy) \in Row
      /\ NoFailures(copy).role = copy.role /\ NoFailures(copy).state = copy.state
  BY FailureRow
<1>2. 0 \in Ids
  BY AccountsAssumption DEF Ids
<1>3. CASE r = "reset_password"
  <2>1. AdminChange(r, copy) = [NoFailures(copy) EXCEPT !.pwd = Fresh("pwd")]
    BY <1>3 DEF AdminChange
  <2> QED BY <1>1, <1>3, <2>1 DEF Row
<1>4. CASE r \in {"promote", "demote"}
  <2>1. AdminChange(r, copy) = [copy EXCEPT !.role = IF r = "promote" THEN "admin" ELSE "soc"]
    BY <1>4 DEF AdminChange
  <2> QED BY <1>4, <2>1 DEF Row
<1>5. CASE r = "reset_mfa"
  <2>1. AdminChange(r, copy) = [NoFailures(copy) EXCEPT !.totp = FALSE, !.secret = 0,
                                                        !.email = FALSE, !.code = 0]
    BY <1>5 DEF AdminChange
  <2> QED BY <1>1, <1>2, <1>5, <2>1 DEF Row
<1>6. CASE r = "lock"
  <2>1. AdminChange(r, copy) = [copy EXCEPT !.lock = "live"]
    BY <1>6 DEF AdminChange
  <2> QED BY <1>6, <2>1 DEF Row
<1>7. CASE r = "unlock"
  <2>1. AdminChange(r, copy) = NoFailures(copy)
    BY <1>7 DEF AdminChange
  <2> QED BY <1>1, <1>7, <2>1
<1> QED BY <1>3, <1>4, <1>5, <1>6, <1>7 DEF AdminRoutes

\* Another user than the one who asked, while that one is an administrator: he remains.
LEMMA ActorRemains ==
  ASSUME TypeOK, NEW t \in Threads, req[t].by \in Cookie, NEW u \in Users,
         u # req[t].by.user, crossed' = (crossed \/ ~StillAdmin(t)),
         \A v \in Users \ {u} : users'[v] = users[v]
  PROVE  AdminRemains'
<1>1. req[t].by.user \in Users
  BY DEF Cookie
<1> QED BY <1>1 DEF AdminRemains, StillAdmin

LEMMA AdminUpdateInv ==
  ASSUME AccInv, NEW t \in Threads, AdminUpdate(t)
  PROVE  AccInv'
<1> DEFINE r == req[t].route  u == req[t].user  copy == req[t].copy
           new == AdminChange(r, copy)
           row == Update(users[u], copy, new)
<1>1. /\ u \in Users /\ copy \in Row /\ req[t].by \in Cookie
      /\ r \in AdminRoutes \ {"create", "delete"} /\ users[u] \in Row
      /\ r \in NotOnSelf => u # req[t].by.user
  <2>1. r \notin OpenRoutes
    BY DEF AdminUpdate, OpenRoutes, AdminRoutes
  <2> QED BY <2>1, LoadedReq, Parts DEF AdminUpdate, TypeOK
<1>2. made' \in [Made -> Ids] /\ (r = "reset_password" => Fresh("pwd") \in Ids)
  BY Parts, MakeType DEF AdminUpdate, OtherOK, Made
<1>3. /\ new \in Row /\ new.state = copy.state
      /\ r \notin {"promote", "demote"} => new.role = copy.role
      /\ r = "promote" => new.role = "admin"
  BY <1>1, <1>2, AdminRow
<1>4. users' = [users EXCEPT ![u] = row] /\ crossed' = (crossed \/ ~StillAdmin(t))
  BY DEF AdminUpdate, Commit
<1> HIDE DEF new
<1>5. row \in Row /\ row.state = users[u].state
  BY <1>1, <1>3, UpdateRow, UpdateColumn DEF Cols
<1>6. r # "demote" /\ users[u].role = "admin" => row.role = "admin"
  <2>1. CASE r = "promote"
    <3>1. DOMAIN users[u] = Cols
      BY <1>1 DEF Row, Cols
    <3>2. "role" \in Cols
      BY DEF Cols
    <3> QED BY <1>3, <2>1, <3>1, <3>2 DEF Update
  <2>2. CASE r \notin {"promote", "demote"}
    BY <1>1, <1>3, <2>2, UpdateColumn DEF Cols
  <2> QED BY <2>1, <2>2
<1> HIDE DEF row
<1>7. users' \in [Users -> Row]
  BY <1>4, <1>5, Parts DEF TypeOK
<1>8. ReqOK'
  BY Parts, FinishReq DEF AdminUpdate
<1>9. wrong' \in [Users -> Nat]
  BY <1>1, Parts, WrongType DEF AdminUpdate, OtherOK
<1>10. OtherOK'
  BY <1>2, <1>9, Parts DEF AdminUpdate, OtherOK
<1>11. AdminRemains'
  <2>1. CASE r = "demote"
    BY <1>1, <1>4, <2>1, Parts, ActorRemains DEF NotOnSelf, TypeOK
  <2>2. CASE r # "demote"
    <3>1. CASE crossed
      BY <1>4, <3>1 DEF AdminRemains
    <3>2. CASE ~crossed
      <4>1. PICK a \in Users : users[a].state = "live" /\ users[a].role = "admin"
        BY <3>2, Parts DEF AdminRemains
      <4>2. users'[a].state = "live" /\ users'[a].role = "admin"
        BY <1>4, <1>5, <1>6, <2>2, <4>1, Parts DEF TypeOK
      <4> QED BY <4>2 DEF AdminRemains
    <3> QED BY <3>1, <3>2
  <2> QED BY <2>1, <2>2
<1>12. TypeOK'
  BY <1>7, <1>8, <1>10 DEF TypeOK, ReqOK, OtherOK
<1> QED BY <1>8, <1>11, <1>12 DEF AccInv, ReqOK

\* A user is created: no row of another is touched, and none that was there.
LEMMA AdminCreateInv ==
  ASSUME AccInv, NEW t \in Threads, NEW role \in {"admin", "soc"}, AdminCreate(t, role)
  PROVE  AccInv'
<1> DEFINE u == req[t].user
           row == [users[u] EXCEPT !.state = "live", !.role = role]
<1>1. u \in Users /\ users[u] \in Row
  BY LoadedReq, Parts DEF AdminCreate, At, TypeOK
<1>2. row \in Row
  BY <1>1 DEF Row
<1>3. /\ users' = [users EXCEPT ![u] = IF users[u].state = "none" THEN row ELSE users[u]]
      /\ crossed' = (crossed \/ ~StillAdmin(t))
  BY DEF AdminCreate
<1> HIDE DEF row, u
<1>4. users' \in [Users -> Row]
  BY <1>1, <1>2, <1>3, Parts DEF TypeOK
<1>5. ReqOK'
  BY Parts, FinishReq DEF AdminCreate
<1>6. OtherOK'
  BY Parts DEF AdminCreate, OtherOK
<1>7. AdminRemains'
  <2>1. CASE crossed
    BY <1>3, <2>1 DEF AdminRemains
  <2>2. CASE ~crossed
    <3>1. PICK a \in Users : users[a].state = "live" /\ users[a].role = "admin"
      BY <2>2, Parts DEF AdminRemains
    <3>2. users'[a] = users[a]
      BY <1>1, <1>3, <3>1, Parts DEF TypeOK
    <3> QED BY <3>1, <3>2 DEF AdminRemains
  <2> QED BY <2>1, <2>2
<1>8. TypeOK'
  BY <1>4, <1>5, <1>6 DEF TypeOK, ReqOK, OtherOK
<1> QED BY <1>5, <1>7, <1>8 DEF AccInv, ReqOK

LEMMA AdminDeleteInv ==
  ASSUME AccInv, NEW t \in Threads, AdminDelete(t)
  PROVE  AccInv'
<1> DEFINE u == req[t].user
           row == [users[u] EXCEPT !.state = "deleted"]
<1>1. u \in Users /\ users[u] \in Row /\ req[t].by \in Cookie /\ u # req[t].by.user
  BY LoadedReq, Parts DEF AdminDelete, At, TypeOK, NotOnSelf, OpenRoutes
<1>2. row \in Row
  BY <1>1 DEF Row
<1>3. users' = [users EXCEPT ![u] = row] /\ crossed' = (crossed \/ ~StillAdmin(t))
  BY DEF AdminDelete
<1> HIDE DEF row
<1>4. users' \in [Users -> Row]
  BY <1>2, <1>3, Parts DEF TypeOK
<1>5. ReqOK'
  BY Parts, FinishReq DEF AdminDelete
<1>6. OtherOK'
  BY Parts DEF AdminDelete, OtherOK
<1>7. AdminRemains'
  BY <1>1, <1>3, Parts, ActorRemains DEF TypeOK
<1>8. TypeOK'
  BY <1>4, <1>5, <1>6 DEF TypeOK, ReqOK, OtherOK
<1> QED BY <1>5, <1>7, <1>8 DEF AccInv, ReqOK

-----------------------------------------------------------------------------
\* The specification

LEMMA AccInit == Init => AccInv
<1> SUFFICES ASSUME Init PROVE AccInv
  OBVIOUS
<1>1. PICK d \in Deployments :
        routes = d.routes /\ users = d.users /\ made = d.made /\ sessions = d.sessions
  BY DEF Init
<1>2. /\ req = [t \in Threads |-> Idle] /\ expired = {} /\ files = {}
      /\ wrong = [u \in Users |-> 0] /\ uses = [c \in Ids |-> 0]
      /\ crossed = FALSE /\ torn = {} /\ skewed = {}
  BY DEF Init
<1>3. TypeOK
  BY <1>1, <1>2, DeploymentsAssumption DEF TypeOK, Requests
<1>4. Held
  BY <1>2 DEF Held
<1>5. AdminRemains
  BY <1>1, DeploymentsAssumption DEF AdminRemains
<1> QED BY <1>3, <1>4, <1>5 DEF AccInv

LEMMA AccNext == AccInv /\ [Next]_vars => AccInv'
<1> SUFFICES ASSUME AccInv, [Next]_vars PROVE AccInv'
  OBVIOUS
<1>1. ASSUME NEW t \in Threads, OpenStep(t) PROVE AccInv'
  BY <1>1, ReadInv, LoginWrongInv, LoginBadFactorInv, RecordFailureInv, LoginCodeInv,
     LoginOpenInv, NewCodeInv DEF OpenStep
<1>2. ASSUME NEW t \in Threads, OwnStep(t) PROVE AccInv'
  BY <1>2, EnterInv, LoadInv, NoRowInv, TotpInv, ChangePasswordInv, NewCodeInv,
     ConfirmCodeInv, UpdateProfileInv DEF OwnStep
<1>3. ASSUME NEW t \in Threads, AdminStep(t) PROVE AccInv'
  BY <1>3, AdminUpdateInv, AdminDeleteInv, AdminCreateInv DEF AdminStep
<1>4. CASE \E c \in sessions : SessionDropped(c)
  BY <1>4, SessionDroppedInv
<1>5. CASE (\E c \in Ids : CodeExpires(c)) \/ (\E u \in Users : LockRunsOut(u))
  BY <1>5, ClockInv
<1>6. CASE UNCHANGED vars
  BY <1>6 DEF vars, history, AccInv, TypeOK, Held, AdminRemains
<1> QED BY <1>1, <1>2, <1>3, <1>4, <1>5, <1>6 DEF Next

LEMMA AccInvariant == Spec => []AccInv
<1>1. Init => AccInv
  BY AccInit
<1>2. AccInv /\ [Next]_vars => AccInv'
  BY AccNext
<1> QED BY <1>1, <1>2, PTL DEF Spec

\* Every row, cookie and request has its type.
THEOREM TypeCorrect == Spec => []TypeOK
<1>1. AccInv => TypeOK
  BY DEF AccInv
<1> QED BY <1>1, AccInvariant, PTL

\* admin_set_role and admin_delete_user refuse to act on the own account: whatever
\* requests run at the same time, an administrator remains as long as every change was
\* made by one who was still an administrator.
THEOREM AnAdminRemains == Spec => []AdminRemains
<1>1. AccInv => AdminRemains
  BY DEF AccInv
<1> QED BY <1>1, AccInvariant, PTL

-----------------------------------------------------------------------------
\* The avatars

Holds(t) == req[t].at \in {"loaded", "failing", "verified"}

\* Numbers of files are those made so far, and no two users refer to the same file, neither
\* in their rows nor in a copy some request still holds.
FileInv ==
  /\ \A u \in Users : /\ users[u].file \in 0 .. made["file"]
                      /\ users[u].state = "none" => users[u].file = 0
  /\ \A u, v \in Users : u # v /\ users[u].file = users[v].file => users[u].file = 0
  /\ \A t \in Threads : Holds(t) =>
       /\ req[t].copy.file \in 0 .. made["file"]
       /\ \A v \in Users : v # req[t].user /\ req[t].copy.file = users[v].file
                             => users[v].file = 0

\* A step that neither changes an avatar nor brings a deleted row back, and after which a
\* thread holds the copy it held, or one of a row as it is.
Still ==
  /\ \A u \in Users : /\ users'[u].file = users[u].file
                      /\ users[u].state = "deleted" => users'[u].state = "deleted"
                      /\ users'[u].state = "none" => users[u].state = "none"
  /\ UNCHANGED <<files, torn>>
  /\ made'["file"] >= made["file"]
  /\ \A t \in Threads : Holds(t)' =>
       \/ Holds(t) /\ req'[t].copy = req[t].copy /\ req'[t].user = req[t].user
       \/ req'[t].copy = users[req'[t].user]

AvatarInv == FileInv /\ AvatarKept

LEMMA MadeNat == AccInv => made["file"] \in Nat
  BY AccountsAssumption DEF AccInv, TypeOK, Made, Ids

LEMMA StillInv ==
  ASSUME AccInv, AccInv', AvatarInv, Still
  PROVE  AvatarInv'
<1>1. made["file"] \in Nat /\ made'["file"] \in Nat /\ made'["file"] >= made["file"]
  BY MadeNat, AccountsAssumption DEF Still, AccInv, TypeOK, Made, Ids
<1>2. \A u \in Users : users[u] \in Row /\ users'[u] \in Row
  BY DEF AccInv, TypeOK
<1>3. \A u \in Users : /\ users'[u].file \in 0 .. made'["file"]
                       /\ users'[u].state = "none" => users'[u].file = 0
  BY <1>1 DEF AvatarInv, FileInv, Still
<1>4. \A u, v \in Users : u # v /\ users'[u].file = users'[v].file => users'[u].file = 0
  BY DEF AvatarInv, FileInv, Still
<1>5. ASSUME NEW t \in Threads, Holds(t)'
      PROVE  /\ req'[t].copy.file \in 0 .. made'["file"]
             /\ \A v \in Users : v # req'[t].user /\ req'[t].copy.file = users'[v].file
                                   => users'[v].file = 0
  <2>1. CASE Holds(t) /\ req'[t].copy = req[t].copy /\ req'[t].user = req[t].user
    BY <1>1, <2>1 DEF AvatarInv, FileInv, Still
  <2>2. CASE req'[t].copy = users[req'[t].user]
    <3>1. req'[t].user \in Users
      <4>1. ReqOK'
        BY DEF AccInv, TypeOK, ReqOK
      <4>2. req'[t] \in Requests /\ req'[t] # Idle
        BY <1>5, <4>1 DEF ReqOK, Holds, Idle
      <4> QED BY <4>2 DEF Requests
    <3> QED BY <1>1, <2>2, <3>1 DEF AvatarInv, FileInv, Still
  <2> QED BY <1>5, <2>1, <2>2 DEF Still
<1>6. FileInv'
  BY <1>3, <1>4, <1>5 DEF FileInv
<1>7. AvatarKept'
  <2> SUFFICES ASSUME NEW u \in Users, users'[u].state = "live"
               PROVE  users'[u].file \in files' \cup {0} \/ u \in torn'
    BY DEF AvatarKept
  <2>1. users[u].state \in {"none", "live"}
    BY <1>2 DEF Still, Row
  <2> QED BY <2>1 DEF AvatarInv, FileInv, AvatarKept, Still
<1> QED BY <1>6, <1>7 DEF AvatarInv

\* A commit that leaves the column of the avatar alone, and the state of the row.
LEMMA CommitStill ==
  ASSUME TypeOK, NEW t \in Threads, req[t].user \in Users, req[t].copy \in Row,
         NEW new \in Row, new.file = req[t].copy.file, new.state = req[t].copy.state,
         Commit(t, new)
  PROVE  \A u \in Users : users'[u].file = users[u].file /\ users'[u].state = users[u].state
<1> DEFINE u == req[t].user
           row == Update(users[u], req[t].copy, new)
<1>1. users \in [Users -> Row] /\ users[u] \in Row
  BY DEF TypeOK
<1>2. row.file = users[u].file /\ row.state = users[u].state
  BY <1>1, UpdateColumn DEF Cols
<1>3. users' = [users EXCEPT ![u] = row]
  BY DEF Commit
<1> HIDE DEF row
<1> QED BY <1>1, <1>2, <1>3

\* A thread that ends its request holds nothing, and the others what they held.
LEMMA FinishHolds ==
  ASSUME ReqOK, NEW t \in Threads, Finish(t)
  PROVE  \A s \in Threads : Holds(s)' => Holds(s) /\ req'[s] = req[s]
  BY DEF ReqOK, Finish, Holds, Idle

\* What a step makes of the numbers.
LEMMA MakeGrows ==
  ASSUME AccInv, NEW m \in Made, Make(m) \/ UNCHANGED made
  PROVE  made'["file"] >= made["file"]
<1>1. made["file"] \in Nat
  BY MadeNat
<1>2. CASE Make(m)
  <2>1. made' = [made EXCEPT ![m] = made[m] + 1] /\ made \in [Made -> Ids]
    BY <1>2 DEF Make, AccInv, TypeOK
  <2>2. made'["file"] = made["file"] \/ made'["file"] = made["file"] + 1
    BY <2>1 DEF Made
  <2> QED BY <1>1, <2>2
<1>3. CASE UNCHANGED made
  BY <1>1, <1>3
<1> QED BY <1>2, <1>3

\* Counting or clearing failures leaves the avatar alone.
LEMMA FailureFile ==
  ASSUME NEW copy \in Row, NEW n \in Nat
  PROVE  AddFailure(copy, n).file = copy.file /\ NoFailures(copy).file = copy.file
  BY DEF AddFailure, NoFailures, Row

LEMMA OpenStill ==
  ASSUME AccInv, NEW t \in Threads, OpenStep(t)
  PROVE  Still
<1>1. CASE \E u \in Users, r \in OpenRoutes : Read(t, u, r)
  <2>1. PICK u \in Users, r \in OpenRoutes : Read(t, u, r)
    BY <1>1
  <2>2. req' = [req EXCEPT ![t] = [at |-> "loaded", route |-> r, by |-> None,
                                   user |-> u, copy |-> users[u]]]
        /\ UNCHANGED <<users, made, files, torn>>
    BY <2>1 DEF Read, history
  <2>3. \A s \in Threads : Holds(s)' =>
          \/ Holds(s) /\ req'[s] = req[s]
          \/ req'[s].copy = users[req'[s].user]
    BY <2>2, Parts DEF Holds, ReqOK
  <2> QED BY <2>2, <2>3, MadeNat DEF Still
<1>2. CASE LoginWrong(t)
  <2> DEFINE u == req[t].user  n == req[t].copy.failed
  <2>1. u \in Users /\ req[t].copy \in Row /\ users[u] \in Row /\ n \in Nat
    <3>1. u \in Users /\ req[t].copy \in Row /\ users[u] \in Row
      BY <1>2, LoadedReq, Parts DEF LoginWrong, TypeOK
    <3> QED BY <3>1 DEF Row
  <2>2. /\ users' = [users EXCEPT ![u] = IF users[u].state = "live"
                                         THEN AddFailure(users[u], n) ELSE users[u]]
        /\ Finish(t) /\ UNCHANGED <<made, files, torn>>
    BY <1>2 DEF LoginWrong
  <2> HIDE DEF u, n
  <2>3. /\ AddFailure(users[u], n).file = users[u].file
        /\ AddFailure(users[u], n).state = users[u].state
    BY <2>1, FailureRow, FailureFile
  <2> QED BY <2>1, <2>2, <2>3, Parts, MadeNat, FinishHolds DEF Still, TypeOK
<1>3. CASE LoginBadFactor(t)
  <2>1. req[t] \in Requests /\ req[t] # Idle
    BY <1>3, Parts DEF ReqOK, LoginBadFactor, Idle
  <2>2. /\ \/ req' = [req EXCEPT ![t] = [req[t] EXCEPT !.at = "failing",
                                                       !.copy = users[req[t].user]]]
           \/ Finish(t)
        /\ UNCHANGED <<users, made, files, torn>>
    BY <1>3 DEF LoginBadFactor, Finish, history
  <2>3. ASSUME NEW s \in Threads, Holds(s)'
        PROVE  \/ Holds(s) /\ req'[s] = req[s]
               \/ req'[s].copy = users[req'[s].user]
    <3> DEFINE new == [req[t] EXCEPT !.at = "failing", !.copy = users[req[t].user]]
    <3>1. CASE Finish(t)
      BY <2>3, <3>1, Parts, FinishHolds
    <3>2. CASE req' = [req EXCEPT ![t] = new]
      <4>1. new.copy = users[req[t].user] /\ new.user = req[t].user
        BY <2>1 DEF Requests, Idle
      <4> HIDE DEF new
      <4>2. req \in [Threads -> Requests]
        BY Parts DEF ReqOK
      <4>3. CASE s = t
        BY <3>2, <4>1, <4>2, <4>3
      <4>4. CASE s # t
        BY <2>3, <3>2, <4>2, <4>4 DEF Holds
      <4> QED BY <4>3, <4>4
    <3> QED BY <2>2, <3>1, <3>2
  <2> QED BY <2>2, <2>3, MadeNat DEF Still
<1>4. CASE RecordFailure(t)
  <2> DEFINE copy == req[t].copy  new == AddFailure(copy, copy.failed)
  <2>1. req[t].user \in Users /\ copy \in Row
    BY <1>4, LoadedReq, Parts DEF RecordFailure
  <2>2. copy.failed \in Nat
    BY <2>1 DEF Row
  <2>3. new \in Row /\ new.file = copy.file /\ new.state = copy.state
    BY <2>1, <2>2, FailureRow, FailureFile
  <2>4. Commit(t, new) /\ Finish(t) /\ UNCHANGED <<made, files, torn>>
    BY <1>4 DEF RecordFailure
  <2> HIDE DEF new
  <2>5. \A u \in Users : users'[u].file = users[u].file /\ users'[u].state = users[u].state
    BY <2>1, <2>3, <2>4, Parts, CommitStill
  <2> QED BY <2>4, <2>5, Parts, MadeNat, FinishHolds DEF Still
<1>5. CASE LoginCode(t)
  <2> DEFINE u == req[t].user
  <2>1. /\ u \in Users /\ users[u] \in Row /\ req[t] \in Requests /\ req[t] # Idle
    BY <1>5, LoadedReq, Parts DEF LoginCode, TypeOK, ReqOK
  <2>2. /\ users' = [users EXCEPT ![u] = IF users[u].state = "live"
                                         THEN [users[u] EXCEPT !.code = 0] ELSE users[u]]
        /\ req' = [req EXCEPT ![t] = [req[t] EXCEPT !.at = "verified"]]
        /\ req[t].at = "loaded" /\ UNCHANGED <<made, files, torn>>
    BY <1>5 DEF LoginCode
  <2>3. /\ [users[u] EXCEPT !.code = 0].file = users[u].file
        /\ [users[u] EXCEPT !.code = 0].state = users[u].state
    BY <2>1 DEF Row
  <2>4. \A s \in Threads : Holds(s)' =>
          Holds(s) /\ req'[s].copy = req[s].copy /\ req'[s].user = req[s].user
    BY <2>1, <2>2, Parts DEF Holds, ReqOK, Requests
  <2> HIDE DEF u
  <2> QED BY <2>1, <2>2, <2>3, <2>4, Parts, MadeNat DEF Still, TypeOK
<1>6. CASE LoginOpen(t)
  <2> DEFINE u == req[t].user
  <2>1. u \in Users /\ users[u] \in Row
    BY <1>6, LoadedReq, Parts DEF LoginOpen, TypeOK
  <2>2. /\ users' = [users EXCEPT ![u] = NoFailures(users[u])] \/ UNCHANGED users
        /\ Finish(t) /\ UNCHANGED <<made, files, torn>>
    BY <1>6 DEF LoginOpen
  <2>3. /\ NoFailures(users[u]).file = users[u].file
        /\ NoFailures(users[u]).state = users[u].state
    BY <2>1, FailureRow, FailureFile
  <2> HIDE DEF u
  <2> QED BY <2>1, <2>2, <2>3, Parts, MadeNat, FinishHolds DEF Still, TypeOK
<1>7. CASE StartLoginCode(t)
  <2> DEFINE new == [req[t].copy EXCEPT !.code = Fresh("code")]
  <2>1. req[t].user \in Users /\ req[t].copy \in Row
    BY <1>7, LoadedReq, Parts DEF StartLoginCode
  <2>2. Fresh("code") \in Ids /\ made'["file"] >= made["file"]
    BY <1>7, Parts, MakeType, MakeGrows DEF StartLoginCode, OtherOK, Made
  <2>3. new \in Row /\ new.file = req[t].copy.file /\ new.state = req[t].copy.state
    BY <2>1, <2>2 DEF Row
  <2>4. Commit(t, new) /\ Finish(t) /\ UNCHANGED <<files, torn>>
    BY <1>7 DEF StartLoginCode, history
  <2> HIDE DEF new
  <2>5. \A u \in Users : users'[u].file = users[u].file /\ users'[u].state = users[u].state
    BY <2>1, <2>3, <2>4, Parts, CommitStill
  <2> QED BY <2>2, <2>4, <2>5, Parts, FinishHolds DEF Still
<1> QED BY <1>1, <1>2, <1>3, <1>4, <1>5, <1>6, <1>7 DEF OpenStep

\* The routes of a user, but for his profile.
LEMMA OwnStill ==
  ASSUME AccInv, NEW t \in Threads, OwnStep(t),
         ~\E upload \in BOOLEAN, name \in {"same", "new", "taken"} : UpdateProfile(t, upload, name)
  PROVE  Still
<1>1. CASE \E c \in sessions, r \in OwnRoutes \cup AdminRoutes, u \in Users : Enter(t, c, r, u)
  <2>1. PICK c \in sessions, r \in OwnRoutes \cup AdminRoutes, u \in Users : Enter(t, c, r, u)
    BY <1>1
  <2>2. req' = [req EXCEPT ![t] = [at |-> "checked", route |-> r, by |-> c,
                                   user |-> u, copy |-> None]]
        /\ UNCHANGED <<users, made, files, torn>>
    BY <2>1 DEF Enter, history
  <2>3. \A s \in Threads : Holds(s)' => Holds(s) /\ req'[s] = req[s]
    BY <2>2, Parts DEF Holds, ReqOK
  <2> QED BY <2>2, <2>3, MadeNat DEF Still
<1>2. CASE Load(t)
  <2>1. req[t] # Idle /\ req[t] \in Requests
    BY <1>2, Parts DEF Load, Idle, ReqOK
  <2>2. /\ \/ req' = [req EXCEPT ![t] = [req[t] EXCEPT !.at = "loaded",
                                                       !.copy = users[req[t].user]]]
           \/ Finish(t)
        /\ UNCHANGED <<users, made, files, torn>>
    BY <1>2 DEF Load, Finish, history
  <2>3. ASSUME NEW s \in Threads, Holds(s)'
        PROVE  \/ Holds(s) /\ req'[s] = req[s]
               \/ req'[s].copy = users[req'[s].user]
    <3> DEFINE new == [req[t] EXCEPT !.at = "loaded", !.copy = users[req[t].user]]
    <3>1. CASE Finish(t)
      BY <2>3, <3>1, Parts, FinishHolds
    <3>2. CASE req' = [req EXCEPT ![t] = new]
      <4>1. new.copy = users[req[t].user] /\ new.user = req[t].user
        BY <2>1 DEF Requests, Idle
      <4> HIDE DEF new
      <4>2. req \in [Threads -> Requests]
        BY Parts DEF ReqOK
      <4>3. CASE s = t
        BY <3>2, <4>1, <4>2, <4>3
      <4>4. CASE s # t
        BY <2>3, <3>2, <4>2, <4>4 DEF Holds
      <4> QED BY <4>3, <4>4
    <3> QED BY <2>2, <3>1, <3>2
  <2> QED BY <2>2, <2>3, MadeNat DEF Still
<1>3. CASE Refuse(t) \/ EnableTotp(t) \/ Logout(t)
  <2>1. made'["file"] >= made["file"]
    BY <1>3, MakeGrows DEF Refuse, EnableTotp, Logout, Made
  <2> QED BY <1>3, <2>1, Parts, FinishHolds DEF Refuse, EnableTotp, Logout, Still, history
<1>4. CASE VerifyNewTotp(t) \/ DisableTotp(t) \/ ChangePassword(t) \/ StartCode(t) \/ ConfirmCode(t)
  <2>1. req[t].user \in Users /\ req[t].copy \in Row
    BY <1>4, LoadedReq, Parts
    DEF VerifyNewTotp, DisableTotp, ChangePassword, StartCode, ConfirmCode, At
  <2>2. 0 \in Ids
    BY AccountsAssumption DEF Ids
  <2>3. PICK new \in Row : /\ new.file = req[t].copy.file /\ new.state = req[t].copy.state
                           /\ Commit(t, new)
    <3>1. CASE VerifyNewTotp(t)
      <4> DEFINE new == [req[t].copy EXCEPT !.totp = TRUE, !.secret = req[t].by.pending]
      <4>1. req[t].by \in Cookie
        BY <3>1, LoadedReq, Parts DEF VerifyNewTotp, At, OpenRoutes
      <4>2. new \in Row /\ new.file = req[t].copy.file /\ new.state = req[t].copy.state
        BY <2>1, <4>1 DEF Row, Cookie
      <4>3. Commit(t, new)
        BY <3>1 DEF VerifyNewTotp
      <4> QED BY <4>2, <4>3
    <3>2. CASE DisableTotp(t)
      <4> DEFINE new == [req[t].copy EXCEPT !.totp = FALSE, !.secret = 0]
      <4>1. new \in Row /\ new.file = req[t].copy.file /\ new.state = req[t].copy.state
        BY <2>1, <2>2 DEF Row
      <4>2. Commit(t, new)
        BY <3>2 DEF DisableTotp
      <4> QED BY <4>1, <4>2
    <3>3. CASE ChangePassword(t)
      <4> DEFINE new == [req[t].copy EXCEPT !.pwd = Fresh("pwd")]
      <4>1. Fresh("pwd") \in Ids
        BY <3>3, Parts, MakeType DEF ChangePassword, OtherOK, Made
      <4>2. new \in Row /\ new.file = req[t].copy.file /\ new.state = req[t].copy.state
        BY <2>1, <4>1 DEF Row
      <4>3. Commit(t, new)
        BY <3>3 DEF ChangePassword
      <4> QED BY <4>2, <4>3
    <3>4. CASE StartCode(t)
      <4> DEFINE new == [req[t].copy EXCEPT !.code = Fresh("code")]
      <4>1. Fresh("code") \in Ids
        BY <3>4, Parts, MakeType DEF StartCode, OtherOK, Made
      <4>2. new \in Row /\ new.file = req[t].copy.file /\ new.state = req[t].copy.state
        BY <2>1, <4>1 DEF Row
      <4>3. Commit(t, new)
        BY <3>4 DEF StartCode
      <4> QED BY <4>2, <4>3
    <3>5. CASE ConfirmCode(t)
      <4> DEFINE on == req[t].route = "verify_email_otp"
                 new == [req[t].copy EXCEPT !.email = on, !.code = 0]
      <4>1. new \in Row /\ new.file = req[t].copy.file /\ new.state = req[t].copy.state
        <5>1. CASE on
          <6>1. new = [req[t].copy EXCEPT !.email = TRUE, !.code = 0]
            BY <5>1
          <6> QED BY <2>1, <2>2, <6>1 DEF Row
        <5>2. CASE ~on
          <6>1. new = [req[t].copy EXCEPT !.email = FALSE, !.code = 0]
            BY <5>2
          <6> QED BY <2>1, <2>2, <6>1 DEF Row
        <5> QED BY <5>1, <5>2
      <4>2. Commit(t, new)
        BY <3>5 DEF ConfirmCode
      <4> QED BY <4>1, <4>2
    <3> QED BY <1>4, <3>1, <3>2, <3>3, <3>4, <3>5
  <2>4. Finish(t) /\ UNCHANGED <<files, torn>>
    BY <1>4 DEF VerifyNewTotp, DisableTotp, ChangePassword, StartCode, ConfirmCode, history
  <2>5. made'["file"] >= made["file"]
    BY <1>4, MakeGrows
    DEF VerifyNewTotp, DisableTotp, ChangePassword, StartCode, ConfirmCode, Made
  <2>6. \A u \in Users : users'[u].file = users[u].file /\ users'[u].state = users[u].state
    BY <2>1, <2>3, Parts, CommitStill
  <2> QED BY <2>4, <2>5, <2>6, Parts, FinishHolds DEF Still
<1> QED BY <1>1, <1>2, <1>3, <1>4 DEF OwnStep

\* The administration of users.
LEMMA AdminStill ==
  ASSUME AccInv, NEW t \in Threads, AdminStep(t)
  PROVE  Still
<1>1. CASE AdminUpdate(t)
  <2> DEFINE r == req[t].route  copy == req[t].copy  new == AdminChange(r, copy)
  <2>1. req[t].user \in Users /\ copy \in Row /\ r \in AdminRoutes \ {"create", "delete"}
    BY <1>1, LoadedReq, Parts DEF AdminUpdate
  <2>2. /\ r = "reset_password" => Fresh("pwd") \in Ids
        /\ made'["file"] >= made["file"]
    BY <1>1, Parts, MakeType, MakeGrows DEF AdminUpdate, OtherOK, Made
  <2>3. new \in Row /\ new.state = copy.state
    BY <2>1, <2>2, AdminRow
  <2>4. new.file = copy.file
    BY <2>1, FailureFile DEF AdminChange, AdminRoutes, NoFailures, Row
  <2>5. Commit(t, new) /\ Finish(t) /\ UNCHANGED <<files, torn>>
    BY <1>1 DEF AdminUpdate
  <2> HIDE DEF new
  <2>6. \A u \in Users : users'[u].file = users[u].file /\ users'[u].state = users[u].state
    BY <2>1, <2>3, <2>4, <2>5, Parts, CommitStill
  <2> QED BY <2>2, <2>5, <2>6, Parts, FinishHolds DEF Still
<1>2. CASE AdminDelete(t)
  <2> DEFINE u == req[t].user
  <2>1. u \in Users /\ users[u] \in Row
    BY <1>2, LoadedReq, Parts DEF AdminDelete, At, TypeOK
  <2>2. /\ users' = [users EXCEPT ![u] = [users[u] EXCEPT !.state = "deleted"]]
        /\ Finish(t) /\ UNCHANGED <<made, files, torn>>
    BY <1>2 DEF AdminDelete
  <2>3. /\ [users[u] EXCEPT !.state = "deleted"].file = users[u].file
        /\ [users[u] EXCEPT !.state = "deleted"].state = "deleted"
    BY <2>1 DEF Row
  <2> HIDE DEF u
  <2> QED BY <2>1, <2>2, <2>3, Parts, MadeNat, FinishHolds DEF Still, TypeOK
<1>3. ASSUME NEW role \in {"admin", "soc"}, AdminCreate(t, role) PROVE Still
  <2> DEFINE u == req[t].user
             row == [users[u] EXCEPT !.state = "live", !.role = role]
  <2>1. u \in Users /\ users[u] \in Row
    BY <1>3, LoadedReq, Parts DEF AdminCreate, At, TypeOK
  <2>2. /\ users' = [users EXCEPT ![u] = IF users[u].state = "none" THEN row ELSE users[u]]
        /\ Finish(t) /\ UNCHANGED <<made, files, torn>>
    BY <1>3 DEF AdminCreate
  <2>3. row.file = users[u].file /\ row.state = "live"
    BY <2>1 DEF Row
  <2> HIDE DEF u, row
  <2> QED BY <2>1, <2>2, <2>3, Parts, MadeNat, FinishHolds DEF Still, TypeOK
<1> QED BY <1>1, <1>2, <1>3 DEF AdminStep

LEMMA RestStill ==
  ASSUME AccInv, \/ \E c \in sessions : SessionDropped(c)
                 \/ \E c \in Ids : CodeExpires(c)
                 \/ \E u \in Users : LockRunsOut(u)
                 \/ UNCHANGED vars
  PROVE  Still
<1>1. ASSUME NEW u \in Users, LockRunsOut(u) PROVE Still
  <2>1. users[u] \in Row
    BY Parts DEF TypeOK
  <2>2. /\ [users[u] EXCEPT !.lock = "past"].file = users[u].file
        /\ [users[u] EXCEPT !.lock = "past"].state = users[u].state
    BY <2>1 DEF Row
  <2>3. users' = [users EXCEPT ![u] = [users[u] EXCEPT !.lock = "past"]]
        /\ UNCHANGED <<req, made, files, torn>>
    BY <1>1 DEF LockRunsOut, history
  <2> QED BY <2>2, <2>3, Parts, MadeNat DEF Still, TypeOK, Holds
<1>2. ASSUME UNCHANGED <<users, req, made, files, torn>> PROVE Still
  BY <1>2, MadeNat DEF Still, Holds
<1> QED BY <1>1, <1>2 DEF SessionDropped, CodeExpires, vars, history

\* update_profile removes the file of the copy it read: that is the file of no other user,
\* and the row gets the new one unless the commit fails.
LEMMA ProfileAvatar ==
  ASSUME AccInv, AccInv', AvatarInv, NEW t \in Threads, NEW upload \in BOOLEAN,
         NEW name \in {"same", "new", "taken"}, UpdateProfile(t, upload, name)
  PROVE  AvatarInv'
<1> DEFINE u == req[t].user  copy == req[t].copy
           n == made["file"]
           file == IF upload THEN Fresh("file") ELSE copy.file
           new == [copy EXCEPT !.file = file]
           row == Update(users[u], copy, new)
<1>1. /\ u \in Users /\ copy \in Row /\ Holds(t) /\ users[u] \in Row /\ n \in Nat
  BY LoadedReq, Parts, MadeNat DEF UpdateProfile, At, Holds, TypeOK
<1>2. made' \in [Made -> Ids] /\ made \in [Made -> Ids]
  BY DEF AccInv, TypeOK
<1>3. CASE ~upload
  <2>1. file = copy.file /\ new = copy
    BY <1>1, <1>3 DEF Row
  <2>2. UNCHANGED <<made, files>> /\ Finish(t) /\ torn \subseteq torn'
        /\ (Commit(t, copy) \/ UNCHANGED users)
    BY <1>3, <2>1 DEF UpdateProfile
  <2>3. \A v \in Users : users'[v].file = users[v].file /\ users'[v].state = users[v].state
    BY <1>1, <2>2, Parts, CommitStill
  <2>4. \A s \in Threads : Holds(s)' => Holds(s) /\ req'[s] = req[s]
    BY <2>2, Parts, FinishHolds
  <2>5. FileInv'
    BY <2>2, <2>3, <2>4 DEF AvatarInv, FileInv
  <2>6. AvatarKept'
    BY <2>2, <2>3 DEF AvatarInv, AvatarKept
  <2> QED BY <2>5, <2>6 DEF AvatarInv
<1>4. CASE upload
  <2>1. /\ file = n + 1 /\ made'["file"] = n + 1
        /\ files' = (files \ {copy.file}) \cup {n + 1}
        /\ Finish(t)
    BY <1>2, <1>4 DEF UpdateProfile, Make, Fresh, Made
  <2>2. \A s \in Threads : Holds(s)' => Holds(s) /\ req'[s] = req[s]
    BY <2>1, Parts, FinishHolds
  <2>3. copy.file \in 0 .. n
        /\ \A v \in Users : v # u /\ copy.file = users[v].file => users[v].file = 0
    BY <1>1 DEF AvatarInv, FileInv
  <2>4. \A v \in Users : users[v].file \in 0 .. n
    BY DEF AvatarInv, FileInv
  <2>5. \A s \in Threads : Holds(s) => req[s].copy.file \in 0 .. n
    BY DEF AvatarInv, FileInv
  <2>6. CASE name = "taken"
    <3>1. torn' = torn \cup {u} /\ users' = users
      BY <2>6 DEF UpdateProfile
    <3>2. FileInv'
      <4>1. \A v \in Users : users'[v].file \in 0 .. made'["file"]
        BY <1>1, <2>1, <2>4, <3>1
      <4>2. \A s \in Threads : Holds(s)' => req'[s].copy.file \in 0 .. made'["file"]
        BY <1>1, <2>1, <2>2, <2>5
      <4> QED BY <2>2, <3>1, <4>1, <4>2 DEF AvatarInv, FileInv
    <3>3. AvatarKept'
      BY <2>1, <2>3, <3>1 DEF AvatarInv, AvatarKept
    <3> QED BY <3>2, <3>3 DEF AvatarInv
  <2>7. CASE name # "taken"
    <3>1. torn' = torn /\ users' = [users EXCEPT ![u] = row]
      BY <2>7 DEF UpdateProfile, Commit
    <3>2. new \in Row /\ new.file = n + 1 /\ new.state = copy.state
      <4>1. n + 1 \in Ids
        BY <1>2, <2>1 DEF Made
      <4> QED BY <1>1, <2>1, <4>1 DEF Row
    <3>3. row.state = users[u].state
      <4> HIDE DEF new
      <4> QED BY <1>1, <3>2, UpdateColumn DEF Cols
    <3>4. row.file = IF users[u].state = "live" THEN n + 1 ELSE users[u].file
      <4>1. new.file # copy.file
        BY <1>1, <2>3, <3>2
      <4>2. DOMAIN users[u] = Cols /\ "file" \in Cols
        BY <1>1 DEF Row, Cols
      <4> HIDE DEF new
      <4> QED BY <3>2, <4>1, <4>2 DEF Update
    <3> HIDE DEF row
    <3>5. /\ users'[u].file = IF users[u].state = "live" THEN n + 1 ELSE users[u].file
          /\ users'[u].state = users[u].state
          /\ \A v \in Users \ {u} : users'[v] = users[v]
      BY <1>1, <3>1, <3>3, <3>4, Parts DEF TypeOK
    <3>6. FileInv'
      <4>1. \A v \in Users : /\ users'[v].file \in 0 .. made'["file"]
                             /\ users'[v].state = "none" => users'[v].file = 0
        BY <1>1, <2>1, <2>4, <3>5 DEF AvatarInv, FileInv
      <4>2. \A v, w \in Users : v # w /\ users'[v].file = users'[w].file => users'[v].file = 0
        BY <1>1, <2>4, <3>5 DEF AvatarInv, FileInv
      <4>3. ASSUME NEW s \in Threads, Holds(s)'
            PROVE  /\ req'[s].copy.file \in 0 .. made'["file"]
                   /\ \A v \in Users : v # req'[s].user /\ req'[s].copy.file = users'[v].file
                                         => users'[v].file = 0
        <5>1. Holds(s) /\ req'[s] = req[s] /\ req[s].copy.file \in 0 .. n
          BY <2>2, <2>5, <4>3
        <5>2. req'[s].copy.file \in 0 .. made'["file"]
          BY <1>1, <2>1, <5>1
        <5>3. ASSUME NEW v \in Users, v # req[s].user, req[s].copy.file = users'[v].file
              PROVE  users'[v].file = 0
          BY <1>1, <3>5, <5>1, <5>3 DEF AvatarInv, FileInv
        <5> QED BY <5>1, <5>2, <5>3
      <4> QED BY <4>1, <4>2, <4>3 DEF FileInv
    <3>7. AvatarKept'
      BY <2>1, <2>3, <3>1, <3>5 DEF AvatarInv, AvatarKept
    <3> QED BY <3>6, <3>7 DEF AvatarInv
  <2> QED BY <2>6, <2>7
<1> QED BY <1>3, <1>4

LEMMA AvatarInit == Init => AvatarInv
<1> SUFFICES ASSUME Init PROVE AvatarInv
  OBVIOUS
<1>1. PICK d \in Deployments : users = d.users /\ made = d.made
  BY DEF Init
<1>2. \A u \in Users : users[u].file = 0
  BY <1>1, DeploymentsAssumption
<1>3. \A t \in Threads : ~Holds(t)
  BY DEF Init, Holds, Idle
<1>4. made["file"] \in Nat
  BY AccInit, MadeNat
<1> QED BY <1>2, <1>3, <1>4 DEF AvatarInv, FileInv, AvatarKept

LEMMA AvatarNext ==
  ASSUME AccInv, AccInv', AvatarInv, [Next]_vars
  PROVE  AvatarInv'
<1>1. ASSUME NEW t \in Threads, OpenStep(t) \/ AdminStep(t) PROVE AvatarInv'
  BY <1>1, OpenStill, AdminStill, StillInv
<1>2. ASSUME NEW t \in Threads, OwnStep(t) PROVE AvatarInv'
  BY <1>2, OwnStill, ProfileAvatar, StillInv
<1>3. ASSUME \/ \E c \in sessions : SessionDropped(c)
             \/ \E c \in Ids : CodeExpires(c)
             \/ \E u \in Users : LockRunsOut(u)
             \/ UNCHANGED vars
      PROVE AvatarInv'
  BY <1>3, RestStill, StillInv
<1> QED BY <1>1, <1>2, <1>3 DEF Next

\* Whatever requests overlap, update_profile leaves the avatar of every user on disk,
\* unless a commit of his failed after the file was removed.
THEOREM AvatarsAreKept == Spec => []AvatarKept
<1>1. Init => AvatarInv
  BY AvatarInit
<1>2. AccInv /\ AccInv' /\ AvatarInv /\ [Next]_vars => AvatarInv'
  BY AvatarNext
<1>3. AvatarInv => AvatarKept
  BY DEF AvatarInv
<1> QED BY <1>1, <1>2, <1>3, AccInvariant, PTL DEF Spec

-----------------------------------------------------------------------------
\* The second factors

\* Where no set-up was confirmed over a row without TOTP, the flag and the secret go
\* together: in the row, and in every copy of it.
Paired(row) == row.totp <=> row.secret # 0
FactorInv ==
  /\ \A u \in Users \ skewed : Paired(users[u])
  /\ \A t \in Threads : Holds(t) /\ req[t].user \notin skewed => Paired(req[t].copy)

\* Logins that hold a code and have not used it.
Opening(t)  == req[t].at = "loaded" /\ req[t].route = "login"
Openings(c) == {t \in Threads : Opening(t) /\ req[t].copy.code = c}

\* Codes are those made so far, and no two users refer to the same one.  A code that was
\* used has left the row, so no thread reads it any more, and those that hold it still
\* are as many as it may be used again.
CodeInv ==
  /\ \A u \in Users : users[u].code \in 0 .. made["code"]
  /\ \A u, v \in Users : u # v /\ users[u].code = users[v].code => users[u].code = 0
  /\ \A t \in Threads : Holds(t) =>
       /\ req[t].copy.code \in 0 .. made["code"]
       /\ \A v \in Users : v # req[t].user /\ req[t].copy.code = users[v].code
                             => users[v].code = 0
  /\ \A t \in Threads : Opening(t) => users[req[t].user].state # "none"
  /\ \A c \in Ids : uses[c] > 0 =>
       /\ c # 0 /\ c <= made["code"]
       /\ \A u \in Users : users[u].code = c => users[u].state = "deleted"
       /\ uses[c] + Cardinality(Openings(c)) <= Cardinality(Threads)

\* What both rest on: a step leaves a deleted row deleted and creates none, and a thread
\* holds the copy it held, or one of a row as it is, which is live where a login reads it.
SameFactors(v) ==
  users'[v].totp = users[v].totp /\ users'[v].secret = users[v].secret
    /\ users'[v].code = users[v].code
StateGoesOn(v) ==
  /\ users[v].state = "deleted" => users'[v].state = "deleted"
  /\ users'[v].state = "none" => users[v].state = "none"
Kept ==
  \A s \in Threads : Holds(s)' =>
    \/ /\ Holds(s) /\ req'[s].copy = req[s].copy /\ req'[s].user = req[s].user
       /\ Opening(s)' => Opening(s)
    \/ /\ req'[s].user \in Users /\ req'[s].copy = users[req'[s].user]
       /\ Opening(s)' => users[req'[s].user].state = "live"

\* A step that leaves the second factors of everyone as they are.
Plain ==
  /\ \A v \in Users : SameFactors(v) /\ StateGoesOn(v)
  /\ UNCHANGED <<uses, skewed>> /\ made'["code"] = made["code"]
  /\ Kept

LEMMA CommitColumns ==
  ASSUME TypeOK, NEW t \in Threads, req[t].user \in Users, req[t].copy \in Row,
         NEW new \in Row, new.state = req[t].copy.state, Commit(t, new)
  PROVE  /\ \A v \in Users : v # req[t].user => users'[v] = users[v]
         /\ \A c \in Cols : users'[req[t].user][c] =
              IF users[req[t].user].state = "live" /\ new[c] # req[t].copy[c]
              THEN new[c] ELSE users[req[t].user][c]
         /\ \A v \in Users : StateGoesOn(v)
<1> DEFINE u == req[t].user
           row == Update(users[u], req[t].copy, new)
<1>1. users \in [Users -> Row] /\ users[u] \in Row
  BY DEF TypeOK
<1>2. DOMAIN users[u] = Cols
  BY <1>1 DEF Row, Cols
<1>3. \A c \in Cols : row[c] = IF users[u].state = "live" /\ new[c] # req[t].copy[c]
                               THEN new[c] ELSE users[u][c]
  BY <1>2 DEF Update
<1>4. users' = [users EXCEPT ![u] = row]
  BY DEF Commit
<1>5. row.state = users[u].state
  BY <1>1, UpdateColumn DEF Cols
<1> HIDE DEF row
<1> QED BY <1>1, <1>3, <1>4, <1>5 DEF StateGoesOn

\* A commit that leaves the second factors of the copy alone leaves those of the row alone.
LEMMA CommitPlain ==
  ASSUME TypeOK, NEW t \in Threads, req[t].user \in Users, req[t].copy \in Row,
         NEW new \in Row, new.state = req[t].copy.state, new.totp = req[t].copy.totp,
         new.secret = req[t].copy.secret, new.code = req[t].copy.code, Commit(t, new)
  PROVE  \A v \in Users : SameFactors(v) /\ StateGoesOn(v)
<1>1. {"totp", "secret", "code"} \subseteq Cols
  BY DEF Cols
<1> QED BY <1>1, CommitColumns DEF SameFactors

\* Counting or clearing failures leaves the second factors alone.
LEMMA FailureFactors ==
  ASSUME NEW copy \in Row, NEW n \in Nat
  PROVE  /\ AddFailure(copy, n).totp = copy.totp /\ NoFailures(copy).totp = copy.totp
         /\ AddFailure(copy, n).secret = copy.secret /\ NoFailures(copy).secret = copy.secret
         /\ AddFailure(copy, n).code = copy.code /\ NoFailures(copy).code = copy.code
  BY DEF AddFailure, NoFailures, Row

LEMMA FinishKept ==
  ASSUME ReqOK, NEW t \in Threads, Finish(t)
  PROVE  Kept
<1>1. \A s \in Threads : Holds(s)' => Holds(s) /\ req'[s] = req[s]
  BY FinishHolds
<1> QED BY <1>1 DEF Kept, Opening

\* A thread that goes on with one request, the others with theirs.
LEMMA GoOnKept ==
  ASSUME ReqOK, NEW t \in Threads, NEW r, req' = [req EXCEPT ![t] = r],
         \/ /\ r.user \in Users /\ r.copy = users[r.user]
            /\ r.at = "loaded" /\ r.route = "login" => users[r.user].state = "live"
         \/ r.at = "checked"
  PROVE  Kept
<1>1. req'[t] = r /\ \A s \in Threads \ {t} : req'[s] = req[s]
  BY DEF ReqOK
<1> QED BY <1>1 DEF Kept, Opening, Holds

\* A row that is written directly.
LEMMA RowPlain ==
  ASSUME TypeOK, NEW u \in Users, NEW row \in Row, users' = [users EXCEPT ![u] = row],
         row.totp = users[u].totp, row.secret = users[u].secret, row.code = users[u].code,
         users[u].state = "deleted" => row.state = "deleted",
         row.state = "none" => users[u].state = "none"
  PROVE  \A v \in Users : SameFactors(v) /\ StateGoesOn(v)
<1>1. users' [u] = row /\ \A v \in Users \ {u} : users'[v] = users[v]
  BY DEF TypeOK
<1> QED BY <1>1 DEF SameFactors, StateGoesOn

LEMMA MadeCode ==
  ASSUME AccInv, NEW m \in Made \ {"code"}, Make(m) \/ UNCHANGED made
  PROVE  made'["code"] = made["code"]
  BY DEF Make, Made, AccInv, TypeOK

LEMMA RowsStay ==
  ASSUME UNCHANGED users
  PROVE  \A v \in Users : SameFactors(v) /\ StateGoesOn(v)
  BY DEF SameFactors, StateGoesOn

LEMMA OpenPlain ==
  ASSUME AccInv, NEW t \in Threads, OpenStep(t)
  PROVE  Plain \/ LoginCode(t) \/ StartLoginCode(t)
<1>1. CASE \E u \in Users, r \in OpenRoutes : Read(t, u, r)
  <2>1. PICK u \in Users, r \in OpenRoutes : Read(t, u, r)
    BY <1>1
  <2> DEFINE new == [at |-> "loaded", route |-> r, by |-> None, user |-> u, copy |-> users[u]]
  <2>2. req' = [req EXCEPT ![t] = new] /\ UNCHANGED <<users, made, uses, skewed>>
        /\ users[u].state = "live"
    BY <2>1 DEF Read, history
  <2>3. new.user = u /\ new.copy = users[u]
    OBVIOUS
  <2> HIDE DEF new
  <2> QED BY <2>2, <2>3, Parts, GoOnKept, RowsStay DEF Plain
<1>2. CASE LoginWrong(t)
  <2> DEFINE u == req[t].user  n == req[t].copy.failed
             row == IF users[u].state = "live" THEN AddFailure(users[u], n) ELSE users[u]
  <2>1. u \in Users /\ req[t].copy \in Row /\ users[u] \in Row
    BY <1>2, LoadedReq, Parts DEF LoginWrong, TypeOK
  <2>2. n \in Nat
    BY <2>1 DEF Row
  <2>3. users' = [users EXCEPT ![u] = row] /\ Finish(t) /\ UNCHANGED <<made, uses, skewed>>
    BY <1>2 DEF LoginWrong
  <2>4. /\ row \in Row /\ row.state = users[u].state /\ row.totp = users[u].totp
        /\ row.secret = users[u].secret /\ row.code = users[u].code
    BY <2>1, <2>2, FailureRow, FailureFactors
  <2> HIDE DEF row, u
  <2> QED BY <2>1, <2>3, <2>4, Parts, RowPlain, FinishKept DEF Plain
<1>3. CASE LoginBadFactor(t)
  <2> DEFINE new == [req[t] EXCEPT !.at = "failing", !.copy = users[req[t].user]]
  <2>1. req[t] \in Requests /\ req[t] # Idle
    BY <1>3, Parts DEF ReqOK, LoginBadFactor, Idle
  <2>2. /\ req' = [req EXCEPT ![t] = new] \/ Finish(t)
        /\ UNCHANGED <<users, made, uses, skewed>>
    BY <1>3 DEF LoginBadFactor, Finish, history
  <2>3. new.copy = users[new.user] /\ new.user \in Users /\ new.at = "failing"
    BY <2>1 DEF Requests
  <2> HIDE DEF new
  <2> QED BY <2>2, <2>3, Parts, GoOnKept, FinishKept, RowsStay DEF Plain
<1>4. CASE RecordFailure(t)
  <2> DEFINE copy == req[t].copy  new == AddFailure(copy, copy.failed)
  <2>1. req[t].user \in Users /\ copy \in Row
    BY <1>4, LoadedReq, Parts DEF RecordFailure
  <2>2. copy.failed \in Nat
    BY <2>1 DEF Row
  <2>3. /\ new \in Row /\ new.state = copy.state /\ new.totp = copy.totp
        /\ new.secret = copy.secret /\ new.code = copy.code
    BY <2>1, <2>2, FailureRow, FailureFactors
  <2>4. Commit(t, new) /\ Finish(t) /\ UNCHANGED <<made, uses, skewed>>
    BY <1>4 DEF RecordFailure
  <2> HIDE DEF new
  <2> QED BY <2>1, <2>3, <2>4, Parts, CommitPlain, FinishKept DEF Plain
<1>5. CASE LoginOpen(t)
  <2> DEFINE u == req[t].user
  <2>1. u \in Users /\ users[u] \in Row
    BY <1>5, LoadedReq, Parts DEF LoginOpen, TypeOK
  <2>2. /\ \/ UNCHANGED users
           \/ /\ users' = [users EXCEPT ![u] = NoFailures(users[u])]
        /\ Finish(t) /\ UNCHANGED <<made, uses, skewed>>
    BY <1>5 DEF LoginOpen
  <2>3. /\ NoFailures(users[u]) \in Row /\ NoFailures(users[u]).state = users[u].state
        /\ NoFailures(users[u]).totp = users[u].totp
        /\ NoFailures(users[u]).secret = users[u].secret
        /\ NoFailures(users[u]).code = users[u].code
    BY <2>1, FailureRow, FailureFactors
  <2> HIDE DEF u
  <2> QED BY <2>1, <2>2, <2>3, Parts, RowPlain, RowsStay, FinishKept DEF Plain
<1> QED BY <1>1, <1>2, <1>3, <1>4, <1>5 DEF OpenStep

LEMMA OwnPlain ==
  ASSUME AccInv, NEW t \in Threads, OwnStep(t)
  PROVE  Plain \/ VerifyNewTotp(t) \/ DisableTotp(t) \/ StartCode(t) \/ ConfirmCode(t)
<1>1. CASE \E c \in sessions, r \in OwnRoutes \cup AdminRoutes, u \in Users : Enter(t, c, r, u)
  <2>1. PICK c \in sessions, r \in OwnRoutes \cup AdminRoutes, u \in Users : Enter(t, c, r, u)
    BY <1>1
  <2> DEFINE new == [at |-> "checked", route |-> r, by |-> c, user |-> u, copy |-> None]
  <2>2. req' = [req EXCEPT ![t] = new] /\ UNCHANGED <<users, made, uses, skewed>>
    BY <2>1 DEF Enter, history
  <2>3. new.at = "checked"
    OBVIOUS
  <2> HIDE DEF new
  <2> QED BY <2>2, <2>3, Parts, GoOnKept, RowsStay DEF Plain
<1>2. CASE Load(t)
  <2> DEFINE new == [req[t] EXCEPT !.at = "loaded", !.copy = users[req[t].user]]
  <2>1. req[t] # Idle /\ req[t] \in Requests
    BY <1>2, Parts DEF Load, Idle, ReqOK
  <2>2. /\ \/ /\ req' = [req EXCEPT ![t] = new]
              /\ req[t].route # "create" => users[req[t].user].state = "live"
           \/ Finish(t)
        /\ UNCHANGED <<users, made, uses, skewed>>
    BY <1>2 DEF Load, Finish, history
  <2>3. /\ new.copy = users[new.user] /\ new.user \in Users
        /\ new.user = req[t].user /\ new.route = req[t].route
    BY <2>1 DEF Requests, Idle
  <2> HIDE DEF new
  <2>4. Kept
    BY <2>2, <2>3, Parts, GoOnKept, FinishKept
  <2> QED BY <2>2, <2>4, RowsStay DEF Plain
<1>3. CASE Refuse(t) \/ EnableTotp(t) \/ Logout(t)
  <2>1. made'["code"] = made["code"]
    BY <1>3, MadeCode DEF Refuse, EnableTotp, Logout, Made
  <2> QED BY <1>3, <2>1, Parts, FinishKept, RowsStay
          DEF Refuse, EnableTotp, Logout, Plain, history
<1>4. CASE ChangePassword(t)
  <2> DEFINE copy == req[t].copy  new == [copy EXCEPT !.pwd = Fresh("pwd")]
  <2>1. req[t].user \in Users /\ copy \in Row /\ Fresh("pwd") \in Ids
    BY <1>4, LoadedReq, Parts, MakeType DEF ChangePassword, At, OtherOK, Made
  <2>2. /\ new \in Row /\ new.state = copy.state /\ new.totp = copy.totp
        /\ new.secret = copy.secret /\ new.code = copy.code
    BY <2>1 DEF Row
  <2>3. Commit(t, new) /\ Finish(t) /\ Make("pwd") /\ UNCHANGED <<uses, skewed>>
    BY <1>4 DEF ChangePassword, history
  <2>4. made'["code"] = made["code"]
    BY <2>3, MadeCode DEF Made
  <2> HIDE DEF new
  <2> QED BY <2>1, <2>2, <2>3, <2>4, Parts, CommitPlain, FinishKept DEF Plain
<1>5. ASSUME NEW upload \in BOOLEAN, NEW name \in {"same", "new", "taken"},
             UpdateProfile(t, upload, name)
      PROVE  Plain
  <2> DEFINE copy == req[t].copy  file == IF upload THEN Fresh("file") ELSE copy.file
             new == [copy EXCEPT !.file = file]
  <2>1. req[t].user \in Users /\ copy \in Row
    BY <1>5, LoadedReq, Parts DEF UpdateProfile, At
  <2>2. file \in Ids
    <3>1. upload => Fresh("file") \in Ids
      BY <1>5, Parts, MakeType DEF UpdateProfile, OtherOK, Made
    <3> QED BY <2>1, <3>1 DEF Row
  <2>3. /\ UNCHANGED users \/ Commit(t, new)
        /\ Make("file") \/ UNCHANGED made
        /\ Finish(t) /\ UNCHANGED <<uses, skewed>>
    BY <1>5 DEF UpdateProfile
  <2> HIDE DEF file
  <2>4. /\ new \in Row /\ new.state = copy.state /\ new.totp = copy.totp
        /\ new.secret = copy.secret /\ new.code = copy.code
    BY <2>1, <2>2 DEF Row
  <2>5. made'["code"] = made["code"]
    BY <2>3, MadeCode DEF Made
  <2> HIDE DEF new
  <2> QED BY <2>1, <2>3, <2>4, <2>5, Parts, CommitPlain, RowsStay, FinishKept DEF Plain
<1> QED BY <1>1, <1>2, <1>3, <1>4, <1>5 DEF OwnStep

LEMMA AdminPlain ==
  ASSUME AccInv, NEW t \in Threads, AdminStep(t)
  PROVE  Plain \/ (AdminUpdate(t) /\ req[t].route = "reset_mfa")
<1>1. CASE AdminUpdate(t) /\ req[t].route # "reset_mfa"
  <2> DEFINE r == req[t].route  copy == req[t].copy  new == AdminChange(r, copy)
  <2>1. req[t].user \in Users /\ copy \in Row /\ r \in AdminRoutes \ {"create", "delete"}
    BY <1>1, LoadedReq, Parts DEF AdminUpdate
  <2>2. /\ r = "reset_password" => Fresh("pwd") \in Ids
        /\ made'["code"] = made["code"]
    BY <1>1, Parts, MakeType, MadeCode DEF AdminUpdate, OtherOK, Made
  <2>3. new \in Row /\ new.state = copy.state
    BY <2>1, <2>2, AdminRow
  <2>4. new.totp = copy.totp /\ new.secret = copy.secret /\ new.code = copy.code
    BY <1>1, <2>1, FailureFactors DEF AdminChange, AdminRoutes, NoFailures, Row
  <2>5. Commit(t, new) /\ Finish(t) /\ UNCHANGED <<uses, skewed>>
    BY <1>1 DEF AdminUpdate
  <2> HIDE DEF new
  <2> QED BY <2>1, <2>2, <2>3, <2>4, <2>5, Parts, CommitPlain, FinishKept DEF Plain
<1>2. CASE AdminDelete(t)
  <2> DEFINE u == req[t].user  row == [users[u] EXCEPT !.state = "deleted"]
  <2>1. u \in Users /\ users[u] \in Row
    BY <1>2, LoadedReq, Parts DEF AdminDelete, At, TypeOK
  <2>2. users' = [users EXCEPT ![u] = row] /\ Finish(t) /\ UNCHANGED <<made, uses, skewed>>
    BY <1>2 DEF AdminDelete
  <2>3. /\ row \in Row /\ row.state = "deleted" /\ row.totp = users[u].totp
        /\ row.secret = users[u].secret /\ row.code = users[u].code
    BY <2>1 DEF Row
  <2> HIDE DEF u, row
  <2> QED BY <2>1, <2>2, <2>3, Parts, RowPlain, FinishKept DEF Plain
<1>3. ASSUME NEW role \in {"admin", "soc"}, AdminCreate(t, role)
      PROVE  Plain
  <2> DEFINE u == req[t].user
             row == IF users[u].state = "none"
                    THEN [users[u] EXCEPT !.state = "live", !.role = role] ELSE users[u]
  <2>1. u \in Users /\ users[u] \in Row
    BY <1>3, LoadedReq, Parts DEF AdminCreate, At, TypeOK
  <2>2. users' = [users EXCEPT ![u] = row] /\ Finish(t) /\ UNCHANGED <<made, uses, skewed>>
    BY <1>3 DEF AdminCreate
  <2>3. /\ row \in Row /\ row.totp = users[u].totp
        /\ row.secret = users[u].secret /\ row.code = users[u].code
        /\ users[u].state = "deleted" => row.state = "deleted"
        /\ row.state # "none"
    BY <2>1 DEF Row
  <2> HIDE DEF u, row
  <2> QED BY <2>1, <2>2, <2>3, Parts, RowPlain, FinishKept DEF Plain
<1> QED BY <1>1, <1>2, <1>3 DEF AdminStep

LEMMA RestPlain ==
  ASSUME AccInv, \/ \E c \in sessions : SessionDropped(c)
                 \/ \E c \in Ids : CodeExpires(c)
                 \/ \E u \in Users : LockRunsOut(u)
                 \/ UNCHANGED vars
  PROVE  Plain
<1>1. ASSUME UNCHANGED req PROVE Kept
  BY <1>1 DEF Kept, Holds, Opening
<1>2. ASSUME NEW u \in Users, LockRunsOut(u) PROVE Plain
  <2> DEFINE row == [users[u] EXCEPT !.lock = "past"]
  <2>1. users[u] \in Row
    BY Parts DEF TypeOK
  <2>2. /\ row \in Row /\ row.state = users[u].state /\ row.totp = users[u].totp
        /\ row.secret = users[u].secret /\ row.code = users[u].code
    BY <2>1 DEF Row
  <2>3. users' = [users EXCEPT ![u] = row] /\ UNCHANGED <<req, made, uses, skewed>>
    BY <1>2 DEF LockRunsOut, history
  <2> HIDE DEF row
  <2> QED BY <1>1, <2>2, <2>3, Parts, RowPlain DEF Plain
<1>3. ASSUME UNCHANGED <<users, req, made, uses, skewed>> PROVE Plain
  BY <1>1, <1>3, RowsStay DEF Plain
<1> QED BY <1>2, <1>3 DEF SessionDropped, CodeExpires, vars, history

\* The steps that touch a second factor, each as the commit it makes.
NewCode(t, new) ==
  /\ new.code = made["code"] + 1 /\ made'["code"] = made["code"] + 1
  /\ new.totp = req[t].copy.totp /\ new.secret = req[t].copy.secret
  /\ UNCHANGED skewed
NoCode(t, new) ==
  /\ new.code = 0 /\ made'["code"] = made["code"]
  /\ \/ /\ new.totp = req[t].copy.totp /\ new.secret = req[t].copy.secret
     \/ ~new.totp /\ new.secret = 0
  /\ UNCHANGED skewed
NewSecret(t, new) ==
  /\ new.code = req[t].copy.code /\ made'["code"] = made["code"]
  /\ \/ ~new.totp /\ new.secret = 0 /\ UNCHANGED skewed
     \/ /\ new.totp /\ new.secret # 0
        /\ skewed' = IF req[t].copy.totp /\ ~users[req[t].user].totp
                     THEN skewed \cup {req[t].user} ELSE skewed

Commits(t, new) ==
  /\ req[t].user \in Users /\ req[t].copy \in Row /\ Holds(t)
  /\ new.state = req[t].copy.state
  /\ Commit(t, new) /\ Finish(t) /\ UNCHANGED uses
  /\ NewCode(t, new) \/ NoCode(t, new) \/ NewSecret(t, new)

LEMMA FactorCommits ==
  ASSUME AccInv, NEW t \in Threads,
         \/ StartLoginCode(t) \/ StartCode(t) \/ ConfirmCode(t)
         \/ VerifyNewTotp(t) \/ DisableTotp(t)
         \/ (AdminUpdate(t) /\ req[t].route = "reset_mfa")
  PROVE  \E new \in Row : Commits(t, new)
<1> DEFINE copy == req[t].copy
<1>1. /\ req[t].user \in Users /\ copy \in Row /\ Holds(t)
      /\ req[t].route \notin OpenRoutes => req[t].by \in Cookie
  BY LoadedReq, Parts
  DEF StartLoginCode, StartCode, ConfirmCode, VerifyNewTotp, DisableTotp, AdminUpdate, At, Holds
<1>2. 0 \in Ids
  BY AccountsAssumption DEF Ids
<1>3. CASE StartLoginCode(t) \/ StartCode(t)
  <2> DEFINE new == [copy EXCEPT !.code = Fresh("code")]
  <2>1. /\ Commit(t, new) /\ Finish(t) /\ UNCHANGED <<uses, skewed>>
        /\ Make("code")
    BY <1>3 DEF StartLoginCode, StartCode, history
  <2>2. Fresh("code") \in Ids /\ Fresh("code") = made["code"] + 1
        /\ made'["code"] = made["code"] + 1
    BY <2>1, Parts, MakeType DEF Make, Made, OtherOK, Fresh
  <2>3. /\ new \in Row /\ new.state = copy.state /\ new.code = Fresh("code")
        /\ new.totp = copy.totp /\ new.secret = copy.secret
    BY <1>1, <2>2 DEF Row
  <2> HIDE DEF new
  <2> QED BY <1>1, <2>1, <2>2, <2>3 DEF Commits, NewCode
<1>4. CASE ConfirmCode(t)
  <2>1. PICK on \in BOOLEAN : on = (req[t].route = "verify_email_otp")
    OBVIOUS
  <2> DEFINE new == [copy EXCEPT !.email = on, !.code = 0]
  <2>2. Commit(t, new) /\ Finish(t) /\ UNCHANGED <<uses, skewed, made>>
    BY <1>4, <2>1 DEF ConfirmCode, history
  <2>3. /\ new \in Row /\ new.state = copy.state /\ new.code = 0
        /\ new.totp = copy.totp /\ new.secret = copy.secret
    BY <1>1, <1>2 DEF Row
  <2> HIDE DEF new
  <2> QED BY <1>1, <2>2, <2>3 DEF Commits, NoCode
<1>5. CASE VerifyNewTotp(t)
  <2> DEFINE new == [copy EXCEPT !.totp = TRUE, !.secret = req[t].by.pending]
  <2>1. /\ Commit(t, new) /\ Finish(t) /\ UNCHANGED <<uses, made>>
        /\ req[t].by.pending # 0
        /\ skewed' = IF copy.totp /\ ~users[req[t].user].totp
                     THEN skewed \cup {req[t].user} ELSE skewed
    BY <1>5 DEF VerifyNewTotp
  <2>2. req[t].by.pending \in Ids
    BY <1>1, <1>5 DEF VerifyNewTotp, At, OpenRoutes, Cookie
  <2>3. /\ new \in Row /\ new.state = copy.state /\ new.code = copy.code
        /\ new.totp /\ new.secret = req[t].by.pending
    BY <1>1, <2>2 DEF Row
  <2> HIDE DEF new
  <2> QED BY <1>1, <2>1, <2>3 DEF Commits, NewSecret
<1>6. CASE DisableTotp(t)
  <2> DEFINE new == [copy EXCEPT !.totp = FALSE, !.secret = 0]
  <2>1. Commit(t, new) /\ Finish(t) /\ UNCHANGED <<uses, made, skewed>>
    BY <1>6 DEF DisableTotp, history
  <2>2. /\ new \in Row /\ new.state = copy.state /\ new.code = copy.code
        /\ ~new.totp /\ new.secret = 0
    BY <1>1, <1>2 DEF Row
  <2> HIDE DEF new
  <2> QED BY <1>1, <2>1, <2>2 DEF Commits, NewSecret
<1>7. CASE AdminUpdate(t) /\ req[t].route = "reset_mfa"
  <2> DEFINE new == AdminChange("reset_mfa", copy)
  <2>1. Commit(t, new) /\ Finish(t) /\ UNCHANGED <<uses, made, skewed>>
    BY <1>7 DEF AdminUpdate
  <2>2. new \in Row /\ new.state = copy.state
    BY <1>1, AdminRow DEF AdminRoutes
  <2>3. /\ new.code = 0 /\ ~new.totp /\ new.secret = 0
    BY <1>1, <2>2 DEF AdminChange, NoFailures, Row
  <2> HIDE DEF new
  <2> QED BY <1>1, <2>1, <2>2, <2>3 DEF Commits, NoCode
<1> QED BY <1>3, <1>4, <1>5, <1>6, <1>7

\* Every step is one of three.
LEMMA FactorSteps ==
  ASSUME AccInv, [Next]_vars
  PROVE  \/ Plain
         \/ \E t \in Threads : LoginCode(t) \/ \E new \in Row : Commits(t, new)
<1>1. ASSUME NEW t \in Threads, OpenStep(t) \/ OwnStep(t) \/ AdminStep(t)
      PROVE  Plain \/ LoginCode(t) \/ \E new \in Row : Commits(t, new)
  BY <1>1, OpenPlain, OwnPlain, AdminPlain, FactorCommits
<1>2. ASSUME \/ \E c \in sessions : SessionDropped(c)
             \/ \E c \in Ids : CodeExpires(c)
             \/ \E u \in Users : LockRunsOut(u)
             \/ UNCHANGED vars
      PROVE Plain
  BY <1>2, RestPlain
<1> QED BY <1>1, <1>2 DEF Next

\* login with the code of a mail: the code leaves the row of its user.
LEMMA LoginCodeStep ==
  ASSUME AccInv, NEW t \in Threads, LoginCode(t)
  PROVE  /\ req[t].user \in Users /\ req[t].copy \in Row /\ Opening(t) /\ Holds(t)
         /\ req[t].copy.code # 0
         /\ \A v \in Users : /\ users'[v].totp = users[v].totp
                              /\ users'[v].secret = users[v].secret
                              /\ users'[v].state = users[v].state
                              /\ users'[v].code = IF v = req[t].user /\ users[v].state = "live"
                                                  THEN 0 ELSE users[v].code
         /\ uses' = [uses EXCEPT ![req[t].copy.code] = @ + 1]
         /\ UNCHANGED <<made, skewed>>
         /\ \A s \in Threads : Holds(s)' =>
               Holds(s) /\ req'[s].copy = req[s].copy /\ req'[s].user = req[s].user
         /\ \A s \in Threads : Opening(s)' => Opening(s) /\ s # t
         /\ Kept
<1> DEFINE u == req[t].user
           row == IF users[u].state = "live" THEN [users[u] EXCEPT !.code = 0] ELSE users[u]
           new == [req[t] EXCEPT !.at = "verified"]
<1>1. /\ u \in Users /\ req[t].copy \in Row /\ users[u] \in Row /\ req[t] \in Requests
      /\ req[t] # Idle /\ Opening(t) /\ Holds(t) /\ req[t].copy.code # 0
  BY LoadedReq, Parts DEF LoginCode, TypeOK, ReqOK, Opening, Holds
<1>2. /\ users' = [users EXCEPT ![u] = row] /\ req' = [req EXCEPT ![t] = new]
      /\ uses' = [uses EXCEPT ![req[t].copy.code] = @ + 1]
      /\ UNCHANGED <<made, skewed>>
  BY DEF LoginCode
<1>3. /\ row.totp = users[u].totp /\ row.secret = users[u].secret
      /\ row.state = users[u].state
      /\ row.code = IF users[u].state = "live" THEN 0 ELSE users[u].code
  BY <1>1 DEF Row
<1>4. new.at = "verified" /\ new.copy = req[t].copy /\ new.user = u
  BY <1>1 DEF Requests, Idle
<1> HIDE DEF row, new
<1>5. req'[t] = new /\ \A s \in Threads \ {t} : req'[s] = req[s]
  BY <1>2, Parts DEF ReqOK
<1>6. /\ \A s \in Threads : Holds(s)' =>
           Holds(s) /\ req'[s].copy = req[s].copy /\ req'[s].user = req[s].user
      /\ \A s \in Threads : Opening(s)' => Opening(s) /\ s # t
  BY <1>1, <1>4, <1>5 DEF Holds, Opening
<1>7. users'[u] = row /\ \A v \in Users \ {u} : users'[v] = users[v]
  BY <1>1, <1>2, Parts DEF TypeOK
<1>8. Kept
  BY <1>6 DEF Kept
<1> QED BY <1>1, <1>2, <1>3, <1>6, <1>7, <1>8

\* A commit over a row and a copy whose flag and secret go together keeps them together,
\* or its user is skewed.
LEMMA PairedRow ==
  ASSUME AccInv, AccInv', FactorInv, NEW t \in Threads, NEW new \in Row, Commits(t, new),
         req[t].user \notin skewed'
  PROVE  Paired(users'[req[t].user])
<1> DEFINE u == req[t].user  copy == req[t].copy
<1>1. /\ u \in Users /\ copy \in Row /\ users[u] \in Row /\ users'[u] \in Row
      /\ new.state = copy.state /\ Commit(t, new) /\ Holds(t)
  BY Parts DEF Commits, TypeOK, AccInv
<1>2. u \notin skewed /\ (new.totp /\ copy.totp /\ new.secret # copy.secret => users[u].totp)
  BY DEF Commits, NewCode, NoCode, NewSecret
<1>3. Paired(users[u]) /\ Paired(copy)
  BY <1>1, <1>2 DEF FactorInv
<1>4. /\ users'[u].totp = IF users[u].state = "live" /\ new.totp # copy.totp
                          THEN new.totp ELSE users[u].totp
      /\ users'[u].secret = IF users[u].state = "live" /\ new.secret # copy.secret
                            THEN new.secret ELSE users[u].secret
  <2>1. "totp" \in Cols /\ "secret" \in Cols
    BY DEF Cols
  <2> QED BY <1>1, <2>1, Parts, CommitColumns
<1>5. /\ copy.totp \in BOOLEAN /\ new.totp \in BOOLEAN /\ users[u].totp \in BOOLEAN
      /\ users'[u].totp \in BOOLEAN
  BY <1>1 DEF Row
<1>6. CASE users[u].state # "live" \/ (new.totp = copy.totp /\ new.secret = copy.secret)
  BY <1>3, <1>4, <1>6 DEF Paired
<1>7. CASE users[u].state = "live" /\ ~new.totp /\ new.secret = 0
  <2>1. CASE copy.totp
    <3>1. copy.secret # 0 /\ new.totp # copy.totp
      BY <1>3, <1>7, <2>1 DEF Paired
    <3>2. ~users'[u].totp /\ users'[u].secret = 0
      BY <1>4, <1>7, <3>1
    <3> QED BY <3>2 DEF Paired
  <2>2. CASE ~copy.totp
    <3>1. copy.secret = 0
      BY <1>3, <2>2 DEF Paired
    <3>2. users'[u].totp = users[u].totp /\ users'[u].secret = users[u].secret
      BY <1>4, <1>5, <1>7, <2>2, <3>1
    <3> QED BY <1>3, <3>2 DEF Paired
  <2> QED BY <1>5, <2>1, <2>2
<1>8. CASE users[u].state = "live" /\ new.totp /\ new.secret # 0
  <2>1. CASE copy.totp /\ new.secret # copy.secret
    <3>1. users[u].totp
      BY <1>2, <1>8, <2>1
    <3>2. users'[u].totp /\ users'[u].secret = new.secret
      BY <1>4, <1>5, <1>8, <2>1, <3>1
    <3> QED BY <1>8, <3>2 DEF Paired
  <2>2. CASE copy.totp /\ new.secret = copy.secret
    <3>1. users'[u].totp = users[u].totp /\ users'[u].secret = users[u].secret
      BY <1>4, <1>5, <1>8, <2>2
    <3> QED BY <1>3, <3>1 DEF Paired
  <2>3. CASE ~copy.totp
    <3>1. copy.secret = 0 /\ new.totp # copy.totp
      BY <1>3, <1>8, <2>3 DEF Paired
    <3>2. users'[u].totp /\ users'[u].secret = new.secret
      BY <1>4, <1>8, <3>1
    <3> QED BY <1>8, <3>2 DEF Paired
  <2> QED BY <1>5, <2>1, <2>2, <2>3
<1>9. \/ new.totp = copy.totp /\ new.secret = copy.secret
      \/ ~new.totp /\ new.secret = 0
      \/ new.totp /\ new.secret # 0
  BY DEF Commits, NewCode, NoCode, NewSecret
<1> QED BY <1>6, <1>7, <1>8, <1>9

LEMMA TotpStep ==
  ASSUME AccInv, AccInv', FactorInv, [Next]_vars
  PROVE  FactorInv'
<1>1. Kept /\ skewed \subseteq skewed'
  BY Parts, FactorSteps, FinishKept, LoginCodeStep
  DEF Plain, Commits, NewCode, NoCode, NewSecret
<1>2. ASSUME NEW t \in Threads, Holds(t)', req'[t].user \notin skewed'
      PROVE  Paired(req'[t].copy)
  BY <1>1, <1>2 DEF Kept, FactorInv
<1>3. ASSUME NEW u \in Users, u \notin skewed'
      PROVE  Paired(users'[u])
  <2>1. Paired(users[u])
    BY <1>1, <1>3 DEF FactorInv
  <2>2. CASE users'[u].totp = users[u].totp /\ users'[u].secret = users[u].secret
    BY <2>1, <2>2 DEF Paired
  <2>3. ASSUME NEW t \in Threads, NEW new \in Row, Commits(t, new)
        PROVE  Paired(users'[u])
    <3>1. CASE u = req[t].user
      BY <1>3, <2>3, <3>1, PairedRow
    <3>2. CASE u # req[t].user
      <4>1. users'[u] = users[u]
        BY <2>3, <3>2, Parts, CommitColumns DEF Commits
      <4> QED BY <2>1, <4>1
    <3> QED BY <3>1, <3>2
  <2> QED BY <2>2, <2>3, FactorSteps, LoginCodeStep DEF Plain, SameFactors
<1> QED BY <1>2, <1>3 DEF FactorInv

\* Whatever set-ups, resets and switches of TOTP overlap, an account that asks for a code
\* holds the secret to compare it with, unless a set-up was confirmed over a row where TOTP
\* had been switched off.
THEOREM TotpStaysUsable == Spec => []TotpUsable
<1>1. Init => FactorInv
  <2> SUFFICES ASSUME Init PROVE FactorInv
    OBVIOUS
  <2>1. PICK d \in Deployments : users = d.users
    BY DEF Init
  <2>2. \A t \in Threads : ~Holds(t)
    BY DEF Init, Holds, Idle
  <2> QED BY <2>1, <2>2, DeploymentsAssumption DEF FactorInv, Paired
<1>2. AccInv /\ AccInv' /\ FactorInv /\ [Next]_vars => FactorInv'
  BY TotpStep
<1>3. FactorInv => TotpUsable
  BY DEF FactorInv, Paired, TotpUsable
<1> QED BY <1>1, <1>2, <1>3, AccInvariant, PTL DEF Spec

\* What a step makes of the codes: one is made, or they go or stay.
CodeRow(v) ==
  \/ users'[v].code = users[v].code
  \/ users'[v].code = 0
  \/ /\ users'[v].code = made["code"] + 1 /\ made'["code"] = made["code"] + 1
     /\ \A w \in Users \ {v} : users'[w].code = users[w].code

LEMMA CodeNat == AccInv => made["code"] \in Nat /\ \A u \in Users : users[u].code \in Nat
  BY AccountsAssumption DEF AccInv, TypeOK, Row, Made, Ids

LEMMA CodeMoves ==
  ASSUME AccInv, [Next]_vars
  PROVE  /\ made'["code"] >= made["code"] /\ Kept
         /\ \A v \in Users : CodeRow(v) /\ StateGoesOn(v)
<1>1. CASE Plain
  BY <1>1, CodeNat DEF Plain, SameFactors, CodeRow
<1>2. ASSUME NEW t \in Threads, LoginCode(t)
      PROVE  /\ made'["code"] >= made["code"] /\ Kept
             /\ \A v \in Users : CodeRow(v) /\ StateGoesOn(v)
  BY <1>2, CodeNat, LoginCodeStep DEF CodeRow, StateGoesOn
<1>3. ASSUME NEW t \in Threads, NEW new \in Row, Commits(t, new)
      PROVE  /\ made'["code"] >= made["code"] /\ Kept
             /\ \A v \in Users : CodeRow(v) /\ StateGoesOn(v)
  <2> DEFINE u == req[t].user  copy == req[t].copy
  <2>1. /\ u \in Users /\ Finish(t) /\ new.state = copy.state /\ Commit(t, new)
        /\ copy \in Row
    BY <1>3 DEF Commits
  <2>2. /\ \A v \in Users : v # u => users'[v] = users[v]
        /\ \A v \in Users : StateGoesOn(v)
        /\ users'[u].code = IF users[u].state = "live" /\ new.code # copy.code
                            THEN new.code ELSE users[u].code
    <3>1. "code" \in Cols
      BY DEF Cols
    <3> QED BY <2>1, <3>1, Parts, CommitColumns
  <2>3. \/ new.code = made["code"] + 1 /\ made'["code"] = made["code"] + 1
        \/ new.code \in {0, copy.code} /\ made'["code"] = made["code"]
    BY <1>3 DEF Commits, NewCode, NoCode, NewSecret
  <2>4. made'["code"] >= made["code"]
    BY <2>3, CodeNat
  <2>5. \A v \in Users : CodeRow(v)
    BY <2>2, <2>3 DEF CodeRow
  <2> QED BY <2>1, <2>2, <2>4, <2>5, Parts, FinishKept
<1> QED BY <1>1, <1>2, <1>3, FactorSteps

LEMMA OpeningHeld ==
  ASSUME AccInv, NEW t \in Threads, Opening(t)
  PROVE  Holds(t) /\ req[t].user \in Users /\ req[t].copy \in Row
  BY LoadedReq, Parts DEF Opening, Holds

LEMMA OpeningsFinite ==
  ASSUME NEW c
  PROVE  /\ IsFiniteSet(Openings(c)) /\ Cardinality(Openings(c)) \in Nat
         /\ Cardinality(Openings(c)) <= Cardinality(Threads) /\ Cardinality(Threads) \in Nat
<1>1. Openings(c) \in SUBSET Threads
  BY DEF Openings
<1> QED BY <1>1, FS_Subset, FS_CardinalityType, AccountsAssumption

\* A code that was used is read no more.
LEMMA UsedCode ==
  ASSUME AccInv, CodeInv, [Next]_vars, NEW c \in Ids, uses[c] > 0
  PROVE  /\ c # 0 /\ c <= made'["code"]
         /\ \A u \in Users : users'[u].code = c => users'[u].state = "deleted"
         /\ Openings(c)' \subseteq Openings(c)
<1>1. /\ c # 0 /\ c <= made["code"] /\ made["code"] \in Nat /\ c \in Nat
      /\ \A u \in Users : users[u].code = c => users[u].state = "deleted"
  BY CodeNat DEF CodeInv, Ids
<1>2. made'["code"] >= made["code"] /\ Kept /\ \A v \in Users : CodeRow(v) /\ StateGoesOn(v)
  BY CodeMoves
<1>3. made'["code"] \in Nat
  <2>1. AccInv'
    BY AccNext
  <2> QED BY <2>1, AccountsAssumption DEF AccInv, TypeOK, Made, Ids
<1>4. ASSUME NEW u \in Users, users'[u].code = c PROVE users'[u].state = "deleted"
  BY <1>1, <1>2, <1>4 DEF CodeRow, StateGoesOn
<1>5. ASSUME NEW s \in Threads, Opening(s)', req'[s].copy.code = c
      PROVE  s \in Openings(c)
  <2>1. Holds(s)'
    BY <1>5 DEF Opening, Holds
  <2> QED BY <1>1, <1>2, <1>5, <2>1 DEF Kept, Openings
<1>6. Openings(c)' \subseteq Openings(c)
  BY <1>5 DEF Openings
<1> QED BY <1>1, <1>2, <1>3, <1>4, <1>6

LEMMA CodeStep ==
  ASSUME AccInv, AccInv', CodeInv, [Next]_vars
  PROVE  CodeInv'
<1>1. /\ made'["code"] >= made["code"] /\ Kept
      /\ \A v \in Users : CodeRow(v) /\ StateGoesOn(v)
      /\ made["code"] \in Nat /\ made'["code"] \in Nat
  <2>1. made'["code"] \in Nat
    BY AccountsAssumption DEF AccInv, TypeOK, Made, Ids
  <2> QED BY <2>1, CodeMoves, CodeNat
<1>2. \A u \in Users : users[u].code \in 0 .. made["code"]
  BY DEF CodeInv
<1>3. \A u \in Users : users'[u].code \in 0 .. made'["code"]
  BY <1>1, <1>2 DEF CodeRow
<1>4. ASSUME NEW u \in Users, NEW v \in Users, u # v, users'[u].code = users'[v].code
      PROVE  users'[u].code = 0
  <2>1. users[u].code = users[v].code => users[u].code = 0
    BY <1>4 DEF CodeInv
  <2> QED BY <1>1, <1>2, <1>4, <2>1 DEF CodeRow
<1>5. ASSUME NEW s \in Threads, Holds(s)'
      PROVE  /\ req'[s].copy.code \in 0 .. made'["code"]
             /\ \A v \in Users : v # req'[s].user /\ req'[s].copy.code = users'[v].code
                                   => users'[v].code = 0
  <2>1. /\ req'[s].copy.code \in 0 .. made["code"]
        /\ \A v \in Users : v # req'[s].user /\ req'[s].copy.code = users[v].code
                              => users[v].code = 0
    <3>1. CASE Holds(s) /\ req'[s].copy = req[s].copy /\ req'[s].user = req[s].user
      BY <3>1 DEF CodeInv
    <3>2. CASE req'[s].user \in Users /\ req'[s].copy = users[req'[s].user]
      BY <3>2 DEF CodeInv
    <3> QED BY <1>1, <1>5, <3>1, <3>2 DEF Kept
  <2>2. ASSUME NEW v \in Users, v # req'[s].user, req'[s].copy.code = users'[v].code
        PROVE  users'[v].code = 0
    BY <1>1, <2>1, <2>2 DEF CodeRow
  <2> QED BY <1>1, <2>1, <2>2
<1>6. ASSUME NEW s \in Threads, Opening(s)'
      PROVE  users'[req'[s].user].state # "none"
  <2>1. Holds(s)'
    BY <1>6 DEF Opening, Holds
  <2>2. CASE req'[s].user = req[s].user /\ Opening(s)
    <3>1. users[req[s].user].state # "none" /\ req[s].user \in Users
      BY <2>2, OpeningHeld DEF CodeInv
    <3> QED BY <1>1, <2>2, <3>1 DEF StateGoesOn
  <2>3. CASE req'[s].user \in Users /\ users[req'[s].user].state = "live"
    BY <1>1, <2>3 DEF StateGoesOn
  <2> QED BY <1>1, <1>6, <2>1, <2>2, <2>3 DEF Kept
<1>7. ASSUME NEW c \in Ids, uses'[c] > 0
      PROVE  /\ c # 0 /\ c <= made'["code"]
             /\ \A u \in Users : users'[u].code = c => users'[u].state = "deleted"
             /\ uses'[c] + Cardinality(Openings(c)') <= Cardinality(Threads)
  <2>1. /\ uses \in [Ids -> Nat] /\ uses' \in [Ids -> Nat] /\ c \in Nat
    BY DEF AccInv, TypeOK, Ids
  <2>2. CASE uses'[c] = uses[c]
    <3>1. Openings(c)' \subseteq Openings(c)
      BY <1>7, <2>2, UsedCode
    <3>2. /\ Cardinality(Openings(c)') <= Cardinality(Openings(c))
          /\ Cardinality(Openings(c)') \in Nat
      BY <3>1, FS_Subset, FS_CardinalityType, OpeningsFinite
    <3>3. uses[c] + Cardinality(Openings(c)) <= Cardinality(Threads)
      BY <1>7, <2>2 DEF CodeInv
    <3> QED BY <1>7, <2>1, <2>2, <3>2, <3>3, OpeningsFinite, UsedCode
  <2>3. ASSUME NEW t \in Threads, LoginCode(t), c = req[t].copy.code
        PROVE  /\ c # 0 /\ c <= made'["code"]
               /\ \A u \in Users : users'[u].code = c => users'[u].state = "deleted"
               /\ uses'[c] + Cardinality(Openings(c)') <= Cardinality(Threads)
    <3> DEFINE u == req[t].user
    <3>1. /\ u \in Users /\ Opening(t) /\ Holds(t) /\ c # 0
          /\ uses' = [uses EXCEPT ![c] = @ + 1]
          /\ \A v \in Users : users'[v].state = users[v].state
          /\ \A v \in Users : users'[v].code = IF v = u /\ users[v].state = "live"
                                                THEN 0 ELSE users[v].code
      BY <2>3, LoginCodeStep
    <3>2. c <= made["code"] /\ \A v \in Users : v # u /\ c = users[v].code => users[v].code = 0
      BY <2>3, <3>1 DEF CodeInv
    <3>3. ASSUME NEW v \in Users, users'[v].code = c
          PROVE  users'[v].state = "deleted"
      <4>1. v = u /\ users[u].state # "live"
        BY <3>1, <3>2, <3>3
      <4>2. users[u].state # "none" /\ users[u] \in Row
        BY <3>1 DEF CodeInv, AccInv, TypeOK
      <4> QED BY <3>1, <4>1, <4>2 DEF Row
    <3>4. Openings(c)' \subseteq Openings(c) \ {t} /\ t \in Openings(c)
      <4>1. ASSUME NEW s \in Threads, Opening(s)', req'[s].copy.code = c
            PROVE  s \in Openings(c) /\ s # t
        <5>1. Holds(s)'
          BY <4>1 DEF Opening, Holds
        <5>2. req'[s].copy = req[s].copy /\ Opening(s) /\ s # t
          BY <2>3, <4>1, <5>1, LoginCodeStep
        <5> QED BY <4>1, <5>2 DEF Openings
      <4> QED BY <2>3, <3>1, <4>1 DEF Openings
    <3>5. /\ IsFiniteSet(Openings(c) \ {t})
          /\ Cardinality(Openings(c) \ {t}) = Cardinality(Openings(c)) - 1
      BY <3>4, OpeningsFinite, FS_RemoveElement
    <3>6. /\ Cardinality(Openings(c)') <= Cardinality(Openings(c)) - 1
          /\ Cardinality(Openings(c)') \in Nat
      BY <3>4, <3>5, FS_Subset, FS_CardinalityType
    <3>7. uses[c] + Cardinality(Openings(c)) <= Cardinality(Threads)
      <4>1. CASE uses[c] > 0
        BY <4>1 DEF CodeInv
      <4>2. CASE uses[c] = 0
        BY <4>2, OpeningsFinite
      <4> QED BY <2>1, <4>1, <4>2
    <3>8. uses'[c] = uses[c] + 1
      BY <2>1, <3>1
    <3> QED BY <1>1, <2>1, <3>1, <3>2, <3>3, <3>6, <3>7, <3>8, OpeningsFinite
  <2>4. uses'[c] = uses[c] \/ \E t \in Threads : LoginCode(t) /\ c = req[t].copy.code
    BY <2>1, FactorSteps, LoginCodeStep DEF Plain, Commits
  <2> QED BY <2>2, <2>3, <2>4
<1> QED BY <1>3, <1>4, <1>5, <1>6, <1>7 DEF CodeInv

\* A code from a mail opens at most as many logins as there are threads: those that had
\* read it before the first of them cleared it, whatever else happens to the row.
THEOREM CodesAreBounded == Spec => []CodeUsesBounded
<1>1. Init => CodeInv
  <2> SUFFICES ASSUME Init PROVE CodeInv
    OBVIOUS
  <2>1. PICK d \in Deployments : users = d.users
    BY DEF Init
  <2>2. \A t \in Threads : ~Holds(t) /\ ~Opening(t)
    BY DEF Init, Holds, Opening, Idle
  <2>3. made["code"] \in Nat /\ \A u \in Users : users[u].code = 0
    BY <2>1, AccInit, CodeNat, DeploymentsAssumption
  <2>4. \A c \in Ids : uses[c] = 0
    BY DEF Init
  <2> QED BY <2>2, <2>3, <2>4 DEF CodeInv
<1>2. AccInv /\ AccInv' /\ CodeInv /\ [Next]_vars => CodeInv'
  BY CodeStep
<1>3. AccInv /\ CodeInv => CodeUsesBounded
  <2> SUFFICES ASSUME AccInv, CodeInv, NEW c \in Ids PROVE uses[c] <= Cardinality(Threads)
    BY DEF CodeUsesBounded
  <2>1. uses[c] \in Nat
    BY DEF AccInv, TypeOK
  <2>2. CASE uses[c] > 0
    BY <2>1, <2>2, OpeningsFinite DEF CodeInv
  <2>3. CASE uses[c] = 0
    BY <2>3, OpeningsFinite
  <2> QED BY <2>1, <2>2, <2>3
<1> QED BY <1>1, <1>2, <1>3, AccInvariant, PTL DEF Spec

-----------------------------------------------------------------------------
\* The lockout

\* Requests that have read how often the password of u was wrong, and may yet count it.
Counting(t, u) ==
  /\ req[t].at = "failing" \/ (req[t].at = "loaded" /\ req[t].route \in OpenRoutes)
  /\ req[t].user = u

\* The count that thread t can write next is above x: the one it has read, or the one it
\* would read, and no more than what the row holds; the row of a deleted user is read by
\* nobody, so it bounds nothing.
RowOver(u, x) ==
  users[u].state = "deleted" \/ (users[u].state = "live" /\ users[u].failed > x)
Over(t, u, x) == RowOver(u, x) /\ (Counting(t, u) => req[t].copy.failed > x)

Level(u) == [x \in 0 .. Lockout - 2 |-> Cardinality({t \in Threads : Over(t, u, x)})]

\* The order in which the multisets are reached: more counts are above the least count
\* at which two multisets differ.
Before(h, g) == \E y \in 0 .. Lockout - 2 : h[y] < g[y] /\ \A x \in 0 .. y - 1 : h[x] = g[x]
Reached(g)   == {h \in Multisets : Before(h, g)}

\* Each wrong answer since the last lock took the counts to a later multiset.
LockInv ==
  \A u \in Users :
    /\ wrong[u] <= Cardinality(Reached(Level(u)))
    /\ \A t \in Threads : Counting(t, u) => users[u].state # "none"

LEMMA LevelsFinite ==
  /\ IsFiniteSet(Multisets) /\ Cardinality(Multisets) \in Nat
  /\ \A g : /\ IsFiniteSet(Reached(g)) /\ Cardinality(Reached(g)) \in Nat
            /\ g \in Multisets => Cardinality(Reached(g)) <= LostBound
<1> DEFINE D == 0 .. Lockout - 2
           R == 0 .. Cardinality(Threads)
<1>1. Cardinality(Threads) \in Nat /\ Lockout \in Nat
  BY AccountsAssumption, FS_CardinalityType
<1>2. IsFiniteSet(D) /\ IsFiniteSet(R)
  BY <1>1, FS_Interval
<1>3. IsFiniteSet(D \X R)
  BY <1>2, FS_Product
<1>4. IsFiniteSet(SUBSET (D \X R))
  BY <1>3, FS_SUBSET
<1> DEFINE graph(m) == {p \in D \X R : p[2] = m[p[1]]}
           G == [m \in Multisets |-> graph(m)]
<1>5. G \in Injection(Multisets, SUBSET (D \X R))
  <2>1. G \in [Multisets -> SUBSET (D \X R)]
    OBVIOUS
  <2>2. ASSUME NEW m \in Multisets, NEW k \in Multisets, graph(m) = graph(k)
        PROVE  m = k
    <3>1. m \in [D -> R] /\ k \in [D -> R]
      BY DEF Multisets
    <3>2. ASSUME NEW x \in D PROVE m[x] = k[x]
      <4>1. <<x, m[x]>> \in graph(m)
        BY <3>1
      <4>2. <<x, m[x]>> \in graph(k)
        BY <2>2, <4>1
      <4> QED BY <4>2
    <3>3. m = [x \in D |-> m[x]] /\ k = [x \in D |-> k[x]]
      BY <3>1
    <3> HIDE DEF D
    <3> QED BY <3>2, <3>3
  <2> HIDE DEF graph
  <2> QED BY <2>1, <2>2 DEF Injection, IsInjective
<1>6. IsFiniteSet(Multisets)
  BY <1>4, <1>5, FS_Injection
<1>7. ASSUME NEW g
      PROVE  /\ IsFiniteSet(Reached(g)) /\ Cardinality(Reached(g)) \in Nat
             /\ g \in Multisets => Cardinality(Reached(g)) <= LostBound
  <2>1. Reached(g) \in SUBSET Multisets
    BY DEF Reached
  <2>2. IsFiniteSet(Reached(g)) /\ Cardinality(Reached(g)) \in Nat
    BY <1>6, <2>1, FS_Subset, FS_CardinalityType
  <2>3. ASSUME g \in Multisets PROVE Cardinality(Reached(g)) <= LostBound
    <3>1. g \notin Reached(g)
      <4>1. g \in [D -> R]
        BY <2>3 DEF Multisets
      <4>2. \A y \in D : g[y] \in Nat
        BY <1>1, <4>1
      <4> QED BY <4>2 DEF Reached, Before
    <3>2. Reached(g) \in SUBSET (Multisets \ {g})
      BY <2>1, <3>1
    <3>3. /\ IsFiniteSet(Multisets \ {g})
          /\ Cardinality(Multisets \ {g}) = Cardinality(Multisets) - 1
      BY <1>6, <2>3, FS_RemoveElement
    <3>4. Cardinality(Reached(g)) <= Cardinality(Multisets \ {g})
      BY <3>2, <3>3, FS_Subset
    <3> QED BY <3>3, <3>4 DEF LostBound
  <2> QED BY <2>2, <2>3
<1> QED BY <1>6, <1>7, FS_CardinalityType

\* A set of naturals has a least member.
LEMMA Least ==
  ASSUME NEW T \in SUBSET Nat, T # {}
  PROVE  \E x \in T : \A y \in T : x <= y
<1> DEFINE R == OpToRel(<, Nat)
<1>1. IsWellFoundedOn(R, Nat)
  BY NatLessThanWellFounded
<1>2. \A x, y \in Nat : x < y => <<x, y>> \in R
  BY DEF OpToRel
<1> HIDE DEF R
<1>3. PICK x \in T : \A y \in T : ~(<<y, x>> \in R)
  BY <1>1, WFMin
<1>4. \A y \in T : ~(y < x)
  BY <1>2, <1>3
<1> QED BY <1>4

\* The order is transitive, and a multiset nowhere below another is not before it.
LEMMA BeforeTransitive ==
  ASSUME NEW f \in Multisets, NEW g \in Multisets, NEW h \in Multisets,
         Before(f, g), Before(g, h)
  PROVE  Before(f, h)
<1>1. \A x \in 0 .. Lockout - 2 : f[x] \in Nat /\ g[x] \in Nat /\ h[x] \in Nat
  <2>1. Cardinality(Threads) \in Nat
    BY AccountsAssumption, FS_CardinalityType
  <2> QED BY <2>1 DEF Multisets
<1>2. PICK y \in 0 .. Lockout - 2 : f[y] < g[y] /\ \A x \in 0 .. y - 1 : f[x] = g[x]
  BY DEF Before
<1>3. PICK z \in 0 .. Lockout - 2 : g[z] < h[z] /\ \A x \in 0 .. z - 1 : g[x] = h[x]
  BY DEF Before
<1>4. Lockout \in Nat
  BY AccountsAssumption
<1>5. CASE y <= z
  <2>1. f[y] < h[y]
    BY <1>1, <1>2, <1>3, <1>4, <1>5
  <2>2. \A x \in 0 .. y - 1 : f[x] = h[x]
    BY <1>2, <1>3, <1>4, <1>5
  <2> QED BY <2>1, <2>2 DEF Before
<1>6. CASE y > z
  <2>1. f[z] < h[z]
    BY <1>1, <1>2, <1>3, <1>4, <1>6
  <2>2. \A x \in 0 .. z - 1 : f[x] = h[x]
    BY <1>2, <1>3, <1>4, <1>6
  <2> QED BY <2>1, <2>2 DEF Before
<1> QED BY <1>4, <1>5, <1>6

LEMMA RisenReached ==
  ASSUME NEW g \in Multisets, NEW h \in Multisets, \A x \in 0 .. Lockout - 2 : g[x] <= h[x]
  PROVE  Reached(g) \subseteq Reached(h)
<1> DEFINE D == 0 .. Lockout - 2
           U == {x \in D : g[x] < h[x]}
<1>1. \A x \in D : g[x] \in Nat /\ h[x] \in Nat
  <2>1. Cardinality(Threads) \in Nat
    BY AccountsAssumption, FS_CardinalityType
  <2> QED BY <2>1 DEF Multisets
<1>2. Lockout \in Nat
  BY AccountsAssumption
<1>3. CASE U = {}
  <2>1. \A x \in D : g[x] = h[x]
    BY <1>1, <1>3
  <2>2. g = [x \in D |-> g[x]] /\ h = [x \in D |-> h[x]]
    BY DEF Multisets
  <2> HIDE DEF D
  <2>3. g = h
    BY <2>1, <2>2
  <2> QED BY <2>3
<1>4. CASE U # {}
  <2>0. U \in SUBSET Nat
    BY <1>2
  <2> HIDE DEF U
  <2>1. PICK y \in U : \A x \in U : y <= x
    BY <1>4, <2>0, Least
  <2> USE DEF U
  <2>2. \A x \in 0 .. y - 1 : g[x] = h[x]
    BY <1>1, <1>2, <2>1
  <2>3. Before(g, h)
    BY <2>1, <2>2 DEF Before
  <2> QED BY <2>3, BeforeTransitive DEF Reached
<1> QED BY <1>3, <1>4

LEMMA LaterReached ==
  ASSUME NEW g \in Multisets, NEW h \in Multisets, Before(g, h)
  PROVE  Cardinality(Reached(g)) + 1 <= Cardinality(Reached(h))
<1>1. g \notin Reached(g)
  <2>1. Cardinality(Threads) \in Nat
    BY AccountsAssumption, FS_CardinalityType
  <2>2. \A x \in 0 .. Lockout - 2 : g[x] \in Nat
    BY <2>1 DEF Multisets
  <2> QED BY <2>2 DEF Reached, Before
<1>2. /\ IsFiniteSet(Reached(g) \cup {g})
      /\ Cardinality(Reached(g) \cup {g}) = Cardinality(Reached(g)) + 1
  BY <1>1, LevelsFinite, FS_AddElement
<1>3. Reached(g) \cup {g} \in SUBSET Reached(h)
  BY BeforeTransitive DEF Reached
<1>4. IsFiniteSet(Reached(h))
  BY LevelsFinite
<1>5. Cardinality(Reached(g) \cup {g}) <= Cardinality(Reached(h))
  BY <1>3, <1>4, FS_Subset
<1> QED BY <1>2, <1>5

-----------------------------------------------------------------------------
\* The steps, as far as they touch the counts.

RowGoesOn(u) ==
  /\ StateGoesOn(u)
  /\ users[u].state = "live" =>
       \/ users'[u].state = "deleted"
       \/ users'[u].state = "live" /\ users'[u].failed = users[u].failed
Takes(s, u) ==
  Counting(s, u)' =>
    \/ Counting(s, u) /\ req'[s].copy.failed = req[s].copy.failed
    \/ users[u].state = "live" /\ req'[s].copy.failed = users[u].failed

\* A step that counts and clears nothing.
Calm(u) == wrong'[u] = wrong[u] /\ RowGoesOn(u) /\ \A s \in Threads : Takes(s, u)

Cleared(u) == wrong'[u] = 0 /\ StateGoesOn(u) /\ \A s \in Threads : Takes(s, u)

\* Thread t writes the count it has read, plus one, and that does not lock the account.
Counted(t, u) ==
  /\ Counting(t, u) /\ ~Counting(t, u)' /\ StateGoesOn(u)
  /\ wrong'[u] \in {wrong[u], wrong[u] + 1} /\ req[t].copy.failed + 1 < Lockout
  /\ users[u].state = "live" =>
       users'[u].state = "live" /\ users'[u].failed = req[t].copy.failed + 1
  /\ \A s \in Threads \ {t} : req'[s] = req[s]

LEMMA StateTypes ==
  ASSUME AccInv
  PROVE  \A u \in Users :
           /\ users[u].state \in {"none", "live", "deleted"} /\ users[u].failed \in Nat
           /\ wrong[u] \in Nat
           /\ \A t \in Threads : Counting(t, u) => req[t].copy.failed \in Nat
<1> SUFFICES ASSUME NEW u \in Users
             PROVE  /\ users[u].state \in {"none", "live", "deleted"} /\ users[u].failed \in Nat
                    /\ wrong[u] \in Nat
                    /\ \A t \in Threads : Counting(t, u) => req[t].copy.failed \in Nat
  OBVIOUS
<1>1. users[u] \in Row /\ wrong[u] \in Nat
  BY DEF AccInv, TypeOK
<1>2. ASSUME NEW t \in Threads, Counting(t, u) PROVE req[t].copy.failed \in Nat
  <2>1. req[t].copy \in Row
    BY <1>2, LoadedReq, Parts DEF Counting
  <2> QED BY <2>1 DEF Row
<1> QED BY <1>1, <1>2 DEF Row

LEMMA LevelType == AccInv => \A v \in Users : Level(v) \in Multisets
<1> SUFFICES ASSUME AccInv, NEW u \in Users PROVE Level(u) \in Multisets
  OBVIOUS
<1> DEFINE D == 0 .. Lockout - 2
           O(x) == {t \in Threads : Over(t, u, x)}
<1>1. \A x \in D : /\ IsFiniteSet(O(x)) /\ Cardinality(O(x)) \in Nat
                   /\ Cardinality(O(x)) <= Cardinality(Threads) /\ Cardinality(Threads) \in Nat
  <2> SUFFICES ASSUME NEW x \in D
               PROVE  /\ IsFiniteSet(O(x)) /\ Cardinality(O(x)) \in Nat
                      /\ Cardinality(O(x)) <= Cardinality(Threads)
                      /\ Cardinality(Threads) \in Nat
    OBVIOUS
  <2>1. O(x) \in SUBSET Threads
    OBVIOUS
  <2> HIDE DEF O
  <2> QED BY <2>1, FS_Subset, FS_CardinalityType, AccountsAssumption
<1>2. ASSUME NEW x \in D, NEW y \in D, x <= y
      PROVE  Cardinality(O(y)) <= Cardinality(O(x))
  <2>1. Lockout \in Nat
    BY AccountsAssumption
  <2>2. O(y) \in SUBSET O(x)
    <3> SUFFICES ASSUME NEW t \in Threads, Over(t, u, y) PROVE Over(t, u, x)
      OBVIOUS
    <3>1. \A n \in Nat : n > y => n > x
      BY <1>2, <2>1
    <3>2. RowOver(u, x)
      BY <3>1, StateTypes DEF Over, RowOver
    <3>3. Counting(t, u) => req[t].copy.failed > x
      BY <3>1, StateTypes DEF Over
    <3> QED BY <3>2, <3>3 DEF Over
  <2> HIDE DEF O
  <2> QED BY <1>1, <2>2, FS_Subset
<1>3. \A x \in D : Level(u)[x] = Cardinality(O(x)) /\ Level(u) = [z \in D |-> Cardinality(O(z))]
  BY DEF Level
<1>4. \A x \in D : Cardinality(O(x)) \in 0 .. Cardinality(Threads)
  BY <1>1
<1>5. Level(u) = [z \in D |-> Cardinality(O(z))]
  BY DEF Level
<1> HIDE DEF O
<1>6. Level(u) \in [D -> 0 .. Cardinality(Threads)]
  BY <1>4, <1>5
<1> QED BY <1>2, <1>3, <1>6 DEF Multisets

LEMMA LevelTypeNext == AccInv' => \A v \in Users : Level(v)' \in Multisets
<1>1. (AccInv => \A v \in Users : Level(v) \in Multisets)'
  BY LevelType, PTL
<1> QED BY <1>1

\* A step that is calm for u takes the counts nowhere below what they were.
LEMMA CalmRises ==
  ASSUME AccInv, AccInv', NEW u \in Users, Calm(u)
  PROVE  Cardinality(Reached(Level(u))) <= Cardinality(Reached(Level(u)'))
<1>1. Level(u) \in Multisets /\ Level(u)' \in Multisets
  BY LevelType, LevelTypeNext
<1>2. ASSUME NEW x \in 0 .. Lockout - 2
      PROVE  Level(u)[x] <= Level(u)'[x]
  <2> DEFINE O == {t \in Threads : Over(t, u, x)}
             P == {t \in Threads : Over(t, u, x)'}
  <2>1. O \in SUBSET P
    <3> SUFFICES ASSUME NEW t \in Threads, Over(t, u, x) PROVE Over(t, u, x)'
      OBVIOUS
    <3>1. RowOver(u, x)'
      BY StateTypes DEF Calm, RowGoesOn, StateGoesOn, Over, RowOver
    <3>2. ASSUME Counting(t, u)' PROVE req'[t].copy.failed > x
      BY <3>2 DEF Calm, Takes, Over, RowOver
    <3> QED BY <3>1, <3>2 DEF Over
  <2>2. P \in SUBSET Threads
    OBVIOUS
  <2>3. Level(u)[x] = Cardinality(O) /\ Level(u)'[x] = Cardinality(P)
    BY DEF Level
  <2> HIDE DEF O, P
  <2> QED BY <2>1, <2>2, <2>3, FS_Subset, AccountsAssumption
<1>3. Reached(Level(u)) \in SUBSET Reached(Level(u)')
  BY <1>1, <1>2, RisenReached
<1> QED BY <1>3, LevelsFinite, FS_Subset

\* A wrong answer takes the counts to a later multiset: below the count that was written
\* nothing changes, and the thread that wrote it is above that count now.
LEMMA CountedRises ==
  ASSUME AccInv, AccInv', LockInv, NEW u \in Users, NEW t \in Threads, Counted(t, u)
  PROVE  Cardinality(Reached(Level(u))) + 1 <= Cardinality(Reached(Level(u)'))
<1>1. Level(u) \in Multisets /\ Level(u)' \in Multisets
  BY LevelType, LevelTypeNext
<1>2. PICK v \in Nat : v = req[t].copy.failed
  BY StateTypes DEF Counted
<1>3. PICK y \in Nat : y = IF users[u].state = "live" /\ users[u].failed < v
                           THEN users[u].failed ELSE v
  BY StateTypes
<1>4. y <= v /\ v <= Lockout - 2 /\ Lockout \in Nat /\ users[u].state \in {"live", "deleted"}
  BY <1>2, <1>3, StateTypes, AccountsAssumption DEF Counted, LockInv
<1>5. \A x \in 0 .. y : RowOver(u, x)'
  BY <1>2, <1>3, <1>4 DEF RowOver, Counted, StateGoesOn
<1>6. \A x \in 0 .. y - 1 : RowOver(u, x)
  BY <1>2, <1>3, <1>4, StateTypes DEF RowOver
<1>7. \A x \in 0 .. y : Over(t, u, x)'
  BY <1>5 DEF Over, Counted
<1>8. ~Over(t, u, y)
  BY <1>2, <1>3, StateTypes DEF Over, RowOver, Counted
<1>9. \A s \in Threads \ {t} : Counting(s, u)' = Counting(s, u) /\ req'[s] = req[s]
  BY DEF Counted, Counting
<1>10. ASSUME NEW x \in 0 .. y - 1
       PROVE  Level(u)[x] = Level(u)'[x]
  <2>1. \A s \in Threads : Over(s, u, x) <=> Over(s, u, x)'
    <3>1. x \in 0 .. y /\ x \in Nat /\ x < v
      BY <1>4
    <3>2. Over(t, u, x)
      BY <1>2, <1>6, <3>1 DEF Over
    <3>3. Over(t, u, x)'
      BY <1>7, <3>1
    <3>4. ASSUME NEW s \in Threads \ {t} PROVE Over(s, u, x) <=> Over(s, u, x)'
      BY <1>5, <1>6, <1>9, <3>1 DEF Over
    <3> QED BY <3>2, <3>3, <3>4
  <2>2. x \in 0 .. Lockout - 2
    BY <1>4
  <2> QED BY <2>1, <2>2 DEF Level
<1>11. Level(u)[y] < Level(u)'[y]
  <2> DEFINE O == {s \in Threads : Over(s, u, y)}
             P == {s \in Threads : Over(s, u, y)'}
  <2>1. O \in SUBSET P
    <3>1. y \in 0 .. y
      BY <1>4
    <3>2. ASSUME NEW s \in Threads \ {t}, Over(s, u, y) PROVE Over(s, u, y)'
      BY <1>5, <1>9, <3>1, <3>2 DEF Over
    <3> QED BY <1>8, <3>2
  <2>2. t \in P /\ t \notin O /\ P \in SUBSET Threads
    BY <1>7, <1>8
  <2>3. y \in 0 .. Lockout - 2
    BY <1>4
  <2>4. Level(u)[y] = Cardinality(O) /\ Level(u)'[y] = Cardinality(P)
    BY <2>3 DEF Level
  <2> HIDE DEF O, P
  <2>5. IsFiniteSet(P) /\ IsFiniteSet(O) /\ Cardinality(O) \in Nat
    BY <2>1, <2>2, FS_Subset, FS_CardinalityType, AccountsAssumption
  <2>6. Cardinality(O \cup {t}) = Cardinality(O) + 1 /\ O \cup {t} \in SUBSET P
    BY <2>1, <2>2, <2>5, FS_AddElement
  <2>7. Cardinality(O \cup {t}) <= Cardinality(P)
    BY <2>5, <2>6, FS_Subset
  <2>8. Cardinality(P) \in Nat
    BY <2>5, FS_CardinalityType
  <2> QED BY <2>4, <2>5, <2>6, <2>7, <2>8
<1>12. Before(Level(u), Level(u)')
  <2>1. y \in 0 .. Lockout - 2
    BY <1>4
  <2> QED BY <1>10, <1>11, <2>1 DEF Before
<1> QED BY <1>1, <1>12, LaterReached

\* However a step counts, the invariant goes on for a user.
LEMMA LockGoesOn ==
  ASSUME AccInv, AccInv', LockInv, NEW u \in Users,
         Calm(u) \/ Cleared(u) \/ \E t \in Threads : Counted(t, u)
  PROVE  /\ wrong'[u] <= Cardinality(Reached(Level(u)'))
         /\ \A s \in Threads : Counting(s, u)' => users'[u].state # "none"
<1>1. wrong[u] \in Nat /\ wrong[u] <= Cardinality(Reached(Level(u)))
  BY StateTypes DEF LockInv
<1>2. /\ Cardinality(Reached(Level(u))) \in Nat
      /\ Cardinality(Reached(Level(u)')) \in Nat
  BY LevelsFinite
<1>3. CASE Calm(u)
  BY <1>1, <1>2, <1>3, CalmRises DEF Calm, RowGoesOn, StateGoesOn, LockInv, Takes
<1>4. CASE Cleared(u)
  BY <1>2, <1>4 DEF Cleared, StateGoesOn, LockInv, Takes
<1>5. ASSUME NEW t \in Threads, Counted(t, u)
      PROVE  /\ wrong'[u] <= Cardinality(Reached(Level(u)'))
             /\ \A s \in Threads : Counting(s, u)' => users'[u].state # "none"
  <2>1. Cardinality(Reached(Level(u))) + 1 <= Cardinality(Reached(Level(u)'))
    BY <1>5, CountedRises
  <2>2. wrong'[u] \in {wrong[u], wrong[u] + 1}
    BY <1>5 DEF Counted
  <2>3. wrong'[u] <= Cardinality(Reached(Level(u)'))
    BY <1>1, <1>2, <2>1, <2>2
  <2>4. ASSUME NEW s \in Threads, Counting(s, u)' PROVE users'[u].state # "none"
    BY <1>5, <2>4 DEF Counted, Counting, LockInv, StateGoesOn
  <2> QED BY <2>3, <2>4
<1> QED BY <1>3, <1>4, <1>5

-----------------------------------------------------------------------------
\* Which steps count

Steady == \A v \in Users : Calm(v)

RowsGoOn == UNCHANGED wrong /\ \A v \in Users : RowGoesOn(v)
AllTake  == \A s \in Threads, v \in Users : Takes(s, v)

LEMMA SteadyParts == RowsGoOn /\ AllTake => Steady
  BY DEF RowsGoOn, AllTake, Steady, Calm

LEMMA RowsUnchanged == UNCHANGED <<users, wrong>> => RowsGoOn
  BY DEF RowsGoOn, RowGoesOn, StateGoesOn

LEMMA FinishTakes ==
  ASSUME ReqOK, NEW t \in Threads, Finish(t)
  PROVE  AllTake /\ (\A s \in Threads \ {t} : req'[s] = req[s])
                 /\ \A v \in Users : ~Counting(t, v)'
  BY DEF ReqOK, Finish, AllTake, Takes, Counting, Idle

LEMMA GoOnTakes ==
  ASSUME ReqOK, NEW t \in Threads, NEW r, req' = [req EXCEPT ![t] = r],
         \/ r.at \notin {"loaded", "failing"}
         \/ r.at # "failing" /\ r.route \notin OpenRoutes
         \/ users[r.user].state = "live" /\ r.copy = users[r.user]
  PROVE  AllTake
<1>1. req'[t] = r /\ \A s \in Threads \ {t} : req'[s] = req[s]
  BY DEF ReqOK
<1>2. ASSUME NEW s \in Threads, NEW v \in Users, Counting(s, v)'
      PROVE  \/ Counting(s, v) /\ req'[s].copy.failed = req[s].copy.failed
             \/ users[v].state = "live" /\ req'[s].copy.failed = users[v].failed
  BY <1>1, <1>2 DEF Counting
<1> QED BY <1>2 DEF AllTake, Takes

\* A commit writes the count when it differs from that of the copy.
LEMMA CommitFailed ==
  ASSUME TypeOK, NEW t \in Threads, req[t].user \in Users, NEW new, Commit(t, new),
         new.state = req[t].copy.state
  PROVE  /\ \A v \in Users : StateGoesOn(v) /\ users'[v].state = users[v].state
         /\ \A v \in Users \ {req[t].user} : users'[v] = users[v]
         /\ users[req[t].user].state = "live" =>
              users'[req[t].user].failed =
                IF new.failed # req[t].copy.failed THEN new.failed
                ELSE users[req[t].user].failed
<1> DEFINE u == req[t].user
           row == Update(users[u], req[t].copy, new)
<1>1. users \in [Users -> Row] /\ DOMAIN users[u] = Cols
  BY DEF TypeOK, Row, Cols
<1>2. /\ row.state = users[u].state
      /\ users[u].state = "live" =>
           row.failed = IF new.failed # req[t].copy.failed THEN new.failed ELSE users[u].failed
  <2>1. CASE users[u].state # "live"
    BY <2>1 DEF Update
  <2>2. CASE users[u].state = "live"
    <3>1. row = [c \in Cols |-> IF new[c] # req[t].copy[c] THEN new[c] ELSE users[u][c]]
      BY <1>1, <2>2 DEF Update
    <3> HIDE DEF row
    <3> QED BY <3>1 DEF Cols
  <2> QED BY <2>1, <2>2
<1>3. users' = [users EXCEPT ![u] = row]
  BY DEF Commit
<1> HIDE DEF row
<1> QED BY <1>1, <1>2, <1>3 DEF StateGoesOn

\* A commit that leaves the count of the copy alone is steady.
LEMMA CommitSteady ==
  ASSUME TypeOK, ReqOK, NEW t \in Threads, req[t].user \in Users, NEW new, Commit(t, new),
         new.state = req[t].copy.state, new.failed = req[t].copy.failed,
         Finish(t), UNCHANGED wrong
  PROVE  Steady
<1>1. RowsGoOn
  BY CommitFailed DEF RowsGoOn, RowGoesOn
<1> QED BY <1>1, FinishTakes, SteadyParts

\* A row that is written directly, with its count.
LEMMA RowSteady ==
  ASSUME TypeOK, NEW u \in Users, NEW row, users' = [users EXCEPT ![u] = row],
         row.failed = users[u].failed,
         \/ row.state \in {users[u].state, "deleted"}
         \/ users[u].state = "none" /\ row.state = "live",
         UNCHANGED wrong, AllTake
  PROVE  Steady
<1>1. users'[u] = row /\ \A v \in Users \ {u} : users'[v] = users[v]
  BY DEF TypeOK
<1>2. RowsGoOn
  BY <1>1 DEF RowsGoOn, RowGoesOn, StateGoesOn
<1> QED BY <1>2, SteadyParts

LEMMA OpenSteady ==
  ASSUME AccInv, NEW t \in Threads, OpenStep(t)
  PROVE  Steady \/ LoginWrong(t) \/ RecordFailure(t) \/ LoginOpen(t)
<1>1. CASE \E u \in Users, r \in OpenRoutes : Read(t, u, r)
  <2>1. PICK u \in Users, r \in OpenRoutes : Read(t, u, r)
    BY <1>1
  <2> DEFINE new == [at |-> "loaded", route |-> r, by |-> None, user |-> u, copy |-> users[u]]
  <2>2. req' = [req EXCEPT ![t] = new] /\ UNCHANGED <<users, wrong>>
        /\ users[u].state = "live"
    BY <2>1 DEF Read, history
  <2>3. new.user = u /\ new.copy = users[u]
    OBVIOUS
  <2> HIDE DEF new
  <2> QED BY <2>2, <2>3, Parts, GoOnTakes, RowsUnchanged, SteadyParts
<1>2. CASE LoginBadFactor(t)
  <2> DEFINE new == [req[t] EXCEPT !.at = "failing", !.copy = users[req[t].user]]
  <2>1. req[t] \in Requests /\ req[t] # Idle
    BY <1>2, Parts DEF ReqOK, LoginBadFactor, Idle
  <2>2. /\ \/ req' = [req EXCEPT ![t] = new] /\ users[req[t].user].state = "live"
           \/ Finish(t)
        /\ UNCHANGED <<users, wrong>>
    BY <1>2 DEF LoginBadFactor, Finish, history
  <2>3. new.copy = users[new.user] /\ new.user = req[t].user
    BY <2>1 DEF Requests
  <2> HIDE DEF new
  <2> QED BY <2>2, <2>3, Parts, GoOnTakes, FinishTakes, RowsUnchanged, SteadyParts
<1>3. CASE LoginCode(t)
  <2> DEFINE u == req[t].user  new == [req[t] EXCEPT !.at = "verified"]
             row == IF users[u].state = "live" THEN [users[u] EXCEPT !.code = 0] ELSE users[u]
  <2>1. req[t] \in Requests /\ req[t] # Idle /\ u \in Users /\ users[u] \in Row
    BY <1>3, LoadedReq, Parts DEF ReqOK, LoginCode, TypeOK
  <2>2. /\ req' = [req EXCEPT ![t] = new] /\ users' = [users EXCEPT ![u] = row]
        /\ UNCHANGED wrong
    BY <1>3 DEF LoginCode
  <2>3. new.at = "verified"
    BY <2>1 DEF Requests
  <2>4. row.failed = users[u].failed /\ row.state = users[u].state
    BY <2>1 DEF Row
  <2> HIDE DEF u, new, row
  <2> QED BY <2>1, <2>2, <2>3, <2>4, Parts, GoOnTakes, RowSteady
<1>4. CASE StartLoginCode(t)
  <2> DEFINE new == [req[t].copy EXCEPT !.code = Fresh("code")]
  <2>1. req[t].user \in Users /\ req[t].copy \in Row
    BY <1>4, LoadedReq, Parts DEF StartLoginCode
  <2>2. Commit(t, new) /\ Finish(t) /\ UNCHANGED wrong
    BY <1>4 DEF StartLoginCode, history
  <2>3. new.state = req[t].copy.state /\ new.failed = req[t].copy.failed
    BY <2>1 DEF Row
  <2> HIDE DEF new
  <2> QED BY <2>1, <2>2, <2>3, Parts, CommitSteady
<1> QED BY <1>1, <1>2, <1>3, <1>4 DEF OpenStep

\* The routes of a user write what they write, and not the count.
LEMMA OwnCommits ==
  ASSUME AccInv, NEW t \in Threads, NEW upload \in BOOLEAN, NEW name,
         \/ VerifyNewTotp(t) \/ DisableTotp(t) \/ ChangePassword(t) \/ StartCode(t)
         \/ ConfirmCode(t) \/ UpdateProfile(t, upload, name)
  PROVE  /\ req[t].user \in Users /\ req[t].copy \in Row /\ Finish(t) /\ UNCHANGED wrong
         /\ \/ UNCHANGED users
            \/ \E new : /\ Commit(t, new) /\ new.state = req[t].copy.state
                        /\ new.failed = req[t].copy.failed
<1> DEFINE copy == req[t].copy
<1>1. req[t].at = "loaded"
  BY DEF VerifyNewTotp, DisableTotp, ChangePassword, StartCode, ConfirmCode, UpdateProfile, At
<1>2. req[t].user \in Users /\ copy \in Row
  BY <1>1, LoadedReq, Parts
<1>3. Finish(t) /\ UNCHANGED wrong
  BY DEF VerifyNewTotp, DisableTotp, ChangePassword, StartCode, ConfirmCode, UpdateProfile,
         history
<1>4. CASE VerifyNewTotp(t)
  <2> DEFINE new == [copy EXCEPT !.totp = TRUE, !.secret = req[t].by.pending]
  <2>1. Commit(t, new)
    BY <1>4 DEF VerifyNewTotp
  <2>2. new.state = copy.state /\ new.failed = copy.failed
    BY <1>2 DEF Row
  <2> QED BY <1>2, <1>3, <2>1, <2>2
<1>5. CASE DisableTotp(t)
  <2> DEFINE new == [copy EXCEPT !.totp = FALSE, !.secret = 0]
  <2>1. Commit(t, new)
    BY <1>5 DEF DisableTotp
  <2>2. new.state = copy.state /\ new.failed = copy.failed
    BY <1>2 DEF Row
  <2> QED BY <1>2, <1>3, <2>1, <2>2
<1>6. CASE ChangePassword(t)
  <2> DEFINE new == [copy EXCEPT !.pwd = Fresh("pwd")]
  <2>1. Commit(t, new)
    BY <1>6 DEF ChangePassword
  <2>2. new.state = copy.state /\ new.failed = copy.failed
    BY <1>2 DEF Row
  <2> QED BY <1>2, <1>3, <2>1, <2>2
<1>7. CASE StartCode(t)
  <2> DEFINE new == [copy EXCEPT !.code = Fresh("code")]
  <2>1. Commit(t, new)
    BY <1>7 DEF StartCode
  <2>2. new.state = copy.state /\ new.failed = copy.failed
    BY <1>2 DEF Row
  <2> QED BY <1>2, <1>3, <2>1, <2>2
<1>8. CASE ConfirmCode(t)
  <2> DEFINE new == [copy EXCEPT !.email = (req[t].route = "verify_email_otp"), !.code = 0]
  <2>1. Commit(t, new)
    BY <1>8 DEF ConfirmCode
  <2>2. new.state = copy.state /\ new.failed = copy.failed
    BY <1>2 DEF Row
  <2> QED BY <1>2, <1>3, <2>1, <2>2
<1>9. CASE UpdateProfile(t, upload, name)
  <2> DEFINE file == IF upload THEN Fresh("file") ELSE copy.file
             new == [copy EXCEPT !.file = file]
  <2>1. Commit(t, new) \/ UNCHANGED users
    BY <1>9 DEF UpdateProfile
  <2>2. new.state = copy.state /\ new.failed = copy.failed
    BY <1>2 DEF Row
  <2> HIDE DEF new
  <2> QED BY <1>2, <1>3, <2>1, <2>2
<1> QED BY <1>4, <1>5, <1>6, <1>7, <1>8, <1>9

LEMMA OwnSteady ==
  ASSUME AccInv, NEW t \in Threads, OwnStep(t)
  PROVE  Steady
<1>1. CASE \E c \in sessions, r \in OwnRoutes \cup AdminRoutes, u \in Users : Enter(t, c, r, u)
  <2>1. PICK c \in sessions, r \in OwnRoutes \cup AdminRoutes, u \in Users : Enter(t, c, r, u)
    BY <1>1
  <2> DEFINE new == [at |-> "checked", route |-> r, by |-> c, user |-> u, copy |-> None]
  <2>2. req' = [req EXCEPT ![t] = new] /\ UNCHANGED <<users, wrong>>
    BY <2>1 DEF Enter, history
  <2>3. new.at = "checked"
    OBVIOUS
  <2> HIDE DEF new
  <2> QED BY <2>2, <2>3, Parts, GoOnTakes, RowsUnchanged, SteadyParts
<1>2. CASE Load(t)
  <2> DEFINE new == [req[t] EXCEPT !.at = "loaded", !.copy = users[req[t].user]]
  <2>1. req[t] # Idle /\ req[t] \in Requests
    BY <1>2, Parts DEF Load, Idle, ReqOK
  <2>2. /\ \/ /\ req' = [req EXCEPT ![t] = new]
              /\ req[t].route # "create" => users[req[t].user].state = "live"
           \/ Finish(t)
        /\ UNCHANGED <<users, wrong>>
    BY <1>2 DEF Load, Finish, history
  <2>3. /\ new.copy = users[new.user] /\ new.user = req[t].user
        /\ new.route = req[t].route /\ new.at = "loaded"
    BY <2>1 DEF Requests, Idle
  <2>4. "create" \notin OpenRoutes
    BY DEF OpenRoutes
  <2> HIDE DEF new
  <2> QED BY <2>2, <2>3, <2>4, Parts, GoOnTakes, FinishTakes, RowsUnchanged, SteadyParts
<1>3. CASE Refuse(t) \/ EnableTotp(t) \/ Logout(t)
  BY <1>3, Parts, FinishTakes, RowsUnchanged, SteadyParts
  DEF Refuse, EnableTotp, Logout, history
<1>4. ASSUME NEW upload \in BOOLEAN, NEW name,
             \/ VerifyNewTotp(t) \/ DisableTotp(t) \/ ChangePassword(t) \/ StartCode(t)
             \/ ConfirmCode(t) \/ UpdateProfile(t, upload, name)
      PROVE  Steady
  BY <1>4, OwnCommits, CommitSteady, Parts, FinishTakes, RowsUnchanged, SteadyParts
<1> QED BY <1>1, <1>2, <1>3, <1>4 DEF OwnStep

Clearing == {"reset_password", "reset_mfa", "unlock"}

LEMMA AdminSteady ==
  ASSUME AccInv, NEW t \in Threads, AdminStep(t)
  PROVE  Steady \/ (AdminUpdate(t) /\ req[t].route \in Clearing)
<1>1. CASE AdminUpdate(t) /\ req[t].route \notin Clearing
  <2> DEFINE r == req[t].route  copy == req[t].copy  new == AdminChange(r, copy)
  <2>1. req[t].user \in Users /\ copy \in Row /\ r \in AdminRoutes \ {"create", "delete"}
    BY <1>1, LoadedReq, Parts DEF AdminUpdate
  <2>2. new.state = copy.state /\ new.failed = copy.failed
    BY <1>1, <2>1 DEF AdminChange, AdminRoutes, Clearing, Row
  <2>3. Commit(t, new) /\ Finish(t) /\ UNCHANGED wrong
    BY <1>1 DEF AdminUpdate, Clearing
  <2> HIDE DEF new
  <2> QED BY <2>1, <2>2, <2>3, Parts, CommitSteady
<1>2. CASE AdminDelete(t)
  <2> DEFINE u == req[t].user  row == [users[u] EXCEPT !.state = "deleted"]
  <2>1. u \in Users /\ users[u] \in Row
    BY <1>2, LoadedReq, Parts DEF AdminDelete, At, TypeOK
  <2>2. users' = [users EXCEPT ![u] = row] /\ Finish(t) /\ UNCHANGED wrong
    BY <1>2 DEF AdminDelete
  <2>3. row.state = "deleted" /\ row.failed = users[u].failed
    BY <2>1 DEF Row
  <2> HIDE DEF u, row
  <2> QED BY <2>1, <2>2, <2>3, Parts, RowSteady, FinishTakes
<1>3. ASSUME NEW role \in {"admin", "soc"}, AdminCreate(t, role)
      PROVE  Steady
  <2> DEFINE u == req[t].user
             row == IF users[u].state = "none"
                    THEN [users[u] EXCEPT !.state = "live", !.role = role] ELSE users[u]
  <2>1. u \in Users /\ users[u] \in Row
    BY <1>3, LoadedReq, Parts DEF AdminCreate, At, TypeOK
  <2>2. users' = [users EXCEPT ![u] = row] /\ Finish(t) /\ UNCHANGED wrong
    BY <1>3 DEF AdminCreate
  <2>3. /\ row.failed = users[u].failed
        /\ row.state = users[u].state \/ (users[u].state = "none" /\ row.state = "live")
    <3>1. CASE users[u].state = "none"
      BY <2>1, <3>1 DEF Row
    <3>2. CASE users[u].state # "none"
      BY <3>2
    <3> QED BY <3>1, <3>2
  <2> HIDE DEF u, row
  <2> QED BY <2>1, <2>2, <2>3, Parts, RowSteady, FinishTakes
<1> QED BY <1>1, <1>2, <1>3 DEF AdminStep

LEMMA RestSteady ==
  ASSUME AccInv, \/ \E c \in sessions : SessionDropped(c)
                 \/ \E c \in Ids : CodeExpires(c)
                 \/ \E u \in Users : LockRunsOut(u)
                 \/ UNCHANGED vars
  PROVE  Steady
<1>1. ASSUME UNCHANGED req PROVE AllTake
  BY <1>1 DEF AllTake, Takes, Counting
<1>2. ASSUME NEW u \in Users, LockRunsOut(u) PROVE Steady
  <2> DEFINE row == [users[u] EXCEPT !.lock = "past"]
  <2>1. users[u] \in Row
    BY Parts DEF TypeOK
  <2>2. row.state = users[u].state /\ row.failed = users[u].failed
    BY <2>1 DEF Row
  <2>3. users' = [users EXCEPT ![u] = row] /\ UNCHANGED <<req, wrong>>
    BY <1>2 DEF LockRunsOut, history
  <2> HIDE DEF row
  <2> QED BY <1>1, <2>2, <2>3, Parts, RowSteady
<1>3. ASSUME UNCHANGED <<users, req, wrong>> PROVE Steady
  BY <1>1, <1>3, RowsUnchanged, SteadyParts
<1> QED BY <1>2, <1>3 DEF SessionDropped, CodeExpires, vars, history

-----------------------------------------------------------------------------
\* The steps that count or clear

\* A failure that does not lock is counted, one that does clears the history.
LEMMA FailureCounts ==
  ASSUME AccInv, NEW t \in Threads, LoginWrong(t) \/ RecordFailure(t)
  PROVE  \A v \in Users : Calm(v) \/ Cleared(v) \/ Counted(t, v)
<1> DEFINE u == req[t].user  copy == req[t].copy
           locks == AddFailure(users[u], copy.failed).lock = "live"
<1>1. req[t].at \in {"loaded", "failing"} /\ Finish(t) /\ CountWrong(u, copy.failed)
  BY DEF LoginWrong, RecordFailure
<1>2. /\ u \in Users /\ copy \in Row /\ users \in [Users -> Row] /\ wrong \in [Users -> Nat]
      /\ Counting(t, u)
  <2>1. Counting(t, u)
    BY DEF LoginWrong, RecordFailure, Counting, OpenRoutes
  <2> QED BY <1>1, <2>1, LoadedReq, Parts DEF TypeOK
<1>3. copy.failed \in Nat /\ users[u] \in Row
  BY <1>2 DEF Row
<1>4. /\ AllTake /\ \A s \in Threads \ {t} : req'[s] = req[s]
      /\ \A v \in Users : ~Counting(t, v)'
  BY <1>1, Parts, FinishTakes
<1>5. /\ \A v \in Users : StateGoesOn(v) /\ users'[v].state = users[v].state
      /\ \A v \in Users \ {u} : users'[v] = users[v]
      /\ users[u].state = "live" => users'[u].failed = copy.failed + 1
  <2>1. CASE LoginWrong(t)
    <3> DEFINE row == IF users[u].state = "live" THEN AddFailure(users[u], copy.failed)
                      ELSE users[u]
    <3>1. users' = [users EXCEPT ![u] = row]
      BY <2>1 DEF LoginWrong
    <3>2. AddFailure(users[u], copy.failed).failed = copy.failed + 1
      BY <1>3 DEF AddFailure, Row
    <3>3. row.state = users[u].state /\ (users[u].state = "live" => row.failed = copy.failed + 1)
      BY <1>3, <3>2, FailureRow
    <3> HIDE DEF row
    <3>4. users'[u] = row /\ \A v \in Users \ {u} : users'[v] = users[v]
      BY <1>2, <3>1
    <3> QED BY <3>3, <3>4 DEF StateGoesOn
  <2>2. CASE RecordFailure(t)
    <3> DEFINE new == AddFailure(copy, copy.failed)
    <3>1. Commit(t, new)
      BY <2>2 DEF RecordFailure
    <3>2. new.failed = copy.failed + 1
      BY <1>2 DEF AddFailure, Row
    <3>3. new.state = copy.state
      BY <1>2, <1>3, FailureRow
    <3> HIDE DEF new
    <3> QED BY <1>2, <1>3, <3>1, <3>2, <3>3, Parts, CommitFailed
  <2> QED BY <2>1, <2>2
<1>6. /\ \A v \in Users \ {u} : wrong'[v] = wrong[v]
      /\ locks => wrong'[u] = 0
      /\ ~locks => wrong'[u] \in {wrong[u], wrong[u] + 1}
  BY <1>1, <1>2 DEF CountWrong
<1>7. ~locks => copy.failed + 1 < Lockout
  <2>1. copy.failed + 1 >= Lockout => locks
    BY <1>3 DEF AddFailure, Row
  <2> QED BY <1>3, <2>1, AccountsAssumption
<1> HIDE DEF locks
<1>8. \A v \in Users \ {u} : Calm(v)
  BY <1>4, <1>5, <1>6 DEF Calm, RowGoesOn, AllTake
<1>9. CASE locks
  BY <1>4, <1>5, <1>6, <1>8, <1>9 DEF Cleared, AllTake
<1>10. CASE ~locks
  <2>1. ASSUME NEW v \in Users, v = u PROVE Counted(t, v)
    <3>1. /\ Counting(t, v) /\ ~Counting(t, v)' /\ StateGoesOn(v)
          /\ \A s \in Threads \ {t} : req'[s] = req[s]
      BY <2>1, <1>2, <1>4, <1>5
    <3>2. wrong'[v] \in {wrong[v], wrong[v] + 1} /\ req[t].copy.failed + 1 < Lockout
      BY <2>1, <1>6, <1>7, <1>10
    <3>3. users[v].state = "live" =>
            users'[v].state = "live" /\ users'[v].failed = req[t].copy.failed + 1
      BY <2>1, <1>2, <1>5
    <3> QED BY <3>1, <3>2, <3>3 DEF Counted
  <2> QED BY <1>8, <2>1
<1> QED BY <1>9, <1>10

\* The right password clears the failures.
LEMMA OpenClears ==
  ASSUME AccInv, NEW t \in Threads, LoginOpen(t)
  PROVE  \A v \in Users : Calm(v) \/ Cleared(v)
<1> DEFINE u == req[t].user
<1>1. u \in Users /\ users \in [Users -> Row] /\ wrong \in [Users -> Nat]
  BY LoadedReq, Parts DEF LoginOpen, TypeOK
<1>2. AllTake /\ Finish(t)
  BY Parts, FinishTakes DEF LoginOpen
<1>3. CASE users[u].state # "live"
  <2>1. UNCHANGED <<users, wrong>>
    BY <1>3 DEF LoginOpen
  <2> QED BY <1>2, <2>1, RowsUnchanged, SteadyParts DEF Steady
<1>4. CASE users[u].state = "live"
  <2>1. users' = [users EXCEPT ![u] = NoFailures(@)] /\ wrong' = [wrong EXCEPT ![u] = 0]
    BY <1>4 DEF LoginOpen, ClearWrong
  <2>2. NoFailures(users[u]).state = users[u].state
    BY <1>1 DEF NoFailures, Row
  <2>3. /\ users'[u].state = users[u].state /\ wrong'[u] = 0
        /\ \A v \in Users \ {u} : users'[v] = users[v] /\ wrong'[v] = wrong[v]
    BY <1>1, <2>1, <2>2
  <2> QED BY <1>2, <2>3 DEF Calm, Cleared, RowGoesOn, StateGoesOn, AllTake
<1> QED BY <1>3, <1>4

\* So does an administrator who resets the password or the factors, or unlocks.
LEMMA AdminClears ==
  ASSUME AccInv, NEW t \in Threads, AdminUpdate(t), req[t].route \in Clearing
  PROVE  \A v \in Users : Calm(v) \/ Cleared(v)
<1> DEFINE u == req[t].user  copy == req[t].copy  new == AdminChange(req[t].route, copy)
<1>1. u \in Users /\ copy \in Row /\ wrong \in [Users -> Nat]
  BY LoadedReq, Parts DEF AdminUpdate, TypeOK
<1>2. AllTake /\ Commit(t, new)
  BY Parts, FinishTakes DEF AdminUpdate
<1>3. new.state = copy.state
  BY <1>1 DEF AdminChange, Clearing, NoFailures, Row
<1>4. wrong' = [wrong EXCEPT ![u] = 0]
  BY DEF AdminUpdate, Clearing, ClearWrong
<1> HIDE DEF new
<1>5. /\ \A v \in Users : StateGoesOn(v)
      /\ \A v \in Users \ {u} : users'[v] = users[v]
  BY <1>1, <1>2, <1>3, Parts, CommitFailed
<1> QED BY <1>1, <1>2, <1>4, <1>5 DEF Calm, Cleared, RowGoesOn, AllTake

LEMMA LockSteps ==
  ASSUME AccInv, [Next]_vars
  PROVE  \A v \in Users : Calm(v) \/ Cleared(v) \/ \E t \in Threads : Counted(t, v)
<1>1. ASSUME NEW t \in Threads, OpenStep(t)
      PROVE  Steady \/ (\A v \in Users : Calm(v) \/ Cleared(v) \/ Counted(t, v))
  BY <1>1, OpenSteady, FailureCounts, OpenClears
<1>2. ASSUME NEW t \in Threads, AdminStep(t)
      PROVE  Steady \/ (\A v \in Users : Calm(v) \/ Cleared(v))
  BY <1>2, AdminSteady, AdminClears
<1>3. \/ Steady \/ (\A v \in Users : Calm(v) \/ Cleared(v))
      \/ \E t \in Threads : \A v \in Users : Calm(v) \/ Cleared(v) \/ Counted(t, v)
  BY <1>1, <1>2, OwnSteady, RestSteady DEF Next
<1> QED BY <1>3 DEF Steady

LEMMA LockNext ==
  ASSUME AccInv, AccInv', LockInv, [Next]_vars
  PROVE  LockInv'
<1>1. ASSUME NEW u \in Users
      PROVE  /\ wrong'[u] <= Cardinality(Reached(Level(u)'))
             /\ \A s \in Threads : Counting(s, u)' => users'[u].state # "none"
  BY LockSteps, LockGoesOn
<1>2. \A u \in Users : Cardinality(Reached(Level(u)')) = Cardinality(Reached(Level(u)))'
  BY DEF Reached, Before
<1> QED BY <1>1, <1>2 DEF LockInv

LEMMA LockInit == Init => LockInv
<1> SUFFICES ASSUME Init, NEW u \in Users
             PROVE  /\ wrong[u] <= Cardinality(Reached(Level(u)))
                    /\ \A t \in Threads : ~Counting(t, u)
  BY DEF LockInv
<1>1. wrong[u] = 0 /\ \A t \in Threads : req[t].at = "idle"
  BY DEF Init, Idle
<1> QED BY <1>1, LevelsFinite DEF Counting

\* However many requests overwrite each other's count of failed attempts, the account is
\* locked after at most as many wrong answers as there are multisets of counts, less one.
THEOREM LockoutIsBounded == Spec => []LockoutBound
<1>1. AccInv /\ LockInv => LockoutBound
  <2> SUFFICES ASSUME AccInv, LockInv, NEW u \in Users PROVE wrong[u] <= LostBound
    BY DEF LockoutBound
  <2>1. wrong[u] \in Nat /\ wrong[u] <= Cardinality(Reached(Level(u)))
    BY StateTypes DEF LockInv
  <2>2. /\ Cardinality(Reached(Level(u))) \in Nat /\ LostBound \in Int
        /\ Cardinality(Reached(Level(u))) <= LostBound
    BY LevelsFinite, LevelType DEF LostBound
  <2> QED BY <2>1, <2>2
<1>2. AccInv /\ AccInv' /\ LockInv /\ [Next]_vars => LockInv'
  BY LockNext
<1> QED BY <1>1, <1>2, LockInit, AccInvariant, PTL DEF Spec
=============================================================================
