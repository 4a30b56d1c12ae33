------------------------------ MODULE Accounts ------------------------------
(***************************************************************************)
(* Accounts and sessions of the web server (uni-srver.py): login with its  *)
(* lockout and second factors, the settings a user changes, and the        *)
(* administration of users.  Every request runs on a thread of its own and *)
(* works on a copy of the row it read (the object of the ORM); its commit  *)
(* writes the columns that differ from that copy, whatever the row holds   *)
(* by then.  A session is a signed cookie: it is checked against the row   *)
(* when a request enters, before the handler reads the row again.          *)
(*                                                                         *)
(* Passwords, secrets, codes and files are numbered in the order they are  *)
(* made, 0 is none.  What a user types is right or wrong for the copy.     *)
(***************************************************************************)
EXTENDS Naturals, FiniteSets

CONSTANTS
  Users, Threads,
  Deployments,  \* where a behaviour starts: routes in use, rows, sessions, numbers made
  Lockout,      \* failed attempts that lock the account (5 in the code)
  MaxMade,      \* bound of the model: passwords, secrets, codes and files made
  MaxFailed,    \* bound of the model: failed attempts with which a row is still read
  MaxWrong,     \* bound of the model: where the history of wrong answers stops counting
  None

ASSUME AccountsAssumption ==
  /\ IsFiniteSet(Threads)
  /\ Lockout \in Nat \ {0} /\ {MaxMade, MaxFailed, MaxWrong} \subseteq Nat
  /\ None \notin Users

VARIABLES
  routes,     \* the routes in use
  users,      \* the rows of the table users
  sessions,   \* cookies held by browsers
  req,        \* the request in the hands of each thread
  made,       \* how many passwords, secrets, codes, files were made
  expired,    \* codes older than five minutes
  files,      \* avatar files on disk
  wrong,      \* wrong answers since the count was last cleared or reached the lock (history)
  uses,       \* logins each code has opened (history)
  crossed,    \* a change by an administrator who was none any more (history)
  torn,       \* users with a profile change that failed at its commit (history)
  skewed      \* users given a TOTP secret after TOTP was switched off under it (history)

vars == <<routes, users, sessions, req, made, expired, files, wrong, uses, crossed, torn,
          skewed>>
history == <<wrong, uses, crossed, torn, skewed>>

-----------------------------------------------------------------------------
Made == {"pwd", "secret", "code", "file"}
Ids  == 0 .. MaxMade

Row == [state : {"none", "live", "deleted"}, pwd : Ids, role : {"admin", "soc"},
        failed : Nat, lock : {"none", "live", "past"}, totp : BOOLEAN, secret : Ids,
        email : BOOLEAN, code : Ids, file : Ids]

Cookie == [user : Users, pwd : Ids, pending : Ids]

OpenRoutes  == {"login", "check_totp", "start_login_email_otp"}
OwnRoutes   == {"enable_totp", "verify_new_totp", "disable_totp", "change_password",
                "update_profile", "start_email_otp", "start_email_otp_disable",
                "verify_email_otp", "disable_email_otp", "logout"}
AdminRoutes == {"create", "delete", "reset_password", "promote", "demote",
                "reset_mfa", "lock", "unlock"}
\* What an administrator may not do to himself.
NotOnSelf   == {"delete", "demote", "reset_mfa", "lock"}

\* bootstrap_db.py creates an administrator before anyone logs in; nobody has an avatar or
\* a code under way, and who has TOTP switched on, and no other, has a secret.
ASSUME DeploymentsAssumption ==
  \A d \in Deployments :
    /\ d.routes \subseteq OpenRoutes \cup OwnRoutes \cup AdminRoutes
    /\ d.users \in [Users -> Row] /\ d.made \in [Made -> Ids] /\ d.sessions \subseteq Cookie
    /\ \E u \in Users : d.users[u].state = "live" /\ d.users[u].role = "admin"
    /\ \A u \in Users : /\ d.users[u].file = 0 /\ d.users[u].code = 0
                        /\ d.users[u].totp <=> d.users[u].secret # 0

Idle == [at |-> "idle"]
Requests == {Idle} \cup [at : {"checked", "loaded", "failing", "verified"},
                         route : OpenRoutes \cup OwnRoutes \cup AdminRoutes,
                         by : Cookie \cup {None}, user : Users, copy : Row \cup {None}]

TypeOK ==
  /\ routes \subseteq OpenRoutes \cup OwnRoutes \cup AdminRoutes
  /\ users \in [Users -> Row]
  /\ sessions \subseteq Cookie
  /\ req \in [Threads -> Requests]
  /\ made \in [Made -> Ids]
  /\ expired \subseteq Ids /\ files \subseteq Ids
  /\ wrong \in [Users -> Nat] /\ uses \in [Ids -> Nat]
  /\ crossed \in BOOLEAN /\ torn \subseteq Users /\ skewed \subseteq Users

Init ==
  \E d \in Deployments :
    /\ routes = d.routes /\ users = d.users /\ made = d.made /\ sessions = d.sessions
    /\ req = [t \in Threads |-> Idle]
    /\ expired = {} /\ files = {}
    /\ wrong = [u \in Users |-> 0] /\ uses = [c \in Ids |-> 0]
    /\ crossed = FALSE /\ torn = {} /\ skewed = {}

-----------------------------------------------------------------------------
\* Commit of the ORM: the columns whose value differs from the copy that was read.
\* A row that was deleted meanwhile stays deleted.
Update(row, copy, new) ==
  IF row.state # "live" THEN row
  ELSE [c \in DOMAIN row |-> IF new[c] # copy[c] THEN new[c] ELSE row[c]]

Commit(t, new) == users' = [users EXCEPT ![req[t].user] = Update(@, req[t].copy, new)]
Finish(t)      == req' = [req EXCEPT ![t] = Idle]

\* A number nobody has used: ph.hash, random_base32, randbelow, token_hex.
Fresh(m) == made[m] + 1
Make(m)  == made[m] < MaxMade /\ made' = [made EXCEPT ![m] = @ + 1]

\* Mutant: the account locks one failure late.
AddFailureLate(row, n) == [row EXCEPT !.failed = n + 1,
                                      !.lock = IF n >= Lockout THEN "live" ELSE @]

\* One more wrong answer for a row that was read with n of them.
AddFailure(row, n) == [row EXCEPT !.failed = n + 1,
                                  !.lock = IF n + 1 >= Lockout THEN "live" ELSE @]
NoFailures(row)    == [row EXCEPT !.failed = 0, !.lock = "none"]

CountWrong(u, n) ==
  wrong' = [wrong EXCEPT ![u] = IF AddFailure(users[u], n).lock = "live" THEN 0
                                ELSE IF @ < MaxWrong THEN @ + 1 ELSE @]
ClearWrong(u) == wrong' = [wrong EXCEPT ![u] = 0]

-----------------------------------------------------------------------------
\* login, check_totp and start_login_email_otp: the row is read; an account that is
\* locked is refused.
Read(t, u, r) ==
  /\ req[t] = Idle /\ r \in OpenRoutes \cap routes
  /\ users[u].state = "live" /\ users[u].lock # "live" /\ users[u].failed < MaxFailed
  /\ req' = [req EXCEPT ![t] = [at |-> "loaded", route |-> r, by |-> None,
                                user |-> u, copy |-> users[u]]]
  /\ UNCHANGED <<routes, users, sessions, made, expired, files, history>>

\* login with a wrong password: the count read before is written back, plus one,
\* through a session of its own.
LoginWrong(t) ==
  LET u == req[t].user  n == req[t].copy.failed
  IN /\ req[t].at = "loaded" /\ req[t].route = "login"
     /\ CountWrong(u, n)
     /\ users' = [users EXCEPT ![u] = IF @.state = "live" THEN AddFailure(@, n) ELSE @]
     /\ Finish(t)
     /\ UNCHANGED <<routes, sessions, made, expired, files, uses, crossed, torn, skewed>>

\* _otp_fail: the second factor was refused; _record_password_failure reads the row.
LoginBadFactor(t) ==
  LET u == req[t].user
  IN /\ req[t].at = "loaded" /\ req[t].route = "login"
     /\ req[t].copy.totp \/ req[t].copy.email
     /\ req' = [req EXCEPT ![t] = IF users[u].state = "live"
                                  THEN [@ EXCEPT !.at = "failing", !.copy = users[u]]
                                  ELSE Idle]
     /\ UNCHANGED <<routes, users, sessions, made, expired, files, history>>

\* _record_password_failure: called by /login with a row just read, by the two other
\* routes with the row they verified the password against.
RecordFailure(t) ==
  LET copy == req[t].copy
  IN /\ \/ req[t].at = "failing"
        \/ req[t].at = "loaded" /\ req[t].route \in {"check_totp", "start_login_email_otp"}
     /\ CountWrong(req[t].user, copy.failed)
     /\ Commit(t, AddFailure(copy, copy.failed))
     /\ Finish(t)
     /\ UNCHANGED <<routes, sessions, made, expired, files, uses, crossed, torn, skewed>>

\* Mutant: a code that opened a login stays in the row.
LoginCodeKept(t) ==
  LET u == req[t].user  c == req[t].copy.code
  IN /\ req[t].at = "loaded" /\ req[t].route = "login"
     /\ req[t].copy.email /\ c # 0 /\ c \notin expired
     /\ uses' = [uses EXCEPT ![c] = @ + 1]
     /\ req' = [req EXCEPT ![t].at = "verified"]
     /\ UNCHANGED <<routes, users, sessions, made, expired, files, wrong, crossed, torn, skewed>>

\* login with the code from the mail: the code read before is compared, then the row
\* is read again and its code cleared.
LoginCode(t) ==
  LET u == req[t].user  c == req[t].copy.code
  IN /\ req[t].at = "loaded" /\ req[t].route = "login"
     /\ req[t].copy.email /\ c # 0 /\ c \notin expired
     /\ uses' = [uses EXCEPT ![c] = @ + 1]
     /\ users' = [users EXCEPT ![u] = IF @.state = "live" THEN [@ EXCEPT !.code = 0] ELSE @]
     /\ req' = [req EXCEPT ![t].at = "verified"]
     /\ UNCHANGED <<routes, sessions, made, expired, files, wrong, crossed, torn, skewed>>

\* The end of login: password and second factor are right; the row is read again, its
\* failures are cleared and the session is bound to the password it holds now.
LoginOpen(t) ==
  LET u == req[t].user  copy == req[t].copy
  IN /\ req[t].at \in {"loaded", "verified"} /\ req[t].route = "login"
     /\ \/ req[t].at = "verified"
        \/ req[t].at = "loaded" /\ copy.totp /\ copy.secret # 0
        \/ req[t].at = "loaded" /\ ~copy.totp /\ ~copy.email
     /\ IF users[u].state = "live"
        THEN /\ users' = [users EXCEPT ![u] = NoFailures(@)]
             /\ sessions' = sessions \cup {[user |-> u, pwd |-> users[u].pwd, pending |-> 0]}
             /\ ClearWrong(u)
        ELSE UNCHANGED <<users, sessions, wrong>>
     /\ Finish(t)
     /\ UNCHANGED <<routes, made, expired, files, uses, crossed, torn, skewed>>

\* start_login_email_otp with the right password: a new code replaces the old one;
\* whether the mail is sent makes no difference to the row.
StartLoginCode(t) ==
  /\ req[t].at = "loaded" /\ req[t].route = "start_login_email_otp"
  /\ req[t].copy.email
  /\ Make("code")
  /\ Commit(t, [req[t].copy EXCEPT !.code = Fresh("code")])
  /\ Finish(t)
  /\ UNCHANGED <<routes, sessions, expired, files, history>>

-----------------------------------------------------------------------------
\* load_user: the password of the session is still the one of the row, and the
\* account is not locked.
Valid(c) ==
  /\ users[c.user].state = "live" /\ users[c.user].lock # "live"
  /\ users[c.user].pwd = c.pwd

\* load_user clears the session of a user whose password changed or who is locked.
SessionDropped(c) ==
  /\ c \in sessions /\ users[c.user].state = "live" /\ ~Valid(c)
  /\ sessions' = sessions \ {c}
  /\ UNCHANGED <<routes, users, req, made, expired, files, history>>

\* Mutant: the checks against acting on oneself are missing.
EnterSelf(t, c, r, u) ==
  /\ req[t] = Idle /\ r \in (OwnRoutes \cup AdminRoutes) \cap routes
  /\ c \in sessions /\ Valid(c)
  /\ r \in OwnRoutes => u = c.user
  /\ r \in AdminRoutes => users[c.user].role = "admin"
  /\ req' = [req EXCEPT ![t] = [at |-> "checked", route |-> r, by |-> c,
                                user |-> u, copy |-> None]]
  /\ UNCHANGED <<routes, users, sessions, made, expired, files, history>>

\* login_required, role_required and the checks against acting on oneself.
Enter(t, c, r, u) ==
  /\ req[t] = Idle /\ r \in (OwnRoutes \cup AdminRoutes) \cap routes
  /\ c \in sessions /\ Valid(c)
  /\ r \in OwnRoutes => u = c.user
  /\ r \in AdminRoutes => users[c.user].role = "admin"
  /\ r \in NotOnSelf => u # c.user
  /\ req' = [req EXCEPT ![t] = [at |-> "checked", route |-> r, by |-> c,
                                user |-> u, copy |-> None]]
  /\ UNCHANGED <<routes, users, sessions, made, expired, files, history>>

\* The handler reads the row; a user who is not there, or is there already, ends it.
Load(t) ==
  LET u == req[t].user
  IN /\ req[t].at = "checked"
     /\ req' = [req EXCEPT ![t] =
                  IF users[u].state = (IF @.route = "create" THEN "none" ELSE "live")
                  THEN [@ EXCEPT !.at = "loaded", !.copy = users[u]] ELSE Idle]
     /\ UNCHANGED <<routes, users, sessions, made, expired, files, history>>

At(t, r) == req[t].at = "loaded" /\ req[t].route = r

\* A handler may end without a change: a password, a code or a field was refused, or
\* check_totp only answers.  /login never does: it counts what it refuses.
Refuse(t) ==
  /\ req[t].at = "loaded" /\ req[t].route # "login"
  /\ Finish(t)
  /\ UNCHANGED <<routes, users, sessions, made, expired, files, history>>

\* enable_totp: the secret waits in the cookie.
EnableTotp(t) ==
  /\ At(t, "enable_totp") /\ ~req[t].copy.totp
  /\ Make("secret")
  /\ sessions' = (sessions \ {req[t].by}) \cup {[req[t].by EXCEPT !.pending = Fresh("secret")]}
  /\ Finish(t)
  /\ UNCHANGED <<routes, users, expired, files, history>>

\* verify_new_totp: whether TOTP was enabled meanwhile is not asked again.
VerifyNewTotp(t) ==
  /\ At(t, "verify_new_totp") /\ req[t].by.pending # 0
  /\ Commit(t, [req[t].copy EXCEPT !.totp = TRUE, !.secret = req[t].by.pending])
  /\ sessions' = (sessions \ {req[t].by}) \cup {[req[t].by EXCEPT !.pending = 0]}
  /\ skewed' = IF req[t].copy.totp /\ ~users[req[t].user].totp
               THEN skewed \cup {req[t].user} ELSE skewed
  /\ Finish(t)
  /\ UNCHANGED <<routes, made, expired, files, wrong, uses, crossed, torn>>

\* Mutant: the secret is removed, the flag stays.
DisableTotpHalf(t) ==
  /\ At(t, "disable_totp") /\ req[t].copy.totp /\ req[t].copy.secret # 0
  /\ Commit(t, [req[t].copy EXCEPT !.secret = 0])
  /\ sessions' = (sessions \ {req[t].by}) \cup {[req[t].by EXCEPT !.pending = 0]}
  /\ Finish(t)
  /\ UNCHANGED <<routes, made, expired, files, history>>

DisableTotp(t) ==
  /\ At(t, "disable_totp") /\ req[t].copy.totp /\ req[t].copy.secret # 0
  /\ Commit(t, [req[t].copy EXCEPT !.totp = FALSE, !.secret = 0])
  /\ sessions' = (sessions \ {req[t].by}) \cup {[req[t].by EXCEPT !.pending = 0]}
  /\ Finish(t)
  /\ UNCHANGED <<routes, made, expired, files, history>>

\* change_password: the session that asked for it is closed.
ChangePassword(t) ==
  /\ At(t, "change_password") /\ Make("pwd")
  /\ Commit(t, [req[t].copy EXCEPT !.pwd = Fresh("pwd")])
  /\ sessions' = sessions \ {req[t].by}
  /\ Finish(t)
  /\ UNCHANGED <<routes, expired, files, history>>

\* start_email_otp and start_email_otp_disable.
StartCode(t) ==
  /\ \/ At(t, "start_email_otp")
     \/ At(t, "start_email_otp_disable") /\ req[t].copy.email
  /\ Make("code")
  /\ Commit(t, [req[t].copy EXCEPT !.code = Fresh("code")])
  /\ Finish(t)
  /\ UNCHANGED <<routes, sessions, expired, files, history>>

\* verify_email_otp and disable_email_otp: the code of the copy is typed in time.
ConfirmCode(t) ==
  /\ \/ At(t, "verify_email_otp")
     \/ At(t, "disable_email_otp") /\ req[t].copy.email
  /\ req[t].copy.code # 0 /\ req[t].copy.code \notin expired
  /\ Commit(t, [req[t].copy EXCEPT !.email = (req[t].route = "verify_email_otp"),
                                   !.code = 0])
  /\ Finish(t)
  /\ UNCHANGED <<routes, sessions, made, expired, files, history>>

\* Mutant: the old file is removed although no new one was uploaded.
UpdateProfileCareless(t, upload, name) ==
  LET copy == req[t].copy
      file == IF upload THEN Fresh("file") ELSE copy.file
  IN /\ At(t, "update_profile")
     /\ IF upload THEN Make("file") ELSE UNCHANGED made
     /\ files' = (files \ {copy.file}) \cup (IF upload THEN {file} ELSE {})
     /\ IF name = "taken" THEN torn' = torn \cup {req[t].user} /\ UNCHANGED users
                          ELSE Commit(t, [copy EXCEPT !.file = file]) /\ UNCHANGED torn
     /\ sessions' = IF name = "new" THEN sessions \ {req[t].by} ELSE sessions
     /\ Finish(t)
     /\ UNCHANGED <<routes, expired, wrong, uses, crossed, skewed>>

\* update_profile: a new avatar is stored and the old file removed before the commit,
\* which fails when another user has taken the name since it was looked up.  A user
\* with a new name must log in again.
UpdateProfile(t, upload, name) ==
  LET copy == req[t].copy
      file == IF upload THEN Fresh("file") ELSE copy.file
  IN /\ At(t, "update_profile")
     /\ IF upload THEN Make("file") /\ files' = (files \ {copy.file}) \cup {file}
                  ELSE UNCHANGED <<made, files>>
     /\ IF name = "taken" THEN torn' = torn \cup {req[t].user} /\ UNCHANGED users
                          ELSE Commit(t, [copy EXCEPT !.file = file]) /\ UNCHANGED torn
     /\ sessions' = IF name = "new" THEN sessions \ {req[t].by} ELSE sessions
     /\ Finish(t)
     /\ UNCHANGED <<routes, expired, wrong, uses, crossed, skewed>>

Logout(t) ==
  /\ At(t, "logout")
  /\ sessions' = sessions \ {req[t].by}
  /\ Finish(t)
  /\ UNCHANGED <<routes, users, made, expired, files, history>>

-----------------------------------------------------------------------------
\* The administrator who asked for a change is an administrator when it is made.
StillAdmin(t) == LET a == users[req[t].by.user] IN a.state = "live" /\ a.role = "admin"

\* What each route of user administration makes of the row it read.
AdminChange(r, copy) ==
  CASE r = "reset_password" -> [NoFailures(copy) EXCEPT !.pwd = Fresh("pwd")]
    [] r = "promote"   -> [copy EXCEPT !.role = "admin"]
    [] r = "demote"    -> [copy EXCEPT !.role = "soc"]
    [] r = "reset_mfa" -> [NoFailures(copy) EXCEPT !.totp = FALSE, !.secret = 0,
                                                   !.email = FALSE, !.code = 0]
    [] r = "lock"      -> [copy EXCEPT !.lock = "live"]
    [] r = "unlock"    -> NoFailures(copy)

\* admin_reset_password, admin_set_role, admin_reset_mfa and admin_set_lock.
AdminUpdate(t) ==
  LET r == req[t].route  u == req[t].user
  IN /\ req[t].at = "loaded" /\ r \in AdminRoutes \ {"create", "delete"}
     /\ IF r = "reset_password" THEN Make("pwd") ELSE UNCHANGED made
     /\ Commit(t, AdminChange(r, req[t].copy))
     /\ crossed' = (crossed \/ ~StillAdmin(t))
     /\ IF r \in {"reset_password", "reset_mfa", "unlock"} THEN ClearWrong(u)
                                                           ELSE UNCHANGED wrong
     /\ Finish(t)
     /\ UNCHANGED <<routes, sessions, expired, files, uses, torn, skewed>>

\* admin_create_user; the unique index refuses a name that was taken since the lookup.
AdminCreate(t, role) ==
  LET u == req[t].user
  IN /\ At(t, "create")
     /\ users' = [users EXCEPT ![u] = IF @.state = "none"
                                      THEN [@ EXCEPT !.state = "live", !.role = role] ELSE @]
     /\ crossed' = (crossed \/ ~StillAdmin(t))
     /\ Finish(t)
     /\ UNCHANGED <<routes, sessions, made, expired, files, wrong, uses, torn, skewed>>

AdminDelete(t) ==
  /\ At(t, "delete")
  /\ users' = [users EXCEPT ![req[t].user].state = "deleted"]
  /\ crossed' = (crossed \/ ~StillAdmin(t))
  /\ Finish(t)
  /\ UNCHANGED <<routes, sessions, made, expired, files, wrong, uses, torn, skewed>>

-----------------------------------------------------------------------------
\* Time: a code is older than five minutes; the end of a lock has come.
CodeExpires(c) ==
  /\ c \in 1 .. made["code"] /\ c \notin expired
  /\ expired' = expired \cup {c}
  /\ UNCHANGED <<routes, users, sessions, req, made, files, history>>

LockRunsOut(u) ==
  /\ users[u].lock = "live"
  /\ users' = [users EXCEPT ![u].lock = "past"]
  /\ UNCHANGED <<routes, sessions, req, made, expired, files, history>>

OpenStep(t) ==
  \/ \E u \in Users, r \in OpenRoutes : Read(t, u, r)
  \/ LoginWrong(t) \/ LoginBadFactor(t) \/ RecordFailure(t)
  \/ LoginCode(t) \/ LoginOpen(t) \/ StartLoginCode(t)

OwnStep(t) ==
  \/ \E c \in sessions, r \in OwnRoutes \cup AdminRoutes, u \in Users : Enter(t, c, r, u)
  \/ Load(t) \/ Refuse(t)
  \/ EnableTotp(t) \/ VerifyNewTotp(t) \/ DisableTotp(t) \/ ChangePassword(t)
  \/ StartCode(t) \/ ConfirmCode(t) \/ Logout(t)
  \/ \E upload \in BOOLEAN, name \in {"same", "new", "taken"} : UpdateProfile(t, upload, name)

AdminStep(t) ==
  AdminUpdate(t) \/ AdminDelete(t) \/ \E role \in {"admin", "soc"} : AdminCreate(t, role)

Next ==
  \/ \E t \in Threads : OpenStep(t) \/ OwnStep(t) \/ AdminStep(t)
  \/ \E c \in sessions : SessionDropped(c)
  \/ \E c \in Ids : CodeExpires(c)
  \/ \E u \in Users : LockRunsOut(u)

Spec == Init /\ [][Next]_vars

-----------------------------------------------------------------------------
\* Properties

\* A multiset of counts below the lock, one per thread: how many are above each count.
Multisets ==
  {m \in [0 .. Lockout - 2 -> 0 .. Cardinality(Threads)] :
     \A x, y \in 0 .. Lockout - 2 : x <= y => m[y] <= m[x]}

\* Wrong answers lock the account although requests overwrite each other's count.  With
\* n requests at a time each lost write can set the count back; the longest way to the
\* lock is over the multisets of n counts below it.
LostBound    == Cardinality(Multisets) - 1
LockoutBound == \A u \in Users : users[u].lock = "none" => wrong[u] <= LostBound

\* "You cannot remove your own admin role": an administrator remains, unless two
\* administrators removed each other while both requests were under way.
AdminRemains ==
  crossed \/ \E u \in Users : users[u].state = "live" /\ users[u].role = "admin"

\* A code from a mail opens no more logins than requests that had read it before the
\* first of them cleared it.
CodeUsesBounded == \A c \in Ids : uses[c] <= Cardinality(Threads)

\* An account that asks for a TOTP code holds the secret to compare it with, unless a
\* set-up of it was confirmed over a row where TOTP had been switched off meanwhile:
\* that leaves a secret alone, and a reset that overlaps the next set-up a flag alone.
TotpUsable == \A u \in Users : users[u].totp => users[u].secret # 0 \/ u \in skewed

\* The avatar of a user is a file on disk, unless a commit of his failed after the old
\* file was removed.
AvatarKept ==
  \A u \in Users :
    users[u].state = "live" => users[u].file \in files \cup {0} \/ u \in torn
=============================================================================
