----------------------------- MODULE MCAccounts -----------------------------
\* Accounts on small instances: one user at the login page, with and without second
\* factors; one user's settings; and three users with two administrators.
EXTENDS Accounts, TLC

CONSTANTS u1, u2, u3, t1, t2

\* The rows of bootstrap_db.py and admin_create_user, and of a user with a second factor.
NoRow   == [state |-> "none", pwd |-> 1, role |-> "soc", failed |-> 0, lock |-> "none",
            totp |-> FALSE, secret |-> 0, email |-> FALSE, code |-> 0, file |-> 0]
Soc     == [NoRow EXCEPT !.state = "live"]
Admin   == [Soc EXCEPT !.role = "admin"]
Factors == {Admin, [Admin EXCEPT !.totp = TRUE, !.secret = 1], [Admin EXCEPT !.email = TRUE]}

Start(a, b, c) == (u1 :> a) @@ (u2 :> b) @@ (u3 :> c)
Deploy(rs, rows, in) ==
  [routes |-> rs, users |-> rows,
   sessions |-> {[user |-> u, pwd |-> 1, pending |-> 0] : u \in in},
   made |-> [m \in Made |-> CASE m = "pwd" -> 1
                              [] m = "secret" -> rows[u1].secret
                              [] OTHER -> 0]]

\* The login page alone; then users who are logged in, with the routes whose writes meet
\* in the same columns.
MCDeployments ==
  {Deploy(OpenRoutes, Start(f, NoRow, NoRow), {}) : f \in Factors}
  \cup {Deploy({"enable_totp", "verify_new_totp", "disable_totp", "reset_mfa"},
               Start(Soc, Admin, NoRow), {u1, u2}),
        Deploy({"start_email_otp", "start_email_otp_disable", "verify_email_otp",
                "disable_email_otp", "login"}, Start(Admin, NoRow, NoRow), {u1}),
        Deploy({"update_profile", "logout", "change_password"},
               Start(Admin, NoRow, NoRow), {u1}),
        Deploy({"reset_password", "lock"}, Start(Soc, Admin, NoRow), {u1, u2}),
        Deploy({"create", "delete", "promote", "demote"}, Start(Admin, Admin, NoRow), {u1, u2}),
        Deploy({"check_totp", "unlock"}, Start(Soc, Admin, NoRow), {u2})}

Symmetry == Permutations(Threads)
=============================================================================
