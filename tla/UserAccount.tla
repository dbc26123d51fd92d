---------------------------- MODULE UserAccount ----------------------------
(***************************************************************************)
(* The user accounts of the web app: registration and the seeding of      *)
(* init_db through UserManager.create (auth/manager.py), e-mail           *)
(* verification (GET /verify), PATCH /users/me (update_me_securely) and    *)
(* the administrators' PATCH /users/{id} (update_user), both through      *)
(* BaseUserManager.update.  A request is one step; an update either        *)
(* writes every validated field or (UserAlreadyExists, a weak password,   *)
(* a NULL in a NOT NULL column) nothing, and is answered with a 400.       *)
(* Role checks of the routes use role (api/deps.py), the admin routes     *)
(* is_superuser (current_superuser): the two must agree.                  *)
(***************************************************************************)
EXTENDS Integers, FiniteSets

CONSTANTS
    Users,        \* user ids
    Emails,       \* e-mail addresses
    Passwords,    \* passwords, WeakPasswords among them
    WeakPasswords, \* those validate_password rejects
    Seeds,        \* init_db's users: [email, password, role, su]
    MePatches,    \* UserUpdateSecure payloads (set: the fields sent)
    AdminPatches  \* UserUpdate payloads

\* A role sent as null is the value "null".
NoUser == [email |-> "none", pw |-> "none", role |-> "none", su |-> FALSE,
           verified |-> FALSE]

VARIABLES
    users,  \* id |-> [email, pw, role, su, verified], or NoUser
    out     \* the status code of the last request

vars == <<users, out>>

Exists(u) == users[u] # NoUser
EmailTaken(e) == \E v \in Users : Exists(v) /\ users[v].email = e

----------------------------------------------------------------------------
(* BaseUserManager._update: a new e-mail must be free and makes the user *)
(* unverified; a password must pass validate_password; every other sent  *)
(* field is set as it is.  A null role breaks the NOT NULL column.      *)
(* "ok" tells whether the commit succeeds.                               *)
Apply(usr, d) ==
    LET newEmail == "email" \in d.set /\ d.email # usr.email
    IN  [ok |-> /\ ~(newEmail /\ EmailTaken(d.email))
                /\ ~("password" \in d.set /\ d.password \in WeakPasswords)
                /\ ~("role" \in d.set /\ d.role = "null"),
         user |-> [email |-> IF "email" \in d.set THEN d.email ELSE usr.email,
                   pw |-> IF "password" \in d.set THEN d.password ELSE usr.pw,
                   role |-> IF "role" \in d.set THEN d.role ELSE usr.role,
                   su |-> IF "su" \in d.set THEN d.su ELSE usr.su,
                   verified |-> IF newEmail THEN FALSE
                                ELSE IF "verified" \in d.set THEN d.verified
                                ELSE usr.verified]]

\* UserManager.create with safe=False: a role of admin makes the user a
\* superuser, a superuser is given the admin role.
CreateNormalized(s) ==
    CASE s.role = "admin" /\ ~s.su -> [s EXCEPT !.su = TRUE]
      [] s.su /\ s.role # "admin" -> [s EXCEPT !.role = "admin"]
      [] OTHER -> s

\* Mutation: is_superuser=False no longer demotes an admin.
Normalize_nodemote(usr, p) ==
    CASE (("role" \in p.set /\ p.role = "admin") \/ ("su" \in p.set /\ p.su = TRUE)) ->
            [p EXCEPT !.set = @ \cup {"role", "su"}, !.role = "admin", !.su = TRUE]
      [] "role" \in p.set /\ p.role \in {"student", "instructor"} ->
            [p EXCEPT !.set = @ \cup {"su"}, !.su = FALSE]
      [] OTHER -> p

\* update_user: role admin or is_superuser True give both; a student or
\* instructor role clears is_superuser; is_superuser False alone demotes
\* an admin to student.
Normalize(usr, p) ==
    CASE (("role" \in p.set /\ p.role = "admin") \/ ("su" \in p.set /\ p.su = TRUE)) ->
            [p EXCEPT !.set = @ \cup {"role", "su"}, !.role = "admin", !.su = TRUE]
      [] "role" \in p.set /\ p.role \in {"student", "instructor"} ->
            [p EXCEPT !.set = @ \cup {"su"}, !.su = FALSE]
      [] "su" \in p.set /\ p.su = FALSE /\ usr.role = "admin" ->
            [p EXCEPT !.set = @ \cup {"role"}, !.role = "student"]
      [] OTHER -> p

Init ==
    /\ users = [u \in Users |-> NoUser]
    /\ out = 0

Commit(u, r) ==
    IF r.ok THEN out' = 200 /\ users' = [users EXCEPT ![u] = r.user]
    ELSE out' = 400 /\ UNCHANGED users

\* POST /auth/register: create with safe=True (role forced to student,
\* is_superuser ignored, unverified).
Register(u, e, pw) ==
    /\ ~Exists(u)
    /\ IF EmailTaken(e) \/ pw \in WeakPasswords
       THEN out' = 400 /\ UNCHANGED users
       ELSE /\ out' = 201
            /\ users' = [users EXCEPT ![u] = [email |-> e, pw |-> pw, role |-> "student",
                                              su |-> FALSE, verified |-> FALSE]]

\* init_db's _get_or_create_user: an existing e-mail is kept as it is;
\* else create with safe=False, verified.
Seed(u, s) ==
    /\ ~Exists(u)
    /\ ~EmailTaken(s.email)
    /\ LET n == CreateNormalized(s)
       IN  users' = [users EXCEPT ![u] = [email |-> n.email, pw |-> n.password,
                                          role |-> n.role, su |-> n.su, verified |-> TRUE]]
    /\ out' = 201

\* GET /verify: 400 if already verified.
Verify(u) ==
    /\ Exists(u)
    /\ IF users[u].verified THEN out' = 400 /\ UNCHANGED users
       ELSE out' = 200 /\ users' = [users EXCEPT ![u].verified = TRUE]

\* PATCH /users/me: current_user (verified: 403); role dropped; a new
\* e-mail or password needs the current password (400 missing, 400 same
\* e-mail, 401 wrong); update with safe=True ignores is_superuser and
\* is_verified.
UpdateMe(u, p) ==
    /\ Exists(u)
    /\ LET usr == users[u]
           sensitive == {"password", "email"} \cap p.set # {}
       IN  CASE ~usr.verified -> out' = 403 /\ UNCHANGED users
             [] sensitive /\ p.current = "none" -> out' = 400 /\ UNCHANGED users
             [] sensitive /\ "email" \in p.set /\ p.email = usr.email ->
                   out' = 400 /\ UNCHANGED users
             [] sensitive /\ p.current # usr.pw -> out' = 401 /\ UNCHANGED users
             [] OTHER -> Commit(u, Apply(usr, [p EXCEPT !.set = @ \ {"role", "su", "verified"}]))

\* PATCH /users/{id}: current_superuser (403), get_user_or_404, then the
\* role and is_superuser normalization and update with safe=False.
AdminUpdate(a, u, p) ==
    /\ Exists(a)
    /\ CASE ~(users[a].su /\ users[a].verified) -> out' = 403 /\ UNCHANGED users
         [] ~Exists(u) -> out' = 404 /\ UNCHANGED users
         [] OTHER -> Commit(u, Apply(users[u], Normalize(users[u], p)))

Next ==
    \/ \E u \in Users, e \in Emails, pw \in Passwords : Register(u, e, pw)
    \/ \E u \in Users, s \in Seeds : Seed(u, s)
    \/ \E u \in Users : Verify(u)
    \/ \E u \in Users, p \in MePatches : UpdateMe(u, p)
    \/ \E a, u \in Users, p \in AdminPatches : AdminUpdate(a, u, p)

Spec == Init /\ [][Next]_vars

----------------------------------------------------------------------------
\* The role the role-gated routes read and the is_superuser flag the admin
\* routes read agree for every account, after any sequence of seeding,
\* registration, self-service and administrator updates: a user is an
\* admin exactly when it is a superuser.
RoleMatchesSuperuser ==
    \A u \in Users : Exists(u) => (users[u].role = "admin" <=> users[u].su)

=============================================================================
