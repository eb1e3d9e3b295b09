------------------------------- MODULE Accounts -------------------------------
(***************************************************************************)
(* Accounts, sessions and the one-time set-up, read by read and write by   *)
(* write: auth.rs's session_user, the handlers of pages.rs for /setup,     *)
(* /register, /login, /logout and /admin/users, and the statements of      *)
(* repository.rs they run.  A handler awaits between its statements, so    *)
(* what it has read (the user of the session, the role of the target, the  *)
(* number of admins) may be stale when it writes.                          *)
(*                                                                         *)
(* A statement of its own commits as it runs.  create_first_user is the    *)
(* one transaction that reads before it writes: SQLite lets it write only  *)
(* while nothing was committed since it read (otherwise "database is       *)
(* locked", SQLITE_BUSY_SNAPSHOT); its writes and COMMIT are one step.     *)
(* Passwords, names, cookies, CSRF tokens and the rate limiter are left    *)
(* out: a request that fails one of those checks changes nothing.          *)
(***************************************************************************)
EXTENDS Naturals, FiniteSets

CONSTANTS
  User,     \* the uuids an account may get
  Token,    \* session tokens
  Worker,   \* the requests the server is serving at one time
  None      \* a missing row, or a local the handler has not set

ASSUME NoneIsNoId == None \notin User \cup Token

VARIABLES
  users,      \* the users table: role and approval, or None
  sessions,   \* the sessions table: whose session a token is, or None
  setup,      \* settings 'setup.complete'
  authored,   \* the users that a created_by or assigned_to column names
  pc,         \* where each worker is in its handler
  op,         \* the request it serves
  who,        \* the user of its session, or the account it will log in
  token,      \* the token a logout came with
  target,     \* the account an admin's request is about
  newRole,    \* the role it will write
  seen,       \* history: the admins there were when it last looked
  fresh       \* whether nothing was committed since its transaction read

tables == <<users, sessions, setup, authored>>
locals == <<pc, op, who, token, target, newRole, seen>>
vars   == <<users, sessions, setup, authored,
            pc, op, who, token, target, newRole, seen, fresh>>

Role     == {"admin", "user"}
Account  == [role : Role, approved : BOOLEAN]
AdminOps == {"approve", "reject", "role", "delete"}
Ops      == AdminOps \cup {"setup", "login", "logout", "create"}

ASSUME NoneIsNoAccount == None \notin Account /\ None \notin Role

TypeOK ==
  /\ users \in [User -> Account \cup {None}]
  /\ sessions \in [Token -> User \cup {None}]
  /\ setup \in BOOLEAN
  /\ authored \in SUBSET User
  /\ pc \in [Worker -> {"idle", "session", "target", "count", "write",
                        "setup", "counted", "login"}]
  /\ op \in [Worker -> Ops \cup {None}]
  /\ who \in [Worker -> User \cup {None}]
  /\ token \in [Worker -> Token \cup {None}]
  /\ target \in [Worker -> User \cup {None}]
  /\ newRole \in [Worker -> Role \cup {None}]
  /\ seen \in [Worker -> SUBSET User]
  /\ fresh \in [Worker -> BOOLEAN]

Admins == {u \in User : users[u] # None /\ users[u].role = "admin"}

-----------------------------------------------------------------------------
(* A database the migrations have just made. *)
Init ==
  /\ users = [u \in User |-> None]
  /\ sessions = [t \in Token |-> None]
  /\ setup = FALSE /\ authored = {}
  /\ pc = [w \in Worker |-> "idle"]
  /\ op = [w \in Worker |-> None]
  /\ who = [w \in Worker |-> None]
  /\ token = [w \in Worker |-> None]
  /\ target = [w \in Worker |-> None]
  /\ newRole = [w \in Worker |-> None]
  /\ seen = [w \in Worker |-> {}]
  /\ fresh = [w \in Worker |-> FALSE]

(* A new uuid: no row and no request knows it. *)
FreshId(u) ==
  /\ users[u] = None
  /\ \A w \in Worker : who[w] # u /\ target[w] # u

Goto(w, place) == pc' = [pc EXCEPT ![w] = place]

(* The handler returns, with a page, a redirect or an error. *)
Answer(w) ==
  /\ Goto(w, "idle")
  /\ op' = [op EXCEPT ![w] = None]
  /\ who' = [who EXCEPT ![w] = None]
  /\ token' = [token EXCEPT ![w] = None]
  /\ target' = [target EXCEPT ![w] = None]
  /\ newRole' = [newRole EXCEPT ![w] = None]
  /\ seen' = [seen EXCEPT ![w] = {}]

(* A read of the users table. *)
Look(w) == seen' = [seen EXCEPT ![w] = Admins]

(* Every read snapshot is out of date from now on. *)
Commit == fresh' = [w \in Worker |-> FALSE]

-----------------------------------------------------------------------------
(* Set-up. *)

(* setup_form: is_setup_complete, before the password is hashed. *)
SetupForm(w) ==
  /\ pc[w] = "idle" /\ ~setup
  /\ Goto(w, "setup")
  /\ op' = [op EXCEPT ![w] = "setup"]
  /\ UNCHANGED <<tables, who, token, target, newRole, seen, fresh>>

(* ... and once it is complete, the form only leads to /login. *)
SetupRedirect(w) == pc[w] = "idle" /\ setup /\ UNCHANGED vars

(* create_first_user: the accounts are counted inside the transaction. *)
SetupCount(w) ==
  /\ pc[w] = "setup"
  /\ \A u \in User : users[u] = None
  /\ Goto(w, "counted")
  /\ fresh' = [fresh EXCEPT ![w] = TRUE]
  /\ UNCHANGED <<tables, op, who, token, target, newRole, seen>>

(* ... Conflict("setup already complete") *)
SetupConflict(w) ==
  /\ pc[w] = "setup"
  /\ \E u \in User : users[u] # None
  /\ Answer(w)
  /\ UNCHANGED <<tables, fresh>>

(* Mutant: the count and the INSERT are not one transaction. *)
SetupInsertStale(w) ==
  /\ pc[w] = "counted"
  /\ \E u \in User :
       /\ FreshId(u)
       /\ users' = [users EXCEPT ![u] = [role |-> "admin", approved |-> TRUE]]
       /\ who' = [who EXCEPT ![w] = u]
  /\ setup' = TRUE
  /\ Commit /\ Goto(w, "login")
  /\ UNCHANGED <<sessions, authored, op, token, target, newRole, seen>>

(* ... INSERT the admin, set setup.complete, COMMIT. *)
SetupInsert(w) ==
  /\ pc[w] = "counted" /\ fresh[w]
  /\ \E u \in User :
       /\ FreshId(u)
       /\ users' = [users EXCEPT ![u] = [role |-> "admin", approved |-> TRUE]]
       /\ who' = [who EXCEPT ![w] = u]
  /\ setup' = TRUE
  /\ Commit /\ Goto(w, "login")
  /\ UNCHANGED <<sessions, authored, op, token, target, newRole, seen>>

-----------------------------------------------------------------------------
(* Registering, logging in, logging out. *)

(* register_form -> create_user; a taken name is a Conflict, no change. *)
Register(w) ==
  /\ pc[w] = "idle"
  /\ \E u \in User :
       /\ FreshId(u)
       /\ users' = [users EXCEPT ![u] = [role |-> "user", approved |-> FALSE]]
  /\ Commit
  /\ UNCHANGED <<sessions, setup, authored, locals>>

(* Mutant: the approval check is missing. *)
LoginUnapproved(w, u) ==
  /\ pc[w] = "idle"
  /\ users[u] # None
  /\ Goto(w, "login")
  /\ op' = [op EXCEPT ![w] = "login"]
  /\ who' = [who EXCEPT ![w] = u]
  /\ UNCHANGED <<tables, token, target, newRole, seen, fresh>>

(* login_form: the password fits and the account is approved. *)
Login(w, u) ==
  /\ pc[w] = "idle"
  /\ users[u] # None /\ users[u].approved
  /\ Goto(w, "login")
  /\ op' = [op EXCEPT ![w] = "login"]
  /\ who' = [who EXCEPT ![w] = u]
  /\ UNCHANGED <<tables, token, target, newRole, seen, fresh>>

(* ... and an account that is not approved gets the form again. *)
LoginPending(w, u) ==
  /\ pc[w] = "idle"
  /\ users[u] # None /\ ~users[u].approved
  /\ UNCHANGED vars

(* create_session, also at the end of setup_form; the user is a foreign key. *)
CreateSession(w) ==
  /\ pc[w] = "login"
  /\ users[who[w]] # None
  /\ \E t \in Token : /\ sessions[t] = None
                      /\ sessions' = [sessions EXCEPT ![t] = who[w]]
  /\ Commit /\ Answer(w)
  /\ UNCHANGED <<users, setup, authored>>

(* A session's expires_at_ms has passed: session_by_token no longer sees it. *)
Expire(t) ==
  /\ sessions[t] # None
  /\ sessions' = [sessions EXCEPT ![t] = None]
  /\ UNCHANGED <<users, setup, authored, locals, fresh>>

-----------------------------------------------------------------------------
(* Requests with a session. *)

(* session_user's first read: session_by_token. *)
FindSession(w, o, t, u) ==
  /\ pc[w] = "idle" /\ sessions[t] # None
  /\ Goto(w, "session")
  /\ op' = [op EXCEPT ![w] = o]
  /\ who' = [who EXCEPT ![w] = sessions[t]]
  /\ token' = [token EXCEPT ![w] = IF o = "logout" THEN t ELSE None]
  /\ target' = [target EXCEPT ![w] = u]
  /\ UNCHANGED <<tables, newRole, seen, fresh>>

(* session_user's second read, find_user_by_id, and the checks on its row:  *)
(* is_admin for the admin pages, is_approved for content, and nobody        *)
(* deletes their own account.                                               *)
FindUser(w) ==
  /\ pc[w] = "session"
  /\ users[who[w]] # None
  /\ op[w] \in AdminOps => users[who[w]].role = "admin"
  /\ op[w] = "create" => users[who[w]].approved
  /\ op[w] = "delete" => target[w] # who[w]
  /\ Goto(w, IF op[w] \in {"role", "delete"} THEN "target" ELSE "write")
  /\ Look(w)
  /\ UNCHANGED <<tables, op, who, token, target, newRole, fresh>>

(* find_user_by_id of the target: an admin is counted, see CountAdmins. *)
FindTarget(w) ==
  /\ pc[w] = "target"
  /\ users[target[w]] # None
  /\ IF users[target[w]].role = "admin"
     THEN Goto(w, "count") /\ UNCHANGED newRole
     ELSE /\ Goto(w, "write")
          /\ newRole' = [newRole EXCEPT ![w] =
                           IF op[w] = "role" THEN "admin" ELSE None]
  /\ Look(w)
  /\ UNCHANGED <<tables, op, who, token, target, fresh>>

(* Mutant: an admin who is the only one passes the check. *)
CountAdminsOffByOne(w) ==
  /\ pc[w] = "count"
  /\ Cardinality(Admins) >= 1
  /\ Goto(w, "write")
  /\ newRole' = [newRole EXCEPT ![w] = IF op[w] = "role" THEN "user" ELSE None]
  /\ Look(w)
  /\ UNCHANGED <<tables, op, who, token, target, fresh>>

(* count_admins: the last admin is neither demoted nor deleted. *)
CountAdmins(w) ==
  /\ pc[w] = "count"
  /\ Cardinality(Admins) > 1
  /\ Goto(w, "write")
  /\ newRole' = [newRole EXCEPT ![w] = IF op[w] = "role" THEN "user" ELSE None]
  /\ Look(w)
  /\ UNCHANGED <<tables, op, who, token, target, fresh>>

Writes(w, o) == pc[w] = "write" /\ op[w] = o

(* approve_user; an UPDATE that matches no row changes nothing. *)
Approve(w) ==
  /\ Writes(w, "approve")
  /\ users' = [users EXCEPT ![target[w]] =
                 IF @ = None THEN None ELSE [@ EXCEPT !.approved = TRUE]]
  /\ Commit /\ Answer(w)
  /\ UNCHANGED <<sessions, setup, authored>>

(* A user's row and, ON DELETE CASCADE, their sessions. *)
Remove(u) ==
  /\ users' = [users EXCEPT ![u] = None]
  /\ sessions' = [t \in Token |-> IF sessions[t] = u THEN None ELSE sessions[t]]

(* Mutant: the account was seen pending, and is deleted whatever it is now. *)
RejectWhatever(w) ==
  /\ Writes(w, "reject")
  /\ IF target[w] \notin authored
     THEN Remove(target[w])
     ELSE UNCHANGED <<users, sessions>>
  /\ Commit /\ Answer(w)
  /\ UNCHANGED <<setup, authored>>

(* reject_user: DELETE ... WHERE id = ? AND approved = 0. *)
Reject(w) ==
  /\ Writes(w, "reject")
  /\ LET u == target[w] IN
     IF users[u] # None /\ ~users[u].approved /\ u \notin authored
     THEN Remove(u)
     ELSE UNCHANGED <<users, sessions>>
  /\ Commit /\ Answer(w)
  /\ UNCHANGED <<setup, authored>>

(* set_user_role *)
SetRole(w) ==
  /\ Writes(w, "role")
  /\ users' = [users EXCEPT ![target[w]] =
                 IF @ = None THEN None ELSE [@ EXCEPT !.role = newRole[w]]]
  /\ Commit /\ Answer(w)
  /\ UNCHANGED <<sessions, setup, authored>>

(* delete_user; created_by and assigned_to have no ON DELETE clause, so the *)
(* DELETE of somebody they name fails.                                      *)
DeleteUser(w) ==
  /\ Writes(w, "delete")
  /\ IF target[w] \notin authored
     THEN Remove(target[w])
     ELSE UNCHANGED <<users, sessions>>
  /\ Commit /\ Answer(w)
  /\ UNCHANGED <<setup, authored>>

(* Any handler that stores the session's user as created_by, a foreign key. *)
CreateContent(w) ==
  /\ Writes(w, "create")
  /\ users[who[w]] # None
  /\ authored' = authored \cup {who[w]}
  /\ Commit /\ Answer(w)
  /\ UNCHANGED <<users, sessions, setup>>

(* The last row that names u is deleted, with its project for example. *)
DropContent(u) ==
  /\ u \in authored
  /\ authored' = authored \ {u}
  /\ Commit
  /\ UNCHANGED <<users, sessions, setup, locals>>

(* logout_form: delete_session of the token in the cookie. *)
Logout(w) ==
  /\ Writes(w, "logout")
  /\ sessions' = [sessions EXCEPT ![token[w]] = None]
  /\ Commit /\ Answer(w)
  /\ UNCHANGED <<users, setup, authored>>

(* A handler ends early: a check or a foreign key refuses, the database is  *)
(* locked, the client hangs up, or the server dies.  Nothing was written.   *)
GiveUp(w) ==
  /\ pc[w] # "idle"
  /\ Answer(w)
  /\ UNCHANGED <<tables, fresh>>

-----------------------------------------------------------------------------
Next ==
  \/ \E w \in Worker :
       \/ SetupForm(w) \/ SetupRedirect(w) \/ SetupCount(w)
       \/ SetupConflict(w) \/ SetupInsert(w)
       \/ Register(w) \/ CreateSession(w)
       \/ \E u \in User : Login(w, u) \/ LoginPending(w, u)
       \/ \E t \in Token :
            \/ \E o \in AdminOps, u \in User : FindSession(w, o, t, u)
            \/ \E o \in {"logout", "create"} : FindSession(w, o, t, None)
       \/ FindUser(w) \/ FindTarget(w) \/ CountAdmins(w)
       \/ Approve(w) \/ Reject(w) \/ SetRole(w) \/ DeleteUser(w)
       \/ CreateContent(w) \/ Logout(w) \/ GiveUp(w)
  \/ \E t \in Token : Expire(t)
  \/ \E u \in User : DropContent(u)

Spec == Init /\ [][Next]_vars

-----------------------------------------------------------------------------
(* Only login_form checks the approval of the account whose session it opens*)
(* and most handlers rely on that: whatever admins do while it awaits, a    *)
(* session belongs to an account that exists and is approved.               *)
SessionsAreApproved ==
  \A t \in Token : sessions[t] # None =>
    users[sessions[t]] # None /\ users[sessions[t]].approved

(* create_first_user is alone: set-up completes once, in a database with no *)
(* account, and leaves exactly one, an approved admin; it is never undone.  *)
SetupCreatesTheAdmin ==
  [][setup' # setup =>
       /\ setup' /\ \A u \in User : users[u] = None
       /\ \E a \in User : \A u \in User :
            users'[u] = IF u = a THEN [role |-> "admin", approved |-> TRUE]
                                 ELSE None]_vars

(* An admin who rejects an account another admin has just approved does not *)
(* delete it: an approved account goes only by the delete request of        *)
(* somebody else.                                                           *)
ApprovedGoOnlyByDelete ==
  [][\A u \in User : users[u] # None /\ users[u].approved /\ users'[u] = None =>
       \E w \in Worker : /\ Writes(w, "delete") /\ target[w] = u
                         /\ who[w] \notin {u, None}]_vars

(* The counts of admins work as long as nobody overtakes them: the last     *)
(* admin goes only by a request on the admins' page that decided on other   *)
(* admins than there are when it writes.                                    *)
LastAdminLostToStaleRead ==
  [][Admins # {} /\ Admins' = {} =>
       \E w \in Worker : /\ pc[w] = "write" /\ pc'[w] = "idle"
                         /\ op[w] \in {"role", "delete", "reject"}
                         /\ seen[w] # Admins]_vars
=============================================================================
