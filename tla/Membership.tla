----------------------------- MODULE Membership -----------------------------
(***************************************************************************)
(* Projects and their members: who may change the members of a project,    *)
(* from the project's own page (owners and admins) and from the admins'    *)
(* user page, each handler with its reads before its write.  The accounts  *)
(* are those of Accounts as this part sees them: they come, change role    *)
(* and go by single statements, and the foreign keys tie them to projects. *)
(***************************************************************************)
EXTENDS Naturals, FiniteSets

CONSTANTS
  User,      \* the uuids an account may get
  Project,   \* the uuids a project may get
  Worker,    \* the requests the server is serving at one time
  None       \* a missing row, or a local the handler has not set

ASSUME NoneIsNoId == None \notin User \cup Project
ASSUME UserIsFinite == IsFiniteSet(User)

VARIABLES
  account,   \* the users table: the role of each account, or None
  creator,   \* the projects table: created_by, or None where no project is
  members,   \* project_members: the role of a user in a project, or None
  pc,        \* where each worker is in its handler
  op,        \* the request it serves
  who,       \* the user of its session
  place,     \* the project the request is about
  target     \* the user it is about

tables == <<account, creator, members>>
locals == <<pc, op, who, place, target>>
vars   == <<account, creator, members, pc, op, who, place, target>>

AdminOps == {"attach", "detach"}            \* on the admins' user page
PageOps  == {"add", "remove", "drop"}       \* on the project's pages
Ops      == AdminOps \cup PageOps \cup {"create"}

ASSUME NoneIsNoRole == None \notin {"user", "admin", "owner", "member"} \cup Ops

TypeOK ==
  /\ account \in [User -> {"user", "admin", None}]
  /\ creator \in [Project -> User \cup {None}]
  /\ members \in [Project -> [User -> {"owner", "member", None}]]
  /\ pc \in [Worker -> {"idle", "role", "member", "owners", "write"}]
  /\ op \in [Worker -> Ops \cup {None}]
  /\ who \in [Worker -> User \cup {None}]
  /\ place \in [Worker -> Project \cup {None}]
  /\ target \in [Worker -> User \cup {None}]

Owners(p) == {u \in User : members[p][u] = "owner"}

-----------------------------------------------------------------------------
(* The accounts set-up, registration and approval have made. *)
Init ==
  /\ account \in [User -> {"user", "admin", None}]
  /\ creator = [p \in Project |-> None]
  /\ members = [p \in Project |-> [u \in User |-> None]]
  /\ pc = [w \in Worker |-> "idle"]
  /\ op = [w \in Worker |-> None]
  /\ who = [w \in Worker |-> None]
  /\ place = [w \in Worker |-> None]
  /\ target = [w \in Worker |-> None]

Goto(w, where) == pc' = [pc EXCEPT ![w] = where]

(* The handler returns, with a redirect or an error. *)
Answer(w) ==
  /\ Goto(w, "idle")
  /\ op' = [op EXCEPT ![w] = None]
  /\ who' = [who EXCEPT ![w] = None]
  /\ place' = [place EXCEPT ![w] = None]
  /\ target' = [target EXCEPT ![w] = None]

(* What a handler does once the requester is known to be allowed to. *)
Allowed(o) == IF o = "remove" THEN "member" ELSE "write"

(* session_user: x is signed in; is_admin is answered from the row read here.*)
Request(w, o, x, p, u) ==
  /\ pc[w] = "idle" /\ account[x] # None
  /\ o \in AdminOps => account[x] = "admin"
  /\ Goto(w, IF o \in PageOps /\ account[x] # "admin" THEN "role" ELSE Allowed(o))
  /\ op' = [op EXCEPT ![w] = o]
  /\ who' = [who EXCEPT ![w] = x]
  /\ place' = [place EXCEPT ![w] = p]
  /\ target' = [target EXCEPT ![w] = u]
  /\ UNCHANGED tables

(* user_project_role, or is_project_member where any member may. *)
ReadRole(w) ==
  /\ pc[w] = "role"
  /\ IF op[w] = "drop" THEN members[place[w]][who[w]] # None
                       ELSE members[place[w]][who[w]] = "owner"
  /\ Goto(w, Allowed(op[w]))
  /\ UNCHANGED <<tables, op, who, place, target>>

(* project_member_remove: an owner is only removed after a count. *)
ReadMember(w) ==
  /\ pc[w] = "member"
  /\ Goto(w, IF members[place[w]][target[w]] = "owner" THEN "owners" ELSE "write")
  /\ UNCHANGED <<tables, op, who, place, target>>

CountOwners(w) ==
  /\ pc[w] = "owners"
  /\ IF Cardinality(Owners(place[w])) <= 1
     THEN Answer(w)
     ELSE Goto(w, "write") /\ UNCHANGED <<op, who, place, target>>
  /\ UNCHANGED tables

Writes(w, ops) == pc[w] = "write" /\ op[w] \in ops

(* Mutant: who adds a member passes on the role of an owner. *)
AddAsOwner(w) ==
  /\ Writes(w, {"add", "attach"})
  /\ creator[place[w]] # None /\ account[target[w]] # None
  /\ members' = [members EXCEPT ![place[w]][target[w]] =
                   IF @ = None THEN "owner" ELSE @]
  /\ Answer(w)
  /\ UNCHANGED <<account, creator>>

(* Mutant: INSERT OR REPLACE. *)
AddOrReplace(w) ==
  /\ Writes(w, {"add", "attach"})
  /\ creator[place[w]] # None /\ account[target[w]] # None
  /\ members' = [members EXCEPT ![place[w]][target[w]] = "member"]
  /\ Answer(w)
  /\ UNCHANGED <<account, creator>>

(* add_project_member: INSERT OR IGNORE, both ids are foreign keys. *)
Add(w) ==
  /\ Writes(w, {"add", "attach"})
  /\ creator[place[w]] # None /\ account[target[w]] # None
  /\ members' = [members EXCEPT ![place[w]][target[w]] =
                   IF @ = None THEN "member" ELSE @]
  /\ Answer(w)
  /\ UNCHANGED <<account, creator>>

(* remove_project_member *)
Remove(w) ==
  /\ Writes(w, {"remove", "detach"})
  /\ members' = [members EXCEPT ![place[w]][target[w]] = None]
  /\ Answer(w)
  /\ UNCHANGED <<account, creator>>

(* create_project: the project and its owner's row, in one transaction. *)
CreateProject(w) ==
  /\ Writes(w, {"create"})
  /\ account[who[w]] # None
  /\ \E p \in Project :
       /\ creator[p] = None /\ \A v \in Worker : place[v] # p
       /\ creator' = [creator EXCEPT ![p] = who[w]]
       /\ members' = [members EXCEPT ![p][who[w]] = "owner"]
  /\ Answer(w)
  /\ UNCHANGED account

(* delete_project, its members go with it. *)
DeleteProject(w) ==
  /\ Writes(w, {"drop"})
  /\ creator' = [creator EXCEPT ![place[w]] = None]
  /\ members' = [members EXCEPT ![place[w]] = [u \in User |-> None]]
  /\ Answer(w)
  /\ UNCHANGED account

(* A check or a foreign key refuses, the database is locked, the client     *)
(* hangs up, or the server dies.  Nothing was written.                      *)
GiveUp(w) ==
  /\ pc[w] # "idle"
  /\ Answer(w)
  /\ UNCHANGED tables

-----------------------------------------------------------------------------
(* create_user and approve_user, for a uuid no request has heard of. *)
Register(u) ==
  /\ account[u] = None
  /\ \A w \in Worker : who[w] # u /\ target[w] # u
  /\ account' = [account EXCEPT ![u] = "user"]
  /\ UNCHANGED <<creator, members, locals>>

(* set_user_role *)
SetRole(u, r) ==
  /\ account[u] # None
  /\ account' = [account EXCEPT ![u] = r]
  /\ UNCHANGED <<creator, members, locals>>

(* Mutant: project_members.user_id has no ON DELETE CASCADE. *)
DeleteUserAlone(u) ==
  /\ account[u] # None
  /\ \A p \in Project : creator[p] # u
  /\ account' = [account EXCEPT ![u] = None]
  /\ UNCHANGED <<creator, members, locals>>

(* delete_user: fails for the creator of a project, whose created_by has no *)
(* ON DELETE clause, and cascades to the memberships.                       *)
DeleteUser(u) ==
  /\ account[u] # None
  /\ \A p \in Project : creator[p] # u
  /\ account' = [account EXCEPT ![u] = None]
  /\ members' = [p \in Project |-> [members[p] EXCEPT ![u] = None]]
  /\ UNCHANGED <<creator, locals>>

Next ==
  \/ \E w \in Worker :
       \/ \E x \in User :
            \/ \E o \in AdminOps \cup {"add", "remove"}, p \in Project, u \in User :
                 Request(w, o, x, p, u)
            \/ \E p \in Project : Request(w, "drop", x, p, None)
            \/ Request(w, "create", x, None, None)
       \/ ReadRole(w) \/ ReadMember(w) \/ CountOwners(w)
       \/ Add(w) \/ Remove(w) \/ CreateProject(w) \/ DeleteProject(w)
       \/ GiveUp(w)
  \/ \E u \in User : \/ Register(u) \/ DeleteUser(u)
                     \/ \E r \in {"user", "admin"} : SetRole(u, r)

Spec == Init /\ [][Next]_vars

-----------------------------------------------------------------------------
(* Both ends of a membership exist, although handlers add members to        *)
(* projects and of users that were deleted since they looked.               *)
MembersExist ==
  \A p \in Project, u \in User :
    members[p][u] # None => account[u] # None /\ creator[p] # None

(* No path of the pages hands ownership on: the owner of a project is the   *)
(* user who created it, so it never has a second one, and the count of      *)
(* project_member_remove finds at most one owner.                           *)
OwnerIsCreator ==
  \A p \in Project, u \in User : members[p][u] = "owner" => creator[p] = u

(* pages.rs:5496 "Don't let the last owner remove themselves.": whatever is *)
(* added, removed, deleted or promoted at the same time, a project that     *)
(* stays loses its owner on the admins' user page only.                     *)
OwnerLostByAdminsOnly ==
  [][\A p \in Project, u \in User :
       members[p][u] = "owner" /\ members'[p][u] # "owner" /\ creator'[p] # None =>
         \E w \in Worker : /\ Writes(w, {"detach"})
                           /\ place[w] = p /\ target[w] = u]_vars

=============================================================================
