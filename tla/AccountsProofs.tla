--------------------------- MODULE AccountsProofs ---------------------------
(***************************************************************************)
(* Theorems about Accounts, for any number of accounts, tokens and         *)
(* concurrent requests.  The inductive invariant adds to the properties    *)
(* what a handler still knows when it writes: the account it is about to   *)
(* log in is approved if it still exists (its uuid is never given to       *)
(* somebody else, and approval is never taken back), a delete request is   *)
(* about another account than its own, a request that may take an admin    *)
(* away has seen another admin than its target, and a set-up transaction   *)
(* whose snapshot is still the newest has counted no account.              *)
(***************************************************************************)
EXTENDS Accounts, FiniteSetTheorems, TLAPS

(* What worker w has made sure of, by the place it has reached. *)
Knows(w) ==
  /\ pc[w] = "login" =>
       who[w] # None /\ (users[who[w]] # None => users[who[w]].approved)
  /\ pc[w] \in {"session", "target", "count", "write"} =>
       /\ who[w] # None /\ (users[who[w]] # None => users[who[w]].approved)
       /\ op[w] \in AdminOps => target[w] # None
       /\ op[w] = "logout" => token[w] # None
  /\ pc[w] \in {"target", "count", "write"} /\ op[w] = "delete" =>
       target[w] # who[w]
  /\ pc[w] \in {"target", "count"} => op[w] \in {"role", "delete"}
  /\ pc[w] = "write" /\ op[w] = "role" => newRole[w] # None
  /\ pc[w] = "write" /\ op[w] \in {"role", "delete"} => seen[w] # {target[w]}
  /\ pc[w] = "write" /\ op[w] = "reject" => who[w] \in seen[w]

(* Nothing was committed since an unexpired count: still no account. *)
CountHolds ==
  \A w \in Worker : pc[w] = "counted" /\ fresh[w] =>
    \A u \in User : users[u] = None

IInv ==
  /\ TypeOK
  /\ SessionsAreApproved
  /\ \A w \in Worker : Knows(w)
  /\ CountHolds

-----------------------------------------------------------------------------
LEMMA InitInv == Init => IInv
<1> SUFFICES ASSUME Init PROVE IInv  OBVIOUS
<1>. QED
  BY DEF Init, IInv, TypeOK, SessionsAreApproved, Knows, CountHolds

(* Steps of one handler that leave the tables alone. *)
LocalStep(w) ==
  \/ SetupForm(w) \/ SetupCount(w) \/ SetupConflict(w)
  \/ \E u \in User : Login(w, u)
  \/ \E t \in Token :
       \/ \E o \in AdminOps, u \in User : FindSession(w, o, t, u)
       \/ \E o \in {"logout", "create"} : FindSession(w, o, t, None)
  \/ FindUser(w) \/ FindTarget(w) \/ CountAdmins(w) \/ GiveUp(w)

LEMMA LocalStepInv ==
  ASSUME IInv, NEW w \in Worker, LocalStep(w)
  PROVE  IInv'
<1> USE NoneIsNoId DEF IInv
<1>1. UNCHANGED tables
  BY DEF LocalStep, SetupForm, SetupCount, SetupConflict, Login, FindSession,
         FindUser, FindTarget, CountAdmins, GiveUp
<1>2. SessionsAreApproved'
  BY <1>1 DEF SessionsAreApproved, tables
<1>3. \A v \in Worker : v # w =>
        /\ pc'[v] = pc[v] /\ op'[v] = op[v] /\ who'[v] = who[v]
        /\ token'[v] = token[v] /\ target'[v] = target[v]
        /\ newRole'[v] = newRole[v] /\ seen'[v] = seen[v]
        /\ fresh'[v] = fresh[v]
  <2>. SUFFICES ASSUME NEW v \in Worker, v # w
                PROVE  /\ pc'[v] = pc[v] /\ op'[v] = op[v] /\ who'[v] = who[v]
                       /\ token'[v] = token[v] /\ target'[v] = target[v]
                       /\ newRole'[v] = newRole[v] /\ seen'[v] = seen[v]
                       /\ fresh'[v] = fresh[v]
    OBVIOUS
  <2>1. CASE \/ SetupForm(w) \/ SetupCount(w) \/ SetupConflict(w) \/ GiveUp(w)
             \/ \E u \in User : Login(w, u)
    BY <2>1 DEF TypeOK, SetupForm, SetupCount, SetupConflict, GiveUp, Login,
                Answer, Goto
  <2>2. CASE \E t \in Token :
               \/ \E o \in AdminOps, u \in User : FindSession(w, o, t, u)
               \/ \E o \in {"logout", "create"} : FindSession(w, o, t, None)
    BY <2>2 DEF TypeOK, FindSession, Goto
  <2>3. CASE FindUser(w) \/ FindTarget(w) \/ CountAdmins(w)
    BY <2>3 DEF TypeOK, FindUser, FindTarget, CountAdmins, Look, Goto
  <2>. QED  BY <2>1, <2>2, <2>3 DEF LocalStep
<1>4. TypeOK' /\ Knows(w)' /\ (pc'[w] = "counted" => \A u \in User : users[u] = None)
  <2>1. CASE SetupForm(w)
    BY <2>1 DEF SetupForm, Goto, TypeOK, Knows, tables, Ops
  <2>2. CASE SetupCount(w)
    BY <2>2 DEF SetupCount, Goto, TypeOK, Knows, tables
  <2>3. CASE SetupConflict(w) \/ GiveUp(w)
    BY <2>3 DEF SetupConflict, GiveUp, Answer, Goto, TypeOK, Knows, tables
  <2>4. ASSUME NEW u \in User, Login(w, u)
        PROVE  TypeOK' /\ Knows(w)' /\ pc'[w] # "counted"
    BY <2>4 DEF Login, Goto, TypeOK, Knows, tables, Ops
  <2>5. ASSUME NEW t \in Token, NEW o \in AdminOps, NEW u \in User,
               FindSession(w, o, t, u)
        PROVE  TypeOK' /\ Knows(w)' /\ pc'[w] # "counted"
    <3>1. sessions[t] \in User /\ users[sessions[t]].approved
      BY <2>5 DEF FindSession, SessionsAreApproved, TypeOK
    <3>. QED
      BY <2>5, <3>1 DEF FindSession, Goto, TypeOK, Knows, tables, Ops, AdminOps
  <2>6. ASSUME NEW t \in Token, NEW o \in {"logout", "create"},
               FindSession(w, o, t, None)
        PROVE  TypeOK' /\ Knows(w)' /\ pc'[w] # "counted"
    <3>1. sessions[t] \in User /\ users[sessions[t]].approved
      BY <2>6 DEF FindSession, SessionsAreApproved, TypeOK
    <3>. QED
      BY <2>6, <3>1 DEF FindSession, Goto, TypeOK, Knows, tables, Ops, AdminOps
  <2>7. CASE FindUser(w)
    <3>1. Admins \subseteq User /\ (op[w] = "reject" => who[w] \in Admins)
      BY <2>7 DEF FindUser, Admins, AdminOps, TypeOK, Knows
    <3>. QED  BY <2>7, <3>1 DEF FindUser, Look, Goto, TypeOK, Knows, tables
  <2>8. CASE FindTarget(w)
    <3>1. Admins \subseteq User
      BY DEF Admins
    <3>2. pc'[w] = "write" => target[w] \notin Admins
      BY <2>8 DEF FindTarget, Goto, Admins, TypeOK
    <3>3. op[w] \in {"role", "delete"}
      BY <2>8 DEF FindTarget, Knows
    <3>. QED
      BY <2>8, <3>1, <3>2, <3>3, NoneIsNoAccount
      DEF FindTarget, Look, Goto, TypeOK, Knows, tables, Role
  <2>9. CASE CountAdmins(w)
    <3>1. Admins \subseteq User
      BY DEF Admins
    <3>2. Admins # {target[w]}
      <4>1. Cardinality({target[w]}) = 1
        BY FS_Singleton
      <4>2. Cardinality(Admins) > 1
        BY <2>9 DEF CountAdmins
      <4>. QED  BY <4>1, <4>2
    <3>3. op[w] \in {"role", "delete"}
      BY <2>9 DEF CountAdmins, Knows
    <3>. QED
      BY <2>9, <3>1, <3>2, <3>3, NoneIsNoAccount
      DEF CountAdmins, Look, Goto, TypeOK, Knows, tables, Role
  <2>. QED
    BY <2>1, <2>2, <2>3, <2>4, <2>5, <2>6, <2>7, <2>8, <2>9 DEF LocalStep
<1>5. \A v \in Worker : Knows(v)'
  BY <1>1, <1>3, <1>4 DEF Knows, tables
<1>6. CountHolds'
  BY <1>1, <1>3, <1>4 DEF CountHolds, tables
<1>. QED  BY <1>2, <1>4, <1>5, <1>6

-----------------------------------------------------------------------------
(* A write ends its request and makes every snapshot old; what is left to  *)
(* see is that the accounts it leaves suit the sessions and the logins.    *)
LEMMA WriteInv ==
  ASSUME IInv, TypeOK', Commit, SessionsAreApproved',
         \A v \in Worker : Knows(v)'
  PROVE  IInv'
  BY DEF IInv, Commit, CountHolds

(* Nothing takes the approval of an account a handler holds. *)
ApprovalKept ==
  \A u \in User : users[u] # None /\ users[u].approved
                  => users'[u] = None \/ users'[u].approved

LEMMA AnswerInv ==
  ASSUME IInv, NEW w \in Worker, Answer(w), ApprovalKept,
         \A u \in User : users[u] = None => users'[u] = None
  PROVE  \A v \in Worker : Knows(v)'
<1>1. \A v \in Worker : v # w =>
        /\ pc'[v] = pc[v] /\ op'[v] = op[v] /\ who'[v] = who[v]
        /\ token'[v] = token[v] /\ target'[v] = target[v]
        /\ newRole'[v] = newRole[v] /\ seen'[v] = seen[v]
  BY DEF Answer, Goto, IInv, TypeOK
<1>2. pc'[w] = "idle"
  BY DEF Answer, Goto, IInv, TypeOK
<1>3. Knows(w)'
  BY <1>2 DEF Knows
<1>4. ASSUME NEW v \in Worker, v # w PROVE Knows(v)'
  <2>1. who[v] \in User \cup {None}
    BY DEF IInv, TypeOK
  <2>. QED  BY <1>1, <1>4, <2>1 DEF Knows, IInv, ApprovalKept
<1>. QED  BY <1>3, <1>4

(* A user's row goes, and every session of it with it. *)
LEMMA RemoveApproved ==
  ASSUME IInv, NEW u \in User, Remove(u)
  PROVE  SessionsAreApproved'
  BY DEF Remove, IInv, TypeOK, SessionsAreApproved

(* The writes that answer their request. *)
LEMMA AnswerStepInv ==
  ASSUME IInv, NEW w \in Worker,
         \/ CreateSession(w) \/ Approve(w) \/ Reject(w) \/ SetRole(w)
         \/ DeleteUser(w) \/ CreateContent(w) \/ Logout(w)
  PROVE  IInv'
<1> USE NoneIsNoId, NoneIsNoAccount DEF IInv
<1>1. CASE CreateSession(w)
  <2>1. TypeOK'
    BY <1>1 DEF CreateSession, Commit, Answer, Goto, TypeOK
  <2>2. SessionsAreApproved'
    <3>1. users[who[w]] # None /\ users[who[w]].approved /\ who[w] \in User
      BY <1>1 DEF CreateSession, TypeOK, Knows
    <3>2. PICK t \in Token : sessions' = [sessions EXCEPT ![t] = who[w]]
      BY <1>1 DEF CreateSession
    <3>. QED
      BY <1>1, <3>1, <3>2 DEF CreateSession, TypeOK, SessionsAreApproved
  <2>3. ApprovalKept /\ Answer(w) /\ Commit /\ users' = users
    BY <1>1 DEF CreateSession, ApprovalKept
  <2>. QED  BY <2>1, <2>2, <2>3, AnswerInv, WriteInv
<1>2. CASE Approve(w)
  <2>0. target[w] \in User /\ users[target[w]] \in Account \cup {None}
    BY <1>2 DEF Approve, Writes, Knows, AdminOps, TypeOK
  <2>1. TypeOK'
    BY <1>2, <2>0 DEF Approve, Commit, Answer, Goto, TypeOK, Account
  <2>2. ApprovalKept /\ \A u \in User : users[u] = None => users'[u] = None
    BY <1>2, <2>0 DEF Approve, ApprovalKept, TypeOK, Account
  <2>3. SessionsAreApproved'
    <3>1. \A u \in User : users[u] # None => users'[u] # None
      BY <1>2, <2>0 DEF Approve, TypeOK, Account
    <3>. QED
      BY <1>2, <2>2, <3>1 DEF Approve, ApprovalKept, TypeOK, SessionsAreApproved
  <2>. QED  BY <1>2, <2>1, <2>2, <2>3, AnswerInv, WriteInv DEF Approve
<1>3. CASE Reject(w)
  <2>0. target[w] \in User
    BY <1>3 DEF Reject, Writes, Knows, AdminOps, TypeOK
  <2>1. TypeOK'
    BY <1>3, <2>0 DEF Reject, Remove, Commit, Answer, Goto, TypeOK
  <2>2. ApprovalKept /\ \A u \in User : users[u] = None => users'[u] = None
    BY <1>3, <2>0 DEF Reject, Remove, ApprovalKept, TypeOK
  <2>3. SessionsAreApproved'
    BY <1>3, <2>0, RemoveApproved DEF Reject, SessionsAreApproved
  <2>. QED  BY <1>3, <2>1, <2>2, <2>3, AnswerInv, WriteInv DEF Reject
<1>4. CASE SetRole(w)
  <2>0. /\ target[w] \in User /\ users[target[w]] \in Account \cup {None}
        /\ newRole[w] \in Role
    BY <1>4 DEF SetRole, Writes, Knows, AdminOps, TypeOK
  <2>1. TypeOK'
    BY <1>4, <2>0 DEF SetRole, Commit, Answer, Goto, TypeOK, Account
  <2>2. ApprovalKept /\ \A u \in User : users[u] = None => users'[u] = None
    BY <1>4, <2>0 DEF SetRole, ApprovalKept, TypeOK, Account
  <2>3. SessionsAreApproved'
    <3>1. \A u \in User : users[u] # None => users'[u] # None
      BY <1>4, <2>0 DEF SetRole, TypeOK, Account
    <3>. QED
      BY <1>4, <2>2, <3>1 DEF SetRole, ApprovalKept, TypeOK, SessionsAreApproved
  <2>. QED  BY <1>4, <2>1, <2>2, <2>3, AnswerInv, WriteInv DEF SetRole
<1>5. CASE DeleteUser(w)
  <2>0. target[w] \in User
    BY <1>5 DEF DeleteUser, Writes, Knows, AdminOps, TypeOK
  <2>1. TypeOK'
    BY <1>5, <2>0 DEF DeleteUser, Remove, Commit, Answer, Goto, TypeOK
  <2>2. ApprovalKept /\ \A u \in User : users[u] = None => users'[u] = None
    BY <1>5, <2>0 DEF DeleteUser, Remove, ApprovalKept, TypeOK
  <2>3. SessionsAreApproved'
    BY <1>5, <2>0, RemoveApproved DEF DeleteUser, SessionsAreApproved
  <2>. QED  BY <1>5, <2>1, <2>2, <2>3, AnswerInv, WriteInv DEF DeleteUser
<1>6. CASE CreateContent(w)
  <2>1. TypeOK'
    BY <1>6 DEF CreateContent, Writes, Knows, Commit, Answer, Goto, TypeOK
  <2>2. ApprovalKept /\ users' = users /\ SessionsAreApproved'
    BY <1>6 DEF CreateContent, ApprovalKept, SessionsAreApproved
  <2>. QED  BY <1>6, <2>1, <2>2, AnswerInv, WriteInv DEF CreateContent
<1>7. CASE Logout(w)
  <2>1. TypeOK'
    BY <1>7 DEF Logout, Commit, Answer, Goto, TypeOK
  <2>2. ApprovalKept /\ users' = users /\ SessionsAreApproved'
    BY <1>7 DEF Logout, ApprovalKept, SessionsAreApproved, TypeOK
  <2>. QED  BY <1>7, <2>1, <2>2, AnswerInv, WriteInv DEF Logout
<1>. QED  BY <1>1, <1>2, <1>3, <1>4, <1>5, <1>6, <1>7

(* A new account has an id nobody holds. *)
LEMMA NewAccountInv ==
  ASSUME IInv, NEW u \in User, NEW a \in Account, FreshId(u), a.approved \/ ~a.approved,
         users' = [users EXCEPT ![u] = a], UNCHANGED sessions
  PROVE  /\ SessionsAreApproved'
         /\ \A v \in Worker : who[v] # u
         /\ users' \in [User -> Account \cup {None}]
  BY NoneIsNoId, NoneIsNoAccount DEF IInv, TypeOK, FreshId, SessionsAreApproved

LEMMA SetupInsertInv ==
  ASSUME IInv, NEW w \in Worker, SetupInsert(w)
  PROVE  IInv'
<1> USE NoneIsNoId, NoneIsNoAccount DEF IInv
<1> DEFINE a == [role |-> "admin", approved |-> TRUE]
<1>1. PICK u \in User : /\ FreshId(u)
                        /\ users' = [users EXCEPT ![u] = a]
                        /\ who' = [who EXCEPT ![w] = u]
  BY DEF SetupInsert
<1>2. a \in Account /\ a.approved
  BY DEF Account, Role
<1> HIDE DEF a
<1>3. /\ SessionsAreApproved' /\ users' \in [User -> Account \cup {None}]
      /\ \A v \in Worker : who[v] # u
  BY <1>1, <1>2, NewAccountInv DEF SetupInsert
<1>4. TypeOK'
  BY <1>1, <1>3 DEF SetupInsert, Goto, Commit, TypeOK
<1>5. Knows(w)'
  BY <1>1, <1>2 DEF SetupInsert, Goto, Knows, TypeOK
<1>6. ASSUME NEW v \in Worker, v # w PROVE Knows(v)'
  <2>1. pc'[v] = pc[v] /\ who'[v] = who[v]
    BY <1>1, <1>6 DEF SetupInsert, Goto, TypeOK
  <2>2. who[v] \in User => users'[who[v]] = users[who[v]]
    BY <1>1, <1>3 DEF TypeOK
  <2>. QED  BY <2>1, <2>2 DEF SetupInsert, Knows, TypeOK
<1>. QED  BY <1>3, <1>4, <1>5, <1>6, WriteInv DEF SetupInsert

LEMMA RegisterInv ==
  ASSUME IInv, NEW w \in Worker, Register(w)
  PROVE  IInv'
<1> USE NoneIsNoId, NoneIsNoAccount DEF IInv
<1> DEFINE a == [role |-> "user", approved |-> FALSE]
<1>1. PICK u \in User : FreshId(u) /\ users' = [users EXCEPT ![u] = a]
  BY DEF Register
<1>2. a \in Account
  BY DEF Account, Role
<1> HIDE DEF a
<1>3. /\ SessionsAreApproved' /\ users' \in [User -> Account \cup {None}]
      /\ \A v \in Worker : who[v] # u
  BY <1>1, <1>2, NewAccountInv DEF Register
<1>4. TypeOK'
  BY <1>1, <1>3 DEF Register, Commit, TypeOK, locals
<1>5. ASSUME NEW v \in Worker PROVE Knows(v)'
  <2>1. who[v] \in User => users'[who[v]] = users[who[v]]
    BY <1>1, <1>3 DEF TypeOK
  <2>. QED  BY <2>1 DEF Register, Knows, TypeOK, locals
<1>. QED  BY <1>3, <1>4, <1>5, WriteInv DEF Register

(* Sessions expire and content is deleted while handlers run. *)
LEMMA EnvironmentInv ==
  ASSUME IInv,
         (\E t \in Token : Expire(t)) \/ (\E u \in User : DropContent(u))
  PROVE  IInv'
<1> USE NoneIsNoId DEF IInv
<1>1. ASSUME NEW t \in Token, Expire(t) PROVE IInv'
  BY <1>1 DEF Expire, TypeOK, SessionsAreApproved, Knows, CountHolds, locals
<1>2. ASSUME NEW u \in User, DropContent(u) PROVE IInv'
  BY <1>2 DEF DropContent, Commit, TypeOK, SessionsAreApproved, Knows,
              CountHolds, locals
<1>. QED  BY <1>1, <1>2

-----------------------------------------------------------------------------
(* Every step of the specification is one of the kinds above. *)
LEMMA Steps ==
  ASSUME [Next]_vars
  PROVE  \/ UNCHANGED vars
         \/ \E w \in Worker :
              \/ LocalStep(w) \/ SetupInsert(w) \/ Register(w)
              \/ CreateSession(w) \/ Approve(w) \/ Reject(w) \/ SetRole(w)
              \/ DeleteUser(w) \/ CreateContent(w) \/ Logout(w)
         \/ \E t \in Token : Expire(t)
         \/ \E u \in User : DropContent(u)
  BY DEF Next, LocalStep, SetupRedirect, LoginPending

LEMMA StutterInv == IInv /\ UNCHANGED vars => IInv'
  BY DEF vars, IInv, TypeOK, SessionsAreApproved, Knows, CountHolds

(* The invariant holds in every reachable state. *)
THEOREM InductiveInvariant == Spec => []IInv
<1>1. IInv /\ [Next]_vars => IInv'
  BY Steps, StutterInv, LocalStepInv, SetupInsertInv, RegisterInv,
     AnswerStepInv, EnvironmentInv
<1>. QED  BY InitInv, <1>1, PTL DEF Spec

(* Type correctness. *)
THEOREM TypeCorrect == Spec => []TypeOK
<1>1. IInv => TypeOK  BY DEF IInv
<1>. QED  BY <1>1, InductiveInvariant, PTL

(* However logins, rejections, deletions and role changes interleave, the  *)
(* account of a session exists and is approved.                            *)
THEOREM SessionsApproved == Spec => []SessionsAreApproved
<1>1. IInv => SessionsAreApproved  BY DEF IInv
<1>. QED  BY <1>1, InductiveInvariant, PTL

-----------------------------------------------------------------------------
(* Set-up completes once, in an empty users table, whoever races for it.   *)
THEOREM SetupAlone == Spec => SetupCreatesTheAdmin
<1> DEFINE A == setup' # setup =>
       /\ setup' /\ \A u \in User : users[u] = None
       /\ \E a \in User : \A u \in User :
            users'[u] = IF u = a THEN [role |-> "admin", approved |-> TRUE]
                                 ELSE None
<1>1. IInv /\ [Next]_vars => A
  <2> SUFFICES ASSUME IInv, [Next]_vars, setup' # setup PROVE A
    OBVIOUS
  <2>1. ASSUME NEW w \in Worker, SetupInsert(w) PROVE A
    <3>1. \A u \in User : users[u] = None
      BY <2>1 DEF SetupInsert, IInv, CountHolds
    <3>2. PICK a \in User :
            users' = [users EXCEPT ![a] = [role |-> "admin", approved |-> TRUE]]
      BY <2>1 DEF SetupInsert
    <3>3. \A u \in User :
            users'[u] = IF u = a THEN [role |-> "admin", approved |-> TRUE] ELSE None
      BY <3>1, <3>2 DEF IInv, TypeOK
    <3>. QED  BY <2>1, <3>1, <3>3 DEF SetupInsert
  <2>2. ASSUME NEW w \in Worker, LocalStep(w) PROVE FALSE
    BY <2>2 DEF LocalStep, SetupForm, SetupCount, SetupConflict, Login,
                FindSession, FindUser, FindTarget, CountAdmins, GiveUp, tables
  <2>3. ASSUME NEW w \in Worker,
               \/ Register(w) \/ CreateSession(w) \/ Approve(w) \/ Reject(w)
               \/ SetRole(w) \/ DeleteUser(w) \/ CreateContent(w) \/ Logout(w)
        PROVE  FALSE
    BY <2>3 DEF Register, CreateSession, Approve, Reject, SetRole, DeleteUser,
                CreateContent, Logout
  <2>4. ASSUME (\E t \in Token : Expire(t)) \/ (\E u \in User : DropContent(u))
        PROVE  FALSE
    BY <2>4 DEF Expire, DropContent
  <2>. QED  BY <2>1, <2>2, <2>3, <2>4, Steps DEF vars
<1>2. IInv /\ [Next]_vars => [A]_vars  BY <1>1
<1>. QED  BY <1>2, InductiveInvariant, PTL DEF Spec, SetupCreatesTheAdmin

(* An approved account is only ever removed by somebody else's request to  *)
(* delete it, never by a rejection that comes too late.                    *)
THEOREM ApprovedSpared == Spec => ApprovedGoOnlyByDelete
<1> DEFINE A == \A u \in User :
       users[u] # None /\ users[u].approved /\ users'[u] = None =>
         \E w \in Worker : /\ Writes(w, "delete") /\ target[w] = u
                           /\ who[w] \notin {u, None}
<1>1. IInv /\ [Next]_vars => A
  <2> SUFFICES ASSUME IInv, [Next]_vars, NEW u \in User,
                      users[u] # None, users[u].approved, users'[u] = None
               PROVE  \E w \in Worker : /\ Writes(w, "delete") /\ target[w] = u
                                        /\ who[w] \notin {u, None}
    OBVIOUS
  <2> USE NoneIsNoAccount DEF IInv, TypeOK
  <2>1. ASSUME NEW w \in Worker, DeleteUser(w)
        PROVE  Writes(w, "delete") /\ target[w] = u /\ who[w] \notin {u, None}
    BY <2>1 DEF DeleteUser, Remove, Writes, Knows, AdminOps
  <2>2. ASSUME NEW w \in Worker, Reject(w) PROVE FALSE
    BY <2>2 DEF Reject, Remove
  <2>3. ASSUME NEW w \in Worker, Approve(w) PROVE FALSE
    <3>1. target[w] \in User
      BY <2>3 DEF Approve, Writes, Knows, AdminOps
    <3>2. [users[u] EXCEPT !.approved = TRUE] \in Account
      BY DEF Account
    <3>3. users'[u] = users[u] \/ users'[u] = [users[u] EXCEPT !.approved = TRUE]
      BY <2>3, <3>1 DEF Approve
    <3>. QED  BY <3>2, <3>3
  <2>4. ASSUME NEW w \in Worker, SetRole(w) PROVE FALSE
    <3>1. target[w] \in User /\ newRole[w] \in Role
      BY <2>4 DEF SetRole, Writes, Knows, AdminOps
    <3>. QED  BY <2>4, <3>1 DEF SetRole, Account
  <2>5. ASSUME NEW w \in Worker, SetupInsert(w) \/ Register(w) PROVE FALSE
    BY <2>5 DEF SetupInsert, Register, FreshId, Account, Role
  <2>6. ASSUME NEW w \in Worker,
               LocalStep(w) \/ CreateSession(w) \/ CreateContent(w) \/ Logout(w)
        PROVE  FALSE
    BY <2>6 DEF LocalStep, SetupForm, SetupCount, SetupConflict, Login,
                FindSession, FindUser, FindTarget, CountAdmins, GiveUp, tables,
                CreateSession, CreateContent, Logout
  <2>7. ASSUME (\E t \in Token : Expire(t)) \/ (\E x \in User : DropContent(x))
        PROVE  FALSE
    BY <2>7 DEF Expire, DropContent
  <2>. QED
    BY <2>1, <2>2, <2>3, <2>4, <2>5, <2>6, <2>7, Steps DEF vars
<1>2. IInv /\ [Next]_vars => [A]_vars  BY <1>1
<1>. QED  BY <1>2, InductiveInvariant, PTL DEF Spec, ApprovedGoOnlyByDelete

(* The last admin is never lost to a request whose reads were up to date:   *)
(* counting admins before taking one away fails only when it is overtaken.  *)
THEOREM LastAdminKeptUnlessStale == Spec => LastAdminLostToStaleRead
<1> DEFINE A == Admins # {} /\ Admins' = {} =>
       \E w \in Worker : /\ pc[w] = "write" /\ pc'[w] = "idle"
                         /\ op[w] \in {"role", "delete", "reject"}
                         /\ seen[w] # Admins
<1>1. IInv /\ [Next]_vars => A
  <2> SUFFICES ASSUME IInv, [Next]_vars, NEW a \in User, a \in Admins,
                      Admins' = {}
               PROVE  \E w \in Worker : /\ pc[w] = "write" /\ pc'[w] = "idle"
                                        /\ op[w] \in {"role", "delete", "reject"}
                                        /\ seen[w] # Admins
    BY DEF Admins
  <2> USE NoneIsNoAccount DEF IInv, TypeOK
  <2>1. users[a] # None /\ users[a].role = "admin" /\ users[a] \in Account
    BY DEF Admins
  <2>2. users'[a] = None \/ users'[a].role # "admin"
    BY DEF Admins
  <2>3. ASSUME NEW w \in Worker, SetRole(w) \/ DeleteUser(w) \/ Reject(w)
        PROVE  /\ pc[w] = "write" /\ pc'[w] = "idle"
               /\ op[w] \in {"role", "delete", "reject"}
               /\ seen[w] # Admins
    <3>1. /\ pc[w] = "write" /\ pc'[w] = "idle"
          /\ op[w] \in {"role", "delete", "reject"} /\ target[w] \in User
      BY <2>3 DEF SetRole, DeleteUser, Reject, Writes, Answer, Goto, Knows, AdminOps
    <3>2. \A u \in User : u # target[w] => users'[u] = users[u]
      BY <2>3, <3>1 DEF SetRole, DeleteUser, Reject, Remove
    <3>3. Admins = {target[w]}
      BY <3>1, <3>2 DEF Admins
    <3>4. CASE op[w] \in {"role", "delete"}
      BY <3>1, <3>3, <3>4 DEF Knows
    <3>5. CASE Reject(w)
      <4>1. ~users[target[w]].approved
        BY <2>1, <2>2, <3>1, <3>3, <3>5 DEF Reject
      <4>2. users[target[w]] # None
        BY <2>1, <3>3
      <4>3. who[w] \in seen[w] /\ who[w] # target[w]
        BY <3>1, <3>5, <4>1, <4>2 DEF Reject, Writes, Knows
      <4>. QED  BY <3>1, <3>3, <4>3
    <3>. QED  BY <2>3, <3>1, <3>4, <3>5 DEF SetRole, DeleteUser, Reject, Writes
  <2>4. ASSUME NEW w \in Worker, SetupInsert(w) \/ Register(w) PROVE FALSE
    <3>1. users'[a] = users[a]
      BY <2>1, <2>4 DEF SetupInsert, Register, FreshId
    <3>. QED  BY <2>1, <2>2, <3>1
  <2>5. ASSUME NEW w \in Worker, Approve(w) PROVE FALSE
    <3>1. target[w] \in User
      BY <2>5 DEF Approve, Writes, Knows, AdminOps
    <3>2. users'[a] = users[a] \/ users'[a] = [users[a] EXCEPT !.approved = TRUE]
      BY <2>5, <3>1 DEF Approve
    <3>3. [users[a] EXCEPT !.approved = TRUE] \in Account
      BY <2>1 DEF Account
    <3>4. [users[a] EXCEPT !.approved = TRUE].role = "admin"
      BY <2>1 DEF Account
    <3>. QED  BY <2>1, <2>2, <3>2, <3>3, <3>4
  <2>6. ASSUME UNCHANGED users PROVE FALSE
    BY <2>1, <2>2, <2>6
  <2>7. ASSUME NEW w \in Worker,
               LocalStep(w) \/ CreateSession(w) \/ CreateContent(w) \/ Logout(w)
        PROVE  UNCHANGED users
    BY <2>7 DEF LocalStep, SetupForm, SetupCount, SetupConflict, Login,
                FindSession, FindUser, FindTarget, CountAdmins, GiveUp, tables,
                CreateSession, CreateContent, Logout
  <2>8. ASSUME (\E t \in Token : Expire(t)) \/ (\E x \in User : DropContent(x))
        PROVE  UNCHANGED users
    BY <2>8 DEF Expire, DropContent
  <2>. QED
    BY <2>3, <2>4, <2>5, <2>6, <2>7, <2>8, Steps DEF vars
<1>2. IInv /\ [Next]_vars => [A]_vars  BY <1>1
<1>. QED  BY <1>2, InductiveInvariant, PTL DEF Spec, LastAdminLostToStaleRead
=============================================================================
