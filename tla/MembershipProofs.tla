-------------------------- MODULE MembershipProofs --------------------------
(***************************************************************************)
(* Theorems about Membership, for any number of users, projects and        *)
(* concurrent requests.  The inductive invariant says why a removal that   *)
(* was checked a while ago is still right when it runs: a user who did not *)
(* own the project cannot have become its owner since, because ownership   *)
(* is only given together with a project nobody has heard of.              *)
(***************************************************************************)
EXTENDS Membership, FiniteSetTheorems, TLAPS

MemberOps == {"add", "remove", "attach", "detach"}

(* What a handler carries, by the place it has reached. *)
Holds(w) ==
  /\ pc[w] # "idle" => who[w] # None
  /\ pc[w] # "idle" /\ op[w] \in MemberOps => place[w] # None /\ target[w] # None
  /\ pc[w] # "idle" /\ op[w] = "drop" => place[w] # None
  /\ pc[w] \in {"member", "owners"} => op[w] = "remove"
  /\ pc[w] = "write" /\ op[w] = "remove" => members[place[w]][target[w]] # "owner"

(* created_by is a foreign key. *)
CreatorsExist == \A p \in Project : creator[p] # None => account[creator[p]] # None

IInv ==
  /\ TypeOK
  /\ MembersExist
  /\ OwnerIsCreator
  /\ CreatorsExist
  /\ \A w \in Worker : Holds(w)

-----------------------------------------------------------------------------
LEMMA InitInv == Init => IInv
<1> SUFFICES ASSUME Init PROVE IInv  OBVIOUS
<1>. QED
  BY NoneIsNoRole DEF Init, IInv, TypeOK, MembersExist, OwnerIsCreator,
                      CreatorsExist, Holds

(* A project has at most one owner, so its last one is never counted away. *)
LEMMA OneOwner ==
  ASSUME IInv, NEW p \in Project
  PROVE  Cardinality(Owners(p)) <= 1
<1>1. Owners(p) \subseteq {creator[p]}
  BY DEF IInv, OwnerIsCreator, Owners
<1>2. Cardinality({creator[p]}) = 1 /\ IsFiniteSet({creator[p]})
  BY FS_Singleton
<1>3. Cardinality(Owners(p)) <= Cardinality({creator[p]})
  BY <1>1, <1>2, FS_Subset
<1>. QED  BY <1>2, <1>3

(* Steps of one handler that leave the tables alone. *)
LocalStep(w) ==
  \/ \E x \in User :
       \/ \E o \in AdminOps \cup {"add", "remove"}, p \in Project, u \in User :
            Request(w, o, x, p, u)
       \/ \E p \in Project : Request(w, "drop", x, p, None)
       \/ Request(w, "create", x, None, None)
  \/ ReadRole(w) \/ ReadMember(w) \/ CountOwners(w) \/ GiveUp(w)

LEMMA LocalStepInv ==
  ASSUME IInv, NEW w \in Worker, LocalStep(w)
  PROVE  IInv'
<1> USE NoneIsNoId, NoneIsNoRole DEF IInv
<1>1. UNCHANGED tables
  BY DEF LocalStep, Request, ReadRole, ReadMember, CountOwners, GiveUp
<1>2. MembersExist' /\ OwnerIsCreator' /\ CreatorsExist'
  BY <1>1 DEF MembersExist, OwnerIsCreator, CreatorsExist, tables
<1>3. \A v \in Worker : v # w =>
        /\ pc'[v] = pc[v] /\ op'[v] = op[v] /\ who'[v] = who[v]
        /\ place'[v] = place[v] /\ target'[v] = target[v]
  BY DEF TypeOK, LocalStep, Request, ReadRole, ReadMember, CountOwners, GiveUp,
         Answer, Goto
<1>4. TypeOK' /\ Holds(w)'
  <2>1. ASSUME NEW x \in User, NEW o \in AdminOps \cup {"add", "remove"},
               NEW p \in Project, NEW u \in User, Request(w, o, x, p, u)
        PROVE  TypeOK' /\ Holds(w)'
    BY <2>1 DEF Request, Goto, Allowed, TypeOK, Holds, tables, Ops, AdminOps,
                PageOps, MemberOps
  <2>2. ASSUME NEW x \in User, NEW p \in Project, Request(w, "drop", x, p, None)
        PROVE  TypeOK' /\ Holds(w)'
    BY <2>2 DEF Request, Goto, Allowed, TypeOK, Holds, tables, Ops, AdminOps,
                PageOps, MemberOps
  <2>3. ASSUME NEW x \in User, Request(w, "create", x, None, None)
        PROVE  TypeOK' /\ Holds(w)'
    BY <2>3 DEF Request, Goto, Allowed, TypeOK, Holds, tables, Ops, AdminOps,
                PageOps, MemberOps
  <2>4. CASE ReadRole(w)
    BY <2>4 DEF ReadRole, Goto, Allowed, TypeOK, Holds, tables, MemberOps
  <2>5. CASE ReadMember(w)
    BY <2>5 DEF ReadMember, Goto, TypeOK, Holds, tables, MemberOps
  <2>6. CASE CountOwners(w)
    <3>1. place[w] \in Project
      BY <2>6 DEF CountOwners, TypeOK, Holds, MemberOps
    <3>2. Answer(w)
      BY <2>6, <3>1, OneOwner DEF CountOwners
    <3>. QED  BY <2>6, <3>2 DEF CountOwners, Answer, Goto, TypeOK, Holds, tables
  <2>7. CASE GiveUp(w)
    BY <2>7 DEF GiveUp, Answer, Goto, TypeOK, Holds, tables
  <2>. QED  BY <2>1, <2>2, <2>3, <2>4, <2>5, <2>6, <2>7 DEF LocalStep
<1>5. ASSUME NEW v \in Worker, v # w PROVE Holds(v)'
  BY <1>1, <1>3, <1>5 DEF Holds, tables
<1>. QED  BY <1>2, <1>4, <1>5

-----------------------------------------------------------------------------
(* A write that gives nobody the ownership of a project other requests know *)
(* leaves what those requests hold.                                         *)
LEMMA AnswerInv ==
  ASSUME IInv, NEW w \in Worker, Answer(w),
         \A v \in Worker : place[v] \in Project /\ target[v] \in User =>
           (members'[place[v]][target[v]] = "owner"
              => members[place[v]][target[v]] = "owner")
  PROVE  \A v \in Worker : Holds(v)'
<1> USE DEF IInv
<1>1. Holds(w)'
  BY DEF Answer, Goto, TypeOK, Holds
<1>2. ASSUME NEW v \in Worker, v # w PROVE Holds(v)'
  <2>1. /\ pc'[v] = pc[v] /\ op'[v] = op[v] /\ who'[v] = who[v]
        /\ place'[v] = place[v] /\ target'[v] = target[v]
        /\ place[v] \in Project \cup {None} /\ target[v] \in User \cup {None}
    BY <1>2 DEF Answer, Goto, TypeOK
  <2>. QED  BY <2>1 DEF Holds, MemberOps
<1>. QED  BY <1>1, <1>2

(* One entry of the table of members changes. *)
LEMMA SetMember ==
  ASSUME NEW S, NEW f \in [Project -> [User -> S]],
         NEW p \in Project, NEW u \in User, NEW x \in S
  PROVE  /\ [f EXCEPT ![p][u] = x] \in [Project -> [User -> S]]
         /\ \A q \in Project, v \in User :
              [f EXCEPT ![p][u] = x][q][v] = IF q = p /\ v = u THEN x ELSE f[q][v]
  OBVIOUS

LEMMA WriteInv ==
  ASSUME IInv, NEW w \in Worker,
         Add(w) \/ Remove(w) \/ CreateProject(w) \/ DeleteProject(w)
  PROVE  IInv'
<1> USE NoneIsNoId, NoneIsNoRole DEF IInv
<1>1. ASSUME NEW x \in {"member", "owner", None}, Answer(w),
             UNCHANGED <<account, creator>>,
             place[w] \in Project, target[w] \in User,
             x # None => account[target[w]] # None /\ creator[place[w]] # None,
             x = "owner" => members[place[w]][target[w]] = "owner",
             members' = [members EXCEPT ![place[w]][target[w]] = x]
      PROVE  IInv'
  <2>1. /\ members' \in [Project -> [User -> {"owner", "member", None}]]
        /\ \A p \in Project, u \in User :
             members'[p][u] = IF p = place[w] /\ u = target[w] THEN x
                              ELSE members[p][u]
    BY <1>1, SetMember DEF TypeOK
  <2>2. TypeOK'
    BY <1>1, <2>1 DEF Answer, Goto, TypeOK
  <2>3. MembersExist' /\ OwnerIsCreator' /\ CreatorsExist'
    BY <1>1, <2>1 DEF MembersExist, OwnerIsCreator, CreatorsExist
  <2>4. \A v \in Worker : Holds(v)'
    BY <1>1, <2>1, AnswerInv
  <2>. QED  BY <2>2, <2>3, <2>4
<1>4. CASE Add(w)
  <2>1. place[w] \in Project /\ target[w] \in User
    BY <1>4 DEF Add, Writes, Holds, MemberOps, TypeOK
  <2>2. members[place[w]][target[w]] \in {"owner", "member", None}
    BY <2>1 DEF TypeOK
  <2> DEFINE x == IF members[place[w]][target[w]] = None THEN "member"
                  ELSE members[place[w]][target[w]]
  <2>3. x \in {"owner", "member", None} /\ (x = "owner" => members[place[w]][target[w]] = "owner")
    BY <2>2
  <2>4. members' = [members EXCEPT ![place[w]][target[w]] = x]
    BY <1>4 DEF Add
  <2> HIDE DEF x
  <2>. QED  BY <1>1, <1>4, <2>1, <2>3, <2>4 DEF Add
<1>5. CASE Remove(w)
  <2>1. place[w] \in Project /\ target[w] \in User
    BY <1>5 DEF Remove, Writes, Holds, MemberOps, TypeOK
  <2>. QED  BY <1>1, <1>5, <2>1 DEF Remove
<1>2. CASE CreateProject(w)
  <2>1. PICK p \in Project :
          /\ creator[p] = None /\ \A v \in Worker : place[v] # p
          /\ creator' = [creator EXCEPT ![p] = who[w]]
          /\ members' = [members EXCEPT ![p][who[w]] = "owner"]
    BY <1>2 DEF CreateProject
  <2>2. who[w] \in User /\ account[who[w]] # None /\ account' = account
    BY <1>2 DEF CreateProject, Writes, Holds, TypeOK
  <2>3. TypeOK'
    BY <1>2, <2>1, <2>2 DEF CreateProject, Answer, Goto, TypeOK
  <2>4. MembersExist' /\ OwnerIsCreator' /\ CreatorsExist'
    BY <2>1, <2>2 DEF TypeOK, MembersExist, OwnerIsCreator, CreatorsExist
  <2>5. \A v \in Worker : Holds(v)'
    BY <1>2, <2>1, AnswerInv DEF CreateProject, TypeOK
  <2>. QED  BY <2>3, <2>4, <2>5
<1>3. CASE DeleteProject(w)
  <2>1. place[w] \in Project
    BY <1>3 DEF DeleteProject, Writes, Holds, TypeOK
  <2>2. TypeOK'
    BY <1>3, <2>1 DEF DeleteProject, Answer, Goto, TypeOK
  <2>3. MembersExist' /\ OwnerIsCreator' /\ CreatorsExist'
    BY <1>3, <2>1 DEF DeleteProject, TypeOK, MembersExist, OwnerIsCreator,
                      CreatorsExist
  <2>4. \A v \in Worker : Holds(v)'
    BY <1>3, <2>1, AnswerInv DEF DeleteProject, TypeOK
  <2>. QED  BY <2>2, <2>3, <2>4
<1>. QED  BY <1>2, <1>3, <1>4, <1>5

(* Accounts change under the handlers. *)
LEMMA AccountStepInv ==
  ASSUME IInv, NEW u \in User,
         Register(u) \/ DeleteUser(u) \/ \E r \in {"user", "admin"} : SetRole(u, r)
  PROVE  IInv'
<1> USE NoneIsNoId, NoneIsNoRole DEF IInv
<1>1. ASSUME Register(u) \/ \E r \in {"user", "admin"} : SetRole(u, r)
      PROVE  IInv'
  <2>1. TypeOK'
    BY <1>1 DEF Register, SetRole, TypeOK, locals
  <2>2. MembersExist' /\ OwnerIsCreator' /\ CreatorsExist'
    BY <1>1 DEF Register, SetRole, TypeOK, MembersExist, OwnerIsCreator,
                CreatorsExist
  <2>3. \A v \in Worker : Holds(v)'
    BY <1>1 DEF Register, SetRole, Holds, locals
  <2>. QED  BY <2>1, <2>2, <2>3
<1>2. CASE DeleteUser(u)
  <2>1. TypeOK'
    BY <1>2 DEF DeleteUser, TypeOK, locals
  <2>2. MembersExist' /\ OwnerIsCreator' /\ CreatorsExist'
    BY <1>2 DEF DeleteUser, TypeOK, MembersExist, OwnerIsCreator, CreatorsExist
  <2>3. ASSUME NEW v \in Worker PROVE Holds(v)'
    <3>1. place[v] \in Project \cup {None} /\ target[v] \in User \cup {None}
      BY DEF TypeOK
    <3>2. place[v] \in Project /\ target[v] \in User =>
            (members'[place[v]][target[v]] = "owner"
               => members[place[v]][target[v]] = "owner")
      BY <1>2 DEF DeleteUser, TypeOK
    <3>. QED  BY <1>2, <3>1, <3>2 DEF DeleteUser, Holds, MemberOps, locals
  <2>. QED  BY <2>1, <2>2, <2>3
<1>. QED  BY <1>1, <1>2

-----------------------------------------------------------------------------
(* The invariant holds in every reachable state. *)
THEOREM InductiveInvariant == Spec => []IInv
<1>1. IInv /\ [Next]_vars => IInv'
  <2> SUFFICES ASSUME IInv, [Next]_vars PROVE IInv'  OBVIOUS
  <2>1. CASE UNCHANGED vars
    BY <2>1 DEF vars, IInv, TypeOK, MembersExist, OwnerIsCreator, CreatorsExist,
                Holds
  <2>. QED
    BY <2>1, LocalStepInv, WriteInv, AccountStepInv DEF Next, LocalStep
<1>. QED  BY InitInv, <1>1, PTL DEF Spec

(* Type correctness. *)
THEOREM TypeCorrect == Spec => []TypeOK
<1>1. IInv => TypeOK  BY DEF IInv
<1>. QED  BY <1>1, InductiveInvariant, PTL

(* No membership outlives its user or its project. *)
THEOREM MembershipsExist == Spec => []MembersExist
<1>1. IInv => MembersExist  BY DEF IInv
<1>. QED  BY <1>1, InductiveInvariant, PTL

(* Only the creator of a project is ever its owner. *)
THEOREM OwnerCreated == Spec => []OwnerIsCreator
<1>1. IInv => OwnerIsCreator  BY DEF IInv
<1>. QED  BY <1>1, InductiveInvariant, PTL

(* The check of the members page holds under every interleaving: a project *)
(* that is not deleted loses its owner on the admins' page or not at all.  *)
THEOREM OwnerKept == Spec => OwnerLostByAdminsOnly
<1> DEFINE A == \A p \in Project, u \in User :
       members[p][u] = "owner" /\ members'[p][u] # "owner" /\ creator'[p] # None =>
         \E w \in Worker : /\ Writes(w, {"detach"})
                           /\ place[w] = p /\ target[w] = u
<1>1. IInv /\ [Next]_vars => A
  <2> SUFFICES ASSUME IInv, [Next]_vars, NEW p \in Project, NEW u \in User,
                      members[p][u] = "owner", members'[p][u] # "owner",
                      creator'[p] # None
               PROVE  \E w \in Worker : /\ Writes(w, {"detach"})
                                        /\ place[w] = p /\ target[w] = u
    OBVIOUS
  <2> USE NoneIsNoId, NoneIsNoRole DEF IInv, TypeOK
  <2>1. ASSUME NEW w \in Worker, Add(w) PROVE FALSE
    BY <2>1 DEF Add, Writes, Holds, MemberOps
  <2>2. ASSUME NEW w \in Worker, Remove(w)
        PROVE  Writes(w, {"detach"}) /\ place[w] = p /\ target[w] = u
    BY <2>2 DEF Remove, Writes, Holds, MemberOps
  <2>3. ASSUME NEW w \in Worker, CreateProject(w) PROVE FALSE
    <3>1. PICK q \in Project : /\ creator[q] = None
                               /\ members' = [members EXCEPT ![q][who[w]] = "owner"]
      BY <2>3 DEF CreateProject
    <3>2. q # p
      BY <3>1 DEF MembersExist
    <3>. QED  BY <3>1, <3>2
  <2>4. ASSUME NEW w \in Worker, DeleteProject(w) PROVE FALSE
    BY <2>4 DEF DeleteProject, Writes, Holds
  <2>5. ASSUME NEW x \in User, DeleteUser(x) PROVE FALSE
    BY <2>5 DEF DeleteUser, OwnerIsCreator
  <2>6. ASSUME \/ \E x \in User : \/ Register(x)
                                  \/ \E r \in {"user", "admin"} : SetRole(x, r)
               \/ \E w \in Worker : LocalStep(w)
        PROVE  FALSE
    BY <2>6 DEF Register, SetRole, LocalStep, Request, ReadRole, ReadMember,
                CountOwners, GiveUp, tables
  <2>7. CASE UNCHANGED vars
    BY <2>7 DEF vars
  <2>. QED
    BY <2>1, <2>2, <2>3, <2>4, <2>5, <2>6, <2>7 DEF Next, LocalStep
<1>2. IInv /\ [Next]_vars => [A]_vars  BY <1>1
<1>. QED  BY <1>2, InductiveInvariant, PTL DEF Spec, OwnerLostByAdminsOnly
=============================================================================
