----------------------- MODULE PlatformAccess_proofs -----------------------
(***************************************************************************)
(* Theorems about the components of Platform that let users in:            *)
(* WorkspaceMembers, for any finite set of users and any workspaces and    *)
(* requests, and AuthAdmission, for any finite set of attempts and any     *)
(* buckets, limits, processes, windows and waits.                          *)
(***************************************************************************)
EXTENDS Platform, SumTheorems, FiniteSetTheorems, TLAPS

-----------------------------------------------------------------------------
(* WorkspaceMembers.  A commit can only take the last owner of a workspace *)
(* if the request has seen an owner and counted owners: the invariant says *)
(* what a request that is about to write has seen.                         *)

LEMMA MembersCardinality == \A S : Members!Cardinality(S) = Cardinality(S)
BY DEF Members!Cardinality, Cardinality

(* A demotion is preceded by a count, and a commit of one by a count of    *)
(* more or fewer than one owner; an owner is not deleted.                  *)
Demotes(v) == v.seen = "owner" /\ v.op # "owner"
CountedBeforeDemotion ==
    \A r \in Requests :
        /\ visit[r].step = "counting" => Demotes(visit[r]) /\ visit[r].op # "delete"
        /\ visit[r].step = "ready" /\ Demotes(visit[r]) =>
             visit[r].owners # 1 /\ visit[r].op # "delete"

MembersInv == Members!TypeOK /\ CountedBeforeDemotion

LEMMA StepsDiffer == Members!NoVisit.step = "idle" /\ Members!NoVisit \notin Members!Visit
BY DEF Members!NoVisit, Members!Visit

LEMMA MembersStart == Members!Init => MembersInv
BY DEF Members!Init, MembersInv, Members!TypeOK, CountedBeforeDemotion, Members!NoVisit

(* A request in a step has the record of its visit.                        *)
LEMMA VisitIsRecord ==
    ASSUME MembersInv, NEW r \in Requests, visit[r].step # "idle"
    PROVE  visit[r] \in Members!Visit /\ visit[r] # Members!NoVisit
BY DEF MembersInv, Members!TypeOK, Members!NoVisit

(* The end of a request leaves the visits of the others.                   *)
LEMMA EndKeeps == ASSUME MembersInv, NEW r \in Requests, Members!End(r)
                  PROVE  /\ visit' \in [Requests -> Members!Visit \union {Members!NoVisit}]
                         /\ CountedBeforeDemotion'
<1>1. visit' \in [Requests -> Members!Visit \union {Members!NoVisit}]
  BY DEF MembersInv, Members!TypeOK, Members!End
<1>2. \A q \in Requests : visit'[q] = IF q = r THEN Members!NoVisit ELSE visit[q]
  BY DEF MembersInv, Members!TypeOK, Members!End
<1>3. CountedBeforeDemotion'
  BY <1>2, StepsDiffer DEF MembersInv, CountedBeforeDemotion, Demotes
<1>4. QED BY <1>1, <1>3

(* A step of a request that writes its visit v keeps the invariant if v    *)
(* keeps it.                                                               *)
LEMMA VisitKeeps ==
    ASSUME MembersInv, NEW r \in Requests, NEW v \in Members!Visit,
           visit' = [visit EXCEPT ![r] = v],
           UNCHANGED <<slugs, roles>>,
           v.step = "counting" => Demotes(v) /\ v.op # "delete",
           v.step = "ready" /\ Demotes(v) => v.owners # 1 /\ v.op # "delete"
    PROVE  MembersInv'
<1>1. Members!TypeOK'
  BY DEF MembersInv, Members!TypeOK
<1>2. \A q \in Requests : visit'[q] = IF q = r THEN v ELSE visit[q]
  BY DEF MembersInv, Members!TypeOK
<1>3. CountedBeforeDemotion'
  BY <1>2 DEF MembersInv, CountedBeforeDemotion, Demotes
<1>4. QED BY <1>1, <1>3 DEF MembersInv

LEMMA AuthorizeKeeps ==
    ASSUME MembersInv, NEW r \in Requests, NEW u \in Users, NEW w \in Workspaces,
           NEW op \in Members!Operations, NEW t \in Users, Members!Authorize(r, u, w, op, t)
    PROVE  MembersInv'
<1> DEFINE v == [step |-> "authorized", workspace |-> w, op |-> op, target |-> t,
                 seen |-> IF t = u THEN roles[w][u] ELSE "unread", owners |-> 0]
<1>1. roles[w][u] \in Members!Roles
  BY DEF Members!Authorize, Members!allows, Members!Permissions, MembersInv, Members!TypeOK,
     Members!Roles
<1>2. v \in Members!Visit
  BY <1>1, UsersAssumption, MembersCardinality, FS_CardinalityType DEF Members!Visit
<1>3. visit' = [visit EXCEPT ![r] = v] /\ UNCHANGED <<slugs, roles>>
  BY DEF Members!Authorize
<1>4. QED BY <1>2, <1>3, VisitKeeps

(* What a request has seen stays a role of the member.                     *)
LEMMA LoadMemberKeeps ==
    ASSUME MembersInv, NEW r \in Requests, Members!LoadMember(r) PROVE MembersInv'
<1> DEFINE old == visit[r]
           row == roles[old.workspace][old.target]
           seen == IF old.seen = "unread" THEN row ELSE old.seen
           step == IF seen = "owner" /\ old.op # "owner" THEN "counting" ELSE "ready"
           v == [old EXCEPT !.seen = seen, !.step = step]
<1>1. old \in Members!Visit
  BY VisitIsRecord DEF Members!LoadMember
<1>2. row \in Members!Roles \union {"none"}
  BY <1>1 DEF MembersInv, Members!TypeOK, Members!Visit
<1>3. CASE Members!End(r)
  BY <1>3, EndKeeps DEF Members!LoadMember, MembersInv, Members!TypeOK
<1>4. CASE ~Members!End(r)
  <2>1. /\ row # "none" /\ ~(old.op = "delete" /\ seen = "owner")
        /\ visit' = [visit EXCEPT ![r].seen = seen, ![r].step = step]
        /\ UNCHANGED <<slugs, roles>>
    BY <1>4 DEF Members!LoadMember
  <2>2. visit' = [visit EXCEPT ![r] = v]
    BY <2>1, <1>1 DEF MembersInv, Members!TypeOK
  <2>3. seen \in Members!Roles
    BY <2>1, <1>1, <1>2 DEF Members!Visit, Members!Roles
  <2>4. v \in Members!Visit /\ v.seen = seen /\ v.step = step /\ v.op = old.op
    BY <1>1, <2>3 DEF Members!Visit
  <2> HIDE DEF v
  <2>5. v.step = "counting" => Demotes(v) /\ v.op # "delete"
    BY <2>1, <2>4 DEF Demotes
  <2>6. v.step = "ready" => ~Demotes(v)
    BY <2>4 DEF Demotes
  <2>7. QED BY <2>1, <2>2, <2>4, <2>5, <2>6, VisitKeeps
<1>5. QED BY <1>3, <1>4

LEMMA CountOwnersKeeps ==
    ASSUME MembersInv, NEW r \in Requests, Members!CountOwners(r) PROVE MembersInv'
<1> DEFINE old == visit[r]
           n == Members!Cardinality(Members!Owners(old.workspace))
           v == [old EXCEPT !.owners = n, !.step = "ready"]
<1>1. old \in Members!Visit /\ Demotes(old) /\ old.op # "delete"
  BY VisitIsRecord DEF Members!CountOwners, MembersInv, CountedBeforeDemotion
<1>2. n \in 0..Members!Cardinality(Users)
  <2>1. Members!Owners(old.workspace) \subseteq Users
    BY DEF Members!Owners
  <2>2. QED BY <2>1, UsersAssumption, MembersCardinality, FS_Subset, FS_CardinalityType
<1>3. CASE Members!End(r)
  BY <1>3, EndKeeps DEF Members!CountOwners, MembersInv, Members!TypeOK
<1>4. CASE ~Members!End(r)
  <2>1. /\ n # 1 /\ visit' = [visit EXCEPT ![r].owners = n, ![r].step = "ready"]
        /\ UNCHANGED <<slugs, roles>>
    BY <1>4 DEF Members!CountOwners
  <2> HIDE DEF n
  <2>2. visit' = [visit EXCEPT ![r] = v]
    BY <2>1, <1>1 DEF MembersInv, Members!TypeOK
  <2>3. v \in Members!Visit /\ v.owners = n /\ v.step = "ready" /\ v.op = old.op
    BY <1>1, <1>2 DEF Members!Visit
  <2>4. QED BY <1>1, <2>1, <2>2, <2>3, VisitKeeps
<1>5. QED BY <1>3, <1>4

(* The role that a commit leaves the member.                               *)
Written(v) ==
    CASE v.op = "delete" -> "none"
      [] v.op = v.seen \/ roles[v.workspace][v.target] = "none" -> roles[v.workspace][v.target]
      [] OTHER -> v.op

LEMMA CommitWrites ==
    ASSUME MembersInv, NEW r \in Requests, Members!Commit(r)
    PROVE  /\ visit[r] \in Members!Visit /\ visit[r].step = "ready"
           /\ Written(visit[r]) \in Members!Roles \union {"none"}
           /\ roles' = [roles EXCEPT ![visit[r].workspace][visit[r].target] = Written(visit[r])]
<1>1. visit[r] \in Members!Visit /\ visit[r].step = "ready"
  BY VisitIsRecord DEF Members!Commit
<1>2. Written(visit[r]) \in Members!Roles \union {"none"}
  BY <1>1 DEF Written, MembersInv, Members!TypeOK, Members!Visit, Members!Operations
<1>3. QED BY <1>1, <1>2 DEF Members!Commit, Written

LEMMA CommitKeeps == ASSUME MembersInv, NEW r \in Requests, Members!Commit(r) PROVE MembersInv'
<1> DEFINE v == visit[r]
<1>1. roles' \in [Workspaces -> [Users -> Members!Roles \union {"none"}]]
  <2>1. v \in Members!Visit /\ Written(v) \in Members!Roles \union {"none"}
    BY CommitWrites
  <2>2. roles' = [roles EXCEPT ![v.workspace][v.target] = Written(v)]
    BY CommitWrites
  <2>3. v.workspace \in Workspaces /\ v.target \in Users
    BY <2>1 DEF Members!Visit
  <2> HIDE DEF v
  <2>4. QED BY <2>1, <2>2, <2>3 DEF MembersInv, Members!TypeOK
<1>2. visit' \in [Requests -> Members!Visit \union {Members!NoVisit}] /\ CountedBeforeDemotion'
  BY EndKeeps DEF Members!Commit
<1>3. QED BY <1>1, <1>2 DEF Members!Commit, MembersInv, Members!TypeOK

LEMMA MembersStep == ASSUME MembersInv, [Members!Next]_(Members!vars) PROVE MembersInv'
<1>1. ASSUME NEW u \in Users, NEW w \in Workspaces, Members!create_workspace(u, w)
      PROVE MembersInv'
  BY <1>1 DEF Members!create_workspace, MembersInv, Members!TypeOK, CountedBeforeDemotion,
     Demotes, Members!Roles
<1>2. ASSUME NEW u \in Users, NEW w \in Workspaces, NEW role \in Members!Roles,
             Members!Enlist(u, w, role)
      PROVE MembersInv'
  BY <1>2 DEF Members!Enlist, MembersInv, Members!TypeOK, CountedBeforeDemotion, Demotes
<1>3. ASSUME NEW r \in Requests, Members!Abandon(r) PROVE MembersInv'
  BY <1>3, EndKeeps DEF Members!Abandon, MembersInv, Members!TypeOK
<1>4. CASE UNCHANGED Members!vars
  BY <1>4 DEF Members!vars, MembersInv, Members!TypeOK, CountedBeforeDemotion, Demotes
<1>5. QED
  BY <1>1, <1>2, <1>3, <1>4, AuthorizeKeeps, LoadMemberKeeps, CountOwnersKeeps, CommitKeeps
  DEF Members!Next

-----------------------------------------------------------------------------
(* The last owner.                                                         *)

(* Only a commit takes a role away.                                        *)
LEMMA OthersKeepOwners ==
    ASSUME MembersInv, [Members!Next]_(Members!vars), \A r \in Requests : ~Members!Commit(r),
           NEW w \in Workspaces
    PROVE  Members!Owners(w) \subseteq Members!Owners(w)'
<1>1. ASSUME NEW u \in Users, NEW x \in Workspaces, NEW role \in Members!Roles,
             roles' = [roles EXCEPT ![x][u] = role], role = "owner" \/ roles[x][u] = "none"
      PROVE Members!Owners(w) \subseteq Members!Owners(w)'
  BY <1>1 DEF Members!Owners, MembersInv, Members!TypeOK
<1>2. CASE UNCHANGED roles
  BY <1>2 DEF Members!Owners
<1>3. QED
  BY <1>1, <1>2
     DEF Members!Next, Members!vars, Members!create_workspace, Members!Enlist,
         Members!Authorize, Members!LoadMember, Members!CountOwners,
     Members!Abandon, Members!Roles

LEMMA MembersMove == [Next]_vars => [Members!Next]_(Members!vars)
BY DEF Next, vars, membersVars, Members!vars

LEMMA MembersAlways == Spec => []MembersInv
<1>1. Init => MembersInv
  BY MembersStart DEF Init
<1>2. MembersInv /\ [Next]_vars => MembersInv'
  BY MembersStep, MembersMove
<1>3. QED BY <1>1, <1>2, PTL DEF Spec

(* update_member and delete_member: whatever requests overlap, a workspace *)
(* loses its last owner only to one that decided on rows which others have *)
(* changed since.                                                          *)
THEOREM OwnersLeaveOnStaleReads == Spec => LastOwnerLeavesOnStaleReadsOnly
<1> DEFINE Excused(w) == \E r \in Requests :
               /\ visit[r].step = "ready" /\ visit'[r] = Members!NoVisit
               /\ visit[r].workspace = w /\ Members!DecidedOnStaleRows(visit[r])
<1>1. ASSUME MembersInv, [Members!Next]_(Members!vars), NEW w \in Workspaces,
             Members!Owners(w) # {},
             Members!Owners(w)' = {}
      PROVE Excused(w)
  <2>1. PICK r \in Requests : Members!Commit(r)
    BY <1>1, OthersKeepOwners
  <2> DEFINE v == visit[r]
  <2>2. /\ v \in Members!Visit /\ v.step = "ready"
           /\ Written(v) \in Members!Roles \union {"none"}
        /\ roles' = [roles EXCEPT ![v.workspace][v.target] = Written(v)]
    BY <1>1, <2>1, CommitWrites
  <2>3. visit'[r] = Members!NoVisit
    BY <1>1, <2>1 DEF Members!Commit, Members!End, MembersInv, Members!TypeOK
  <2>4. /\ v.workspace = w /\ Members!Owners(w) = {v.target} /\ Written(v) # "owner"
        /\ roles[w][v.target] = "owner"
    BY <1>1, <2>2 DEF Members!Owners, MembersInv, Members!TypeOK, Members!Visit
  <2>5. CASE v.seen # "owner"
    BY <2>2, <2>3, <2>4, <2>5 DEF Members!DecidedOnStaleRows
  <2>6. CASE v.seen = "owner"
    <3>1. v.owners # 1
      BY <1>1, <2>2, <2>4, <2>6 DEF MembersInv, CountedBeforeDemotion, Demotes, Written
    <3>2. Members!Cardinality(Members!Owners(w)) = 1
      BY <2>4, FS_Singleton, MembersCardinality
    <3>3. QED BY <2>2, <2>3, <2>4, <3>1, <3>2 DEF Members!DecidedOnStaleRows
  <2>7. QED BY <2>5, <2>6
<1>2. MembersInv /\ [Next]_vars =>
        [\A w \in Workspaces : Members!Owners(w) # {} /\ Members!Owners(w)' = {} =>
          \E r \in Requests : /\ visit[r].step = "ready" /\ visit'[r] = Members!NoVisit
                              /\ visit[r].workspace = w
                              /\ Members!DecidedOnStaleRows(visit[r])]_(Members!vars)
  BY <1>1, MembersMove
<1> HIDE DEF Excused
<1>3. QED
  BY <1>2, MembersAlways, PTL
     DEF Spec, LastOwnerLeavesOnStaleReadsOnly, Members!LastOwnerLeavesOnStaleReadsOnly

-----------------------------------------------------------------------------
(* AuthAdmission, the slots.  The gate of a process and its attempts       *)
(* inside it add up, and the locks that are held name the attempts that    *)
(* hash; each action moves an attempt across these lines and moves what    *)
(* counts it.                                                              *)

(* A set of numbers of an interval has a least one (tries in order).       *)
LEMMA LeastNumber ==
    ASSUME NEW n \in Nat, NEW T, T \subseteq 1..n, T # {}
    PROVE  \E x \in T : \A y \in T : x <= y
<1> DEFINE F == {1..x : x \in T}
<1>1. IsFiniteSet(1..n)
  BY FS_Interval
<1>2. F \subseteq FiniteSubsetsOf(1..n)
  BY <1>1, FS_FiniteSubsetsOfFinite
<1>3. IsWellFoundedOn(StrictSubsetOrdering(1..n), FiniteSubsetsOf(1..n))
  BY FS_StrictSubsetOrderingWellFounded
<1>4. F # {}
  OBVIOUS
<1>5. PICK X \in F : \A Y \in F : ~(<<Y, X>> \in StrictSubsetOrdering(1..n))
  BY <1>2, <1>3, <1>4, WFMin
<1>6. PICK x \in T : X = 1..x
  OBVIOUS
<1>7. ASSUME NEW y \in T PROVE x <= y
  <2>1. 1..y \in F
    OBVIOUS
  <2>2. ~(<<1..y, X>> \in StrictSubsetOrdering(1..n))
    BY <1>5, <2>1
  <2>3. CASE y < x
    <3>1. 1..y \subseteq 1..x /\ 1..y # 1..x
      <4>1. x \in 1..x /\ x \notin 1..y
        BY <2>3
      <4>2. QED BY <2>3, <4>1
    <3>2. 1..y \in SUBSET (1..n) /\ X \in SUBSET (1..n)
      BY <1>6
    <3>3. QED BY <1>6, <2>2, <3>1, <3>2 DEF StrictSubsetOrdering
  <2>4. QED BY <2>3
<1>8. QED BY <1>7

(* What a function of an interval takes in is no larger than the interval. *)
LEMMA ImageOfInterval ==
    ASSUME NEW n \in Nat, NEW X, NEW f \in [1..n -> X]
    PROVE  IsFiniteSet({f[l] : l \in 1..n}) /\ Cardinality({f[l] : l \in 1..n}) <= n
<1> DEFINE T == {f[l] : l \in 1..n}
<1>1. f \in Surjection(1..n, T)
  BY DEF Surjection
<1>2. IsFiniteSet(1..n) /\ Cardinality(1..n) = n
  BY FS_Interval
<1>3. QED BY <1>1, <1>2, FS_Surjection

LEMMA AdmissionCardinality == \A S : Admission!Cardinality(S) = Cardinality(S)
BY DEF Admission!Cardinality, Cardinality

IsInside(x) == x.step \in {"gated", "hashing", "unlocked"}
Inside(p) == {a \in Attempts : Home[a] = p /\ IsInside(attempt[a])}
Hashing == {a \in Attempts : attempt[a] = Admission!At("hashing")}
GatesCount ==
    /\ DOMAIN gate = Processes
    /\ \A p \in Processes : gate[p] = Concurrency - Cardinality(Inside(p))
LocksName ==
    /\ locks \in [1..Concurrency -> Attempts \union {Admission!Free}]
    /\ \A l \in 1..Concurrency : locks[l] # Admission!Free => locks[l] \in Hashing
    /\ \A a \in Hashing : \E l \in 1..Concurrency : locks[l] = a
SlotsInv == DOMAIN attempt = Attempts /\ GatesCount /\ LocksName

(* An attempt enters or leaves the process that serves it.                 *)
LEMMA InsideIsFinite ==
    \A p : IsFiniteSet(Inside(p)) /\ Cardinality(Inside(p)) \in Nat
<1> TAKE p
<1>1. Inside(p) \subseteq Attempts
  BY DEF Inside
<1>2. QED BY <1>1, AdmissionAssumption, FS_Subset, FS_CardinalityType

LEMMA InsideMoves ==
    ASSUME SlotsInv, NEW a \in Attempts, NEW x, attempt' = [attempt EXCEPT ![a] = x]
    PROVE  /\ DOMAIN attempt' = Attempts
           /\ \A p \in Processes : p # Home[a] => Inside(p)' = Inside(p)
           /\ Inside(Home[a])' = IF IsInside(x) THEN Inside(Home[a]) \union {a}
                                 ELSE Inside(Home[a]) \ {a}
           /\ a \in Inside(Home[a]) <=> IsInside(attempt[a])
           /\ Hashing' = IF x = Admission!At("hashing") THEN Hashing \union {a}
                         ELSE Hashing \ {a}
<1>1. DOMAIN attempt' = Attempts /\ attempt'[a] = x
      /\ \A b \in Attempts : b # a => attempt'[b] = attempt[b]
  BY DEF SlotsInv
<1>2. QED BY <1>1 DEF Inside, IsInside, Hashing, Admission!At

LEMMA GatesMove ==
    ASSUME SlotsInv, NEW a \in Attempts, NEW x, attempt' = [attempt EXCEPT ![a] = x],
           \/ (IsInside(x) <=> IsInside(attempt[a])) /\ UNCHANGED gate
           \/ /\ IsInside(x) /\ ~IsInside(attempt[a])
              /\ gate' = [gate EXCEPT ![Home[a]] = @ - 1]
           \/ /\ ~IsInside(x) /\ IsInside(attempt[a])
              /\ gate' = [gate EXCEPT ![Home[a]] = @ + 1]
    PROVE  DOMAIN attempt' = Attempts /\ GatesCount'
<1>1. PICK h : h = Home[a]
  OBVIOUS
<1>2. h \in Processes
  BY <1>1, AdmissionAssumption
<1>3. DOMAIN attempt' = Attempts
  BY InsideMoves
<1>4. \A p \in Processes : p # h => Inside(p)' = Inside(p)
  BY <1>1, InsideMoves
<1>5. a \in Inside(h) <=> IsInside(attempt[a])
  BY <1>1, InsideMoves
<1>6. PICK now : now = Inside(h)
  OBVIOUS
<1>7. IsFiniteSet(now) /\ Cardinality(now) \in Nat
  BY <1>6, InsideIsFinite
<1>8. Inside(h)' = IF IsInside(x) THEN now \union {a} ELSE now \ {a}
  BY <1>1, <1>6, InsideMoves
<1>9. DOMAIN gate = Processes /\ gate[h] = Concurrency - Cardinality(now)
  BY <1>2, <1>6 DEF SlotsInv, GatesCount
<1>10. DOMAIN gate' = Processes /\ \A p \in Processes : p # h => gate'[p] = gate[p]
  BY <1>1, <1>9
<1>11. gate'[h] = Concurrency - Cardinality(Inside(h)')
  <2>1. CASE (IsInside(x) <=> IsInside(attempt[a])) /\ UNCHANGED gate
    <3>1. Inside(h)' = now
      BY <1>5, <1>6, <1>8, <2>1
    <3>2. QED BY <1>9, <2>1, <3>1
  <2>2. CASE IsInside(x) /\ ~IsInside(attempt[a]) /\ gate' = [gate EXCEPT ![Home[a]] = @ - 1]
    <3>1. Inside(h)' = now \union {a} /\ a \notin now
      BY <1>5, <1>6, <1>8, <2>2
    <3>2. Cardinality(now \union {a}) = Cardinality(now) + 1
      BY <1>7, <3>1, FS_AddElement
    <3>3. gate'[h] = gate[h] - 1
      BY <1>1, <1>2, <1>9, <2>2
    <3>4. QED BY <1>7, <1>9, <3>1, <3>2, <3>3, AdmissionAssumption
  <2>3. CASE ~IsInside(x) /\ IsInside(attempt[a]) /\ gate' = [gate EXCEPT ![Home[a]] = @ + 1]
    <3>1. Inside(h)' = now \ {a} /\ a \in now
      BY <1>5, <1>6, <1>8, <2>3
    <3>2. Cardinality(now \ {a}) = Cardinality(now) - 1
      BY <1>7, <3>1, FS_RemoveElement
    <3>3. gate'[h] = gate[h] + 1
      BY <1>1, <1>2, <1>9, <2>3
    <3>4. QED BY <1>7, <1>9, <3>1, <3>2, <3>3, AdmissionAssumption
  <2>4. QED BY <2>1, <2>2, <2>3
<1>12. \A p \in Processes : gate'[p] = Concurrency - Cardinality(Inside(p)')
  BY <1>4, <1>10, <1>11 DEF SlotsInv, GatesCount
<1>13. QED BY <1>3, <1>10, <1>12 DEF GatesCount

LEMMA LocksMove ==
    ASSUME SlotsInv, NEW a \in Attempts, NEW x, attempt' = [attempt EXCEPT ![a] = x],
           \/ /\ x # Admission!At("hashing") /\ attempt[a] # Admission!At("hashing")
              /\ UNCHANGED locks
           \/ x # Admission!At("hashing") /\ locks' = Admission!Unlocked(a)
           \/ /\ x = Admission!At("hashing") /\ attempt[a] # Admission!At("hashing")
              /\ \E l \in 1..Concurrency :
                   locks[l] = Admission!Free /\ locks' = [locks EXCEPT ![l] = a]
    PROVE  LocksName'
<1>1. a # Admission!Free
  BY AdmissionAssumption DEF Admission!Free
<1>2. locks \in [1..Concurrency -> Attempts \union {Admission!Free}]
  BY DEF SlotsInv, LocksName
<1>3. /\ \A l \in 1..Concurrency : locks[l] # Admission!Free => locks[l] \in Hashing
      /\ \A b \in Hashing : \E l \in 1..Concurrency : locks[l] = b
  BY DEF SlotsInv, LocksName
<1>4. a \in Hashing <=> attempt[a] = Admission!At("hashing")
  BY DEF Hashing
<1>5. Hashing' = IF x = Admission!At("hashing") THEN Hashing \union {a} ELSE Hashing \ {a}
  BY InsideMoves
<1>6. CASE x # Admission!At("hashing") /\ attempt[a] # Admission!At("hashing") /\ UNCHANGED locks
  <2>1. Hashing' = Hashing
    BY <1>4, <1>5, <1>6
  <2>2. QED BY <1>2, <1>3, <1>6, <2>1 DEF LocksName
<1>7. CASE x # Admission!At("hashing") /\ locks' = Admission!Unlocked(a)
  <2>1. Hashing' = Hashing \ {a}
    BY <1>5, <1>7
  <2>2. locks' \in [1..Concurrency -> Attempts \union {Admission!Free}]
    BY <1>2, <1>7 DEF Admission!Unlocked
  <2>3. \A l \in 1..Concurrency : locks'[l] # Admission!Free =>
          locks'[l] = locks[l] /\ locks[l] # a
    BY <1>7 DEF Admission!Unlocked
  <2>4. \A l \in 1..Concurrency : locks[l] # a => locks'[l] = locks[l]
    BY <1>7 DEF Admission!Unlocked
  <2>5. QED BY <1>3, <2>1, <2>2, <2>3, <2>4 DEF LocksName
<1>8. ASSUME NEW l \in 1..Concurrency, x = Admission!At("hashing"),
             attempt[a] # Admission!At("hashing"),
             locks[l] = Admission!Free, locks' = [locks EXCEPT ![l] = a]
      PROVE  LocksName'
  <2>1. Hashing' = Hashing \union {a}
    BY <1>5, <1>8
  <2>2. locks' \in [1..Concurrency -> Attempts \union {Admission!Free}]
    BY <1>2, <1>8
  <2>3. locks'[l] = a /\ \A m \in 1..Concurrency : m # l => locks'[m] = locks[m]
    BY <1>2, <1>8
  <2>4. \A m \in 1..Concurrency : locks'[m] # Admission!Free => locks'[m] \in Hashing'
    BY <1>3, <2>1, <2>3
  <2>5. ASSUME NEW b \in Hashing' PROVE \E m \in 1..Concurrency : locks'[m] = b
    <3>1. CASE b = a
      BY <2>3, <3>1
    <3>2. CASE b # a
      <4>1. b \in Attempts
        BY <2>5 DEF Hashing
      <4>2. PICK m \in 1..Concurrency : locks[m] = b
        BY <1>3, <2>1, <3>2
      <4>3. m # l
        BY <1>8, <4>1, <4>2, AdmissionAssumption DEF Admission!Free
      <4>4. QED BY <2>3, <4>2, <4>3
    <3>3. QED BY <3>1, <3>2
  <2>6. QED BY <2>2, <2>4, <2>5 DEF LocksName
<1>9. QED BY <1>6, <1>7, <1>8

(* The lowest free lock is there whenever one is free.                     *)
LEMMA LowestFree ==
    ASSUME NEW m \in 1..Concurrency, locks[m] = Admission!Free
    PROVE  LET low == CHOOSE l \in 1..Concurrency :
                        /\ locks[l] = Admission!Free
                        /\ \A k \in 1..(l - 1) : locks[k] # Admission!Free
           IN  low \in 1..Concurrency /\ locks[low] = Admission!Free
<1> DEFINE T == {l \in 1..Concurrency : locks[l] = Admission!Free}
<1>1. PICK l \in T : \A k \in T : l <= k
  <2>1. T \subseteq 1..Concurrency /\ T # {}
    OBVIOUS
  <2> HIDE DEF T
  <2>2. QED BY <2>1, LeastNumber, AdmissionAssumption
<1>2. \A k \in 1..(l - 1) : locks[k] # Admission!Free
  BY <1>1, AdmissionAssumption
<1>3. \E n \in 1..Concurrency : /\ locks[n] = Admission!Free
                                /\ \A k \in 1..(n - 1) : locks[k] # Admission!Free
  BY <1>2
<1>4. QED BY <1>3

LEMMA SlotsStart == Admission!Init => SlotsInv
<1> SUFFICES ASSUME Admission!Init PROVE SlotsInv
  OBVIOUS
<1>1. \A p : Inside(p) = {}
  BY DEF Admission!Init, Inside, IsInside, Admission!At
<1>2. Hashing = {}
  BY DEF Admission!Init, Hashing, Admission!At
<1>3. GatesCount
  <2>1. Cardinality({}) = 0
    BY FS_EmptySet
  <2>2. gate = [p \in Processes |-> Concurrency]
    BY DEF Admission!Init
  <2>3. \A p \in Processes : Cardinality(Inside(p)) = 0 /\ gate[p] = Concurrency
    BY <1>1, <2>1, <2>2
  <2>4. Concurrency \in Nat /\ Concurrency + 0 = Concurrency
    BY AdmissionAssumption
  <2>5. QED BY <2>2, <2>3, <2>4 DEF GatesCount
<1>4. QED BY <1>2, <1>3 DEF SlotsInv, LocksName, Admission!Init

LEMMA AttemptKeepsSlots ==
    ASSUME SlotsInv, NEW a \in Attempts,
           \/ Admission!Arrive(a) \/ Admission!throttle(a) \/ Admission!AcquireGate(a)
           \/ Admission!TryLocks(a) \/ Admission!Release(a) \/ Admission!LoseConnection(a)
    PROVE  SlotsInv'
<1>1. CASE Admission!Arrive(a)
  <2>1. attempt' = [attempt EXCEPT ![a] = Admission!Arrived(seconds)]
        /\ attempt[a] = Admission!At("idle") /\ UNCHANGED <<gate, locks>>
    BY <1>1 DEF Admission!Arrive, Admission!Slots
  <2>2. ~IsInside(Admission!Arrived(seconds)) /\ ~IsInside(attempt[a])
        /\ Admission!Arrived(seconds) # Admission!At("hashing")
        /\ attempt[a] # Admission!At("hashing")
    BY <2>1 DEF IsInside, Admission!Arrived, Admission!At
  <2>3. QED BY <2>1, <2>2, GatesMove, LocksMove DEF SlotsInv
<1>2. CASE Admission!throttle(a)
  <2>1. PICK x \in {Admission!At("idle"), Admission!At("admitted")} :
          attempt' = [attempt EXCEPT ![a] = x]
    BY <1>2 DEF Admission!throttle, Admission!Goto
  <2>2. attempt[a].step = "arrived" /\ UNCHANGED <<gate, locks>>
    BY <1>2 DEF Admission!throttle, Admission!Slots
  <2>3. ~IsInside(x) /\ ~IsInside(attempt[a]) /\ x # Admission!At("hashing")
        /\ attempt[a] # Admission!At("hashing")
    BY <2>1, <2>2 DEF IsInside, Admission!At
  <2>4. QED BY <2>1, <2>2, <2>3, GatesMove, LocksMove DEF SlotsInv
<1>3. CASE Admission!AcquireGate(a)
  <2>1. attempt[a] = Admission!At("admitted") /\ UNCHANGED locks
    BY <1>3 DEF Admission!AcquireGate
  <2>2. ~IsInside(attempt[a]) /\ attempt[a] # Admission!At("hashing")
        /\ ~IsInside(Admission!At("idle")) /\ IsInside(Admission!At("gated"))
        /\ Admission!At("idle") # Admission!At("hashing")
        /\ Admission!At("gated") # Admission!At("hashing")
    BY <2>1 DEF IsInside, Admission!At
  <2>3. CASE gate[Home[a]] = 0
    <3>1. attempt' = [attempt EXCEPT ![a] = Admission!At("idle")] /\ UNCHANGED gate
      BY <1>3, <2>3 DEF Admission!AcquireGate, Admission!Goto
    <3>2. QED BY <2>1, <2>2, <3>1, GatesMove, LocksMove DEF SlotsInv
  <2>4. CASE gate[Home[a]] # 0
    <3>1. attempt' = [attempt EXCEPT ![a] = Admission!At("gated")]
          /\ gate' = [gate EXCEPT ![Home[a]] = @ - 1]
      BY <1>3, <2>4 DEF Admission!AcquireGate, Admission!Goto
    <3>2. QED BY <2>1, <2>2, <3>1, GatesMove, LocksMove DEF SlotsInv
  <2>5. QED BY <2>3, <2>4
<1>4. CASE Admission!TryLocks(a)
  <2>1. attempt[a] = Admission!At("gated")
    BY <1>4 DEF Admission!TryLocks
  <2>2. IsInside(attempt[a]) /\ attempt[a] # Admission!At("hashing")
        /\ ~IsInside(Admission!At("idle")) /\ IsInside(Admission!At("hashing"))
        /\ Admission!At("idle") # Admission!At("hashing")
    BY <2>1 DEF IsInside, Admission!At
  <2>3. CASE \E l \in 1..Concurrency : locks[l] = Admission!Free
    <3>1. PICK low : low = CHOOSE l \in 1..Concurrency :
                             /\ locks[l] = Admission!Free
                             /\ \A m \in 1..(l - 1) : locks[m] # Admission!Free
      OBVIOUS
    <3>2. low \in 1..Concurrency /\ locks[low] = Admission!Free
      BY <2>3, <3>1, LowestFree
    <3>3. attempt' = [attempt EXCEPT ![a] = Admission!At("hashing")] /\ UNCHANGED gate
          /\ locks' = [locks EXCEPT ![low] = a]
      BY <1>4, <2>3, <3>1, Zenon DEF Admission!TryLocks, Admission!Goto
    <3>4. QED BY <2>2, <3>2, <3>3, GatesMove, LocksMove DEF SlotsInv
  <2>4. CASE ~ \E l \in 1..Concurrency : locks[l] = Admission!Free
    <3>1. attempt' = [attempt EXCEPT ![a] = Admission!At("idle")] /\ UNCHANGED locks
          /\ gate' = [gate EXCEPT ![Home[a]] = @ + 1]
      BY <1>4, <2>4, Zenon DEF Admission!TryLocks, Admission!Goto, Admission!Opened
    <3>2. QED BY <2>2, <3>1, GatesMove, LocksMove DEF SlotsInv
  <2>5. QED BY <2>3, <2>4
<1>5. CASE Admission!Release(a)
  <2>1. /\ attempt' = [attempt EXCEPT ![a] = Admission!At("idle")] /\ IsInside(attempt[a])
        /\ gate' = [gate EXCEPT ![Home[a]] = @ + 1] /\ locks' = Admission!Unlocked(a)
    BY <1>5 DEF Admission!Release, Admission!Goto, Admission!Opened, IsInside
  <2>2. ~IsInside(Admission!At("idle")) /\ Admission!At("idle") # Admission!At("hashing")
    BY DEF IsInside, Admission!At
  <2>3. QED BY <2>1, <2>2, GatesMove, LocksMove DEF SlotsInv
<1>6. CASE Admission!LoseConnection(a)
  <2>1. /\ attempt' = [attempt EXCEPT ![a] = Admission!At("unlocked")] /\ UNCHANGED gate
        /\ attempt[a] = Admission!At("hashing") /\ locks' = Admission!Unlocked(a)
    BY <1>6 DEF Admission!LoseConnection, Admission!Goto
  <2>2. IsInside(Admission!At("unlocked")) /\ IsInside(attempt[a])
        /\ Admission!At("unlocked") # Admission!At("hashing")
    BY <2>1 DEF IsInside, Admission!At
  <2>3. QED BY <2>1, <2>2, GatesMove, LocksMove DEF SlotsInv
<1>7. QED BY <1>1, <1>2, <1>3, <1>4, <1>5, <1>6

(* A process that dies takes its semaphore and its locks with it.          *)
LEMMA CrashKeepsSlots ==
    ASSUME SlotsInv, NEW p \in Processes, Admission!Crash(p)
    PROVE  SlotsInv'
<1>1. /\ gate' = [gate EXCEPT ![p] = Concurrency]
      /\ locks' = [l \in 1..Concurrency |->
                     IF locks[l] # Admission!Free /\ Home[locks[l]] = p THEN Admission!Free
                     ELSE locks[l]]
      /\ attempt' = [a \in Attempts |-> IF Home[a] = p THEN Admission!At("idle") ELSE attempt[a]]
  BY DEF Admission!Crash
<1>2. DOMAIN attempt' = Attempts
  BY <1>1
<1>3. \A q \in Processes : q # p => Inside(q)' = Inside(q)
  BY <1>1 DEF Inside
<1>4. Inside(p)' = {}
  BY <1>1 DEF Inside, IsInside, Admission!At
<1>5. GatesCount'
  <2>1. DOMAIN gate' = Processes /\ gate'[p] = Concurrency
        /\ \A q \in Processes : q # p => gate'[q] = gate[q]
    BY <1>1 DEF SlotsInv, GatesCount
  <2>2. gate'[p] = Concurrency - Cardinality(Inside(p)')
    BY <1>4, <2>1, FS_EmptySet, AdmissionAssumption
  <2>3. \A q \in Processes : gate'[q] = Concurrency - Cardinality(Inside(q)')
    BY <1>3, <2>1, <2>2 DEF SlotsInv, GatesCount
  <2>4. QED BY <2>1, <2>3 DEF GatesCount
<1>6. Hashing' = {a \in Hashing : Home[a] # p}
  BY <1>1 DEF Hashing, Admission!At
<1>7. LocksName'
  <2>1. locks' \in [1..Concurrency -> Attempts \union {Admission!Free}]
    BY <1>1 DEF SlotsInv, LocksName
  <2>2. \A l \in 1..Concurrency : locks'[l] # Admission!Free =>
          locks'[l] = locks[l] /\ Home[locks[l]] # p
    BY <1>1
  <2>3. \A l \in 1..Concurrency : Home[locks[l]] # p => locks'[l] = locks[l]
    BY <1>1
  <2>4. QED BY <1>6, <2>1, <2>2, <2>3 DEF SlotsInv, LocksName
<1>8. QED BY <1>2, <1>5, <1>7 DEF SlotsInv

LEMMA SlotsStep == SlotsInv /\ [Admission!Next]_(Admission!vars) => SlotsInv'
<1> SUFFICES ASSUME SlotsInv, [Admission!Next]_(Admission!vars) PROVE SlotsInv'
  OBVIOUS
<1>1. CASE UNCHANGED <<gate, locks, attempt>>
  BY <1>1 DEF SlotsInv, GatesCount, LocksName, Inside, Hashing
<1>2. CASE Admission!Tick \/ UNCHANGED Admission!vars
  BY <1>1, <1>2 DEF Admission!Tick, Admission!Slots, Admission!vars
<1>3. QED BY <1>2, AttemptKeepsSlots, CrashKeepsSlots DEF Admission!Next

LEMMA AdmissionMove == [Next]_vars => [Admission!Next]_(Admission!vars)
BY DEF Next, vars, admissionVars, Admission!vars

(* Whatever fails, dies or is lost while a password is hashed, the slot of *)
(* the process and the lock of the database are given back, and no more    *)
(* hashes run with a lock than HASH_CONCURRENCY, for any attempts,         *)
(* processes and concurrency (hash_slot).                                  *)
THEOREM SlotsAreGivenBack == Spec => []SlotsAreKept
<1>1. Init => SlotsInv
  BY SlotsStart DEF Init
<1>2. SlotsInv /\ [Next]_vars => SlotsInv'
  BY SlotsStep, AdmissionMove
<1>3. ASSUME SlotsInv PROVE SlotsAreKept
  <2>1. ASSUME NEW p \in Processes
        PROVE  gate[p] + Admission!Cardinality({a \in Attempts : /\ Home[a] = p
                 /\ attempt[a].step \in {"gated", "hashing", "unlocked"}}) = Concurrency
    <3>1. Inside(p) = {a \in Attempts : /\ Home[a] = p
                         /\ attempt[a].step \in {"gated", "hashing", "unlocked"}}
      BY DEF Inside, IsInside
    <3>2. gate[p] + Cardinality(Inside(p)) = Concurrency
      BY <1>3, InsideIsFinite, AdmissionAssumption DEF SlotsInv, GatesCount
    <3>3. QED BY <3>1, <3>2, AdmissionCardinality
  <2>2. {locks[l] : l \in 1..Concurrency} \ {Admission!Free} = Hashing
    BY <1>3, AdmissionAssumption DEF SlotsInv, LocksName, Hashing, Admission!Free
  <2>3. Admission!Cardinality(Hashing) <= Concurrency
    <3> DEFINE taken == {locks[l] : l \in 1..Concurrency}
    <3>1. IsFiniteSet(taken) /\ Cardinality(taken) <= Concurrency
      <4>1. locks \in [1..Concurrency -> Attempts \union {Admission!Free}]
        BY <1>3 DEF SlotsInv, LocksName
      <4>2. QED BY <4>1, ImageOfInterval, AdmissionAssumption
    <3>2. Hashing \subseteq taken
      BY <2>2
    <3> HIDE DEF taken
    <3>3. IsFiniteSet(Hashing) /\ Cardinality(Hashing) <= Cardinality(taken)
      BY <3>1, <3>2, FS_Subset
    <3>4. QED BY <3>1, <3>3, AdmissionCardinality, FS_CardinalityType, AdmissionAssumption
  <2>4. Admission!SlotsAreKept
    BY <2>1, <2>2, <2>3 DEF Admission!SlotsAreKept, Hashing
  <2>5. QED BY <2>4 DEF SlotsAreKept
<1>4. QED BY <1>1, <1>2, <1>3, PTL DEF Spec

-----------------------------------------------------------------------------
(* AuthAdmission, the windows.  A window of a bucket begins when its row   *)
(* is written: it admits nothing before that moment, and after it the      *)
(* window before admits no more.  Two windows begin at least a window's    *)
(* length less the longest wait apart, since the clock that a throttle     *)
(* read may be that much older than the moment at which it counts.  So     *)
(* admissions of three windows never meet in a shorter stretch.            *)

Moments == 0..LastMoment
Span == RateWindow - Patience
Begun(now) == [attempts |-> 0, expires_at |-> now + RateWindow]
NoRow == [attempts |-> 0, expires_at |-> -1]

(* The admissions f of a bucket with limit L and row b, at a moment s, if  *)
(* its last window began at m and has admitted c.                          *)
Fits(f, L, b, s, m, c) ==
    /\ m \in Int /\ m <= s /\ c \in 0..L
    /\ IF b = NoRow THEN s >= m + Span ELSE b.attempts = c /\ b.expires_at >= m + Span
    /\ \A T \in SUBSET Moments :
         /\ (\A u \in T : u > m) => SumFunctionOnSet(f, T) <= c
         /\ (\A u \in T : u > m - Span) => SumFunctionOnSet(f, T) <= c + L
Counts(f, b, s) ==
    /\ f \in [Moments -> Nat] /\ s \in Moments /\ \A u \in Moments : u > s => f[u] = 0
    /\ b \in [attempts : Nat, expires_at : Nat] \union {NoRow}

LEMMA MomentsAreFinite ==
    ASSUME NEW T \in SUBSET Moments, NEW f \in [Moments -> Nat]
    PROVE  IsFiniteSet(T) /\ SumFunctionOnSet(f, T) \in Nat
<1>1. IsFiniteSet(Moments)
  BY AdmissionAssumption, FS_Interval DEF Moments
<1>2. IsFiniteSet(T)
  BY <1>1, FS_Subset
<1>3. QED BY <1>2, SumIsNat

LEMMA FitsLater ==
    ASSUME NEW f, NEW L \in Nat, NEW b, NEW s \in Int, NEW m, NEW c, Fits(f, L, b, s, m, c),
           NEW t \in Int, s <= t
    PROVE  Fits(f, L, b, t, m, c)
BY AdmissionAssumption DEF Fits, Span

(* A row that has expired is swept.                                        *)
LEMMA SweptFits ==
    ASSUME NEW f, NEW L \in Nat, NEW b, NEW s, NEW m, NEW c, Fits(f, L, b, s, m, c),
           Counts(f, b, s), NEW now \in Int, now <= s, b.expires_at <= now
    PROVE  Fits(f, L, NoRow, s, m, c)
<1>1. s >= m + Span
  BY AdmissionAssumption DEF Fits, Span, Counts, Moments
<1>2. QED BY <1>1 DEF Fits

(* A window that has expired is followed by the next one.                  *)
LEMMA BegunFits ==
    ASSUME NEW f, NEW L \in Nat, NEW b, NEW s, NEW m, NEW c, Fits(f, L, b, s, m, c),
           Counts(f, b, s), NEW now \in Nat, now <= s, s - now <= Patience,
           b = NoRow \/ b.expires_at <= now
    PROVE  Fits(f, L, Begun(now), s, s, 0)
<1>1. s \in Nat /\ m \in Int /\ c \in 0..L /\ s >= m + Span /\ Span \in Int /\ m <= s
  BY AdmissionAssumption DEF Fits, Span, Counts, Moments
<1>2. Begun(now) # NoRow /\ Begun(now).attempts = 0 /\ Begun(now).expires_at = now + RateWindow
  BY AdmissionAssumption DEF Begun, NoRow
<1>3. now + RateWindow >= s + Span
  BY AdmissionAssumption, <1>1 DEF Span
<1>4. ASSUME NEW T \in SUBSET Moments, \A u \in T : u > s PROVE SumFunctionOnSet(f, T) <= 0
  <2>1. \A u \in T : f[u] = 0
    BY <1>4 DEF Counts
  <2>2. SumFunctionOnSet(f, T) = 0
    BY <2>1, MomentsAreFinite, SumIsZero DEF Counts
  <2>3. QED BY <2>2
<1>5. ASSUME NEW T \in SUBSET Moments, \A u \in T : u > s - Span
      PROVE  SumFunctionOnSet(f, T) <= 0 + L
  <2>1. \A u \in T : u > m
    BY <1>1, <1>5 DEF Moments
  <2>2. SumFunctionOnSet(f, T) <= c
    BY <2>1 DEF Fits
  <2>3. SumFunctionOnSet(f, T) \in Nat
    BY MomentsAreFinite DEF Counts
  <2>4. QED BY <1>1, <2>2, <2>3
<1>6. QED BY <1>1, <1>2, <1>3, <1>4, <1>5 DEF Fits

(* One more admission.                                                     *)
LEMMA OneMore ==
    ASSUME NEW f \in [Moments -> Nat], NEW s \in Moments, NEW T \in SUBSET Moments,
           NEW g, g[s] = f[s] + 1, \A u \in Moments \ {s} : g[u] = f[u]
    PROVE  SumFunctionOnSet(g, T) = IF s \in T THEN SumFunctionOnSet(f, T) + 1
                                    ELSE SumFunctionOnSet(f, T)
<1>2. IsFiniteSet(T) /\ SumFunctionOnSet(f, T) \in Nat
  BY MomentsAreFinite
<1>3. \A u \in T : f[u] \in Int /\ g[u] \in Int /\ (u # s => f[u] = g[u])
  OBVIOUS
<1>4. CASE s \in T
  <2>1. g[s] = f[s] + 1 /\ f[s] \in Int
    OBVIOUS
  <2>2. SumFunctionOnSet(g, T) = SumFunctionOnSet(f, T) - f[s] + g[s]
    BY <1>2, <1>3, <1>4, SumChange
  <2>3. QED BY <1>2, <1>4, <2>1, <2>2
<1>5. CASE s \notin T
  <2>1. SumFunctionOnSet(f, T) = SumFunctionOnSet(g, T)
    BY <1>2, <1>3, <1>5, SumSame
  <2>2. QED BY <1>5, <2>1
<1>6. QED BY <1>4, <1>5

LEMMA OneMoreFits ==
    ASSUME NEW f, NEW L \in Nat, NEW b, NEW s, NEW m, NEW c, Fits(f, L, b, s, m, c),
           Counts(f, b, s), b # NoRow, b.attempts < L, NEW d, d # NoRow,
           d.attempts = b.attempts + 1, d.expires_at = b.expires_at
    PROVE  Fits([f EXCEPT ![s] = @ + 1], L, d, s, m, c + 1)
<1>1. PICK g : g = [f EXCEPT ![s] = @ + 1]
  OBVIOUS
<1>2. f \in [Moments -> Nat] /\ s \in Moments /\ c \in 0..L /\ b.attempts = c
  BY DEF Fits, Counts
<1>3. ASSUME NEW T \in SUBSET Moments
      PROVE  /\ SumFunctionOnSet(g, T) \in Int /\ SumFunctionOnSet(f, T) \in Int
             /\ SumFunctionOnSet(g, T) <= SumFunctionOnSet(f, T) + 1
  <2>1. SumFunctionOnSet(f, T) \in Nat
    BY <1>2, MomentsAreFinite
  <2>2. g[s] = f[s] + 1 /\ \A u \in Moments \ {s} : g[u] = f[u]
    BY <1>1, <1>2
  <2>3. SumFunctionOnSet(g, T) = IF s \in T THEN SumFunctionOnSet(f, T) + 1
                                 ELSE SumFunctionOnSet(f, T)
    BY <1>2, <2>2, OneMore
  <2>4. QED BY <2>1, <2>3
<1>4. ASSUME NEW T \in SUBSET Moments, \A u \in T : u > m
      PROVE  SumFunctionOnSet(g, T) <= c + 1
  <2>1. SumFunctionOnSet(f, T) <= c
    BY <1>4 DEF Fits
  <2>2. QED BY <1>2, <1>3, <2>1
<1>5. ASSUME NEW T \in SUBSET Moments, \A u \in T : u > m - Span
      PROVE  SumFunctionOnSet(g, T) <= c + 1 + L
  <2>1. SumFunctionOnSet(f, T) <= c + L
    BY <1>5 DEF Fits
  <2>2. QED BY <1>2, <1>3, <2>1
<1>6. c + 1 \in 0..L /\ d.attempts = c + 1
  BY <1>2
<1>7. m \in Int /\ m <= s /\ d.expires_at >= m + Span
  BY DEF Fits
<1>8. Fits(g, L, d, s, m, c + 1)
  BY <1>4, <1>5, <1>6, <1>7 DEF Fits
<1>9. QED BY <1>1, <1>8

(* A stretch that holds the present is within the last two windows.        *)
LEMMA StretchFits ==
    ASSUME NEW f, NEW L \in Nat, NEW b, NEW s, NEW m, NEW c, Fits(f, L, b, s, m, c),
           f \in [Moments -> Nat], s \in Moments, NEW t \in Moments, NEW T \in SUBSET Moments, s \in T,
           \A u \in T : t <= u /\ u < t + Span
    PROVE  SumFunctionOnSet(f, T) <= 2 * L
<1>1. m \in Int /\ m <= s /\ c \in 0..L /\ Span \in Int
  BY AdmissionAssumption DEF Fits, Span
<1>2. \A u \in T : u > m - Span
  BY <1>1 DEF Moments
<1>3. SumFunctionOnSet(f, T) <= c + L
  BY <1>2 DEF Fits
<1>4. SumFunctionOnSet(f, T) \in Nat
  BY MomentsAreFinite
<1>5. QED BY <1>1, <1>3, <1>4


(* What holds of the admissions f and the row b of a bucket at s.          *)
Stretch(t) == {u \in Moments : t <= u /\ u < t + Span}
BucketHolds(L, f, b, s) ==
    /\ Counts(f, b, s)
    /\ \E m, c : Fits(f, L, b, s, m, c)
    /\ \A t \in Moments : SumFunctionOnSet(f, Stretch(t)) <= 2 * L

LEMMA BucketLater ==
    ASSUME NEW L \in Nat, NEW f, NEW b, NEW s, BucketHolds(L, f, b, s),
           NEW t \in Moments, s <= t
    PROVE  BucketHolds(L, f, b, t)
<1>1. s \in Moments /\ Counts(f, b, t)
  BY DEF BucketHolds, Counts, Moments
<1>2. PICK m, c : Fits(f, L, b, s, m, c)
  BY DEF BucketHolds
<1>3. Fits(f, L, b, t, m, c)
  BY <1>1, <1>2, FitsLater DEF Moments
<1>4. QED BY <1>1, <1>3 DEF BucketHolds

LEMMA BucketSwept ==
    ASSUME NEW L \in Nat, NEW f, NEW b, NEW s, BucketHolds(L, f, b, s),
           NEW now \in Int, now <= s, b.expires_at <= now
    PROVE  BucketHolds(L, f, NoRow, s)
<1>1. Counts(f, b, s) /\ Counts(f, NoRow, s)
  BY DEF BucketHolds, Counts
<1>2. PICK m, c : Fits(f, L, b, s, m, c)
  BY DEF BucketHolds
<1>3. Fits(f, L, NoRow, s, m, c)
  BY <1>1, <1>2, SweptFits
<1>4. QED BY <1>1, <1>3 DEF BucketHolds

LEMMA BucketBegun ==
    ASSUME NEW L \in Nat, NEW f, NEW b, NEW s, BucketHolds(L, f, b, s),
           NEW now \in Nat, now <= s, s - now <= Patience, b = NoRow \/ b.expires_at <= now
    PROVE  BucketHolds(L, f, Begun(now), s)
<1>1. Counts(f, b, s) /\ Counts(f, Begun(now), s)
  BY AdmissionAssumption DEF BucketHolds, Counts, Begun
<1>2. PICK m, c : Fits(f, L, b, s, m, c)
  BY DEF BucketHolds
<1>3. Fits(f, L, Begun(now), s, s, 0)
  BY <1>1, <1>2, BegunFits
<1>4. QED BY <1>1, <1>3 DEF BucketHolds

LEMMA BucketAdmits ==
    ASSUME NEW L \in Nat, NEW f, NEW b, NEW s, BucketHolds(L, f, b, s),
           b # NoRow, b.attempts < L
    PROVE  BucketHolds(L, [f EXCEPT ![s] = @ + 1], [b EXCEPT !.attempts = @ + 1], s)
<1> DEFINE g == [f EXCEPT ![s] = @ + 1]
           d == [b EXCEPT !.attempts = @ + 1]
<1>1. /\ Counts(f, b, s) /\ f \in [Moments -> Nat] /\ s \in Moments
      /\ b \in [attempts : Nat, expires_at : Nat]
      /\ \A u \in Moments : u > s => f[u] = 0
  BY DEF BucketHolds, Counts
<1>2. PICK m, c : Fits(f, L, b, s, m, c)
  BY DEF BucketHolds
<1>3. /\ g \in [Moments -> Nat] /\ g[s] = f[s] + 1
      /\ \A u \in Moments \ {s} : g[u] = f[u]
  BY <1>1
<1>4. /\ d \in [attempts : Nat, expires_at : Nat] /\ d # NoRow
      /\ d.attempts = b.attempts + 1 /\ d.expires_at = b.expires_at
  <2>1. /\ d \in [attempts : Nat, expires_at : Nat]
        /\ d.attempts = b.attempts + 1 /\ d.expires_at = b.expires_at
    BY <1>1
  <2>2. NoRow.expires_at = -1
    BY DEF NoRow
  <2>3. d # NoRow
    BY <2>1, <2>2
  <2>4. QED BY <2>1, <2>3
<1>5. Fits(g, L, d, s, m, c + 1)
  <2> HIDE DEF d
  <2>1. QED BY <1>1, <1>2, <1>4, OneMoreFits
<1> HIDE DEF g, d
<1>6. \A u \in Moments : u > s => g[u] = 0
  <2>1. \A u \in Moments : u > s => u # s
    BY <1>1 DEF Moments
  <2>2. QED BY <1>1, <1>3, <2>1
<1>7. Counts(g, d, s)
  BY <1>1, <1>3, <1>4, <1>6 DEF Counts
<1>8. ASSUME NEW t \in Moments PROVE SumFunctionOnSet(g, Stretch(t)) <= 2 * L
  <2>1. Stretch(t) \in SUBSET Moments /\ \A u \in Stretch(t) : t <= u /\ u < t + Span
    BY DEF Stretch
  <2>2. CASE s \in Stretch(t)
    BY <1>1, <1>3, <1>5, <2>1, <2>2, StretchFits
  <2>3. CASE s \notin Stretch(t)
    <3>1. SumFunctionOnSet(g, Stretch(t)) = SumFunctionOnSet(f, Stretch(t))
      BY <1>1, <1>3, <2>1, <2>3, OneMore
    <3>2. QED BY <3>1 DEF BucketHolds
  <2>4. QED BY <2>2, <2>3
<1>9. BucketHolds(L, g, d, s)
  BY <1>5, <1>7, <1>8 DEF BucketHolds
<1>10. QED BY <1>9 DEF g, d

(* The clock that an attempt has read is a bounded wait old, and every     *)
(* bucket holds what it should.                                            *)
WindowsInv ==
    /\ seconds \in Moments /\ DOMAIN attempt = Attempts
    /\ \A a \in Attempts : attempt[a].step = "arrived" =>
         attempt[a].at \in Nat /\ attempt[a].at <= seconds
         /\ seconds - attempt[a].at <= Patience
    /\ \A k \in Admission!AllKeys : BucketHolds(Limits[k], admitted[k], buckets[k], seconds)

LEMMA LimitsAreNat == \A k \in Admission!AllKeys : Limits[k] \in Nat
BY AdmissionAssumption DEF Admission!AllKeys

LEMMA WindowsStart == Admission!Init => WindowsInv
<1> SUFFICES ASSUME Admission!Init PROVE WindowsInv
  OBVIOUS
<1>1. seconds = 0 /\ 0 \in Moments /\ DOMAIN attempt = Attempts
  BY AdmissionAssumption DEF Admission!Init, Moments
<1>2. \A a \in Attempts : attempt[a].step # "arrived"
  BY DEF Admission!Init, Admission!At
<1>3. ASSUME NEW k \in Admission!AllKeys
      PROVE  BucketHolds(Limits[k], admitted[k], buckets[k], seconds)
  <2> DEFINE f == [t \in Moments |-> 0]
  <2>1. admitted[k] = f /\ buckets[k] = NoRow
    BY <1>3 DEF Admission!Init, Admission!NoBucket, Admission!Moments, Moments, NoRow
  <2>2. f \in [Moments -> Nat] /\ \A u \in Moments : f[u] = 0
    OBVIOUS
  <2> HIDE DEF f
  <2>3. Counts(f, NoRow, 0)
    BY <1>1, <2>2 DEF Counts
  <2>4. ASSUME NEW T \in SUBSET Moments PROVE SumFunctionOnSet(f, T) = 0
    BY <2>2, MomentsAreFinite, SumIsZero
  <2>5. Limits[k] \in Nat
    BY LimitsAreNat
  <2>6. PICK m \in Int : m <= 0 /\ 0 >= m + Span
    <3>1. Span \in Int
      BY AdmissionAssumption DEF Span
    <3>2. CASE Span >= 0
      <4>1. -Span \in Int /\ -Span <= 0 /\ 0 >= -Span + Span
        BY <3>1, <3>2
      <4>2. QED BY <4>1
    <3>3. CASE Span < 0
      BY <3>1, <3>3
    <3>4. QED BY <3>1, <3>2, <3>3
  <2>7. Fits(f, Limits[k], NoRow, 0, m, 0)
    BY <2>4, <2>5, <2>6 DEF Fits
  <2>8. \A t \in Moments : SumFunctionOnSet(f, Stretch(t)) <= 2 * Limits[k]
    <3>1. \A t \in Moments : Stretch(t) \in SUBSET Moments
      BY DEF Stretch
    <3>2. QED BY <2>4, <2>5, <3>1
  <2>9. BucketHolds(Limits[k], f, NoRow, 0)
    BY <2>3, <2>7, <2>8 DEF BucketHolds
  <2>10. QED BY <1>1, <2>1, <2>9
<1>4. QED BY <1>1, <1>2, <1>3 DEF WindowsInv


(* The invariant after a step.                                             *)
LEMMA WindowsNext ==
    ASSUME seconds' \in Moments, DOMAIN attempt' = Attempts,
           \A a \in Attempts : attempt'[a].step = "arrived" =>
             attempt'[a].at \in Nat /\ attempt'[a].at <= seconds'
             /\ seconds' - attempt'[a].at <= Patience,
           \A k \in Admission!AllKeys :
             BucketHolds(Limits[k], admitted'[k], buckets'[k], seconds')
    PROVE  WindowsInv'
<1>1. ASSUME NEW k \in Admission!AllKeys
      PROVE  BucketHolds(Limits[k], admitted[k], buckets[k], seconds)'
  BY Zenon DEF BucketHolds, Counts, Fits, Stretch, SumFunctionOnSet, FoldFunctionOnSet,
               MapThenFoldSet
<1>2. QED BY <1>1 DEF WindowsInv

LEMMA TickKeepsWindows ==
    ASSUME WindowsInv, Admission!Tick
    PROVE  WindowsInv'
<1>1. /\ seconds \in Moments /\ seconds < LastMoment /\ seconds' = seconds + 1
      /\ UNCHANGED <<buckets, attempt, admitted>>
      /\ \A a \in Attempts : attempt[a].step = "arrived" => seconds - attempt[a].at < Patience
  BY DEF WindowsInv, Admission!Tick
<1>2. seconds' \in Moments /\ seconds <= seconds'
  BY <1>1, AdmissionAssumption DEF Moments
<1>3. ASSUME NEW k \in Admission!AllKeys
      PROVE  BucketHolds(Limits[k], admitted'[k], buckets'[k], seconds')
  BY <1>1, <1>2, LimitsAreNat, BucketLater DEF WindowsInv
<1>4. ASSUME NEW a \in Attempts, attempt'[a].step = "arrived"
      PROVE  attempt'[a].at \in Nat /\ attempt'[a].at <= seconds'
             /\ seconds' - attempt'[a].at <= Patience
  <2>1. attempt[a].at \in Nat /\ attempt[a].at <= seconds /\ seconds - attempt[a].at < Patience
    BY <1>1, <1>4 DEF WindowsInv
  <2>2. QED BY <1>1, <2>1, AdmissionAssumption DEF Moments
<1>5. QED BY <1>1, <1>2, <1>3, <1>4, WindowsNext DEF WindowsInv

(* Each bucket after a throttle is as it was, swept, begun or counted.     *)
LEMMA ThrottleKeepsBuckets ==
    ASSUME WindowsInv, NEW a \in Attempts, Admission!throttle(a),
           NEW k \in Admission!AllKeys
    PROVE  BucketHolds(Limits[k], admitted'[k], buckets'[k], seconds)
<1> DEFINE now == attempt[a].at
           limited == Admission!Limited(a, now)
           row == Admission!Current(k, now)
           L == Limits[k]
<1>1. now \in Nat /\ now <= seconds /\ seconds - now <= Patience /\ seconds \in Moments
  BY DEF WindowsInv, Admission!throttle
<1>2. L \in Nat /\ BucketHolds(L, admitted[k], buckets[k], seconds)
  BY LimitsAreNat DEF WindowsInv
<1>3. buckets'[k] = IF k \notin Keys[a] THEN Admission!Swept(k, now)
                    ELSE IF limited THEN row ELSE [row EXCEPT !.attempts = @ + 1]
  BY Zenon DEF Admission!throttle, Admission!Counted
<1>4. admitted'[k] = IF k \in Keys[a] /\ ~limited
                     THEN [admitted[k] EXCEPT ![seconds] = @ + 1] ELSE admitted[k]
  BY DEF Admission!throttle, Admission!Noted
<1>5. CASE k \notin Keys[a]
  <2>1. buckets'[k] = Admission!Swept(k, now) /\ admitted'[k] = admitted[k]
    BY <1>3, <1>4, <1>5
  <2>2. CASE buckets'[k] = buckets[k]
    BY <1>2, <2>1, <2>2
  <2>3. CASE buckets[k].expires_at <= now /\ buckets'[k] = NoRow
    BY <1>1, <1>2, <2>1, <2>3, BucketSwept
  <2>4. QED BY <2>1, <2>2, <2>3 DEF Admission!Swept, Admission!NoBucket, NoRow
<1>6. BucketHolds(L, admitted[k], row, seconds) /\ row # NoRow
  <2>1. CASE buckets[k] = NoRow \/ buckets[k].expires_at <= now
    <3>1. row = Begun(now)
      BY <2>1 DEF Admission!Current, Admission!Fresh, Admission!NoBucket, NoRow, Begun
    <3>2. BucketHolds(L, admitted[k], Begun(now), seconds)
      BY <1>1, <1>2, <2>1, BucketBegun
    <3>3. Begun(now) # NoRow
      BY <1>1, AdmissionAssumption DEF Begun, NoRow
    <3>4. QED BY <3>1, <3>2, <3>3
  <2>2. CASE ~(buckets[k] = NoRow \/ buckets[k].expires_at <= now)
    <3>1. row = buckets[k]
      BY <2>2 DEF Admission!Current, Admission!NoBucket, NoRow
    <3>2. QED BY <1>2, <2>2, <3>1
  <2>3. QED BY <2>1, <2>2
<1>7. CASE k \in Keys[a] /\ limited
  BY <1>3, <1>4, <1>6, <1>7
<1>8. CASE k \in Keys[a] /\ ~limited
  <2>1. row.attempts < L
    <3>1. ~(row.attempts >= L)
      BY <1>8 DEF Admission!Limited
    <3>2. row.attempts \in Nat
      BY <1>6 DEF BucketHolds, Counts
    <3>3. QED BY <1>2, <3>1, <3>2
  <2> HIDE DEF row, limited
  <2>2. BucketHolds(L, [admitted[k] EXCEPT ![seconds] = @ + 1],
                    [row EXCEPT !.attempts = @ + 1], seconds)
    BY <1>2, <1>6, <2>1, BucketAdmits
  <2>3. QED BY <1>3, <1>4, <1>8, <2>2
<1>9. QED BY <1>5, <1>7, <1>8

LEMMA WindowsStep == WindowsInv /\ [Admission!Next]_(Admission!vars) => WindowsInv'
<1> SUFFICES ASSUME WindowsInv, [Admission!Next]_(Admission!vars) PROVE WindowsInv'
  OBVIOUS
<1>1. CASE Admission!Tick
  BY <1>1, TickKeepsWindows
<1>2. ASSUME UNCHANGED <<seconds, buckets, admitted>>, DOMAIN attempt' = Attempts,
             \A a \in Attempts : \/ attempt'[a].step # "arrived"
                                 \/ attempt'[a] = attempt[a]
                                 \/ attempt'[a].at = seconds
      PROVE  WindowsInv'
  <2>1. \A a \in Attempts : attempt'[a].step = "arrived" =>
             attempt'[a].at \in Nat /\ attempt'[a].at <= seconds'
             /\ seconds' - attempt'[a].at <= Patience
    BY <1>2, AdmissionAssumption DEF WindowsInv, Moments
  <2>2. QED BY <1>2, <2>1, WindowsNext DEF WindowsInv
<1>3. ASSUME NEW a \in Attempts, NEW x, attempt' = [attempt EXCEPT ![a] = x],
             x.step # "arrived" \/ x.at = seconds
      PROVE  /\ DOMAIN attempt' = Attempts
             /\ \A b \in Attempts : \/ attempt'[b].step # "arrived"
                                    \/ attempt'[b] = attempt[b]
                                    \/ attempt'[b].at = seconds
  BY <1>3 DEF WindowsInv
<1>4. ASSUME NEW a \in Attempts, NEW step, step \in Admission!Steps,
             Admission!Goto(a, step)
      PROVE  /\ DOMAIN attempt' = Attempts
             /\ \A b \in Attempts : \/ attempt'[b].step # "arrived"
                                    \/ attempt'[b] = attempt[b]
                                    \/ attempt'[b].at = seconds
  <2>1. Admission!At(step).step # "arrived"
    BY <1>4 DEF Admission!At, Admission!Steps
  <2>2. QED BY <1>3, <1>4, <2>1 DEF Admission!Goto
<1>5. CASE \E a \in Attempts : Admission!throttle(a)
  <2>1. PICK a \in Attempts : Admission!throttle(a)
    BY <1>5
  <2>2. PICK step \in Admission!Steps : Admission!Goto(a, step)
    BY <2>1 DEF Admission!throttle, Admission!Steps
  <2>3. \A b \in Attempts : attempt'[b].step # "arrived" \/ attempt'[b] = attempt[b]
                              \/ attempt'[b].at = seconds
    BY <1>4, <2>2
  <2>4. seconds' = seconds
    BY <2>1 DEF Admission!throttle
  <2>5. \A k \in Admission!AllKeys :
          BucketHolds(Limits[k], admitted'[k], buckets'[k], seconds')
    BY <2>1, <2>4, ThrottleKeepsBuckets
  <2>6. \A b \in Attempts : attempt'[b].step = "arrived" =>
             attempt'[b].at \in Nat /\ attempt'[b].at <= seconds'
             /\ seconds' - attempt'[b].at <= Patience
    BY <2>3, <2>4, AdmissionAssumption DEF WindowsInv, Moments
  <2>7. QED BY <1>4, <2>2, <2>4, <2>5, <2>6, WindowsNext DEF WindowsInv
<1>6. CASE \E a \in Attempts : Admission!Arrive(a)
  <2>1. PICK a \in Attempts : Admission!Arrive(a)
    BY <1>6
  <2>2. Admission!Arrived(seconds).at = seconds
    BY DEF Admission!Arrived
  <2>3. QED BY <1>2, <1>3, <2>1, <2>2 DEF Admission!Arrive
<1>7. CASE \E a \in Attempts : \/ Admission!AcquireGate(a) \/ Admission!TryLocks(a)
                               \/ Admission!Release(a) \/ Admission!LoseConnection(a)
  <2>1. PICK a \in Attempts : \/ Admission!AcquireGate(a) \/ Admission!TryLocks(a)
                              \/ Admission!Release(a) \/ Admission!LoseConnection(a)
    BY <1>7
  <2>2. UNCHANGED <<seconds, buckets, admitted>>
    BY <2>1 DEF Admission!AcquireGate, Admission!TryLocks, Admission!Release,
                Admission!LoseConnection
  <2>3. PICK step \in Admission!Steps : Admission!Goto(a, step)
    BY <2>1 DEF Admission!AcquireGate, Admission!TryLocks, Admission!Release,
                Admission!LoseConnection, Admission!Steps
  <2>4. QED BY <1>2, <1>4, <2>2, <2>3
<1>8. CASE \E p \in Processes : Admission!Crash(p)
  <2>1. UNCHANGED <<seconds, buckets, admitted>> /\ DOMAIN attempt' = Attempts
    BY <1>8 DEF Admission!Crash
  <2>2. \A b \in Attempts : attempt'[b].step # "arrived" \/ attempt'[b] = attempt[b]
    BY <1>8 DEF Admission!Crash, Admission!At
  <2>3. QED BY <1>2, <2>1, <2>2
<1>9. CASE UNCHANGED Admission!vars
  BY <1>2, <1>9 DEF Admission!vars, WindowsInv
<1>10. QED BY <1>1, <1>5, <1>6, <1>7, <1>8, <1>9 DEF Admission!Next

(* However attempts wait, overlap and arrive, no bucket admits more than   *)
(* twice its limit in a stretch shorter than a window by the longest wait, *)
(* for any buckets, limits, windows and waits (throttle).                  *)
THEOREM StretchesAreBounded == Spec => []AdmissionsAreBounded
<1>1. Init => WindowsInv
  BY WindowsStart DEF Init
<1>2. WindowsInv /\ [Next]_vars => WindowsInv'
  BY WindowsStep, AdmissionMove
<1>3. ASSUME WindowsInv PROVE AdmissionsAreBounded
  <2>1. ASSUME NEW k \in Admission!AllKeys, NEW t \in Moments
        PROVE  Admission!MapThenSumSet(LAMBDA u : admitted[k][u],
                 {u \in Moments : t <= u /\ u < t + RateWindow - Patience}) <= 2 * Limits[k]
    <3> DEFINE T == {u \in Moments : t <= u /\ u < t + RateWindow - Patience}
               g == [u \in T |-> admitted[k][u]]
               f == admitted[k]
    <3>1. T = Stretch(t)
      BY AdmissionAssumption DEF Stretch, Span, Moments
    <3>2. T \in SUBSET Moments /\ f \in [Moments -> Nat]
      BY <1>3 DEF WindowsInv, BucketHolds, Counts
    <3>3. SumFunctionOnSet(f, T) <= 2 * Limits[k]
      BY <1>3, <3>1 DEF WindowsInv, BucketHolds
    <3>4. Admission!MapThenSumSet(LAMBDA u : admitted[k][u], T) = SumFunctionOnSet(g, T)
      <4> HIDE DEF T
      <4>1. QED
        BY DEF SumFunctionOnSet, FoldFunctionOnSet, MapThenFoldSet, Admission!MapThenSumSet,
               Admission!MapThenFoldSet
    <3>5. IsFiniteSet(T) /\ \A u \in T : f[u] = g[u]
      BY <3>2, MomentsAreFinite
    <3>6. SumFunctionOnSet(f, T) = SumFunctionOnSet(g, T)
      <4> HIDE DEF T, f, g
      <4>1. QED BY <3>5, SumSame
    <3>7. QED BY <3>3, <3>4, <3>6
  <2>2. Admission!AdmissionsAreBounded
    BY <2>1 DEF Admission!AdmissionsAreBounded, Admission!Moments, Moments
  <2>3. QED BY <2>2 DEF AdmissionsAreBounded
<1>4. QED BY <1>1, <1>2, <1>3, PTL DEF Spec

-----------------------------------------------------------------------------
(* Types of AuthAdmission: a gate never falls below zero, since who takes  *)
(* a place at it has looked, and rises no higher than it was, since it     *)
(* misses the attempts inside it.                                          *)

AdmissionTypes ==
    /\ gate \in [Processes -> Nat]
    /\ \A k \in Admission!AllKeys :
         buckets[k] \in Admission!AuthRateBucket \union {Admission!NoBucket}
    /\ \A a \in Attempts : attempt[a].step \in Admission!Steps \union {"arrived"}

LEMMA AdmissionTypesStart == Admission!Init => AdmissionTypes
BY AdmissionAssumption DEF Admission!Init, AdmissionTypes, Admission!At, Admission!Steps

(* The rows of a throttle end within a window of now.                      *)
LEMMA BucketTypes ==
    ASSUME WindowsInv, AdmissionTypes, NEW a \in Attempts, Admission!throttle(a),
           NEW k \in Admission!AllKeys
    PROVE  buckets'[k] \in Admission!AuthRateBucket \union {Admission!NoBucket}
<1> DEFINE now == attempt[a].at
<1>1. PICK row : row = Admission!Current(k, now)
  OBVIOUS
<1>2. now \in Nat /\ now + RateWindow \in 0..(LastMoment + RateWindow)
  BY AdmissionAssumption DEF WindowsInv, Admission!throttle, Moments
<1>3. buckets[k] \in Admission!AuthRateBucket \union {Admission!NoBucket}
  BY DEF AdmissionTypes
<1>4. Admission!Fresh(now) \in Admission!AuthRateBucket
  BY <1>2 DEF Admission!Fresh, Admission!AuthRateBucket
<1>5. row \in Admission!AuthRateBucket
  BY <1>1, <1>3, <1>4 DEF Admission!Current
<1>6. [row EXCEPT !.attempts = @ + 1] \in Admission!AuthRateBucket
  BY <1>5 DEF Admission!AuthRateBucket
<1>7. buckets'[k] = IF k \notin Keys[a] THEN Admission!Swept(k, now)
                    ELSE IF Admission!Limited(a, now) THEN row
                    ELSE [row EXCEPT !.attempts = @ + 1]
  BY <1>1, Zenon DEF Admission!throttle, Admission!Counted
<1>8. Admission!Swept(k, now) \in {buckets[k], Admission!NoBucket}
  BY DEF Admission!Swept
<1>9. QED BY <1>3, <1>5, <1>6, <1>7, <1>8

LEMMA GatesStayOpen ==
    ASSUME AdmissionTypes, [Admission!Next]_(Admission!vars)
    PROVE  gate' \in [Processes -> Nat]
<1>1. gate \in [Processes -> Nat]
  BY DEF AdmissionTypes
<1>2. ASSUME NEW a \in Attempts, Admission!AcquireGate(a) PROVE gate' \in [Processes -> Nat]
  BY <1>1, <1>2, AdmissionAssumption DEF Admission!AcquireGate
<1>3. ASSUME NEW a \in Attempts, Admission!Opened(a) PROVE gate' \in [Processes -> Nat]
  BY <1>1, <1>3, AdmissionAssumption DEF Admission!Opened
<1>4. ASSUME NEW q \in Processes, Admission!Crash(q) PROVE gate' \in [Processes -> Nat]
  BY <1>1, <1>4, AdmissionAssumption DEF Admission!Crash
<1>5. CASE UNCHANGED gate
  BY <1>1, <1>5
<1>6. QED BY <1>2, <1>3, <1>4, <1>5 DEF Admission!Next, Admission!vars, Admission!Slots,
     Admission!Tick, Admission!Arrive, Admission!throttle, Admission!TryLocks,
     Admission!Release, Admission!LoseConnection

LEMMA AttemptSteps ==
    ASSUME SlotsInv, AdmissionTypes, [Admission!Next]_(Admission!vars), NEW b \in Attempts
    PROVE  attempt'[b].step \in Admission!Steps \union {"arrived"}
<1>1. ASSUME NEW a \in Attempts, NEW x, attempt' = [attempt EXCEPT ![a] = x],
             x.step \in Admission!Steps \union {"arrived"}
      PROVE  attempt'[b].step \in Admission!Steps \union {"arrived"}
  BY <1>1 DEF AdmissionTypes, SlotsInv
<1>2. ASSUME NEW a \in Attempts, Admission!Arrive(a)
      PROVE  attempt'[b].step \in Admission!Steps \union {"arrived"}
  BY <1>1, <1>2 DEF Admission!Arrive, Admission!Arrived
<1>3. ASSUME NEW a \in Attempts, NEW step \in Admission!Steps, Admission!Goto(a, step)
      PROVE  attempt'[b].step \in Admission!Steps \union {"arrived"}
  BY <1>1, <1>3 DEF Admission!Goto, Admission!At
<1>4. ASSUME NEW p \in Processes, Admission!Crash(p)
      PROVE  attempt'[b].step \in Admission!Steps \union {"arrived"}
  BY <1>4 DEF AdmissionTypes, Admission!Crash, Admission!At, Admission!Steps
<1>5. CASE UNCHANGED attempt
  BY <1>5 DEF AdmissionTypes
<1>6. ASSUME NEW a \in Attempts,
             \/ Admission!throttle(a) \/ Admission!AcquireGate(a) \/ Admission!TryLocks(a)
             \/ Admission!Release(a) \/ Admission!LoseConnection(a)
      PROVE  \E step \in Admission!Steps : Admission!Goto(a, step)
  BY <1>6 DEF Admission!throttle, Admission!AcquireGate, Admission!TryLocks,
     Admission!Release, Admission!LoseConnection, Admission!Steps
<1>7. QED BY <1>2, <1>3, <1>4, <1>5, <1>6 DEF Admission!Next, Admission!vars, Admission!Tick

LEMMA AdmissionTypesStep ==
    SlotsInv /\ WindowsInv /\ AdmissionTypes /\ [Admission!Next]_(Admission!vars)
      => AdmissionTypes'
<1> SUFFICES ASSUME SlotsInv, WindowsInv, AdmissionTypes, [Admission!Next]_(Admission!vars)
             PROVE  AdmissionTypes'
  OBVIOUS
<1>1. ASSUME NEW k \in Admission!AllKeys
      PROVE  buckets'[k] \in Admission!AuthRateBucket \union {Admission!NoBucket}
  <2>1. CASE UNCHANGED buckets
    BY <2>1 DEF AdmissionTypes
  <2>2. QED BY <2>1, BucketTypes DEF Admission!Next, Admission!vars, Admission!Tick,
     Admission!Arrive, Admission!AcquireGate, Admission!TryLocks, Admission!Release,
     Admission!LoseConnection, Admission!Crash
<1>2. QED BY <1>1, GatesStayOpen, AttemptSteps DEF AdmissionTypes

LEMMA AdmissionTyped == SlotsInv /\ WindowsInv /\ AdmissionTypes => Admission!TypeOK
<1> SUFFICES ASSUME SlotsInv, WindowsInv, AdmissionTypes PROVE Admission!TypeOK
  OBVIOUS
<1>1. gate \in [Processes -> Nat]
  BY DEF AdmissionTypes
<1>2. ASSUME NEW p \in Processes PROVE gate[p] \in 0..Concurrency
  <2>1. PICK inside \in Nat : inside = Cardinality(Inside(p))
    BY InsideIsFinite
  <2>2. gate[p] = Concurrency - inside
    BY <2>1 DEF SlotsInv, GatesCount
  <2>3. QED BY <1>1, <2>1, <2>2, AdmissionAssumption
<1>3. QED BY <1>1, <1>2 DEF SlotsInv, LocksName, WindowsInv, AdmissionTypes, Admission!TypeOK,
                      Admission!Moments, Moments

AccessTyped == MembersInv /\ SlotsInv /\ WindowsInv /\ AdmissionTypes

(* Memberships and the requests about them, buckets, gates, locks and      *)
(* attempts keep their types, however processes crash and connections are  *)
(* lost: a gate never counts below zero nor above the concurrency          *)
(* (hash_slot of auth/native.py).                                          *)
THEOREM AccessTypes == Spec => [](component \in {"members", "admission"} => TypeOK)
<1>1. Init => AccessTyped
  BY MembersStart, SlotsStart, WindowsStart, AdmissionTypesStart DEF Init, AccessTyped
<1>2. AccessTyped /\ [Next]_vars => AccessTyped'
  BY MembersStep, MembersMove, SlotsStep, WindowsStep, AdmissionTypesStep, AdmissionMove
     DEF AccessTyped
<1>3. AccessTyped => (component \in {"members", "admission"} => TypeOK)
  <2> SUFFICES ASSUME AccessTyped, component \in {"members", "admission"} PROVE TypeOK
    OBVIOUS
  <2>1. Members!TypeOK /\ Admission!TypeOK
    BY AdmissionTyped DEF AccessTyped, MembersInv
  <2>2. QED BY <2>1 DEF TypeOK
<1>4. QED BY <1>1, <1>2, <1>3, PTL DEF Spec
=============================================================================
