-------------------------- MODULE NativeAuth_proofs --------------------------
(***************************************************************************)
(* Theorems about NativeAuth, for any number of users, requests and        *)
(* operators.  The inductive invariant says what the lock on a profile row *)
(* and the version check buy: at most one actor holds a user's row, what   *)
(* it read of the credential is still current, and what a login presented  *)
(* still names the user as long as the version has not moved.              *)
(***************************************************************************)
EXTENDS NativeAuth, FiniteSetTheorems, TLAPS

Holding == {"issuing", "replacing", "enrolling"}

(* Whoever is past its first read knows its user.                          *)
KnowsUser == \A a \in Actors : pc[a] \notin {"idle", "arrived"} => ctx[a].user \in Users

(* The row lock: one holder per user, and the version it saw stays.        *)
OneHolder ==
    \A a, b \in Actors :
        pc[a] \in Holding /\ pc[b] \in Holding /\ ctx[a].user = ctx[b].user => a = b
HolderIsCurrent ==
    \A a \in Actors : pc[a] \in Holding => ctx[a].version = credential[ctx[a].user].version

(* A login that carries the current version carries the current            *)
(* identifier and password; once it holds the row the user is enabled.     *)
Matches(c, cred) ==
    /\ c.version <= cred.version
    /\ c.version = cred.version => cred.login = c.login /\ cred.password = c.secret
LoginMatches ==
    \A a \in Actors : pc[a] \in {"login", "issuing"} => Matches(ctx[a], credential[ctx[a].user])
HolderIsEnabled ==
    \A a \in Actors : pc[a] = "issuing" => ctx[a].user \notin disabled

(* Idle expiry is always derived from the last use; a refresh moves it     *)
(* forward from the use that was read.                                     *)
IdleFollowsUse == \A s \in sessions : s.idle = Earliest(s.seen + IdleTicks, s.absolute)
RefreshIsLater == \A a \in Actors : pc[a] = "touching" => ctx[a].seen <= ctx[a].at

IInv ==
    /\ TypeOK /\ KnowsUser
    /\ OneHolder /\ HolderIsCurrent
    /\ LoginMatches /\ HolderIsEnabled
    /\ IdleFollowsUse /\ RefreshIsLater
    /\ UnrevokedSessionsAreCurrent /\ NoLostPasswordChange

-----------------------------------------------------------------------------
(* Lemmas about the operators.                                             *)

LEMMA EarliestBounds ==
    ASSUME NEW a \in Nat, NEW b \in Nat
    PROVE  Earliest(a, b) \in Nat /\ Earliest(a, b) <= a /\ Earliest(a, b) <= b
BY DEF Earliest

LEMMA RevokedFields ==
    ASSUME NEW s \in Session
    PROVE  /\ Revoked(s) \in Session
           /\ Revoked(s).id = s.id /\ Revoked(s).user = s.user
           /\ Revoked(s).version = s.version /\ Revoked(s).seen = s.seen
           /\ Revoked(s).idle = s.idle /\ Revoked(s).absolute = s.absolute
           /\ Revoked(s).revoked
BY DEF Revoked, Session

(* A refresh touches the last use and the idle expiry only.                *)
LEMMA SeenAtFields ==
    ASSUME NEW s \in Session, NEW now \in Nat
    PROVE  /\ SeenAt(s, now) \in Session
           /\ SeenAt(s, now).id = s.id /\ SeenAt(s, now).user = s.user
           /\ SeenAt(s, now).version = s.version /\ SeenAt(s, now).absolute = s.absolute
           /\ SeenAt(s, now).revoked = s.revoked /\ SeenAt(s, now).seen = now
           /\ SeenAt(s, now).idle = Earliest(now + IdleTicks, s.absolute)
<1>1. now + IdleTicks \in Nat /\ s.absolute \in Nat
  BY SettingsAssumption DEF Session
<1>2. Earliest(now + IdleTicks, s.absolute) \in Nat
  BY <1>1, EarliestBounds
<1>3. QED BY <1>2 DEF SeenAt, Session

LEMMA NoContextIsAContext == NoContext \in Context
BY DEF NoContext, Context

-----------------------------------------------------------------------------
(* A step that changes only one actor's place and context.                 *)
LEMMA ContextStep ==
    ASSUME IInv, NEW a \in Actors, NEW state \in ActorStates, NEW c \in Context,
           pc' = [pc EXCEPT ![a] = state], ctx' = [ctx EXCEPT ![a] = c],
           UNCHANGED <<credential, disabled, sessions, issued, clock, commits>>,
           enrollments' \in Nat,
           state \notin {"idle", "arrived"} => c.user \in Users,
           state \in Holding =>
              /\ c.version = credential[c.user].version
              /\ \A b \in Actors \ {a} : pc[b] \in Holding => ctx[b].user # c.user,
           state \in {"login", "issuing"} => Matches(c, credential[c.user]),
           state = "issuing" => c.user \notin disabled,
           state = "touching" => c.seen <= c.at
    PROVE  IInv'
<1>1. TypeOK'
  BY DEF IInv, TypeOK
<1>2. /\ pc'[a] = state /\ ctx'[a] = c
      /\ \A b \in Actors \ {a} : pc'[b] = pc[b] /\ ctx'[b] = ctx[b]
  BY DEF IInv, TypeOK
<1>3. KnowsUser' /\ RefreshIsLater'
  BY <1>2 DEF IInv, KnowsUser, RefreshIsLater
<1>4. OneHolder'
  BY <1>2 DEF IInv, OneHolder
<1>5. HolderIsCurrent'
  BY <1>2 DEF IInv, HolderIsCurrent
<1>6. LoginMatches' /\ HolderIsEnabled'
  BY <1>2 DEF IInv, LoginMatches, HolderIsEnabled, Matches
<1>7. IdleFollowsUse' /\ UnrevokedSessionsAreCurrent' /\ NoLostPasswordChange'
  BY DEF IInv, IdleFollowsUse, UnrevokedSessionsAreCurrent, NoLostPasswordChange
<1>8. QED BY <1>1, <1>3, <1>4, <1>5, <1>6, <1>7 DEF IInv

(* What Locked rules out.                                                  *)
LEMMA UnlockedMeansNoHolder ==
    ASSUME NEW u, ~Locked(u), NEW b \in Actors, pc[b] \in Holding
    PROVE  ctx[b].user # u
BY DEF Locked, Holding

-----------------------------------------------------------------------------
(* The invariant holds initially; the actions of logins and requests that  *)
(* write no row keep it.                                                   *)

LEMMA InitIInv == Init => IInv
<1> SUFFICES ASSUME Init PROVE IInv
  OBVIOUS
<1>1. TypeOK
  BY BoundsAssumption, NoContextIsAContext
  DEF Init, TypeOK, ActorStates, NoCredential, Credential
<1>2. KnowsUser /\ OneHolder /\ HolderIsCurrent /\ LoginMatches /\ HolderIsEnabled
  BY DEF Init, KnowsUser, OneHolder, HolderIsCurrent, LoginMatches, HolderIsEnabled, Holding
<1>3. IdleFollowsUse /\ RefreshIsLater /\ UnrevokedSessionsAreCurrent
  BY DEF Init, IdleFollowsUse, RefreshIsLater, UnrevokedSessionsAreCurrent
<1>4. NoLostPasswordChange
  BY DEF Init, NoLostPasswordChange, NoCredential
<1>5. QED BY <1>1, <1>2, <1>3, <1>4 DEF IInv

LEMMA DoneKeeps ==
    ASSUME IInv, NEW a \in Actors, Done(a),
           UNCHANGED <<credential, disabled, sessions, issued, clock, commits, enrollments>>
    PROVE  IInv'
<1>1. "idle" \in ActorStates /\ "idle" \notin Holding
  BY DEF ActorStates, Holding
<1>2. enrollments' \in Nat
  BY DEF IInv, TypeOK
<1>3. QED BY <1>1, <1>2, NoContextIsAContext, ContextStep DEF Done

LEMMA BeginLoginKeeps ==
    ASSUME IInv, NEW r \in Requests, NEW identifier \in Identifiers, NEW password \in Passwords,
           BeginLogin(r, identifier, password)
    PROVE  IInv'
<1>1. r \in Actors /\ "login" \in ActorStates \ Holding
  BY DEF Actors, ActorStates, Holding
<1>2. PICK u \in Users :
        /\ credential[u].login = identifier /\ credential[u].password = password
        /\ ctx' = [ctx EXCEPT ![r] =
             [user |-> u, login |-> identifier, secret |-> password,
              version |-> credential[u].version, session |-> 0, at |-> 0, seen |-> 0]]
  BY DEF BeginLogin
<1> DEFINE c == [user |-> u, login |-> identifier, secret |-> password,
                 version |-> credential[u].version, session |-> 0, at |-> 0, seen |-> 0]
<1>3. credential[u].version \in Nat /\ enrollments' \in Nat
  BY DEF BeginLogin, IInv, TypeOK, Credential
<1>4. c \in Context
  BY <1>3 DEF Context
<1>5. c.user = u /\ Matches(c, credential[c.user])
  BY <1>2, <1>3 DEF Matches
<1> HIDE DEF c
<1>6. pc' = [pc EXCEPT ![r] = "login"] /\ ctx' = [ctx EXCEPT ![r] = c]
  BY <1>2 DEF BeginLogin, c
<1>7. QED BY <1>1, <1>3, <1>4, <1>5, <1>6, ContextStep DEF BeginLogin

(* A locked recheck that only proceeds.                                    *)
LEMMA ProceedKeeps ==
    ASSUME IInv, NEW a \in Actors, NEW state \in ActorStates, Proceed(a, state),
           UNCHANGED <<credential, disabled, sessions, issued, clock, commits, enrollments>>,
           ctx[a].user \in Users,
           state \in Holding =>
              ~Locked(ctx[a].user) /\ ctx[a].version = credential[ctx[a].user].version,
           state \in {"login", "issuing"} => Matches(ctx[a], credential[ctx[a].user]),
           state = "issuing" => ctx[a].user \notin disabled,
           state # "touching"
    PROVE  IInv'
<1>1. ctx[a] \in Context /\ enrollments' \in Nat /\ ctx' = [ctx EXCEPT ![a] = ctx[a]]
  BY DEF IInv, TypeOK, Proceed
<1>2. state \in Holding =>
        \A b \in Actors \ {a} : pc[b] \in Holding => ctx[b].user # ctx[a].user
  BY UnlockedMeansNoHolder
<1>3. QED BY <1>1, <1>2, ContextStep DEF Proceed

LEMMA LockForLoginKeeps ==
    ASSUME IInv, NEW r \in Requests, LockForLogin(r) PROVE IInv'
<1>1. r \in Actors /\ "issuing" \in ActorStates
  BY DEF Actors, ActorStates
<1>2. CASE Done(r)
  BY <1>1, <1>2, DoneKeeps DEF LockForLogin
<1>3. CASE /\ Proceed(r, "issuing") /\ ctx[r].user \notin disabled
           /\ credential[ctx[r].user].version = ctx[r].version
  <2>1. ctx[r].user \in Users /\ Matches(ctx[r], credential[ctx[r].user])
    BY <1>1 DEF LockForLogin, IInv, KnowsUser, LoginMatches
  <2>2. QED BY <1>1, <1>3, <2>1, ProceedKeeps DEF LockForLogin
<1>4. QED BY <1>2, <1>3 DEF LockForLogin

LEMMA ArriveKeeps ==
    ASSUME IInv, NEW r \in Requests, NEW id \in Nat, Arrive(r, id) PROVE IInv'
<1> DEFINE c == [user |-> Nobody, login |-> Nobody, secret |-> Nobody,
                 version |-> 0, session |-> id, at |-> clock, seen |-> 0]
<1>1. r \in Actors /\ "arrived" \in ActorStates \ Holding
  BY DEF Actors, ActorStates, Holding
<1>2. c \in Context /\ enrollments' \in Nat
  BY DEF Arrive, IInv, TypeOK, Context
<1>3. pc' = [pc EXCEPT ![r] = "arrived"] /\ ctx' = [ctx EXCEPT ![r] = c]
  BY DEF Arrive
<1> HIDE DEF c
<1>4. QED BY <1>1, <1>2, <1>3, ContextStep DEF Arrive

LEMMA AuthenticateKeeps ==
    ASSUME IInv, NEW r \in Requests, Authenticate(r) PROVE IInv'
<1> DEFINE found == {s \in sessions : s.id = ctx[r].session /\ Live(s, ctx[r].at)}
           next(s) == IF s.seen + TouchTicks <= ctx[r].at THEN "touching" ELSE "signed_in"
           c(s) == [user |-> s.user, login |-> ctx[r].login, secret |-> ctx[r].secret,
                    version |-> ctx[r].version, session |-> ctx[r].session,
                    at |-> ctx[r].at, seen |-> s.seen]
<1>1. r \in Actors /\ {"touching", "signed_in"} \subseteq ActorStates \ Holding
  BY DEF Actors, ActorStates, Holding
<1>2. CASE Done(r)
  BY <1>1, <1>2, DoneKeeps DEF Authenticate
<1>3. ASSUME NEW s \in found, pc' = [pc EXCEPT ![r] = next(s)], ctx' = [ctx EXCEPT ![r] = c(s)]
      PROVE IInv'
  <2>1. s \in Session /\ ctx[r] \in Context /\ enrollments' \in Nat
    BY <1>1 DEF IInv, TypeOK, Authenticate
  <2>2. c(s) \in Context /\ c(s).user \in Users
    BY <2>1 DEF Context, Session
  <2>3. next(s) = "touching" => c(s).seen <= c(s).at
    BY <2>1, SettingsAssumption DEF Context, Session
  <2>4. next(s) \in {"touching", "signed_in"}
    OBVIOUS
  <2> HIDE DEF c, next
  <2>5. QED BY <1>1, <1>3, <2>1, <2>2, <2>3, <2>4, ContextStep DEF Authenticate
<1>4. Done(r) \/ \E s \in found : /\ pc' = [pc EXCEPT ![r] = next(s)]
                                /\ ctx' = [ctx EXCEPT ![r] = c(s)]
  <2>1. ctx \in [Actors -> Context]
    BY DEF IInv, TypeOK
  <2>2. QED BY <1>1, <2>1 DEF Authenticate
<1>5. QED BY <1>2, <1>3, <1>4

LEMMA BeginChangeKeeps ==
    ASSUME IInv, NEW r \in Requests, NEW replacement \in Passwords, BeginChange(r, replacement)
    PROVE  IInv'
<1> DEFINE c == [user |-> ctx[r].user, login |-> ctx[r].login, secret |-> replacement,
                 version |-> credential[ctx[r].user].version,
                 session |-> ctx[r].session, at |-> ctx[r].at, seen |-> ctx[r].seen]
<1>1. r \in Actors /\ "change" \in ActorStates \ Holding
  BY DEF Actors, ActorStates, Holding
<1>2. ctx[r].user \in Users /\ ctx[r] \in Context /\ enrollments' \in Nat
  BY <1>1 DEF BeginChange, IInv, TypeOK, KnowsUser
<1>3. credential[ctx[r].user].version \in Nat
  BY <1>2 DEF IInv, TypeOK, Credential
<1>4. c \in Context /\ c.user \in Users
  BY <1>2, <1>3 DEF Context
<1>5. pc' = [pc EXCEPT ![r] = "change"] /\ ctx' = [ctx EXCEPT ![r] = c]
  BY <1>1 DEF BeginChange, IInv, TypeOK
<1> HIDE DEF c
<1>6. QED BY <1>1, <1>2, <1>4, <1>5, ContextStep DEF BeginChange

LEMMA LockForChangeKeeps ==
    ASSUME IInv, NEW r \in Requests, LockForChange(r) PROVE IInv'
<1>1. r \in Actors /\ "replacing" \in ActorStates
  BY DEF Actors, ActorStates
<1>2. CASE Done(r)
  BY <1>1, <1>2, DoneKeeps DEF LockForChange
<1>3. CASE Proceed(r, "replacing") /\ MayReplace(r)
  <2>1. ctx[r].user \in Users
    BY <1>1 DEF LockForChange, IInv, KnowsUser
  <2>2. ctx[r].version = credential[ctx[r].user].version
    BY <1>3 DEF MayReplace, Live
  <2>3. QED BY <1>1, <1>3, <2>1, <2>2, ProceedKeeps DEF LockForChange
<1>4. QED BY <1>2, <1>3 DEF LockForChange

LEMMA BeginEnrollKeeps ==
    ASSUME IInv, NEW o \in Operators, NEW u \in Users, NEW identifier \in Identifiers,
           NEW password \in Passwords, NEW mode \in {"enroll", "reset"},
           BeginEnroll(o, u, identifier, password, mode)
    PROVE  IInv'
<1> DEFINE c == [user |-> u, login |-> identifier, secret |-> password,
                 version |-> 0, session |-> 0, at |-> 0, seen |-> 0]
<1>1. o \in Actors /\ {"enroll", "reset"} \subseteq ActorStates \ Holding
  BY DEF Actors, ActorStates, Holding
<1>2. c \in Context /\ c.user = u /\ enrollments' \in Nat
  BY DEF BeginEnroll, IInv, TypeOK, Context
<1>3. pc' = [pc EXCEPT ![o] = mode] /\ ctx' = [ctx EXCEPT ![o] = c]
  BY DEF BeginEnroll
<1> HIDE DEF c
<1>4. QED BY <1>1, <1>2, <1>3, ContextStep DEF BeginEnroll

LEMMA LockForEnrollKeeps ==
    ASSUME IInv, NEW o \in Operators, LockForEnroll(o) PROVE IInv'
<1> DEFINE c == [user |-> ctx[o].user, login |-> ctx[o].login, secret |-> ctx[o].secret,
                 version |-> credential[ctx[o].user].version,
                 session |-> ctx[o].session, at |-> ctx[o].at, seen |-> ctx[o].seen]
<1>1. o \in Actors /\ "enrolling" \in ActorStates
  BY DEF Actors, ActorStates
<1>2. CASE Done(o)
  BY <1>1, <1>2, DoneKeeps DEF LockForEnroll
<1>3. CASE ~Done(o)
  <2>1. ctx[o].user \in Users /\ ctx[o] \in Context /\ enrollments' \in Nat
    BY <1>1 DEF LockForEnroll, IInv, TypeOK, KnowsUser
  <2>2. credential[ctx[o].user].version \in Nat
    BY <2>1 DEF IInv, TypeOK, Credential
  <2>3. c \in Context /\ c.user = ctx[o].user /\ c.version = credential[c.user].version
    BY <2>1, <2>2 DEF Context
  <2>4. pc' = [pc EXCEPT ![o] = "enrolling"] /\ ctx' = [ctx EXCEPT ![o] = c]
    BY <1>1, <1>3 DEF LockForEnroll, IInv, TypeOK
  <2>5. \A b \in Actors \ {o} : pc[b] \in Holding => ctx[b].user # c.user
    BY <2>3, UnlockedMeansNoHolder DEF LockForEnroll
  <2> HIDE DEF c
  <2>6. QED BY <1>1, <2>1, <2>3, <2>4, <2>5, ContextStep DEF LockForEnroll
<1>4. QED BY <1>2, <1>3

-----------------------------------------------------------------------------
(* The actions that write rows keep it.                                    *)

(* A statement that rewrites sessions one by one, keeping what identifies  *)
(* them: no row appears, disappears or is shared.                          *)
LEMMA RewriteSessions ==
    ASSUME IInv, NEW f \in [sessions -> Session], sessions' = {f[s] : s \in sessions},
           issued' = issued,
           \A s \in sessions :
              /\ f[s].id = s.id /\ f[s].user = s.user
              /\ f[s].idle = Earliest(f[s].seen + IdleTicks, f[s].absolute)
    PROVE  /\ sessions' \subseteq Session
           /\ \A s, t \in sessions' : s.id = t.id => s = t
           /\ issued' \in Nat /\ \A s \in sessions' : s.id <= issued' /\ s.idle <= s.absolute
           /\ \A s \in sessions, t \in sessions' : s.id = t.id => t = f[s]
           /\ IdleFollowsUse'
<1>1. \A t \in sessions' : \E s \in sessions : t = f[s]
  OBVIOUS
<1>2. /\ sessions \subseteq Session /\ issued \in Nat
      /\ \A s, t \in sessions : s.id = t.id => s = t
      /\ \A s \in sessions : s.id <= issued
  BY DEF IInv, TypeOK
<1>3. ASSUME NEW s \in sessions PROVE f[s].id <= issued' /\ f[s].idle <= f[s].absolute
  <2>1. f[s] \in Session
    OBVIOUS
  <2>2. f[s].seen + IdleTicks \in Nat /\ f[s].absolute \in Nat
    BY <2>1, SettingsAssumption DEF Session
  <2>3. QED BY <1>2, <2>2, EarliestBounds
<1>4. ASSUME NEW s \in sessions, NEW t \in sessions', s.id = t.id PROVE t = f[s]
  BY <1>1, <1>2, <1>4
<1>5. \A s, t \in sessions' : s.id = t.id => s = t
  BY <1>1, <1>4
<1>6. IdleFollowsUse'
  BY <1>1 DEF IdleFollowsUse
<1>7. sessions' \subseteq Session /\ \A s \in sessions' : s.id <= issued' /\ s.idle <= s.absolute
  BY <1>1, <1>3
<1>8. QED BY <1>2, <1>4, <1>5, <1>6, <1>7

LEMMA RefreshedFields ==
    ASSUME IInv, NEW r \in Requests, NEW s \in sessions
    PROVE  /\ Refreshed(s, r) \in Session
           /\ Refreshed(s, r).id = s.id /\ Refreshed(s, r).user = s.user
           /\ Refreshed(s, r).version = s.version /\ Refreshed(s, r).revoked = s.revoked
           /\ Refreshed(s, r).idle
                = Earliest(Refreshed(s, r).seen + IdleTicks, Refreshed(s, r).absolute)
<1>1. s \in Session /\ ctx[r].at \in Nat
  BY DEF IInv, TypeOK, Actors, Context
<1>2. s.idle = Earliest(s.seen + IdleTicks, s.absolute)
  BY DEF IInv, IdleFollowsUse
<1>3. CASE Refreshed(s, r) = s
  BY <1>1, <1>2, <1>3
<1>4. CASE Refreshed(s, r) = SeenAt(s, ctx[r].at)
  BY <1>1, <1>4, SeenAtFields
<1>5. QED BY <1>3, <1>4 DEF Refreshed

LEMMA TouchKeeps ==
    ASSUME IInv, NEW r \in Requests, Touch(r) PROVE IInv'
<1> DEFINE f == [s \in sessions |-> Refreshed(s, r)]
<1>1. r \in Actors /\ "signed_in" \in ActorStates \ Holding
  BY DEF Actors, ActorStates, Holding
<1>2. f \in [sessions -> Session] /\ sessions' = {f[s] : s \in sessions}
  BY RefreshedFields DEF Touch
<1>3. \A s \in sessions :
        /\ f[s].id = s.id /\ f[s].user = s.user
        /\ f[s].version = s.version /\ f[s].revoked = s.revoked
        /\ f[s].idle = Earliest(f[s].seen + IdleTicks, f[s].absolute)
  BY RefreshedFields
<1>4. issued' = issued
  BY DEF Touch
<1> HIDE DEF f
<1>5. TypeOK' /\ IdleFollowsUse'
  BY <1>1, <1>2, <1>3, <1>4, RewriteSessions DEF Touch, Proceed, IInv, TypeOK
<1>6. UnrevokedSessionsAreCurrent'
  BY <1>2, <1>3 DEF Touch, IInv, UnrevokedSessionsAreCurrent
<1>7. pc'[r] = "signed_in" /\ \A b \in Actors \ {r} : pc'[b] = pc[b]
  BY <1>1 DEF Touch, Proceed, IInv, TypeOK
<1>8. KnowsUser' /\ OneHolder' /\ HolderIsCurrent' /\ LoginMatches' /\ HolderIsEnabled'
        /\ RefreshIsLater'
  <2>1. KnowsUser'
    BY <1>1, <1>7 DEF Touch, Proceed, IInv, KnowsUser
  <2>2. OneHolder'
    BY <1>1, <1>7 DEF Touch, Proceed, IInv, OneHolder
  <2>3. HolderIsCurrent' /\ LoginMatches' /\ HolderIsEnabled' /\ RefreshIsLater'
    BY <1>1, <1>7 DEF Touch, Proceed, IInv, Holding, HolderIsCurrent, LoginMatches,
                      HolderIsEnabled, RefreshIsLater
  <2>4. QED BY <2>1, <2>2, <2>3
<1>9. NoLostPasswordChange'
  BY DEF Touch, IInv, NoLostPasswordChange
<1>10. QED BY <1>5, <1>6, <1>8, <1>9 DEF IInv

(* Leaving the row: what the other actors rely on is untouched.            *)
LEMMA LeaveKeepsOthers ==
    ASSUME IInv, NEW a \in Actors, Done(a), credential' = credential, disabled' = disabled
    PROVE  /\ pc' \in [Actors -> ActorStates] /\ ctx' \in [Actors -> Context]
           /\ KnowsUser' /\ OneHolder' /\ HolderIsCurrent' /\ LoginMatches' /\ HolderIsEnabled'
           /\ RefreshIsLater'
<1>1. pc' \in [Actors -> ActorStates] /\ ctx' \in [Actors -> Context]
  BY NoContextIsAContext DEF Done, IInv, TypeOK, ActorStates
<1>2. pc'[a] = "idle" /\ \A b \in Actors \ {a} : pc'[b] = pc[b] /\ ctx'[b] = ctx[b]
  BY DEF Done, IInv, TypeOK
<1>3. KnowsUser'
  BY <1>2 DEF IInv, KnowsUser
<1>4. OneHolder' /\ HolderIsCurrent' /\ LoginMatches' /\ HolderIsEnabled' /\ RefreshIsLater'
  BY <1>2 DEF IInv, Holding, OneHolder, HolderIsCurrent, LoginMatches, HolderIsEnabled,
              RefreshIsLater
<1>5. QED BY <1>1, <1>3, <1>4

LEMMA LogoutKeeps ==
    ASSUME IInv, NEW r \in Requests, Logout(r) PROVE IInv'
<1> DEFINE f == [s \in sessions |->
                   IF s.id = ctx[r].session /\ s.user = ctx[r].user THEN Revoked(s) ELSE s]
<1>1. r \in Actors
  BY DEF Actors
<1>2. sessions \subseteq Session /\ IdleFollowsUse
  BY DEF IInv, TypeOK
<1>3. f \in [sessions -> Session] /\ sessions' = {f[s] : s \in sessions} /\ issued' = issued
  BY <1>2, RevokedFields DEF Logout
<1>4. \A s \in sessions :
        /\ f[s].id = s.id /\ f[s].user = s.user /\ f[s].version = s.version
        /\ f[s].idle = Earliest(f[s].seen + IdleTicks, f[s].absolute)
  BY <1>2, RevokedFields DEF IdleFollowsUse
<1>5. \A s \in sessions : s.revoked => f[s].revoked
  BY <1>2, RevokedFields
<1> HIDE DEF f
<1>6. /\ pc' \in [Actors -> ActorStates] /\ ctx' \in [Actors -> Context]
      /\ KnowsUser' /\ OneHolder' /\ HolderIsCurrent' /\ LoginMatches' /\ HolderIsEnabled'
      /\ RefreshIsLater'
  BY <1>1, LeaveKeepsOthers DEF Logout
<1>7. TypeOK' /\ IdleFollowsUse'
  <2>1. /\ sessions' \subseteq Session
        /\ \A s, t \in sessions' : s.id = t.id => s = t
        /\ issued' \in Nat /\ \A s \in sessions' : s.id <= issued' /\ s.idle <= s.absolute
        /\ IdleFollowsUse'
    BY <1>3, <1>4, RewriteSessions
  <2>2. QED BY <1>6, <2>1 DEF Logout, IInv, TypeOK
<1>8. UnrevokedSessionsAreCurrent'
  <2>1. ASSUME NEW t \in sessions', ~t.revoked PROVE t.version = credential'[t.user].version
    <3>1. PICK s \in sessions : t = f[s]
      BY <1>3
    <3>2. ~s.revoked
      BY <1>5, <2>1, <3>1
    <3>3. s.version = credential[s.user].version
      BY <3>2 DEF IInv, UnrevokedSessionsAreCurrent
    <3>4. QED BY <1>4, <3>1, <3>3 DEF Logout
  <2>2. QED BY <2>1 DEF UnrevokedSessionsAreCurrent
<1>9. NoLostPasswordChange'
  BY DEF Logout, IInv, NoLostPasswordChange
<1>10. QED BY <1>6, <1>7, <1>8, <1>9 DEF IInv

(* Issuing keeps a subset of the rows and adds one of a new rank, which    *)
(* carries the current version because the issuer holds the user's row.    *)
LEMMA IssueSessionKeeps ==
    ASSUME IInv, NEW r \in Requests, IssueSession(r) PROVE IInv'
<1> DEFINE new == NewSession(r)
<1>1. r \in Actors /\ pc[r] \in Holding /\ pc[r] \notin {"idle", "arrived"}
  BY DEF Actors, Holding, IssueSession
<1>2. /\ sessions \subseteq Session /\ issued \in Nat /\ clock \in Nat /\ ctx[r] \in Context
      /\ \A s \in sessions : s.id <= issued /\ s.idle <= s.absolute
      /\ \A s, t \in sessions : s.id = t.id => s = t
  BY <1>1 DEF IInv, TypeOK
<1>3. /\ ctx[r].user \in Users /\ ctx[r].version \in Nat
      /\ ctx[r].version = credential[ctx[r].user].version
  BY <1>1, <1>2 DEF IInv, KnowsUser, HolderIsCurrent, Context
<1>4. /\ new \in Session /\ new.id = issued + 1 /\ new.user = ctx[r].user
      /\ new.version = ctx[r].version /\ new.seen = clock
      /\ new.idle = clock + IdleTicks /\ new.absolute = clock + AbsoluteTicks
  BY <1>2, <1>3, SettingsAssumption DEF NewSession, Session
<1>5. new.idle <= new.absolute /\ new.idle = Earliest(new.seen + IdleTicks, new.absolute)
  BY <1>2, <1>4, SettingsAssumption DEF Earliest
<1>6. \A s \in sessions' : s \in sessions \/ s = new
  BY DEF IssueSession
<1> HIDE DEF new
<1>7. /\ pc' \in [Actors -> ActorStates] /\ ctx' \in [Actors -> Context]
      /\ KnowsUser' /\ OneHolder' /\ HolderIsCurrent' /\ LoginMatches' /\ HolderIsEnabled'
      /\ RefreshIsLater'
  BY <1>1, LeaveKeepsOthers DEF IssueSession
<1>8. issued' = issued + 1
  BY DEF IssueSession
<1>9. /\ sessions' \subseteq Session
      /\ \A s, t \in sessions' : s.id = t.id => s = t
      /\ \A s \in sessions' : s.id <= issued' /\ s.idle <= s.absolute
  <2>1. \A s \in sessions : s.id \in Nat
    BY <1>2 DEF Session
  <2>2. \A s \in sessions : s.id # new.id /\ s.id <= issued'
    BY <1>2, <1>4, <1>8, <2>1
  <2>3. new.id <= issued'
    BY <1>2, <1>4, <1>8
  <2>4. QED BY <1>2, <1>4, <1>5, <1>6, <2>2, <2>3
<1>10. TypeOK'
  BY <1>2, <1>7, <1>8, <1>9 DEF IssueSession, IInv, TypeOK
<1>11. IdleFollowsUse' /\ UnrevokedSessionsAreCurrent' /\ NoLostPasswordChange'
  BY <1>3, <1>4, <1>5, <1>6
  DEF IssueSession, IInv, IdleFollowsUse, UnrevokedSessionsAreCurrent, NoLostPasswordChange
<1>12. QED BY <1>7, <1>10, <1>11 DEF IInv

(* Writing a credential under the lock: the version grows by one, every    *)
(* session of the user is revoked, and no one else holds the row.          *)
LEMMA WriteCredentialKeeps ==
    ASSUME IInv, NEW a \in Actors, pc[a] \in Holding, NEW u \in Users, u = ctx[a].user, NEW cred \in Credential,
           cred.version = ctx[a].version + 1,
           credential' = [credential EXCEPT ![u] = cred],
           sessions' = RevokeAll(u),
           commits' = [commits EXCEPT ![u] = @ + 1],
           Done(a),
           UNCHANGED <<disabled, issued, clock>>, enrollments' \in Nat
    PROVE  IInv'
<1> DEFINE f == [s \in sessions |-> IF s.user = u THEN Revoked(s) ELSE s]
<1>1. /\ sessions \subseteq Session /\ credential \in [Users -> Credential]
      /\ commits \in [Users -> Nat] /\ IdleFollowsUse
  BY DEF IInv, TypeOK
<1>2. f \in [sessions -> Session] /\ sessions' = {f[s] : s \in sessions} /\ issued' = issued
  BY <1>1, RevokedFields DEF RevokeAll
<1>3. \A s \in sessions :
        /\ f[s].id = s.id /\ f[s].user = s.user /\ f[s].version = s.version
        /\ s.user = u => f[s].revoked
        /\ s.user # u => f[s] = s
        /\ f[s].idle = Earliest(f[s].seen + IdleTicks, f[s].absolute)
  BY <1>1, RevokedFields DEF IdleFollowsUse
<1> HIDE DEF f
<1>4. /\ pc'[a] = "idle" /\ pc' \in [Actors -> ActorStates] /\ ctx' \in [Actors -> Context]
      /\ \A b \in Actors \ {a} : pc'[b] = pc[b] /\ ctx'[b] = ctx[b]
  BY NoContextIsAContext DEF Done, IInv, TypeOK, ActorStates
<1>5. credential' \in [Users -> Credential] /\ commits' \in [Users -> Nat]
  BY <1>1
<1>6. TypeOK' /\ IdleFollowsUse'
  BY <1>2, <1>3, <1>4, <1>5, RewriteSessions DEF IInv, TypeOK
<1>7. KnowsUser' /\ OneHolder' /\ HolderIsEnabled' /\ RefreshIsLater'
  <2>1. KnowsUser'
    BY <1>4 DEF IInv, KnowsUser
  <2>2. QED BY <1>4, <2>1 DEF IInv, Holding, OneHolder, HolderIsEnabled, RefreshIsLater
<1>8. HolderIsCurrent'
  <2>1. \A b \in Actors \ {a} : pc[b] \in Holding => ctx[b].user # u
    BY DEF IInv, OneHolder
  <2>2. QED BY <1>1, <1>4, <2>1 DEF IInv, Holding, HolderIsCurrent
<1>9. credential[u].version \in Nat /\ cred.version = credential[u].version + 1
  BY <1>1 DEF IInv, HolderIsCurrent, Credential
<1>10. LoginMatches'
  <2>1. ASSUME NEW b \in Actors, pc'[b] \in {"login", "issuing"}
        PROVE  Matches(ctx'[b], credential'[ctx'[b].user])
    <3>1. b # a /\ pc[b] \in {"login", "issuing"} /\ ctx'[b] = ctx[b]
      BY <1>4, <2>1
    <3>2. Matches(ctx[b], credential[ctx[b].user]) /\ ctx[b] \in Context
      BY <3>1 DEF IInv, LoginMatches, TypeOK
    <3>3. CASE ctx[b].user = u
      <4>1. ctx[b].version \in Nat /\ ctx[b].version <= credential[u].version
        BY <3>2, <3>3 DEF Matches, Context
      <4>2. credential'[ctx'[b].user] = cred
        BY <1>1, <3>1, <3>3
      <4>3. ctx'[b].version < cred.version
        BY <1>9, <3>1, <4>1
      <4>4. QED BY <1>9, <3>1, <4>1, <4>2, <4>3 DEF Matches
    <3>4. CASE ctx[b].user # u
      BY <1>1, <3>1, <3>2, <3>4
    <3>5. QED BY <3>3, <3>4
  <2>2. QED BY <2>1 DEF LoginMatches
<1>11. UnrevokedSessionsAreCurrent'
  BY <1>1, <1>2, <1>3 DEF IInv, UnrevokedSessionsAreCurrent
<1>12. NoLostPasswordChange'
  BY <1>1, <1>9 DEF IInv, NoLostPasswordChange
<1>13. QED BY <1>6, <1>7, <1>8, <1>10, <1>11, <1>12 DEF IInv

LEMMA ReplacePasswordKeeps ==
    ASSUME IInv, NEW r \in Requests, ReplacePassword(r) PROVE IInv'
<1> DEFINE u == ctx[r].user
           cred == [login |-> credential[u].login, password |-> ctx[r].secret,
                    version |-> ctx[r].version + 1]
<1>1. r \in Actors /\ pc[r] \in Holding /\ u \in Users /\ ctx[r] \in Context
  BY DEF Actors, Holding, ReplacePassword, IInv, KnowsUser, TypeOK
<1>2. cred \in Credential /\ cred.version = ctx[r].version + 1 /\ enrollments' \in Nat
  BY <1>1 DEF IInv, TypeOK, Credential, Context, ReplacePassword
<1>3. credential' = [credential EXCEPT ![u] = cred]
  BY <1>1 DEF ReplacePassword, IInv, TypeOK
<1> HIDE DEF cred
<1>4. QED BY <1>1, <1>2, <1>3, WriteCredentialKeeps DEF ReplacePassword

LEMMA CommitEnrollKeeps ==
    ASSUME IInv, NEW o \in Operators, CommitEnroll(o) PROVE IInv'
<1> DEFINE u == ctx[o].user
           cred == [login |-> ctx[o].login, password |-> ctx[o].secret,
                    version |-> ctx[o].version + 1]
<1>1. o \in Actors /\ pc[o] \in Holding /\ u \in Users /\ ctx[o] \in Context
  BY DEF Actors, Holding, CommitEnroll, IInv, KnowsUser, TypeOK
<1>2. CASE UNCHANGED <<credential, sessions, commits>>
  BY <1>1, <1>2, DoneKeeps DEF CommitEnroll
<1>3. CASE ~UNCHANGED <<credential, sessions, commits>>
  <2>1. cred \in Credential /\ cred.version = ctx[o].version + 1 /\ enrollments' \in Nat
    BY <1>1 DEF IInv, TypeOK, Credential, Context, CommitEnroll
  <2>2. credential' = [credential EXCEPT ![u] = cred]
    BY <1>3 DEF CommitEnroll
  <2> HIDE DEF cred
  <2>3. QED BY <1>1, <1>3, <2>1, <2>2, WriteCredentialKeeps DEF CommitEnroll
<1>4. QED BY <1>2, <1>3

LEMMA DisableUserKeeps ==
    ASSUME IInv, NEW u \in Users, DisableUser(u) PROVE IInv'
<1>1. TypeOK'
  BY DEF DisableUser, IInv, TypeOK
<1>2. \A b \in Actors : pc[b] = "issuing" => ctx[b].user # u
  BY UnlockedMeansNoHolder DEF DisableUser, Holding
<1>3. HolderIsEnabled'
  BY <1>2 DEF DisableUser, IInv, HolderIsEnabled
<1>4. KnowsUser' /\ OneHolder' /\ HolderIsCurrent' /\ LoginMatches' /\ RefreshIsLater'
  BY DEF DisableUser, IInv, KnowsUser, OneHolder, HolderIsCurrent, LoginMatches, RefreshIsLater
<1>5. IdleFollowsUse' /\ UnrevokedSessionsAreCurrent' /\ NoLostPasswordChange'
  BY DEF DisableUser, IInv, IdleFollowsUse, UnrevokedSessionsAreCurrent, NoLostPasswordChange
<1>6. QED BY <1>1, <1>3, <1>4, <1>5 DEF IInv

LEMMA TickKeeps ==
    ASSUME IInv, Tick \/ UNCHANGED vars PROVE IInv'
<1>1. TypeOK'
  BY DEF Tick, vars, IInv, TypeOK
<1>2. /\ KnowsUser' /\ OneHolder' /\ HolderIsCurrent' /\ LoginMatches' /\ HolderIsEnabled'
      /\ RefreshIsLater'
  BY DEF Tick, vars, IInv, KnowsUser, OneHolder, HolderIsCurrent, LoginMatches,
         HolderIsEnabled, RefreshIsLater
<1>3. IdleFollowsUse' /\ UnrevokedSessionsAreCurrent' /\ NoLostPasswordChange'
  BY DEF Tick, vars, IInv, IdleFollowsUse, UnrevokedSessionsAreCurrent, NoLostPasswordChange
<1>4. QED BY <1>1, <1>2, <1>3 DEF IInv

LEMMA StepKeeps == IInv /\ [Next]_vars => IInv'
<1> SUFFICES ASSUME IInv, [Next]_vars PROVE IInv'
  OBVIOUS
<1>1. ASSUME NEW r \in Requests, LoginStep(r) PROVE IInv'
  BY <1>1, BeginLoginKeeps, LockForLoginKeeps, IssueSessionKeeps DEF LoginStep
<1>2. ASSUME NEW r \in Requests, SessionStep(r) PROVE IInv'
  <2>1. ASSUME NEW id \in 1..MaxIssued, Arrive(r, id) PROVE IInv'
    BY <2>1, ArriveKeeps
  <2>2. CASE Serve(r)
    BY <2>2, DoneKeeps DEF Serve, Actors
  <2>3. QED BY <1>2, <2>1, <2>2, AuthenticateKeeps, TouchKeeps, LogoutKeeps DEF SessionStep
<1>3. ASSUME NEW r \in Requests, ChangeStep(r) PROVE IInv'
  BY <1>3, BeginChangeKeeps, LockForChangeKeeps, ReplacePasswordKeeps DEF ChangeStep
<1>4. ASSUME NEW o \in Operators, EnrollStep(o) PROVE IInv'
  BY <1>4, BeginEnrollKeeps, LockForEnrollKeeps, CommitEnrollKeeps DEF EnrollStep
<1>5. QED BY <1>1, <1>2, <1>3, <1>4, DisableUserKeeps, TickKeeps DEF Next

-----------------------------------------------------------------------------
(* The theorems.                                                           *)

THEOREM Invariance == Spec => []IInv
<1>1. QED BY InitIInv, StepKeeps, PTL DEF Spec

(* Every row and context keeps its type, session ids stay distinct and no  *)
(* refresh moves the idle expiry past the absolute one (authenticate).     *)
THEOREM TypeSafety == Spec => []TypeOK
<1>1. IInv => TypeOK
  BY DEF IInv
<1>2. QED BY Invariance, <1>1, PTL

(* After any interleaving of logins, changes and resets an unrevoked       *)
(* session carries the current credential version (login, change_password, *)
(* enroll).                                                                *)
THEOREM NoStaleSession == Spec => []UnrevokedSessionsAreCurrent
<1>1. IInv => UnrevokedSessionsAreCurrent
  BY DEF IInv
<1>2. QED BY Invariance, <1>1, PTL

(* No committed password change is overwritten unseen (change_password,    *)
(* enroll).                                                                *)
THEOREM EveryChangeCounts == Spec => []NoLostPasswordChange
<1>1. IInv => NoLostPasswordChange
  BY DEF IInv
<1>2. QED BY Invariance, <1>1, PTL

(* Only a logout, a change and a reset touch the revocation of a row, and  *)
(* only to set it; a new row has a rank no earlier row had.                *)
LEMMA RevocationStep == IInv /\ [Next]_vars =>
    [\A s \in sessions, t \in sessions' : (s.id = t.id /\ s.revoked) => t.revoked]_vars
<1> SUFFICES ASSUME IInv, [Next]_vars, NEW s \in sessions, NEW t \in sessions',
                    s.id = t.id, s.revoked
             PROVE  t.revoked
  OBVIOUS
<1>1. \A a, b \in sessions : a.id = b.id => a = b
  BY DEF IInv, TypeOK
<1>2. CASE sessions' = sessions
  BY <1>1, <1>2
<1>3. ASSUME NEW r \in Requests, IssueSession(r) PROVE t.revoked
  <2>1. t \in sessions \/ t = NewSession(r)
    BY <1>3 DEF IssueSession
  <2>2. NewSession(r).id = issued + 1 /\ s.id <= issued /\ s.id \in Nat /\ issued \in Nat
    BY DEF NewSession, IInv, TypeOK, Session
  <2>3. QED BY <1>1, <2>1, <2>2
<1>4. ASSUME NEW r \in Requests, Touch(r) PROVE t.revoked
  <2>1. PICK q \in sessions : t = Refreshed(q, r)
    BY <1>4 DEF Touch
  <2>2. QED BY <1>1, <2>1, RefreshedFields
<1>5. ASSUME NEW u, sessions' = RevokeAll(u) PROVE t.revoked
  <2>1. PICK q \in sessions : t = IF q.user = u THEN Revoked(q) ELSE q
    BY <1>5 DEF RevokeAll
  <2>2. q \in Session
    BY DEF IInv, TypeOK
  <2>3. QED BY <1>1, <2>1, <2>2, RevokedFields
<1>6. ASSUME NEW r \in Requests, Logout(r) PROVE t.revoked
  <2>1. PICK q \in sessions :
          t = IF q.id = ctx[r].session /\ q.user = ctx[r].user THEN Revoked(q) ELSE q
    BY <1>6 DEF Logout
  <2>2. q \in Session
    BY DEF IInv, TypeOK
  <2>3. QED BY <1>1, <2>1, <2>2, RevokedFields
<1>7. ASSUME NEW r \in Requests, LoginStep(r) PROVE t.revoked
  BY <1>2, <1>3, <1>7 DEF LoginStep, BeginLogin, LockForLogin
<1>8. ASSUME NEW r \in Requests, SessionStep(r) PROVE t.revoked
  BY <1>2, <1>4, <1>6, <1>8 DEF SessionStep, Arrive, Authenticate, Serve
<1>9. ASSUME NEW r \in Requests, ChangeStep(r) PROVE t.revoked
  BY <1>2, <1>5, <1>9 DEF ChangeStep, BeginChange, LockForChange, ReplacePassword
<1>10. ASSUME NEW o \in Operators, EnrollStep(o) PROVE t.revoked
  BY <1>2, <1>5, <1>10 DEF EnrollStep, BeginEnroll, LockForEnroll, CommitEnroll
<1>11. QED BY <1>2, <1>7, <1>8, <1>9, <1>10 DEF Next, DisableUser, Tick, vars

(* A session once revoked by a logout, a change or a reset stays revoked,  *)
(* whatever refresh was already on its way (authenticate).                 *)
THEOREM RevocationHolds == Spec => RevocationIsFinal
<1>1. QED BY Invariance, RevocationStep, PTL DEF Spec, RevocationIsFinal

(* A session is committed only for the enabled user who still holds the    *)
(* identifier with the password that was verified earlier (login).         *)
THEOREM IssuedOnlyToHolder == Spec => IssuedToHolder
<1>1. ASSUME IInv, NEW r \in Requests, pc[r] = "issuing"
      PROVE  /\ credential[ctx[r].user].login = ctx[r].login
             /\ credential[ctx[r].user].password = ctx[r].secret
             /\ ctx[r].user \notin disabled
  <2>1. r \in Actors /\ "issuing" \in Holding
    BY DEF Actors, Holding
  <2>2. ctx[r].version = credential[ctx[r].user].version /\ ctx[r].user \notin disabled
    BY <1>1, <2>1 DEF IInv, HolderIsCurrent, HolderIsEnabled
  <2>3. Matches(ctx[r], credential[ctx[r].user])
    BY <1>1, <2>1 DEF IInv, LoginMatches
  <2>4. QED BY <2>2, <2>3 DEF Matches
<1>2. IInv =>
        [\A r \in Requests :
           (pc[r] = "issuing" /\ issued' # issued /\ pc'[r] = "idle")
              => LET u == ctx[r].user IN
                   /\ credential[u].login = ctx[r].login
                   /\ credential[u].password = ctx[r].secret
                   /\ u \notin disabled]_vars
  BY <1>1
<1>3. QED BY Invariance, <1>2, PTL DEF IssuedToHolder

(* The refresh looks at the use it read, so it never goes back in time.    *)
LEMMA RefreshNeverShortens ==
    ASSUME IInv, NEW r \in Requests, pc[r] = "touching", NEW s \in sessions
    PROVE  s.idle <= Refreshed(s, r).idle
<1>1. /\ s \in Session /\ ctx[r].at \in Nat /\ ctx[r].seen <= ctx[r].at
      /\ s.idle = Earliest(s.seen + IdleTicks, s.absolute)
  BY DEF IInv, TypeOK, Actors, Context, RefreshIsLater, IdleFollowsUse
<1>2. s.seen \in Nat /\ s.absolute \in Nat /\ s.idle \in Nat
  BY <1>1 DEF Session
<1>3. CASE Refreshed(s, r) = s
  BY <1>2, <1>3
<1>4. CASE Refreshed(s, r) = SeenAt(s, ctx[r].at) /\ s.seen = ctx[r].seen
  <2>1. SeenAt(s, ctx[r].at).idle = Earliest(ctx[r].at + IdleTicks, s.absolute)
    BY <1>1, SeenAtFields
  <2>2. Earliest(s.seen + IdleTicks, s.absolute) <= Earliest(ctx[r].at + IdleTicks, s.absolute)
    BY <1>1, <1>2, <1>4, SettingsAssumption DEF Earliest
  <2>3. QED BY <1>1, <1>4, <2>1, <2>2
<1>5. QED BY <1>3, <1>4 DEF Refreshed

LEMMA UseStep == IInv /\ [Next]_vars =>
    [\A s \in sessions, t \in sessions' : s.id = t.id => s.idle <= t.idle]_vars
<1> SUFFICES ASSUME IInv, [Next]_vars, NEW s \in sessions, NEW t \in sessions', s.id = t.id
             PROVE  s.idle <= t.idle
  OBVIOUS
<1>1. /\ \A a, b \in sessions : a.id = b.id => a = b
      /\ s \in Session /\ s.idle \in Nat
  BY DEF IInv, TypeOK, Session
<1>2. CASE sessions' = sessions
  BY <1>1, <1>2
<1>3. ASSUME NEW r \in Requests, IssueSession(r) PROVE s.idle <= t.idle
  <2>1. t \in sessions \/ t = NewSession(r)
    BY <1>3 DEF IssueSession
  <2>2. NewSession(r).id = issued + 1 /\ s.id <= issued /\ s.id \in Nat /\ issued \in Nat
    BY DEF NewSession, IInv, TypeOK, Session
  <2>3. QED BY <1>1, <2>1, <2>2
<1>4. ASSUME NEW r \in Requests, Touch(r) PROVE s.idle <= t.idle
  <2>1. PICK q \in sessions : t = Refreshed(q, r)
    BY <1>4 DEF Touch
  <2>2. q = s
    BY <1>1, <2>1, RefreshedFields
  <2>3. QED BY <1>4, <2>1, <2>2, RefreshNeverShortens DEF Touch
<1>5. ASSUME NEW q \in sessions, t = q \/ t = Revoked(q) PROVE s.idle <= t.idle
  <2>1. q \in Session
    BY DEF IInv, TypeOK
  <2>2. q = s /\ t.idle = q.idle
    BY <1>1, <1>5, <2>1, RevokedFields
  <2>3. QED BY <1>1, <2>2
<1>6. ASSUME NEW u, sessions' = RevokeAll(u) PROVE s.idle <= t.idle
  BY <1>5, <1>6 DEF RevokeAll
<1>7. ASSUME NEW r \in Requests, Logout(r) PROVE s.idle <= t.idle
  BY <1>5, <1>7 DEF Logout
<1>8. ASSUME NEW r \in Requests, LoginStep(r) PROVE s.idle <= t.idle
  BY <1>2, <1>3, <1>8 DEF LoginStep, BeginLogin, LockForLogin
<1>9. ASSUME NEW r \in Requests, SessionStep(r) PROVE s.idle <= t.idle
  BY <1>2, <1>4, <1>7, <1>9 DEF SessionStep, Arrive, Authenticate, Serve
<1>10. ASSUME NEW r \in Requests, ChangeStep(r) PROVE s.idle <= t.idle
  BY <1>2, <1>6, <1>10 DEF ChangeStep, BeginChange, LockForChange, ReplacePassword
<1>11. ASSUME NEW o \in Operators, EnrollStep(o) PROVE s.idle <= t.idle
  BY <1>2, <1>6, <1>11 DEF EnrollStep, BeginEnroll, LockForEnroll, CommitEnroll
<1>12. QED BY <1>2, <1>8, <1>9, <1>10, <1>11 DEF Next, DisableUser, Tick, vars

(* Concurrent refreshes, in whatever order they commit, never bring the    *)
(* end of a session nearer (authenticate).                                 *)
THEOREM UseExtends == Spec => UseNeverShortensSession
<1>1. QED BY Invariance, UseStep, PTL DEF Spec, UseNeverShortensSession

-----------------------------------------------------------------------------
(* The number of rows.                                                     *)

SessionsOf(u, rows) == {s \in rows : s.user = u}
Few(rows) ==
    /\ IsFiniteSet(rows)
    /\ \A u \in Users : Cardinality(SessionsOf(u, rows)) <= SessionLimit
FewSessions == IsFiniteSet(sessions) /\ SessionsBounded

(* A statement that rewrites rows one by one, leaving them to their users, *)
(* does not add to anyone's.                                               *)
LEMMA RewritingAddsNoRow ==
    ASSUME FewSessions, NEW rows, NEW f \in Surjection(sessions, rows),
           \A s \in sessions : f[s].user = s.user
    PROVE  Few(rows)
<1>1. IsFiniteSet(sessions) /\ IsFiniteSet(rows)
  BY FS_Surjection DEF FewSessions
<1>2. ASSUME NEW u \in Users PROVE Cardinality(SessionsOf(u, rows)) <= SessionLimit
  <2> DEFINE before == SessionsOf(u, sessions)
             after == SessionsOf(u, rows)
             g == [s \in before |-> f[s]]
  <2>1. g \in Surjection(before, after)
    BY DEF Surjection, SessionsOf
  <2>2. before \subseteq sessions /\ after \subseteq rows
    BY DEF SessionsOf
  <2>3. Cardinality(before) <= SessionLimit
    BY DEF SessionsOf, FewSessions, SessionsBounded
  <2> HIDE DEF before, after, g
  <2>4. IsFiniteSet(before) /\ IsFiniteSet(after)
    BY <1>1, <2>2, FS_Subset
  <2>5. Cardinality(after) <= Cardinality(before)
    BY <2>1, <2>4, FS_Surjection
  <2>6. Cardinality(after) \in Nat /\ Cardinality(before) \in Nat
    BY <2>4, FS_CardinalityType
  <2>7. QED BY <2>3, <2>5, <2>6, SettingsAssumption DEF after
<1>3. QED BY <1>1, <1>2 DEF Few

(* The new row replaces the oldest ones, of its user; nobody else gets one. *)
LEMMA IssuingReplacesRows ==
    ASSUME IInv, FewSessions, NEW r \in Requests, IssueSession(r) PROVE FewSessions'
<1> DEFINE unexpired == {s \in sessions : s.absolute > clock}
           mine == {s \in unexpired : s.user = ctx[r].user}
           new == NewSession(r)
<1>1. PICK kept \in SUBSET mine :
        /\ Cardinality(kept) <= SessionLimit - 1
        /\ sessions' = (unexpired \ mine) \union kept \union {new}
  BY DEF IssueSession, KeepsNewest
<1>2. new.user = ctx[r].user
  BY DEF NewSession
<1>3. ((unexpired \ mine) \union kept) \subseteq sessions
  OBVIOUS
<1> HIDE DEF new
<1>4. IsFiniteSet((unexpired \ mine) \union kept)
  BY <1>3, FS_Subset DEF FewSessions
<1>5. IsFiniteSet(sessions')
  BY <1>1, <1>4, FS_AddElement
<1>6. ASSUME NEW u \in Users PROVE Cardinality(SessionsOf(u, sessions')) <= SessionLimit
  <2>1. CASE u = ctx[r].user
    <3>1. SessionsOf(u, sessions') = kept \union {new}
      BY <1>1, <1>2, <2>1 DEF SessionsOf
    <3>2. kept \subseteq sessions
      OBVIOUS
    <3>3. IsFiniteSet(kept)
      BY <3>2, FS_Subset DEF FewSessions
    <3>4. Cardinality(kept) \in Nat
      BY <3>3, FS_CardinalityType
    <3>5. Cardinality(kept \union {new}) \in {Cardinality(kept), Cardinality(kept) + 1}
      BY <3>3, FS_AddElement
    <3>6. Cardinality(kept) <= SessionLimit - 1
      BY <1>1
    <3>7. Cardinality(kept \union {new}) <= SessionLimit
      <4>1. \A m \in Nat : m <= SessionLimit - 1 =>
              \A n \in {m, m + 1} : n <= SessionLimit
        BY SettingsAssumption
      <4>2. QED BY <3>4, <3>5, <3>6, <4>1, Zenon
    <3>8. QED BY <3>1, <3>7, Zenon
  <2>2. CASE u # ctx[r].user
    <3> DEFINE before == SessionsOf(u, sessions)
               after == SessionsOf(u, sessions')
    <3>1. after \subseteq before
      BY <1>1, <1>2, <2>2 DEF SessionsOf
    <3>2. before \subseteq sessions
      BY DEF SessionsOf
    <3>3. Cardinality(before) <= SessionLimit
      BY DEF SessionsOf, FewSessions, SessionsBounded
    <3> HIDE DEF before, after
    <3>4. IsFiniteSet(before)
      BY <3>2, FS_Subset DEF FewSessions
    <3>5. IsFiniteSet(after) /\ Cardinality(after) <= Cardinality(before)
      BY <3>1, <3>4, FS_Subset
    <3>6. Cardinality(after) \in Nat /\ Cardinality(before) \in Nat
      BY <3>4, <3>5, FS_CardinalityType
    <3>7. QED BY <3>3, <3>5, <3>6, SettingsAssumption DEF after
  <2>3. QED BY <2>1, <2>2
<1>7. QED BY <1>5, <1>6 DEF FewSessions, SessionsBounded, SessionsOf

LEMMA RewriteKeepsFew ==
    ASSUME FewSessions, NEW f, DOMAIN f = sessions, f = [s \in sessions |-> f[s]],
           sessions' = {f[s] : s \in sessions}, \A s \in sessions : f[s].user = s.user
    PROVE  FewSessions'
<1>1. PICK rows : rows = sessions'
  OBVIOUS
<1>2. f \in Surjection(sessions, rows)
  BY <1>1 DEF Surjection
<1>3. \A s \in sessions : f[s].user = s.user
  OBVIOUS
<1>4. Few(rows)
  BY <1>2, <1>3, RewritingAddsNoRow
<1>5. QED BY <1>1, <1>4 DEF Few, FewSessions, SessionsBounded, SessionsOf

LEMMA FewStaysFew == IInv /\ FewSessions /\ [Next]_vars => FewSessions'
<1> SUFFICES ASSUME IInv, FewSessions, [Next]_vars PROVE FewSessions'
  OBVIOUS
<1>1. \A s \in sessions : s \in Session
  BY DEF IInv, TypeOK
<1>2. CASE sessions' = sessions
  BY <1>2 DEF FewSessions, SessionsBounded
<1>3. ASSUME NEW r \in Requests, Touch(r) PROVE FewSessions'
  <2> DEFINE f == [s \in sessions |-> Refreshed(s, r)]
  <2>1. sessions' = {f[s] : s \in sessions} /\ DOMAIN f = sessions /\ f = [s \in sessions |-> f[s]]
    BY <1>3 DEF Touch
  <2>2. \A s \in sessions : f[s].user = s.user
    BY RefreshedFields
  <2> HIDE DEF f
  <2>3. QED BY <2>1, <2>2, RewriteKeepsFew
<1>4. ASSUME NEW u, sessions' = RevokeAll(u) PROVE FewSessions'
  <2> DEFINE f == [s \in sessions |-> IF s.user = u THEN Revoked(s) ELSE s]
  <2>1. sessions' = {f[s] : s \in sessions} /\ DOMAIN f = sessions /\ f = [s \in sessions |-> f[s]]
    BY <1>4 DEF RevokeAll
  <2>2. \A s \in sessions : f[s].user = s.user
    BY <1>1, RevokedFields
  <2> HIDE DEF f
  <2>3. QED BY <2>1, <2>2, RewriteKeepsFew
<1>5. ASSUME NEW r \in Requests, Logout(r) PROVE FewSessions'
  <2> DEFINE f == [s \in sessions |->
                     IF s.id = ctx[r].session /\ s.user = ctx[r].user THEN Revoked(s) ELSE s]
  <2>1. sessions' = {f[s] : s \in sessions} /\ DOMAIN f = sessions /\ f = [s \in sessions |-> f[s]]
    BY <1>5 DEF Logout
  <2>2. \A s \in sessions : f[s].user = s.user
    BY <1>1, RevokedFields
  <2> HIDE DEF f
  <2>3. QED BY <2>1, <2>2, RewriteKeepsFew
<1>6. ASSUME NEW r \in Requests, LoginStep(r) PROVE FewSessions'
  BY <1>2, <1>6, IssuingReplacesRows DEF LoginStep, BeginLogin, LockForLogin
<1>7. ASSUME NEW r \in Requests, SessionStep(r) PROVE FewSessions'
  BY <1>2, <1>3, <1>5, <1>7 DEF SessionStep, Arrive, Authenticate, Serve
<1>8. ASSUME NEW r \in Requests, ChangeStep(r) PROVE FewSessions'
  BY <1>2, <1>4, <1>8 DEF ChangeStep, BeginChange, LockForChange, ReplacePassword
<1>9. ASSUME NEW o \in Operators, EnrollStep(o) PROVE FewSessions'
  BY <1>2, <1>4, <1>9 DEF EnrollStep, BeginEnroll, LockForEnroll, CommitEnroll
<1>10. QED BY <1>2, <1>6, <1>7, <1>8, <1>9 DEF Next, DisableUser, Tick, vars

(* However many logins of a user run at once, the row lock and the cleanup *)
(* of each leave no more rows than the limit (login).                      *)
THEOREM FewSessionsEach == Spec => []SessionsBounded
<1>1. Init => FewSessions
  <2>1. Init => SessionsBounded
    <3>1. ASSUME Init, NEW u \in Users PROVE Cardinality({s \in sessions : s.user = u}) <= SessionLimit
      <4>1. {s \in sessions : s.user = u} = {}
        BY <3>1 DEF Init
      <4>2. QED BY <4>1, FS_EmptySet, SettingsAssumption
    <3>2. QED BY <3>1 DEF SessionsBounded
  <2>2. QED BY <2>1, FS_EmptySet DEF FewSessions, Init
<1>2. FewSessions => SessionsBounded
  BY DEF FewSessions
<1>3. QED BY Invariance, FewStaysFew, <1>1, <1>2, PTL DEF Spec
=============================================================================
