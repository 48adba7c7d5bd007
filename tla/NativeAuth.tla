----------------------------- MODULE NativeAuth -----------------------------
(***************************************************************************)
(* Local credentials and opaque sessions: packages/auth/native.py, called  *)
(* by apps/api/routers/native_auth.py, by the get_principal dependency of  *)
(* every request and by scripts/enroll_native_user.py.                     *)
(*                                                                         *)
(* login, change_password and enroll each read what they need, hash with   *)
(* no transaction open, and then write in a second transaction that first  *)
(* locks the user's profile row (SELECT ... FOR UPDATE) and rechecks the   *)
(* credential version.  authenticate takes no lock: it reads the session,  *)
(* the credential and the profile in one statement, and refreshes the idle *)
(* expiry with one conditional UPDATE.  logout is one UPDATE.              *)
(*                                                                         *)
(* A wrong password, an unknown identifier or a refused token changes no   *)
(* row but the audit log, and throttling and hash slots only refuse: these *)
(* endings are left out.  Time is counted in ticks.                        *)
(***************************************************************************)
EXTENDS Integers, FiniteSets

CONSTANTS
    Users,          \* rows of user_profiles
    Identifiers,    \* normalized login identifiers
    Passwords,      \* passwords (a hash stands for its password)
    Requests,       \* concurrent API requests
    Operators,      \* concurrent runs of the enrollment script
    Nobody,         \* a field that is not set
    SessionLimit,   \* session rows kept per user: 10
    IdleTicks,      \* settings.auth_idle_seconds
    AbsoluteTicks,  \* settings.auth_absolute_seconds
    TouchTicks,     \* settings.auth_touch_seconds
    MaxTime,        \* bound on the clock
    MaxIssued,      \* bound on sessions issued
    MaxEnrollments  \* bound on runs of the enrollment script

Actors == Requests \union Operators

ASSUME ActorsAssumption == Requests \intersect Operators = {}
ASSUME NobodyAssumption == Nobody \notin Users \union Identifiers \union Passwords
ASSUME SettingsAssumption ==
    /\ SessionLimit \in Nat \ {0}
    /\ IdleTicks \in Nat \ {0} /\ AbsoluteTicks \in Nat \ {0} /\ TouchTicks \in Nat \ {0}
    /\ IdleTicks <= AbsoluteTicks
ASSUME BoundsAssumption ==
    MaxTime \in Nat /\ MaxIssued \in Nat /\ MaxEnrollments \in Nat

VARIABLES
    credential,   \* committed native_credentials row of each user
    disabled,     \* users whose profile has is_disabled set
    sessions,     \* committed native_sessions rows
    issued,       \* sessions issued so far: the next row's rank by issued_at
    clock,        \* utc_now()
    pc,           \* where each actor is
    ctx,          \* what each actor has read or was given
    commits,      \* history: password hashes committed for each user
    enrollments   \* enrollment runs left

vars == <<credential, disabled, sessions, issued, clock, pc, ctx, commits, enrollments>>

NoCredential == [login |-> Nobody, password |-> Nobody, version |-> 0]
NoContext == [user |-> Nobody, login |-> Nobody, secret |-> Nobody,
              version |-> 0, session |-> 0, at |-> 0, seen |-> 0]

Credential == [login: Identifiers \union {Nobody}, password: Passwords \union {Nobody}, version: Nat]
Session == [id: Nat, user: Users, version: Nat, seen: Nat, idle: Nat, absolute: Nat,
            revoked: BOOLEAN]
Context == [user: Users \union {Nobody}, login: Identifiers \union {Nobody},
            secret: Passwords \union {Nobody}, version: Nat, session: Nat, at: Nat, seen: Nat]
ActorStates == {"idle", "login", "issuing", "arrived", "touching", "signed_in",
                "change", "replacing", "enroll", "reset", "enrolling"}

(* Types of the state.  A session's idle expiry never passes its absolute  *)
(* one, and no two rows share an id.                                       *)
TypeOK ==
    /\ credential \in [Users -> Credential]
    /\ disabled \subseteq Users
    /\ sessions \subseteq Session
    /\ \A s, t \in sessions : s.id = t.id => s = t
    /\ issued \in Nat /\ \A s \in sessions : s.id <= issued /\ s.idle <= s.absolute
    /\ clock \in Nat
    /\ pc \in [Actors -> ActorStates]
    /\ ctx \in [Actors -> Context]
    /\ commits \in [Users -> Nat]
    /\ enrollments \in Nat

-----------------------------------------------------------------------------
Earliest(a, b) == IF a <= b THEN a ELSE b
Enrolled(u) == credential[u].version > 0

(* Who has locked the profile row of u until it commits.                   *)
Locked(u) ==
    \E a \in Actors : pc[a] \in {"issuing", "replacing", "enrolling"} /\ ctx[a].user = u

(* The test of authenticate and change_password, at a given time.          *)
Live(s, now) ==
    /\ ~s.revoked /\ s.idle > now /\ s.absolute > now
    /\ credential[s.user].version = s.version
    /\ s.user \notin disabled

Revoked(s) ==
    [id |-> s.id, user |-> s.user, version |-> s.version, seen |-> s.seen,
     idle |-> s.idle, absolute |-> s.absolute, revoked |-> TRUE]
RevokeAll(u) == {IF s.user = u THEN Revoked(s) ELSE s : s \in sessions}

Done(a) ==
    /\ pc' = [pc EXCEPT ![a] = "idle"]
    /\ ctx' = [ctx EXCEPT ![a] = NoContext]

Proceed(a, state) == pc' = [pc EXCEPT ![a] = state] /\ UNCHANGED ctx

Init ==
    /\ credential = [u \in Users |-> NoCredential]
    /\ disabled = {}
    /\ sessions = {} /\ issued = 0
    /\ clock = 0
    /\ pc = [a \in Actors |-> "idle"]
    /\ ctx = [a \in Actors |-> NoContext]
    /\ commits = [u \in Users |-> 0]
    /\ enrollments = MaxEnrollments

-----------------------------------------------------------------------------
(* POST /auth/login.                                                       *)

(* The first transaction reads the credential of the identifier, and the   *)
(* password presented matches the hash that was read.                      *)
BeginLogin(r, identifier, password) ==
    /\ pc[r] = "idle" /\ issued < MaxIssued
    /\ \E u \in Users :
         /\ Enrolled(u) /\ credential[u].login = identifier /\ credential[u].password = password
         /\ ctx' = [ctx EXCEPT ![r] =
              [user |-> u, login |-> identifier, secret |-> password,
               version |-> credential[u].version, session |-> 0, at |-> 0, seen |-> 0]]
    /\ pc' = [pc EXCEPT ![r] = "login"]
    /\ UNCHANGED <<credential, disabled, sessions, issued, clock, commits, enrollments>>

(* Faulty variant: the credential is not read again under the lock.        *)
LockForLoginUnchecked(r) ==
    /\ pc[r] = "login" /\ ~Locked(ctx[r].user)
    /\ IF ctx[r].user \in disabled THEN Done(r) ELSE Proceed(r, "issuing")
    /\ UNCHANGED <<credential, disabled, sessions, issued, clock, commits, enrollments>>

(* The second transaction locks the profile and rechecks the version.      *)
LockForLogin(r) ==
    /\ pc[r] = "login" /\ ~Locked(ctx[r].user)
    /\ IF ctx[r].user \in disabled \/ credential[ctx[r].user].version # ctx[r].version
         THEN Done(r) ELSE Proceed(r, "issuing")
    /\ UNCHANGED <<credential, disabled, sessions, issued, clock, commits, enrollments>>

NewSession(r) ==
    [id |-> issued + 1, user |-> ctx[r].user, version |-> ctx[r].version,
     seen |-> clock, idle |-> clock + IdleTicks, absolute |-> clock + AbsoluteTicks,
     revoked |-> FALSE]

(* Faulty variant: one row too many survives.                              *)
KeepsOneTooMany(kept, mine) ==
    /\ \A s \in kept, t \in mine \ kept : s.id > t.id
    /\ kept = mine \/ Cardinality(kept) = SessionLimit
    /\ Cardinality(kept) <= SessionLimit

(* kept are the newest rows of mine, all that fit beside a new one.        *)
KeepsNewest(kept, mine) ==
    /\ \A s \in kept, t \in mine \ kept : s.id > t.id
    /\ kept = mine \/ Cardinality(kept) = SessionLimit - 1
    /\ Cardinality(kept) <= SessionLimit - 1

(* It deletes every expired row and the user's oldest rows, adds the new   *)
(* one and commits.                                                        *)
IssueSession(r) ==
    /\ pc[r] = "issuing" /\ issued < MaxIssued
    /\ LET unexpired == {s \in sessions : s.absolute > clock}
           mine      == {s \in unexpired : s.user = ctx[r].user}
       IN \E kept \in SUBSET mine :
            /\ KeepsNewest(kept, mine)
            /\ sessions' = (unexpired \ mine) \union kept \union {NewSession(r)}
    /\ issued' = issued + 1
    /\ Done(r)
    /\ UNCHANGED <<credential, disabled, clock, commits, enrollments>>

-----------------------------------------------------------------------------
(* Every authenticated request: get_principal, then its handler.           *)

(* authenticate takes the time before it opens its transaction.            *)
Arrive(r, id) ==
    /\ pc[r] = "idle"
    /\ id \in 1..issued
    /\ pc' = [pc EXCEPT ![r] = "arrived"]
    /\ ctx' = [ctx EXCEPT ![r] = [user |-> Nobody, login |-> Nobody, secret |-> Nobody,
                                     version |-> 0, session |-> id, at |-> clock, seen |-> 0]]
    /\ UNCHANGED <<credential, disabled, sessions, issued, clock, commits, enrollments>>

(* The joined read: the token is refused, or the request is signed in,     *)
(* possibly after a refresh of the idle expiry.                            *)
Authenticate(r) ==
    /\ pc[r] = "arrived"
    /\ LET found == {s \in sessions : s.id = ctx[r].session /\ Live(s, ctx[r].at)} IN
         \/ found = {} /\ Done(r)
         \/ \E s \in found :
              /\ pc' = [pc EXCEPT ![r] =
                          IF s.seen + TouchTicks <= ctx[r].at THEN "touching" ELSE "signed_in"]
              /\ ctx' = [ctx EXCEPT ![r] =
                   [user |-> s.user, login |-> @.login, secret |-> @.secret, version |-> @.version,
                    session |-> @.session, at |-> @.at, seen |-> s.seen]]
    /\ UNCHANGED <<credential, disabled, sessions, issued, clock, commits, enrollments>>

(* Faulty variant: an active session never ends.                           *)
SeenAtUncapped(s, now) ==
    [id |-> s.id, user |-> s.user, version |-> s.version, seen |-> now,
     idle |-> now + IdleTicks, absolute |-> s.absolute, revoked |-> s.revoked]

(* Idle expiry slides, but never past the absolute expiry.                 *)
SeenAt(s, now) ==
    [id |-> s.id, user |-> s.user, version |-> s.version, seen |-> now,
     idle |-> Earliest(now + IdleTicks, s.absolute), absolute |-> s.absolute,
     revoked |-> s.revoked]

(* Faulty variant: the refresh does not look at last_seen_at again.        *)
RefreshedBlindly(s, r) ==
    IF s.id = ctx[r].session /\ ~s.revoked /\ s.idle > ctx[r].at
      THEN SeenAt(s, ctx[r].at)
      ELSE s

(* Faulty variant: the refresh writes the row as it was read.              *)
TouchWholeRow(r) ==
    /\ pc[r] = "touching"
    /\ sessions' = {IF s.id = ctx[r].session
                      THEN [SeenAt(s, ctx[r].at) EXCEPT !.revoked = FALSE]
                      ELSE s : s \in sessions}
    /\ Proceed(r, "signed_in")
    /\ UNCHANGED <<credential, disabled, issued, clock, commits, enrollments>>

(* The conditional UPDATE of last_seen_at and idle_expires_at.             *)
Refreshed(s, r) ==
    IF /\ s.id = ctx[r].session /\ s.seen = ctx[r].seen
       /\ ~s.revoked /\ s.idle > ctx[r].at
      THEN SeenAt(s, ctx[r].at)
      ELSE s

Touch(r) ==
    /\ pc[r] = "touching"
    /\ sessions' = {Refreshed(s, r) : s \in sessions}
    /\ Proceed(r, "signed_in")
    /\ UNCHANGED <<credential, disabled, issued, clock, commits, enrollments>>

(* Any other handler runs under the identity found.                        *)
Serve(r) ==
    /\ pc[r] = "signed_in"
    /\ Done(r)
    /\ UNCHANGED <<credential, disabled, sessions, issued, clock, commits, enrollments>>

(* POST /auth/logout.                                                      *)
Logout(r) ==
    /\ pc[r] = "signed_in"
    /\ sessions' = {IF s.id = ctx[r].session /\ s.user = ctx[r].user
                      THEN Revoked(s) ELSE s : s \in sessions}
    /\ Done(r)
    /\ UNCHANGED <<credential, disabled, issued, clock, commits, enrollments>>

-----------------------------------------------------------------------------
(* POST /auth/password.                                                    *)

(* The current password presented matches the hash read here.              *)
BeginChange(r, replacement) ==
    /\ pc[r] = "signed_in"
    /\ Enrolled(ctx[r].user)
    /\ pc' = [pc EXCEPT ![r] = "change"]
    /\ ctx' = [ctx EXCEPT ![r] =
         [user |-> @.user, login |-> @.login, secret |-> replacement,
          version |-> credential[@.user].version,
          session |-> @.session, at |-> @.at, seen |-> @.seen]]
    /\ UNCHANGED <<credential, disabled, sessions, issued, clock, commits, enrollments>>

MayReplace(r) ==
    \E s \in sessions :
        /\ s.id = ctx[r].session /\ s.user = ctx[r].user /\ s.version = ctx[r].version
        /\ Live(s, clock)

(* Faulty variant: the profile is read without FOR UPDATE.                 *)
ReadForChange(r) ==
    /\ pc[r] = "change"
    /\ IF MayReplace(r) THEN Proceed(r, "replacing") ELSE Done(r)
    /\ UNCHANGED <<credential, disabled, sessions, issued, clock, commits, enrollments>>

LockForChange(r) ==
    /\ pc[r] = "change" /\ ~Locked(ctx[r].user)
    /\ IF MayReplace(r) THEN Proceed(r, "replacing") ELSE Done(r)
    /\ UNCHANGED <<credential, disabled, sessions, issued, clock, commits, enrollments>>

ReplacePassword(r) ==
    /\ pc[r] = "replacing"
    /\ LET u == ctx[r].user IN
         /\ credential' = [credential EXCEPT ![u] =
              [login |-> @.login, password |-> ctx[r].secret, version |-> ctx[r].version + 1]]
         /\ sessions' = RevokeAll(u)
         /\ commits' = [commits EXCEPT ![u] = @ + 1]
    /\ Done(r)
    /\ UNCHANGED <<disabled, issued, clock, enrollments>>

-----------------------------------------------------------------------------
(* scripts/enroll_native_user.py, with and without --reset.                *)

BeginEnroll(o, u, identifier, password, mode) ==
    /\ pc[o] = "idle" /\ enrollments > 0
    /\ enrollments' = enrollments - 1
    /\ pc' = [pc EXCEPT ![o] = mode]
    /\ ctx' = [ctx EXCEPT ![o] =
         [user |-> u, login |-> identifier, secret |-> password,
          version |-> 0, session |-> 0, at |-> 0, seen |-> 0]]
    /\ UNCHANGED <<credential, disabled, sessions, issued, clock, commits>>

TakenByAnother(o) ==
    \E v \in Users \ {ctx[o].user} : Enrolled(v) /\ credential[v].login = ctx[o].login

LockForEnroll(o) ==
    /\ pc[o] \in {"enroll", "reset"} /\ ~Locked(ctx[o].user)
    /\ LET u == ctx[o].user IN
         IF u \notin disabled /\ ~TakenByAnother(o) /\ (Enrolled(u) <=> pc[o] = "reset")
           THEN /\ pc' = [pc EXCEPT ![o] = "enrolling"]
                /\ ctx' = [ctx EXCEPT ![o] =
                     [user |-> @.user, login |-> @.login, secret |-> @.secret,
                      version |-> credential[u].version,
                      session |-> @.session, at |-> @.at, seen |-> @.seen]]
           ELSE Done(o)
    /\ UNCHANGED <<credential, disabled, sessions, issued, clock, commits, enrollments>>

(* Faulty variant: a reset keeps the version.                              *)
CommitEnrollSameVersion(o) ==
    /\ pc[o] = "enrolling" /\ ~TakenByAnother(o)
    /\ LET u == ctx[o].user IN
         /\ credential' = [credential EXCEPT ![u] =
              [login |-> ctx[o].login, password |-> ctx[o].secret,
               version |-> IF Enrolled(u) THEN ctx[o].version ELSE 1]]
         /\ sessions' = RevokeAll(u)
         /\ commits' = [commits EXCEPT ![u] = @ + 1]
    /\ Done(o)
    /\ UNCHANGED <<disabled, issued, clock, enrollments>>

(* The write.  The unique index on login refuses an identifier that        *)
(* another run has committed since the check.                              *)
CommitEnroll(o) ==
    /\ pc[o] = "enrolling"
    /\ \/ /\ TakenByAnother(o)
          /\ UNCHANGED <<credential, sessions, commits>>
       \/ /\ ~TakenByAnother(o)
          /\ LET u == ctx[o].user IN
               /\ credential' = [credential EXCEPT ![u] =
                    [login |-> ctx[o].login, password |-> ctx[o].secret,
                     version |-> ctx[o].version + 1]]
               /\ sessions' = RevokeAll(u)
               /\ commits' = [commits EXCEPT ![u] = @ + 1]
    /\ Done(o)
    /\ UNCHANGED <<disabled, issued, clock, enrollments>>

-----------------------------------------------------------------------------
(* An administrator disables a profile in the database.                    *)
DisableUser(u) ==
    /\ u \notin disabled /\ ~Locked(u)
    /\ disabled' = disabled \union {u}
    /\ UNCHANGED <<credential, sessions, issued, clock, pc, ctx, commits, enrollments>>

Tick ==
    /\ clock < MaxTime
    /\ clock' = clock + 1
    /\ UNCHANGED <<credential, disabled, sessions, issued, pc, ctx, commits, enrollments>>

LoginStep(r) ==
    \/ \E identifier \in Identifiers, password \in Passwords : BeginLogin(r, identifier, password)
    \/ LockForLogin(r) \/ IssueSession(r)

SessionStep(r) ==
    \/ \E id \in 1..MaxIssued : Arrive(r, id)
    \/ Authenticate(r) \/ Touch(r) \/ Serve(r) \/ Logout(r)

ChangeStep(r) ==
    \/ \E replacement \in Passwords : BeginChange(r, replacement)
    \/ LockForChange(r) \/ ReplacePassword(r)

EnrollStep(o) ==
    \/ \E u \in Users, identifier \in Identifiers, password \in Passwords,
          mode \in {"enroll", "reset"} : BeginEnroll(o, u, identifier, password, mode)
    \/ LockForEnroll(o) \/ CommitEnroll(o)

Next ==
    \/ \E r \in Requests : LoginStep(r) \/ SessionStep(r) \/ ChangeStep(r)
    \/ \E o \in Operators : EnrollStep(o)
    \/ \E u \in Users : DisableUser(u)
    \/ Tick

Spec == Init /\ [][Next]_vars

-----------------------------------------------------------------------------
(* Properties.                                                             *)

(* A password change or reset revokes all sessions of the user, including  *)
(* those a login with the old password was about to add: every session     *)
(* that is not revoked carries the current credential version.             *)
(* Docs: "password change/reset increments the credential version and      *)
(* revokes all sessions for that user".                                    *)
UnrevokedSessionsAreCurrent ==
    \A s \in sessions : ~s.revoked => s.version = credential[s.user].version

(* However many logins of a user run at once, no more than the allowed     *)
(* number of rows exist.  Docs: "At most ten session rows per user survive *)
(* successful-login cleanup".                                              *)
SessionsBounded ==
    \A u \in Users : Cardinality({s \in sessions : s.user = u}) <= SessionLimit

(* No committed password is lost: the version counts every hash that was   *)
(* committed, so of two changes from the same version one is refused.      *)
NoLostPasswordChange ==
    \A u \in Users : credential[u].version = commits[u]

(* A session is issued only to the user who holds the identifier with the  *)
(* password presented at the moment it is committed, although both were    *)
(* checked in an earlier transaction.                                      *)
IssuedToHolder ==
    [][\A r \in Requests :
         (pc[r] = "issuing" /\ issued' # issued /\ pc'[r] = "idle")
            => LET u == ctx[r].user IN
                 /\ credential[u].login = ctx[r].login
                 /\ credential[u].password = ctx[r].secret
                 /\ u \notin disabled]_vars

(* A session once revoked stays so: no late refresh revives it.            *)
RevocationIsFinal ==
    [][\A s \in sessions, t \in sessions' : (s.id = t.id /\ s.revoked) => t.revoked]_vars

(* Using a session never brings its end nearer, whatever order concurrent  *)
(* refreshes commit in.                                                    *)
UseNeverShortensSession ==
    [][\A s \in sessions, t \in sessions' : s.id = t.id => s.idle <= t.idle]_vars
=============================================================================
