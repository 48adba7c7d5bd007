-------------------------- MODULE WorkspaceMembers --------------------------
(***************************************************************************)
(* The members of workspaces (apps/api/routers/identity) and the roles     *)
(* that authorize a request (packages/security/authorization), on          *)
(* PostgreSQL at READ COMMITTED: every select of a request sees what is    *)
(* committed when it runs, and no row is locked before the final flush.    *)
(*                                                                         *)
(* A request to change a member makes up to three selects: its own role,   *)
(* the member, and the number of owners if it demotes one.  A session maps *)
(* a row to one object and does not refresh it, so that a request about    *)
(* its own membership decides on the role its first select read.           *)
(*                                                                         *)
(* Invitations are rows that nothing reads, and are left out: members come *)
(* with a workspace of their own or by hand (Enlist).                      *)
(***************************************************************************)
EXTENDS Integers, FiniteSets

CONSTANTS
    Users,        \* profiles
    Workspaces,   \* slugs
    Requests      \* concurrent requests

VARIABLES
    slugs,        \* slugs of the rows of workspaces
    roles,        \* workspace_memberships: the role of each user, or "none"
    visit         \* what each request has read and will write

vars == <<slugs, roles, visit>>

Roles == {"owner", "admin", "member", "viewer"}

Permissions ==
    [owner  |-> {"workspace.read", "workspace.update", "members.manage", "audit.read"},
     admin  |-> {"workspace.read", "workspace.update", "members.manage", "audit.read"},
     member |-> {"workspace.read"},
     viewer |-> {"workspace.read"},
     none   |-> {}]

allows(role, permission) == permission \in Permissions[role]

(* delete_member, or update_member to a role.                              *)
Operations == {"delete"} \union Roles

NoVisit == [step |-> "idle"]
Visit ==
    [step : {"authorized", "counting", "ready"}, workspace : Workspaces, op : Operations,
     target : Users, seen : Roles \union {"unread"}, owners : 0..Cardinality(Users)]

TypeOK ==
    /\ slugs \subseteq Workspaces
    /\ roles \in [Workspaces -> [Users -> Roles \union {"none"}]]
    /\ visit \in [Requests -> Visit \union {NoVisit}]

Init ==
    /\ slugs = {}
    /\ roles = [w \in Workspaces |-> [u \in Users |-> "none"]]
    /\ visit = [r \in Requests |-> NoVisit]

Owners(w) == {u \in Users : roles[w][u] = "owner"}
End(r) == visit' = [visit EXCEPT ![r] = NoVisit]

(* The slug is unique: a second insert fails.  The owner's membership      *)
(* commits with the workspace.                                             *)
create_workspace(u, w) ==
    /\ w \notin slugs
    /\ slugs' = slugs \union {w}
    /\ roles' = [roles EXCEPT ![w][u] = "owner"]
    /\ UNCHANGED visit

(* A membership inserted by an operator, as the staging script does.       *)
Enlist(u, w, role) ==
    /\ w \in slugs /\ roles[w][u] = "none"
    /\ roles' = [roles EXCEPT ![w][u] = role]
    /\ UNCHANGED <<slugs, visit>>

(* _require_workspace_permission; the membership it loads stays in the     *)
(* session.                                                                *)
Authorize(r, u, w, op, t) ==
    /\ visit[r] = NoVisit
    /\ allows(roles[w][u], "members.manage")
    /\ visit' = [visit EXCEPT ![r] =
                   [step |-> "authorized", workspace |-> w, op |-> op, target |-> t,
                    seen |-> IF t = u THEN roles[w][u] ELSE "unread", owners |-> 0]]
    /\ UNCHANGED <<slugs, roles>>

(* The select of the member: 404 if the row is gone, 409 for the removal   *)
(* of an owner, and a count before the demotion of one.                    *)
LoadMember(r) ==
    /\ visit[r].step = "authorized"
    /\ LET v == visit[r]
           row == roles[v.workspace][v.target]
           seen == IF v.seen = "unread" THEN row ELSE v.seen
       IN  IF row = "none" \/ (v.op = "delete" /\ seen = "owner")
           THEN End(r)
           ELSE visit' = [visit EXCEPT
                            ![r].seen = seen,
                            ![r].step = IF seen = "owner" /\ v.op # "owner"
                                        THEN "counting" ELSE "ready"]
    /\ UNCHANGED <<slugs, roles>>

(* A defect: the count is compared with zero.                              *)
CountOwnersOffByOne(r) ==
    /\ visit[r].step = "counting"
    /\ LET n == Cardinality(Owners(visit[r].workspace))
       IN  IF n = 0 THEN End(r)
           ELSE visit' = [visit EXCEPT ![r].owners = n, ![r].step = "ready"]
    /\ UNCHANGED <<slugs, roles>>

(* "A workspace must retain an owner".                                     *)
CountOwners(r) ==
    /\ visit[r].step = "counting"
    /\ LET n == Cardinality(Owners(visit[r].workspace))
       IN  IF n = 1 THEN End(r)
           ELSE visit' = [visit EXCEPT ![r].owners = n, ![r].step = "ready"]
    /\ UNCHANGED <<slugs, roles>>

(* The flush: a role that did not change is not written, an UPDATE of a    *)
(* deleted row fails the request, a DELETE of one does nothing.            *)
Commit(r) ==
    /\ visit[r].step = "ready"
    /\ End(r)
    /\ LET v == visit[r]
           row == roles[v.workspace][v.target]
           new == CASE v.op = "delete" -> "none"
                    [] v.op = v.seen \/ row = "none" -> row
                    [] OTHER -> v.op
       IN  roles' = [roles EXCEPT ![v.workspace][v.target] = new]
    /\ UNCHANGED slugs

(* The request ends without its commit.                                    *)
Abandon(r) ==
    /\ visit[r] # NoVisit
    /\ End(r)
    /\ UNCHANGED <<slugs, roles>>

Next ==
    \/ \E u \in Users, w \in Workspaces : create_workspace(u, w)
    \/ \E u \in Users, w \in Workspaces, role \in Roles : Enlist(u, w, role)
    \/ \E r \in Requests, u \in Users, w \in Workspaces, op \in Operations, t \in Users :
         Authorize(r, u, w, op, t)
    \/ \E r \in Requests : LoadMember(r) \/ CountOwners(r) \/ Commit(r) \/ Abandon(r)

Spec == Init /\ [][Next]_vars

-----------------------------------------------------------------------------
(* Properties.                                                             *)

(* What update_member promises: "A workspace must retain an owner".  Two   *)
(* demotions that both count two owners break it.                          *)
WorkspacesRetainAnOwner == [][\A w \in Workspaces : Owners(w) # {} => Owners(w)' # {}]_vars

(* A request that took the member for an owner counts the owners; what it  *)
(* is about to write was decided on a count, or else on a role, that is no *)
(* longer that of the rows.                                                *)
DecidedOnStaleRows(v) ==
    IF v.seen = "owner" THEN v.owners # Cardinality(Owners(v.workspace))
    ELSE roles[v.workspace][v.target] # v.seen

(* Comparisons of update_member and delete_member: one request at a time   *)
(* cannot take the last owner of a workspace.  If one is lost, another     *)
(* request changed the number of owners after it was counted, or made the  *)
(* member an owner after the member was read.                              *)
LastOwnerLeavesOnStaleReadsOnly ==
    [][\A w \in Workspaces : Owners(w) # {} /\ Owners(w)' = {} =>
         \E r \in Requests : /\ visit[r].step = "ready" /\ visit'[r] = NoVisit
                             /\ visit[r].workspace = w
                             /\ DecidedOnStaleRows(visit[r])]_vars
=============================================================================
