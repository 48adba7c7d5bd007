SPECIFICATION Spec
CONSTANTS
    Users = {u1, u2}
    Workspaces = {w1}
    Requests = {r1, r2}
PROPERTIES WorkspacesRetainAnOwner
CHECK_DEADLOCK FALSE
