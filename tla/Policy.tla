------------------------------- MODULE Policy -------------------------------
(***************************************************************************)
(* The policy engines of crates/dandori-policy/src/lib.rs: a matrix from   *)
(* actions to roles, and the older list of allowed capabilities.  Both     *)
(* look at the workspace before they look at rights, and deny what they    *)
(* do not know.                                                            *)
(***************************************************************************)
CONSTANT None   \* no subject

Roles   == {"owner", "member", "viewer", "worker"}
Actions == {"workspace.read", "issue.create", "issue.read", "issue.update",
            "project.read"}

DenyReasons == {"authz_missing_subject", "authz_cross_tenant", "authz_missing_role"}

\* RoleMatrixPolicy::standard
Standard ==
    [a \in Actions |-> IF a \in {"issue.create", "issue.update"}
                       THEN {"owner", "member"}
                       ELSE {"owner", "member", "viewer"}]

\* RoleMatrixPolicy::with_override replaces the roles of one action.
WithOverride(matrix, action, roles) ==
    [a \in DOMAIN matrix \union {action} |-> IF a = action THEN roles ELSE matrix[a]]

\* RoleMatrixPolicy::evaluate, its last question
Grants(matrix, subject, action) ==
    action \in DOMAIN matrix /\ subject.roles \intersect matrix[action] # {}

\* What both engines do around that question.
Evaluate(subject, workspace, granted) ==
    CASE subject = None -> "authz_missing_subject"
      [] subject # None /\ subject.workspace # workspace  -> "authz_cross_tenant"
      [] subject # None /\ subject.workspace = workspace /\ granted -> "allow"
      [] OTHER                                            -> "authz_missing_role"

EvaluateMatrix(matrix, subject, action, workspace) ==
    Evaluate(subject, workspace, Grants(matrix, subject, action))

\* CapabilityAllowList::evaluate; an action's capability is its name.
EvaluateAllowList(allowed, subject, action, workspace) ==
    Evaluate(subject, workspace, action \in allowed)

\* A policy is one engine with its data; the service holds one for its life.
Decide(policy, subject, action, workspace) ==
    IF policy.engine = "matrix"
    THEN EvaluateMatrix(policy.grants, subject, action, workspace)
    ELSE EvaluateAllowList(policy.grants, subject, action, workspace)
=============================================================================
