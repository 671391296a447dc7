----------------------------- MODULE Catalogue -----------------------------
(***************************************************************************)
(* The permission catalogue (src/src/authz/catalogue.ts) and the default   *)
(* roles that compose it (src/src/authz/roles.ts).  An action is a pair of *)
(* the resource type it operates on and a verb.                            *)
(***************************************************************************)
EXTENDS Naturals

On(resource, verbs) == {resource} \X verbs

(* Widest first: a grant at one level conveys at every level after it.     *)
ScopeLevels == <<"organization", "team", "project", "environment", "resource">>
Depth(level) == CHOOSE i \in 1..5 : ScopeLevels[i] = level

PeopleActions ==
    On("organization", {"read", "update", "delete", "transfer_ownership",
                        "manage_sso", "manage_security_policy"})
    \cup On("team", {"read", "create", "update", "delete", "manage_members"})
    \cup On("member", {"read", "invite", "remove", "revoke_sessions",
                       "reset_password", "reset_two_factor"})
    \cup On("role", {"read", "create", "update", "delete"})

CredentialActions ==
    On("grant", {"read", "create", "revoke", "break_glass"})
    \cup On("service_identity", {"read", "create", "delete"})
    \cup On("api_token", {"manage_own", "read_any", "revoke_any"})
    \cup On("project", {"read", "create", "update", "delete"})
    \cup On("environment", {"read", "create", "update", "delete"})

SiteActions ==
    On("site", {"read", "create", "update", "delete", "restart",
                "build_command.write", "run_command", "read_logs",
                "read_metrics", "manage_runtime", "manage_resource_limits",
                "manage_deploy_triggers"})
    \cup On("release", {"read", "delete"})
    \cup On("deployment", {"read", "read_logs", "cancel",
                           "create_nonproduction", "create_production",
                           "rollback_nonproduction", "rollback_production"})

ServiceActions ==
    On("secret", {"read_name", "read_value", "create", "update", "delete",
                  "read_history"})
    \cup On("domain", {"read", "create", "delete"})
    \cup On("certificate", {"read", "upload", "renew"})
    \cup On("scheduled_job", {"read", "create", "update", "delete", "run_now",
                              "read_output"})

HostActions ==
    On("host", {"read", "create", "update", "delete", "read_metrics",
                "manage_stack", "manage_updates", "upgrade_agent"})
    \cup On("firewall", {"read", "update"})
    \cup On("backup", {"read", "create", "restore", "delete", "manage_policy"})
    \cup On("terminal", {"open", "read_recording"})
    \cup On("ssh_grant", {"read", "create", "revoke"})
    \cup On("ssh_key", {"manage_own", "read_any", "revoke_any"})
    \cup On("ssh_authority", {"read", "rotate"})
    \cup On("audit_log", {"read"})
    \cup On("billing", {"read", "update"})

ACTION_CATALOGUE ==
    PeopleActions \cup CredentialActions \cup SiteActions \cup ServiceActions
    \cup HostActions

(* Creating is declared at the container; the other verbs at the thing.    *)
Container == [team |-> "organization", project |-> "team", site |-> "environment",
              environment |-> "project", host |-> "organization"]

OrganizationResources ==
    {"organization", "member", "role", "service_identity", "api_token",
     "ssh_key", "ssh_authority", "audit_log", "billing"}

(* The narrowest level an action is meaningfully granted at.               *)
LevelOf(a) ==
    CASE a[2] = "create" /\ a[1] \in DOMAIN Container -> Container[a[1]]
      [] a[1] \in OrganizationResources \/ a = <<"grant", "break_glass">> -> "organization"
      [] a[1] \in {"team", "project", "environment"} -> a[1]
      [] \/ a[1] = "secret"
         \/ a[1] = "deployment" /\ a[2] \notin {"read", "read_logs"} -> "environment"
      [] OTHER -> "resource"

OWNER_ACTIONS == ACTION_CATALOGUE

ADMIN_ACTIONS ==
    ACTION_CATALOGUE \ On("organization", {"delete", "transfer_ownership"})

(* What every role that sees the system at all may read.                   *)
CommonReads ==
    {"organization", "team", "member", "project", "environment", "site", "release",
     "deployment", "domain", "certificate", "scheduled_job"} \X {"read"}

VIEWER_ACTIONS == CommonReads \cup On("site", {"read_metrics"})

DEVELOPER_ACTIONS ==
    VIEWER_ACTIONS
    \cup On("grant", {"break_glass"}) \cup On("api_token", {"manage_own"})
    \cup On("site", {"read_logs"}) \cup On("secret", {"read_name", "read_history"})
    \cup On("deployment", {"read_logs", "create_nonproduction",
                           "rollback_nonproduction", "cancel"})
    \cup On("scheduled_job", {"read_output"}) \cup On("ssh_key", {"manage_own"})

RELEASE_MANAGER_ACTIONS ==
    DEVELOPER_ACTIONS
    \cup On("site", {"restart"}) \cup On("release", {"delete"})
    \cup On("deployment", {"create_production", "rollback_production"})
    \cup On("scheduled_job", {"run_now"}) \cup On("host", {"read", "read_metrics"})
    \cup On("backup", {"read", "create"})

INFRASTRUCTURE_ACTIONS ==
    VIEWER_ACTIONS
    \cup On("member", {"revoke_sessions"}) \cup On("role", {"read"})
    \cup On("grant", {"read", "break_glass"}) \cup On("api_token", {"manage_own"})
    \cup On("site", {"restart", "read_logs", "manage_runtime", "manage_resource_limits"})
    \cup On("deployment", {"cancel"}) \cup On("secret", {"read_name", "read_history"})
    \cup On("domain", {"create", "delete"}) \cup On("certificate", {"upload", "renew"})
    \cup On("scheduled_job", {"read_output"})
    \cup (HostActions \ (On("terminal", {"read_recording"})
                         \cup ({"audit_log", "billing"} \X {"read", "update"})))

BILLING_ACTIONS == On("billing", {"read", "update"})

DEFAULT_ROLES ==
    [owner |-> OWNER_ACTIONS, admin |-> ADMIN_ACTIONS,
     infrastructure |-> INFRASTRUCTURE_ACTIONS,
     release_manager |-> RELEASE_MANAGER_ACTIONS,
     developer |-> DEVELOPER_ACTIONS, viewer |-> VIEWER_ACTIONS,
     billing |-> BILLING_ACTIONS]

rolesCarrying(a) == {k \in DOMAIN DEFAULT_ROLES : a \in DEFAULT_ROLES[k]}
=============================================================================
