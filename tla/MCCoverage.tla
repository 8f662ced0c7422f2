----------------------------- MODULE MCCoverage -----------------------------
(***************************************************************************)
(* Coverage for TLC: the contract of coverage/admin-ops.json in full is    *)
(* checked once, against every scenario; the two repositories move on the  *)
(* part of it that belongs to agents and tokens, with a new operation, an  *)
(* optional field of it and a new required field to land, and a field and  *)
(* an operation of today's contract to retire.                             *)
(***************************************************************************)
EXTENDS Coverage

AppFields == Proxied \cup {"kind", "owner_roles"}

MCSchema ==
  [admin_token_issue |-> {"expires_in"}, admin_token_list |-> {},
   admin_token_revoke |-> {"id"},
   agent_create |-> {"slug", "name", "description"}, agent_delete |-> {"slug"},
   agent_list |-> {}, agent_update |-> {"slug", "name", "description"},
   app_archive |-> {"slug"}, app_create |-> AppFields,
   app_delete |-> {"slug"}, app_disconnect |-> {"slug"}, app_get |-> {"slug"},
   app_list |-> {}, app_set_upstream_auth |-> {"slug", "headers"},
   app_unarchive |-> {"slug"}, app_update |-> AppFields \ {"kind"},
   approval_decide |-> {"id", "decision"}, approval_list |-> {"status", "limit"},
   audit_query |-> {"principal", "app", "event", "tool", "session", "outcome", "id",
                    "text", "bodies", "since", "until", "limit", "offset"},
   connection_list |-> {}, connection_revoke |-> {"id"},
   grant_set |-> {"agent", "app", "roles"}, hub_settings_get |-> {},
   hub_settings_update |-> {"default_timeout_ms", "max_timeout_ms"},
   token_issue |-> {"kind", "slug", "expires_in"}, token_list |-> {},
   token_revoke |-> {"id"},
   agent_rename |-> {"slug"}]

InFull(ops) ==
  UNION {{Operation(op)} \cup {Target(op, f) : f \in MCSchema[op]} : op \in ops}

AdminOps == InFull(DOMAIN MCSchema \ {"agent_rename"})
MCPinned == InFull({"agent_create", "agent_list", "agent_update", "agent_delete",
                    "token_issue", "token_list", "token_revoke", "approval_decide"})

Needs(op, fields) == {Target(op, f) : f \in fields}

MCRequired ==
  Needs("app_create", {"slug", "kind"}) \cup Needs("app_update", {"slug"})
    \cup Needs("agent_create", {"slug"}) \cup Needs("agent_update", {"slug"})
    \cup Needs("agent_delete", {"slug"}) \cup Needs("app_archive", {"slug"})
    \cup Needs("app_unarchive", {"slug"}) \cup Needs("app_get", {"slug"})
    \cup Needs("app_delete", {"slug"}) \cup Needs("grant_set", {"agent", "app", "roles"})
    \cup Needs("app_set_upstream_auth", {"slug", "headers"})
    \cup Needs("hub_settings_update", {"default_timeout_ms", "max_timeout_ms"})
    \cup Needs("token_issue", {"kind", "slug", "reason"})
    \cup Needs("token_revoke", {"id"}) \cup Needs("agent_rename", {"slug", "to"})

MCScenarios == [pmcp_agent |-> driveAgent, pmcp_token |-> driveToken]
MCHome == "pmcp_agent"

MCFeatures ==
  {Operation("agent_rename"), Target("agent_rename", "to"), Target("token_issue", "reason"),
   Target("token_issue", "expires_in"), Operation("token_revoke")}

MCExcusable == {"token_issue", "token_revoke"}

\* The repository as it stands passes its own gate and the hub's.
ASSUME TodayIsGreen ==
  \A strict \in BOOLEAN :
    Check(AdminOps, allDrivers, OpsOf(allDrivers), unmanagedReasons, {}, strict)
=============================================================================
