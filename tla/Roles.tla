------------------------------- MODULE Roles -------------------------------
(***************************************************************************)
(* What each role may do.  A permission is a pair of a resource and an     *)
(* action on it; an account holds a set of roles (the source keeps them as *)
(* a comma-separated string) and an unknown role grants nothing.           *)
(***************************************************************************)
Acts(resource, verbs) == {resource} \X verbs

Statement ==
  Acts("appointment", {"create", "read", "update", "cancel", "approve", "deny"})
  \cup Acts("invitation", {"create", "resend", "revoke", "regenerate", "read"})
  \cup Acts("checkin", {"process", "self", "override", "checkout", "bulk_checkout"})
  \cup Acts("badge", {"issue", "reprint", "read"})
  \cup Acts("visitor", {"create", "read", "update", "delete"})
  \cup Acts("watchlist", {"read", "manage"})
  \cup Acts("access", {"assign", "revoke", "read"})
  \cup Acts("incident", {"create", "read", "resolve"})
  \cup Acts("dashboard", {"reception", "security", "host"})
  \cup Acts("report", {"read", "export", "insights"})
  \cup Acts("audit", {"read", "export"})
  \cup Acts("analyst", {"read", "suggest", "operations"})
  \cup Acts("user", {"create", "read", "list", "update", "set-email",
                   "delete", "ban", "set-role"})
  \cup Acts("config", {"read", "manage"})

Visitor == Acts("checkin", {"self"}) \cup Acts("invitation", {"read"})

Host ==
  Acts("appointment", {"create", "read", "update", "cancel", "approve"})
  \cup Acts("invitation", {"create", "resend", "revoke", "regenerate", "read"})
  \cup Acts("visitor", {"create", "read"}) \cup Acts("dashboard", {"host"})

Receptionist ==
  Acts("appointment", {"create", "read", "update"})
  \cup Acts("invitation", {"read", "resend"})
  \cup Acts("checkin", {"process", "checkout"})
  \cup Acts("badge", {"issue", "reprint", "read"})
  \cup Acts("visitor", {"create", "read", "update"})
  \cup Acts("incident", {"create", "read"}) \cup Acts("dashboard", {"reception"})
  \cup Acts("report", {"insights"}) \cup Acts("analyst", {"operations"})

Secretary ==
  Acts("appointment", {"create", "read", "update"})
  \cup Acts("invitation", {"read", "resend"})
  \cup Acts("visitor", {"create", "read"})

(* What the two security roles share.                                       *)
EitherSecurity ==
  Acts("appointment", {"read", "deny"})
  \cup Acts("checkin", {"override", "checkout", "bulk_checkout"})
  \cup Acts("badge", {"read"}) \cup Acts("visitor", {"read"})
  \cup Acts("watchlist", {"read"}) \cup Acts("access", {"read"})
  \cup Acts("incident", {"create", "read", "resolve"})
  \cup Acts("dashboard", {"security"}) \cup Acts("report", {"insights"})
  \cup Acts("analyst", {"read", "operations"})

SecurityGuard == EitherSecurity

SecurityManager ==
  EitherSecurity \cup Acts("appointment", {"approve"}) \cup Acts("visitor", {"update"})
  \cup Acts("watchlist", {"manage"}) \cup Acts("access", {"assign", "revoke"})
  \cup Acts("report", {"read", "export"}) \cup Acts("audit", {"read"})
  \cup Acts("config", {"read"}) \cup Acts("analyst", {"suggest"})

SystemAdministrator ==
  Acts("user", {"create", "read", "list", "update", "set-email",
              "delete", "ban", "set-role"})
  \cup Acts("config", {"read", "manage"}) \cup Acts("appointment", {"read"})
  \cup Acts("visitor", {"read"}) \cup Acts("dashboard", {"security"})
  \cup Acts("report", {"read", "insights"}) \cup Acts("audit", {"read"})

Auditor ==
  Acts("appointment", {"read"}) \cup Acts("visitor", {"read"})
  \cup Acts("report", {"read", "export", "insights"})
  \cup Acts("audit", {"read", "export"}) \cup Acts("analyst", {"read"})

RoleNames == {"visitor", "host", "receptionist", "secretary", "security_guard",
              "security_manager", "system_administrator", "auditor"}

Grants ==
  [r \in RoleNames |->
     CASE r = "visitor" -> Visitor [] r = "host" -> Host
       [] r = "receptionist" -> Receptionist [] r = "secretary" -> Secretary
       [] r = "security_guard" -> SecurityGuard
       [] r = "security_manager" -> SecurityManager
       [] r = "system_administrator" -> SystemAdministrator
       [] OTHER -> Auditor]

(* One role must grant the whole request.                                   *)
AnyRoleHasPermission(roles, request) ==
  \E r \in roles \cap RoleNames : request \subseteq Grants[r]
=============================================================================
