---------------------------- MODULE MCDirectory ----------------------------
EXTENDS Directory
CONSTANTS u1, u2, o1, a1
Scene(ops, staff, roles, places, admins) ==
  [ops |-> ops, staff |-> staff, roles |-> roles, places |-> places, admins |-> admins]
MCScenes ==
  {Scene({"userCreate", "setUserActive", "importHosts"}, {u1}, RoleNames, {o1}, {}),
   Scene({"edit", "userCreate"}, {u1}, {"secretary"}, {None}, {a1}),
   Scene({"edit"}, {u1}, RoleNames, {None}, Admins),
   Scene({"edit", "setUserActive", "importHosts"}, {u1}, {"secretary"}, {None}, {a1}),
   Scene({"settings"}, {u1}, RoleNames, {o1}, Admins),
   Scene({"book", "tree"}, {u1, u2}, {"receptionist"}, {o1}, {}),
   Scene({"book", "setUserActive"}, {u1, u2}, {"secretary"}, Places, {}),
   Scene({"book", "edit"}, {u1, u2}, {"secretary"}, {o1, None}, {a1})}
=============================================================================
