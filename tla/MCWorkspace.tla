----------------------------- MODULE MCWorkspace -----------------------------
EXTENDS Workspace
CONSTANTS u1, u2, b1, b2, v1, v2, f1, f2, n1, n2, p1
MCQueries == {{}, {n1}, {n2}}
All == [facility |-> None, origin |-> None, status |-> None, from |-> None]
Row(f, origin, status, e) ==
  [facility |-> f, origin |-> origin, status |-> status, expected |-> e, created |-> 2]
Rows == {Row(f1, "walk_in", "checked_in", None), Row(f2, "appointment", "approved", 1)}
RowOf(name, parent) == [name |-> name, parent |-> parent, isActive |-> TRUE]
Table(first, second, third) == 1 :> first @@ 2 :> second @@ 3 :> third
Alone == (b1 :> u1 @@ b2 :> None)
Both == (b1 :> u1 @@ b2 :> u2)
Default ==
  [part |-> "access", does |-> {}, users |-> {}, roles |-> {}, session |-> Alone,
   accounts |-> {[u \in Users |-> "system_administrator"]},
   rows |-> {}, logs |-> {[v \in Visits |-> None]}, stations |-> {[u \in Users |-> {}]},
   filters |-> {}, kinds |-> {},
   kind |-> "facility", tasks |-> [b \in Browsers |-> {}], names |-> {}, places |-> {},
   tables |-> {[id \in Ids |-> None]}, staff |-> {}]
AccessScenes ==
  {[Default EXCEPT !.does = {"signIn", "signOut", "changePassword", "tick", "expire"},
                   !.users = {u1, u2}],
   [Default EXCEPT !.does = {"userSetRole", "userBan", "signIn", "tick"}, !.users = {u2},
                   !.roles = {"host", "receptionist"}, !.session = Both],
   [Default EXCEPT !.accounts = {[u \in Users |-> role] : role \in RoleNames}]}
Log == [Default EXCEPT !.part = "reports", !.rows = Rows]
ReportScenes ==
  {[Log EXCEPT !.does = {"turn", "arrive"}, !.logs = [Visits -> Rows],
               !.kinds = {"log", "export"}, !.filters = {All, [All EXCEPT !.status = "checked_in"]}],
   [Log EXCEPT !.does = {"reschedule", "register"}, !.kinds = {"log", "insights"},
               !.filters = {All, [All EXCEPT !.from = 2]}]}
  \cup
  {[Log EXCEPT !.does = {"restation"}, !.users = {u1}, !.kinds = {kind},
               !.logs = [Visits -> Rows], !.stations = {[u \in Users |-> Facilities]},
               !.accounts = {[u \in Users |-> "receptionist"]},
               !.filters = {All, [All EXCEPT !.facility = f2]}] : kind \in {"log", "export"}}
  \cup
  {[Log EXCEPT !.does = {"userSetRole"}, !.users = {u1}, !.roles = {"receptionist"},
               !.session = Both, !.kinds = {"log", "insights"}, !.logs = [Visits -> Rows],
               !.stations = {[u \in Users |-> {f1}]}, !.filters = {All}]}
Desk == [Default EXCEPT !.part = "console", !.names = {n2}, !.session = Both]
ConsoleScenes ==
  {[Desk EXCEPT !.kind = kind, !.tasks = (b1 :> {"edit"} @@ b2 :> {"edit"}),
                !.tables = {Table(RowOf(n1, p1), None, None)}] : kind \in {"department", "point"}}
  \cup
  {[Desk EXCEPT !.kind = kind, !.tasks = (b1 :> {"edit"} @@ b2 :> {"toggle"}),
                !.tables = {Table(RowOf(n1, IF kind \in {"office", "device"} THEN p1 ELSE None), None, None)}]
     : kind \in {"facility", "category", "office", "device"}}
  \cup
  {[Desk EXCEPT !.tasks = (b1 :> {"table", "create"} @@ b2 :> {}),
                !.tables = [Ids -> {RowOf(n1, None), RowOf(n2, None), None}]],
   [Desk EXCEPT !.tasks = (b1 :> {"table"} @@ b2 :> {"edit"}),
                !.tables = {Table(RowOf(n1, None), RowOf(n1, None), None)}],
   [Desk EXCEPT !.kind = "device", !.tasks = (b1 :> {"create", "edit"} @@ b2 :> {}), !.places = {1}],
   [Desk EXCEPT !.tasks = (b1 :> {"staff"} @@ b2 :> {"staff"}), !.does = {"requalify"}, !.users = {u2},
                !.staff = {u1, u2}]}
MCScenes == AccessScenes \cup ReportScenes \cup ConsoleScenes
=============================================================================
