------------------------------ MODULE Console ------------------------------
(***************************************************************************)
(* The administration pages: lists of configuration rows that several      *)
(* administrators edit, add to, switch off and page through, each from the *)
(* copy his browser last loaded, and the staffing of a point.  A save goes *)
(* out, is stored and is answered in steps of their own, and may fail      *)
(* before or after it was stored.                                          *)
(***************************************************************************)
EXTENDS Access

CONSTANTS
  Ids,             \* places for rows, 1..n: the rows made last have the highest
  Names, Parents,  \* what the fields hold; a parent is what the row belongs to
  Sizes, Queries   \* page sizes; searches, each the set of names it matches

(* What a row holds (name stands for the fields a form always sends), what  *)
(* a form does and what is on its way; a field left empty is None.          *)
Line == [name : Names \cup {None}, parent : Parents \cup {None}, isActive : BOOLEAN]
Form == [id : Ids \cup {None}, name : Names \cup {None}, parent : Parents \cup {None}]
Requests == [form : Form, active : BOOLEAN, stored : BOOLEAN]
Kinds == {"facility", "category", "department", "office", "point", "device"}

(* Places are counted, pages hold something, and nothing is taken for None; *)
(* a scene starts with rows of its kind, of which facilities and categories *)
(* belong to nothing.                                                       *)
ASSUME ConsoleAssumption ==
  /\ Ids \subseteq Nat /\ IsFiniteSet(Ids)
  /\ Sizes \subseteq Nat \ {0} /\ \E n \in Sizes : \A m \in Sizes : n <= m
  /\ None \notin Line /\ None \notin Form /\ None \notin Requests
  /\ \A s \in Scenes :
       /\ s.kind \in Kinds /\ s.names \subseteq Names /\ s.places \subseteq Ids
       /\ s.tables \subseteq [Ids -> Line \cup {None}] /\ s.staff \subseteq Users
       /\ s.kind \in {"facility", "category"} =>
            \A table \in s.tables, id \in Ids : table[id] # None => table[id].parent = None

VARIABLES
  rows,            \* of a place: its row, or None
  staffing,        \* the staff of the point
  eligible,        \* the accounts that may staff a point
  desk,            \* of a browser: its page [list, editor, draft, query, page, size, sent]
  modal            \* of a browser: its dialog [open, data, sel, keep, sent]

console == <<rows, staffing, eligible, desk, modal>>

Blank == [id |-> None, name |-> None, parent |-> None]
Stored == {id \in Ids : rows[id] # None}

-----------------------------------------------------------------------------
(* The sections: whom each asks, the fields its forms have, those an edit   *)
(* leaves out of the request when they are empty, those that may not be     *)
(* empty, and those a row that was added leaves empty again.                *)
FacilitiesSection ==
  [list |-> "facilityList", create |-> "facilityCreate", update |-> "facilityUpdate",
   setActive |-> "facilitySetActive", fields |-> {"name"}, dropped |-> {},
   needed |-> {"name"}, emptied |-> {"name"}]
CategoriesSection ==
  [list |-> "categoryList", create |-> "categoryCreate", update |-> "categoryUpdate",
   setActive |-> "categorySetActive", fields |-> {"name"}, dropped |-> {},
   needed |-> {"name"}, emptied |-> {"name"}]
DepartmentsSection ==
  [list |-> "departmentList", create |-> "departmentCreate", update |-> "departmentUpdate",
   setActive |-> "departmentSetActive", fields |-> {"name", "parent"}, dropped |-> {"parent"},
   needed |-> {"name"}, emptied |-> {"name", "parent"}]
OfficesSection ==
  [list |-> "officeList", create |-> "officeCreate", update |-> "officeUpdate",
   setActive |-> "officeSetActive", fields |-> {"name", "parent"}, dropped |-> {},
   needed |-> {"name", "parent"}, emptied |-> {"name"}]
PointsDropping == [DepartmentsSection EXCEPT !.update = "pointUpdate"]
PointsSection ==
  [list |-> "pointList", create |-> "pointCreate", update |-> "pointUpdate",
   setActive |-> "pointSetActive", fields |-> {"name", "parent"}, dropped |-> {},
   needed |-> {"name"}, emptied |-> {"name", "parent"}]
CheckpointsSection ==
  [list |-> "devicesStatus", create |-> "deviceUpsert", update |-> "deviceUpsert",
   setActive |-> "checkpointSetActive", fields |-> {"name", "parent"}, dropped |-> {},
   needed |-> {"id"}, emptied |-> {"id", "name", "parent"}]

Section ==
  CASE scene.kind = "facility" -> FacilitiesSection
    [] scene.kind = "category" -> CategoriesSection
    [] scene.kind = "department" -> DepartmentsSection
    [] scene.kind = "office" -> OfficesSection
    [] scene.kind = "point" -> PointsSection
    [] scene.kind = "device" -> CheckpointsSection

Works(b, what) == what \in scene.tasks[b]    \* (a bound)
May(b, what) == Serves(b, Section[what])

(* What an edit sends: a field sent as undefined is not in the patch.       *)
Sent(form) == {f \in Section.fields : f \in Section.dropped => form[f] # None}
Patched(row, form) == [f \in DOMAIN row |-> IF f \in Sent(form) THEN form[f] ELSE row[f]]
Complete(form) == \A f \in Section.needed : form[f] # None
Emptied(form) == [f \in DOMAIN form |-> IF f \in Section.emptied THEN None ELSE form[f]]
ParentChoices == IF "parent" \in Section.fields THEN Parents \cup {None} ELSE {None}

-----------------------------------------------------------------------------
(* The table: the rows that match the search, the latest first, by pages.   *)
Filtered(d) == {id \in Ids : d.list[id] # None /\ (d.query = {} \/ d.list[id].name \in d.query)}
LastPage(d) == LET n == Cardinality(Filtered(d))
               IN IF n = 0 THEN 1 ELSE (n + d.size - 1) \div d.size
RankOf(d, id) == Cardinality({other \in Filtered(d) : other > id})
PageItems(d, page) ==
  {id \in Filtered(d) : RankOf(d, id) \in (page - 1) * d.size .. page * d.size - 1}
Unsnapped(d) == d
Snapped(d) == [d EXCEPT !.page = IF @ > LastPage(d) THEN LastPage(d) ELSE @]
Items(b) == PageItems(desk[b], desk[b].page)

Becomes(b, d) == /\ desk' = [desk EXCEPT ![b] = Snapped(d)]
               /\ UNCHANGED <<scene, access, rows, staffing, eligible, modal>>

(* The list is loaded when the page opens, after a save and on coming back. *)
Load(b) == May(b, "list") /\ Becomes(b, [desk[b] EXCEPT !.list = rows])

Search(b, q) ==
  /\ Works(b, "table") /\ q # desk[b].query
  /\ Becomes(b, [desk[b] EXCEPT !.query = q, !.page = 1])

TurnTo(b, p) ==
  /\ Works(b, "table") /\ p \in 1..LastPage(desk[b]) /\ p # desk[b].page
  /\ Becomes(b, [desk[b] EXCEPT !.page = p])

ChangeSize(b, n) ==
  /\ Works(b, "table") /\ Filtered(desk[b]) # {} /\ n # desk[b].size
  /\ Becomes(b, [desk[b] EXCEPT !.size = n, !.page = 1])

-----------------------------------------------------------------------------
(* Forms.  A row is edited in place, one at a time, from the list as it     *)
(* was when its editor opened; a device is edited in the form above the     *)
(* list, where a new one would be added, and by the same request.           *)
FormOf(b, id) == LET row == desk[b].list[id]
                 IN [id |-> id, name |-> row.name, parent |-> row.parent]
InPlace == scene.kind # "device"
Open(b, id) == InPlace /\ desk[b].editor # None /\ desk[b].editor.id = id

Edit(b, id) ==
  /\ Works(b, "edit") /\ id \in Items(b) /\ ~Open(b, id)
  /\ Becomes(b, [desk[b] EXCEPT !.editor = FormOf(b, id), !.draft = IF InPlace THEN @ ELSE Blank])

ChangeEditor(b, name, parent) ==
  /\ Works(b, "edit") /\ desk[b].editor # None
  /\ InPlace => desk[b].editor.id \in Items(b)
  /\ Becomes(b, [desk[b] EXCEPT !.editor.name = name, !.editor.parent = parent])

CancelEdit(b) ==
  /\ desk[b].editor # None /\ (InPlace => desk[b].editor.id \in Items(b))
  /\ Becomes(b, [desk[b] EXCEPT !.editor = None])

ChangeDraft(b, form) ==
  /\ Works(b, "create") /\ desk[b].draft # form /\ (InPlace => form.id = None)
  /\ InPlace \/ desk[b].editor = None
  /\ Becomes(b, [desk[b] EXCEPT !.draft = form])

(* A request on its way: the form as it was sent and the activation, which  *)
(* a save does not send and a switch sends the opposite of.                 *)
Request(form, active) == [form |-> form, active |-> active, stored |-> FALSE]
Busy(b, what) ==
  \/ desk[b].sent[what] # None
  \/ ~InPlace /\ what # "setActive" /\ (desk[b].sent.create # None \/ desk[b].sent.update # None)
Send(b, what, request) == Becomes(b, [desk[b] EXCEPT !.sent[what] = request])

Save(b) ==
  LET form == desk[b].editor IN
  /\ form # None /\ ~Busy(b, "update") /\ Complete(form) /\ May(b, "update")
  /\ (InPlace => form.id \in Items(b))
  /\ Send(b, "update", Request(form, desk[b].list[form.id].isActive))

Add(b) ==
  LET form == desk[b].draft IN
  /\ Works(b, "create") /\ ~Busy(b, "create") /\ Complete(form) /\ May(b, "create")
  /\ Send(b, "create", Request(form, TRUE))

Toggle(b, id) ==
  /\ Works(b, "toggle") /\ ~Busy(b, "setActive") /\ May(b, "setActive")
  /\ id \in Items(b) /\ ~Open(b, id)
  /\ Send(b, "setActive", Request([Blank EXCEPT !.id = id], ~desk[b].list[id].isActive))

-----------------------------------------------------------------------------
(* The server stores a request.                                             *)
NextPlace == CHOOSE id \in Ids \ Stored : \A other \in Ids \ Stored : id <= other
UpdateRow(request) == [rows EXCEPT ![request.form.id] = Patched(@, request.form)]
Inserted(form) == [name |-> form.name, parent |-> form.parent, isActive |-> TRUE]
CreateRow(request) ==
  IF scene.kind = "device" /\ rows[request.form.id] # None THEN UpdateRow(request)
  ELSE [rows EXCEPT ![IF InPlace THEN NextPlace ELSE request.form.id] = Inserted(request.form)]
SetActive(request) == [rows EXCEPT ![request.form.id].isActive = request.active]

Store(b, what) ==
  LET request == desk[b].sent[what] IN
  /\ request # None /\ ~request.stored
  /\ (what = "create" /\ InPlace => Stored # Ids)
  /\ rows' = CASE what = "update" -> UpdateRow(request)
               [] what = "create" -> CreateRow(request)
               [] what = "setActive" -> SetActive(request)
  /\ desk' = [desk EXCEPT ![b].sent[what].stored = TRUE]
  /\ UNCHANGED <<scene, access, staffing, eligible, modal>>

(* The answer closes whichever editor is open, or empties the form; the     *)
(* list is loaded again.                                                    *)
Succeed(b, what) ==
  LET d == [desk[b] EXCEPT !.sent[what] = None] IN
  /\ desk[b].sent[what] # None /\ desk[b].sent[what].stored
  /\ Becomes(b, CASE what = "setActive" -> d
                  [] what = "update" /\ InPlace -> [d EXCEPT !.editor = None]
                  [] what = "create" /\ InPlace -> [d EXCEPT !.draft = Emptied(@)]
                  [] OTHER -> [d EXCEPT !.editor = None, !.draft = Emptied(@)])

(* The input is refused, or a code is taken, or the answer is lost.         *)
Fail(b, what) ==
  /\ desk[b].sent[what] # None
  /\ Becomes(b, [desk[b] EXCEPT !.sent[what] = None])

-----------------------------------------------------------------------------
(* The staffing dialog.  It is filled once, from the assignments the        *)
(* browser has: those it just loaded, or those of an earlier visit.  Only   *)
(* eligible staff have a box.  (history: keep is whom it was told of and    *)
(* was not asked to take off; a bound: one save of a browser at a time.)    *)
Assign(b, m) == /\ modal' = [modal EXCEPT ![b] = m]
                /\ UNCHANGED <<scene, access, rows, staffing, eligible, desk>>
Seeded(m) == IF m.open /\ m.sel = None /\ m.data # None
             THEN [m EXCEPT !.sel = m.data, !.keep = m.data] ELSE m
Closed(m) == [m EXCEPT !.open = FALSE, !.sel = None, !.keep = {}]

OpenStaff(b) ==
  /\ Works(b, "staff") /\ ~modal[b].open
  /\ Assign(b, Seeded([modal[b] EXCEPT !.open = TRUE]))

LoadStaff(b) ==
  /\ Works(b, "staff") /\ modal[b].open /\ Serves(b, "pointAssignmentsGet")
  /\ Assign(b, Seeded([modal[b] EXCEPT !.data = staffing]))

CloseStaff(b) == modal[b].open /\ Assign(b, Closed(modal[b]))

TickBox(b, u) ==
  /\ modal[b].open /\ modal[b].sel # None /\ u \in eligible
  /\ Assign(b, IF u \in modal[b].sel
               THEN [modal[b] EXCEPT !.sel = @ \ {u}, !.keep = @ \ {u}]
               ELSE [modal[b] EXCEPT !.sel = @ \cup {u}])

Selected(b) == modal[b].sel

SaveStaff(b) ==
  /\ modal[b].open /\ modal[b].sel # None /\ modal[b].sent = None
  /\ Serves(b, "pointAssignmentsSet")
  /\ Assign(b, [modal[b] EXCEPT !.sent = [users |-> Selected(b), keep |-> modal[b].keep,
                                          stored |-> FALSE]])

StoreStaff(b) ==
  /\ modal[b].sent # None /\ ~modal[b].sent.stored
  /\ staffing' = modal[b].sent.users
  /\ modal' = [modal EXCEPT ![b].sent.stored = TRUE]
  /\ UNCHANGED <<scene, access, rows, eligible, desk>>

AnswerStaff(b) ==
  /\ modal[b].sent # None
  /\ \/ modal[b].sent.stored /\ Assign(b, [Closed(modal[b]) EXCEPT !.sent = None])
     \/ Assign(b, [modal[b] EXCEPT !.sent = None])

(* Elsewhere an account is switched off, or on again.                       *)
Requalify(u) ==
  /\ Does("requalify")
  /\ eligible' = IF u \in eligible THEN eligible \ {u} ELSE eligible \cup {u}
  /\ UNCHANGED <<scene, access, rows, staffing, desk, modal>>

ConsoleStep ==
  \/ \E b \in Browsers :
       \/ Load(b) \/ CancelEdit(b) \/ Save(b) \/ Add(b)
       \/ \E q \in Queries : Search(b, q)
       \/ \E p \in Ids : TurnTo(b, p)
       \/ \E n \in Sizes : ChangeSize(b, n)
       \/ \E id \in Ids : Edit(b, id) \/ Toggle(b, id)
       \/ \E name \in scene.names, parent \in ParentChoices :
            \/ ChangeEditor(b, name, parent)
            \/ \E id \in scene.places \cup {None} :
                 ChangeDraft(b, [id |-> id, name |-> name, parent |-> parent])
       \/ \E what \in {"update", "create", "setActive"} :
            Store(b, what) \/ Succeed(b, what) \/ Fail(b, what)
       \/ OpenStaff(b) \/ LoadStaff(b) \/ CloseStaff(b) \/ SaveStaff(b) \/ StoreStaff(b)
       \/ AnswerStaff(b) \/ \E u \in scene.users : TickBox(b, u)
  \/ \E u \in scene.users : Requalify(u)

-----------------------------------------------------------------------------
(* A row changes only as some administrator's screen said: a save writes    *)
(* the form as it was shown and leaves the activation as another may have   *)
(* set it since, and a switch turns the row to the opposite of what its     *)
(* browser showed and leaves the fields, however old the lists were.  A     *)
(* department's facility, once set, is the exception: it cannot be emptied. *)
StoresNow(b, what) ==
  /\ desk[b].sent[what] # None /\ ~desk[b].sent[what].stored
  /\ desk'[b].sent[what] # None /\ desk'[b].sent[what].stored
SavedAsShown ==
  [][\A id \in Stored : rows'[id] # rows[id] =>
       \E b \in Browsers :
         \/ \E what \in {"update", "create"} :
              LET form == desk[b].sent[what].form IN
              /\ StoresNow(b, what) /\ form.id = id
              /\ rows'[id].name = form.name /\ rows'[id].isActive = rows[id].isActive
              /\ rows'[id].parent = IF scene.kind = "department" /\ form.parent = None
                                   THEN rows[id].parent ELSE form.parent
         \/ /\ StoresNow(b, "setActive") /\ desk[b].sent.setActive.form.id = id
            /\ rows'[id] = [rows[id] EXCEPT !.isActive = desk[b].sent.setActive.active]]_console

(* A save of the staffing takes nobody off the point but those the          *)
(* administrator unticked and those his dialog was not told of: staff who   *)
(* have no box in it, because they are switched off just now, stay.         *)
HiddenStaffKept ==
  [][\A u \in staffing \ staffing' :
       \E b \in Browsers : /\ modal[b].sent # None /\ ~modal[b].sent.stored
                           /\ modal'[b].sent.stored
                           /\ u \notin modal[b].sent.keep]_console

(* A list that has rows to show shows some, on a page the pager can reach,  *)
(* whatever was searched for, turned to or loaded meanwhile.                *)
RowsStayVisible ==
  \A b \in Browsers :
    /\ desk[b].page \in 1..LastPage(desk[b])
    /\ Filtered(desk[b]) # {} => Items(b) # {}
    /\ UNION {PageItems(desk[b], p) : p \in 1..LastPage(desk[b])} = Filtered(desk[b])

(* Saves write what was on the screen and take away nothing that was not.   *)
SavesKept == SavedAsShown /\ HiddenStaffKept
=============================================================================
