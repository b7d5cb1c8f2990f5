# AccessPass: specifications and proofs

AccessPass manages visitors of a site: staff book visits, visitors receive a
code, pre-register, check in at a kiosk or at reception, get a badge that opens
doors, and check out; security keeps a watchlist and needs to know at every
moment who is in the building. This directory holds TLA+ modules translated from
the code of its server and of its web application, the configurations with which
TLC checks them, and proofs that TLAPS checks.

Run a configuration with `tlc -config DeskRace.cfg MCDesk`, the proofs with
`tlapm LifecycleProofs.tla`. `PROJECT.json` lists the runs, the lines each definition
stands for (`map`), a plausible bug per property that the runs catch
(`mutants`) and the places where this code is hard to test (`hazards`).

## 1. The system and its hard parts

A Node server (`src/server`) runs tRPC procedures over one Postgres database;
`src/shared` holds schemas and permissions; `src/apps` has the web application
and two kiosk shells. The parts that keep state:

| part | state | operations | promises |
|---|---|---|---|
| Appointments (`services/appointments.ts`) | `visit` rows | create, approve, deny, cancel, update | nobody is admitted without the approval his category demands; closed visits stay closed; no double booking |
| Invitations (`services/invitations.ts`) | `visit_invitation` rows with a window | issue, supersede, resend, revoke, expire | one code of a visit is active |
| Pre-registration (`services/prereg.ts`) | `pre_registration`, documents | open, upload, submit | gate of the guarded categories |
| Desk and kiosk (`services/checkin.ts`) | `check_in_record`, `credential`, `access_permission` | validate, check in, walk in, check out, guard scan | one entry per visit; complete muster list; nothing live after check-out |
| Sweep (`services/credentials.ts`, `jobs/maintenance.ts`) | the same rows, `incident` | expire badges and permissions, raise overstays | nothing outlives its validity; one overstay incident |
| Door controller (external, `services/accesscontrol.ts`) | badges it lets through | activate, deactivate | follows the database |
| Watchlist, incidents (`services/security.ts`) | `watchlist_entry`, `incident` | add, remove, raise, resolve | listed persons are stopped; open incidents are seen |
| Conflicts (`services/conflicts.ts`) | none of its own | clash query | no host, room or visitor twice at a time |
| Notifications (`services/notifications/*`) | `notification` rows, retry jobs | dispatch, attempt, retry | never lost, never doubled |
| Audit log (`lib/audit.ts`, `siem.ts`) | hash chain | append, forward, verify | the chain never forks; what a later row still hashes cannot be altered unnoticed |
| Points and devices (`services/points.ts`) | points, devices, assignments, pairing codes, sessions | station, pair, sign in, sign out | one tablet per code, one session per device, an open post is staffed |
| Kiosk pages (`pages/public/*`, `components/QrScanner.tsx`, the shells) | what the screen holds, calls in flight | look up, confirm, scan, reset | what is confirmed is what is shown; the screen clears |
| Tags, checkpoints (`services/tags.ts`, `checkpoints.ts`) | tags handed out, passages | issue, return, record | a tag has one holder; a returned tag's visitor is out |
| Realtime (`realtime.ts`, `lib/socket-session.ts`, `lib/realtime.ts`) | rooms, events on their way, caches | emit, join, read again, poll | pages follow the database |
| Accounts and officers (`services/admin.ts`, `auth.ts`) | `user`, `host`, departments, offices, settings | create, edit, deactivate, import | one officer per account; policies and roles change only when chosen |
| Roles, scope, sessions (`shared/src/rbac`, `services/scope.ts`, `auth.ts`, `trpc/permission.ts`) | sessions and their cookie copies | sign in, permit, ban, revoke | rights lapse; pages offer what is served |
| Reports (`services/reports.ts`) | none | log, export, insights | readers see their facilities; figures agree |
| Administration pages (`pages/Admin.tsx`) | lists, editors and dialogs in browsers | edit, toggle, add, page, staff | a save writes what its screen said |
| Retention (`services/retention.ts`) | visitor rows | anonymise | only visitors whose visits are all closed |
| Rate limiter (`lib/ratelimit.ts`) | Redis counters | count | throttles and recovers |

They interact through the tables: there is no message between the services, each
handler reads and writes rows in a sequence of awaited statements. Calls that
leave the process (mail, SMS, door webhook, realtime hints) happen between those
statements and their failures are swallowed.

What makes this hard: Postgres runs READ COMMITTED and only two operations of the
lifecycle, the admission and the walk-in, open a transaction. Everything else
reads a status, decides, calls out, and writes later by primary key, whatever the
row has become. A check-out consists of four updates and a webhook call. A process may
stop between any two of them. The minute sweep runs in the middle of all this with
the clock it read at its start. On the other side of the network, browsers and
kiosks act on what they loaded earlier: caches, forms, dialogs, pages of a list and
signed copies of a session are all older than the database, answers come late, and a
realtime event carries nothing but the wish that the page read again.

## 2. The modules

| module | what it is | code |
|---|---|---|
| `VisitStore` | tables, request slots, clock, crash (`Abort`) | `shared/src/db/schema`, `invitations.ts` (`Window`) |
| `Desk` | check-in, walk-in, check-out, sweep, revocation | `checkin.ts`, `credentials.ts`, `accesscontrol.ts` |
| `SitePresence` | abstract: a visit enters once, leaves once, and leaves nothing behind | - |
| `Office` | create, approve, deny, cancel, issue, resend, pre-register | `appointments.ts`, `invitations.ts`, `prereg.ts` |
| `VisitLifecycle` | office and desk over the same tables, from an empty database | |
| `Scheduling` | bookings against the calendar of hosts, rooms and visitors | `conflicts.ts`, `appointments.ts` |
| `AuditLog` | appends under the advisory lock, alterations by hand, the verification | `lib/audit.ts`, `siem.ts`, `schema/records.ts` |
| `Delivery` | notifications: first attempt, retries, lost answers, jobs run twice, outages | `notifications/*`, `email/mailer.ts`, `jobs/maintenance.ts` |
| `Roles` | the permissions of each role | `shared/src/rbac/permissions.ts` |
| `Posts` | points, devices, pairing, the gate, staffing sessions, the tablets | `points.ts`, `PostGate.tsx`, `KioskSetup.tsx`, `trpc/routers` |
| `Kiosk` | one tablet: its pages, calls, timers and shell, and the tags it hands out | `pages/public/*`, `QrScanner.tsx`, `tags.ts`, `checkpoints.ts`, the shells |
| `Pages` | one staff page, its cache and socket, beside everybody's operations | `Reception.tsx`, `Security.tsx`, `Appointments.tsx`, `AppointmentDetail.tsx`, `Muster.tsx`, `realtime.ts` |
| `Directory` | accounts, officers, offices, settings, their forms, and the appointment form | `services/admin.ts`, `scope.ts`, `Admin.tsx`, `NewAppointment.tsx` |
| `Access` | sessions, procedures' gates, what pages offer and ask for | `auth.ts`, `trpc/*`, `Layout.tsx`, the pages |
| `Reports` | the visitor log, its pages, download and totals; extends `Access` | `reports.ts`, `VisitorLog.tsx`, `Insights.tsx` |
| `Console` | configuration lists edited from several browsers; extends `Access` | `Admin.tsx`, `services/admin.ts`, `points.ts`, `hooks.ts` |
| `Workspace` | `Access`, `Reports` and `Console` together | |
| `LifecycleProofs` | theorems about `Desk`, and about `VisitLifecycle`, which extends it | |
| `ExclusionProofs` | theorems about `Scheduling` and `Posts`: two bookings exclude each other, two users of a post too | |
| `AuditProofs`, `DeliveryProofs`, `KioskProofs`, `PagesProofs`, `DirectoryProofs`, `WorkspaceProofs` | theorems about the module of each name | |
| `MC*` | values for TLC | |

### State

`VisitStore` has one variable per column the properties need. Rows that are
inserted together share an identity: an *admission* is a check-in record with the
credential and the permission inserted in the same transaction, so
`record[a]`, `badge[a]`, `access[a]`, `validUntil[a]` and `admVisit[a]` are the
columns of one admission `a`. The statuses are those the code writes; the enums'
`draft`, `expired` and `no_show` for visits are never assigned. `watched` says
whether a visit's visitor matches an active entry: hashing and normalising the
values that are matched is abstracted.

A request is a record in `req[r]`: a program counter (`step`) and the values the
handler read earlier and still holds (`visit`, `inv`, `held`, `todo`, `saw`,
`now`). Each awaited statement is one action; a transaction is one action when
its first statement takes the row lock and its later ones work on rows of its own.
`Abort` ends a request anywhere. Several slots give every interleaving of two or
more requests, one slot gives the sequential behaviour.

### Desk

`FindInvitation`, `Validate`, `Expire`, `Screen`, `Admit` / `Duplicate`,
`Activate` are the statements of `completeCheckIn`: the code lookup, the outcome
matrix with its three time limits, the flip of an expired code, the watchlist and
pre-registration gate, the transaction under the row lock with its re-check, and
the webhook. `WalkIn` and `Register` are `registerWalkIn`. `CheckOut`, `FindBadge`,
`CloseRecords`, `DisableBadge`, `DisableAccess`, `Leave`, `Deactivate` are the
statements of `checkOut`. `Sweep` ... `SweepDone` are `runExpirySweep` with one
check-and-raise per overstaying visit.

### Office

Each operation is split at the read it decides on: `Approve` reads and
`WriteApproval` writes, `Cancel` and `WriteCancel` likewise; `Deny` writes without
reading. `Supersede`, `Issue`, `Sent` are the statements of `issueInvitation`, the
last of which sets the status after the visitor was notified. `PreRegister`,
`Complete`, `MarkPreReg` are `submitPreReg`. The guards are those of the handlers: `Deny` and `Resend` look at no status at
all, `Cancel` only for a visit that has begun. `AppointmentDetail.tsx` offers each of the three in fewer statuses
(`OfferedIn`), but its page may be older than the data, and a role that may resend need not be one that may approve. So
`VisitLifecycle` lets every such request happen in every status the handler accepts, and its history variable `offPage`
records those that no page showing the visit's present status offers. A property either holds whatever is in
`offPage` (`OneActiveCode`, `NoEntryWhenClosed`, `AdmittedWasPreRegistered`, `RevokedIsDead`) or names what it leaves out: the
visits that were *overruled* this way (`Undisputed` has the others), or, in `AdmittedWasApproved`, those re-sent this way.

### Left out of the core

The conflict check of a booking (it is `Scheduling`), `updateVisit`, the
notification of the host, the facility-mismatch answer, the count of unknown codes,
badge numbers and reprints. Checkpoints, guard scans and the other incidents are in
`Kiosk`, where an operation on a visit is one step, and in `Pages`, where it goes by the steps a page can tell
apart. A visit's category, zones and dates do not change in the core.

### Scheduling

A booking is created, approved or moved after a query for clashes, in a later
statement. `Clash` is the half-open overlap on host, room or visitor of
`findConflicts`. The statuses of a booked visit are reduced to what the calendar
needs: pending, editable, no longer editable, closed. Closing is one step, and for good: that an invitation re-sent for a closed visit
reopens it, beside what was booked since (section 5), is left out of the calendar. A
walk-in has no expected times and so never occupies the calendar. The office of a
visit is the officer's when it was booked; that an administrator may move an
officer to another office afterwards is left out.

### AuditLog

A writer takes the lock, reads the end of the trail, inserts (which draws the sequence number
and meets the foreign key), and commits or rolls back; a reported entry is forwarded
after the commit. A hash is the sequence of everything that went into it, so two are equal exactly
when the hashes of the code would be, collisions apart. The hash is not keyed: by hand (`EditRow`, `DropRow`) a row is deleted,
overwritten or added under a number that was drawn, with any fields and with no hash, a hash that is in the table or the one that
fits what was written. Deleting an account sets the actor of its rows to null. `Verify` is a verification that found nothing and
keeps, as history, the rows it went over (`vouched`).

### Delivery

`NotifyContact` takes the messages of a contact one after the other: `Skip` leaves out one whose channel has no
adapter at the moment its turn comes, `Dispatch` records the row and the message is tried at once. `Attempt` has the
steps of `attemptDelivery` (read, send, record, give up or schedule). `TakeJob` is the queue's
worker, `Stall` hands its job out again, `Crash` ends the process and forgets what runs in it, `RedisDown`
refuses new jobs. `faults` counts what was lost: an answer, an update, a process.

### Posts, Kiosk

`Posts` has what the tables keep (`open`, `staff`, `live`, `place`, `code`, `sessions`) and
what each tablet keeps (`device`, `user`, `screen`, `post`). The requests that sign in and redeem are split at each
statement; an answer may find the tablet gone elsewhere. `Kiosk` takes the tablet of one post further: `screen` is
the state of its React page, `calls` the requests in flight, `Timeout` the timer that
clears the page, `Reset` what the shell does between visitors. Requests about a visit are one step
there, as `Desk` has their statements; those about tags are not. A tap on the reader is awaited for up to half a minute (`ScanNfc`,
`NfcResult`) and then issues the tag to the visit whose badge was up when it was asked for, whatever the screen shows by then.

### Pages

`cache` holds, of each query, the data shown and the read under way, which reads its tables one
after another. `Script` lists the steps of every operation in the order of the code: what it reads to decide (`Accepts`), each
write, each passage recorded and each event. Between two steps others go on, up to the number of requests a session of
the run serves at once; a write is what the handler writes, over whatever the row has become (`Write`), except that a check-in looks
again under its lock (`Refused`). An approval and a re-sent invitation thus end with a late `invited` that nothing announces.
The page's own buttons go by what the page shows; what others ask (`Elsewhere`) goes only by what the handlers check, as
their pages may be of any age. `Deliver` makes the page read again what its handler
names. Three histories say what the page cannot know: `missed` (an event while the socket was away or during the first
read of a query, a failed read, a process that died before it emitted), `struck` (visits an unannounced write took off the
premises) and `mine` (the row the page was last told it changed, until somebody else writes it).

### Directory

An account is created or edited in the library's table and mirrored to the host table by a
request that looks for the account's row, then for its email, and writes. `form`, `sheet` and `booking` are the
dialogs and pages that were filled earlier. `torn` names accounts whose request died between the tables or met
another; the code has no answer to those, and the properties exclude them by name.

### Access, Reports, Console, Workspace

`Access` has a session row per browser (`live`), the signed copy in its cookie (`cookie`) and what
its pages take to be signed in (`shown`). `Requires` is the permission of every procedure of
the routers a page uses; `Offered` is what the menu, the pages and their
buttons ask for, by role. `Reports` splits a request into scope, rows and count, for
every caller: one who may read every report has all facilities as scope. `Console` has a list, an editor, a
draft and a dialog per browser, and saves that go out, are stored and are answered in steps of
their own. `scene` chooses which part moves and which of its operations happen (a bound): every scene of the
three runs about pages keeps the operations whose interplay a property is about.

## 3. The runs

The desk runs check for deadlock: no handler waits for another, and somebody can
always present a code or edit the watchlist. `CHECK_DEADLOCK FALSE` stands where the bounded system may stop:
with all codes issued and every visit closed, every booking closed, every message settled, or a
bound on rows or changes reached.

| run | question | instance | answer |
|---|---|---|---|
| `desk_race` | does a code used at two desks, next to a walk-in, a crash and a lossy webhook, keep the muster list complete and the visitor single? | a booked and a walk-in visit, two codes, two request slots, clock 0..1, one abort | `MusterComplete`, `AdmittedOnce`, and every step is one of `SitePresence` (`KeepsPresence`) |
| `desk_live` | does a check-out that does not die complete, does a lapsed badge die, can a sweep, a check-out and a crash leave a badge behind? | one visit, one desk, one sweeper, one abort | `CheckOutCompletes`, `LapsedBadgeDies`, `GrantsOnSiteOnly`, `OneOverstayOpen` |
| `life_sequential` | is the whole lifecycle right when requests follow each other, with one of them dying halfway? | one guarded visit that needs approval, one walk-in, two codes, clock 0..2, one abort, one kind of request that overrules a visit | `DeskPromises`, `OneActiveCode`, `TerminalStays`, `NoEntryWhenClosed` |
| `life_race` | which of them survive two requests at once? | one such visit, two codes, two slots, clock 0..2, two kinds of request that overrule it | `AdmittedWasApproved`, `AdmittedWasPreRegistered`, `RevokedIsDead` |
| `calendar` | can a sequence of bookings, approvals and moves produce a clash? | three bookings, two officers of one office and two without, two visitors, times 0..2, one slot | `NoDoubleBooking` |
| `audit` | what does a trail that verifies guarantee, and does it never raise a false alarm? | two writers, three numbers, one action, two alterations, one account | `VouchedStays`, `NoFalseAlarm`, `AuditInv` |
| `delivery` | is a message sent once, and in the end settled? | an email and an SMS of one contact and the email of another, two requests, two attempts, one fault, one stalled job, one outage | `DeliveryInv`, `Settles`, `EveryChannelTried` |
| `posts` | can stale rows, swapped tablets or expired logins leave a post open and unstaffed? | two points, two devices, two tablets, two users, two codes, two session rows, one request in flight | `PostIsStaffed`, `PostsInv` |
| `kiosk` | can a late answer or a scan show or admit the wrong visitor? | six devices (both shells with and without a reader, browser; both badge modes), two visitors, a walk-in, a tag, two calls in flight, one of them about a tag | `ConfirmsWhatIsShown`, `KioskInv`, `ScreenClears` |
| `pages` | does every page at rest show the database, and its own changes? | thirteen sessions of a page, a role, the others' operations and one or two requests at once; a visit, a walk-in, an incident, an entry; one event on its way, two passages | `PagesInv`, `OwnWorkShown`, `MusterCatchesUp` |
| `directory` | do accounts, officers and stale forms stay in step? | eight scenes over two accounts, two emails, three officers' rows, two departments and offices, two administrators, two requests | `DirectoryInv`, `HostKeepsItsUser`, `BookedInOffice`, `NothingStaleSaved` |
| `workspace` | do rights lapse, pages offer what is served, reports keep to scope and agree, and stale lists save only what they show? | scenes over two users, two browsers, two visits and facilities, page sizes 1 and 2, three places for rows; a reader who gets another role while he reads | `SessionsLapse`, `OfferedIsServed`, `ScopedRows`, `ReportsAgree`, `SavesKept`, `WorkspaceInv` |

Some of these are conjunctions of named parts, each stated with its own comment in its module:

- `DeskPromises`: `OnMuster`, `EnteredOnce`, `LiveOnSite` (the parts of `MusterComplete`, `AdmittedOnce`, `GrantsOnSiteOnly`) of the
  visits nobody overruled, and `AdmittedWasApproved`;
- `AuditInv`: `TypeOK`, `ForwardedIsRecorded`; `DeliveryInv`: `TypeOK`, `DeliveredOnce`, `CallsBounded`;
- `PostsInv`: `PostsTypeOK`, `OneOpenSession`, `CodeOnce`, `LandingAdmits`; `KioskInv`: `TypeOK`, `BadgeIsAdmitted`, `TagOneHolder`, `ReturnedIsOut`, `TagToldUnderItsBadge`;
- `PagesInv`: `TypeOK`, `OnSiteShown`, `IncidentsShown`, `TrailShown`;
- `DirectoryInv`: `TypeOK`, `OneHostPerUser`, `DeactivatedNotBookable`; `BookedInOffice`: `BookedWithinOffice`, `BookedAsShown`; `NothingStaleSaved`: `RoleKept`, `PolicyKept`;
- `WorkspaceInv`: `TypeOK`, `RowsStayVisible`; `SessionsLapse`: `RightsLapse`, `PasswordChangeEndsOthers`; `ReportsAgree`: `WalkIsTheExport`, `InsightsAgreeWithLog`; `SavesKept`: `SavedAsShown`, `HiddenStaffKept`.

**Why these bounds are enough.** A race on a visit needs one visit, two requests and
one row per operation; the second visit is there so that a step on one is seen not to
disturb the other, and is a walk-in so that `registerWalkIn` is exercised against
check-in. Two admissions are enough to see a second entry, two codes to issue again. `MaxOverrides` bounds how many kinds of request
no page offers are asked: one kind shows what it does to its visit and to the other, two meet each other over one visit. Times matter only through comparisons: a dated visit is due at clock 1
(`MCArrival` and `MCDeparture`, with `Early = Late = 0`), so clock 0..2 lies before, at and after
every limit of its code and badge (`desk_race` asks nothing of
limits and stops at 1). One abort suffices because a request that dies frees its slot and later requests meet what it
left; two aborts only repeat that. In `calendar`, times 0..2 give windows that
overlap, touch and are disjoint, and four officers give a pair that shares a room, a
pair that shares none, and the room-less case. In `audit`, three rows are the least in which a
row in the middle can be altered or deleted, and two alterations the least that rewrite one row and what hides it. In `delivery`, two attempts are the least with a retry and a last one. In
`kiosk`, two calls are the least in which one is answered after the other. In `pages`, the sessions that serve two requests at
once have the pairs in which one writes late: a re-sent or approved invitation, a denial or a cancellation, beside a check-in or the
page's own change; the others serve one, in several steps, while the page reads and its user asks. Two passages tell a trail that is one
behind from one that is not. Events carry nothing, so one on its way stands for many. In
`workspace`, `CacheAge = 1` tells a copy that is young from one that is old, `ExportCap = 1` and
two visits cut a download, page sizes 1 and 2 over three rows give a full, a partial and an empty last page; the
visitor log and the insights share one filter.

Symmetry is used where all the properties of the run are invariants; the symmetric
constants are ids that no definition compares with a constant.

Every property has a mutant in `PROJECT.json`: a change of a code-modelling definition
(the re-check under the lock dropped, a closing update that misses its row, a button
offered in one status too many, an offset of a page too many) under which the same run fails.

## 4. Fairness

`DeskFairSpec` (`desk_live`) has weak fairness of

- each step of a handler that is running: an awaited statement that is not cut off by
  a crash returns, and Node runs the continuation. There is none for starting a
  request: visitors and staff may stay away.
- the sweeper starting a sweep, as BullMQ's repeatable job does every 60 seconds
  (`jobs/maintenance.ts:73`); a sweep that dies is followed by the next one.
- the clock, up to its bound.

A crash (`Abort`) has no fairness and is bounded by `MaxAborts`: the server does not die for ever.
`CheckOutCompletes` is about check-outs that do not die; one that does leaves a visit that
is half closed, and nothing in the code picks it up before the next check-out of
that visit.

`Delivery` has weak fairness of the steps of a running request, of the worker and its taking of
jobs, and of Redis coming back. Faults, stalls and outages have none and are bounded; both liveness properties
except a history in which something was lost, since a lost job is served by nobody.

`Kiosk` has weak fairness of `Timeout` alone, the page's own timer: no call needs to be answered
for the screen to clear. In a plain browser a visitor may keep a page busy, and `ScreenClears` is stated of the shells.

`Pages` has weak fairness of the poll of the muster list, and strong fairness of that list's read and of
its answer: a timer that goes on ticking asks again after each failure, and a network that is tried for ever answers once. A
hidden tab does not poll; the property is of a list somebody looks at. The events have no fairness: what
they promise is stated of a page at rest.

The other runs assume none.

## 5. Disagreements between the code and what it says

Met while the modules were written, most of them as counterexamples to a stronger property than the one
kept. No run shows them now; the modules contain the behaviour, and the properties that are kept say what holds beside it.

Of two requests at once:

- `issueInvitation` writes `invitation_sent` after notifying, whatever the status has become
  (`invitations.ts:165`): a visitor who checks in meanwhile is off the "Full on-site list" (`security.ts:226`), and his
  used code admits again (`checkin.ts:154`, `279`), though check-ins of one code are said to "serialize" (`checkin.ts:269`).
- A visit cancelled or denied after the lookup is admitted, as the re-check under the lock looks only for visits that have begun
  (`checkin.ts:280`); `Help.tsx:849` says closed visits "should not admit a visitor".
- A check-out may overtake the activation its check-in has still to send (`checkin.ts:682`): the controller keeps the badge.
- Two bookings look for clashes before either inserts (`appointments.ts:64`).
- Two tablets that redeem one pairing code together both bind (`points.ts:321`, "One-time"), two sign-ins at one device both leave a
  row, two desks both issue one tag.
- A secretary may book an officer who is moved out of her office between the check and the insert (`scope.ts:3`).

Of one request at a time:

- `denyVisit` (`appointments.ts:165`) and `resendInvitation` (`invitations.ts:182`) write whatever the status is, and `cancelVisit` refuses only
  visits that have begun: a page one event old, or a role that holds `invitation:resend` and not `approve`, takes a visitor who is in off the muster list,
  reopens a visit that was denied, cancelled or is over (`Help.tsx:849`: "Terminal states"), or issues a code for a visit nobody has
  approved. None of the three announces what it did, so other pages go on showing the visitor as in until the next event.
- The verification of the audit trail does not detect "any later deletion/modification" (`audit.ts:75`): rows deleted from the end, rows hashed
  afresh to the end and rows without a hash pass, and so do new numbers, which are not hashed. What it does detect is `VouchedStays`.
- A tag tapped after its badge has gone from the screen is issued all the same, without a word (`CheckIn.tsx:299`).
- Two pending visits that clash block each other's approval, though "the one approved first wins the slot" (`appointments.ts:135`).
- Deleting an account rewrites the rows of the audit trail that name it (`schema/records.ts:73`; line 66 says
  "rows are never modified"), and the verification fails from there on.
- The personnel import reactivates officers an administrator deactivated; the mirror keeps them inactive and says why (`admin.ts:603`).
- A device moved with its point to another facility keeps the facility it was registered with
  (`admin.ts:270`), which the check-in compares (`checkin.ts:441`).
- A category update that leaves fields out resets the required ones, as Zod's `partial()` keeps defaults (`schemas/index.ts:318`).
- The staffing dialog opened again after a save shows the staff from before it, from the cache (`Admin.tsx:2324`); a department's facility,
  once set, cannot be emptied from the page (`Admin.tsx:1252`, where points manage with `null`, `Admin.tsx:2231`).
- Forms and rows are saved whole from lists loaded earlier: of two administrators who edit one row the later wins in
  every field. An answer that comes late closes another row's editor and clears a draft typed since.
- The sockets keep the rooms they joined by a role that was taken away since; a reconnected page reads nothing it missed.
- A lookup answered after a reset leaves a Check in button that sends nothing (`CheckIn.tsx:128`), and a check-in answered after one shows
  its badge to whoever stands there next, until the timer.
- A visit with two check-in records is twice in the log and once in its count (`reports.ts:424`, `439`); rows that
  share a time have no order, so pages may repeat them.

With one request at a time the first group does no harm, and the first item of the second none to visits it did not overrule
(`life_sequential`, `calendar`, `posts`, `kiosk`).

## 6. What is proved

The proofs hold for every set of visits, codes, admissions, bookings, officers, accounts, messages, tablets,
pages and request slots and every bound; only the assumptions stated with the constants are used. Those
say what the code takes for granted: ids are no nulls (`NullIsNothing`, `ConsoleAssumption`), walk-ins are visits
and durations natural numbers (`StoreAssumption`), each officer has an office or none (`SchedulingAssumption`), a
call of `notifyContact` records rows of its own (`OwnRows`), accounts can have emails and officers' rows of their
own (`OneForEach`), a page of a list has room for a row (`ReportsAssumption`), an open page is one of the five there are and the mark
of no read under way is no list of values (`PagesAssumption`), the mark of an unused session id is no row (`PostsAssumption`), a scene starts with rows of its kind.

Some theorems have a further hypothesis, because without it they are false:

| hypothesis | says | needed by |
|---|---|---|
| `Serial` | one request slot | `SerialDeskPromises`, `SerialOneActiveCode`, `SerialTerminalStays`, `SerialNoEntryWhenClosed`, `SerialNoDoubleBooking` |
| `OneSweeper` | one worker runs the sweep, as BullMQ's queue with one in-process worker does | `SweeperOneOverstayOpen` |
| `MaxTagCalls = 1` | one request about tags at a time | `KioskAnswersForVisits` (its part `TagOneHolder`) |
| `[]Unraced` | no two sign-ins at one device and no two redemptions of one code are in flight together | `OnlyTwoRaces` |
| `MaxCalls = 1` | one sign-in or redemption at a time, which implies `Unraced` | `OneAtADevice`, `OpenPostsAreStaffed` |

Section 5 has what happens without the first and the last three.

**`LifecycleProofs`, the desk.** `DeskInv` is inductive: `DeskInit => DeskInv` and
`DeskInv /\ [DeskNext]_vars => DeskInv'` (`DeskInvariant`). From it follow `DeskTypeOK`,
`DeskMusterComplete`, `DeskAdmittedOnce` and `DeskGrantsOnSiteOnly`. None of the last three is inductive:

- `MusterComplete` relates a record to the status of its visit, but a check-out writes the
  record first and the status last. `CheckOutsOK` says for each step of a check-out what it has
  already closed for its visit, so that the last write finds no open record.
- `AdmittedOnce` rests on the locked re-check, which reads the status, not the records: `RowsOK`
  ties them, as a visit that has an admission is `checked_in` or `checked_out`.
- the handlers act on values they read before. `RequestsOK` says what stays true of them: a check-in's code
  still belongs to its visit, and the visit of a check-out has begun for good.

`DeskKeepsPresence` shows that the desk implements `SitePresence`: a visit enters once, leaves
once, and has nothing live after it left. The refinement mapping takes *outside*,
*on site* and *left* from the status of the visit, the passes that are live from badges and permissions,
and the entries not signed out from the records;
every statement of every handler is then a step of the abstract site or a stutter.
This is what the desk promises and a late write of the office breaks (section 5): the
theorems are about `Desk` alone, whose actions write the status only at admission and at
check-out. `SweeperOneOverstayOpen` adds `OverstayInv`: while the sweeper holds a visit it found without an
incident, nobody else raises one for it.

**`LifecycleProofs`, the lifecycle.** Two invariants, for two questions. `FoundedInv` (`FoundedInvariant`) holds for any number of
requests at once. The office may write a status over anything, so it says nothing of statuses; it says what each
handler in flight may still rely on, and that is what no step takes back (`NothingTakenBack`): an approval, a
completed form, the visit of a code or of an admission, the end of a record or of a grant. So a check-in past its gate
has a visit that was approved and pre-registered where its category demands it (`LifeAdmittedWasApproved`,
`LifeAdmittedWasPreRegistered`), and a check-out that tells the controller to forget a badge has closed it
(`LifeRevokedIsDead`). The lemma `FoundedFrame` reduces each step to the rows it writes and the one request it moves.
`SerialInv` adds, for one slot, the invariant of the desk and what the office's writes find: the visit is still in the
status its handler read. Both are stated beside `offPage`. The invariant of the desk takes the set of visits it speaks of as a parameter, all
of them in `Desk` and those nobody overruled here, so what is done to one visit by a request no page offers is shown not to reach another.
An approval may be lacking only where a code was re-sent that way (`Founded`), and no refusal or cancellation gets round it. The step lemmas of the desk are used again for the desk's half. From it follow the desk's four
promises with an office at work, one active code, closed visits that stay closed, and no entry for a closed one. Crashes are
in both: a request that died leaves a slot that is free and tables as they are.

**`ExclusionProofs`, the calendar.** `SchedulingTypeOK` holds for any number of requests.
`SerialNoDoubleBooking` assumes `Serial` and proves `NoDoubleBooking`: the
strengthening says that the write a request has in hand still clashes with nothing
(`InsertFree`, `ApproveFree`, `MoveFree`) and that no row clashes with another (`NoClash`); two windows that
hold one moment overlap in the query's half-open sense. Closing a visit does not disturb it.

**`ExclusionProofs`, the posts.** The invariant is in three parts, each resting on the ones before.

- `GatesInv` holds for any number of requests, in any order (`GatesAlways`): a request in flight belongs to the tablet and the login that
  wait for it (`SomeoneAsks`), a tablet that waits at a gate has asked for that gate's post and asked once (`GateWaits`, `WaitsOnce`). With it
  goes `LandingAdmits`, which compares the finite tables of roles and screens.
- `CodesInv`: a code that a redemption holds was issued and is the one its device had (`CodesHeld`, `CodesFound`), and a code somebody redeemed
  is no device's any more (`CodesSpent`). Two redemptions that both found the code break it.
- `RowsInv`: who signs in has closed the open rows of the device before he inserts his own (`RowsClosed`), an answer that opens a post
  names the row it inserted (`RowOpened`), while he does so no post of that device is open (`PostShut`), and a device two tablets are bound to is recorded as
  such (`SharedKnown`), which is the one case in which a post may lose its row to a stranger. Two sign-ins at one device break it: both
  close, then both insert.

So `OnlyTwoRaces` says more than that one request at a time is safe: requests of different devices and codes may interleave as they like, and
these two races are the only ones. `OneAtADevice` and `OpenPostsAreStaffed` are its consequences for the run's bound of one request.

**`AuditProofs`.** `AuditTamperEvident` and `AuditNoFalseAlarm` hold for any number of writers, entries
and alterations, hashes computed by hand included. Whoever alters the table may write
anything, so the inductive invariant `ChainInv` says little of the rows: no two have one number, what was verified once (`vouched`) is
chained, and the writer that holds the lock has the last number. The theorem is in `Chained` trails themselves: two rows with one hash
have the same fields and the same hash before, so two trails that verify agree from a common hash down to their first rows. `AlarmInv` adds, while nobody
alters the table and no account is deleted, that every row has its hash and continues the one before it, and that what a writer read is still the end of
the trail, which is what the lock is for. `TrailInv` follows a reported entry from its insert to the SIEM: whoever forwards has
committed (`AuditForwardsTheRecorded`).

**`DeliveryProofs`.** `DeliveryIInv` says that a message is in one place: it waits for its turn, is in the hands of one request or of
the worker, or has jobs (`HoldsOne`, `WaitsOnce`). So the number of the attempt a slot holds is that of the row (`RowIsItsOwn`), and a
potential bounds the calls: what was called, what the jobs and the slot will still call, and what the row leaves to try (`Spent`)
is never more than `MaxAttempts` and the losses (`Allowed`). A successful send needs the same account (`GotInv`).

**`KioskProofs`.** A page hears only the calls it made, and what it hears is about what it shows (`Expected`): the latest
lookup is for the input it remembers, a tag is asked for under the badge it goes with. `KioskConfirmsWhatIsShown` and
`KioskTellsUnderTheBadge` follow for any number of calls, answered in any order; the second is about what the page says, as a tap awaited for half a
minute may issue a tag when its badge is no longer up. Answers are also true when they come late
(`Warranted`), as a visit that was checked in stays so or is out (`Forward`).

**`PagesProofs`.** The tables change while a page reads them, so what it shows may be wrong at any moment, and what it is reading too.
`PagesIInv` says of each part of each list (`UpToDate`): the page is still to be told (an event on its way, a request that has one to send
or an entry in `missed`), or what it has read of that part is right, or it has not read it yet.
An answer or a new read keeps that. A write that makes a page wrong leaves its request with an event to send (`PerformKeeps`; `ScriptShape`: what
is announced is announced last); of what announces nothing `RightStruck` shows that it makes no list wrong but by striking a visit off,
which is then in `struck` until every list of statuses is about to be read afresh. At rest there is
nothing left to tell and nothing being read, which is `PagesInv` (`PagesShowTheTables`).
`PagesShowOwnWork` rests on `MineOK`: what a page shows or has read of the row it changed is what the tables hold, since the answer made it read again every
list that has the row (`RefreshSuffices`) and whoever writes the row ends the claim. No order of the statuses is needed, and late writes
may bring an old one back.

**`DirectoryProofs`.** An account is `torn` as soon as it is edited while another request about it runs or one about it has died, so one that
is not has its request to itself. `InStep` says then that the row found by email belongs to nobody else and that what the request holds is
what it will find; a request between the two tables is the only exception to the rows being in step. `InOffice` says of a booking in
flight what its three checks have established, as far as no administrator moved the officer since (`moved`).
`DirectoryHostKeepsItsUser` and `DirectoryNothingStaleSaved` are about steps and follow from the types of forms and requests and the
guards of the writes.

**`WorkspaceProofs`.** One invariant per part, as a step moves only one of them.

- `SessionIInv`: a signed copy is at least as old as the time since its user last had the role it names, and a copy is
  accepted only while it is younger than `CacheAge`; `EndedHasNoRow` is the same of a session that a password change ended.
- `OfferedIsServed`: which role meets which page, and asks for which procedure, are finite tables; a lemma per page and gate
  compares them, role by role.
- `ReportIInv`: the scope a request took is the one its caller had when it asked or got since, and rows and counts taken under it stay within it
  (`ReadingInScope`), statement by statement, while postings and visits change.
- `AgreeIInv`: as long as nothing has changed since it was read, what a report request, an answer, a download or a walk through the
  pages holds is what the log says to its reader *now*; the reader may meanwhile sign in again or get another role (`ReaderChanges`), which
  also counts as a change. Where no two visits share a time the query has one order (`OneOrder`), cuts by offset join up
  (`CutsJoin`), and so many pages as the count asks for hold them all (`PagesHoldAll`); this is `WalkIsTheExport`.
  `InsightsAgreeWithLog` needs that the days of the chart add up to the count in the totals (`DaysAddUp`). The sum is a fold, hence a function
  defined by recursion on sets of days; the number of visits on such days satisfies that recursion, and no other function does, since two that do would
  differ on a least set of days (`LeastSubset`, by `WFMin`), from which one day can be taken away. `WorkspaceReportsAgree` has no
  further hypothesis.
- `ConsoleIInv`: lists, drafts, requests and dialogs are well formed. A page shows the rows of its ranks; ranks are an injection
  into the positions and every position has a row (`Ranks`), so the pages cover the rows that match and none the pager reaches is empty
  (`PagesCover`, `PagesShow`), for every number of rows and every page size.
- `SavesKept`: what a request stores is what its editor showed when it was sent, and a staffing dialog keeps only those
  it did not list (`Candid`).

## 7. Only model-checked

- Liveness and everything under fairness (`CheckOutCompletes`, `LapsedBadgeDies`, `Settles`, `EveryChannelTried`,
  `ScreenClears`, `MusterCatchesUp`) is outside the prover's reach, and so is `ENABLED`.
- `OneOverstayOpen` holds for the one in-process worker, in the run and in the theorem; the serverless deployment, where an external
  scheduler calls the sweep over HTTP and may call it while the last one runs, is not modelled.

## 8. Not modelled

`PROJECT.json` lists each part with the reason. In short:

- transport and wiring (HTTP, OpenAPI, MCP, object storage), rendering and wording (layout, mail templates, help texts, charts),
  external libraries (password hashing and resets, language models), migrations, seed data and deployment have no protocol of their own;
- retention and the rate limiter are a single loop and a counter that no other part reads: a crash between the limiter's two Redis
  calls leaves a key throttled (`ratelimit.ts:23`), and a visitor booked again while he is anonymised loses his
  name (`retention.ts:40`), and neither needs a model to be seen;
- uploads of a pre-registration (an image replaced in two statements, `prereg.ts:155`), badge reprints
  (`credentials.ts:49`, the last printed badge is the good one), and the native bridge of the Android shell;
- what `updateVisit` means for a code issued before the move (`appointments.ts:265`): the dates of the lifecycle are constant.

## 9. The plan

Of what the runs check every invariant and every action property is stated by a theorem (`OneOverstayOpen` for one worker, as its run has it);
the temporal properties of section 7 stay with TLC. What could be added is in section 8: the serverless sweep,
the dates of an appointment that moves, and the uploads of a pre-registration.
