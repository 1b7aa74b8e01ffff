# chore-app: specification and verification

TLA+ models of the chore-app backend (FastAPI, SQLAlchemy, PostgreSQL) and of the
parts of its Flutter client that keep state. TLC checks the models on small
instances; TLAPS proves the most important properties for every instance.

Contents: [the system](#the-system) · [what is hard](#what-is-hard) ·
[the modules](#the-modules) · [the runs](#the-runs) ·
[what was found](#what-was-found) · [the proofs](#the-proofs) ·
[what is not modelled](#what-is-not-modelled) · [the plan](#the-plan)

## The system

A household shares chores. Admins define chores (one-off, or recurring with a
rule); a definition yields *instances*, one per due date, each assigned to an
active member by round robin or by hand. Completing an instance awards points in
a ledger; a leaderboard sums them. A daily job generates instances ahead of
time and flags the ones that are overdue.

Paths below are under `src/backend/app` unless they start with `flutter`, which
stands for `src/flutter_app/lib`.

| Component | State | Operations | What makes it correct |
|---|---|---|---|
| Rotation (`services/assignment.py`, step 5 of `services/redistribution.py`) | `households.rotation_pointer`, unbounded; members ordered by `joined_at` | assign one, assign a batch, adjust for a departure | turns are fair; a batch equals one by one; a departure passes nobody over |
| Members (`api/members.py`, `api/deps.py`) | `household_memberships` (role, active) | remove, change role, leave | an admin always remains; every open chore stays with a member |
| Chores (`api/chores.py`) | `chore_definitions`, `chore_instances` | create, edit, delete a series; complete, dismiss, reassign an instance | an instance is closed once and for good; its award and the ledger agree; a deleted series leaves nothing pending |
| Points (`models/point_ledger.py`, `api/leaderboard.py`) | `point_ledger` rows | written by complete; summed over a window | points stay until the account or the household goes |
| Daily job (`tasks/scheduler.py`) | none of its own; an advisory lock | generate, flag overdue, purge tokens, gather reminders | idempotent; keeps the phase of a rule |
| Reminders (`services/notifications.py`) | none | send after the commit | each chore is announced once, at best |
| Invites (`api/invites.py`) | `invite_tokens` | create, accept, list, revoke | a token admits one person, at most one is active |
| Account deletion (`services/account_deletion.py`) | all of the above, over several households | validate everything, then delete or leave each household | all or nothing; no household loses its admin |
| Authentication (`api/auth.py`, `api/deps.py`) | `refresh_tokens`, `revoked_tokens` | register, login, refresh with rotation and reuse detection, logout | a stolen or logged-out token is useless; a legitimate client stays in |
| Groceries (`api/groceries.py`) | `grocery_items` | add, edit, delete, purchase, unpurchase | rows are independent |
| Transactions (`db/session.py`) | one session per request | commit after the handler, roll back on an exception | a request happens or does not |
| Client session (`flutter/core/auth`, `flutter/core/api`) | stored tokens, authentication state | login, refresh on 401, logout | a logged-out client stays so; one refresh at a time |
| Client lists (`flutter/features/chores`, `groceries`) | optimistic copies of server lists | apply, confirm or revert, refetch | what is shown converges to what is stored |
| Client routing (`flutter/router`, `flutter/core/config`) | route, pending invite, server address | redirect, join, change of server | everybody is on a screen for them; an invite survives a login and is redeemed once |

Interactions. A request handler checks the caller's token and membership
(`deps.py`), works in one transaction and calls services in it: `remove_member`,
`leave_household` and `delete_user_account` call the redistribution, which calls
the rotation; `create_chore`, `reassign_chore` and the daily job call the rotation
directly. All of them meet in three tables: the household row (pointer), the
memberships and the instances. PostgreSQL runs the transactions at READ COMMITTED.
FastAPI commits *after* the response is sent, except where a handler commits itself
(register, create household, create chore). The client refetches after a write.

## What is hard

`PROJECT.json` lists the hazards one by one, with the line where each bites. They
fall into these groups:

- **Arithmetic on a moving base**: an unbounded pointer reduced modulo a length
  that joins and departures change.
- **Reads without locks**: roles, admin counts, a chore's status and even the
  household row are read by plain SELECTs and acted on later. `with_for_update()`
  locks a row but does not refresh an object the session has already loaded.
- **Locks in different orders**: departures and auto-assignment lock the household,
  then chores; completion locks a chore, then shares the household (foreign key of
  the ledger row); creation shares it before it locks it.
- **Long histories**: joins, departures, rejoins, deletions and edits in any order
  must leave every open chore with a member and every award with its row.
- **Repetition**: the daily job runs again on the same day, in another worker or after a
  restart; refreshes, clicks and requests are retried.
- **Time that is read once**: an invite is judged by an instant taken before a lock wait, a
  board by a window computed before its SELECTs, a due date by a floor that moves.
- **Copies**: the client shows lists that it changes itself, fetches in pages, and puts back
  when a request fails.
- **State across awaits in the client**: a refresh shared by several calls, two keys of
  the storage written one after the other, a logout or login in between.
- **Commits after responses, crashes between commit and notification.**

## The modules

| Module | Models | State |
|---|---|---|
| `RoundRobin` | rotation arithmetic as operators | – |
| `Rotation` | the turns the rotation gives | members in order, pointer, turns per user |
| `ChoreLifecycle` | what one instance promises (abstract) | status, holder, award |
| `Household` | one household, a transaction per step | accounts, rotation, admins, pointer, definitions, instances, ledger, date |
| `ChoreRow` | one instance row, an SQL statement per step | committed row and ledger, row lock, per transaction: next statement, draft |
| `HouseholdLocks` | lock sequences on one household and its chores | committed pointer, locks held, per transaction: next statement, loaded pointer |
| `AdminGuard` | membership handlers, a statement per step | roles, per request: next statement, what it loaded |
| `Invites` | the invites of one household, a statement per step | committed invite rows and members, the clock; per request: next statement, the instant it read, rows found and locked |
| `DailyRun` | the daily job in several workers, a statement per step, with its reminders | the date, definitions, instances; per worker: next statement, what its run has read and added, letters to send |
| `Calendar` | dates, recurrence and windows as operators | – |
| `Leaderboard` | the board, a SELECT per step | members, ledger, completed instances, the date; the request and what it has read |
| `AuthTokens` | the tokens of one account on the server | refresh token rows, uncommitted rotations, blocklist, age of the tokens |
| `Sessions` | an installation of the app against `AuthTokens`, what runs between two awaits per step | the two stored tokens, login status, calls, shared refresh, login, logout, late requests |
| `ClientLists` | the app's groceries or chores against the server | committed rows, rows shown, writes in flight, the fetch under way |
| `ChorePages` | the chore list fetched in pages | instances with their `created_at`, the pages so far |
| `Router` | which screen the app shows | status of server and session, storage, location, page on top, pending invite |
| `Rotation_proofs`, `Household_proofs`, `Points_proofs` (of `ChoreRow`, `Calendar` and `Leaderboard`), `HouseholdLocks_proofs`, `Sessions_proofs`, `Invites_proofs`, `DailyRun_proofs`, `Client_proofs` (of `ChorePages`, `ClientLists` and `Router`) | theorems | – |
| `MC…` | constants for TLC | – |

`Household` and `Rotation` are built on `RoundRobin`. `Household` and `ChoreRow`
are both shown to implement `ChoreLifecycle`: `Household` once per instance, with
`status`, `holder` and `credited` read off the instance row and the ledger; `ChoreRow`
for its one row. `Household` is the system when transactions do not overlap;
`ChoreRow`, `HouseholdLocks`, `AdminGuard`, `Invites` and `DailyRun` each take one
table's worth of the same handlers apart to see what overlapping changes. `Sessions`
extends `AuthTokens`: its steps that reach the server are conjunctions with the
server's. `Leaderboard` extends `Calendar`. The three modules of the
client name their specifications apart (`PagesSpec`, `ListsSpec`, `RouterSpec`), so that
`Client_proofs` can extend them together; `Leaderboard` (`BoardSpec`) does for
`Points_proofs`, which is about `ChoreRow` too.

**Household.** One action per handler: `CreateChore`, `UpdateDefinition`,
`DeleteDefinition`, `Complete`, `Dismiss`, `Reassign`, `AcceptInvite`, `UpdateRole`,
`RemoveMember`, `LeaveHousehold`, `DeleteAccount` (the member of a household with
others), `DeleteFormerAccount` (a user who has left it), `DeleteLastAccount` (its
only member), `DeleteHousehold`, `DailyJob`, and `Tomorrow` for the clock. A request
that the code refuses changes nothing, so its condition is a guard. The membership
table is the sequence `rotation` plus the set `admins`; a definition's row keeps
effort, type, rule and first due date; an instance is identified by definition and
due date, as by the unique constraint, and has status "none" while there is no row.
A departure redistributes in the same step: `Depart` and `Redistributed` are
`redistribute_chores_for_removed_member`, with the unordered SELECT of the open
chores as a choice of `queue`. `ON DELETE SET NULL` and `CASCADE` are part of the
deletions. Rules in months are `Calendar`'s.

**ChoreRow.** `LockToClose` is the SELECT … FOR UPDATE of complete and dismiss with
their checks; `ReadOpenRow` and `UpdateAssignee` are the unlocked SELECT and the later
UPDATE of reassign and redistribute; `UpdateWherePending` is the UPDATE … WHERE of
flagging and cancelling, which PostgreSQL re-evaluates after a lock wait. `Commit`
publishes, `Abort` loses the transaction at any point.

**HouseholdLocks.** A handler is the list of its accesses (`Program`), derived from
the order of its queries and flushes; `Conflicting` is PostgreSQL's table of row-lock
modes. A transaction remembers the pointer of the Household object it loaded first
(`Loads`) and writes a pointer computed from it. `Victim` is the deadlock detector.

**AdminGuard.** Authorisation, loading the target, counting the members (deletion of an
account), counting the admins and writing are separate statements; nothing is locked.
What a session has loaded it keeps: `mine` and `loaded` are the rows of the identity map.

**Invites.** An invite is named by the request that creates it. `ReceiveCreate`,
`ReceiveAccept`, `ReceiveRevoke` and the two deletions read the time, or count, or find
rows; `LockInvite`, `UpdateExpiry`, `Insert`, `DeleteHousehold` and `Cascade` are the
statements that can wait, for the requests that `WaitsFor` names: a row lock, the
household shared by an insert or locked by a deletion, the partial unique index on
memberships. An UPDATE looks again at the rows it found, and does not see rows inserted
meanwhile. Writes are published by the `Commit…` actions; `Abort` loses a transaction.

**DailyRun.** A worker starts with a run (`Start`, `lifespan` in `main.py`) and only then
has a scheduler, whose trigger is due at `Midnight` and skipped when the run before is
still going on. `TryLock` to `Commit` are the statements of `run_daily_job`; `Send` is one
POST. `Violates` is what the constraints refuse: a duplicate, or a household that has been
deleted. `Crash` takes the transaction, the letters and the due trigger along.

**Calendar, Leaderboard.** `Ordinal`, `PlusDays` and `PlusMonths` are Python's calendar,
`Stepped`, a fold of the loop's body `OneStep`, and `DueDates` are `_compute_due_dates`,
`Window` is `_compute_window`. The board's three SELECTs are `ReadMembers`, `ReadPoints`
and `ReadChores`; completions, late hand-overs of completed chores (`HandOver`, the
`LateHandOver` of `ChoreRow`), joins, departures, deleted accounts, the deletion of the
household and midnights come between them. `by` is history, the assignee at the completion,
by whom points are told from chores. `Orders` has the one order that sorting by name, then stably by points,
leaves; `Ranks` counts the falls before a member, which is where `current_rank` grows.

**ClientLists.** One module for the two lists, because they take over answers in the same
few ways: a tick is shown at once (`Ticks`), an edit or an addition with its answer, and
most writes of chores are followed by a fetch (`Refetches`). A write is `sent`, executed
(`open`), then answered and committed in either order, or refused; it can fail for the
client at any point (`Fail`). A fetch can fail too (`FetchFails`): the list is then an error
in which no row can be changed or added, until a fetch arrives or a failed tick puts its
list back. `Foreign` is another device. The variable `troubles` is
history: what has happened since the last undisturbed fetch that may leave the list
wrong. Properties use it to name their exceptions.

**ChorePages.** `Count` and `Select` are the two queries of one page, `Loop` the
condition of the client. `Create` stamps rows with the beginning of their transaction, so
rows can appear behind the window as well as before it.

**Router.** `Redirect` is the redirect function, `GoTo` a location that replaces what is
there, `Now` the refresh after the server's or the session's status has changed, `Push`
and `Pop` a page on top (household management, server settings). `UrlRead` and
`TokenRead` are the two reads of storage at a start, in any order and slower than
anything else; the first is not guarded against storage that throws (`UrlReadThrows`), the
second is. `OpenLink` is a link opened while the app runs, whatever it shows; `BeginJoin`
and `JoinAnswered` are the join screen, which keeps its state when one link follows
another, since both are the route `/join/:token`. Screens under one household
are one location.

**AuthTokens.** A login or refresh issues an access and a refresh token together, so one
number names both. `Issue`, `Exchange`, `Refuse`, `RevokeAll` are the handlers;
`get_db` commits a login or rotation after the response, so it is `pending` until
`Commit` or `Rollback`. The other writes (`AllEnded`) are visible at once: nobody can
tell the difference but the client that has sent the request. Logout on other devices,
password change and the operator's reset are `EndEverySession`; `Expire` is time,
`Purge` the daily job.

**Sessions.** `Send`, `ServeCall`, `CallFails`, `OnRefused` are a request in the
interceptor; `refreshing`, `login` and `logout` say how far `AuthNotifier.refresh`,
`AuthFormNotifier.login` and `AuthNotifier.logout` have come, with the token each
holds. `Resumed` is the completion of the shared future. A request the client gives up
on may still arrive (`late`, `ServeLate`); `Restart` kills the app and runs
`_initialize`. The storage may throw at each step that reads or writes it: at a start the
app is then logged out for want of it (status "unread", `Restart`), tokens that were granted
are not stored (`RefreshNotStored`, `LoginNotStored`), keys are not cleared (`NotCleared`,
`LogoutNotCleared`), no refresh is begun (`OnRefused`) and the server is not told of a
logout (`LogOut`). The variable `events` is history: it says whether an answer, a commit or
the storing of tokens was `lost`, a session was `ended` by somebody, a refresh was `early` (its token not yet
committed) or flows of the client have `crossed`. Properties use it to name their
exceptions; the only guard on it is the bound. Left out: registration (a login for
this purpose), the change of
server (it clears the tokens as a refused refresh does), rate limits.

**Mutants.** Definitions marked `Mutant` are wrong variants of the definition that
follows (a dropped guard, a missing lock, an off-by-one). They are part of no
behaviour; each property is known to fail when one of them takes the place of the
right definition.

## The runs

| Run | Instance | Shows |
|---|---|---|
| `household` | 3 accounts, 1 series, 3 due dates, days can be missed | an admin remains; open chores are held by members; ledger and instances agree and points are kept; a deleted series has nothing pending; the daily job is idempotent; every instance implements `ChoreLifecycle` |
| `rotation` | 4 members, batches to 3, pointer to 12 | fair turns; batch = one by one; first-lap departures pass nobody over, with open chores to hand on only if the member stood at the pointer or behind it |
| `row` | 2 transactions of any kind, fairness | at most one award, never reopened, `ChoreLifecycle` up to late hand-overs, every transaction ends |
| `locks` | 3 transactions of any kind, 2 chores | no assignment lost, no turn given twice, which handlers deadlocks need |
| `admins` | 3 users, 2 requests at once | a counterexample: see the next section |
| `invites` | 3 users, 4 requests of any kind, 9 instants | a token admits once; one open invite; an ended one is refused; nobody loses a household to another's account |
| `daily` | 2 workers, 1 daily series, 3 days, 1 crash or error, fairness | no collisions; nothing left pending of a deleted series; announced at most once; every due date is seen to |
| `calendar` | 3 users, 2 chores, 3 days across a week's and a month's end in a leap year, 27 series | a board read in pieces adds up but for late hand-overs and deletions; due dates keep their cadence |
| `sessions` | 2 calls at once, 2 pairs of tokens, 1 late request, any 2 kinds of event, a storage that throws | refresh tokens are presented once; a session lasts; a logout sticks; nobody waits for a refresh that is over |
| `lists` | 2 rows, 2 writes at once, or 1 beside a change elsewhere, failing fetches, either list | the list settles on what is stored; no row is listed twice |
| `pages` | 5 chores of 2 series, 2 pages of 2, equal and different stamps | nothing left out, nothing twice |
| `router` | 2 invite links, 2 restarts, fairness | everybody is where they belong; invites opened in time survive; no stale join; the splash is left |

Many properties name their exceptions: the code does not promise more, and the property
says that nothing else goes wrong. The exceptions are collected in the next section.

Bounds and why they are enough.
In `household`, `LastDay`, `DaysAhead` and `GraceDays` are small but in the order that
matters: there are days inside and beyond the horizon, a job that has been missed
backfills a date that is overdue at once, and a due date can fall out of the grace
period. Three accounts give a remaining admin, a departing one and a bystander.
`MaxPointer` bounds the stored pointer in `Household` to one lap and in `Rotation` to
three laps of four members; the pointer enters only through its residue and its
comparison with zero. In `ChoreRow` each property constrains pairs of transactions; the
safety properties are also proved for any number. In `HouseholdLocks` three transactions
on two chores and one household row allow every circle of two and of three.
In `Invites` every property is about two requests on one token that another request
has created, and the fourth request is what can disturb them; the clock lets one invite
expire while the others are used. In `DailyRun` two workers are what a lock is about; one
crash or error hits any statement of either; households share only the transaction, so
one series (with a household of its own) and the runs of three days meet every case
between a run and a request. In `Leaderboard` two equal efforts tie; the first date is
the Sunday before the last day of February in a leap year, so that the week and the month
end on different days; the series have first dates before and after it, on and off the
29th to the 31st, with every unit.
In `ClientLists` two writes on the same or on different rows overlap at every stage, with
any number of fetches; a change of another device excuses the list until a fetch that
nothing has disturbed, so it is combined with one write at a time (`OneWriteAtATime` in
`MCClientLists`). In `ChorePages` five rows do not fit into two pages, three or four need
both. In `Router` two links tell the one that is kept from the one that is opened.
In `Sessions` two pairs of tokens are a login and a refresh, or two logins; two calls are
what it takes to share a refresh or to come just after one; any two kinds of event combine
(`FewEvents` in `MCSessions`). Users, requests, rows, calls and chores are symmetric where
the run has no liveness property.

Deadlock checking is off where the model ends: transactions run once (`ChoreRow`,
`HouseholdLocks`, `Invites`), `Household` stops at its bounds or with its last account,
`DailyRun` with its last day, `Leaderboard` with its answer, and `Sessions` when its
tokens are used up.

Fairness. `ChoreRow!FairSpec` assumes that a transaction that has begun keeps
executing its statements (`WF` per request): an `async` handler awaits only the
database, and the database grants a lock that is free. `DailyRun!FairSpec` assumes per
worker that a process that is down is started (`restart: unless-stopped` in
`docker-compose.prod.yml`), that a due trigger fires, and that a run goes on (its only
waits are for the database, and for a POST with a timeout); and that days pass. `Router`
assumes that the two reads of storage end, with a value or an exception. Nothing is
assumed about requests arriving, people acting, answers, or transactions failing.

## What was found

One run ends with a counterexample to the repository's documents:

- `admins` – two admins who leave, delete their accounts, step down or remove each other
  at the same moment both pass the guard, which is a count without a lock (FR-019,
  `members.py:118`, `account_deletion.py:99`).

The rest was seen while modelling; the passing properties name each as an exception, or
the model has it as it is.

On the server:

- The rotation pointer after the first lap (`redistribution.py:124-133`): positions are
  compared modulo the old length but *one* is taken from the unbounded pointer, so the
  next member does not stay next. In the first lap it is right, if there are no chores to
  hand on: that is a theorem.
- The departed member's chores are handed out before the pointer is adjusted
  (`redistribution.py:115`), among the members who remain but from the old pointer. If the
  departed member stood before the pointer, this passes over the member who is next, and
  the last one served is served again, against BR-002 (`docs/requirements.md:170`, "doesn't
  skip the next eligible member"). With [A, B, C], B next and A leaving with one open
  chore, C gets it and is next again. `FirstLapDeparturesSkipNobody` fails with exactly
  these departures added.
- Reassign and redistribute decide on an unlocked read; a chore completed in between
  changes its assignee after it was closed, and the ledger keeps the one who was credited
  (`chores.py:594`, `redistribution.py:5`; `LateHandOver` in `ChoreRow`).
- The redistribution loads the Household before the lock is taken; a concurrent
  assignment's pointer is overwritten (`redistribution.py:65`, NFR-007).
- `create_chore` with auto-assignment can deadlock with itself: two of them share the
  household row by their inserts before each asks to lock it; the database fails one.
  `OrderlyNeverDeadlock` names the handlers that every circle needs one of: create,
  complete, delete definition, daily job.
- `refresh_token` does not commit before it answers, against the convention of
  `session.py:19-22`: a second refresh that comes at once is refused and logs its user
  out.
- Two invites created by overlapping requests both stay open (`invites.py:49`). Revoking
  an invite again moves its expiry forward (`invites.py:195`), so a request that has
  already read the time can still redeem it.
- A household that is deleted under a run of the daily job fails the run for all
  households; the next midnight or start makes up for it (`scheduler.py:195`). A series
  deleted under a run can keep a pending instance (`scheduler.py:123`). A crash after the
  COMMIT loses that day's announcements (`scheduler.py:345`).
- A monthly series that begins on the 29th, 30th or 31st moves to an earlier day in the
  first month that is too short and stays there (`scheduler.py:92`).
- Completion reads the effort of the definition as it is then, so an edit changes the
  worth of instances that exist (`chores.py:664`; FR-031 can be read otherwise). A logout
  with an expired access token is answered with 401 and revokes nothing (`RevokeAll`;
  FR-005).

On the client:

- A logout that crosses a refresh can leave an access token in the storage (the exception
  in `NothingStoredWhileOut`).
- An invite link that starts the app, or is opened before the app knows its server and
  session, is forgotten by the redirect to the splash or server screen
  (`app_router.dart:109-117`), although the comments on the redirect (146-148: "a deep link
  opened on a fresh install already goes server-setup → login/register → join, as required")
  and on `PendingJoinNotifier` count on it, and `join_route_test.dart:183-186` takes the
  `go` of a running app for it. The variable `untimely` marks these links.
- A link that is opened while the join of another is under way is lost as well: the screen
  of that join keeps its state and has begun its one join (`join_invite_screen.dart:32-36`).
- A storage that throws at the start of the app shows its user the login, with the tokens
  still stored; the next start is logged in again (`auth_state.dart:125`). When it throws
  after a refresh was granted, the old token is kept, and presenting it again ends every
  session (`auth_state.dart:201`, `auth.py:197`).
- `ServerUrlNotifier._initialize` does not catch what storage throws, which leaves the app
  on its splash screen; `AuthNotifier._initialize` does, for that reason.
- While logged out, the server settings pushed from the login screen are redirected back
  to the login.
- A session that ends with the join screen still up keeps the token again, and the next
  login begins that join once more.
- A grocery item is listed twice when a fetch comes between its addition and the answer
  (`groceries_provider.dart:39`). A failed tick puts back a list from before other
  changes, also in place of the error of a fetch that has failed meanwhile. A list that is
  fetched before the COMMIT of an answered write misses it until
  the next fetch.

## The proofs

`tlapm` checks every proof; nothing is assumed but the `ASSUME`s on the constants: finite
sets of users, definitions and chores, `NoUser` not a user, a founder among the users, the
household's row none of the chores' rows, tokens that are no pages, finitely many
instances to list, `NoRow` no row, first dates that are dates, rules with a unit and a
positive interval (`schemas/chore.py:29`), natural bounds. What
follows holds for every number of users, chores, days, transactions, workers, calls,
rows, pages, tokens, series and links, and every bound.

Each module states an inductive invariant `IInv`, with a comment on each part; one lemma
per action shows that it is kept, and the theorems follow from it.

- **`Rotation_proofs`** begins with the arithmetic: a turn falls on a member; removing
  position *k* leaves the other members in order; a whole lap more is the same turn;
  in the first lap the turns that a departure gives follow on from the one that was next
  (`FirstLapTurns`), if there are none or the member stood at the pointer or behind it.
  Then `TypeCorrect`, `FirstLapAlways`, `TurnsAreAlwaysFair` and
  `BatchIsAlwaysOneByOne`. `FairTurns` is not inductive, it says nothing of who is next.
  `TurnsAreCounted` does: there is a pointer, the one at which the members last changed,
  such that each member has had as many turns as the pointer has passed their position
  since (`Passed`). A batch passes a position as often as that many single turns do
  (`TurnsInABatch`), and two positions differ by one at most (`LapsAreFair`). That a
  batch is the same as its chores one by one is shown by induction on its size.
- **`Household_proofs`**, first part: `TypeCorrect`, `AlwaysAnAdmin` and
  `OpenChoresAlwaysHeldByMembers`. `IInv` adds two parts to the properties: an instance
  has a definition (completion reads its effort), and a household without members has no
  definitions (generation never runs on an empty rotation, so it never leaves a chore
  with nobody). Departures share the lemmas `DepartKeepsPeople` and
  `RedistributionFindsMembers`, closing and reassigning share `RewritingOneRowKeepsIInv`.
- Second part: `LedgerAlwaysMatches`, `DeletedSeriesStayQuiet`, `PointsAreAlwaysKept`,
  `DailyJobAlwaysIdempotent`, and the refinement `LifecycleAlwaysKept`. The invariant
  `LInv` is `IInv` with the first two. Most actions leave the ledger alone and rewrite no
  completed row (`LedgerUntouched`); a completion writes both records (`RecordsAgree`), a
  deleted account takes both along (`LedgerOfAnErasedAccount`). For the refinement each
  step is read as one of the moves an instance can make (`NextMoves`), and each move as a
  step of `ChoreLifecycle` or a stutter (`MovesAreLifecycleSteps`): who is credited at a
  completion is the holder because the ledger has no row of an open instance
  (`CreditIsHeld`).
- **`Points_proofs`**, one chore: `OneAwardAlways`, `ClosedForGoodAlways`,
  `HolderIsCreditedAlways`, and the refinement `KeepsLifecycleAlways`: for any number of
  concurrent transactions every step is a step of `ChoreLifecycle`, a stutter, or a late
  hand-over. The invariant says what makes row locks work: only the holder of the lock is
  between its statement and its COMMIT, and its draft is based on the row as it is
  committed now. That a completion is *the* step `Complete` needs `OneAward`: before it
  the ledger is empty.
- The board (`BoardIsAlwaysRight`, and `BoardTypeCorrect`). `BoardIInv` says that ledger
  and completed instances are in step (`RecordsAgree`), that the window is that of today
  until a midnight crosses the request (`AsWindow`), that what has been read is what is
  stored until something is committed (`ReadIsStored`), and, whatever is committed but a
  deletion or a late hand-over, that what has been paid was completed (`PaidWasCompleted`).
  `RecordsAgree` goes by who was the assignee at the completion, which no hand-over changes. The rest is about
  the operators: a day is in the window exactly if it is in the week or month of today
  (`WindowIsPeriod`); the sum over the ledger rows of a member is that over their chores,
  the rows being in one-to-one correspondence (`SumOfTheSame`, `PointsAreEarned`); and
  each total above one's own is left at one fall of the order (`RanksCountTotals`), which
  is why counting falls is dense ranking.
- The cadence (`CadenceIsAlwaysKept`). First the calendar: months follow each other without
  a gap (`MonthsFollow`), so the ordinal of a date tells its month and day
  (`OrdinalsTellDates`), every day number is one date's (`FromOrdinalIsRight`), and adding
  days or months does what its name says (`PlusDaysIsRight`, `PlusMonthsIsRight`). Then the
  loop: its state depends on the number of steps alone (`StepsAreCounted`), each step is an
  interval of at least the shortest length until the horizon is passed (`StepsAdvance`), so
  the bound on the steps in `Stepped` is enough (`SteppedInTheEnd`), and a horizon one day
  later adds at most the date that falls on it (`OneDayFurther`). `DaysAreInStep` and
  `MonthsAreInStep` say which dates come out.
- **`HouseholdLocks_proofs`**: `AssignmentsAreNeverLost`, `TurnsAreNeverGivenTwice` and
  `NeverAnOrderlyDeadlock`. The handlers are programs, sequences of accesses, so a part
  is about them (`ProgramsAreWellFormed`, by kind): a call that gives turns locks the
  household, and an orderly one has locked it before it asks for a second lock. The
  invariant: a transaction holds exactly the locks of the statements it has executed
  (`LocksAreKept`), locks of two transactions do not conflict (`LocksExclude`), and,
  without departures, whoever holds the lock of the household has loaded the committed
  pointer (`LoadedUnderLock`) and the turns given lie behind it (`TurnsAreBehind`).
  In a circle everybody holds a lock and asks for another; orderly transactions would
  all hold the lock of the household, which has one holder.
- **`Sessions_proofs`**: `TypeCorrect`, `NoTokenEverUsedTwice`, `NobodyEverWaitsInVain`,
  `SessionsAlwaysLast` and `NothingEverStoredWhileOut`. `IssuedOnly`: rows, pending
  rotations and the tokens that reach the storage have been issued. `Unspent`: as long as
  nothing was lost, neither the token of the refresh under way, nor that of a login, nor,
  between refreshes, the one in the storage has been used, and a login's token is its
  own; that is why the refresh has to be shared. `Lasting`: as long as nothing was lost,
  ended or early, the token the client presents next is *valid*, exchangeable now or once
  a commit is through; that the time which ages access tokens leaves it so is
  `TimeKeepsValid`. `InStep`: as long as refresh, login and logout have not crossed, they
  take turns, and whoever is about to write to the storage agrees with the status. A start
  that could not read the storage has no calls, so nothing is begun until a login
  (`TakeTurns`), and what it found stored is still there (`Undisturbed`).
- **`Invites_proofs`**: `TypeCorrect`, `SingleUseAlways`, `OneOpenInviteAlways`,
  `EndedIsAlwaysRefused` and `HouseholdAlwaysGoesWithItsLastMember`. `IInv` says why the
  row lock is enough for single use: between its SELECT … FOR UPDATE and its COMMIT an
  accept holds its token, which is not used (`RedeemersHoldTheirToken`); no row is locked
  twice (`OneLockEach`); and what has been redeemed is used. `OverlapInv`, on top of it,
  says what a request may rely on while others go on: whoever creates an invite has
  found, then locked, every other open one but those of requests it has met
  (`CreatorsKnowTheOthers`); an ended invite's time is up, and only a revocation that has
  met its reader puts it off (`EndsAreEarly`); who joins after the members were counted
  has met the deletion (`NewcomersAreLate`). The named races are thus the only ones.
- **`DailyRun_proofs`**: `NoRunEverFailsOnADuplicate`, `DeletedSeriesAlwaysStayQuiet` and
  `NothingAnnouncedTwice`. The advisory lock is `OneRun`. `DraftsAreTheirs`: what a run is
  about to insert does not exist, what it has flagged nobody else closes or deletes, and
  it has read the definition of each. `ToldOnce`: what has been flagged and committed is
  in the letters of one worker or announced once, and can never be flagged again, even
  when its household and its row are gone.
- **`Client_proofs`**, the pages (`PagesLeaveNothingOut`, `PagesRepeatNothing`). The offset
  of a page says how many rows have been read, so what counts is the *rank* of a row: how
  many listed rows are newer (`Rank`). The invariant: what has been read and is still listed
  has a rank below the offset (`ReadIsNewest`), what was there and is still missing has one
  that is not (`RestIsOlder`). A row that is created moves the others down, one that is
  deleted moves them up, so each breaks one half, which is what the exceptions of the two
  properties say. That row *k* of the SELECT's order is the one of rank *k* − 1 is shown
  from `Newer` being a strict total order (`RankIsThePlace`); that there is such an order the
  runs show.
- The lists (`RowsAreListedOnce`, `ListsShowWhatIsStored`). The invariant of a list at rest
  has to say, for every write under way, how what is shown, what is stored and what a fetch
  is going to bring differ at its row: `ServedRight`, `FetchedRight` and `ShownRight`, by the
  stage the write is at; and that at all other rows they agree. This holds as long as no two
  writes under way are for one row (`OneCallPerRow`) and none of the named troubles came.
  Three parts hold always: an error lists no row (`ErrorInstead`); a tick that nothing has
  joined goes back to the list it came from but for its own row (`LoneTickIsUndone`), which
  is why a failure alone is reverted exactly; and an id that the server has not given yet is
  nowhere (`IdsAreFresh`), which is why an addition repeats no row unless a fetch comes
  between (`AddedOnce`).
- The screen (`EverybodyIsWhereTheyBelong`, `InvitesAreAlwaysKept` and `NoJoinIsEverStale`). A
  redirect always finds a place that it would leave alone (`RedirectFindsAPlace`), whatever
  invite is kept (`Belonging`). The invariant adds where pages can be pushed
  (`PushedOnScreens`), that the address is read before anything is known of the server
  (`UrlReadFirst`: a second reading could otherwise undo a server that was set), and that an
  invite that is kept or on the screen has not begun its join (`JoinsBeginOnce`).

The proof of each property the runs check fails when the property's mutant takes the
place of the right definition. CHOOSE is kept out of what the SMT solver sees: this
version of the prover translates `x = CHOOSE y : P(y)` to `P(x)`, which other values than
the chosen one satisfy. The recursive function `OneByOne` is a CHOOSE; that it satisfies
its recursion (`OneByOneUnrolls`) is shown from the existence of a solution, with Zenon.
So are the folds: `SumFunctionOnSet` and `FoldSet` choose a function on the subsets of a
set and take an arbitrary element first; that there is one (`SomethingSumsUp`,
`SomethingStepsUp`) and that the order makes no difference (`SumsInAnyOrder`) is shown by
induction on the number of elements.

Induction over numbers works without the library's theorems, which take an operator: the
numbers that have a property are a set, the least number outside it would have a
predecessor inside it (`AllNaturals`).

Only model-checked:

- liveness (`EveryRequestEnds`, `EveryDueDateIsSeenTo`, `SplashIsLeft`), which is out of
  the prover's reach;
- that an action with a chosen order is possible, in `ChorePages` and in `Leaderboard`: a
  set can be sorted;
- the violated property of `AdminGuard`, which is refuted.

## What is not modelled

`PROJECT.json` lists every component with its status. Left out for good: the user
interface, database migrations, chore templates and the flag that hides them,
registration (a login for this purpose), rate limits, password hashes, listing endpoints
that only read, the validation and probe of a server address, renaming a household.
Within the modelled parts:

- titles, categories and other texts; ties of `joined_at`; the filters of the chore list;
- several households in one account deletion, which share only the user; elsewhere
  households share nothing but the daily job's transaction, which `DailyRun` has;
- `DailyRun` leaves who a chore is given to, and the rotation, to `Household` and
  `HouseholdLocks`, and leaves out due-today reminders, which every start repeats
  (`main.py:56`) and which keep no record;
- `ClientLists` gives a series one chore, so a deleted series leaves the list with it;
- `Router` takes `go_router` as it is documented: a redirect is asked again for the current
  location when the listenable fires, and for what is pushed; a page's key is its route's
  path, so two links to `/join/:token` share a screen;
- in `Sessions`, a storage that throws in the interceptor itself (`api_client.dart:47`,
  `89`), where nothing but that request is concerned; a write that throws has written
  nothing.

## The plan

Done: all modules above. What would come next, in this order:

1. An auto-assignment against a concurrent departure of the member it picks, statement by
   statement (`assignment.py:123`).
2. Account deletion over two households with concurrent joins.
