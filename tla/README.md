# Verification of volunteer-api

TLA+ models of the server in `src/src` (NestJS, TypeORM, PostgreSQL, socket.io),
checked with TLC and proved about with TLAPS.  The code is the reference; every
definition that models code is listed with its lines in `PROJECT.json` ("map").

## 1. The system

People post requests for help; a request is broken down into tasks on a Kanban
board; volunteers take tasks, report, and are rewarded with trust; organisations
manage requests and delegate tasks to each other.

| component | state it keeps | operations | talks to |
|---|---|---|---|
| Task board (`tasks.service.ts`) | `tasks`, `task_assignments`, task chats, the trust score of users | create, update, delete, assign, withdraw, complete, return, confirm, reject, cancel, renew, change the status of an assignment | writes the status of the request, makes chats, notifies, joins sockets to rooms |
| Delegation (`tasks.service.ts`) | `task_delegations` | delegate, accept, unaccept, decline | writes `requests.managing_organization_id` |
| Request lifecycle (`requests.service.ts`) | `requests` | create, update, addInfo, markAsPendingReview, cancel, confirmCompletion, returnToProgress | makes the first task; the task board completes requests |
| Users, vouches, clearance (`users.service.ts`) | `users`, `trust_vouches` | block, unblock, vouch, restore, revoke, changeRole, updateClearance | withdraws assignments on a lost clearance |
| Organisations (`organizations.service.ts`) | `organizations`, `organization_members`, `organization_join_requests`, hubs | create, leave, add, remove, change roles, join requests, chat | org chats through the chat service |
| Authentication (`auth.service.ts`) | token hashes, codes and expiries in `users` | register, login, refresh, logout, password reset, e-mail verification | JWT, e-mail |
| Chats (`chat.service.ts`, `chat.gateway.ts`) | `chats`, `messages`, socket of each user | direct chats, messages, read marks; connect, disconnect, rooms | called by the task board |
| Task reports (`task-reports.service.ts`) | `task_reports` | create, edit, verify, delete | |
| Request list and details (`requests.controller.ts`, `requests.service.ts`) | `access_logs`, `saved_requests` | list page by page, open with a log entry, bookmark | reads `requests` and the level of the reader |
| Notifications, e-mail, uploads, guards, bootstrap | none that others decide on | | |

**How calls run.** One Node process serves all calls.  A handler runs without
interruption up to its next `await`, and every `await` is a database statement:
between two of them any other handler may run.  Only
`TasksService.assignVolunteer` opens a transaction and takes a row lock
(`SELECT ... FOR UPDATE`, `tasks.service.ts:204`).  Everywhere else a handler
reads, decides, and writes later; what it writes may be a whole entity it read
earlier.  `Repository.save` reads the rows once more, compares them with the
entity and writes the columns that differ, the related rows of a cascading
relation included.  A process that stops or a statement that fails ends a handler
between two statements; what it wrote stays.

**What is hard about it.** Interleavings of two handlers, saves of old copies,
handlers that stop half way, long cycles of legal calls (assign, withdraw, reject,
cancel, renew) and races of check and write.  `PROJECT.json` lists each such
hazard with its line and the properties that watch it.

**What makes each part correct**, as far as a property says it.  Board: nobody is in
a task chat who is neither the author nor has an assignment on the task; a task that
is over takes nobody; the lock is always given back; and, one call at a time, whoever
works on a task with a chat is in it and a review is rewarded once.  Delegation: no
more organisations hold a task than calls are in flight.  Requests: a save that
nobody interfered with touches its own columns, a completed request is cancelled only
by an edit or a stale copy, an owner edits before work has begun.  Clearance, one call
at a time: a completed call leaves justified levels, and who loses FRONTLINE has no
work left.  Organisations: what a call checked is still so when it acts, unless
another wrote meanwhile; an approval is followed by an admission or by one that
failed.  Sessions: a replaced token, a spent letter and an ended session come back
only through calls that overlapped.  Chats: whoever hears a chat takes part in it (not
the converse), and a client that follows it misses only what came late or in too many
at once.  Reports: a
verified text was shown to its verifier.  List: a reader who pages to the end misses
no more than left the list.

What is *not* promised, because the code does otherwise: that an organisation keeps a
leader, that an approved applicant is a member, that a socket is in every room of its
user, that a request whose tasks are done completes, that whoever may list a request
may open it, that a stale copy revives nothing.  The notes of the hazards name these
cases.

## 2. Plan

Modules, in the order in which they were written.

1. `TaskBoard` with `TaskBoardInvariants`, `MCTaskBoard`, `TaskBoardProofs`: the
   part everything else leans on, and the only one with a lock.
2. `TaskOwnership` (what delegation promises) and `Delegation`, which implements it,
   with `MCDelegation` and `DelegationProofs`.
3. `Clearance` with `ClearanceProofs`: vouches, bans, levels.
4. `Calls`: what all services below have in common, calls in flight.
5. `RequestLifecycle` with `MCRequestLifecycle`, `RequestLifecycleProofs`: the
   requests service beside the statuses the board writes.
6. `Membership` with `MembershipProofs`: organisations, members, join requests, hubs.
7. `Sessions` with `SessionsProofs`: refresh tokens, reset codes, e-mail verification.
8. `ChatRooms` with `ChatRoomsProofs`, `TaskReports`, `RequestFeed`; `MCServices`
   checks 6 to 8 in one run, and `ServicesProofs` has the theorems about
   `TaskReports`, `RequestFeed` and the composition.

Left to do: the composition of `Clearance` with `TaskBoard` (a withdrawal on a lost
FRONTLINE leaves the task IN_PROGRESS); profiles and `changeRole`.

## 3. The modules

### TaskBoard

One request, its tasks and the people on them.

| in the model | in the code |
|---|---|
| `task[t]` (life, status, chat) | row of `tasks`: `deleted_at`, `status`, `chat_id` (0 is NULL) |
| `assignment[t][u]` | row of `task_assignments`; one per task and user, never removed |
| `chat[t][i]` | `chat_participants` of the i-th chat made for the task |
| `request`, `trust[u]` | `requests.status`, `users.trust_score` in steps of 5 |
| `call[h]` | the local variables of handler h between two `await`s |
| `owed[t]` | history: the task was sent to review and has not been rewarded since |
| `overlaps` | counts calls that start beside another one, for a bound |

Each method is a first action (`completeTask`, `cancelTask`, ...: its reads and its
refusals) and one action per later statement (`Settle`, `Diff`, `Write`, ...).
`Repository.save` is two actions: `Diff` reads the rows again and keeps what differs
from the copy, `Write` executes the updates in one transaction.  An assignment that
was inserted after the copy was read would be saved with `task_id` NULL, which the
column refuses: the call fails.  `assignVolunteer` is the first action (lock, reads)
and `CommitAssignment` or `RefuseAssignment`: nothing inside the transaction is
visible before the commit.  Other writers of the task row wait for the lock
(`~Locked(t)`); readers do not.  A refused call changes nothing and has no action.

`TasksService.create` is one insert.  The time limit of `returnToProgress` may
or may not refuse, so the model lets it pass; the clearance check of
`assignVolunteer` is the constant `Cleared`.

Comments of the code disagree with it in one place that needs no run: the block at
`tasks.service.ts:195` announces a new chat for each assignment, and line 307 adds
the volunteer to the chat there is.

### TaskOwnership, Delegation

`delegation[t][o]` is `is_accepted` of the row of a task and an organisation, with
"waiting" for NULL; `managing` is `requests.managing_organization_id`.  A delegation
row is never removed, so `save` needs no two steps here.  `LookForAnother` finds one
accepted row, any of them, as `findOne` without an order does.  `TaskOwnership` says
what delegation is for: a task is taken over only while fewer than `Limit`
organisations hold it.  `Delegation` implements it with
`owners[t] = Accepted(t)` and `Limit` the number of calls that can be in flight: the
check of `acceptDelegation` excludes whoever has already saved, and each call in
flight can add one more owner than it saw.

### Clearance

| in the model | in the code |
|---|---|
| `level`, `granted`, `blocked`, `verified` | columns of `users` |
| `vouch[u][v]` | the row of voucher v for vouchee u; `is_suspended` |
| `work[u]` | the tasks with an ASSIGNED, EN_ROUTE or ON_SITE assignment |
| `appointed` | history: the level is an administrator's choice |
| `call[h]` | what a method and `recalculateClearance` have read so far |

Every method that changes a vouch ends in the chain *count, read, list work,
withdraw one by one, write* of `recalculateClearance`; `blockUser` runs it once per
vouchee.  `Fail` may cut any chain.  A method of one statement (`unblockUser`,
`updateClearance`, `verifyEmail`) occupies a handler too, so that one handler means
one call at a time.  `TakeTask` and `LeaveTask` stand for the board.

Two things a reader of the code should know.  `JwtStrategy` (`jwt.strategy.ts:31`)
selects neither `isEmailVerified` nor `isIdentityVerified`, so that over HTTP
`vouchForUser` refuses everybody; the model is of the service, called with a
complete user as its tests call it.  And `verifyEmail` does not recalculate, which
is why `LevelFollows` demands a reason for FRONTLINE and not the converse.

### Calls, and what it means to be alone

`call[h]` is what handler h remembers between two `await`s, or `Idle`.  The services
of this group write without locks and without version columns: a call reads,
decides, and writes what it decided.  Almost nothing they promise survives two
calls that run into each other, and almost everything does otherwise.  So every call
carries a flag, `alone`: no other call has written since it began.  A step that
writes clears the flag of all others (`WritesAndBecomes`, `Disturbs`).  The
properties then say exactly which promise holds without interference and which call
is to blame when it does not: "leave() takes the last leader away only if the
members changed after it counted them".  The exceptions are not decoration; dropping
one makes TLC find the race at once.

### RequestLifecycle

| in the model | in the code |
|---|---|
| `request` (life, status, cancelledAt, info) | row of `requests`: `deleted_at`, `status`, `cancelled_at` (0 is NULL), the ids in `additional_info` |
| `work[t]` | a task of the request with the assignment on it, which `update()` loads and cascades to |
| `made[a]`, `clock` | when an addition was made; a tick of the clock passes every time limit |
| `call[h].row`, `.work` | the entity a method loaded and changed |
| `call[h].cols`, `.tasks` | what `save()` found to differ when it read the row again |

`update`, `addInfo`, `updateAdditionalInfo`, `removeAdditionalInfo`,
`markAsPendingReview`, `cancel`, `confirmCompletion` and `returnToProgress` are each
*read and change the copy*, *compare*, *write*: three steps between which others may
act.  `assignVolunteer` and `checkRequestCompletion` are the board's writes to the
request.  `remove` is a soft delete, and a `save()` of an old copy may bring the row
back.  `create` is the insert and, in a later statement, the first task.

### Membership

One organisation (`org`, `member[u]`, `join[j]`), one organisation that may have it
as a parent (`subgroup`) and one `hub`.  `update` and `createOrgChat` save what
`findById` loaded: `DiffOrg` and `WriteOrg` model the cascade to members, settings,
subgroups and hubs, the rows that appear again, the parents that are lost, and the
failure of a save that would orphan a row with a NOT NULL parent.  `fresh` are the
members inserted since a call began: `remove(row)` and `save(row)` go by the row's
id, so a member who left and was added again is another row.  A deputy of the leader
passes `OrganizationRoleGuard` wherever LEADER is asked for, but not the checks
inside the service, which look at the role only.

`handleJoinRequest` has no guard of its own in the model, and that is the code:
`OrganizationRoleGuard` looks at the organisation in the URL, the service loads the
request by its own id, and nobody compares the request's `organizationId` with the
former.  Whoever leads or coordinates some organisation decides on the requests of
all.  The verdict is one statement, the membership another; `fate[j]` is history: the
verdicts that were saved for request j, and whether an admission happened or failed.
`VerdictCarriedOut` says what of a verdict can be relied on when reviewers decide at
once and calls stop half way.

### Sessions

One account.  `refreshToken` is the column's content, by the second in which the
token was signed: two tokens of one second are equal.  `replaced` and `spent` are
history.  `Deadline` has three values because nothing but "is it past" is asked of
an expiry; code and token of a password reset share one (`resetExpires`).

### ChatRooms

`chats`, `messages` and the sockets with the gateway's map `connectedUsers`, which
remembers one socket per user.  `handleConnection` is four steps (token, user, chats,
joins), and the client may hang up between any two; `early` marks a socket that
hung up before it was entered in the map, whose entry nobody removes.  `held` is
what a client that follows one chat with `getMessages` has been shown.  A message
has its `sentAt` when its transaction begins and appears when it commits.

### TaskReports

One report, by `create`, `update`, `verifyReport` and `delete`; `vouched` is the
text the verifier was shown.

### RequestFeed

What one reader sees: the list with LIMIT and OFFSET while requests come, go and
change clearance and while the reader's own level changes; `findOne` with its check
and its log entry, two statements later; bookmarks.

`findAll` has two lists.  Newest first (`findAll` in the model) it has a clause about
the reader's clearance.  With coordinates and a radius (`findAllNear`) it reads all
requests by distance, whatever they require, and neither the radius nor a filter is in
the query; requests at one place, and those without a location, come in any order,
which may be another one on the next page.  So `PagingMissesFew` is about the first
list only, and about the second nothing is claimed.

### MCServices

The services of 6 to 8 share no rows.  `subject` picks one of them (Membership in
three parts, ChatRooms and RequestFeed in two) and only that one moves; a run of
their union explores each with the same two handlers instead of a product.  That this
loses nothing is a theorem (`OneServiceMoves`): a behaviour of `MCServices` is a
behaviour of the service that moves.

### Where code and comments part without a run

None of these is needed by a property; a reader of the code should know them.

* `boostVolunteerScores` gets every row of the task (`tasks.service.ts:448`), so that a
  confirmation rewards those who withdrew too, where `tasks.controller.ts:140` speaks
  of the performers.
* `getMessages` orders by `sentAt` DESC and filters `sentAt > cursor`: with the cursor
  of a page's oldest message it returns newer ones again, so history before the first
  page cannot be reached.
* `addParticipantToRoom` (`chat.gateway.ts:171`: the client enters the new room without
  reconnecting) looks in `server.sockets.sockets`, which the gateway's namespace `/chat` does
  not have: somebody who joins a chat hears it after the next connection.
* `markAsRead` maps the result of `UPDATE ... RETURNING` as rows; the driver returns
  rows and count, and the ids it announces are undefined.
* `getOrCreateDirectChat` with oneself finds any direct chat of that user.
* A requester's list has the requester's own requests whatever they require, and
  `checkClearanceAccess` makes no exception for authors: some may be listed and not
  opened.
* The query of the list by distance has none of the filters of the other one, that
  for clearance included: it shows requests that `findOne` refuses to the same reader.
  `requests.service.spec.ts:213` has a LOCAL reader refused a FRONTLINE request, and
  `requests.service.spec.ts:815` only checks that this list is queried.
* `handleJoinRequest` (`organizations.service.ts:343`) is told by its controller that the
  reviewer leads the organisation of the URL, and decides on a request of any other.
* The list of bookmarks has empty entries for requests that were removed.

## 4. The runs

| run | checks | shows |
|---|---|---|
| `board_serial` | `TypeOK`, `ActiveInChat`, `SerialInv`, `OneRewardPerReview` | one call at a time, no failures, all methods, four users (author, two volunteers, an administrator): 705,727 states |
| `board_races` | `BoardInv`, `ParticipantsWereAssigned`, `ChatOpensWithWork`, `ClosedTaskTakesNobody` | two calls interleaved with failures: 935,562 states |
| `board_progress` | `EveryCallReturns` | the methods that take or wait for the lock, two tasks: 129,236 states |
| `board_withdraw` | `WithdrawLeavesOthersTheirTask` | **violated**: `withdrawAssignment` counts ASSIGNED rows only and hands a task back while somebody is on the way |
| `board_decline` | `CompletedIsNotDeclined` | **violated**: the save that ends `confirmTaskCompletion` writes the assignments back as ASSIGNED, and their volunteers may withdraw from the confirmed task |
| `delegation_owners` | `ClaimsBounded`, `KeepsOwnership` | two calls at once, three organisations: 28,693 states |
| `delegation_double` | `OneOwner` | **violated**: two acceptances at once both pass the check |
| `clearance_serial` | `ClearanceInv`, `SerialInv`, `CallSettlesClearance`, `LostFrontlineEndsWork`, `GrantKept` | one call at a time, any statement may fail: 2,516,616 states |
| `request_saves` | `RequestTypeOK`, `SavesOwnColumns`, `CompletedIsNotCancelled`, `OwnerEditsBeforeWork` | two calls at once on a request with two tasks, two additions and the clock: 1,944,182 states |
| `request_return` | `LateCancellationIsFinal` | **violated**: `markAsPendingReview` takes a cancelled request off CANCELLED, and the ten minutes are no longer asked about |
| `services` | `ServicesTypeOK` and the properties of `Membership`, `Sessions`, `ChatRooms`, `TaskReports` and `RequestFeed` | two calls at once in each service, failures anywhere: 1,014,426 states |
| `clearance_appointed` | `AppointedFrontlineKept` | **violated**: `createUser` sets FRONTLINE without the flag, the first vouch lowers it |

The findings in `PROJECT.json` quote the lines that the five violated properties
take at their word.

**Bounds.** `TrustCap` 2 lets a score reach its cap and stay; `MaxChats` 2 lets a
task be opened again after it was handed back and bounds only the making of chats,
`MaxOverlaps` 1 (2 for progress) bounds how often a call starts beside another one
in a behaviour, so that a race is one race and not a series; the calls before and
after it are unbounded.  Two volunteers are what each race needs; the second task of
`board_progress` keeps two locks apart.  Two calls and three organisations are the
smallest instance in which one owner too many differs from two.
`FrontlineVouches` 2 with two possible vouchers makes gaining and losing FRONTLINE
possible with three users; `Created` and `Workers` restrict whose level an
administrator chose at creation and who takes tasks.  Symmetry is used for volunteers, handlers and
additions where no temporal property is checked.


For the services two people are enough: one who acts and one who interferes, of whom
one is an administrator, so that both branches of every check are taken; two leaders
leaving at once, two reviewers, two requests to join of one person, a member who
leaves and comes back all fit.  `MaxJoins` 2 and `MaxLetters` 4 allow the second
request, and a code and a token after an earlier code and token; with 3 seconds a
token is replaced by one of another second and by one of the same; 2 sockets are an
old and a new connection; 3 messages, pages of 2 and 2 chats let a page be overfull
and a message of another chat lie between; pages of 1 and 3 requests let one slip to
the page before and one to the page after.  4 texts are an edit before, during and
after a verification.  In `request_saves` the second task is one that came after the
copy, the second addition is one that a call does not name, `EditStatuses` has the
one status that `update()` may set against the other methods (CANCELLED), and `MaxClock` 2 is before and after a time limit.
`MaxOverlaps` 1 is one race per behaviour, between calls that come in any number.

**Deadlock** is not checked for the board, where all tasks may be deleted and the
bounds used up, for clearance, where all may be blocked, nor for requests and
services, whose rows may be gone and bounds used up; `delegation_*` check it.

**Fairness.** `FairSpec` is strong fairness of `Continue(h)` for each handler: the
event loop resumes every handler whose statement has come back, and PostgreSQL
serves those who wait for a row in turn; weak fairness would not do, since a waiting
step is disabled whenever another call holds the lock.  No call is obliged to begin.

## 5. The theorems

Proved with TLAPS for every value of the constants that the `ASSUME`s allow.

* **TaskBoardProofs.** `BoardInv` is inductive.  What must be strengthened about
  "only people of the task are in its chats" is what lies between a copy and its
  use: assignments in a copy exist in the database (`CopiesLagBehind`), so writing a
  copy back never makes one disappear (`CopiesWritable`); the holder of the lock has
  a current copy of the row (`LockHolds`), so that the chat it makes or enters is
  the task's (`ChatExists`).  `TypeCorrect`, `ChatsPrivate`,
  `OneChatPerOpening` and `NobodyJoinsClosedTask` follow.
  Two promises are false when calls overlap, because of old copies, and need an
  invariant of their own.  `SerialCorrect` proves `SerialInv` under the hypotheses
  `MaxOverlaps = 0` and `"fail" \notin Operations`, those of the run `board_serial`,
  for any number of users, tasks and handlers: at most one call is in flight, the copy
  in its hands is what the database has (`CopyCurrent`, `RowCurrent`), and a save
  writes everything its method changed (`SaveComplete`).  `WorkersShareTheChat` is then
  immediate.  `ReviewRewardedOnce` needs that a task in review has its reward ahead
  unless the call in flight has just paid it (`ReviewIsOwed`), and that a confirmation
  which has not paid yet still owes (`ConfirmPays`).  The proof does not go through
  without one more conjunct, `CompletedBySettling`, and that one is a finding: the save
  at the end of `confirmTaskCompletion` writes the assignments as they were read, so no
  assignment is COMPLETED once the call has returned (`CompletionIsTakenBack`, and the
  run `board_decline` for what follows from it).
* **DelegationProofs.** `DelegationInv` (types, `StepsMatch`, `ClaimsBounded`): every
  acceptance that is promised was promised when nobody else had the task, so each
  claimant but one has a call of its own.  `Refinement`: the steps of `Delegation`
  are steps of `TaskOwnership` or change no owner.  `OneAtATime`: with a single handler
  the promise that `delegation_double` violates is kept.
* **ClearanceProofs.** `ClearanceIsInvariant` for any number of calls.  Then, under
  the hypothesis that any two handlers are the same, `SerialInv`: whatever
  `recalculateClearance` has read still holds (`DecisionHolds`), the vouchees a call
  has gone through are settled (`RestIsSettled`), and a flag stands beside FRONTLINE.
  `CallSettles`, `LostFrontline` and `GrantIsKept` are its consequences.

* **RequestLifecycleProofs.** `SavesInv`: while a call is alone, its copy of the
  request and of the tasks differs from the rows only in the columns of its method,
  and the status and the work it checked are still so.  Without "alone"
  the copy may lag behind in any column, which is why the invariant is a conditional
  about each call.  `RequestTypes`, `SavesWriteTheirOwn`, `CompletedKept` and
  `OwnersEditBeforeWork` follow for any number of tasks, additions and calls.
* **MembershipProofs.** `MembersInv`: the same of the copy with members, subgroup and
  hub, plus what the checks saw (`Leaders # {c.on}`, nothing pending, no subgroup).
  Two facts about rows carry the rest: requests to join are numbered without gaps, and
  before the organisation exists there is nothing to call anything on.  A call can only
  end by its own writing step or without a write (`WhoEndsOrgCall`), so each property is
  a fact about one action.  `VerdictsCarriedOut` excepts no overlap and has an invariant
  of its own, `FateInv`: a request that was approved has a reviewer on the way to admit
  its applicant until it is known what became of that, and whoever is on the way has
  saved an approval, which the history keeps even when the row is overwritten.
* **SessionsProofs.** `SessionsInv`: tokens that were replaced and letters that were
  spent are not in the row, no letter in the row has a number that was not given out
  yet, and while a call is alone the token or letter it presented is the one in the row.
* **ChatRoomsProofs.** `ChatsInv`: whatever step a socket has reached, every chat on its
  list and every room it is in has its user as a participant; the map's entry of a user
  is a socket that was identified as that user's; while a call that looked for a direct
  chat is alone there is still none.  Participants are never removed, which is why the
  list may be stale and still right.
  `FollowersMissFew` counts positions in a list read from the greatest number down
  (`Position`): as many elements as come after one fill all positions before it
  (`PositionsFilled`), hence a finite list has a maximum, a page that is not overfull
  is all that came after the cursor, and the first page is the end of the list.
* **ServicesProofs**, reports.  `ReportsInv`: while a save is alone, what it does not
  write agrees with the row, so that a verification writes beside the text it was shown;
  while a deletion is alone, the report it looked at is still not verified.
* **ServicesProofs**, the list of requests.  `FeedInv` has, while the reader is paging:
  of the requests that stay on the list and were not shown, those at positions before
  the offset are no more than have left the list (`PagingHolds`).  A page moves the offset by its own
  length and shows what is there (`PassedGrow`, `PageFull`); a change moves the rest of
  the list up by no more than it takes away (`PositionsShift`).  `PagingMisses` follows
  when the last page is short, `LogNames` from what a call in flight has checked.  All
  of this is about the list newest first; by distance only the types are proved.
* **ServicesProofs**, side by side.  `ServicesInv`: the rows of every service are in
  order, the service that moves has its own invariant, and so all calls in flight are
  its own; no two services have a method's name in common (`MethodsDiffer`).
  `ServicesTypes` follows; `OneServiceMoves` maps a behaviour to one of the moving
  service's specification, and `PromisesAreKept` carries all properties of the run
  `services` over to `ServicesSpec`.

Only model-checked: `EveryCallReturns`, since liveness under fairness is out of the
prover's reach.  Every other property of a passing run is a theorem; those of
`board_serial` and `clearance_serial` under the hypothesis that calls do not overlap,
which is what these runs are about.  The services have no liveness of their own: a
call waits for nobody.  The five violated properties are
examples.

## 6. What is not modelled

* Guards and DTO validation beyond what they refuse: where a refusal matters it is a
  guard of the action (`GuardPasses`, `LeadsOrAdmin`).
* Notifications and e-mail: sent after the response, errors swallowed, nothing reads
  them back to decide.  Uploads and the removal of EXIF data transform files.
* Bootstrap, configuration, migrations and seeds run before calls are served.
* Profiles, vehicles and telephone verification: rows of one owner with no rule between
  them, or stubs.
* Texts, titles, priorities, deadlines, tags, files, coordinates: columns no rule looks
  at.  Of `requests.service.ts` this leaves out the distances of the list by distance,
  the obfuscation of coordinates and the enrichment of a request with counts and marks,
  which only compute an answer, and `findAll` (lines 125-214), which nothing calls.
* Which organisation a request or a task belongs to: `Delegation` takes any
  organisation, and the membership its callers need is checked nowhere in it.
* The composition of `Clearance` with `TaskBoard`: a withdrawal on a lost FRONTLINE
  leaves the task IN_PROGRESS, which is listed as a hazard.
* `changeRole`: the administrators are a constant.
* In `TaskBoard`, the save of a request with its tasks by `RequestsService.update`: the
  board's invariants are about the calls of `TasksService`.  `RequestLifecycle` has that
  save and what it sets back (`SavesOwnColumns`).
