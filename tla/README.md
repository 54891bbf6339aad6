# Yunova: specifications, checks and proofs

Yunova is a self-hosted AI workspace: a Rust server (`src/src`, axum on tokio,
SQLite or Postgres through sqlx), a web client (`src/web`), and a desktop
connector (`src/desktop`) that runs agents on the user's machine. This
directory models the parts of the server that move money or coordinate
several actors, checks the models with TLC on small instances, and proves the
most important facts with TLAPS for instances of every size.

Contents: [how the models are made](#how-the-models-are-made) ·
[inventory](#inventory) · money: [video jobs](#video-jobs), [quota](#quota),
[recharge](#recharge), [media jobs and storage](#media-jobs-and-storage) ·
agents: [workflow runs](#workflow-runs), [agent runtimes](#agent-runtimes),
[the parts of a conversation](#the-parts-of-a-conversation) ·
[the ways into an account](#the-ways-into-an-account) ·
[disagreements](#disagreements-found) · [proofs](#proofs) ·
[limits](#what-is-only-model-checked) · [not modelled](#not-modelled).

## How the models are made

A step of a model is one statement against the database, one call to another
process, or one access to the media store: the places where a handler can be
preempted, dropped by a disconnecting client, or lost in a crash. A step covers
two statements only where the code runs them in one transaction (a price with
its bindings, in `Channels`). In `AgentRuntimes`, `Dialogs` and the routes of
`Devices`, where the shared state is in memory behind a mutex, a step runs up to
the next `await` at which another task can get ahead.

* **Failing statements.** A statement that fails is a disjunct of its action
  that leaves the row as it was and goes on the way the code does: most call
  sites drop the error (`let _ =`, `unwrap_or(0)`) or only log it. So is a store
  that does not remove a file ("store") and a `docker rm` that does not remove a
  container ("docker"). Left out are failures that end a handler which has
  changed nothing yet and holds nothing (it has the effect of no request), and, in
  models that are about safety only, those that just stop a handler where it is (it is
  then as if it were never scheduled again): the queries of `Channels` are of this kind.
* **Disconnects.** axum drops the future of a handler whose client has gone
  away. `Disconnect` therefore stops a request handler at any await; tasks
  made with `tokio::spawn` go on.
* **Crashes.** Every task and every in-memory map is lost; rows, files and
  (in `AgentRuntimes`) containers stay. The restart runs the recovery that
  `main.rs` runs before it serves requests.
* **Bounds.** Faults of every kind count against one bound of their module
  (`MaxMishaps`, `CliMishaps`, `MaxTroubles`, ...), and are offered only if its constant
  (`Faults`, `CliFaults`, ...) names them; in `AgentRuntimes`, `MediaJobs` and `Turns` a
  recovery that fails counts with its restart. Other bounds are constants with a name
  and appear in the guards (`MaxOps`, `MaxRetries`, `PostLimit`, ...). Nothing else
  limits the state space, and no run uses a state constraint.
* **Ghosts.** A variable that the code does not have is there to state a property, never
  read by a guard: `charged`, `credited`, `delivered`, `overtaken`, `missed`, `dropped`
  and `undeleted` in `VideoJobs`; `granted`, `overwritten`, `debited` and `signups` in
  `Quota`; `credits` and `acked` (what the gateway was told) in `Recharge`; those of the
  other modules are introduced with them. In `WorkflowRuns` two counters that the code
  does not have do more: `tries` numbers the attempts of a node, and `requeued` bounds
  the retries.
* **Explained exceptions.** Where the code is known to break a property in
  a narrow way, the property names the way, by a ghost that records exactly it
  (`why` of a job, `overtaken` requests, `late` writes, `hit` by a mishap), and
  says that there is no other. A mutant of the code shows each time that
  something else would be found.
* **Parts.** Components that share no variable are checked by one run that
  chooses one of them in the initial state and lets it move
  (`MCAccess`, `MCConversation`): the sum of their states, not the product.
* **Mutants.** Definitions whose comment starts with "Mutant of" are variants
  that a plausible bug would produce. They take no part in `Next`; they record,
  for every property, a change to the code that it catches.

Files: `X.tla` is a component, `MCX.tla` its instances for TLC (`MCAccess` and
`MCConversation` those of several), `X_*.cfg` the runs, `XProofs.tla` the
theorems (`LedgerProofs` those about `Quota` and `Recharge`, `AccessProofs` and
`ConversationProofs` those about the parts of their runs). `Escrow.tla` is an
abstract specification. `PROJECT.json` maps every
definition to the source lines it translates.

## Inventory

| Part | State it keeps | Operations | What is hard about it | What makes it correct |
|---|---|---|---|---|
| Video jobs, `videos.rs` | `video_jobs`, mp4 files | create, get (polls upstream), delete, `sweep` | requests, workflow drivers and the sweep advance one row; a lock in a column; refunds in two statements | paid once, refunded at most once, failed is final, every job ends, no file without a row |
| Quota, `quota.rs` | `user_balances`, `balance_ledger` | ensure, deduct, settle, grant, set | admission and charge are apart; the ledger follows in a statement of its own | bounded overdraft, balance = grants − use, ledger explains balance |
| Chat proxy, `main.rs`, `channels.rs` | an upstream stream, its metered usage | admit, route, stream, settle on drop | the settlement is a task spawned by `Drop`; frames are cut anywhere | usage is charged once, on every way a stream can end |
| Recharge, `payments.rs` | `payment_orders` | create order, notify, return page | repeated and concurrent notifications; reused trade numbers | an order is credited once, a trade pays one order, "success" means paid |
| Workflow runs, `workflows.rs` | `workflow_runs`, `workflow_node_runs`, in-process executors | create, drive, execute, cancel, retry, recover, sweep | two drivers on snapshots; late results; restart | one start per node and attempt, inputs first, right verdict, cancel is final |
| Workflow graphs, `workflows.rs` | `workflows` | validate, save, list, delete | a cycle check over data from the browser | an accepted graph is acyclic and typed |
| Agent runtimes, `agent_session.rs`, `agent_api.rs`, `agent_driver.rs`, `agent_sandbox.rs` | registry, credentials, containers, pump and ceiling tasks | start, stop, delete, runtime ends, ceiling, restart | five kinds of task retire one runtime by session id and by container name | no dead credential is handed out, stop retires, credentials die, no fork |
| Agent conversation, same files, `agent_rpc.rs`, `agent_approval.rs` | status column, mirrored entries, pending approvals | prompt, settle, approve, mirror, delete | status written after the turn has settled; mirror against delete | status follows the runtime, entries in order, no entries of deleted sessions |
| Devices, `agent_device.rs`, `src/desktop` | `agent_devices`, registry of sockets, bind codes | bind, revoke, connect, exit | half-open sockets; count followed by insert | the registered socket is the newest, revoked devices are off, the cap holds |
| CLI sign-in and tokens, `cli_auth.rs`, `agent_token.rs` | device codes, `agent_tokens` | start, poll, approve, deny, mint, revoke | polls race; the token is minted before the code is claimed | one code gives one token, a denied code none |
| Image and studio jobs, `images.rs`, `studio.rs` | `image_jobs`, `studio_generations` | create, run, retry, refund, clean up | the price is read again for the refund; jobs live in a task; refund and row in an order of their own per kind | refunded at most once and never what was delivered; what stays paid has a reason |
| Video editor exports, `video_editor.rs` | projects, assets, exports, FFmpeg slots | create, queue, render, delete, recover | slots held across failures; FFmpeg task against delete and restart | an export ends, slots come back, rows and files agree |
| Media storage, `storage.rs` | backend, objects on disk and in buckets | put, read, delete, switch | the backend changes while jobs store and delete | what a row names can be read, what was deleted cannot |
| Channels, catalog, routing, `channels.rs` | channels, catalog cache, availability, round-robin counters | route, fall back, refresh | cache behind the table; shared counters | weights are honoured, a disabled channel is not used |
| Rate limiter, `rate_limit.rs` | windows per key | check | window edges | at most *n* per window |
| Registration, invitations, email codes, `main.rs`, `invites.rs`, `email.rs` | users, codes | register, verify, reward | a code used twice at once | one account per code, one reward per invitee |
| Sessions, passwords, administrators, `auth.rs`, `admin.rs`, `profile.rs` | sessions, password hashes, `is_admin` | log in and out, reset, demote, delete | counts and reads before writes | somebody administers; a reset ends the old sessions |
| Price import, `newapi_sync.rs` | `model_pricing`, `channel_models` | read all, write one by one | writes what it read before | what an operator disabled stays disabled |
| Statistics, migrations, setup, conversations, prompts, skills, sharing, settings, search, administration, address policy, desktop shell, web client, agent extension | rows or files, one statement at a time | create, read, update, delete | little: no protocol between actors | reads and writes one row |

How they interact:

* Every paid operation goes through `quota`: chats with *admit, then settle*;
  images, studio and video jobs with *deduct, then refund on failure*;
  recharges, invitations and admins with *grant*.
* `workflows` calls the create handlers of studio and video jobs for its nodes
  and polls them (`video_jobs` rows are advanced by the same `advance_job` that
  `get_job` uses), and it runs FFmpeg for its media nodes under a semaphore.
* `main.rs` starts the periodic sweeps of video jobs and workflow runs and runs
  the recoveries at boot.
* An agent runtime is given a token of `agent_token` as its credential, and
  comes back into the server through the chat proxy, which charges its user.
* Devices bring agents to the user's machine: the socket of `agent_device` is a
  second transport of `agent_rpc`.
* Everything that makes or keeps a picture or a video goes through one
  `MediaStorage`, whose backend an administrator may switch under it.
* A chat asks `channels` for a chain of upstreams; the same tables and cached
  catalogs say what the model picker offers and which prices are pruned.

The hazards that follow from this, each with its line, are listed under
`hazards` in `PROJECT.json`, together with the properties that cover them.

## Video jobs

`VideoJobs.tla` models `src/src/videos.rs`, with `Escrow.tla` as what it promises.

**State.** `status`, `upstream` (an upstream id is known), `refunded`,
`polling`, `retries` (`download_retries`), `video` (`video_path`) and `custom`
(billed by nobody) are the columns of a row. `age` and `idle` are the times
since `created_at` and `last_polled_at`, measured on the thresholds the SQL
compares with (three seconds, two, five and ten minutes, two hours). `balance`
is the user's. `pc`, `role`, `tgt`, `obj` and `snap` are the position and the
locals of every handler and of the sweep.

**Actions** follow the code statement by statement:

| Code | Actions |
|---|---|
| `create_job` | `Deduct` / `RequestCustom`, `ChooseChannel`, `GiveBack`, `InsertJob`, `PostUpstream`, `RecordUpstream` |
| `mark_job_failed`, `refund_job` | `MarkJobFailed`, `FlagRefund`, `GrantRefund` |
| `get_job`, `advance_job`, `poll_upstream_once`, `release_lock` | `GetJob`, `LockPoll`, `RefetchJob`, `AskUpstream`, `ReleaseLock` |
| `download_completed_video`, `handle_download_failure` | `Download`, `CompleteJob`, `DiscardFile`, `DownloadFailed` |
| `delete_job` | `StartDelete`, `DeleteFile`, `DeleteRow` |
| `sweep` | `RepairLocks`, `SelectStale`, `TimeOut`, `SelectOrphans`, `AdvanceOrphan`, `SweepDone` |
| outside | `GrowOlder`, `StayIdle`, `Disconnect`, `Crash` |

A workflow driver that polls is a handler that runs `GetJob`; it differs only
in that no client can drop it.

**Runs.**

* `VideoJobs_faults`: one job, a handler, the sweep, deletions, one fault of any kind
  anywhere: a database error, a file that cannot be removed, a disconnect, a crash.
  `MoneySafe` (`RefundAtMostOnce`, `MoneyConserved`) and `FailedIsFinal` hold whatever
  breaks; `NothingStaysBusy` (`EveryJobEnds`, `LocksAreFreed`) says that the sweep is
  the backstop it is meant to be. No payment is forgotten and a clip shown is a clip
  paid for (`PaidWork`); polls exclude each other and no file loses its row
  (`OneFilePerJob`); both with the exceptions below. `PostLimit` and `PollLimit` are ten
  minutes, which is the 600 s timeout of the HTTP client (`main.rs:1422`).
* `VideoJobs_prompt`: two handlers and the sweep, no faults, upstream calls
  that end before the thresholds of the sweep (`PostLimit` below two minutes,
  `PollLimit` below five). This is what the code is written for, and here it
  keeps its whole promise: it implements `Escrow` (`ImplementsEscrow`), and no
  payment stays on hold (`PaymentResolved`).

**Exceptions.** Three ghosts name the jobs and one the files for which the code
promises less, and the properties say that no others are concerned:

* `overtaken`: duty 1 of the sweep (`videos.rs:1069`, "crashed mid-poll > 5 min ago")
  took the lock of a poll that was merely slow. A second poller downloads the clip as
  well, and the one that finishes last overwrites the `video_path` of the other, whose
  file stays in the store without a row.
* `missed`: a statement of the refund itself failed (`mark_job_failed`, the flag, the
  grant, the early grants, the last failed download). Its error is dropped and nothing
  looks again.
* `dropped`: whoever had a payment to give back, or a clip to record or delete
  (`Laden`), was cut off by a disconnect or a crash.
* `undeleted`: the store did not remove the file. Both callers drop the error
  (`videos.rs:1370` for the clip of a job that has failed meanwhile, `:1526` for a
  deletion), and the row goes, so nothing names the file any more.

A row that is deleted after it failed and before `refund_job` came to it stays
unrefunded, which `PaymentAccounted` says too. A file has one job from the start
(`JobOf`), because its name is drawn when the job's poll stores it.

**Why the bounds suffice.** The interesting cases need one job, two pollers
and the sweep: jobs share nothing but the balance, and `MoneyConserved`, the
only property about the balance, is proved for every set of jobs.
`MaxRetries = 2` makes the last download failure and one before it distinct;
the code's value is 5. A balance of 3 and a price of 2 allow one job and leave
a remainder. `Files` has a name for every clip that can exist at once.

**Fairness.** Weak fairness on every handler and on the sweep (tokio polls
every ready task; the sweep runs on an interval timer for the life of the
process), and on the passing of time. Clients owe nobody a request, and no
fairness is asked of the outcomes: a poll may hear "still running" for ever,
and it is the two-hour limit that ends the job.

## Quota

`Quota.tla` models one user's account in `src/src/quota.rs` and the callers'
protocol: how a chat is admitted and charged (`authorize_chat` and `settle`,
called from `main.rs` and `channels.rs`), and how a single generation is paid
for and refunded (`try_deduct`, `grant`).

**State.** `opened`, `balance` and `used` are the row of `user_balances`;
`booked` is the sum of the ledger and `signups` its number of signup rows.
Every task has a position `pc`, an operation `op`, an amount `amt` and, for an
admin's overwrite, the balance it has `seen`.

**Actions.** `Look`, `OpenAccount`, `BookSignup`, `Reread` are
`ensure_account`, which heads every operation; `ServeForFree`, `DropStream` and
`Charge` a chat and its settlement; `Deduct` and `Generate` a generation;
`Credit` is `grant`, `Overwrite` is `set_balance`, `Book` is `insert_ledger`.

**Run** `Quota_account`: two tasks, four operations of any kind and one fault.
`OverdraftBounded`: the account goes below zero by less than one request per task, and
by what administrators have taken it there themselves: the delta of an adjustment is
signed and nothing checks where it leads (`quota.rs:1105`; only an overwrite is checked,
at `:1097`), which `debited` records. `BooksBalance`: the balance is the signup grant
plus what was granted less what was used, through the race of two first requests too
(`UsageAccounted`); and, with nothing under way, nothing broken and no overwrite, the
ledger's sum is the balance, *up to signup rows that racing first requests wrote more
than once* (`LedgerExplained`) — the exemption is in the property because the code
really writes them (`quota.rs:314`). Two tasks and four operations are enough for each
pair of operations to overlap before and after the account is opened; tasks are
interchangeable, hence the symmetry. The account has no liveness to speak of, so the run
checks safety only.

## Recharge

`Recharge.tla` extends `Quota` with `payment_orders` and the gateway, so that a credit
runs through the same account, statement by statement, while the user spends from it.
`process_notify` is `Notify`, `LoadOrder`, `CheckTrade`, `MarkPaid` and `Credited`, with
`Quota`'s own steps in between; the gateway (`Pay`, and notifications that may come at
any time and more than once) is external, modelled from what `payments.rs` expects.
Signature and amount checks have passed for every notification that is modelled.

* `Recharge_orders`: two orders, one trade number, two notifications at a time,
  a client spending, one fault. `OneCreditPerTrade`: an order is credited once and
  a trade pays one order (the check at `payments.rs:427` can be raced, the unique
  index cannot); `PaidIsCredited`
  under weak fairness of the notification handlers, up to a fault between the
  two statements — nothing in the code repairs a paid order that was not
  credited. Two orders and one number are the smallest instance in which a
  number is reused.
* `Recharge_lost`: see [disagreements](#disagreements-found).

## Workflow runs

`WorkflowRuns.tla` models one run of a graph (`src/src/workflows.rs`).

**State.** `run` and `node` are the status columns, `job` the `job_token` of a
node; an *attempt* `<<n, k>>` is the k-th executor of node `n`, with its
position in `exec` and its submitted job in `child`. `pc`, `todo` and `found`
are a driver's position, the rows of its snapshot still to be handled and the
row it is about to write. `create`, `cancel` and `retry` are the request
handlers' positions. Child jobs are external: they work, then are done or failed;
`deleted` are those whose row the user has removed. `Images` are the nodes whose
child is a studio generation.

**Actions.** `create_run`: `InsertRun`, `InsertNode`, `CleanUp`, `SpawnDriver`.
`drive_run_once`: the `DriverStep` disjuncts, from loading the run through
synchronising the children, planning (block or claim, node by node, on the
snapshot) to the verdict and `finish_run`. `execute_node`: the `ExecStep`
disjuncts, with the semaphore of media nodes. `CancelRun`, `CancelNodes`;
`RetryNode`, `ResetNode`, `ReopenRun`; `Crash` and `Recover`; `SweepRuns`.
`DeleteChild` is the user's deletion of a child's row: of a generation in whatever
status, whose task works on (`studio.rs:951`), of a video only when it is over. A
driver that looks for it then finds an error and fails the node.

`Early` says whether the sweep may reach a run while `create_run` is still
inserting its nodes, which the code allows (`workflows.rs:788`).

* `WorkflowRuns_cancel`: two clips and their merge, a driver and the sweep on
  overlapping snapshots, cancel, the deletion of a child and a restart at any
  moment. `NothingRunsAhead`, `ReportsRight` (the verdict is that of the nodes, a
  result is that of the node's own job; a node fails while its job works only when the
  user has deleted the job), `CancelStops`, `EveryRunEnds`.
* `WorkflowRuns_faults`: a chain, with a retry, a database error or a restart,
  and a sweep that comes early. What survives all this: `ClaimedOnce` and
  `ResultsStand`. The other properties are *not* promised there: a query that fails
  counts as an empty list of nodes, all of which are completed
  (`workflows.rs:589`), so a run may be closed with work left.
* `WorkflowRuns_retry`: see [disagreements](#disagreements-found).

**Bounds.** A merge of two clips is the smallest graph with a node that waits
for two inputs and with two nodes competing; a chain is the smallest in which
a failure blocks something. One spawned driver and the sweep are the two
readers the code has after a start. `Slots = 1` makes media nodes queue.

**Fairness.** Weak fairness on every spawned task, on the sweep, on the rest of
a request once it has begun, on the end of a child job (studio jobs end, and
video jobs do by `EveryJobEnds`), and on the restart of a server that is down.

## Agent runtimes

`AgentRuntimes.tla` models the lifecycle of the runtimes of one session on the
cloud target: a start checks `is_live`, mints a credential, prepares the
workspace, clears a left-over container, spawns the runtime, registers it and
arms its ceiling; a frame pump watches it and cleans up when it ends; the
ceiling, a stop and a delete tear it down; a restart revokes and removes all.

**State.** `live` is the session's slot in the registry, `token` the credential
of each start, `child` its process, `container` the holder of the session's
container name; `start`, `teardown` (with what it `held`), `pump` and `ceiling`
are the tasks. `docker run` works on its own: a process is "starting" until
`ContainerUp` takes the name, or fails because somebody has it. Killing the
docker client leaves the container; `docker rm -f` removes it, unless it fails.
Ghosts: `unrevoked` and `unremoved`, the credentials and containers that a failed
statement or a failed `docker rm` has left alone.

**Actions.** `StartStep` is `start_session` (`agent_api.rs`), `PumpStep` the
task that `attach` spawns (`agent_session.rs:332`), `CeilingStep` the task at
the end of a start (`agent_api.rs:1337`), `TeardownStep` `teardown_runtime` with the rest
of `stop_session` and `delete_session`,
`BootServer` the recovery at boot (`reset_running_sessions`, `reap_orphans`).
`Revoke` (`agent_token.rs:255`), `RemoveContainer` and `BootServer` do as much as
succeeds: their errors are dropped or logged and whoever called goes on. `DropStart`
and `DropTeardown` are clients that go away in the middle of a start, a stop or a
delete.

* `AgentRuntimes_life`: two starts, a delete, runtimes that end at any time,
  ceilings, and one failed start, disconnect, crash, database error or docker
  error. `LiveIsPaid`, `NoFork`, `StopRetires`, `NothingLingers` (`CredentialDies`,
  `EndedIsForgotten`). Two of them have exceptions, of one start each: after a stop the
  credential is revoked or its UPDATE failed, the container gone or its removal failed;
  and a credential dies unless that UPDATE failed or the client of its start went
  away, when it is left to its expiry.

Two starts are enough for a runtime and its successor, which is what every
race here is about; the safety properties are proved for any number. In this
module the system may come to rest, and deadlock is checked: every other stop
would be an error (the explicit `Over` step marks the legal end).

**Fairness.** Weak fairness on the server's tasks, on timers, on docker, and
on the restart. No request has to come, and no runtime has to end by itself.

## Media jobs and storage

`MediaJobs.tla` models everything beside the video jobs that makes or keeps
pictures and videos: the synchronous image proxy and image jobs (`images.rs`),
studio generations (`studio.rs`), uploads and FFmpeg exports of the video editor
(`video_editor.rs`) and avatars (`profile.rs`). It extends `MediaStorage.tla`,
the store they share (`storage.rs`) and the switch of its backend (`admin.rs`).

**State.** `row` is the status of the job's row and `kept` the objects it names;
`pc` and the locals belong to the request handler and the task it spawns; `via`
is the backend a put was begun with, `backend` the one in force, `places` where
each object has a copy, `price` the table that refunds read again, `slots` the
permits of FFmpeg. Ghosts: what was `paid` and given `back`, how often
(`refunds`), `why` money is out of step, and the `survivors`, objects whose local copy
was not removed though `delete` said so.

**Actions.**

| Code | Actions |
|---|---|
| the request handlers | `Request` (`AskPicture`, `AskExport`, `Upload`), `Deduct`, `Insert` |
| `start_*_job`, `submit_generate` | `Start`, `Answered`, `Refused`, `Retry`, `OpenStore`, `Stored`, `NotStored`, `Done` |
| `refund_image_quota` and the studio's copy, `mark_failed`, `finalize_failed` | `Refund`, `MarkFailed` (in the order of the kind, `AfterRefund`) |
| `run_export_job`, `delete_export` | `Queue`, `Load`, `Rendered`, `RenderFailed`; `AskDelete`, `DeleteFile`, `DeleteRow` |
| `upload_asset`, `upload_avatar`, `delete_generation`, `delete_asset` | `Undo`; `Previous`, `SetAvatar`, `Tidy`; `Forget` |
| `MediaStorage::delete` | `Erase`; `EraseBucket` (beside a bucket the error of the local copy is dropped, `storage.rs:545`), `EraseFails` (the bucket's error is returned, the local copy may be gone all the same) |
| administrators | `Reprice`, `SwitchBackend` |
| outside, boot | `Disconnect`, `DropDelete`, `Crash`, `Boot` (`cleanup_stale_jobs`, `recover`) |

**Run** `MediaJobs_faults`: `MediaMoneyExplained` (at most one refund, never of
what was delivered; a job that was paid and gave nothing has a reason: a restart,
a lost client, a database error, a changed price, or one of the studio's failures
that stay paid), `FilesMatchRows` (what a row names can be read, a deleted export
cannot be played but from one of the `survivors`, across a switch of the backend),
`EveryMediaJobEnds` (slots come back whatever fails).

**Promise.** `ImplementsEscrow`: what a picture costs is held, then earned by
handing it over or given back, and neither is undone. A job has delivered when its
row is `done`, or was deleted while it named pictures. It is the promise the video
jobs make, and unlike theirs it holds whatever fails: a picture's refund follows
from the position of its one task, not from a row that others may move. It is
proved for any numbers (`PicturesKeepEscrow`), so no run repeats it. `Escrow` says
nothing of how much is given back; that is what `MediaMoneyExplained` is for.

**Bounds.** Two casts: one job of any kind beside one that keeps files, and one
upload that two exports share while there is one slot. Jobs meet only in the
store, the slots and the avatar, which are the pairs the casts hold. Prices 0
and 2 tell "not offered" from an amount; two pictures to an answer distinguish
none, some and all stored. One mishap and one change of a price or a backend,
anywhere. Both invariants are proved for any numbers.

**Fairness.** Weak fairness on every job's task (tokio runs it, upstream calls
and FFmpeg have timeouts) and on the boot of a server that is down. Nobody has to
ask for anything.

## The parts of a conversation

Four modules that share no variable, checked by one run, `Conversation_parts`.
It has no liveness property, hence no fairness.

**`Channels.tla`** (`channels.rs`, `newapi_sync.rs`). The tables (`there`, `on`,
`conn`, `bound`, `price`), what each upstream lists (`offers`: the
first page, which is all a probe reads; an answer that names nothing is an empty list), the cached
catalogs with their ages, and readers: a router asks three queries in turn for the
channels of a model (`ReadBound`, `ReadRestricted`, `ReadAny`), then the cache or
a probe for each of them (`UseCache`, `Probe`, `ProbeReturns`), and orders what is
left (`Route`); a pruner (`ReadPrices` to `PrunePrices`) and a price import
(`SyncRead`, `SyncWrite`) read first and write later. Between any two of these
steps channels are switched, moved, bound or deleted, and their cache entry is
only invalidated afterwards (`InvalidateCatalog`).
`RoutedFresh`: a chat is not sent where the model has been gone for longer than an
entry lives, with a probe on each side. `AvailabilitySound`: pruning deletes
nothing that is served unless something changed since it was asked, and the model
picker and the router agree. `DisabledStays`: an import does not enable what the
operator disabled, but over a choice made while it was writing.

**`ChatStream.tla`** (`main.rs`, `usage.rs`). A response is a sequence of *units*:
text, the halves of a character, the halves of a line that reports usage, blank
lines. It arrives in chunks cut anywhere; `Chunk` is `ingest_sse_chunk` with the
pending buffer, `StreamEnds` the drop that flushes and spawns the settlement,
`Settle` the charge. `UsageIsCharged`: whatever the cuts and the end, the charge is
what the forwarded frames reported, or one of five reasons is on record; never more.

**`Turns.tla`** (`agent_api.rs`, `agent_session.rs`). Prompts, aborts and stops
(`Send`, `Accept`, `GiveUp`, `Stop`, `Record`), each of which may lose its client on
the way (`HangUp`), the turn in the runtime (`AddEntry`, `SettleTurn`),
one mirror task for each settle under the runtime's `mirror_lock` (`BeginPass` to
`EndPass`), the pump's end, the deletion of the session, which may end between its two
statements (`DeleteStops`), a restart. The write of the status may fail (`SetStatus`,
`agent_session.rs:437`), at a restart too (`Reset`, `:558`); nobody hears of either.
`MirrorIsWhole`: the stored transcript has no hole, whichever passes overlap or fail
and whatever cursor an earlier runtime left, but for the entries `missed`: by an INSERT
that failed, or taken by a deletion that then left the session's row alone. Entries
outlive their session only where foreign keys are not enforced. `StatusExplained`: at
rest the status column is right, unless its last write was already overtaken when
it was made, failed, or was never made because a client hung up between the runtime's
answer and the write (`unheard`, until a write that is right).

**`Dialogs.tla`** (the same files). Questions of the runtime, the event streams
with their bounded broadcast buffers, and the answers. `AskedAndAnswered`: a client
that subscribes at any moment is shown what waits (subscribe first, then read
what is pending), and two who answer together give one answer.

**Bounds.** One model on at most two channels and two upstreams, since catalogs,
bindings and counters are per model and channel; the channels move a *company* at
a time (`MCConversation`): two routers on a channel, one on two channels, a pruner
or an import among edits, each with as many edits as make it stale in every way.
`Ttl = 2`, `ErrorTtl = 1` and a probe of one tick order every pair of expiries. Two
bodies, one with two reports and one with a report after a frame of `MaxPending`
units, cut in chunks of every size up to that. Two runtimes of two entries, two
commands and two passes: a pass of the first runtime meets the second one. One
question, two clients and a buffer of two, with noise enough to overflow it.

## The ways into an account

Five modules that share no variable, checked by one run, `Access_races`. Its
properties are about safety, hence no fairness.

**`RateLimiter.tla`** (`rate_limit.rs`). A bucket per address, `Allow` and the
task that prunes. `TwiceAtMost`: within the span of a window never more than twice
the limit are let through, though windows are fixed and addresses are forgotten: an
attempt and the one that comes twice the limit later lie more than a window apart.

**`Registration.tla`** (`email.rs`, `main.rs`, `invites.rs`). `send_code`
(`AskForCode`, `CheckCooldown`, `StoreCode`, `SendMail`), `consume_code`
(`ShowCode`, `ShowWrong`, `CountAttempt`, `UseCode`) and `register` down to the two
rewards, a query at a time. `RegistrationExplained`: a code opens one account though
two requests may both find it unused (the unique address is what saves it); a
registration is rewarded once, on each side that the settings reward, unless a mishap
came between.

**`Accounts.tla`** (`auth.rs`, `profile.rs`, `admin.rs`). Log in (`ReadUser`,
`CreateSession`) and out, a new password of one's own or an administrator's
(`ResetPassword`, then `DropSessions`), demotion and deletion (`CountAdmins`, then
`Remove`). `SomebodyAdministers`: there is an administrator, unless two removals
had both counted before either wrote. `ResetEndsSessions`: no session of an old
password lives on, but one whose login had read the hash before, or whose DELETE
failed.

**`CliLogin.tla`** (`cli_auth.rs`, `agent_token.rs`). A code is started, approved
or denied in a browser, and polled; a poll reads the code, mints a token, claims the
code, and gives the token back if it lost (`ReadCode`, `MintForPoll`, `Claim`,
`GiveBack`, `Answer`); tokens are also made by hand under a cap (`CountTokens`,
`InsertToken`). `TokensExplained`: a code is worth one token, of the account that
approved it; a token nobody has is not left alive, but for a mishap between two
statements; the cap is passed only by a count that was stale or failed.

**`Devices.tla`** (`agent_device.rs`; `connector.rs` and `runtime.rs` of the desktop
client). Both ends of a device's socket: the handshake (`Hello`, `SignIn`, `FindRow`,
`CountRows`, `InsertRow`, `List`, `SayOk`, `ListFrames`), its clearance (`HangUp`,
`ClearRoutes`, `Unlist`), starts and stops of runtimes through it, the revocation
(`RevokeRow`, `CutOff`), the connector's loop (`Choose`, `ReadMessage`, `SeeClose`,
`SeeBreak`, `Retire`) and the runtimes it hosts (`HostRun`, `FailRun`, `Reap`, `Tell`).
Each life of the connector has a `RuntimeManager` of its own (`manager`).
`RuntimeManager::start` is two steps, the check before its awaits (`TakeStart`) and the
insert after them (`HostRun`); switching off is two as well, the abort of the loop
(`SwitchOff`) and the rest of `stop()` (`FinishStop`), which empties a manager
(`leaving`) while `SwitchOn` may already have made the next. An abort takes effect at
the next await only: a start that has passed its last one inserts its runtime, before
`stop_all` or after, and the writer and the notices of an old manager may still send. Of
what an aborted task may do before its next await, only this is modelled; a credential
that it writes as late is not. `RegistrySound`: what is listed is served, and a revoked
machine is out. `CapExplained`: the cap on devices is passed only by overlapping
bindings, a failed count or a machine that comes back, that is one of which another
connection has been through `bind_device`, bound or refused. `SessionsMatchMachines`: an
offline machine runs nothing but what an unfinished `stop()` has yet to end and what was
inserted after `stop_all` (`orphans`), and once everybody is at rest no session is held
against a machine that does not run it. `ForgetsOnlyRefused`: the stored credential goes
only when it was refused or its owner signs out.

**Bounds.** Two of whatever races: two requests for one address with two letters, of
which the settings reward one on both sides and one on none, two
removals of two administrators, two polls of one code beside two requests by hand
under a cap of one, two sockets of one laptop dialled one after the other with two
runtimes; and one mishap in each. An old thing and its successor is what every race
here is about. A limit of two in a window of two, over seven ticks, has three
windows and a prune. The theorems about all five modules hold for any number.

## Disagreements found

Two runs end in a counterexample on purpose: each checks a statement that a
comment or the documentation makes, and the code does not keep.

| Run | Statement | What happens |
|---|---|---|
| `Recharge_lost` | `payments.rs:462`: "concurrent notify already handled it — still report success" | A database error in the UPDATE is read as zero rows, so the gateway is told "success" for an order that stays pending. |
| `WorkflowRuns_retry` | `README.md:202`: a failed node can be retried with what follows it | A driver judges the run failed, the user retries, and the driver's `finish_run` closes the reopened run. The node waits for ever. |

The other places where the code falls short of what it says or means are named in
the properties as exceptions, or follow from a bound that is stated with its run:

* **Video jobs.** A client that goes away between the deduction and the INSERT
  loses its payment (`videos.rs:606`; the comment above says that refunds happen on
  any failure from there on). A poll longer than five minutes lets a second one in
  (`videos.rs:1071`). A file that the store fails to remove stays without a row
  (`videos.rs:1370`, `:1526`).
* **Quota.** An administrator's negative adjustment takes an account as far below zero
  as it likes; an overwrite may not (`quota.rs:1097`, `:1105`).
* **Media storage.** Beside a bucket, a local copy that cannot be removed is still served
  after its deletion was answered with success (`storage.rs:545`).
* **Workflow runs.** A retry resets the rows that follow one by one, while a driver may
  be at work (`workflows.rs:1735`): a row that has run again before the loop reaches it is
  put back to waiting, with what follows it under way. A child whose row the user
  deletes while it works fails its node, and its task works on (`studio.rs:951`,
  `workflows.rs:1001`).
* **Images and studio.** A refund reads the price again (`images.rs:168`), and gives
  back another amount, or nothing, once it was changed. A restart fails the jobs
  under way and refunds none. The editor's asset list asks for studio rows that
  are `completed`; the studio calls them `done`.
* **Chats.** A chunk that ends inside a character is dropped from the metering with
  the reports in it (`main.rs:927`; the comment takes such a chunk for a body that is
  no event stream). Frames that end in CRLF are found at the end of the stream only.
  `usage.rs` announces the last non-zero value and keeps the largest. A model closed
  while its chat streams is free.
* **Channels.** Deleting a channel deletes its bindings, so a model bound to that
  one alone falls back to every channel of its protocol. A probe that returns late
  overwrites a newer entry. An import writes an `enabled` it read before.
* **Conversations.** A subscriber that fell behind reloads the entries and not the
  questions that wait (`agent_api.rs:508`). The mirror's cursor passes an entry
  whose INSERT failed. Two comments say that SQLite leaves foreign keys
  off (`agent_api.rs:1493`, `:1809`); sqlx turns them on. An answer whose way to
  the runtime fails leaves the question without one. A status that could not be written
  stays wrong until the next one: `set_status` drops the error, the reset at a restart
  only logs it, and a client that hangs up before the write prevents it
  (`agent_session.rs:437`, `:558`, `agent_api.rs:616`). A deletion that is cut off
  between its two statements leaves a session without its entries.
* **Runtimes.** A credential whose revocation failed stays valid until it expires, and
  nobody is told (`agent_token.rs:255`). When two starts overlap, the pump of the
  displaced runtime removes its successor from the registry (`agent_session.rs:421`),
  whose ceiling then leaves its container.
* **Devices.** A socket that passed the check of its token before a revocation is listed
  after it. A wrong password typed into a connector costs a stored token that is good
  (`connector.rs:316`). So does a broken connection: the loop keeps showing the token it
  began with after a typed login has stored a new one (`connector.rs:263`), is refused
  for it, and deletes the new one; the comment there says "the same credential will work
  once it clears". `ForgetsOnlyRefused` can therefore promise only that the token on
  disk was no longer good or not the one that was shown. `reap` goes by session and may
  end a later runtime than the one that exited; a notice of an old runtime removes the
  route of a new one. A failing query at the hello counts as a refused credential. A
  start that the abort of the connector does not interrupt inserts its runtime after
  `stop_all` has passed, and nobody stops it (`runtime.rs:196`, `connector.rs:225`).
* **Accounts.** Two removals that count together leave no administrator. A password
  change of one's own keeps all sessions. A login that read the old hash outlives a
  reset.
* **Command line.** A token is minted before its code is claimed, so a crash
  between the two leaves one that nobody has.

## Proofs

Each theorem holds for every value of the constants that satisfies the named
assumption of its module (`VideoAssumption`, `QuotaAssumption`,
`RechargeAssumption`, `WorkflowAssumption`, `RuntimeAssumption`, `MediaAssumption`,
`RateAssumption`, `RegAssumption`, `AccAssumption`, `CliAssumption`,
`DevicesAssumption`, `ChannelsAssumption`, `ChatAssumption`, `TurnsAssumption`,
`DialogAssumption`). These give types, finiteness where something is counted, and
that a value which stands for nobody is nobody; TLC evaluates them in the runs. All
theorems are about the specification without fairness. All but four are about
every fault the module has; those four have a hypothesis, which the runs that check
the property satisfy. Drop any part of it, and TLC finds the property violated (for the
order of nodes it takes a chain of three, or two failing statements):

| Theorem | Hypothesis | Why |
|---|---|---|
| `EscrowKept` | `PollLimit < FiveMinutes` | the sweep takes a lock of five minutes for a dead poller's, and a poll that was overtaken may deliver a clip that has been refunded |
| | no database error | a refund whose statement that fails the row is lost runs on a row that may still complete |
| `InOrder`, `Cancelled`, `Reported` | `Undisturbed`: no early sweep, no database error, no retry | a node without a row is passed over, a query that fails counts as no rows, a retry races the verdict and the drivers. Cancels, restarts, failed children and any number of drivers are allowed |

Nothing is asked of `PostLimit`, and but for `EscrowKept` nothing of `PollLimit`: the
theorems hold for posts and polls of any length.

| Module | Theorem | Property |
|---|---|---|
| `VideoJobsProofs` | `TypeCorrect`, `RefundedOnce`, `BalanceExact`, `Money` | `TypeOK`, `RefundAtMostOnce`, `MoneyConserved`, both as `MoneySafe` |
| | `FailedStays`, `PollsExcluded`, `OneFileKept` | `FailedIsFinal`, `OnePollPerJob`, `OneFilePerJob` |
| | `PaymentsKept`, `EscrowKept` | `PaidWork`, `ImplementsEscrow` |
| `LedgerProofs` | `TypeCorrect`, `Overdraft`, `NothingLost`, `BooksAgree` | `TypeOK`, `OverdraftBounded`, `UsageAccounted`, `BooksBalance` |
| | `AtMostOneCredit`, `OneOrderPerTrade`, `OneCredit` | `CreditedOnce`, `TradePaysOnce`, both as `OneCreditPerTrade` |
| `WorkflowRunsProofs` | `TypeCorrect`, `StartedOnce`, `Stand` | `TypeOK`, `ClaimedOnce`, `ResultsStand` |
| | `InOrder`, `Cancelled`, `Reported` | `NothingRunsAhead`, `CancelStops`, `ReportsRight` |
| `AgentRuntimesProofs` | `TypeCorrect`, `RegisteredIsPaid`, `TeardownRetires`, `OneSandbox` | `TypeOK`, `LiveIsPaid`, `StopRetires`, `NoFork` |
| `MediaJobsProofs` | `MediaTypeCorrect`, `MediaMoney`, `FilesAgree`, `PicturesKeepEscrow` | `TypeOK`, `MediaMoneyExplained`, `FilesMatchRows`, `ImplementsEscrow` |
| `AccessProofs` | `TwiceTheLimit` | `TwiceAtMost` |
| | `RegTypeCorrect`, `RegistrationsExplained` | `RegTypeOK`, `RegistrationExplained` |
| | `AccTypeCorrect`, `AlwaysAdministered`, `SessionsEnd` | `AccTypeOK`, `SomebodyAdministers`, `ResetEndsSessions` |
| | `CliTypeCorrect`, `TokensAreExplained` | `CliTypeOK`, `TokensExplained` |
| `DevicesProofs` | `DevicesTypeCorrect`, `RegistriesSound`, `CapsExplained` | `DevicesTypeOK`, `RegistrySound`, `CapExplained` |
| | `CredentialsKept`, `SessionsMatch` | `ForgetsOnlyRefused`, `SessionsMatchMachines` |
| `ConversationProofs` | `ChannelsTypeCorrect`, `AvailabilityIsSound`, `DisabledModelsStay`, `RoutesAreFresh` | `ChannelsTypeOK`, `AvailabilitySound`, `DisabledStays`, `RoutedFresh` |
| | `ChatTypeCorrect`, `ChatsAreCharged` | `ChatTypeOK`, `UsageIsCharged` |
| | `TurnsTypeCorrect`, `MirrorsAreWhole`, `StatusesExplained` | `TurnsTypeOK`, `MirrorIsWhole`, `StatusExplained` |
| | `DialogTypeCorrect`, `QuestionsAreAnswered` | `DialogTypeOK`, `AskedAndAnswered` |

The arguments:

* **Video jobs, money.** `FailedIsFinal` needs from the invariant below that the insert
  of a row meets no row. `RefundAtMostOnce` is not inductive: an actor about to grant
  must be the only one, and the early grants of `create_job` must not meet
  `refund_job`. `IInv` adds `Ownership` (until the row is inserted the job
  belongs to one handler and is unrefunded; everybody else works on a job that
  has had a row), `Granting` (the flag goes up before the money comes back, for
  one actor at a time), `Amounts` (all of the price or nothing) and
  `RetriesLeft` (the snapshot a poll counts from is below the limit, which is
  what types the counter). `MoneyConserved` is about the cardinality of the set
  of unrefunded jobs; only three actions change it, each by one element.
* **Video jobs, the lock.** `LockHeld` is what makes the column a lock: whoever is past
  `LockPoll` finds it set and is alone, unless the repair took it. `FilesHeld` then
  follows the one file of a poll to its row: a poll at work finds a row without a clip,
  whoever deletes a row has removed its file first or seen the store fail to, and a file
  is of the job whose row or whose actor holds it, so that a job outside `overtaken` and
  `dropped` cannot lose one to a job inside. A crash and a disconnect are one step of
  the proof (`CutOff`), of a set of actors.
* **Video jobs, refunds.** `RefundsFollowFailure` (`refund_job` runs on failed rows
  only, unless the statement that fails the row was lost) and `Payments` (whoever is
  owed has somebody at work on the refund, also past the deletion of the row) give
  `PaidWork`. `EscrowKept` puts all of this together with `Undisturbed` (under its
  hypothesis a lock is no older than `PollLimit`, so none is taken from a poll): every
  step of the model is a step of `Escrow` on one job or a stutter, one lemma to a group
  of actions; that a clip is delivered on a payment that is still held needs the poll
  to be alone.
* **Quota.** `RoomLeft` strengthens the bound: `balance + debited > -MaxCost * |Free|`,
  where a task is free as long as it has not been admitted. A negative adjustment adds
  to `debited` what it takes below zero, so the sum stays what it is or ends at zero or
  above. A chat is admitted
  only at a positive balance, when the bound holds whatever the set; a
  settlement charges at most `MaxCost` and makes its task free again, which
  pays for the charge. For `BooksBalance` the invariant is a sum: what the ledger
  lacks (`Missing`) is what the tasks have moved and not yet booked. The sum over
  tasks is a function on sets of tasks of which `Adds` says that it adds; that it
  exists is part of the invariant, and `SetInduction` gives its value when no task
  owes, and how it moves when one task's share does.
* **Recharge.** `Owed`: a notification on its way from the conditional UPDATE
  to the credit is the only one for its order, and the order has no credit yet;
  `Columns` and `Noticed` relate an order's status, number and credits to where
  its notifications are. Trade numbers of paid orders are distinct because the
  UPDATE fails on a duplicate (the unique index).
* **Workflow runs.** `Claims`: a node that waits has been put back as often as
  it was started. `ResultsStand` is a step property that needs the types of the
  drivers' locals (a driver that records a result holds a node and a result).
  `Ordered`: all rows are there before anyone looks, and what a driver has planned to
  claim has completed inputs. `Stopped`: a cancel closes the run before its nodes, so
  a claim, which asks for a running run, comes too late for both. `Judged`: a driver
  may act on a snapshot that is old because ends are final (`EndsStand`): what it found
  completed is completed, a blocked node still has an input that failed, and a run with a
  cancelled node is no longer running. `Own`: a node with a child job is attempted
  once, so the job a driver reads under its token is the node's own, and the answer
  it carries still stands.
* **Agent runtimes.** `Launching` (a start at work holds a valid credential) and
  `Retiring` (whoever is about to revoke a credential holds a runtime that has ended or
  is past its registration and no longer registered) make `LiveIsPaid` inductive;
  `Retired` follows a teardown step by step, restarts included, and passes on at each
  step which credential or container was left by a failure (nothing makes a revoked
  credential valid again); `Named` (a running sandbox holds the name) gives `NoFork`.
* **Media jobs.** What a job has paid, been given back and delivered is a fact about
  that job alone, so the invariant is `Sound(j)` for every job: `Paying` (only a picture
  made with a shared key is paid, before it is begun), `Refunding` (a refund is of a job
  that has delivered nothing, and comes once), `Settling` (where the amounts differ at
  the end there is a cause). Most actions move one job: `OneJobMoves` carries the others
  over, and what is left is that job's own case. A crash and the boot move all of them,
  an avatar its predecessor too. Files are shared only through the store: `Owned` (a row
  names objects of its own task), `Present` (they are there while the task runs and
  while they are listed, and gone, or among the `survivors`, once an export's deletion
  has passed them), `Together` (as long as no bucket was left behind a copy is where the
  backend looks) and `Replaced` (the picture an upload of an avatar deletes is of an
  earlier one, which the profile no longer names). `PicturesKeepEscrow` needs both and
  `Handing`: handing over is the last thing that happens to a picture job and the only
  way its row comes to name a file, so a row that is deleted afterwards still tells
  whether it delivered. `EscrowStep` then has three actions that move a job (`Deduct`,
  `Refund`, `Done`); the others leave its stage alone.
* **Limiter.** A bucket holds the last attempts of its window (`InBucket`); the ones
  before the last `Most` of them and the bucket are of a window that is over (`Aged`).
  A bucket is forgotten only when its window is over too, so forgetting it loses nothing.
* **Registration.** `Spent`: a used letter has been used by somebody who opened the
  account, was refused, met a mishap or is about to insert; with one account to an
  address, two such requests are the same. `Rewarded` says by a registration's position
  which of its two rewards have been granted, of those the settings give.
* **Accounts.** `OthersLeft`: whoever is about to be removed is not the last
  administrator, as long as no two removals overlapped; the lemmas about cardinality
  turn "more than one was counted" into a second administrator. `Opened`: an imposed
  password is no later than the present one, and a login that read an older hash will
  be met by the DELETE or was overtaken by it, which is what a session has to inherit.
* **Command line.** `Approved` (an approved code is not denied and keeps its account),
  `Held` (a token is of the account its poll read) and `Claimed` (whoever answers has
  claimed) make the one token for one code inductive, together with `NoOrphanToken`. The
  cap needs a stronger bound: of the tokens inserted on a count that still stands there
  are at most `TokenCap`, and a count that stands has room (`Room`).
* **Devices.** `Attached`, `Rows` and `Given` tie a machine, its socket, its row and the
  token on its disk together through the messages under way; `RaceSeen` is the one way
  in after a revocation. `Refused`: whoever was refused for the stored token was refused
  rightly. `Counted`: the rows that count against the cap are within it, and each beyond
  it has an excuse; a count that is still to be used is in time. `Hosts`: a manager that
  neither a connection has nor `stop()` has yet to empty hosts nothing but what was
  inserted after it was emptied. Who answers for a session: a session that points at a
  runtime (`Routed`) has a start under way, a runtime whose end will be told on that
  socket (`Pumping`, `Serving`), or a notice in a queue. At rest only the runtime is
  left, and what it takes to be at rest is spelled out actor by actor (`SocketBusy`,
  `RunBusy`, `DeskBusy`, `ClientBusy`) in place of `ENABLED`. Most steps leave all but
  one socket and one queue alone, and what an action adds to a queue is one message
  (`Incoming`).
* **Channels.** Freshness is a chain of ages: of an entry (`CachedFresh`), of an
  answer under way (`AnswerFresh`), of an answer held while others are awaited
  (`HeldFresh`), each bounded by the one before and a probe. A pruner that no change
  overtook works on the tables as they are (`AsTheyAre`) and prunes what it found
  unserved (`Unserved`). That the picker and the router agree needs that ordering a
  chain neither loses a channel nor adds one: the position of a channel in its chain is a
  number (`Rank`, `Place`), distinct for distinct channels.
* **Chats.** No counter exceeds a report that was forwarded (`NeverMore`), and unless a
  reason is on record the pending frames begin where no report is cut (`NoneCut`) and
  all before them is counted (`AllCounted`), for bodies of any length cut in any way.
  What parsing a stretch of frames yields is a fold of maxima, which `SetInduction`
  takes one report at a time.
* **Turns.** The mirrored prefix: up to the cursor, up to what a pass has inserted and
  before every stored entry everything is stored or was missed by a failing INSERT or
  taken by a deletion
  (`FilledCursor`, `FilledPasses`, `FilledEntries`). `Followed`: an entry that is not
  there yet has a pass to come. `RowTells`: with nothing pending that will write the
  status, the status is right or `unheard` says why not; of the commands, only a prompt
  that was accepted and not yet recorded is pending, for a stop or an abort starts no turn.
* **Dialogs.** A question has not been asked, waits, is in one client's hand, or was
  answered (`Unanswered`, `InHand`, `OneHand`, `Somewhere`). `AskedOfAll`: who listens
  and has not fallen behind shows it or has it in the queue, which
  needs that a queue takes a question back only when it is gone (`ResolvedIsGone`).

The library's induction theorems take an operator as a parameter and cannot be
instantiated here. `SetInduction` replaces them where a sum or a fold is over a finite
set: a *family* of subsets that has the empty set and is closed under one more element
has the whole set. It is proved from the well-foundedness of the order on finite sets.

Two things were wrong and came out in the proofs. The step of the clock in `Channels`
let an answer under way outlive its limit. And `ForgetsOnlyRefused` was stated without the
exception of a connection that breaks after a typed login: it takes three sockets of
one machine, and `Access_races` has two (see [disagreements](#disagreements-found)).

## What is only model-checked

* All liveness properties (`NothingStaysBusy`, `PaymentResolved`, `PaidIsCredited`,
  `EveryRunEnds`, `NothingLingers`, `EveryMediaJobEnds`): they need fairness, which the
  prover does not handle.

Every other property of the runs that are expected to pass is proved.

Abstracted in what is modelled: request validation, prices as amounts, response
formatting, logs; the FFmpeg command lines; one account, one session, one model
and one question at a time, because those of others share nothing with them;
clocks, except the ages in `VideoJobs`, `Channels` and `RateLimiter`. A device's
machine has one session. Directory listings and workspaces of a device end with their
request and are left out.

## Not modelled

* **Workflow graphs** (`validate_graph`, `input_edges`): a pure function of a
  document that is saved in one statement; runs keep the graph they were started with,
  which is a constant of `WorkflowRuns`.
* **Conversations, prompts, skills, sharing, settings, search**: one statement
  at a time, last write wins, and nothing else depends on it.
* **Usage statistics**: read only.
* **Database access, migrations, copying, setup**: SQL dialects and input and output.
* **Outbound address policy**: a pure check of an address.
* **Desktop application and web interface**: user interface, apart from the
  connector and its runtimes, which `Devices` has. **Agent extension**: files that an
  external program loads.

Parts that are modelled in part name what they leave out under `components` in
`PROJECT.json`. What would extend this project: the liveness of single
tasks by hand, as lemmas that each step is enabled until it is taken; `validate_graph`
as a function, against the definition of an acyclic graph; and the parts listed as
modelled in part, the runtimes' tools and workspaces before the others.
