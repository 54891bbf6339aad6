----------------------------- MODULE VideoJobs -----------------------------
(***************************************************************************)
(* Paid video generation (src/videos.rs): the rows of video_jobs, the      *)
(* balance that pays for them, the stored mp4 files, and everybody who     *)
(* moves a job: create_job and delete_job requests, the get_job requests   *)
(* and workflow drivers that poll (advance_job), and the background sweep. *)
(* One step is one statement against the database, one call to the         *)
(* upstream provider or one access to the media store, which is where the  *)
(* async code can be preempted, dropped or lost.                           *)
(***************************************************************************)
EXTENDS Integers, FiniteSets

CONSTANTS
    Jobs,         \* ids of the jobs that may be requested
    Handlers,     \* request handlers and workflow drivers
    Sweeper,      \* the background task that runs sweep()
    Files,        \* names of stored mp4 files
    None,         \* an absent file
    JobOf,        \* the job a file's name is drawn for: names are random
    InitBalance,  \* the user's balance before the first request
    Cost,         \* cost_quota of a platform job
    MaxRetries,   \* failed downloads that end a job (5 in the code)
    PostLimit,    \* how old a job can get while its create POST is in flight
    PollLimit,    \* how old a polling lock can get while its poll still runs
    Requests,     \* what clients ask for: "create", "custom", "poll", "delete"
    Faults,       \* what can go wrong: "db", "store", "disconnect", "crash"
    MaxMishaps    \* how many times something goes wrong

(* Ages are measured on the thresholds the SQL compares with.             *)
Now == 0  ThreeSeconds == 1  TwoMinutes == 2  FiveMinutes == 3
TenMinutes == 4  TwoHours == 5
Ages == 0..5
Never == -1       \* last_polled_at IS NULL

ASSUME VideoAssumption ==
    /\ Sweeper \notin Handlers
    /\ None \notin Files /\ JobOf \in [Files -> Jobs]
    /\ IsFiniteSet(Jobs)
    /\ InitBalance \in Nat /\ Cost \in Nat \ {0}
    /\ MaxRetries \in Nat \ {0}
    /\ PostLimit \in Ages /\ PollLimit \in Ages
    /\ MaxMishaps \in Nat

VARIABLES
    status, upstream, refunded, polling, retries, video,  \* columns of a row
    custom,           \* channel_id IS NULL: billed by nobody
    age, idle,        \* time since created_at and since last_polled_at
    balance,          \* user_balances.balance
    charged, credited,\* what a job has cost and what it got back so far
    delivered,        \* the jobs that ever reached 'completed'
    files,            \* the media store
    pc, role, tgt, obj, snap,  \* the position and the locals of every actor
    todo,             \* rows the sweep has selected and not handled yet
    mishaps,
    overtaken, missed, dropped, \* ghosts: jobs whose lock was taken from a poll under way,
                                \* whose refund met a failing statement, or whose actor was
                                \* cut off with a payment or a clip in its hands
    undeleted                   \* ghost: clips that the store failed to remove

row == <<status, upstream, refunded, polling, retries, video, custom>>
clock == <<age, idle>>
money == <<balance, charged, credited>>
locals == <<tgt, obj>>
control == <<pc, role, snap, locals>>
luck == <<mishaps, overtaken, missed, dropped, undeleted>>
rest == <<delivered, files>>
vars == <<row, clock, money, rest, control, todo, luck>>

Actors == Handlers \cup {Sweeper}
Live == {"pending", "running"}
Terminal == {"completed", "failed"}
RowStatus == Live \cup Terminal
Status == RowStatus \cup {"none", "requested", "deleted"}

CreateSteps == {"choose", "giveBack", "insert", "post", "record"}
RefundSteps == {"markFailed", "flag", "grant"}
PollSteps == {"lock", "refetch", "ask", "download", "complete", "discard",
              "retry", "release"}
SweepSteps == {"selectStale", "stale", "orphans"}
Resting == {"idle"} \cup SweepSteps
Steps == CreateSteps \cup RefundSteps \cup PollSteps \cup SweepSteps
         \cup {"idle", "delFile", "delRow"}

HasRow(j) == status[j] \in RowStatus
Price(j) == IF custom[j] THEN 0 ELSE Cost

(* A job's actor moves on, and what it no longer needs is forgotten: its   *)
(* snapshot after the last use, its role once it is done with the job.     *)
Goto(a, label) ==
    /\ pc' = [pc EXCEPT ![a] = label]
    /\ role' = [role EXCEPT ![a] = IF label \in Resting THEN "none" ELSE @]
    /\ snap' = [snap EXCEPT ![a] = IF label \in {"download", "retry"} THEN @ ELSE 0]

(* An actor takes up job j.                                                *)
Enter(a, r, j, label) ==
    /\ pc' = [pc EXCEPT ![a] = label]
    /\ role' = [role EXCEPT ![a] = r]
    /\ tgt' = [tgt EXCEPT ![a] = j]
    /\ UNCHANGED snap

(* Something goes wrong. A statement that fails has no effect, and its     *)
(* error is dropped by the code (let _ =, unwrap_or(0)).                   *)
Mishap(kind) ==
    /\ kind \in Faults /\ mishaps < MaxMishaps
    /\ mishaps' = mishaps + 1 /\ UNCHANGED overtaken
DbFails == Mishap("db") /\ UNCHANGED <<missed, dropped, undeleted>>
RefundFails(j) == Mishap("db") /\ missed' = missed \cup {j} /\ UNCHANGED <<dropped, undeleted>>
StoreFails(f) ==
    Mishap("store") /\ undeleted' = undeleted \cup {f} /\ UNCHANGED <<missed, dropped>>
Fine == UNCHANGED luck

(* Polls whose lock is taken and whose upstream calls are not over.       *)
Holding(j) == {a \in Actors : /\ pc[a] \in PollSteps \cup RefundSteps
                              /\ pc[a] # "lock"
                              /\ role[a] = "poll" /\ tgt[a] = j}
(* Who has a payment to give back or a clip to record or remove.           *)
Laden == {a \in Actors : pc[a] \in {"choose", "giveBack", "insert", "flag", "grant", "complete", "discard"}}

Posting(j) == {a \in Actors : pc[a] \in {"post", "record"} /\ tgt[a] = j}

TypeOK ==
    /\ status \in [Jobs -> Status]
    /\ upstream \in [Jobs -> BOOLEAN]
    /\ refunded \in [Jobs -> BOOLEAN]
    /\ polling \in [Jobs -> BOOLEAN]
    /\ retries \in [Jobs -> 0..MaxRetries]
    /\ video \in [Jobs -> Files \cup {None}]
    /\ custom \in [Jobs -> BOOLEAN]
    /\ age \in [Jobs -> Ages]
    /\ idle \in [Jobs -> Ages \cup {Never}]
    /\ balance \in Int
    /\ charged \in [Jobs -> Nat]
    /\ credited \in [Jobs -> Nat]
    /\ delivered \in SUBSET Jobs
    /\ files \in SUBSET Files
    /\ pc \in [Actors -> Steps]
    /\ role \in [Actors -> {"none", "create", "poll", "delete", "stale"}]
    /\ tgt \in [Actors -> Jobs]
    /\ obj \in [Actors -> Files \cup {None}]
    /\ snap \in [Actors -> 0..MaxRetries]
    /\ todo \in SUBSET Jobs
    /\ mishaps \in 0..MaxMishaps
    /\ overtaken \in SUBSET Jobs /\ missed \in SUBSET Jobs /\ dropped \in SUBSET Jobs
    /\ undeleted \in SUBSET Files

Init ==
    /\ status = [j \in Jobs |-> "none"]
    /\ upstream = [j \in Jobs |-> FALSE]
    /\ refunded = [j \in Jobs |-> FALSE]
    /\ polling = [j \in Jobs |-> FALSE]
    /\ retries = [j \in Jobs |-> 0]
    /\ video = [j \in Jobs |-> None]
    /\ custom = [j \in Jobs |-> FALSE]
    /\ age = [j \in Jobs |-> Now]
    /\ idle = [j \in Jobs |-> Never]
    /\ balance = InitBalance
    /\ charged = [j \in Jobs |-> 0]
    /\ credited = [j \in Jobs |-> 0]
    /\ delivered = {} /\ files = {} /\ mishaps = 0 /\ todo = {}
    /\ overtaken = {} /\ missed = {} /\ dropped = {} /\ undeleted = {}
    /\ pc = [a \in Actors |-> "idle"]
    /\ role = [a \in Actors |-> "none"]
    /\ tgt \in {[a \in Actors |-> j] : j \in Jobs}
    /\ obj = [a \in Actors |-> None]
    /\ snap = [a \in Actors |-> 0]

-----------------------------------------------------------------------------
(* create_job                                                              *)

(* A platform request is priced and paid for by try_deduct's conditional   *)
(* UPDATE before anything else happens; a custom one costs nothing.        *)
Deduct(h, j) ==
    /\ "create" \in Requests
    /\ pc[h] = "idle" /\ status[j] = "none" /\ balance >= Cost
    /\ balance' = balance - Cost
    /\ charged' = [charged EXCEPT ![j] = Cost]
    /\ status' = [status EXCEPT ![j] = "requested"]
    /\ Enter(h, "create", j, "choose")
    /\ UNCHANGED <<upstream, refunded, polling, retries, video, custom, clock,
                   credited, rest, obj, todo, luck>>

RequestCustom(h, j) ==
    /\ "custom" \in Requests
    /\ pc[h] = "idle" /\ status[j] = "none"
    /\ custom' = [custom EXCEPT ![j] = TRUE]
    /\ status' = [status EXCEPT ![j] = "requested"]
    /\ Enter(h, "create", j, "insert")
    /\ UNCHANGED <<upstream, refunded, polling, retries, video, clock, money,
                   rest, obj, todo, luck>>

(* select_one_by_advertised_model: a channel, none, or an error.           *)
ChooseChannel(h) ==
    /\ pc[h] = "choose"
    /\ \/ Goto(h, "insert")
       \/ Goto(h, "giveBack")
    /\ UNCHANGED <<row, clock, money, rest, locals, todo, luck>>

(* The refund of a job that never got a row: quota::grant, result ignored. *)
GiveBack(h) ==
    /\ pc[h] = "giveBack"
    /\ \/ /\ Fine
          /\ balance' = balance + Price(tgt[h])
          /\ credited' = [credited EXCEPT ![tgt[h]] = @ + Price(tgt[h])]
       \/ RefundFails(tgt[h]) /\ UNCHANGED <<balance, credited>>
    /\ Goto(h, "idle")
    /\ UNCHANGED <<row, clock, charged, rest, locals, todo>>

InsertJob(h) ==
    /\ pc[h] = "insert"
    /\ \/ /\ Fine
          /\ status' = [status EXCEPT ![tgt[h]] = "pending"]
          /\ Goto(h, "post")
       \/ DbFails /\ Goto(h, "giveBack") /\ UNCHANGED status
    /\ UNCHANGED <<upstream, refunded, polling, retries, video, custom, clock,
                   money, rest, locals, todo>>

(* POST /v1/videos: an id, or any of the failures after the insert.        *)
PostUpstream(h) ==
    /\ pc[h] = "post"
    /\ \/ Goto(h, "record")
       \/ Goto(h, "markFailed")
    /\ UNCHANGED <<row, clock, money, rest, locals, todo, luck>>

(* UPDATE ... SET upstream_video_id, status = 'running', last_polled_at    *)
(* WHERE status = 'pending': no row changes when somebody ended the job.   *)
RecordUpstream(h) ==
    LET j == tgt[h] IN
    /\ pc[h] = "record"
    /\ \/ /\ Fine /\ status[j] = "pending"
          /\ upstream' = [upstream EXCEPT ![j] = TRUE]
          /\ status' = [status EXCEPT ![j] = "running"]
          /\ idle' = [idle EXCEPT ![j] = Now]
       \/ /\ (Fine /\ status[j] # "pending") \/ DbFails
          /\ UNCHANGED <<upstream, status, idle>>
    /\ Goto(h, "idle")
    /\ UNCHANGED <<refunded, polling, retries, video, custom, age, money, rest,
                   locals, todo>>

-----------------------------------------------------------------------------
(* mark_job_failed followed by refund_job, as every caller runs them       *)

AfterRefund(a) == CASE role[a] = "poll"  -> "release"
                    [] role[a] = "stale" -> "stale"
                    [] OTHER             -> "idle"

(* mark_job_failed: UPDATE ... WHERE id, whatever the row's status is.     *)
MarkJobFailed(a) ==
    LET j == tgt[a] IN
    /\ pc[a] = "markFailed"
    /\ \/ /\ Fine /\ HasRow(j)
          /\ status' = [status EXCEPT ![j] = "failed"]
       \/ /\ (Fine /\ ~HasRow(j)) \/ RefundFails(j)
          /\ UNCHANGED status
    /\ Goto(a, "flag")
    /\ UNCHANGED <<upstream, refunded, polling, retries, video, custom, clock,
                   money, rest, locals, todo>>

(* Mutant of FlagRefund: the UPDATE without "AND refunded <> 1".           *)
FlagRefundAgain(a) ==
    LET j == tgt[a] IN
    /\ pc[a] = "flag" /\ Fine
    /\ refunded' = [refunded EXCEPT ![j] = TRUE]
    /\ Goto(a, IF HasRow(j) /\ Price(j) > 0 THEN "grant" ELSE AfterRefund(a))
    /\ UNCHANGED <<status, upstream, polling, retries, video, custom, clock,
                   money, rest, locals, todo>>

(* refund_job, first half: UPDATE ... SET refunded = 1 WHERE refunded <> 1 *)
FlagRefund(a) ==
    LET j == tgt[a] IN
    /\ pc[a] = "flag"
    /\ \/ /\ Fine /\ HasRow(j) /\ ~refunded[j] /\ Price(j) > 0
          /\ refunded' = [refunded EXCEPT ![j] = TRUE]
          /\ Goto(a, "grant")
       \/ /\ (Fine /\ (~HasRow(j) \/ refunded[j] \/ Price(j) = 0)) \/ RefundFails(j)
          /\ Goto(a, AfterRefund(a))
          /\ UNCHANGED refunded
    /\ UNCHANGED <<status, upstream, polling, retries, video, custom, clock,
                   money, rest, locals, todo>>

(* refund_job, second half: quota::grant, whose error is ignored.          *)
GrantRefund(a) ==
    LET j == tgt[a] IN
    /\ pc[a] = "grant"
    /\ \/ /\ Fine
          /\ balance' = balance + Price(j)
          /\ credited' = [credited EXCEPT ![j] = @ + Price(j)]
       \/ RefundFails(j) /\ UNCHANGED <<balance, credited>>
    /\ Goto(a, AfterRefund(a))
    /\ UNCHANGED <<row, clock, charged, rest, locals, todo>>

-----------------------------------------------------------------------------
(* advance_job, for a get_job request, a workflow driver or the sweep      *)

StartPoll(a, j) ==
    /\ status[j] \in Live
    /\ Enter(a, "poll", j, "lock")

GetJob(h, j) ==
    /\ "poll" \in Requests
    /\ pc[h] = "idle" /\ StartPoll(h, j)
    /\ UNCHANGED <<row, clock, money, rest, obj, todo, luck>>

AfterPoll(a) == IF a = Sweeper THEN "orphans" ELSE "idle"

(* Mutant of LockPoll: the throttle alone, without "polling <> 1".         *)
LockPollShared(a) ==
    LET j == tgt[a] IN
    /\ pc[a] = "lock" /\ Fine
    /\ \/ /\ HasRow(j)
          /\ idle[j] = Never \/ idle[j] >= ThreeSeconds
          /\ polling' = [polling EXCEPT ![j] = TRUE]
          /\ idle' = [idle EXCEPT ![j] = Now]
          /\ Goto(a, "refetch")
       \/ ~HasRow(j) /\ Goto(a, AfterPoll(a)) /\ UNCHANGED <<polling, idle>>
    /\ UNCHANGED <<status, upstream, refunded, retries, video, custom, age,
                   money, rest, locals, todo>>

(* The lock is a conditional UPDATE with a throttle of three seconds; it   *)
(* looks at polling and last_polled_at only.                               *)
LockPoll(a) ==
    LET j == tgt[a] IN
    /\ pc[a] = "lock"
    /\ \/ /\ Fine /\ HasRow(j) /\ ~polling[j]
          /\ idle[j] = Never \/ idle[j] >= ThreeSeconds
          /\ polling' = [polling EXCEPT ![j] = TRUE]
          /\ idle' = [idle EXCEPT ![j] = Now]
          /\ Goto(a, "refetch")
       \/ /\ (Fine /\ (~HasRow(j) \/ polling[j] \/ idle[j] = Now)) \/ DbFails
          /\ Goto(a, AfterPoll(a))
          /\ UNCHANGED <<polling, idle>>
    /\ UNCHANGED <<status, upstream, refunded, retries, video, custom, age,
                   money, rest, locals, todo>>

(* The second fetch: its snapshot decides what the rest of the poll does.  *)
RefetchJob(a) ==
    LET j == tgt[a] IN
    /\ pc[a] = "refetch"
    /\ \/ /\ Fine /\ status[j] \in Live /\ upstream[j]
          /\ pc' = [pc EXCEPT ![a] = "ask"]
          /\ snap' = [snap EXCEPT ![a] = retries[j]]
          /\ UNCHANGED role
       \/ Fine /\ status[j] \in Live /\ ~upstream[j] /\ Goto(a, "markFailed")
       \/ ((Fine /\ status[j] \notin Live) \/ DbFails) /\ Goto(a, "release")
    /\ UNCHANGED <<row, clock, money, rest, locals, todo>>

(* poll_upstream_once with an id: no news (queued, in progress, a network  *)
(* or parse error, no credentials), a failure (or a deleted channel), or a *)
(* finished clip.                                                          *)
AskUpstream(a) ==
    /\ pc[a] = "ask"
    /\ \E next \in {"release", "markFailed", "download"} : Goto(a, next)
    /\ UNCHANGED <<row, clock, money, rest, locals, todo, luck>>

(* The content download and MediaStorage::put under a fresh random name.   *)
Download(a) ==
    /\ pc[a] = "download"
    /\ \/ \E f \in Files \ files :
            /\ JobOf[f] = tgt[a] /\ \A b \in Actors : obj[b] # f
            /\ files' = files \cup {f}
            /\ obj' = [obj EXCEPT ![a] = f]
            /\ Goto(a, "complete")
       \/ Goto(a, "retry") /\ UNCHANGED <<files, obj>>
    /\ UNCHANGED <<row, clock, money, delivered, tgt, todo, luck>>

(* Mutant of CompleteJob: the UPDATE without "AND status <> 'failed'".     *)
CompleteAnyway(a) ==
    LET j == tgt[a] IN
    /\ pc[a] = "complete" /\ HasRow(j) /\ Fine
    /\ status' = [status EXCEPT ![j] = "completed"]
    /\ video' = [video EXCEPT ![j] = obj[a]]
    /\ delivered' = delivered \cup {j}
    /\ obj' = [obj EXCEPT ![a] = None]
    /\ Goto(a, "release")
    /\ UNCHANGED <<upstream, refunded, polling, retries, custom, clock, money,
                   files, tgt, todo>>

(* UPDATE ... SET status = 'completed', video_path WHERE status <> 'failed'*)
CompleteJob(a) ==
    LET j == tgt[a] IN
    /\ pc[a] = "complete"
    /\ \/ /\ Fine /\ HasRow(j) /\ status[j] # "failed"
          /\ status' = [status EXCEPT ![j] = "completed"]
          /\ video' = [video EXCEPT ![j] = obj[a]]
          /\ delivered' = delivered \cup {j}
          /\ obj' = [obj EXCEPT ![a] = None]
          /\ Goto(a, "release")
       \/ /\ (Fine /\ (~HasRow(j) \/ status[j] = "failed")) \/ DbFails
          /\ Goto(a, "discard")
          /\ UNCHANGED <<status, video, delivered, obj>>
    /\ UNCHANGED <<upstream, refunded, polling, retries, custom, clock, money,
                   files, tgt, todo>>

(* Mutant of DiscardFile: the clip of a failed job is left in the store.   *)
ForgetFile(a) ==
    /\ pc[a] = "discard"
    /\ obj' = [obj EXCEPT ![a] = None]
    /\ Goto(a, "release")
    /\ UNCHANGED <<row, clock, money, rest, tgt, todo, luck>>

(* storage.delete, whose error is dropped.                                 *)
Remove(f) ==
    \/ Fine /\ files' = files \ {f}
    \/ f # None /\ StoreFails(f) /\ UNCHANGED files

DiscardFile(a) ==
    /\ pc[a] = "discard"
    /\ Remove(obj[a])
    /\ obj' = [obj EXCEPT ![a] = None]
    /\ Goto(a, "release")
    /\ UNCHANGED <<row, clock, money, delivered, tgt, todo>>

(* Mutants of DownloadFailed: one retry too many, and no refund at the end.*)
DownloadOnceMore(a) ==
    LET j == tgt[a]  last == snap[a] + 1 > MaxRetries IN
    /\ pc[a] = "retry" /\ HasRow(j) /\ Fine
    /\ retries' = [retries EXCEPT ![j] = snap[a] + 1]
    /\ status' = IF last THEN [status EXCEPT ![j] = "failed"] ELSE status
    /\ Goto(a, IF last THEN "flag" ELSE "release")
    /\ UNCHANGED <<upstream, refunded, polling, video, custom, clock, money,
                   rest, locals, todo>>

DownloadUnrefunded(a) ==
    LET j == tgt[a]  last == snap[a] + 1 >= MaxRetries IN
    /\ pc[a] = "retry" /\ HasRow(j) /\ Fine
    /\ retries' = [retries EXCEPT ![j] = snap[a] + 1]
    /\ status' = IF last THEN [status EXCEPT ![j] = "failed"] ELSE status
    /\ Goto(a, "release")
    /\ UNCHANGED <<upstream, refunded, polling, video, custom, clock, money,
                   rest, locals, todo>>

(* handle_download_failure: counts from the snapshot, and the last retry   *)
(* fails the row without looking at its status.                            *)
DownloadFailed(a) ==
    LET j == tgt[a]  last == snap[a] + 1 >= MaxRetries IN
    /\ pc[a] = "retry"
    /\ \/ /\ Fine /\ HasRow(j)
          /\ retries' = [retries EXCEPT ![j] = snap[a] + 1]
          /\ status' = IF last THEN [status EXCEPT ![j] = "failed"] ELSE status
       \/ /\ \/ Fine /\ ~HasRow(j)
             \/ IF last THEN RefundFails(j) ELSE DbFails
          /\ UNCHANGED <<retries, status>>
    /\ Goto(a, IF last THEN "flag" ELSE "release")
    /\ UNCHANGED <<upstream, refunded, polling, video, custom, clock, money,
                   rest, locals, todo>>

(* release_lock clears polling for the token, whoever set it.              *)
ReleaseLock(a) ==
    LET j == tgt[a] IN
    /\ pc[a] = "release"
    /\ \/ Fine /\ polling' = [polling EXCEPT ![j] = FALSE]
       \/ DbFails /\ UNCHANGED polling
    /\ Goto(a, AfterPoll(a))
    /\ UNCHANGED <<status, upstream, refunded, retries, video, custom, clock,
                   money, rest, locals, todo>>

-----------------------------------------------------------------------------
(* delete_job                                                              *)

StartDelete(h, j) ==
    /\ "delete" \in Requests
    /\ pc[h] = "idle" /\ status[j] \in Terminal
    /\ Enter(h, "delete", j, "delFile")
    /\ obj' = [obj EXCEPT ![h] = video[j]]
    /\ UNCHANGED <<row, clock, money, rest, todo, luck>>

DeleteFile(h) ==
    /\ pc[h] = "delFile"
    /\ Remove(obj[h])
    /\ obj' = [obj EXCEPT ![h] = None]
    /\ Goto(h, "delRow")
    /\ UNCHANGED <<row, clock, money, delivered, tgt, todo>>

DeleteRow(h) ==
    LET j == tgt[h] IN
    /\ pc[h] = "delRow"
    /\ \/ Fine /\ status' = [status EXCEPT ![j] = "deleted"]
       \/ DbFails /\ UNCHANGED status
    /\ Goto(h, "idle")
    /\ UNCHANGED <<upstream, refunded, polling, retries, video, custom, clock,
                   money, rest, locals, todo>>

-----------------------------------------------------------------------------
(* sweep                                                                   *)

(* Mutant of RepairLocks: only the locks of pending jobs are repaired.      *)
RepairPendingLocks ==
    /\ pc[Sweeper] = "idle" /\ Fine
    /\ polling' = [j \in Jobs |-> polling[j] /\ (status[j] # "pending" \/ idle[j] < FiveMinutes)]
    /\ Goto(Sweeper, "selectStale")
    /\ UNCHANGED <<status, upstream, refunded, retries, video, custom, clock,
                   money, rest, locals, todo>>

(* Duty 1: locks older than five minutes are taken for a dead poller's.    *)
RepairLocks ==
    /\ pc[Sweeper] = "idle"
    /\ \/ /\ polling' = [j \in Jobs |-> polling[j] /\ idle[j] < FiveMinutes]
          /\ overtaken' = overtaken \cup
                {j \in Jobs : polling[j] /\ idle[j] >= FiveMinutes /\ Holding(j) # {}}
          /\ UNCHANGED <<mishaps, missed, dropped, undeleted>>
       \/ DbFails /\ UNCHANGED polling
    /\ Goto(Sweeper, "selectStale")
    /\ UNCHANGED <<status, upstream, refunded, retries, video, custom, clock,
                   money, rest, locals, todo>>

(* Mutant of SelectStale: running jobs are left to their pollers.          *)
SelectStalePending ==
    /\ pc[Sweeper] = "selectStale"
    /\ todo' = {j \in Jobs : status[j] = "pending" /\ age[j] = TwoHours}
    /\ Goto(Sweeper, "stale")
    /\ UNCHANGED <<row, clock, money, rest, locals, luck>>

(* Duty 2: rows still live after two hours.                                *)
SelectStale ==
    /\ pc[Sweeper] = "selectStale"
    /\ \/ Fine /\ todo' = {j \in Jobs : status[j] \in Live /\ age[j] = TwoHours}
       \/ DbFails /\ todo' = {}
    /\ Goto(Sweeper, "stale")
    /\ UNCHANGED <<row, clock, money, rest, locals>>

(* Mutant of TimeOut: the row is failed without a second look.             *)
TimeOutAnyway(j) ==
    /\ pc[Sweeper] = "stale" /\ j \in todo
    /\ todo' = todo \ {j}
    /\ HasRow(j) /\ status' = [status EXCEPT ![j] = "failed"]
    /\ Enter(Sweeper, "stale", j, "flag")
    /\ UNCHANGED <<upstream, refunded, polling, retries, video, custom, clock,
                   money, rest, obj, luck>>

TimeOut(j) ==
    /\ pc[Sweeper] = "stale" /\ j \in todo
    /\ todo' = todo \ {j}
    /\ \/ /\ Fine /\ status[j] \in Live
          /\ status' = [status EXCEPT ![j] = "failed"]
          /\ Enter(Sweeper, "stale", j, "flag")
       \/ /\ (Fine /\ status[j] \notin Live) \/ DbFails
          /\ UNCHANGED <<status, pc, role, tgt, snap>>
    /\ UNCHANGED <<upstream, refunded, polling, retries, video, custom, clock,
                   money, rest, obj>>

(* Duty 3: platform rows nobody polled for ten minutes; a row without an   *)
(* upstream id only once it is two minutes old.                            *)
SelectOrphans ==
    /\ pc[Sweeper] = "stale" /\ todo = {}
    /\ \/ /\ Fine
          /\ todo' = {j \in Jobs : /\ status[j] \in Live /\ ~custom[j]
                                   /\ idle[j] = Never \/ idle[j] >= TenMinutes
                                   /\ upstream[j] \/ age[j] >= TwoMinutes}
       \/ DbFails /\ todo' = {}
    /\ Goto(Sweeper, "orphans")
    /\ UNCHANGED <<row, clock, money, rest, locals>>

AdvanceOrphan(j) ==
    /\ pc[Sweeper] = "orphans" /\ j \in todo
    /\ todo' = todo \ {j}
    /\ \/ StartPoll(Sweeper, j)
       \/ status[j] \notin Live /\ UNCHANGED <<pc, role, tgt, snap>>
    /\ UNCHANGED <<row, clock, money, rest, obj, luck>>

SweepDone ==
    /\ pc[Sweeper] = "orphans" /\ todo = {}
    /\ Goto(Sweeper, "idle")
    /\ UNCHANGED <<row, clock, money, rest, locals, todo, luck>>

-----------------------------------------------------------------------------
(* Time, and what can go wrong                                             *)

(* The HTTP client gives up after 600 s, so a POST does not outlive        *)
(* PostLimit nor a poll PollLimit.                                         *)
GrowOlder(j) ==
    /\ HasRow(j) /\ age[j] < TwoHours
    /\ age[j] + 1 > PostLimit => Posting(j) = {}
    /\ age' = [age EXCEPT ![j] = @ + 1]
    /\ UNCHANGED <<row, idle, money, rest, control, todo, luck>>

StayIdle(j) ==
    /\ HasRow(j)
    /\ idle[j] # Never /\ idle[j] < TenMinutes /\ idle[j] < age[j]
    /\ idle[j] + 1 > PollLimit => Holding(j) = {}
    /\ idle' = [idle EXCEPT ![j] = @ + 1]
    /\ UNCHANGED <<row, age, money, rest, control, todo, luck>>

(* The client closes the connection and the handler's future is dropped.   *)
Disconnect(h) ==
    /\ Mishap("disconnect")
    /\ pc[h] # "idle"
    /\ dropped' = dropped \cup {tgt[a] : a \in Laden \cap {h}} /\ UNCHANGED <<missed, undeleted>>
    /\ Goto(h, "idle")
    /\ obj' = [obj EXCEPT ![h] = None]
    /\ UNCHANGED <<row, clock, money, rest, tgt, todo>>

(* The process dies: every actor is gone, the database and files stay.     *)
Crash ==
    /\ Mishap("crash")
    /\ dropped' = dropped \cup {tgt[a] : a \in Laden} /\ UNCHANGED <<missed, undeleted>>
    /\ pc' = [a \in Actors |-> "idle"]
    /\ role' = [a \in Actors |-> "none"]
    /\ snap' = [a \in Actors |-> 0]
    /\ obj' = [a \in Actors |-> None]
    /\ todo' = {}
    /\ UNCHANGED <<row, clock, money, delivered, files, tgt>>

-----------------------------------------------------------------------------
RefundStep(a) == MarkJobFailed(a) \/ FlagRefund(a) \/ GrantRefund(a)

PollStep(a) ==
    \/ LockPoll(a) \/ RefetchJob(a) \/ AskUpstream(a) \/ Download(a)
    \/ CompleteJob(a) \/ DiscardFile(a) \/ DownloadFailed(a) \/ ReleaseLock(a)

CreateStep(h) ==
    \/ ChooseChannel(h) \/ GiveBack(h) \/ InsertJob(h)
    \/ PostUpstream(h) \/ RecordUpstream(h)

SweepStep ==
    \/ RepairLocks \/ SelectStale \/ SelectOrphans \/ SweepDone
    \/ \E j \in Jobs : TimeOut(j) \/ AdvanceOrphan(j)

(* What an actor does on its own once it runs.                             *)
HandlerStep(h) ==
    CreateStep(h) \/ RefundStep(h) \/ PollStep(h) \/ DeleteFile(h) \/ DeleteRow(h)
SweeperStep == SweepStep \/ RefundStep(Sweeper) \/ PollStep(Sweeper)

Request(h, j) ==
    Deduct(h, j) \/ RequestCustom(h, j) \/ GetJob(h, j) \/ StartDelete(h, j)

Next ==
    \/ \E h \in Handlers, j \in Jobs : Request(h, j)
    \/ \E h \in Handlers : HandlerStep(h) \/ Disconnect(h)
    \/ SweeperStep
    \/ \E j \in Jobs : GrowOlder(j) \/ StayIdle(j)
    \/ Crash

Spec == Init /\ [][Next]_vars

(* Tokio runs every ready task, time passes, and the sweep's interval      *)
(* timer never stops; clients owe nobody a request.                        *)
Fairness ==
    /\ \A h \in Handlers : WF_vars(HandlerStep(h))
    /\ WF_vars(SweeperStep)
    /\ \A j \in Jobs : WF_vars(GrowOlder(j)) /\ WF_vars(StayIdle(j))

FairSpec == Spec /\ Fairness

-----------------------------------------------------------------------------
(* Properties                                                              *)

(* Actors in the middle of something that concerns job j.                  *)
Working(j) == {a \in Actors : pc[a] \notin Resting /\ tgt[a] = j}

(* However many pollers, sweeps, retries and crashes a job goes through,   *)
(* it never gives back more than it cost (refund_job's guard, create_job's *)
(* early grants).                                                          *)
RefundAtMostOnce == \A j \in Jobs : credited[j] <= charged[j]

(* The balance is what the user started with less the jobs still paid for: *)
(* no statement of create_job or refund_job moves money twice or by a      *)
(* different amount than the other.                                        *)
Unrefunded == {j \in Jobs : charged[j] # credited[j]}
MoneyConserved == balance = InitBalance - Cost * Cardinality(Unrefunded)

(* The user's money is safe: no refund twice, no balance off by a step     *)
(* that was raced, retried or cut short (refund_job, create_job).          *)
MoneySafe == RefundAtMostOnce /\ MoneyConserved

(* A clip shown as completed has not been refunded and never will be while *)
(* it is shown so: refunds only follow a row that has become failed, or a  *)
(* statement of the refund that failed.                                    *)
DeliveredIsPaid ==
    \A j \in Jobs \ missed : status[j] = "completed" => ~refunded[j] /\ credited[j] = 0

(* A failed job is never resurrected by a download that ends late          *)
(* (download_completed_video's status <> 'failed').                        *)
FailedIsFinal ==
    [][\A j \in Jobs : status[j] = "failed" => status'[j] \in {"failed", "deleted"}]_vars

(* Once nobody works on a job any more, its price has been given back, or  *)
(* it is still live, or it has produced its clip: a user never pays for    *)
(* nothing (create_job: "refunds happen on any failure past this point").  *)
(* Unless the refund itself failed or was cut off, or a failed row was     *)
(* deleted before refund_job came to it.                                   *)
PaymentAccounted ==
    \A j \in Jobs \ (missed \cup dropped) :
        charged[j] > 0 /\ Working(j) = {} =>
            \/ credited[j] = charged[j]
            \/ status[j] \in Live \cup {"completed"}
            \/ status[j] = "deleted" /\ ~refunded[j]

(* Paid for work and only for work: no payment is forgotten, no clip is    *)
(* both handed over and given back (create_job, refund_job, the sweep).    *)
PaidWork == PaymentAccounted /\ DeliveredIsPaid

(* The lock in polling keeps two pollers from driving one job upstream at  *)
(* the same time, until the repair takes it from a poll that is under way  *)
(* (advance_job, sweep).                                                   *)
OnePollPerJob == \A j \in Jobs \ overtaken : Cardinality(Holding(j)) <= 1

(* Every stored mp4 is named by its job's row, or somebody holds it and is *)
(* about to record or delete it; unless the store failed to remove it, its *)
(* holder was cut off, or two polls of its job overlapped                  *)
(* (download_completed_video, delete_job).                                 *)
NoOrphanFile ==
    \A f \in files : \/ \E j \in Jobs : HasRow(j) /\ video[j] = f
                     \/ \E a \in Actors : obj[a] = f
                     \/ JobOf[f] \in overtaken \cup dropped
                     \/ f \in undeleted

(* One poller at a time, so one clip, which is recorded or deleted.        *)
OneFilePerJob == OnePollPerJob /\ NoOrphanFile

(* Every platform or custom job that got a row ends, whoever disappears    *)
(* and whenever the server restarts: the two-hour sweep is the backstop.   *)
EveryJobEnds == \A j \in Jobs : status[j] \in Live ~> status[j] \notin Live

(* A poll that dies does not leave its lock behind for ever (duty 1 of the *)
(* sweep): somebody else can always take the job up again.                 *)
Locked(j) == HasRow(j) /\ polling[j]
LocksAreFreed == \A j \in Jobs : Locked(j) ~> ~Locked(j)

(* Nothing stays busy: neither a job nor its lock (sweep).                 *)
NothingStaysBusy == EveryJobEnds /\ LocksAreFreed

-----------------------------------------------------------------------------
(* The promise to the user, as the abstract specification Escrow           *)
stage ==
    [j \in Jobs |->
        IF charged[j] = 0 THEN "unpaid"
        ELSE IF credited[j] = 0
             THEN IF j \in delivered THEN "delivered" ELSE "held"
             ELSE IF j \in delivered THEN "void" ELSE "refunded"]

EscrowOf == INSTANCE Escrow WITH Items <- Jobs

(* VideoJobs implements Escrow: a payment is held, then either earned by a *)
(* delivered clip or given back, and neither is ever undone.               *)
ImplementsEscrow == EscrowOf!Spec

(* ... and no payment is held for ever.                                    *)
PaymentResolved == EscrowOf!Resolved
=============================================================================
