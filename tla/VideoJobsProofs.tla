-------------------------- MODULE VideoJobsProofs --------------------------
(***************************************************************************)
(* For every set of jobs and handlers, every price and every fault: what   *)
(* refund_job and create_job do to a user's money, and what a failed row   *)
(* may become.                                                             *)
(***************************************************************************)
EXTENDS VideoJobs, FiniteSetTheorems, TLAPS

Creating == {"choose", "giveBack", "insert"}

(* A job is paid for as soon as it is requested, at its price, and gives   *)
(* back nothing or all of it.                                              *)
Amounts ==
    \A j \in Jobs :
        /\ status[j] = "none" => charged[j] = 0 /\ ~custom[j] /\ ~refunded[j]
        /\ status[j] # "none" => charged[j] = Price(j)
        /\ credited[j] \in {0, charged[j]}

(* One handler creates a job; until it has inserted the row the job is its *)
(* own and unrefunded. Everybody else works on a job that has, or had, a   *)
(* row.                                                                    *)
Ownership ==
    \A a \in Actors :
        /\ pc[a] \in Creating =>
             /\ status[tgt[a]] = "requested"
             /\ credited[tgt[a]] = 0 /\ ~refunded[tgt[a]]
             /\ \A b \in Actors :
                   pc[b] \in Creating /\ tgt[b] = tgt[a] => b = a
        /\ pc[a] \notin Creating \cup Resting =>
             status[tgt[a]] \notin {"none", "requested"}

(* The flag goes up before the money comes back, and for one actor only.   *)
Granting ==
    /\ \A a \in Actors : pc[a] = "grant" =>
         /\ refunded[tgt[a]] /\ credited[tgt[a]] = 0
         /\ \A b \in Actors : pc[b] = "grant" /\ tgt[b] = tgt[a] => b = a
    /\ \A j \in Jobs : HasRow(j) /\ ~refunded[j] => credited[j] = 0

(* Only a row that has failed has used up its downloads.                   *)
RetriesLeft ==
    /\ \A j \in Jobs : status[j] \in Live \cup {"none", "requested"} =>
          retries[j] < MaxRetries
    /\ \A a \in Actors : snap[a] < MaxRetries

IInv == TypeOK /\ Amounts /\ Ownership /\ Granting /\ RetriesLeft

LEMMA InitInv == Init => IInv
BY VideoAssumption, SMTT(30)
DEF Init, IInv, TypeOK, Amounts, Ownership, Granting, RetriesLeft, Status,
    RowStatus, Live, Terminal, Steps, Resting, SweepSteps, CreateSteps,
    RefundSteps, PollSteps, Creating, Ages, Never, Now, HasRow, Price, Actors


(* Raising or clearing one flag leaves a table of flags.                   *)
LEMMA FlagUpdate ==
    ASSUME NEW S, NEW f \in [S -> BOOLEAN], NEW x
    PROVE  /\ [f EXCEPT ![x] = TRUE] \in [S -> BOOLEAN]
           /\ [f EXCEPT ![x] = FALSE] \in [S -> BOOLEAN]
OBVIOUS

LEMMA ReleaseLockFlags ==
    ASSUME TypeOK, NEW a \in Actors, ReleaseLock(a)
    PROVE  polling' \in [Jobs -> BOOLEAN]
<1>1. polling' = [polling EXCEPT ![tgt[a]] = FALSE] \/ polling' = polling
  BY DEF ReleaseLock
<1>2. polling \in [Jobs -> BOOLEAN]
  BY DEF TypeOK
<1> QED BY <1>1, <1>2, FlagUpdate

LEMMA LockPollFlags ==
    ASSUME TypeOK, NEW a \in Actors, LockPoll(a)
    PROVE  polling' \in [Jobs -> BOOLEAN]
<1>1. polling' = [polling EXCEPT ![tgt[a]] = TRUE] \/ polling' = polling
  BY DEF LockPoll
<1>2. polling \in [Jobs -> BOOLEAN]
  BY DEF TypeOK
<1> QED BY <1>1, <1>2, FlagUpdate

LEMMA FlagRefundFlags ==
    ASSUME TypeOK, NEW a \in Actors, FlagRefund(a)
    PROVE  refunded' \in [Jobs -> BOOLEAN]
<1>1. refunded' = [refunded EXCEPT ![tgt[a]] = TRUE] \/ refunded' = refunded
  BY DEF FlagRefund
<1>2. refunded \in [Jobs -> BOOLEAN]
  BY DEF TypeOK
<1> QED BY <1>1, <1>2, FlagUpdate

LEMMA RecordUpstreamFlags ==
    ASSUME TypeOK, NEW a \in Actors, RecordUpstream(a)
    PROVE  upstream' \in [Jobs -> BOOLEAN]
<1>1. upstream' = [upstream EXCEPT ![tgt[a]] = TRUE] \/ upstream' = upstream
  BY DEF RecordUpstream
<1>2. upstream \in [Jobs -> BOOLEAN]
  BY DEF TypeOK
<1> QED BY <1>1, <1>2, FlagUpdate

LEMMA RepairedLocks ==
    ASSUME TypeOK, RepairLocks
    PROVE  polling' \in [Jobs -> BOOLEAN]
<1>1. polling \in [Jobs -> BOOLEAN]
  BY DEF TypeOK
<1>2. CASE polling' = polling
  BY <1>1, <1>2
<1>3. CASE polling' = [j \in Jobs |-> polling[j] /\ idle[j] < FiveMinutes]
  BY <1>3, Zenon
<1> QED BY <1>2, <1>3 DEF RepairLocks

(* The definitions every step of the proof looks into.                     *)
USE DEF IInv, TypeOK, Amounts, Ownership, Granting, RetriesLeft, Creating,
        Resting, SweepSteps, RowStatus, Live, Terminal, HasRow, Price, Status,
        Steps, CreateSteps, RefundSteps, PollSteps, Actors, Goto, Enter,
        Mishap, DbFails,
        RefundFails, StoreFails, Remove, Fine, luck, row, clock, money, rest, locals, control, Ages, Never, Now

LEMMA DeductInv ==
    ASSUME IInv, NEW h \in Handlers, NEW j \in Jobs, Deduct(h, j)
    PROVE  IInv'
BY VideoAssumption, SMTT(120) DEF Deduct

LEMMA RequestCustomInv ==
    ASSUME IInv, NEW h \in Handlers, NEW j \in Jobs, RequestCustom(h, j)
    PROVE  IInv'
BY VideoAssumption, SMTT(120) DEF RequestCustom

LEMMA GetJobInv ==
    ASSUME IInv, NEW h \in Handlers, NEW j \in Jobs, GetJob(h, j)
    PROVE  IInv'
BY VideoAssumption, SMTT(120) DEF GetJob, StartPoll

LEMMA StartDeleteInv ==
    ASSUME IInv, NEW h \in Handlers, NEW j \in Jobs, StartDelete(h, j)
    PROVE  IInv'
BY VideoAssumption, SMTT(120) DEF StartDelete

LEMMA ChooseChannelInv ==
    ASSUME IInv, NEW h \in Handlers, ChooseChannel(h)
    PROVE  IInv'
BY VideoAssumption, SMTT(120) DEF ChooseChannel

LEMMA GiveBackInv ==
    ASSUME IInv, NEW h \in Handlers, GiveBack(h)
    PROVE  IInv'
BY VideoAssumption, SMTT(120) DEF GiveBack

LEMMA InsertJobInv ==
    ASSUME IInv, NEW h \in Handlers, InsertJob(h)
    PROVE  IInv'
BY VideoAssumption, SMTT(120) DEF InsertJob

LEMMA PostUpstreamInv ==
    ASSUME IInv, NEW h \in Handlers, PostUpstream(h)
    PROVE  IInv'
BY VideoAssumption, SMTT(120) DEF PostUpstream

LEMMA RecordUpstreamInv ==
    ASSUME IInv, NEW h \in Handlers, RecordUpstream(h)
    PROVE  IInv'
<1>1. TypeOK'
  <2>1. upstream' \in [Jobs -> BOOLEAN]
    BY RecordUpstreamFlags
  <2> QED BY <2>1, VideoAssumption, SMTT(120) DEF RecordUpstream
<1>2. Amounts'
  BY VideoAssumption, SMTT(120) DEF RecordUpstream
<1>3. Ownership'
  BY VideoAssumption, SMTT(120) DEF RecordUpstream
<1>4. Granting'
  BY VideoAssumption, SMTT(120) DEF RecordUpstream
<1>5. RetriesLeft'
  BY VideoAssumption, SMTT(120) DEF RecordUpstream
<1> QED BY <1>1, <1>2, <1>3, <1>4, <1>5 DEF IInv

LEMMA MarkJobFailedInv ==
    ASSUME IInv, NEW a \in Actors, MarkJobFailed(a)
    PROVE  IInv'
<1>1. TypeOK'
  BY VideoAssumption, SMTT(120) DEF MarkJobFailed
<1>2. Amounts'
  BY VideoAssumption, SMTT(120) DEF MarkJobFailed
<1>3. Ownership'
  BY VideoAssumption, SMTT(120) DEF MarkJobFailed
<1>4. Granting'
  BY VideoAssumption, SMTT(120) DEF MarkJobFailed
<1>5. RetriesLeft'
  BY VideoAssumption, SMTT(120) DEF MarkJobFailed
<1> QED BY <1>1, <1>2, <1>3, <1>4, <1>5 DEF IInv

LEMMA FlagRefundInv ==
    ASSUME IInv, NEW a \in Actors, FlagRefund(a)
    PROVE  IInv'
<1>1. TypeOK'
  <2>1. refunded' \in [Jobs -> BOOLEAN]
    BY FlagRefundFlags
  <2> QED BY <2>1, VideoAssumption, SMTT(120) DEF FlagRefund, AfterRefund
<1>2. Amounts'
  BY VideoAssumption, SMTT(120) DEF FlagRefund, AfterRefund
<1>3. Ownership'
  BY VideoAssumption, SMTT(120) DEF FlagRefund, AfterRefund
<1>4. Granting'
  BY VideoAssumption, SMTT(120) DEF FlagRefund, AfterRefund
<1>5. RetriesLeft'
  BY VideoAssumption, SMTT(120) DEF FlagRefund, AfterRefund
<1> QED BY <1>1, <1>2, <1>3, <1>4, <1>5 DEF IInv

LEMMA GrantRefundInv ==
    ASSUME IInv, NEW a \in Actors, GrantRefund(a)
    PROVE  IInv'
BY VideoAssumption, SMTT(120) DEF GrantRefund, AfterRefund

LEMMA LockPollInv ==
    ASSUME IInv, NEW a \in Actors, LockPoll(a)
    PROVE  IInv'
<1>1. TypeOK'
  <2>1. polling' \in [Jobs -> BOOLEAN]
    BY LockPollFlags
  <2> QED BY <2>1, VideoAssumption, SMTT(120) DEF LockPoll, AfterPoll, ThreeSeconds
<1>2. Amounts'
  BY VideoAssumption, SMTT(120) DEF LockPoll, AfterPoll, ThreeSeconds
<1>3. Ownership'
  BY VideoAssumption, SMTT(120) DEF LockPoll, AfterPoll, ThreeSeconds
<1>4. Granting'
  BY VideoAssumption, SMTT(120) DEF LockPoll, AfterPoll, ThreeSeconds
<1>5. RetriesLeft'
  BY VideoAssumption, SMTT(120) DEF LockPoll, AfterPoll, ThreeSeconds
<1> QED BY <1>1, <1>2, <1>3, <1>4, <1>5 DEF IInv

LEMMA RefetchJobInv ==
    ASSUME IInv, NEW a \in Actors, RefetchJob(a)
    PROVE  IInv'
BY VideoAssumption, SMTT(120) DEF RefetchJob

LEMMA AskUpstreamInv ==
    ASSUME IInv, NEW a \in Actors, AskUpstream(a)
    PROVE  IInv'
BY VideoAssumption, SMTT(120) DEF AskUpstream

LEMMA DownloadInv ==
    ASSUME IInv, NEW a \in Actors, Download(a)
    PROVE  IInv'
BY VideoAssumption, SMTT(120) DEF Download

LEMMA CompleteJobInv ==
    ASSUME IInv, NEW a \in Actors, CompleteJob(a)
    PROVE  IInv'
BY VideoAssumption, SMTT(120) DEF CompleteJob

LEMMA DiscardFileInv ==
    ASSUME IInv, NEW a \in Actors, DiscardFile(a)
    PROVE  IInv'
BY VideoAssumption, SMTT(120) DEF DiscardFile

LEMMA DownloadFailedInv ==
    ASSUME IInv, NEW a \in Actors, DownloadFailed(a)
    PROVE  IInv'
BY VideoAssumption, SMTT(120) DEF DownloadFailed

LEMMA ReleaseLockInv ==
    ASSUME IInv, NEW a \in Actors, ReleaseLock(a)
    PROVE  IInv'
<1>1. TypeOK'
  <2>1. polling' \in [Jobs -> BOOLEAN]
    BY ReleaseLockFlags
  <2> QED BY <2>1, VideoAssumption, SMTT(120) DEF ReleaseLock, AfterPoll
<1>2. Amounts'
  BY VideoAssumption, SMTT(120) DEF ReleaseLock, AfterPoll
<1>3. Ownership'
  BY VideoAssumption, SMTT(120) DEF ReleaseLock, AfterPoll
<1>4. Granting'
  BY VideoAssumption, SMTT(120) DEF ReleaseLock, AfterPoll
<1>5. RetriesLeft'
  BY VideoAssumption, SMTT(120) DEF ReleaseLock, AfterPoll
<1> QED BY <1>1, <1>2, <1>3, <1>4, <1>5 DEF IInv

LEMMA DeleteFileInv ==
    ASSUME IInv, NEW h \in Handlers, DeleteFile(h)
    PROVE  IInv'
BY VideoAssumption, SMTT(120) DEF DeleteFile

LEMMA DeleteRowInv ==
    ASSUME IInv, NEW h \in Handlers, DeleteRow(h)
    PROVE  IInv'
BY VideoAssumption, SMTT(120) DEF DeleteRow

LEMMA DisconnectInv ==
    ASSUME IInv, NEW h \in Handlers, Disconnect(h)
    PROVE  IInv'
BY VideoAssumption, SMTT(120) DEF Disconnect

LEMMA RepairLocksInv ==
    ASSUME IInv, RepairLocks
    PROVE  IInv'
<1>1. TypeOK'
  <2>1. polling' \in [Jobs -> BOOLEAN]
    BY RepairedLocks
  <2> QED BY <2>1, VideoAssumption, SMTT(120) DEF RepairLocks, FiveMinutes
<1>2. Amounts'
  BY VideoAssumption, SMTT(120) DEF RepairLocks, FiveMinutes
<1>3. Ownership'
  BY VideoAssumption, SMTT(120) DEF RepairLocks, FiveMinutes
<1>4. Granting'
  BY VideoAssumption, SMTT(120) DEF RepairLocks, FiveMinutes
<1>5. RetriesLeft'
  BY VideoAssumption, SMTT(120) DEF RepairLocks, FiveMinutes
<1> QED BY <1>1, <1>2, <1>3, <1>4, <1>5 DEF IInv

LEMMA SelectStaleInv ==
    ASSUME IInv, SelectStale
    PROVE  IInv'
BY VideoAssumption, SMTT(120) DEF SelectStale

LEMMA TimeOutInv ==
    ASSUME IInv, NEW j \in Jobs, TimeOut(j)
    PROVE  IInv'
BY VideoAssumption, SMTT(120) DEF TimeOut

LEMMA SelectOrphansInv ==
    ASSUME IInv, SelectOrphans
    PROVE  IInv'
BY VideoAssumption, SMTT(120) DEF SelectOrphans

LEMMA AdvanceOrphanInv ==
    ASSUME IInv, NEW j \in Jobs, AdvanceOrphan(j)
    PROVE  IInv'
BY VideoAssumption, SMTT(120) DEF AdvanceOrphan, StartPoll

LEMMA SweepDoneInv ==
    ASSUME IInv, SweepDone
    PROVE  IInv'
BY VideoAssumption, SMTT(120) DEF SweepDone

LEMMA GrowOlderInv ==
    ASSUME IInv, NEW j \in Jobs, GrowOlder(j)
    PROVE  IInv'
BY VideoAssumption, SMTT(120) DEF GrowOlder, TwoHours

LEMMA StayIdleInv ==
    ASSUME IInv, NEW j \in Jobs, StayIdle(j)
    PROVE  IInv'
BY VideoAssumption, SMTT(120) DEF StayIdle, TenMinutes, Never

LEMMA CrashInv ==
    ASSUME IInv, Crash
    PROVE  IInv'
<1>1. dropped' \in SUBSET Jobs
  BY DEF Crash, Laden
<1> QED BY <1>1, VideoAssumption, SMTT(120) DEF Crash

-----------------------------------------------------------------------------
(* The steps put together                                                  *)

HIDE DEF IInv, TypeOK, Amounts, Ownership, Granting, RetriesLeft, Creating,
         Resting, SweepSteps, RowStatus, Live, Terminal, HasRow, Price, Status,
         Steps, CreateSteps, RefundSteps, PollSteps, Goto, Enter, Mishap, DbFails,
        RefundFails, StoreFails, Remove, Fine, luck, row, clock, money, rest, locals, control, Ages, Never, Now

LEMMA StutterInv ==
    ASSUME IInv, UNCHANGED vars
    PROVE  IInv'
BY DEF IInv, TypeOK, Amounts, Ownership, Granting, RetriesLeft, HasRow, Price,
       vars, row, clock, money, rest, locals, control, luck

LEMMA RefundStepInv ==
    ASSUME IInv, NEW a \in Actors, RefundStep(a)
    PROVE  IInv'
BY MarkJobFailedInv, FlagRefundInv, GrantRefundInv DEF RefundStep

LEMMA PollStepInv ==
    ASSUME IInv, NEW a \in Actors, PollStep(a)
    PROVE  IInv'
BY LockPollInv, RefetchJobInv, AskUpstreamInv, DownloadInv, CompleteJobInv,
   DiscardFileInv, DownloadFailedInv, ReleaseLockInv DEF PollStep

LEMMA NextInv ==
    ASSUME IInv, [Next]_vars
    PROVE  IInv'
<1>1. ASSUME NEW h \in Handlers, NEW j \in Jobs, Request(h, j)
      PROVE  IInv'
  BY <1>1, DeductInv, RequestCustomInv, GetJobInv, StartDeleteInv DEF Request
<1>2. ASSUME NEW h \in Handlers, HandlerStep(h)
      PROVE  IInv'
  BY <1>2, ChooseChannelInv, GiveBackInv, InsertJobInv, PostUpstreamInv,
     RecordUpstreamInv, RefundStepInv, PollStepInv, DeleteFileInv, DeleteRowInv
  DEF HandlerStep, CreateStep, Actors
<1>3. CASE SweeperStep
  BY <1>3, RepairLocksInv, SelectStaleInv, TimeOutInv, SelectOrphansInv,
     AdvanceOrphanInv, SweepDoneInv, RefundStepInv, PollStepInv
  DEF SweeperStep, SweepStep, Actors
<1> QED
  BY <1>1, <1>2, <1>3, DisconnectInv, GrowOlderInv, StayIdleInv, CrashInv,
     StutterInv DEF Next

(* The inductive invariant holds in every reachable state.                 *)
THEOREM Invariance == Spec => []IInv
<1> QED BY InitInv, NextInv, PTL DEF Spec

(* Every variable keeps its type; in particular no download counter runs   *)
(* past MaxRetries, whichever snapshots are written back.                  *)
THEOREM TypeCorrect == Spec => []TypeOK
<1>1. IInv => TypeOK
  BY DEF IInv
<1> QED BY <1>1, Invariance, PTL

(* A job gives back at most what it cost, whatever is lost, repeated or    *)
(* reordered: the refunded flag of refund_job and the early grants of      *)
(* create_job never meet.                                                  *)
THEOREM RefundedOnce == Spec => []RefundAtMostOnce
<1>1. IInv => RefundAtMostOnce
  BY DEF IInv, TypeOK, Amounts, RefundAtMostOnce
<1> QED BY <1>1, Invariance, PTL

-----------------------------------------------------------------------------
(* The balance                                                             *)

LEMMA MoneyInit == Init => MoneyConserved
<1> SUFFICES ASSUME Init PROVE MoneyConserved
  OBVIOUS
<1>1. Unrefunded = {}
  BY DEF Init, Unrefunded
<1>2. Cardinality(Unrefunded) = 0
  BY <1>1, FS_EmptySet
<1>3. balance = InitBalance
  BY DEF Init
<1> HIDE DEF Unrefunded
<1> QED BY <1>2, <1>3, VideoAssumption DEF MoneyConserved

LEMMA UnrefundedFinite == IsFiniteSet(Unrefunded)
BY FS_Subset, VideoAssumption DEF Unrefunded

LEMMA MoneyDeduct ==
    ASSUME IInv, MoneyConserved, NEW h \in Handlers, NEW j \in Jobs, Deduct(h, j)
    PROVE  MoneyConserved'
<1>1. charged[j] = 0 /\ credited[j] = 0 /\ j \notin Unrefunded
  BY DEF IInv, Amounts, Deduct, Unrefunded
<1>2. Unrefunded' = Unrefunded \cup {j}
  BY <1>1, VideoAssumption DEF IInv, TypeOK, Deduct, Unrefunded
<1>3. Cardinality(Unrefunded') = Cardinality(Unrefunded) + 1
  BY <1>1, <1>2, UnrefundedFinite, FS_AddElement
<1>4. Cardinality(Unrefunded) \in Nat
  BY UnrefundedFinite, FS_CardinalityType
<1>5. balance' = balance - Cost
  BY DEF Deduct
<1> HIDE DEF Unrefunded
<1> QED BY <1>3, <1>4, <1>5, VideoAssumption DEF MoneyConserved

(* Giving a job's price back: the job leaves Unrefunded, unless it was     *)
(* free.                                                                   *)
LEMMA MoneyBack ==
    ASSUME IInv, MoneyConserved, NEW j \in Jobs,
           credited[j] = 0, charged[j] = Price(j),
           balance' = balance + Price(j),
           credited' = [credited EXCEPT ![j] = @ + Price(j)],
           UNCHANGED charged
    PROVE  MoneyConserved'
<1>1. CASE Price(j) = 0
  <2>1. credited' = credited /\ balance' = balance
    BY <1>1 DEF IInv, TypeOK
  <2> QED BY <2>1 DEF MoneyConserved, Unrefunded
<1>2. CASE Price(j) = Cost
  <2>1. j \in Unrefunded /\ Unrefunded' = Unrefunded \ {j}
    BY <1>2, VideoAssumption DEF IInv, TypeOK, Unrefunded
  <2>2. Cardinality(Unrefunded') = Cardinality(Unrefunded) - 1
    BY <2>1, UnrefundedFinite, FS_RemoveElement
  <2>3. Cardinality(Unrefunded) \in Nat
    BY UnrefundedFinite, FS_CardinalityType
  <2> HIDE DEF Unrefunded
  <2> QED BY <1>2, <2>2, <2>3, VideoAssumption DEF MoneyConserved
<1> QED BY <1>1, <1>2 DEF Price

LEMMA MoneyKept ==
    ASSUME MoneyConserved, UNCHANGED money
    PROVE  MoneyConserved'
BY DEF MoneyConserved, Unrefunded, money

LEMMA MoneyGiveBack ==
    ASSUME IInv, MoneyConserved, NEW h \in Handlers, GiveBack(h)
    PROVE  MoneyConserved'
<1>1. tgt[h] \in Jobs /\ credited[tgt[h]] = 0 /\ charged[tgt[h]] = Price(tgt[h])
  BY DEF IInv, TypeOK, Amounts, Ownership, Creating, GiveBack, Actors
<1> QED BY <1>1, MoneyBack, MoneyKept DEF GiveBack, money

LEMMA MoneyGrantRefund ==
    ASSUME IInv, MoneyConserved, NEW a \in Actors, GrantRefund(a)
    PROVE  MoneyConserved'
<1>1. tgt[a] \in Jobs /\ credited[tgt[a]] = 0 /\ charged[tgt[a]] = Price(tgt[a])
  BY DEF IInv, TypeOK, Amounts, Ownership, Granting, Creating, Resting,
         SweepSteps, GrantRefund
<1> QED BY <1>1, MoneyBack, MoneyKept DEF GrantRefund, money

LEMMA MoneyNext ==
    ASSUME IInv, MoneyConserved, [Next]_vars
    PROVE  MoneyConserved'
<1>1. \/ UNCHANGED money
      \/ \E h \in Handlers, j \in Jobs : Deduct(h, j)
      \/ \E h \in Handlers : GiveBack(h)
      \/ \E a \in Actors : GrantRefund(a)
  BY Zenon DEF Next, Request, HandlerStep, CreateStep, SweeperStep, SweepStep,
     RefundStep, PollStep, RequestCustom, GetJob, StartDelete, ChooseChannel,
     InsertJob, PostUpstream, RecordUpstream, MarkJobFailed, FlagRefund,
     LockPoll, RefetchJob, AskUpstream, Download, CompleteJob, DiscardFile,
     DownloadFailed, ReleaseLock, DeleteFile, DeleteRow, Disconnect,
     RepairLocks, SelectStale, TimeOut, SelectOrphans, AdvanceOrphan,
     SweepDone, GrowOlder, StayIdle, Crash, vars, Actors
<1> QED BY <1>1, MoneyKept, MoneyDeduct, MoneyGiveBack, MoneyGrantRefund

(* The balance always equals the initial balance less the jobs that are    *)
(* paid for and not refunded: no step loses or invents money.              *)
THEOREM BalanceExact == Spec => []MoneyConserved
<1> QED BY MoneyInit, MoneyNext, Invariance, PTL DEF Spec

(* Nobody is paid back twice and no step loses or invents money, whatever  *)
(* fails and whoever races (try_deduct, refund_job, early grants).         *)
THEOREM Money == Spec => []MoneySafe
<1>1. RefundAtMostOnce /\ MoneyConserved => MoneySafe
  BY DEF MoneySafe
<1> QED BY <1>1, RefundedOnce, BalanceExact, PTL
-----------------------------------------------------------------------------
(* Failure is final                                                        *)

(* Nothing takes a failed row back: a poll that completes looks at the     *)
(* status, a create that inserts has no row yet, and one that records the  *)
(* upstream id finds it no longer pending.                                 *)
LEMMA FailedStep ==
    ASSUME IInv, [Next]_vars, NEW j \in Jobs, status[j] = "failed"
    PROVE  status'[j] \in {"failed", "deleted"}
<1> USE DEF Fine, DbFails, RefundFails, Mishap, row
<1>0. status \in [Jobs -> Status]
  BY DEF IInv, TypeOK
<1>1. CASE UNCHANGED status
  BY <1>1
<1>2. ASSUME NEW h \in Handlers, NEW k \in Jobs,
             Deduct(h, k) \/ RequestCustom(h, k)
      PROVE  status'[j] \in {"failed", "deleted"}
  BY <1>0, <1>2 DEF Deduct, RequestCustom
<1>3. ASSUME NEW h \in Handlers, InsertJob(h)
      PROVE  status'[j] \in {"failed", "deleted"}
  <2>1. status[tgt[h]] = "requested"
    BY <1>3 DEF IInv, Ownership, InsertJob, Creating, Actors
  <2> QED BY <1>0, <1>3, <2>1 DEF InsertJob
<1>4. ASSUME NEW h \in Handlers, RecordUpstream(h) \/ DeleteRow(h)
      PROVE  status'[j] \in {"failed", "deleted"}
  BY <1>0, <1>4 DEF RecordUpstream, DeleteRow
<1>5. ASSUME NEW a \in Actors, MarkJobFailed(a) \/ CompleteJob(a) \/ DownloadFailed(a)
      PROVE  status'[j] \in {"failed", "deleted"}
  BY <1>0, <1>5 DEF MarkJobFailed, CompleteJob, DownloadFailed
<1>6. ASSUME NEW k \in Jobs, TimeOut(k)
      PROVE  status'[j] \in {"failed", "deleted"}
  BY <1>0, <1>6 DEF TimeOut
<1>7. \/ UNCHANGED status
      \/ \E h \in Handlers, k \in Jobs : Deduct(h, k) \/ RequestCustom(h, k)
      \/ \E h \in Handlers : InsertJob(h) \/ RecordUpstream(h) \/ DeleteRow(h)
      \/ \E a \in Actors : MarkJobFailed(a) \/ CompleteJob(a) \/ DownloadFailed(a)
      \/ \E k \in Jobs : TimeOut(k)
  BY Zenon DEF Next, Request, HandlerStep, CreateStep, SweeperStep, SweepStep,
     RefundStep, PollStep, GetJob, StartDelete, ChooseChannel, GiveBack,
     PostUpstream, FlagRefund, GrantRefund, LockPoll, RefetchJob, AskUpstream,
     Download, DiscardFile, ReleaseLock, DeleteFile, Disconnect, RepairLocks,
     SelectStale, SelectOrphans, AdvanceOrphan, SweepDone, GrowOlder, StayIdle,
     Crash, vars, Actors
<1> QED BY <1>1, <1>2, <1>3, <1>4, <1>5, <1>6, <1>7

(* A failed job is never shown as running or completed again, by whatever  *)
(* download, POST or sweep comes late (download_completed_video's status   *)
(* <> 'failed').                                                           *)
THEOREM FailedStays == Spec => FailedIsFinal
<1>1. IInv /\ [Next]_vars =>
        [\A j \in Jobs : status[j] = "failed" => status'[j] \in {"failed", "deleted"}]_vars
  BY FailedStep
<1> QED BY <1>1, Invariance, PTL DEF Spec, FailedIsFinal

-----------------------------------------------------------------------------
(* The polling lock                                                        *)

Polling(a) ==
    pc[a] \in (PollSteps \cup RefundSteps) \ {"lock"} /\ role[a] = "poll"

(* Whoever is past LockPoll holds the lock of its job, alone, unless the   *)
(* repair took that lock from a poll that was under way.                   *)
LockHeld ==
    /\ \A a \in Actors : pc[a] \in PollSteps => role[a] = "poll"
    /\ \A a \in Actors : pc[a] \in CreateSteps => role[a] = "create"
    /\ \A a \in Actors : Polling(a) /\ tgt[a] \notin overtaken =>
         /\ polling[tgt[a]]
         /\ \A b \in Actors : Polling(b) /\ tgt[b] = tgt[a] => b = a

LEMMA LockInit == Init => LockHeld
BY SMTT(30)
DEF Init, LockHeld, Polling, PollSteps, RefundSteps, CreateSteps, Actors

LEMMA LockNext ==
    ASSUME IInv, LockHeld, [Next]_vars
    PROVE  LockHeld'
<1> USE DEF IInv, TypeOK, Creating, Resting, SweepSteps, RowStatus, Live,
        Terminal, HasRow, Price, Status, Steps, CreateSteps, RefundSteps,
        PollSteps, Actors, Goto, Enter, Mishap, DbFails,
        RefundFails, StoreFails, Remove, Fine, luck, row, clock,
        money, rest, locals, control, Ages, Never, Now
<1> USE DEF LockHeld, Polling, FiveMinutes
<1>1. ASSUME NEW h \in Handlers, NEW j \in Jobs, Deduct(h, j)
      PROVE  LockHeld'
  BY <1>1, SMTT(120) DEF Deduct
<1>2. ASSUME NEW h \in Handlers, NEW j \in Jobs, RequestCustom(h, j)
      PROVE  LockHeld'
  BY <1>2, SMTT(120) DEF RequestCustom
<1>3. ASSUME NEW h \in Handlers, NEW j \in Jobs, GetJob(h, j)
      PROVE  LockHeld'
  BY <1>3, SMTT(120) DEF GetJob, StartPoll
<1>4. ASSUME NEW h \in Handlers, NEW j \in Jobs, StartDelete(h, j)
      PROVE  LockHeld'
  BY <1>4, SMTT(120) DEF StartDelete
<1>5. ASSUME NEW h \in Handlers, ChooseChannel(h)
      PROVE  LockHeld'
  BY <1>5, SMTT(120) DEF ChooseChannel
<1>6. ASSUME NEW h \in Handlers, GiveBack(h)
      PROVE  LockHeld'
  BY <1>6, SMTT(120) DEF GiveBack
<1>7. ASSUME NEW h \in Handlers, InsertJob(h)
      PROVE  LockHeld'
  BY <1>7, SMTT(120) DEF InsertJob
<1>8. ASSUME NEW h \in Handlers, PostUpstream(h)
      PROVE  LockHeld'
  BY <1>8, SMTT(120) DEF PostUpstream
<1>9. ASSUME NEW h \in Handlers, RecordUpstream(h)
      PROVE  LockHeld'
  BY <1>9, VideoAssumption, SMTT(120) DEF RecordUpstream
<1>10. ASSUME NEW a \in Actors, MarkJobFailed(a)
      PROVE  LockHeld'
  BY <1>10, SMTT(120) DEF MarkJobFailed
<1>11. ASSUME NEW a \in Actors, FlagRefund(a)
      PROVE  LockHeld'
  BY <1>11, SMTT(120) DEF FlagRefund, AfterRefund
<1>12. ASSUME NEW a \in Actors, GrantRefund(a)
      PROVE  LockHeld'
  BY <1>12, SMTT(120) DEF GrantRefund, AfterRefund
<1>13. ASSUME NEW a \in Actors, LockPoll(a)
      PROVE  LockHeld'
  BY <1>13, VideoAssumption, SMTT(120) DEF LockPoll, AfterPoll, ThreeSeconds
<1>14. ASSUME NEW a \in Actors, RefetchJob(a)
      PROVE  LockHeld'
  BY <1>14, SMTT(120) DEF RefetchJob
<1>15. ASSUME NEW a \in Actors, AskUpstream(a)
      PROVE  LockHeld'
  BY <1>15, SMTT(120) DEF AskUpstream
<1>16. ASSUME NEW a \in Actors, Download(a)
      PROVE  LockHeld'
  BY <1>16, SMTT(120) DEF Download
<1>17. ASSUME NEW a \in Actors, CompleteJob(a)
      PROVE  LockHeld'
  BY <1>17, SMTT(120) DEF CompleteJob
<1>18. ASSUME NEW a \in Actors, DiscardFile(a)
      PROVE  LockHeld'
  BY <1>18, SMTT(120) DEF DiscardFile
<1>19. ASSUME NEW a \in Actors, DownloadFailed(a)
      PROVE  LockHeld'
  BY <1>19, SMTT(120) DEF DownloadFailed
<1>20. ASSUME NEW a \in Actors, ReleaseLock(a)
      PROVE  LockHeld'
  BY <1>20, SMTT(120) DEF ReleaseLock, AfterPoll
<1>21. ASSUME NEW h \in Handlers, DeleteFile(h)
      PROVE  LockHeld'
  BY <1>21, SMTT(120) DEF DeleteFile
<1>22. ASSUME NEW h \in Handlers, DeleteRow(h)
      PROVE  LockHeld'
  BY <1>22, SMTT(120) DEF DeleteRow
<1>23. ASSUME NEW h \in Handlers, Disconnect(h)
      PROVE  LockHeld'
  BY <1>23, VideoAssumption, SMTT(120) DEF Disconnect
<1>24. CASE RepairLocks
  BY <1>24, VideoAssumption, SMTT(120) DEF RepairLocks, Holding
<1>25. CASE SelectStale
  BY <1>25, SMTT(120) DEF SelectStale
<1>26. ASSUME NEW j \in Jobs, TimeOut(j)
      PROVE  LockHeld'
  BY <1>26, SMTT(120) DEF TimeOut
<1>27. CASE SelectOrphans
  BY <1>27, SMTT(120) DEF SelectOrphans
<1>28. ASSUME NEW j \in Jobs, AdvanceOrphan(j)
      PROVE  LockHeld'
  BY <1>28, SMTT(120) DEF AdvanceOrphan, StartPoll
<1>29. CASE SweepDone
  BY <1>29, SMTT(120) DEF SweepDone
<1>30. ASSUME NEW j \in Jobs, GrowOlder(j)
      PROVE  LockHeld'
  BY <1>30, SMTT(120) DEF GrowOlder, TwoHours
<1>31. ASSUME NEW j \in Jobs, StayIdle(j)
      PROVE  LockHeld'
  BY <1>31, VideoAssumption, SMTT(120) DEF StayIdle, TenMinutes, Never, Holding
<1>32. CASE Crash
  BY <1>32, SMTT(120) DEF Crash
<1>33. CASE UNCHANGED vars
  BY <1>33 DEF vars, row, clock, money, rest, locals, control, luck
<1> HIDE DEF LockHeld
<1> QED
  BY <1>1, <1>2, <1>3, <1>4, <1>5, <1>6, <1>7, <1>8, <1>9, <1>10, <1>11,
     <1>12, <1>13, <1>14, <1>15, <1>16, <1>17, <1>18, <1>19, <1>20, <1>21,
     <1>22, <1>23, <1>24, <1>25, <1>26, <1>27, <1>28, <1>29, <1>30, <1>31,
     <1>32, <1>33, Zenon
  DEF Next, Request, HandlerStep, CreateStep, SweeperStep, SweepStep,
      RefundStep, PollStep, Actors

THEOREM LockInvariance == Spec => []LockHeld
<1> QED BY LockInit, LockNext, Invariance, PTL DEF Spec

LEMMA LockExcludes == LockHeld => OnePollPerJob
<1> SUFFICES ASSUME LockHeld, NEW j \in Jobs \ overtaken
             PROVE  Cardinality(Holding(j)) <= 1
  BY DEF OnePollPerJob
<1>1. CASE Holding(j) = {}
  BY <1>1, FS_EmptySet
<1>2. CASE Holding(j) # {}
  <2>1. PICK a \in Actors : a \in Holding(j)
    BY <1>2 DEF Holding
  <2>2. \A b \in Holding(j) : b \in Actors /\ Polling(b) /\ tgt[b] = j
    BY DEF Holding, Polling
  <2>3. \A b \in Holding(j) : b = a
    BY <2>1, <2>2 DEF LockHeld
  <2>4. Holding(j) = {a}
    BY <2>1, <2>3, Zenon
  <2>5. Cardinality({a}) = 1
    BY FS_Singleton
  <2> QED BY <2>4, <2>5
<1> QED BY <1>1, <1>2

(* No two polls of one job ever run at the same time, whatever requests,   *)
(* disconnects, crashes and lost statements there are, until the repair    *)
(* takes the lock of a poll that has outlived the five minutes             *)
(* (advance_job, sweep).                                                   *)
THEOREM PollsExcluded == Spec => []OnePollPerJob
<1> QED BY LockExcludes, LockInvariance, PTL

-----------------------------------------------------------------------------
(* Clips and refunds                                                       *)

AfterFailure(j) == status[j] \in {"failed", "deleted"}

(* refund_job only ever runs on a row that has failed, and failure is      *)
(* final; unless the statement that fails the row was lost.                *)
RefundsFollowFailure ==
    /\ \A a \in Actors : pc[a] \in {"flag", "grant"} /\ tgt[a] \notin missed =>
          AfterFailure(tgt[a])
    /\ \A j \in Jobs \ missed : refunded[j] => AfterFailure(j)

LEMMA RefundsInit == Init => RefundsFollowFailure
BY SMTT(30) DEF Init, RefundsFollowFailure, Actors

LEMMA RefundsNext ==
    ASSUME IInv, RefundsFollowFailure, [Next]_vars
    PROVE  RefundsFollowFailure'
<1> USE DEF IInv, TypeOK, Creating, Resting, SweepSteps, RowStatus, Live,
        Terminal, HasRow, Price, Status, Steps, CreateSteps, RefundSteps,
        PollSteps, Actors, Goto, Enter, Mishap, DbFails,
        RefundFails, StoreFails, Remove, Fine, luck, row, clock,
        money, rest, locals, control, Ages, Never, Now
<1> USE DEF RefundsFollowFailure, AfterFailure, Amounts, Ownership, Granting
<1>1. ASSUME NEW h \in Handlers, NEW j \in Jobs, Deduct(h, j)
      PROVE  RefundsFollowFailure'
  BY <1>1, SMTT(120) DEF Deduct
<1>2. ASSUME NEW h \in Handlers, NEW j \in Jobs, RequestCustom(h, j)
      PROVE  RefundsFollowFailure'
  BY <1>2, SMTT(120) DEF RequestCustom
<1>3. ASSUME NEW h \in Handlers, NEW j \in Jobs, GetJob(h, j)
      PROVE  RefundsFollowFailure'
  BY <1>3, SMTT(120) DEF GetJob, StartPoll
<1>4. ASSUME NEW h \in Handlers, NEW j \in Jobs, StartDelete(h, j)
      PROVE  RefundsFollowFailure'
  BY <1>4, SMTT(120) DEF StartDelete
<1>5. ASSUME NEW h \in Handlers, ChooseChannel(h)
      PROVE  RefundsFollowFailure'
  BY <1>5, SMTT(120) DEF ChooseChannel
<1>6. ASSUME NEW h \in Handlers, GiveBack(h)
      PROVE  RefundsFollowFailure'
  BY <1>6, SMTT(120) DEF GiveBack
<1>7. ASSUME NEW h \in Handlers, InsertJob(h)
      PROVE  RefundsFollowFailure'
  BY <1>7, SMTT(120) DEF InsertJob
<1>8. ASSUME NEW h \in Handlers, PostUpstream(h)
      PROVE  RefundsFollowFailure'
  BY <1>8, SMTT(120) DEF PostUpstream
<1>9. ASSUME NEW h \in Handlers, RecordUpstream(h)
      PROVE  RefundsFollowFailure'
  BY <1>9, SMTT(120) DEF RecordUpstream
<1>10. ASSUME NEW a \in Actors, MarkJobFailed(a)
      PROVE  RefundsFollowFailure'
  BY <1>10, SMTT(120) DEF MarkJobFailed
<1>11. ASSUME NEW a \in Actors, FlagRefund(a)
      PROVE  RefundsFollowFailure'
  BY <1>11, SMTT(120) DEF FlagRefund, AfterRefund
<1>12. ASSUME NEW a \in Actors, GrantRefund(a)
      PROVE  RefundsFollowFailure'
  BY <1>12, SMTT(120) DEF GrantRefund, AfterRefund
<1>13. ASSUME NEW a \in Actors, LockPoll(a)
      PROVE  RefundsFollowFailure'
  BY <1>13, SMTT(120) DEF LockPoll, AfterPoll, ThreeSeconds
<1>14. ASSUME NEW a \in Actors, RefetchJob(a)
      PROVE  RefundsFollowFailure'
  BY <1>14, SMTT(120) DEF RefetchJob
<1>15. ASSUME NEW a \in Actors, AskUpstream(a)
      PROVE  RefundsFollowFailure'
  BY <1>15, SMTT(120) DEF AskUpstream
<1>16. ASSUME NEW a \in Actors, Download(a)
      PROVE  RefundsFollowFailure'
  BY <1>16, SMTT(120) DEF Download
<1>17. ASSUME NEW a \in Actors, CompleteJob(a)
      PROVE  RefundsFollowFailure'
  BY <1>17, SMTT(120) DEF CompleteJob
<1>18. ASSUME NEW a \in Actors, DiscardFile(a)
      PROVE  RefundsFollowFailure'
  BY <1>18, SMTT(120) DEF DiscardFile
<1>19. ASSUME NEW a \in Actors, DownloadFailed(a)
      PROVE  RefundsFollowFailure'
  BY <1>19, SMTT(120) DEF DownloadFailed
<1>20. ASSUME NEW a \in Actors, ReleaseLock(a)
      PROVE  RefundsFollowFailure'
  BY <1>20, SMTT(120) DEF ReleaseLock, AfterPoll
<1>21. ASSUME NEW h \in Handlers, DeleteFile(h)
      PROVE  RefundsFollowFailure'
  BY <1>21, SMTT(120) DEF DeleteFile
<1>22. ASSUME NEW h \in Handlers, DeleteRow(h)
      PROVE  RefundsFollowFailure'
  BY <1>22, SMTT(120) DEF DeleteRow
<1>23. ASSUME NEW h \in Handlers, Disconnect(h)
      PROVE  RefundsFollowFailure'
  BY <1>23, SMTT(120) DEF Disconnect
<1>24. CASE RepairLocks
  BY <1>24, SMTT(120) DEF RepairLocks
<1>25. CASE SelectStale
  BY <1>25, SMTT(120) DEF SelectStale
<1>26. ASSUME NEW j \in Jobs, TimeOut(j)
      PROVE  RefundsFollowFailure'
  BY <1>26, SMTT(120) DEF TimeOut
<1>27. CASE SelectOrphans
  BY <1>27, SMTT(120) DEF SelectOrphans
<1>28. ASSUME NEW j \in Jobs, AdvanceOrphan(j)
      PROVE  RefundsFollowFailure'
  BY <1>28, SMTT(120) DEF AdvanceOrphan, StartPoll
<1>29. CASE SweepDone
  BY <1>29, SMTT(120) DEF SweepDone
<1>30. ASSUME NEW j \in Jobs, GrowOlder(j)
      PROVE  RefundsFollowFailure'
  BY <1>30, SMTT(120) DEF GrowOlder, TwoHours
<1>31. ASSUME NEW j \in Jobs, StayIdle(j)
      PROVE  RefundsFollowFailure'
  BY <1>31, SMTT(120) DEF StayIdle, TenMinutes, Never, Holding
<1>32. CASE Crash
  BY <1>32, SMTT(120) DEF Crash
<1>33. CASE UNCHANGED vars
  BY <1>33 DEF vars, row, clock, money, rest, locals, control, luck
<1> HIDE DEF RefundsFollowFailure
<1> QED
  BY <1>1, <1>2, <1>3, <1>4, <1>5, <1>6, <1>7, <1>8, <1>9, <1>10, <1>11,
     <1>12, <1>13, <1>14, <1>15, <1>16, <1>17, <1>18, <1>19, <1>20, <1>21,
     <1>22, <1>23, <1>24, <1>25, <1>26, <1>27, <1>28, <1>29, <1>30, <1>31,
     <1>32, <1>33, Zenon
  DEF Next, Request, HandlerStep, CreateStep, SweeperStep, SweepStep,
      RefundStep, PollStep, Actors

THEOREM RefundsInvariance == Spec => []RefundsFollowFailure
<1> QED BY RefundsInit, RefundsNext, Invariance, PTL DEF Spec

LEMMA PaidWhenDelivered == IInv /\ RefundsFollowFailure => DeliveredIsPaid
BY DEF IInv, Granting, RefundsFollowFailure, AfterFailure, DeliveredIsPaid,
       HasRow, RowStatus, Terminal

-----------------------------------------------------------------------------
(* Every payment is accounted for                                          *)

(* Paid for, not given back, and nothing that was to give it back failed   *)
(* or was cut off.                                                         *)
Owed(j) == charged[j] > 0 /\ credited[j] = 0 /\ j \notin missed \cup dropped

(* Somebody is about to give the price of j back.                          *)
Refunding(j) ==
    \E a \in Actors : /\ tgt[a] = j
                      /\ pc[a] = "grant" \/ (pc[a] = "flag" /\ ~refunded[j])

(* A payment without a row is in the hands of the handler that creates the *)
(* job, one of a failed row in the hands of whoever failed it, also when   *)
(* the row is deleted once its refund has begun.                           *)
Payments ==
    /\ \A j \in Jobs : Owed(j) /\ status[j] = "requested" =>
          \E a \in Actors : pc[a] \in Creating /\ tgt[a] = j
    /\ \A j \in Jobs : Owed(j) /\ status[j] = "failed" => Refunding(j)
    /\ \A j \in Jobs : Owed(j) /\ status[j] = "deleted" /\ refunded[j] => Refunding(j)

LEMMA PaymentsInit == Init => Payments
BY SMTT(30) DEF Init, Payments, Owed, Actors

(* Actor x may have failed the row of j, and goes on to refund it if so.   *)
FailingStep(x, j) ==
    /\ UNCHANGED <<money, refunded, dropped>> /\ missed \subseteq missed'
    /\ x \in Actors /\ j \in Jobs
    /\ pc[x] \notin Creating \cup {"flag", "grant"}
    /\ \A b \in Actors \ {x} : pc'[b] = pc[b] /\ tgt'[b] = tgt[b]
    /\ \/ status' = status
       \/ /\ status' = [status EXCEPT ![j] = "failed"]
          /\ HasRow(j)
          /\ pc'[x] = "flag" /\ tgt'[x] = j

LEMMA FailingStepPayments ==
    ASSUME IInv, RefundsFollowFailure, Payments, NEW x, NEW j, FailingStep(x, j)
    PROVE  Payments'
<1>1. \A k \in Jobs : Owed(k)' => Owed(k)
  BY DEF FailingStep, Owed, money
<1>2. \A k \in Jobs : status'[k] \in {status[k], "failed"}
  BY DEF FailingStep, IInv, TypeOK
<1>3. \A k \in Jobs : k # j => status'[k] = status[k]
  BY DEF FailingStep, IInv, TypeOK
<1>4. ASSUME NEW k \in Jobs, status[k] = "requested", Owed(k)
      PROVE  (\E b \in Actors : pc[b] \in Creating /\ tgt[b] = k)'
  BY <1>4 DEF Payments, FailingStep
<1>5. ASSUME NEW k \in Jobs, Refunding(k)
      PROVE  Refunding(k)'
  BY <1>5 DEF Refunding, FailingStep
<1>6. ASSUME NEW k \in Jobs, Owed(k), status'[k] = "failed"
      PROVE  Refunding(k)'
  <2>1. CASE status[k] = "failed"
    BY <1>5, <1>6, <2>1 DEF Payments
  <2>2. CASE status[k] # "failed"
    <3>1. k = j /\ HasRow(k) /\ pc'[x] = "flag" /\ tgt'[x] = k
      BY <1>3, <1>6, <2>2 DEF FailingStep
    <3>2. ~refunded'[k]
      BY <1>6, <2>2, <3>1
      DEF RefundsFollowFailure, AfterFailure, FailingStep, Owed, HasRow, RowStatus,
          Live, Terminal
    <3> QED BY <3>1, <3>2 DEF Refunding, FailingStep
  <2> QED BY <2>1, <2>2
<1>7. ASSUME NEW k \in Jobs, Owed(k), status'[k] = "deleted", refunded'[k]
      PROVE  Refunding(k)'
  BY <1>2, <1>5, <1>7 DEF Payments, FailingStep
<1> QED BY <1>1, <1>2, <1>4, <1>6, <1>7 DEF Payments

LEMMA FlagRefundPayments ==
    ASSUME IInv, Payments, NEW a \in Actors, FlagRefund(a)
    PROVE  Payments'
<1> USE DEF Goto, row, locals, money
<1>1. /\ UNCHANGED <<status, charged, credited, tgt, dropped>> /\ pc[a] = "flag"
      /\ missed' = missed \/ missed' = missed \cup {tgt[a]}
  BY DEF FlagRefund, Fine, luck, RefundFails
<1>2. \A b \in Actors \ {a} : pc'[b] = pc[b]
  BY DEF FlagRefund, IInv, TypeOK
<1>3. tgt[a] \in Jobs /\ HasRow(tgt[a]) /\ ~refunded[tgt[a]] /\ Owed(tgt[a])'
        => pc'[a] = "grant"
  <2>1. Owed(tgt[a])' /\ tgt[a] \in Jobs => Fine /\ Price(tgt[a]) > 0
    <3>1. Owed(tgt[a])' => ~RefundFails(tgt[a])
      BY <1>1 DEF Owed, RefundFails
    <3>2. FlagRefund(a) /\ ~RefundFails(tgt[a]) => Fine
      BY Zenon DEF FlagRefund
    <3>3. tgt[a] \in Jobs /\ charged[tgt[a]] > 0 => Price(tgt[a]) > 0
      BY VideoAssumption DEF IInv, Amounts, TypeOK
    <3> QED BY <1>1, <3>1, <3>2, <3>3 DEF Owed
  <2>2. Owed(tgt[a])' => ~RefundFails(tgt[a])
    BY <1>1 DEF Owed, RefundFails
  <2> QED BY <2>1, <2>2 DEF FlagRefund, IInv, TypeOK
<1>4. ASSUME NEW k \in Jobs, k # tgt[a] \/ refunded[k], Refunding(k)
      PROVE  Refunding(k)'
  <2>1. PICK b \in Actors : tgt[b] = k /\ (pc[b] = "grant" \/ (pc[b] = "flag" /\ ~refunded[k]))
    BY <1>4, Zenon DEF Refunding
  <2>2. b # a
    BY <1>1, <1>4, <2>1
  <2>3. k # tgt[a] => (refunded'[k] <=> refunded[k])
    BY <1>1 DEF FlagRefund, IInv, TypeOK
  <2> QED BY <1>1, <1>2, <1>4, <2>1, <2>2, <2>3 DEF Refunding
<1>5. \A k \in Jobs : Owed(k)' => Owed(k)
  BY <1>1 DEF Owed
<1>6. ASSUME NEW k \in Jobs, Owed(k)', status[k] = "failed"
      PROVE  Refunding(k)'
  <2>1. CASE k # tgt[a] \/ refunded[k]
    BY <1>4, <1>5, <1>6, <2>1 DEF Payments
  <2>2. CASE k = tgt[a] /\ ~refunded[k]
    BY <1>1, <1>3, <1>6, <2>2 DEF Refunding, HasRow, RowStatus, Terminal
  <2> QED BY <2>1, <2>2
<1>7. ASSUME NEW k \in Jobs, Owed(k)', status[k] = "deleted", refunded'[k]
      PROVE  Refunding(k)'
  <2>1. refunded[k]
    BY <1>1, <1>7 DEF FlagRefund, IInv, TypeOK, HasRow, RowStatus, Live, Terminal
  <2> QED BY <1>4, <1>5, <1>7, <2>1 DEF Payments
<1>8. ASSUME NEW k \in Jobs, Owed(k)', status[k] = "requested"
      PROVE  (\E b \in Actors : pc[b] \in Creating /\ tgt[b] = k)'
  BY <1>1, <1>2, <1>5, <1>8 DEF Payments, Creating
<1> QED BY <1>1, <1>6, <1>7, <1>8 DEF Payments

(* A row that is deleted before its refund has begun stays unrefunded.     *)
LEMMA DeleteRowPayments ==
    ASSUME IInv, RefundsFollowFailure, Payments, NEW h \in Handlers, DeleteRow(h)
    PROVE  Payments'
<1> USE DEF Fine, DbFails, Mishap, luck, money, locals, Goto
<1>1. /\ UNCHANGED <<charged, credited, refunded, tgt, missed, dropped>> /\ pc[h] = "delRow"
      /\ h \in Actors /\ \A b \in Actors \ {h} : pc'[b] = pc[b]
  BY DEF DeleteRow, IInv, TypeOK, Actors
<1>2. \A k \in Jobs : \/ status'[k] = status[k]
                      \/ status'[k] = "deleted" /\ status[k] \notin {"none", "requested"}
  BY <1>1 DEF DeleteRow, IInv, TypeOK, Ownership, Creating, Resting, SweepSteps
<1>3. \A k \in Jobs : Owed(k)' <=> Owed(k)
  BY <1>1 DEF Owed
<1>4. ASSUME NEW k \in Jobs, Refunding(k)
      PROVE  Refunding(k)'
  BY <1>1, <1>4 DEF Refunding
<1>5. ASSUME NEW k \in Jobs, Owed(k), status'[k] = "deleted", refunded[k]
      PROVE  Refunding(k)'
  BY <1>4, <1>5 DEF RefundsFollowFailure, AfterFailure, Owed, Payments
<1>6. ASSUME NEW k \in Jobs, Owed(k), status[k] = "requested"
      PROVE  (\E b \in Actors : pc[b] \in Creating /\ tgt[b] = k)'
  BY <1>1, <1>6 DEF Payments, Creating
<1> QED BY <1>1, <1>2, <1>3, <1>4, <1>5, <1>6 DEF Payments

(* The actors of C are gone, and the payments in their hands count as cut  *)
(* off.                                                                    *)
CutOff(C) ==
    /\ UNCHANGED <<row, money, files, tgt, missed, overtaken, undeleted>>
    /\ dropped' = dropped \cup {tgt[a] : a \in Laden \cap C}
    /\ \A b \in Actors : IF b \in C THEN pc'[b] = "idle" /\ obj'[b] = None
                        ELSE pc'[b] = pc[b] /\ role'[b] = role[b] /\ obj'[b] = obj[b]

LEMMA CutOffs ==
    ASSUME IInv
    PROVE  /\ \A h \in Handlers : Disconnect(h) => CutOff({h})
           /\ Crash => CutOff(Actors)
<1>1. ASSUME NEW h \in Handlers, Disconnect(h)
      PROVE  CutOff({h})
  BY <1>1 DEF Disconnect, Mishap, Goto, CutOff, IInv, TypeOK, Actors, rest
<1>2. ASSUME Crash
      PROVE  CutOff(Actors)
  <2>1. Laden \cap Actors = Laden
    BY DEF Laden
  <2> QED BY <1>2, <2>1 DEF Crash, Mishap, CutOff
<1> QED BY <1>1, <1>2

LEMMA CutOffPayments ==
    ASSUME Payments, NEW C \in SUBSET Actors, CutOff(C)
    PROVE  Payments'
<1>1. ASSUME NEW k \in Jobs, Owed(k)', NEW a \in Laden, tgt[a] = k
      PROVE  a \in Actors /\ pc'[a] = pc[a] /\ tgt'[a] = k
  BY <1>1 DEF CutOff, Owed, Laden
<1>2. ASSUME NEW k \in Jobs, Owed(k)', Refunding(k)
      PROVE  Refunding(k)'
  <2>1. PICK a \in Actors : tgt[a] = k /\ (pc[a] = "grant" \/ (pc[a] = "flag" /\ ~refunded[k]))
    BY <1>2, Zenon DEF Refunding
  <2>2. a \in Laden
    BY <2>1 DEF Laden
  <2> QED BY <1>1, <1>2, <2>1, <2>2 DEF Refunding, CutOff, row
<1>3. \A k \in Jobs : (Owed(k)' => Owed(k)) /\ status'[k] = status[k] /\ refunded'[k] = refunded[k]
  BY DEF CutOff, Owed, row, money
<1>4. ASSUME NEW k \in Jobs, Owed(k)', status[k] = "requested"
      PROVE  (\E b \in Actors : pc[b] \in Creating /\ tgt[b] = k)'
  <2>1. PICK a \in Actors : pc[a] \in Creating /\ tgt[a] = k
    BY <1>3, <1>4 DEF Payments
  <2>2. a \in Laden
    BY <2>1 DEF Laden, Creating
  <2> QED BY <1>1, <1>4, <2>1, <2>2
<1> QED BY <1>2, <1>3, <1>4 DEF Payments

LEMMA PaymentsNext ==
    ASSUME IInv, RefundsFollowFailure, Payments, [Next]_vars
    PROVE  Payments'
<1> USE DEF IInv, TypeOK, Creating, Resting, SweepSteps, RowStatus, Live,
        Terminal, HasRow, Price, Status, Steps, CreateSteps, RefundSteps,
        PollSteps, Actors, Goto, Enter, Mishap, DbFails,
        RefundFails, StoreFails, Remove, Fine, luck, row, clock,
        money, rest, locals, control, Ages, Never, Now
<1> USE DEF Payments, Owed, Refunding, Ownership, Granting, Amounts
<1>1. ASSUME NEW h \in Handlers, NEW j \in Jobs, Deduct(h, j)
      PROVE  Payments'
  BY <1>1, SMTT(120) DEF Deduct
<1>2. ASSUME NEW h \in Handlers, NEW j \in Jobs, RequestCustom(h, j)
      PROVE  Payments'
  BY <1>2, SMTT(120) DEF RequestCustom
<1>3. ASSUME NEW h \in Handlers, NEW j \in Jobs, GetJob(h, j)
      PROVE  Payments'
  BY <1>3, SMTT(120) DEF GetJob, StartPoll
<1>4. ASSUME NEW h \in Handlers, NEW j \in Jobs, StartDelete(h, j)
      PROVE  Payments'
  BY <1>4, SMTT(120) DEF StartDelete
<1>5. ASSUME NEW h \in Handlers, ChooseChannel(h)
      PROVE  Payments'
  BY <1>5, SMTT(120) DEF ChooseChannel
<1>6. ASSUME NEW h \in Handlers, GiveBack(h)
      PROVE  Payments'
  BY <1>6, SMTT(120) DEF GiveBack
<1>7. ASSUME NEW h \in Handlers, InsertJob(h)
      PROVE  Payments'
  BY <1>7, SMTT(120) DEF InsertJob
<1>8. ASSUME NEW h \in Handlers, PostUpstream(h)
      PROVE  Payments'
  BY <1>8, SMTT(120) DEF PostUpstream
<1>9. ASSUME NEW h \in Handlers, RecordUpstream(h)
      PROVE  Payments'
  BY <1>9, SMTT(120) DEF RecordUpstream
<1>10. ASSUME NEW a \in Actors, MarkJobFailed(a)
      PROVE  Payments'
  <2>1. FailingStep(a, tgt[a])
    BY <1>10, SMTT(120) DEF MarkJobFailed, FailingStep
  <2> QED BY <2>1, FailingStepPayments
<1>11. ASSUME NEW a \in Actors, FlagRefund(a)
      PROVE  Payments'
  BY <1>11, FlagRefundPayments
<1>12. ASSUME NEW a \in Actors, GrantRefund(a)
      PROVE  Payments'
  BY <1>12, SMTT(120) DEF GrantRefund, AfterRefund
<1>13. ASSUME NEW a \in Actors, LockPoll(a)
      PROVE  Payments'
  BY <1>13, SMTT(120) DEF LockPoll, AfterPoll, ThreeSeconds
<1>14. ASSUME NEW a \in Actors, RefetchJob(a)
      PROVE  Payments'
  BY <1>14, SMTT(120) DEF RefetchJob
<1>15. ASSUME NEW a \in Actors, AskUpstream(a)
      PROVE  Payments'
  BY <1>15, SMTT(120) DEF AskUpstream
<1>16. ASSUME NEW a \in Actors, Download(a)
      PROVE  Payments'
  BY <1>16, SMTT(120) DEF Download
<1>17. ASSUME NEW a \in Actors, CompleteJob(a)
      PROVE  Payments'
  BY <1>17, SMTT(120) DEF CompleteJob
<1>18. ASSUME NEW a \in Actors, DiscardFile(a)
      PROVE  Payments'
  BY <1>18, SMTT(120) DEF DiscardFile
<1>19. ASSUME NEW a \in Actors, DownloadFailed(a)
      PROVE  Payments'
  <2>1. FailingStep(a, tgt[a])
    BY <1>19, SMTT(120) DEF DownloadFailed, FailingStep
  <2> QED BY <2>1, FailingStepPayments
<1>20. ASSUME NEW a \in Actors, ReleaseLock(a)
      PROVE  Payments'
  BY <1>20, SMTT(120) DEF ReleaseLock, AfterPoll
<1>21. ASSUME NEW h \in Handlers, DeleteFile(h)
      PROVE  Payments'
  BY <1>21, SMTT(120) DEF DeleteFile
<1>22. ASSUME NEW h \in Handlers, DeleteRow(h)
      PROVE  Payments'
  BY <1>22, DeleteRowPayments
<1>23. ASSUME NEW h \in Handlers, Disconnect(h)
      PROVE  Payments'
  <2>1. CutOff({h}) /\ {h} \in SUBSET Actors
    BY <1>23, CutOffs
  <2> QED BY <2>1, CutOffPayments
<1>24. CASE RepairLocks
  BY <1>24, SMTT(120) DEF RepairLocks
<1>25. CASE SelectStale
  BY <1>25, SMTT(120) DEF SelectStale
<1>26. ASSUME NEW j \in Jobs, TimeOut(j)
      PROVE  Payments'
  <2>1. FailingStep(Sweeper, j)
    BY <1>26, SMTT(120) DEF TimeOut, FailingStep
  <2> QED BY <2>1, FailingStepPayments
<1>27. CASE SelectOrphans
  BY <1>27, SMTT(120) DEF SelectOrphans
<1>28. ASSUME NEW j \in Jobs, AdvanceOrphan(j)
      PROVE  Payments'
  BY <1>28, SMTT(120) DEF AdvanceOrphan, StartPoll
<1>29. CASE SweepDone
  BY <1>29, SMTT(120) DEF SweepDone
<1>30. ASSUME NEW j \in Jobs, GrowOlder(j)
      PROVE  Payments'
  BY <1>30, SMTT(120) DEF GrowOlder, TwoHours
<1>31. ASSUME NEW j \in Jobs, StayIdle(j)
      PROVE  Payments'
  BY <1>31, SMTT(120) DEF StayIdle, TenMinutes, Never, Holding
<1>32. CASE Crash
  BY <1>32, CutOffs, CutOffPayments
<1>33. CASE UNCHANGED vars
  BY <1>33 DEF vars, row, clock, money, rest, locals, control, luck
<1> HIDE DEF Payments
<1> QED
  BY <1>1, <1>2, <1>3, <1>4, <1>5, <1>6, <1>7, <1>8, <1>9, <1>10, <1>11,
     <1>12, <1>13, <1>14, <1>15, <1>16, <1>17, <1>18, <1>19, <1>20, <1>21,
     <1>22, <1>23, <1>24, <1>25, <1>26, <1>27, <1>28, <1>29, <1>30, <1>31,
     <1>32, <1>33, Zenon
  DEF Next, Request, HandlerStep, CreateStep, SweeperStep, SweepStep,
      RefundStep, PollStep, Actors

LEMMA PaymentsAccount == IInv /\ Payments => PaymentAccounted
<1> SUFFICES ASSUME IInv, Payments, NEW j \in Jobs \ (missed \cup dropped),
                    charged[j] > 0, Working(j) = {},
                    credited[j] # charged[j]
             PROVE  \/ status[j] \in Live \cup {"completed"}
                    \/ status[j] = "deleted" /\ ~refunded[j]
  BY DEF PaymentAccounted
<1>1. Owed(j)
  BY DEF Owed, IInv, Amounts
<1>2. \A a \in Actors : tgt[a] = j => pc[a] \in Resting
  BY DEF Working
<1>3. status[j] # "none"
  BY DEF IInv, Amounts
<1>4. status[j] # "requested"
  BY <1>1, <1>2 DEF Payments, Creating, Resting, SweepSteps
<1>5. ~Refunding(j)
  BY <1>2 DEF Refunding, Resting, SweepSteps
<1>6. status[j] # "failed" /\ (status[j] = "deleted" => ~refunded[j])
  BY <1>1, <1>5 DEF Payments
<1> QED
  BY <1>3, <1>4, <1>6 DEF IInv, TypeOK, Status, RowStatus, Live, Terminal

(* Once the work on a job is over no payment is forgotten, and none is     *)
(* given back for a clip that is shown as completed, whatever fails, is    *)
(* cut off, crashes or is deleted meanwhile: except the payments whose     *)
(* own refund failed or was cut off (create_job, refund_job, the sweep).   *)
THEOREM PaymentsKept == Spec => []PaidWork
<1>1. Spec => []Payments
  BY PaymentsInit, PaymentsNext, RefundsInvariance, Invariance, PTL DEF Spec
<1>2. IInv /\ RefundsFollowFailure /\ Payments => PaidWork
  BY PaidWhenDelivered, PaymentsAccount DEF PaidWork
<1> QED BY <1>1, <1>2, RefundsInvariance, Invariance, PTL

-----------------------------------------------------------------------------
(* Stored files                                                            *)

Asking == {"ask", "download", "complete", "discard", "retry"}
Deleting == {"delFile", "delRow"}
FileSteps == {"complete", "discard", "delFile"}

(* A poll that has not ended finds a row without a clip; whoever deletes a *)
(* row takes the clip it names first; and a stored file is named by a row, *)
(* or in somebody's hands, or of a job whose polls overlapped or were cut  *)
(* off.                                                                    *)
FilesHeld ==
    /\ \A a \in Actors : pc[a] \in Deleting =>
          status[tgt[a]] \in Terminal \cup {"deleted"}
    /\ \A a \in Actors : pc[a] = "delFile" /\ tgt[a] \notin overtaken =>
          obj[a] = video[tgt[a]]
    /\ \A a \in Actors : pc[a] \notin FileSteps => obj[a] = None
    /\ \A a \in Actors : obj[a] # None => JobOf[obj[a]] = tgt[a]
    /\ \A j \in Jobs : video[j] # None => JobOf[video[j]] = j
    /\ \A j \in Jobs : status[j] \in {"none", "requested"} \cup Live => video[j] = None
    /\ \A a \in Actors :
          Polling(a) /\ pc[a] \in Asking \ {"discard"} /\ tgt[a] \notin overtaken =>
             video[tgt[a]] = None /\ status[tgt[a]] # "completed"
    /\ \A j \in Jobs \ overtaken : status[j] = "deleted" => video[j] \notin files \ undeleted
    /\ \A a \in Actors : pc[a] = "delRow" /\ tgt[a] \notin overtaken =>
          video[tgt[a]] \notin files \ undeleted
    /\ \A f \in files :
          \/ \E j \in Jobs : HasRow(j) /\ video[j] = f
          \/ \E a \in Actors : pc[a] \in FileSteps /\ obj[a] = f
          \/ JobOf[f] \in overtaken \cup dropped \/ f \in undeleted

LEMMA FilesInit == Init => FilesHeld
BY SMTT(30)
DEF Init, FilesHeld, Polling, Deleting, FileSteps, Live, Actors

LEMMA DeleteRowFiles ==
    ASSUME IInv, FilesHeld, NEW h \in Handlers, DeleteRow(h)
    PROVE  FilesHeld'
<1> USE DEF Fine, DbFails, Mishap, luck, money, rest, locals, Goto
<1>1. /\ UNCHANGED <<video, obj, files, tgt, overtaken, dropped, undeleted>>
      /\ pc[h] = "delRow" /\ pc'[h] = "idle" /\ role'[h] = "none"
      /\ h \in Actors /\ \A b \in Actors \ {h} : pc'[b] = pc[b] /\ role'[b] = role[b]
  BY DEF DeleteRow, IInv, TypeOK, Actors, Resting
<1>2. \A k \in Jobs : \/ status'[k] = status[k]
                      \/ status'[k] = "deleted" /\ k = tgt[h]
  BY <1>1 DEF DeleteRow, IInv, TypeOK
<1>3. \A a \in Actors : tgt[a] \in Jobs
  BY DEF IInv, TypeOK
<1>4. ASSUME NEW f \in files, JobOf[f] \notin overtaken \cup dropped, f \notin undeleted,
             NEW j \in Jobs, HasRow(j), video[j] = f
      PROVE  HasRow(j)'
  <2>1. video[j] # None => JobOf[video[j]] = j
    BY DEF FilesHeld
  <2>2. f # None
    BY VideoAssumption DEF IInv, TypeOK
  <2>3. j # tgt[h]
    BY <1>1, <1>4, <2>1, <2>2 DEF FilesHeld
  <2> QED BY <1>2, <1>4, <2>3 DEF HasRow
<1>5. (\A f \in files : \/ \E j \in Jobs : HasRow(j) /\ video[j] = f
                        \/ \E a \in Actors : pc[a] \in FileSteps /\ obj[a] = f
                        \/ JobOf[f] \in overtaken \cup dropped
                        \/ f \in undeleted)'
  BY <1>1, <1>4 DEF FilesHeld, FileSteps
<1>6. (\A j \in Jobs \ overtaken : status[j] = "deleted" => video[j] \notin files \ undeleted)'
  BY <1>1, <1>2 DEF FilesHeld
<1> QED
  BY <1>1, <1>2, <1>3, <1>5, <1>6
  DEF FilesHeld, Polling, Deleting, FileSteps, Asking, PollSteps, RefundSteps, Live, Terminal

LEMMA CutOffFiles ==
    ASSUME IInv, FilesHeld, NEW C \in SUBSET Actors, CutOff(C)
    PROVE  FilesHeld'
<1>1. UNCHANGED <<status, video, files, tgt, overtaken, undeleted>> /\ dropped \subseteq dropped'
  BY DEF CutOff, row
<1>2. \A a \in Actors : \/ pc'[a] = "idle" /\ obj'[a] = None
                        \/ pc'[a] = pc[a] /\ role'[a] = role[a] /\ obj'[a] = obj[a]
  BY DEF CutOff
<1>3. ASSUME NEW f \in files, NEW a \in Actors, pc[a] \in FileSteps, obj[a] = f,
             JobOf[f] \notin overtaken \cup dropped', f \notin undeleted
      PROVE  \/ \E j \in Jobs : HasRow(j) /\ video[j] = f
             \/ pc'[a] = pc[a] /\ obj'[a] = f
  <2>1. f # None /\ tgt[a] \in Jobs
    BY VideoAssumption DEF IInv, TypeOK
  <2>2. JobOf[f] = tgt[a]
    BY <1>3, <2>1 DEF FilesHeld
  <2>3. CASE pc[a] = "delFile"
    <3>1. video[tgt[a]] = f /\ status[tgt[a]] \in Terminal \cup {"deleted"}
      BY <1>3, <2>2, <2>3 DEF FilesHeld, Deleting
    <3>2. status[tgt[a]] # "deleted"
      BY <1>3, <2>1, <2>2, <3>1 DEF FilesHeld
    <3> QED BY <2>1, <3>1, <3>2 DEF HasRow, RowStatus
  <2>4. CASE pc[a] # "delFile" /\ a \in C
    <3>1. a \in Laden
      BY <1>3, <2>4 DEF Laden, FileSteps
    <3> QED BY <1>3, <2>2, <2>4, <3>1 DEF CutOff
  <2>5. CASE a \notin C
    BY <1>3, <2>5 DEF CutOff
  <2> QED BY <2>3, <2>4, <2>5
<1>4. (\A f \in files : \/ \E j \in Jobs : HasRow(j) /\ video[j] = f
                        \/ \E a \in Actors : pc[a] \in FileSteps /\ obj[a] = f
                        \/ JobOf[f] \in overtaken \cup dropped
                        \/ f \in undeleted)'
  BY <1>1, <1>3 DEF FilesHeld, HasRow
<1> QED
  BY <1>1, <1>2, <1>4
  DEF FilesHeld, Polling, Deleting, FileSteps, Asking, PollSteps, RefundSteps

LEMMA FilesNext ==
    ASSUME IInv, LockHeld, FilesHeld, [Next]_vars
    PROVE  FilesHeld'
<1> USE DEF IInv, TypeOK, Creating, Resting, SweepSteps, RowStatus, Live,
        Terminal, HasRow, Price, Status, Steps, CreateSteps, RefundSteps,
        PollSteps, Actors, Goto, Enter, Mishap, DbFails,
        RefundFails, StoreFails, Remove, Fine, luck, row, clock,
        money, rest, locals, control, Ages, Never, Now
<1> USE DEF FilesHeld, Deleting, Asking, FileSteps, Polling, LockHeld, Amounts, Ownership, Granting
<1>1. ASSUME NEW h \in Handlers, NEW j \in Jobs, Deduct(h, j)
      PROVE  FilesHeld'
  BY <1>1, SMTT(120) DEF Deduct
<1>2. ASSUME NEW h \in Handlers, NEW j \in Jobs, RequestCustom(h, j)
      PROVE  FilesHeld'
  BY <1>2, SMTT(120) DEF RequestCustom
<1>3. ASSUME NEW h \in Handlers, NEW j \in Jobs, GetJob(h, j)
      PROVE  FilesHeld'
  BY <1>3, SMTT(120) DEF GetJob, StartPoll
<1>4. ASSUME NEW h \in Handlers, NEW j \in Jobs, StartDelete(h, j)
      PROVE  FilesHeld'
  BY <1>4, SMTT(120) DEF StartDelete
<1>5. ASSUME NEW h \in Handlers, ChooseChannel(h)
      PROVE  FilesHeld'
  BY <1>5, SMTT(120) DEF ChooseChannel
<1>6. ASSUME NEW h \in Handlers, GiveBack(h)
      PROVE  FilesHeld'
  BY <1>6, SMTT(120) DEF GiveBack
<1>7. ASSUME NEW h \in Handlers, InsertJob(h)
      PROVE  FilesHeld'
  BY <1>7, SMTT(120) DEF InsertJob
<1>8. ASSUME NEW h \in Handlers, PostUpstream(h)
      PROVE  FilesHeld'
  BY <1>8, SMTT(120) DEF PostUpstream
<1>9. ASSUME NEW h \in Handlers, RecordUpstream(h)
      PROVE  FilesHeld'
  BY <1>9, SMTT(120) DEF RecordUpstream
<1>10. ASSUME NEW a \in Actors, MarkJobFailed(a)
      PROVE  FilesHeld'
  BY <1>10, SMTT(120) DEF MarkJobFailed
<1>11. ASSUME NEW a \in Actors, FlagRefund(a)
      PROVE  FilesHeld'
  BY <1>11, SMTT(120) DEF FlagRefund, AfterRefund
<1>12. ASSUME NEW a \in Actors, GrantRefund(a)
      PROVE  FilesHeld'
  BY <1>12, SMTT(120) DEF GrantRefund, AfterRefund
<1>13. ASSUME NEW a \in Actors, LockPoll(a)
      PROVE  FilesHeld'
  BY <1>13, SMTT(120) DEF LockPoll, AfterPoll, ThreeSeconds
<1>14. ASSUME NEW a \in Actors, RefetchJob(a)
      PROVE  FilesHeld'
  BY <1>14, SMTT(120) DEF RefetchJob
<1>15. ASSUME NEW a \in Actors, AskUpstream(a)
      PROVE  FilesHeld'
  BY <1>15, SMTT(120) DEF AskUpstream
<1>16. ASSUME NEW a \in Actors, Download(a)
      PROVE  FilesHeld'
  BY <1>16, SMTT(120) DEF Download
<1>17. ASSUME NEW a \in Actors, CompleteJob(a)
      PROVE  FilesHeld'
  BY <1>17, VideoAssumption, SMTT(120) DEF CompleteJob
<1>18. ASSUME NEW a \in Actors, DiscardFile(a)
      PROVE  FilesHeld'
  BY <1>18, SMTT(120) DEF DiscardFile
<1>19. ASSUME NEW a \in Actors, DownloadFailed(a)
      PROVE  FilesHeld'
  BY <1>19, SMTT(120) DEF DownloadFailed
<1>20. ASSUME NEW a \in Actors, ReleaseLock(a)
      PROVE  FilesHeld'
  BY <1>20, SMTT(120) DEF ReleaseLock, AfterPoll
<1>21. ASSUME NEW h \in Handlers, DeleteFile(h)
      PROVE  FilesHeld'
  BY <1>21, SMTT(120) DEF DeleteFile
<1>22. ASSUME NEW h \in Handlers, DeleteRow(h)
      PROVE  FilesHeld'
  BY <1>22, DeleteRowFiles
<1>23. ASSUME NEW h \in Handlers, Disconnect(h)
      PROVE  FilesHeld'
  <2>1. CutOff({h}) /\ {h} \in SUBSET Actors
    BY <1>23, CutOffs
  <2> QED BY <2>1, CutOffFiles
<1>24. CASE RepairLocks
  BY <1>24, SMTT(120) DEF RepairLocks
<1>25. CASE SelectStale
  BY <1>25, SMTT(120) DEF SelectStale
<1>26. ASSUME NEW j \in Jobs, TimeOut(j)
      PROVE  FilesHeld'
  BY <1>26, SMTT(120) DEF TimeOut
<1>27. CASE SelectOrphans
  BY <1>27, SMTT(120) DEF SelectOrphans
<1>28. ASSUME NEW j \in Jobs, AdvanceOrphan(j)
      PROVE  FilesHeld'
  BY <1>28, SMTT(120) DEF AdvanceOrphan, StartPoll
<1>29. CASE SweepDone
  BY <1>29, SMTT(120) DEF SweepDone
<1>30. ASSUME NEW j \in Jobs, GrowOlder(j)
      PROVE  FilesHeld'
  BY <1>30, SMTT(120) DEF GrowOlder, TwoHours
<1>31. ASSUME NEW j \in Jobs, StayIdle(j)
      PROVE  FilesHeld'
  BY <1>31, SMTT(120) DEF StayIdle, TenMinutes, Never, Holding
<1>32. CASE Crash
  BY <1>32, CutOffs, CutOffFiles
<1>33. CASE UNCHANGED vars
  BY <1>33 DEF vars, row, clock, money, rest, locals, control, luck
<1> HIDE DEF FilesHeld
<1> QED
  BY <1>1, <1>2, <1>3, <1>4, <1>5, <1>6, <1>7, <1>8, <1>9, <1>10, <1>11,
     <1>12, <1>13, <1>14, <1>15, <1>16, <1>17, <1>18, <1>19, <1>20, <1>21,
     <1>22, <1>23, <1>24, <1>25, <1>26, <1>27, <1>28, <1>29, <1>30, <1>31,
     <1>32, <1>33, Zenon
  DEF Next, Request, HandlerStep, CreateStep, SweeperStep, SweepStep,
      RefundStep, PollStep, Actors

(* One poll at a time drives a job, so it stores one clip, and that clip   *)
(* is recorded or deleted, with deletions of rows going on and whatever    *)
(* statement fails: except the clips of a poll that was overtaken by       *)
(* another or cut off with the clip in its hands                           *)
(* (download_completed_video, delete_job, sweep).                          *)
THEOREM OneFileKept == Spec => []OneFilePerJob
<1>1. Spec => []FilesHeld
  BY LockInvariance, FilesInit, FilesNext, Invariance, PTL DEF Spec
<1>2. LockHeld /\ FilesHeld => OneFilePerJob
  BY LockExcludes DEF OneFilePerJob, NoOrphanFile, FilesHeld
<1> QED BY <1>1, <1>2, LockInvariance, PTL

-----------------------------------------------------------------------------
(* VideoJobs implements Escrow                                             *)

(* Without failing statements and with polls that end in time no lock is   *)
(* ever taken from a poll: the lock is younger than the age at which the   *)
(* sweep takes it for a dead one's.                                        *)
Undisturbed ==
    /\ overtaken = {} /\ missed = {}
    /\ \A a \in Actors : Polling(a) => idle[tgt[a]] \in Now..PollLimit

LEMMA UndisturbedInit == Init => Undisturbed
BY SMTT(30) DEF Init, Undisturbed, Polling, PollSteps, RefundSteps, Actors

LEMMA UndisturbedNext ==
    ASSUME IInv, LockHeld, Undisturbed,
           PollLimit < FiveMinutes, "db" \notin Faults, [Next]_vars
    PROVE  Undisturbed'
<1> USE DEF IInv, TypeOK, Creating, Resting, SweepSteps, RowStatus, Live,
        Terminal, HasRow, Price, Status, Steps, CreateSteps, RefundSteps,
        PollSteps, Actors, Goto, Enter, Mishap, DbFails,
        RefundFails, StoreFails, Remove, Fine, luck, row, clock,
        money, rest, locals, control, Ages, Never, Now
<1> USE DEF Undisturbed, LockHeld, Polling, FiveMinutes
<1>1. ASSUME NEW h \in Handlers, NEW j \in Jobs, Deduct(h, j)
      PROVE  Undisturbed'
  BY <1>1, SMTT(120) DEF Deduct
<1>2. ASSUME NEW h \in Handlers, NEW j \in Jobs, RequestCustom(h, j)
      PROVE  Undisturbed'
  BY <1>2, SMTT(120) DEF RequestCustom
<1>3. ASSUME NEW h \in Handlers, NEW j \in Jobs, GetJob(h, j)
      PROVE  Undisturbed'
  BY <1>3, SMTT(120) DEF GetJob, StartPoll
<1>4. ASSUME NEW h \in Handlers, NEW j \in Jobs, StartDelete(h, j)
      PROVE  Undisturbed'
  BY <1>4, SMTT(120) DEF StartDelete
<1>5. ASSUME NEW h \in Handlers, ChooseChannel(h)
      PROVE  Undisturbed'
  BY <1>5, SMTT(120) DEF ChooseChannel
<1>6. ASSUME NEW h \in Handlers, GiveBack(h)
      PROVE  Undisturbed'
  BY <1>6, SMTT(120) DEF GiveBack
<1>7. ASSUME NEW h \in Handlers, InsertJob(h)
      PROVE  Undisturbed'
  BY <1>7, SMTT(120) DEF InsertJob
<1>8. ASSUME NEW h \in Handlers, PostUpstream(h)
      PROVE  Undisturbed'
  BY <1>8, SMTT(120) DEF PostUpstream
<1>9. ASSUME NEW h \in Handlers, RecordUpstream(h)
      PROVE  Undisturbed'
  BY <1>9, VideoAssumption, SMTT(120) DEF RecordUpstream
<1>10. ASSUME NEW a \in Actors, MarkJobFailed(a)
      PROVE  Undisturbed'
  BY <1>10, SMTT(120) DEF MarkJobFailed
<1>11. ASSUME NEW a \in Actors, FlagRefund(a)
      PROVE  Undisturbed'
  BY <1>11, SMTT(120) DEF FlagRefund, AfterRefund
<1>12. ASSUME NEW a \in Actors, GrantRefund(a)
      PROVE  Undisturbed'
  BY <1>12, SMTT(120) DEF GrantRefund, AfterRefund
<1>13. ASSUME NEW a \in Actors, LockPoll(a)
      PROVE  Undisturbed'
  BY <1>13, VideoAssumption, SMTT(120) DEF LockPoll, AfterPoll, ThreeSeconds
<1>14. ASSUME NEW a \in Actors, RefetchJob(a)
      PROVE  Undisturbed'
  BY <1>14, SMTT(120) DEF RefetchJob
<1>15. ASSUME NEW a \in Actors, AskUpstream(a)
      PROVE  Undisturbed'
  BY <1>15, SMTT(120) DEF AskUpstream
<1>16. ASSUME NEW a \in Actors, Download(a)
      PROVE  Undisturbed'
  BY <1>16, SMTT(120) DEF Download
<1>17. ASSUME NEW a \in Actors, CompleteJob(a)
      PROVE  Undisturbed'
  BY <1>17, SMTT(120) DEF CompleteJob
<1>18. ASSUME NEW a \in Actors, DiscardFile(a)
      PROVE  Undisturbed'
  BY <1>18, SMTT(120) DEF DiscardFile
<1>19. ASSUME NEW a \in Actors, DownloadFailed(a)
      PROVE  Undisturbed'
  BY <1>19, SMTT(120) DEF DownloadFailed
<1>20. ASSUME NEW a \in Actors, ReleaseLock(a)
      PROVE  Undisturbed'
  BY <1>20, SMTT(120) DEF ReleaseLock, AfterPoll
<1>21. ASSUME NEW h \in Handlers, DeleteFile(h)
      PROVE  Undisturbed'
  BY <1>21, SMTT(120) DEF DeleteFile
<1>22. ASSUME NEW h \in Handlers, DeleteRow(h)
      PROVE  Undisturbed'
  BY <1>22, SMTT(120) DEF DeleteRow
<1>23. ASSUME NEW h \in Handlers, Disconnect(h)
      PROVE  Undisturbed'
  BY <1>23, VideoAssumption, SMTT(120) DEF Disconnect
<1>24. CASE RepairLocks
  BY <1>24, VideoAssumption, SMTT(120) DEF RepairLocks, Holding
<1>25. CASE SelectStale
  BY <1>25, SMTT(120) DEF SelectStale
<1>26. ASSUME NEW j \in Jobs, TimeOut(j)
      PROVE  Undisturbed'
  BY <1>26, SMTT(120) DEF TimeOut
<1>27. CASE SelectOrphans
  BY <1>27, SMTT(120) DEF SelectOrphans
<1>28. ASSUME NEW j \in Jobs, AdvanceOrphan(j)
      PROVE  Undisturbed'
  BY <1>28, SMTT(120) DEF AdvanceOrphan, StartPoll
<1>29. CASE SweepDone
  BY <1>29, SMTT(120) DEF SweepDone
<1>30. ASSUME NEW j \in Jobs, GrowOlder(j)
      PROVE  Undisturbed'
  BY <1>30, SMTT(120) DEF GrowOlder, TwoHours
<1>31. ASSUME NEW j \in Jobs, StayIdle(j)
      PROVE  Undisturbed'
  BY <1>31, VideoAssumption, SMTT(120) DEF StayIdle, TenMinutes, Never, Holding
<1>32. CASE Crash
  BY <1>32, SMTT(120) DEF Crash
<1>33. CASE UNCHANGED vars
  BY <1>33 DEF vars, row, clock, money, rest, locals, control, luck
<1> HIDE DEF Undisturbed
<1> QED
  BY <1>1, <1>2, <1>3, <1>4, <1>5, <1>6, <1>7, <1>8, <1>9, <1>10, <1>11,
     <1>12, <1>13, <1>14, <1>15, <1>16, <1>17, <1>18, <1>19, <1>20, <1>21,
     <1>22, <1>23, <1>24, <1>25, <1>26, <1>27, <1>28, <1>29, <1>30, <1>31,
     <1>32, <1>33, Zenon
  DEF Next, Request, HandlerStep, CreateStep, SweeperStep, SweepStep,
      RefundStep, PollStep, Actors

LEMMA UndisturbedInvariance ==
    ASSUME PollLimit < FiveMinutes, "db" \notin Faults
    PROVE  Spec => []Undisturbed
<1> QED BY UndisturbedInit, UndisturbedNext, LockInvariance, Invariance, PTL DEF Spec

Creator(a) == role[a] = "create"
Failing == {"markFailed", "flag", "grant"}

(* Who still works towards a clip, or towards a refund, works on a job     *)
(* that was never delivered: pollers because they hold the lock, creators  *)
(* because nobody can poll before an upstream id is recorded.              *)
Deliveries ==
    /\ \A j \in Jobs : j \in delivered =>
          status[j] \in {"completed", "deleted"} /\ upstream[j]
    /\ \A j \in Jobs : status[j] \in {"none", "requested"} => ~upstream[j]
    /\ \A a \in Actors : pc[a] = "idle" => role[a] = "none"
    /\ \A a \in Actors : Creator(a) =>
         /\ ~upstream[tgt[a]] /\ status[tgt[a]] # "none"
         /\ pc[a] \in CreateSteps \cup RefundSteps
         /\ \A b \in Actors : Creator(b) /\ tgt[b] = tgt[a] => b = a
    /\ \A a \in Actors : pc[a] = "markFailed" => role[a] \in {"create", "poll"}
    /\ \A a \in Actors : pc[a] \in Asking => upstream[tgt[a]]
    /\ \A a \in Actors : pc[a] \in Asking \cup Failing => tgt[a] \notin delivered

LEMMA DeliveriesInit == Init => Deliveries
BY SMTT(30) DEF Init, Deliveries, Creator, Asking, Failing, Actors

LEMMA DeliveriesNext ==
    ASSUME IInv, LockHeld, Undisturbed, RefundsFollowFailure, Deliveries,
           "db" \notin Faults, [Next]_vars
    PROVE  Deliveries'
<1> USE DEF IInv, TypeOK, Creating, Resting, SweepSteps, RowStatus, Live,
        Terminal, HasRow, Price, Status, Steps, CreateSteps, RefundSteps,
        PollSteps, Actors, Goto, Enter, Mishap, DbFails,
        RefundFails, StoreFails, Remove, Fine, luck, row, clock,
        money, rest, locals, control, Ages, Never, Now
<1> USE DEF Deliveries, Undisturbed, Asking, Failing, Creator, Polling, LockHeld, RefundsFollowFailure,
            AfterFailure, Amounts, Ownership, Granting
<1>1. ASSUME NEW h \in Handlers, NEW j \in Jobs, Deduct(h, j)
      PROVE  Deliveries'
  BY <1>1, SMTT(120) DEF Deduct
<1>2. ASSUME NEW h \in Handlers, NEW j \in Jobs, RequestCustom(h, j)
      PROVE  Deliveries'
  BY <1>2, SMTT(120) DEF RequestCustom
<1>3. ASSUME NEW h \in Handlers, NEW j \in Jobs, GetJob(h, j)
      PROVE  Deliveries'
  BY <1>3, SMTT(120) DEF GetJob, StartPoll
<1>4. ASSUME NEW h \in Handlers, NEW j \in Jobs, StartDelete(h, j)
      PROVE  Deliveries'
  BY <1>4, SMTT(120) DEF StartDelete
<1>5. ASSUME NEW h \in Handlers, ChooseChannel(h)
      PROVE  Deliveries'
  BY <1>5, SMTT(120) DEF ChooseChannel
<1>6. ASSUME NEW h \in Handlers, GiveBack(h)
      PROVE  Deliveries'
  BY <1>6, SMTT(120) DEF GiveBack
<1>7. ASSUME NEW h \in Handlers, InsertJob(h)
      PROVE  Deliveries'
  BY <1>7, SMTT(120) DEF InsertJob
<1>8. ASSUME NEW h \in Handlers, PostUpstream(h)
      PROVE  Deliveries'
  BY <1>8, SMTT(120) DEF PostUpstream
<1>9. ASSUME NEW h \in Handlers, RecordUpstream(h)
      PROVE  Deliveries'
  BY <1>9, SMTT(120) DEF RecordUpstream
<1>10. ASSUME NEW a \in Actors, MarkJobFailed(a)
      PROVE  Deliveries'
  BY <1>10, SMTT(120) DEF MarkJobFailed
<1>11. ASSUME NEW a \in Actors, FlagRefund(a)
      PROVE  Deliveries'
  BY <1>11, SMTT(120) DEF FlagRefund, AfterRefund
<1>12. ASSUME NEW a \in Actors, GrantRefund(a)
      PROVE  Deliveries'
  BY <1>12, SMTT(120) DEF GrantRefund, AfterRefund
<1>13. ASSUME NEW a \in Actors, LockPoll(a)
      PROVE  Deliveries'
  BY <1>13, SMTT(120) DEF LockPoll, AfterPoll, ThreeSeconds
<1>14. ASSUME NEW a \in Actors, RefetchJob(a)
      PROVE  Deliveries'
  BY <1>14, SMTT(120) DEF RefetchJob
<1>15. ASSUME NEW a \in Actors, AskUpstream(a)
      PROVE  Deliveries'
  BY <1>15, SMTT(120) DEF AskUpstream
<1>16. ASSUME NEW a \in Actors, Download(a)
      PROVE  Deliveries'
  BY <1>16, SMTT(120) DEF Download
<1>17. ASSUME NEW a \in Actors, CompleteJob(a)
      PROVE  Deliveries'
  BY <1>17, SMTT(120) DEF CompleteJob
<1>18. ASSUME NEW a \in Actors, DiscardFile(a)
      PROVE  Deliveries'
  BY <1>18, SMTT(120) DEF DiscardFile
<1>19. ASSUME NEW a \in Actors, DownloadFailed(a)
      PROVE  Deliveries'
  BY <1>19, SMTT(120) DEF DownloadFailed
<1>20. ASSUME NEW a \in Actors, ReleaseLock(a)
      PROVE  Deliveries'
  BY <1>20, SMTT(120) DEF ReleaseLock, AfterPoll
<1>21. ASSUME NEW h \in Handlers, DeleteFile(h)
      PROVE  Deliveries'
  BY <1>21, SMTT(120) DEF DeleteFile
<1>22. ASSUME NEW h \in Handlers, DeleteRow(h)
      PROVE  Deliveries'
  BY <1>22, SMTT(120) DEF DeleteRow
<1>23. ASSUME NEW h \in Handlers, Disconnect(h)
      PROVE  Deliveries'
  BY <1>23, SMTT(120) DEF Disconnect
<1>24. CASE RepairLocks
  BY <1>24, SMTT(120) DEF RepairLocks
<1>25. CASE SelectStale
  BY <1>25, SMTT(120) DEF SelectStale
<1>26. ASSUME NEW j \in Jobs, TimeOut(j)
      PROVE  Deliveries'
  BY <1>26, SMTT(120) DEF TimeOut
<1>27. CASE SelectOrphans
  BY <1>27, SMTT(120) DEF SelectOrphans
<1>28. ASSUME NEW j \in Jobs, AdvanceOrphan(j)
      PROVE  Deliveries'
  BY <1>28, SMTT(120) DEF AdvanceOrphan, StartPoll
<1>29. CASE SweepDone
  BY <1>29, SMTT(120) DEF SweepDone
<1>30. ASSUME NEW j \in Jobs, GrowOlder(j)
      PROVE  Deliveries'
  BY <1>30, SMTT(120) DEF GrowOlder, TwoHours
<1>31. ASSUME NEW j \in Jobs, StayIdle(j)
      PROVE  Deliveries'
  BY <1>31, SMTT(120) DEF StayIdle, TenMinutes, Never, Holding
<1>32. CASE Crash
  BY <1>32, SMTT(120) DEF Crash
<1>33. CASE UNCHANGED vars
  BY <1>33 DEF vars, row, clock, money, rest, locals, control, luck
<1> HIDE DEF Deliveries
<1> QED
  BY <1>1, <1>2, <1>3, <1>4, <1>5, <1>6, <1>7, <1>8, <1>9, <1>10, <1>11,
     <1>12, <1>13, <1>14, <1>15, <1>16, <1>17, <1>18, <1>19, <1>20, <1>21,
     <1>22, <1>23, <1>24, <1>25, <1>26, <1>27, <1>28, <1>29, <1>30, <1>31,
     <1>32, <1>33, Zenon
  DEF Next, Request, HandlerStep, CreateStep, SweeperStep, SweepStep,
      RefundStep, PollStep, Actors

LEMMA StageOf ==
    ASSUME NEW j \in Jobs
    PROVE  /\ charged[j] = 0 => stage[j] = "unpaid"
           /\ charged[j] # 0 /\ credited[j] = 0 /\ j \notin delivered => stage[j] = "held"
           /\ charged[j] # 0 /\ credited[j] = 0 /\ j \in delivered => stage[j] = "delivered"
           /\ charged[j] # 0 /\ credited[j] # 0 /\ j \notin delivered => stage[j] = "refunded"
BY DEF stage

LEMMA StageKept ==
    ASSUME UNCHANGED <<charged, credited, delivered>>
    PROVE  stage' = stage
BY DEF stage

LEMMA OneMove ==
    ASSUME NEW j \in Jobs, NEW from, NEW to, stage[j] = from, stage'[j] = to,
           \A k \in Jobs \ {j} : /\ charged'[k] = charged[k]
                                 /\ credited'[k] = credited[k]
                                 /\ k \in delivered' <=> k \in delivered
    PROVE  EscrowOf!Move(j, from, to)
<1>1. \A k \in Jobs \ {j} : stage'[k] = stage[k]
  BY DEF stage
<1>2. stage = [k \in Jobs |-> stage[k]] /\ stage' = [k \in Jobs |-> stage'[k]]
  BY DEF stage
<1> HIDE DEF stage
<1> QED BY <1>1, <1>2 DEF EscrowOf!Move

LEMMA GivingBackMoves ==
    ASSUME IInv, NEW j \in Jobs, j \notin delivered, credited[j] = 0,
           charged[j] = Price(j), UNCHANGED <<charged, delivered>>,
           credited' = [credited EXCEPT ![j] = @ + Price(j)]
    PROVE  [EscrowOf!Next]_stage
<1>0. charged \in [Jobs -> Nat] /\ credited \in [Jobs -> Nat]
  BY DEF IInv, TypeOK
<1>1. CASE Price(j) = 0
  <2>1. credited' = credited
    BY <1>0, <1>1
  <2> QED BY <2>1, StageKept
<1>2. CASE Price(j) # 0
  <2>1. stage[j] = "held"
    BY <1>2, StageOf
  <2>2. credited'[j] > 0
    BY <1>0, <1>2
  <2>3. stage'[j] = "refunded"
    BY <1>2, <2>2 DEF stage
  <2>4. EscrowOf!Move(j, "held", "refunded")
    BY <1>0, <2>1, <2>3, OneMove
  <2> QED BY <2>4 DEF EscrowOf!Next, EscrowOf!Refund
<1> QED BY <1>1, <1>2

LEMMA EscrowStep ==
    ASSUME IInv, LockHeld, Undisturbed, RefundsFollowFailure, Deliveries, [Next]_vars
    PROVE  [EscrowOf!Next]_stage
<1>0. charged \in [Jobs -> Nat] /\ credited \in [Jobs -> Nat] /\ tgt \in [Actors -> Jobs]
  BY DEF IInv, TypeOK
<1>1. CASE UNCHANGED <<charged, credited, delivered>>
  BY <1>1, StageKept
<1>2. ASSUME NEW h \in Handlers, NEW j \in Jobs, Deduct(h, j)
      PROVE  [EscrowOf!Next]_stage
  <2>1. charged[j] = 0 /\ credited[j] = 0 /\ j \notin delivered
    BY <1>2 DEF IInv, Amounts, Deduct, Deliveries
  <2>2. stage[j] = "unpaid"
    BY <2>1, StageOf
  <2>3. charged'[j] = Cost /\ credited' = credited /\ delivered' = delivered
    BY <1>0, <1>2 DEF Deduct, rest
  <2>4. stage'[j] = "held"
    BY <2>1, <2>3, VideoAssumption DEF stage
  <2>5. EscrowOf!Move(j, "unpaid", "held")
    BY <1>0, <1>2, <2>2, <2>3, <2>4, OneMove DEF Deduct
  <2> QED BY <2>5 DEF EscrowOf!Next, EscrowOf!Pay
<1>3. ASSUME NEW h \in Handlers, GiveBack(h)
      PROVE  [EscrowOf!Next]_stage
  <2>1. /\ tgt[h] \in Jobs /\ tgt[h] \notin delivered
        /\ credited[tgt[h]] = 0 /\ charged[tgt[h]] = Price(tgt[h])
    BY <1>0, <1>3 DEF IInv, Amounts, Ownership, Creating, GiveBack, Actors, Deliveries
  <2> QED BY <1>3, <2>1, GivingBackMoves, StageKept DEF GiveBack, rest
<1>4. ASSUME NEW a \in Actors, GrantRefund(a)
      PROVE  [EscrowOf!Next]_stage
  <2>1. /\ tgt[a] \in Jobs /\ tgt[a] \notin delivered
        /\ credited[tgt[a]] = 0 /\ charged[tgt[a]] = Price(tgt[a])
    BY <1>0, <1>4 DEF IInv, Amounts, Ownership, Granting, Creating, Resting,
       SweepSteps, GrantRefund, Deliveries, Failing
  <2> QED BY <1>4, <2>1, GivingBackMoves, StageKept DEF GrantRefund, rest
<1>5. ASSUME NEW a \in Actors, CompleteJob(a)
      PROVE  [EscrowOf!Next]_stage
  <2> DEFINE j == tgt[a]
  <2>1. j \in Jobs /\ j \notin delivered
    BY <1>0, <1>5 DEF CompleteJob, Deliveries, Asking
  <2>2. CASE delivered' = delivered
    BY <1>5, <2>2, StageKept DEF CompleteJob, money
  <2>3. CASE delivered' = delivered \cup {j} /\ HasRow(j) /\ status[j] # "failed"
    <3>1. credited[j] = 0
      BY <2>1, <2>3 DEF IInv, Granting, Undisturbed, RefundsFollowFailure, AfterFailure, HasRow, RowStatus, Live, Terminal
    <3>2. UNCHANGED <<charged, credited>>
      BY <1>5 DEF CompleteJob, money
    <3>3. CASE charged[j] = 0
      <4>1. stage' = stage
        BY <2>1, <2>3, <3>2, <3>3 DEF stage
      <4> QED BY <4>1
    <3>4. CASE charged[j] # 0
      <4>1. stage[j] = "held"
        BY <2>1, <3>1, <3>4, StageOf
      <4>2. stage'[j] = "delivered"
        BY <2>1, <2>3, <3>1, <3>2, <3>4 DEF stage
      <4>3. EscrowOf!Move(j, "held", "delivered")
        BY <2>1, <2>3, <3>2, <4>1, <4>2, OneMove
      <4> QED BY <2>1, <4>3 DEF EscrowOf!Next, EscrowOf!Deliver
    <3> QED BY <3>3, <3>4
  <2> QED BY <1>5, <2>2, <2>3 DEF CompleteJob
<1>6. \/ UNCHANGED <<charged, credited, delivered>>
      \/ \E h \in Handlers, j \in Jobs : Deduct(h, j)
      \/ \E h \in Handlers : GiveBack(h)
      \/ \E a \in Actors : GrantRefund(a) \/ CompleteJob(a)
  BY ZenonT(60) DEF Next, Request, HandlerStep, CreateStep, SweeperStep, SweepStep,
     RefundStep, PollStep, RequestCustom, GetJob, StartDelete, ChooseChannel,
     InsertJob, PostUpstream, RecordUpstream, MarkJobFailed, FlagRefund,
     LockPoll, RefetchJob, AskUpstream, Download, DiscardFile,
     DownloadFailed, ReleaseLock, DeleteFile, DeleteRow, Disconnect,
     RepairLocks, SelectStale, TimeOut, SelectOrphans, AdvanceOrphan,
     SweepDone, GrowOlder, StayIdle, Crash, vars, Actors, money, rest
<1> QED BY <1>1, <1>2, <1>3, <1>4, <1>5, <1>6

(* Every step of a video job is a step of the escrow or leaves it alone: a *)
(* payment is held, then earned by a clip or given back, and neither is    *)
(* undone; across disconnects and restarts, as long as statements do not   *)
(* fail and no poll outlives its lock.                                     *)
THEOREM EscrowKept ==
    ASSUME PollLimit < FiveMinutes, "db" \notin Faults
    PROVE  Spec => ImplementsEscrow
<1>1. Init => EscrowOf!Init
  BY DEF Init, EscrowOf!Init, stage
<1>2. Spec => []LockHeld /\ []RefundsFollowFailure /\ []Undisturbed
  BY LockInvariance, RefundsInvariance, UndisturbedInvariance
<1>3. Spec => []Deliveries
  BY <1>2, DeliveriesInit, DeliveriesNext, Invariance, PTL DEF Spec
<1>4. IInv /\ LockHeld /\ Undisturbed /\ RefundsFollowFailure /\ Deliveries /\ [Next]_vars
        => [EscrowOf!Next]_stage
  BY EscrowStep
<1> QED
  BY <1>1, <1>2, <1>3, <1>4, Invariance, PTL
  DEF Spec, ImplementsEscrow, EscrowOf!Spec
=============================================================================
