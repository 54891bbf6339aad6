---------------------------- MODULE LedgerProofs ----------------------------
(***************************************************************************)
(* Money in and out of an account: how far a balance can be overdrawn,     *)
(* that balance and ledger agree, and that a trade is credited once, for   *)
(* any number of debits, orders and notifications.                         *)
(***************************************************************************)
EXTENDS Recharge, FiniteSetTheorems, WellFoundedInduction, TLAPS

-----------------------------------------------------------------------------
(* The account (Quota)                                                     *)

(* Tasks that no longer ask whether the account can pay: a chat that is    *)
(* streaming, and its settlement until the charge.                         *)
Admitted == {t \in Tasks : \/ pc[t] = "serving"
                           \/ op[t] = "settle" /\ pc[t] \in {"look", "charge"}}
Free == Tasks \ Admitted

(* What a task's amount is at each of its positions.                       *)
Amounts ==
    \A t \in Tasks :
        /\ pc[t] \notin {"idle", "look", "open", "bookSignup", "reread"} => opened
        /\ pc[t] = "serving" => op[t] = "chat"
        /\ pc[t] = "charge" => op[t] = "settle"
        /\ pc[t] = "deduct" => op[t] = "call"
        /\ pc[t] = "credit" => op[t] = "grant"
        /\ pc[t] = "overwrite" => op[t] = "set"
        /\ pc[t] = "generating" => op[t] = "call" /\ amt[t] <= 0
        /\ op[t] = "settle" =>
             /\ opened
             /\ pc[t] \in {"look", "charge", "book"}
             /\ pc[t] # "book" => amt[t] \in 1..MaxCost
        /\ op[t] = "call" /\ pc[t] \notin {"book", "generating"} => amt[t] >= 0
        /\ op[t] = "call" /\ pc[t] \in {"book", "generating"} => amt[t] <= 0
        /\ op[t] = "set" /\ pc[t] # "book" => amt[t] >= 0

(* The tasks that are not admitted have not drawn on the account yet: each *)
(* leaves room for one more request below zero, beside what admins took.   *)
RoomLeft == balance + debited > -MaxCost * Cardinality(Free)

Safe == Typed /\ UsageAccounted /\ Amounts
IInv == Flags /\ Safe /\ RoomLeft

LEMMA SafeInit == Init => Safe
<1> SUFFICES ASSUME Init PROVE Safe
  OBVIOUS
<1>1. Typed
  BY QuotaAssumption DEF Init, Typed, Steps, Operations
<1>2. UsageAccounted
  BY DEF Init, UsageAccounted
<1>3. Amounts
  BY DEF Init, Amounts
<1> QED BY <1>1, <1>2, <1>3 DEF Safe

LEMMA FlagsNext == ASSUME Flags, [Next]_quotaVars PROVE Flags'
BY Zenon DEF Next, Flags, Request, TaskStep, EnsureStep, MoneyStep, ServeStep,
   Look, OpenAccount, BookSignup, Reread, ServeForFree, DropStream, Charge,
   Deduct, Generate, Credit, Overwrite, Book, Disconnect, Crash, quotaVars,
   account, ghosts

-----------------------------------------------------------------------------
(* Typing, amounts and accounting, one action at a time                    *)

USE QuotaAssumption DEF Fine, DbFails, Mishap, Goto, Finish, Begin, Proceed,
    account, ledger, ghosts, tasks, bounds, Steps, Operations, Safe, Typed,
    UsageAccounted, Amounts

LEMMA SafeRequest == ASSUME Safe, NEW t \in Tasks, Request(t) PROVE Safe'
BY SMTT(60) DEF Request

LEMMA SafeLook == ASSUME Safe, NEW t \in Tasks, Look(t) PROVE Safe'
BY SMTT(60) DEF Look

LEMMA SafeOpen == ASSUME Safe, NEW t \in Tasks, OpenAccount(t) PROVE Safe'
<1>1. Typed'
  BY SMTT(60) DEF OpenAccount
<1>2. UsageAccounted'
  BY SMTT(60) DEF OpenAccount
<1>3. Amounts'
  BY SMTT(60) DEF OpenAccount
<1> QED BY ONLY <1>1, <1>2, <1>3 DEF Safe

LEMMA SafeBookSignup == ASSUME Safe, NEW t \in Tasks, BookSignup(t) PROVE Safe'
BY SMTT(60) DEF BookSignup

LEMMA SafeReread == ASSUME Safe, NEW t \in Tasks, Reread(t) PROVE Safe'
BY SMTT(60) DEF Reread

LEMMA SafeServeForFree == ASSUME Safe, NEW t \in Tasks, ServeForFree(t) PROVE Safe'
BY SMTT(60) DEF ServeForFree

LEMMA SafeDropStream == ASSUME Safe, NEW t \in Tasks, DropStream(t) PROVE Safe'
BY SMTT(60) DEF DropStream

LEMMA SafeCharge == ASSUME Safe, NEW t \in Tasks, Charge(t) PROVE Safe'
BY SMTT(60) DEF Charge

LEMMA SafeDeduct == ASSUME Safe, NEW t \in Tasks, Deduct(t) PROVE Safe'
<1>1. Typed'
  BY SMTT(60) DEF Deduct
<1>2. UsageAccounted'
  BY SMTT(60) DEF Deduct
<1>3. Amounts'
  BY SMTT(60) DEF Deduct
<1> QED BY ONLY <1>1, <1>2, <1>3 DEF Safe

LEMMA SafeGenerate == ASSUME Safe, NEW t \in Tasks, Generate(t) PROVE Safe'
BY SMTT(60) DEF Generate

LEMMA SafeCredit == ASSUME Safe, NEW t \in Tasks, Credit(t) PROVE Safe'
<1>1. Typed'
  <2>1. debited' \in Nat /\ balance' \in Int /\ granted' \in Int
    BY SMTT(60) DEF Credit, Below
  <2>2. /\ UNCHANGED <<booked, used, signups>> /\ pc' \in [Tasks -> Steps] /\ op' \in [Tasks -> Operations]
        /\ amt' \in [Tasks -> Int] /\ seen' \in [Tasks -> Int]
        /\ started' \in 0..MaxOps /\ mishaps' \in 0..MaxMishaps
    BY SMTT(60) DEF Credit
  <2> QED BY ONLY Typed, <2>1, <2>2 DEF Typed
<1>2. UsageAccounted'
  <2>1. UNCHANGED <<opened, used>> /\ opened
    BY DEF Credit
  <2>2. \/ balance' = balance + amt[t] /\ granted' = granted + amt[t]
        \/ UNCHANGED <<balance, granted>>
    BY DEF Credit
  <2>3. balance \in Int /\ used \in Nat /\ granted \in Int /\ amt[t] \in Int /\ SignupGrant \in Nat
    OBVIOUS
  <2>4. balance = SignupGrant + granted - used
    BY <2>1
  <2> QED BY ONLY <2>1, <2>2, <2>3, <2>4 DEF UsageAccounted
<1>3. Amounts'
  BY SMTT(60) DEF Credit
<1> QED BY ONLY <1>1, <1>2, <1>3 DEF Safe

LEMMA SafeOverwrite == ASSUME Safe, NEW t \in Tasks, Overwrite(t) PROVE Safe'
<1>1. Typed'
  BY SMTT(60) DEF Overwrite
<1>2. UsageAccounted'
  BY SMTT(60) DEF Overwrite
<1>3. Amounts'
  BY SMTT(60) DEF Overwrite
<1> QED BY ONLY <1>1, <1>2, <1>3 DEF Safe

LEMMA SafeBook == ASSUME Safe, NEW t \in Tasks, Book(t) PROVE Safe'
<1>1. Typed'
  BY SMTT(60) DEF Book
<1>2. UsageAccounted'
  BY SMTT(60) DEF Book
<1>3. Amounts'
  BY SMTT(60) DEF Book
<1> QED BY ONLY <1>1, <1>2, <1>3 DEF Safe

LEMMA SafeDisconnect == ASSUME Safe, NEW t \in Tasks, Disconnect(t) PROVE Safe'
BY SMTT(60) DEF Disconnect

LEMMA SafeCrash == ASSUME Safe, Crash PROVE Safe'
BY SMTT(60) DEF Crash

LEMMA SafeStutter == ASSUME Safe, UNCHANGED quotaVars PROVE Safe'
BY SMTT(60) DEF quotaVars

LEMMA SafeNext == ASSUME Safe, [Next]_quotaVars PROVE Safe'
<1> HIDE QuotaAssumption DEF Fine, DbFails, Mishap, Goto, Finish, Begin,
       Proceed, account, ledger, ghosts, tasks, bounds, Steps, Operations,
       Safe, Typed, UsageAccounted, Amounts
<1> QED BY SafeRequest, SafeLook, SafeOpen, SafeBookSignup, SafeReread,
       SafeServeForFree, SafeDropStream, SafeCharge, SafeDeduct, SafeGenerate,
       SafeCredit, SafeOverwrite, SafeBook, SafeDisconnect, SafeCrash,
       SafeStutter
    DEF Next, TaskStep, EnsureStep, MoneyStep, ServeStep

-----------------------------------------------------------------------------
(* The room left below zero                                                *)

LEMMA FreeFinite == IsFiniteSet(Free) /\ Cardinality(Free) \in Nat
<1>1. IsFiniteSet(Free)
  BY FS_Subset, QuotaAssumption DEF Free
<1> QED BY <1>1, FS_CardinalityType

LEMMA FreeFiniteNext == IsFiniteSet(Free') /\ Cardinality(Free') \in Nat
<1>1. IsFiniteSet(Free')
  BY FS_Subset, QuotaAssumption DEF Free
<1> QED BY <1>1, FS_CardinalityType

(* An account that is not in the red leaves room whoever is admitted, and  *)
(* one that has just been emptied does as long as somebody is free.        *)
LEMMA RoomAboveZero ==
    ASSUME balance' \in Int, balance' > 0, debited' \in Nat
    PROVE  RoomLeft'
BY FreeFiniteNext, QuotaAssumption DEF RoomLeft

LEMMA RoomAtZero ==
    ASSUME balance' \in Int, balance' >= 0, debited' \in Nat,
           NEW t \in Tasks, t \notin Admitted'
    PROVE  RoomLeft'
<1>1. t \in Free'
  BY DEF Free
<1>2. Free' # {}
  BY <1>1
<1>3. Cardinality(Free') > 0
  BY <1>2, FreeFiniteNext, FS_EmptySet
<1> QED BY <1>3, FreeFiniteNext, QuotaAssumption DEF RoomLeft

LEMMA StillAbove ==
    ASSUME NEW x \in Int, NEW y \in Int, NEW c \in Nat, NEW d \in Nat, y + d >= x + c,
           NEW a \in Int, NEW b \in Int, b <= a, x + c > a
    PROVE  y + d > b
OBVIOUS

LEMMA AboveZero ==
    ASSUME NEW y \in Int, NEW d \in Nat, y + d >= 0, NEW b \in Int, b < 0
    PROVE  y + d > b
OBVIOUS

(* Nobody is admitted, and nothing is taken but by an admin.               *)
LEMMA RoomKept ==
    ASSUME RoomLeft, balance \in Int, balance' \in Int, debited \in Nat, debited' \in Nat,
           balance' + debited' >= balance + debited,
           Admitted' \subseteq Admitted
    PROVE  RoomLeft'
<1>1. Free \subseteq Free'
  BY DEF Free
<1>2. Cardinality(Free) <= Cardinality(Free')
  BY <1>1, FreeFiniteNext, FS_Subset
<1> DEFINE a == -MaxCost * Cardinality(Free)
           b == -MaxCost * Cardinality(Free')
<1>3. b <= a /\ a \in Int /\ b \in Int
  BY ONLY <1>2, FreeFinite, FreeFiniteNext, QuotaAssumption
<1>4. balance + debited > a
  BY ONLY RoomLeft DEF RoomLeft
<1> HIDE DEF a, b
<1>5. balance' + debited' > b
  BY ONLY <1>3, <1>4, StillAbove, balance \in Int, balance' \in Int, debited \in Nat, debited' \in Nat,
     balance' + debited' >= balance + debited
<1> QED BY ONLY <1>5 DEF RoomLeft, b

(* One admitted chat is charged, and its task is free again.               *)
LEMMA RoomCharged ==
    ASSUME RoomLeft, balance \in Int, balance' \in Int,
           balance' >= balance - MaxCost, debited \in Nat, debited' = debited,
           NEW t \in Admitted, Admitted' = Admitted \ {t}
    PROVE  RoomLeft'
<1>1. t \in Tasks /\ t \notin Free /\ Free' = Free \cup {t}
  BY DEF Free, Admitted
<1>2. Cardinality(Free') = Cardinality(Free) + 1
  BY <1>1, FreeFinite, FS_AddElement
<1>3. MaxCost * Cardinality(Free') = MaxCost * Cardinality(Free) + MaxCost
  BY <1>2, FreeFinite, QuotaAssumption
<1> QED BY <1>3, FreeFinite, FreeFiniteNext, QuotaAssumption DEF RoomLeft

-----------------------------------------------------------------------------
(* What each action does to the room                                       *)

LEMMA RoomEnsure ==
    ASSUME Safe, RoomLeft, NEW t \in Tasks, Look(t) \/ Reread(t)
    PROVE  RoomLeft'
<1>1. balance' = balance /\ debited' = debited
  BY DEF Look, Reread
<1>2. balance > 0 \/ Admitted' \subseteq Admitted
  BY SMTT(60) DEF Look, Reread, Admitted
<1> HIDE DEF Safe, Amounts, UsageAccounted
<1>3. balance \in Int /\ debited \in Nat
  BY DEF Safe
<1> QED BY <1>1, <1>2, <1>3, RoomAboveZero, RoomKept

LEMMA RoomOpen ==
    ASSUME Safe, RoomLeft, NEW t \in Tasks, OpenAccount(t)
    PROVE  RoomLeft'
<1>0. debited \in Nat /\ debited' = debited
  BY DEF OpenAccount
<1>1. CASE balance' = SignupGrant
  <2>1. t \notin Admitted'
    BY SMTT(60) DEF OpenAccount, Admitted
  <2> QED BY <1>0, <1>1, <2>1, RoomAtZero
<1>2. CASE balance' = balance
  <2>1. Admitted' \subseteq Admitted
    BY SMTT(60) DEF OpenAccount, Admitted
  <2> QED BY <1>0, <1>2, <2>1, RoomKept
<1> QED BY <1>1, <1>2 DEF OpenAccount

LEMMA RoomCharge ==
    ASSUME Safe, RoomLeft, NEW t \in Tasks, Charge(t)
    PROVE  RoomLeft'
<1>1. t \in Admitted
  BY DEF Charge, Admitted
<1>2. Admitted' = Admitted \ {t}
  BY SMTT(60) DEF Charge, Admitted
<1>3. balance' \in Int /\ balance' >= balance - MaxCost /\ debited \in Nat /\ debited' = debited
  BY SMTT(60) DEF Charge
<1> QED BY <1>1, <1>2, <1>3, RoomCharged

LEMMA RoomDeduct ==
    ASSUME Safe, RoomLeft, NEW t \in Tasks, Deduct(t)
    PROVE  RoomLeft'
<1>1. t \notin Admitted' /\ Admitted' \subseteq Admitted
  BY SMTT(60) DEF Deduct, Admitted
<1>2. /\ balance \in Int /\ balance' \in Int /\ debited \in Nat /\ debited' = debited
      /\ balance' >= 0 \/ balance' = balance
  BY SMTT(60) DEF Deduct
<1>3. CASE balance' >= 0
  BY ONLY <1>1, <1>2, <1>3, RoomAtZero
<1>4. CASE balance' = balance /\ debited' = debited
  <2>1. balance' + debited' >= balance + debited
    BY ONLY <1>2, <1>4
  <2> QED BY ONLY RoomLeft, <1>1, <1>2, <2>1, RoomKept
<1> QED BY ONLY <1>2, <1>3, <1>4

LEMMA RoomCredit ==
    ASSUME Safe, RoomLeft, NEW t \in Tasks, Credit(t)
    PROVE  RoomLeft'
<1>1. t \notin Admitted' /\ Admitted' \subseteq Admitted
  BY SMTT(60) DEF Credit, Admitted
<1>2. /\ balance' \in Int /\ debited \in Nat /\ debited' \in Nat
      /\ \/ balance' + debited' >= balance + debited
         \/ balance' >= 0
         \/ balance' + debited' >= 0
  BY SMTT(60) DEF Credit, Below
<1>3. CASE balance' + debited' >= balance + debited
  BY <1>1, <1>2, <1>3, RoomKept
<1>4. CASE balance' >= 0
  BY <1>1, <1>2, <1>4, RoomAtZero
(* A delta below zero is the admin's own; the task that asked is still free. *)
<1>5. CASE balance' + debited' >= 0
  <2>1. Free' # {}
    BY <1>1 DEF Free
  <2>2. Cardinality(Free') > 0
    BY <2>1, FreeFiniteNext, FS_EmptySet
  <2> DEFINE b == -MaxCost * Cardinality(Free')
  <2>3. b < 0 /\ b \in Int
    BY ONLY <2>2, FreeFiniteNext, QuotaAssumption
  <2> HIDE DEF b
  <2>4. balance' + debited' > b
    BY ONLY <1>2, <1>5, <2>3, AboveZero
  <2> QED BY ONLY <2>4 DEF RoomLeft, b
<1> QED BY <1>2, <1>3, <1>4, <1>5

LEMMA RoomOverwrite ==
    ASSUME Safe, RoomLeft, NEW t \in Tasks, Overwrite(t)
    PROVE  RoomLeft'
<1>1. t \notin Admitted' /\ Admitted' \subseteq Admitted
  BY SMTT(60) DEF Overwrite, Admitted
<1>2. /\ balance \in Int /\ balance' \in Int /\ debited \in Nat /\ debited' \in Nat
      /\ balance' >= 0 \/ (balance' = balance /\ debited' = debited)
  BY SMTT(60) DEF Overwrite
<1>3. CASE balance' >= 0
  BY ONLY <1>1, <1>2, <1>3, RoomAtZero
<1>4. CASE balance' = balance /\ debited' = debited
  <2>1. balance' + debited' >= balance + debited
    BY ONLY <1>2, <1>4
  <2> QED BY ONLY RoomLeft, <1>1, <1>2, <2>1, RoomKept
<1> QED BY ONLY <1>2, <1>3, <1>4

LEMMA RoomOthers ==
    ASSUME Safe, RoomLeft,
           \/ \E t \in Tasks : \/ Request(t) \/ BookSignup(t) \/ ServeForFree(t)
                               \/ DropStream(t) \/ Generate(t) \/ Book(t)
                               \/ Disconnect(t)
           \/ Crash
           \/ UNCHANGED quotaVars
    PROVE  RoomLeft'
<1>1. balance' = balance /\ debited' = debited /\ debited \in Nat
  BY DEF Request, BookSignup, ServeForFree, DropStream, Generate, Book,
         Disconnect, Crash, quotaVars
<1>2. Admitted' \subseteq Admitted
  BY SMTT(60) DEF Request, BookSignup, ServeForFree, DropStream, Generate,
         Book, Disconnect, Crash, quotaVars, Admitted
<1> QED BY <1>1, <1>2, RoomKept

LEMMA RoomNext == ASSUME Safe, RoomLeft, [Next]_quotaVars PROVE RoomLeft'
<1> HIDE QuotaAssumption DEF Fine, DbFails, Mishap, Goto, Finish, Begin,
       Proceed, account, ledger, ghosts, tasks, bounds, Steps, Operations,
       Safe, Typed, UsageAccounted, Amounts
<1> QED BY RoomEnsure, RoomOpen, RoomCharge, RoomDeduct, RoomCredit,
       RoomOverwrite, RoomOthers
    DEF Next, TaskStep, EnsureStep, MoneyStep, ServeStep

-----------------------------------------------------------------------------
LEMMA RoomInit == Init => RoomLeft
<1> SUFFICES ASSUME Init PROVE RoomLeft
  OBVIOUS
<1>1. Free = Tasks
  BY DEF Init, Free, Admitted
<1>2. Cardinality(Free) > 0
  BY <1>1, FreeFinite, FS_EmptySet, QuotaAssumption
<1>3. balance = 0 /\ debited = 0
  BY DEF Init
<1> QED BY <1>2, <1>3, FreeFinite, QuotaAssumption DEF RoomLeft

(* The inductive invariant holds in every reachable state.                 *)
THEOREM Invariance == Spec => []IInv
<1>1. Init => IInv
  BY SafeInit, RoomInit DEF Init, Flags, IInv
<1>2. IInv /\ [Next]_quotaVars => IInv'
  BY FlagsNext, SafeNext, RoomNext DEF IInv
<1> QED BY <1>1, <1>2, PTL DEF Spec

(* Every variable keeps its type, however many tasks run and fail.         *)
THEOREM TypeCorrect == Spec => []TypeOK
<1>1. IInv => TypeOK
  BY DEF IInv, TypeOK
<1> QED BY <1>1, Invariance, PTL

(* A balance never falls below zero by more than one request per task that *)
(* may run at the same time, whatever the chats, their settlements, the    *)
(* prepaid generations, refunds, top-ups and overwrites do in between, and *)
(* what admins took below zero with deltas of their own.                   *)
THEOREM Overdraft == Spec => []OverdraftBounded
<1>1. IInv => OverdraftBounded
  <2> SUFFICES ASSUME IInv PROVE OverdraftBounded
    OBVIOUS
  <2>1. Cardinality(Free) <= Cardinality(Tasks) /\ Cardinality(Tasks) \in Nat
    BY FS_Subset, FS_CardinalityType, QuotaAssumption DEF Free
  <2>2. MaxCost * Cardinality(Free) <= MaxCost * Cardinality(Tasks)
    BY <2>1, FreeFinite, QuotaAssumption
  <2>3. balance \in Int /\ debited \in Nat /\ RoomLeft
    BY DEF IInv, Safe, Typed
  <2> QED BY <2>1, <2>2, <2>3, FreeFinite, QuotaAssumption
          DEF RoomLeft, OverdraftBounded
<1> QED BY <1>1, Invariance, PTL

(* The balance is always the signup grant and what was granted since, less *)
(* what was used: no race, error or crash moves money.                     *)
THEOREM NothingLost == Spec => []UsageAccounted
<1>1. IInv => UsageAccounted
  BY DEF IInv, Safe
<1> QED BY <1>1, Invariance, PTL

-----------------------------------------------------------------------------
(* The books: what is on its way to the ledger, summed over the tasks      *)

(* A family of subsets of a finite set that has the empty set and is       *)
(* closed under one more element has the whole set.                        *)
LEMMA SetInduction ==
    ASSUME NEW S, IsFiniteSet(S), NEW F, {} \in F,
           \A T \in SUBSET S : \A x \in S \ T : T \in F => T \cup {x} \in F
    PROVE  S \in F
<1> DEFINE Bad == {T \in SUBSET S : T \notin F}
<1> SUFFICES ASSUME Bad # {} PROVE FALSE
  OBVIOUS
<1>1. IsWellFoundedOn(StrictSubsetOrdering(S), FiniteSubsetsOf(S))
  BY FS_StrictSubsetOrderingWellFounded
<1>2. FiniteSubsetsOf(S) = SUBSET S
  BY FS_FiniteSubsetsOfFinite
<1>3. Bad \subseteq FiniteSubsetsOf(S)
  BY <1>2
<1>4. PICK U \in Bad : \A V \in Bad : ~ (<<V, U>> \in StrictSubsetOrdering(S))
  <2> HIDE DEF Bad
  <2> QED
    BY <1>1, <1>3, WFMin
<1>5. PICK x \in U : TRUE
  OBVIOUS
<1>6. U \ {x} \in SUBSET S /\ U \ {x} \notin Bad
  BY <1>4 DEF StrictSubsetOrdering
<1>7. U \ {x} \in F /\ x \in S \ (U \ {x}) /\ (U \ {x}) \cup {x} = U
  BY <1>6
<1> QED
  BY <1>6, <1>7

(* What a task has moved and not yet written down, and a sum of it over    *)
(* sets of tasks.                                                          *)
Due(t) == IF pc[t] = "book" THEN amt[t] ELSE 0
Adds(s) ==
    /\ s \in [SUBSET Tasks -> Int] /\ s[{}] = 0
    /\ \A S \in SUBSET Tasks : \A t \in Tasks \ S : s[S \cup {t}] = s[S] + Due(t)

(* What the ledger lacks of what the balance and the signup rows say.      *)
Missing == (IF opened THEN balance - SignupGrant ELSE 0) + SignupGrant * signups - booked
Undisturbed == mishaps = 0 /\ ~overwritten
Books == Undisturbed => \E s : Adds(s) /\ s[Tasks] = Missing

(* A sum follows when one task's share changes.                            *)
LEMMA OneMoves ==
    ASSUME NEW s, Adds(s), NEW t \in Tasks, NEW d \in Int,
           \A u \in Tasks : Due(u) \in Int,
           Due(t)' = Due(t) + d,
           \A u \in Tasks \ {t} : Due(u)' = Due(u)
    PROVE  \E r : Adds(r)' /\ r[Tasks] = s[Tasks] + d
<1> HIDE DEF Safe, Typed, Amounts
<1> DEFINE r == [S \in SUBSET Tasks |-> s[S] + IF t \in S THEN d ELSE 0]
<1>1. r \in [SUBSET Tasks -> Int] /\ r[{}] = 0 /\ r[Tasks] = s[Tasks] + d
  BY DEF Adds
<1>2. ASSUME NEW S \in SUBSET Tasks, NEW u \in Tasks \ S
      PROVE  r[S \cup {u}] = r[S] + Due(u)'
  <2>1. S \cup {u} \in SUBSET Tasks /\ s[S \cup {u}] = s[S] + Due(u) /\ s[S] \in Int /\ Due(u) \in Int
    BY DEF Adds
  <2>2. CASE u = t
    <3>1. r[S \cup {u}] = s[S \cup {u}] + d /\ r[S] = s[S]
      BY <2>1, <2>2, <1>2
    <3>2. Due(u)' = Due(u) + d
      BY <2>2
    <3> HIDE DEF r, Due
    <3> QED BY <2>1, <3>1, <3>2
  <2>3. CASE u # t
    <3>1. Due(u)' = Due(u)
      BY <2>3
    <3>2. CASE t \in S
      <4>1. r[S \cup {u}] = s[S \cup {u}] + d /\ r[S] = s[S] + d
        BY <2>1, <3>2
      <4> HIDE DEF r, Due
      <4> QED BY <2>1, <3>1, <4>1
    <3>3. CASE t \notin S
      <4>1. r[S \cup {u}] = s[S \cup {u}] /\ r[S] = s[S]
        BY <2>1, <2>3, <3>3
      <4> HIDE DEF r, Due
      <4> QED BY <2>1, <3>1, <4>1
    <3> QED BY <3>2, <3>3
  <2> QED BY <2>2, <2>3
<1> HIDE DEF r
<1>3. Adds(r)'
  BY <1>1, <1>2 DEF Adds
<1> QED BY <1>1, <1>3

(* With nothing on its way there is nothing to add.                        *)
LEMMA NothingDue ==
    ASSUME NEW s, Adds(s), \A t \in Tasks : Due(t) = 0
    PROVE  s[Tasks] = 0
<1> HIDE DEF Safe, Typed, Amounts
<1> DEFINE F == {S \in SUBSET Tasks : s[S] = 0}
<1>1. {} \in F
  BY DEF Adds
<1>2. ASSUME NEW S \in SUBSET Tasks, NEW t \in Tasks \ S, S \in F
      PROVE  S \cup {t} \in F
  BY <1>2 DEF Adds
<1> HIDE DEF F
<1>3. Tasks \in F
  BY <1>1, <1>2, SetInduction, QuotaAssumption
<1> QED BY <1>3 DEF F

-----------------------------------------------------------------------------
(* What a step moves it owes to the ledger: what a task is about to write  *)
(* changes by what the balance has moved and the ledger has not.           *)
Owes(t) ==
    Undisturbed' =>
        /\ Undisturbed
        /\ Missing' - Missing = Due(t)' - Due(t)
        /\ \A u \in Tasks \ {t} : Due(u)' = Due(u)

LEMMA OwesRequest == ASSUME Safe, NEW t \in Tasks, Request(t) PROVE Owes(t)
BY SMTT(60) DEF Request, Owes, Undisturbed, Missing, Due

LEMMA OwesLook == ASSUME Safe, NEW t \in Tasks, Look(t) PROVE Owes(t)
BY SMTT(60) DEF Look, Owes, Undisturbed, Missing, Due

LEMMA OwesOpenAccount == ASSUME Safe, NEW t \in Tasks, OpenAccount(t) PROVE Owes(t)
BY SMTT(60) DEF OpenAccount, Owes, Undisturbed, Missing, Due

LEMMA OwesBookSignup == ASSUME Safe, NEW t \in Tasks, BookSignup(t) PROVE Owes(t)
BY SMTT(60) DEF BookSignup, Owes, Undisturbed, Missing, Due

LEMMA OwesReread == ASSUME Safe, NEW t \in Tasks, Reread(t) PROVE Owes(t)
BY SMTT(60) DEF Reread, Owes, Undisturbed, Missing, Due

LEMMA OwesServeForFree == ASSUME Safe, NEW t \in Tasks, ServeForFree(t) PROVE Owes(t)
BY SMTT(60) DEF ServeForFree, Owes, Undisturbed, Missing, Due

LEMMA OwesDropStream == ASSUME Safe, NEW t \in Tasks, DropStream(t) PROVE Owes(t)
BY SMTT(60) DEF DropStream, Owes, Undisturbed, Missing, Due

LEMMA OwesCharge == ASSUME Safe, NEW t \in Tasks, Charge(t) PROVE Owes(t)
BY SMTT(60) DEF Charge, Owes, Undisturbed, Missing, Due

LEMMA OwesDeduct == ASSUME Safe, NEW t \in Tasks, Deduct(t) PROVE Owes(t)
BY SMTT(60) DEF Deduct, Owes, Undisturbed, Missing, Due

LEMMA OwesGenerate == ASSUME Safe, NEW t \in Tasks, Generate(t) PROVE Owes(t)
BY SMTT(60) DEF Generate, Owes, Undisturbed, Missing, Due

LEMMA OwesCredit == ASSUME Safe, NEW t \in Tasks, Credit(t) PROVE Owes(t)
<1>1. \/ mishaps' = mishaps + 1 /\ mishaps \in Nat
      \/ /\ balance' = balance + amt[t] /\ pc' = [pc EXCEPT ![t] = "book"]
         /\ UNCHANGED <<bounds, op, amt, seen>>
  BY DEF Credit
<1>2. UNCHANGED <<opened, used, ledger, overwritten>>
  BY DEF Credit
<1>3. pc[t] = "credit" /\ opened
  BY DEF Credit
<1> QED BY <1>1, <1>2, <1>3, SMTT(60) DEF Owes, Undisturbed, Missing, Due

LEMMA OwesOverwrite == ASSUME Safe, NEW t \in Tasks, Overwrite(t) PROVE Owes(t)
BY SMTT(60) DEF Overwrite, Owes, Undisturbed, Missing, Due

LEMMA OwesBook == ASSUME Safe, NEW t \in Tasks, Book(t) PROVE Owes(t)
BY SMTT(60) DEF Book, Owes, Undisturbed, Missing, Due

LEMMA OwesDisconnect == ASSUME Safe, NEW t \in Tasks, Disconnect(t) PROVE Owes(t)
BY SMTT(60) DEF Disconnect, Owes, Undisturbed, Missing, Due

LEMMA DueTypes ==
    ASSUME Safe
    PROVE  /\ Missing \in Int /\ \A t \in Tasks : Due(t) \in Int
BY DEF Missing, Due

LEMMA DueTypesNext ==
    ASSUME Safe'
    PROVE  Missing' \in Int /\ \A t \in Tasks : Due(t)' \in Int
BY DEF Missing, Due

LEMMA BooksMove ==
    ASSUME Safe, Safe', Books, NEW t \in Tasks, Owes(t)
    PROVE  Books'
<1> HIDE DEF Safe, Typed, Amounts, UsageAccounted
<1> SUFFICES ASSUME Undisturbed' PROVE \E r : Adds(r)' /\ r[Tasks] = Missing'
  BY DEF Books
<1>1. PICK s : Adds(s) /\ s[Tasks] = Missing
  BY DEF Books, Owes
<1>2. /\ Missing \in Int /\ Missing' \in Int /\ Due(t) \in Int /\ Due(t)' \in Int
      /\ \A u \in Tasks : Due(u) \in Int
  BY DueTypes, DueTypesNext
<1>3. PICK d \in Int : d = Due(t)' - Due(t)
  BY <1>2
<1>4. Due(t)' = Due(t) + d /\ Missing' = Missing + d /\ \A u \in Tasks \ {t} : Due(u)' = Due(u)
  <2>1. Missing' - Missing = Due(t)' - Due(t) /\ \A u \in Tasks \ {t} : Due(u)' = Due(u)
    BY DEF Owes
  <2> HIDE DEF Missing, Due
  <2> QED BY <2>1, <1>2, <1>3
<1>5. PICK r : Adds(r)' /\ r[Tasks] = s[Tasks] + d
  <2> HIDE DEF Adds, Due, Missing
  <2> QED BY <1>1, <1>2, <1>4, OneMoves
<1> QED BY <1>1, <1>4, <1>5

LEMMA BooksStill ==
    ASSUME Safe, Books, Crash \/ UNCHANGED quotaVars
    PROVE  Books'
<1>1. CASE Crash
  BY <1>1 DEF Crash, Books, Undisturbed
<1>2. CASE UNCHANGED quotaVars
  <2> HIDE DEF Safe, Typed, Amounts, UsageAccounted
  <2>1. Missing' = Missing /\ (Undisturbed' => Undisturbed)
    BY <1>2 DEF quotaVars, Missing, Undisturbed
  <2>2. \A t \in Tasks : Due(t)' = Due(t)
    BY <1>2 DEF quotaVars, Due
  <2>3. ASSUME NEW s, Adds(s) PROVE Adds(s)'
    <3> HIDE DEF Due
    <3> QED BY <2>2, <2>3 DEF Adds
  <2> QED BY <2>1, <2>3 DEF Books
<1> QED BY <1>1, <1>2

LEMMA BooksNext == ASSUME Safe, Safe', Books, [Next]_quotaVars PROVE Books'
<1> HIDE QuotaAssumption DEF Fine, DbFails, Mishap, Goto, Finish, Begin,
       Proceed, account, ledger, ghosts, tasks, bounds, Steps, Operations,
       Safe, Typed, UsageAccounted, Amounts
<1> QED BY BooksMove, BooksStill, OwesRequest, OwesLook, OwesOpenAccount, OwesBookSignup, OwesReread, OwesServeForFree, OwesDropStream, OwesCharge, OwesDeduct, OwesGenerate, OwesCredit, OwesOverwrite, OwesBook, OwesDisconnect
    DEF Next, TaskStep, EnsureStep, MoneyStep, ServeStep

LEMMA BooksInit == Init => Books
<1> SUFFICES ASSUME Init PROVE \E s : Adds(s) /\ s[Tasks] = Missing
  BY DEF Books
<1> DEFINE s == [S \in SUBSET Tasks |-> 0]
<1>1. \A t \in Tasks : Due(t) = 0
  BY DEF Init, Due
<1>2. Missing = 0
  BY DEF Init, Missing
<1>3. s \in [SUBSET Tasks -> Int] /\ s[Tasks] = 0
  OBVIOUS
<1>4. Adds(s)
  BY <1>1, <1>3 DEF Adds
<1> QED BY <1>2, <1>3, <1>4

(* The account and its ledger agree, for any number of tasks and amounts:  *)
(* the balance is what was granted less what was used, through every race, *)
(* error and crash; and at rest, if nothing went wrong and no admin        *)
(* overwrote it, the ledger sums up to it but for repeated signup rows.    *)
THEOREM BooksAgree == Spec => []BooksBalance
<1> HIDE DEF Safe, Typed, Amounts, UsageAccounted
<1>1. IInv /\ Books => BooksBalance
  <2> SUFFICES ASSUME IInv, Books, Quiet, opened, mishaps = 0, ~overwritten
               PROVE  booked = IF SignupGrant = 0 THEN balance ELSE balance + SignupGrant * (signups - 1)
    BY DEF IInv, Safe, BooksBalance, LedgerExplained
  <2>1. PICK s : Adds(s) /\ s[Tasks] = Missing
    BY DEF Books, Undisturbed
  <2>2. \A t \in Tasks : Due(t) = 0
    BY DEF Quiet, Due
  <2>3. Missing = 0
    BY <2>1, <2>2, NothingDue
  <2>4. booked \in Int /\ balance \in Int /\ signups \in Nat /\ SignupGrant \in Nat
    BY DEF IInv, Safe, Typed
  <2>5. (balance - SignupGrant) + SignupGrant * signups - booked = 0
    BY <2>3 DEF Missing
  <2> QED BY <2>4, <2>5
<1>2. Spec => []IInv
  BY Invariance
<1>3. IInv /\ IInv' /\ Books /\ [Next]_quotaVars => Books'
  BY BooksNext DEF IInv
<1> QED BY <1>1, <1>2, <1>3, BooksInit, PTL DEF Spec

-----------------------------------------------------------------------------
(* Recharge orders (Recharge)                                              *)

Typed2 ==
    /\ pc \in [Tasks -> Steps]
    /\ op \in [Tasks -> Operations]
    /\ order \in [Orders -> {"none", "pending", "paid"}]
    /\ trade \in [Orders -> Trades \cup {None}]
    /\ payment \in [Orders -> Trades \cup {None}]
    /\ credits \in [Orders -> Nat]
    /\ stage \in [Notifiers -> NoticeSteps]
    /\ about \in [Notifiers -> Orders \cup {None}]

(* What a notification has found out by the time it is at a stage; its     *)
(* task touches the account for the credit only.                           *)
Noticed ==
    \A n \in Notifiers :
        /\ pc[n] \in {"idle", "look", "open", "bookSignup", "reread", "credit", "book"}
        /\ pc[n] # "idle" => op[n] = "grant" /\ stage[n] = "credit"
        /\ stage[n] # "none" => about[n] \in Orders /\ payment[about[n]] \in Trades
        /\ stage[n] = "credit" => order[about[n]] = "paid"

(* What the columns of an order tell of each other.                        *)
Columns ==
    \A o \in Orders :
        /\ order[o] # "paid" => trade[o] = None /\ credits[o] = 0
        /\ order[o] = "paid" => trade[o] \in Trades
        /\ credits[o] \in {0, 1}

(* The notification that has marked an order paid and not credited it yet  *)
(* is the only one.                                                        *)
Owing(n) == pc[n] \in {"look", "open", "bookSignup", "reread", "credit"}
Owed ==
    \A n \in Notifiers : Owing(n) =>
        /\ credits[about[n]] = 0
        /\ \A m \in Notifiers : Owing(m) /\ about[m] = about[n] => m = n

Inv == Typed2 /\ Noticed /\ Columns /\ Owed /\ TradePaysOnce

LEMMA RechargeInvInit == RechargeInit => Inv
BY RechargeAssumption, SMTT(30)
DEF RechargeInit, Init, Inv, Typed2, Noticed, Columns, Owed, Owing,
    TradePaysOnce, Steps, Operations, NoticeSteps

USE RechargeAssumption DEF Fine, DbFails, Mishap, Goto, Finish, Begin, Proceed,
    account, ledger, ghosts, tasks, bounds, Steps, Operations, NoticeSteps,
    orders, gateway, notices, GoOn, Close, Answer, Settled,
    Inv, Typed2, Noticed, Columns, Owed, Owing, TradePaysOnce

LEMMA CreateInv == ASSUME Inv, NEW o \in Orders, CreateOrder(o) PROVE Inv'
BY SMTT(60) DEF CreateOrder, quotaVars

LEMMA PayInv == ASSUME Inv, NEW o \in Orders, Pay(o) PROVE Inv'
BY SMTT(60) DEF Pay, quotaVars

LEMMA NotifyInv ==
    ASSUME Inv, NEW n \in Notifiers, NEW o \in Orders, Notify(n, o)
    PROVE  Inv'
BY SMTT(60) DEF Notify

LEMMA LoadInv == ASSUME Inv, NEW n \in Notifiers, LoadOrder(n) PROVE Inv'
BY SMTT(60) DEF LoadOrder

LEMMA CheckInv == ASSUME Inv, NEW n \in Notifiers, CheckTrade(n) PROVE Inv'
BY SMTT(60) DEF CheckTrade

LEMMA MarkInv == ASSUME Inv, NEW n \in Notifiers, MarkPaid(n) PROVE Inv'
BY SMTT(60) DEF MarkPaid

LEMMA CreditedInv == ASSUME Inv, NEW n \in Notifiers, Credited(n) PROVE Inv'
BY SMTT(60) DEF Credited, quotaVars

LEMMA CreditAccountInv == ASSUME Inv, NEW t \in Tasks, CreditAccount(t) PROVE Inv'
BY SMTT(60) DEF CreditAccount, Credit

LEMMA AccountInv == ASSUME Inv, NEW t \in Tasks, AccountStep(t) PROVE Inv'
BY SMTT(60) DEF AccountStep, orderVars, EnsureStep, Look, OpenAccount,
   BookSignup, Reread, ServeStep, ServeForFree, DropStream, Generate, Charge,
   Deduct, Overwrite, Book

LEMMA ClientInv ==
    ASSUME Inv, NEW t \in Tasks \ Notifiers, Request(t) \/ Disconnect(t),
           UNCHANGED orderVars
    PROVE  Inv'
BY SMTT(60) DEF Request, Disconnect, orderVars

LEMMA DropInv == ASSUME Inv, NEW n \in Notifiers, DropNotice(n) PROVE Inv'
BY SMTT(60) DEF DropNotice

LEMMA CrashInv == ASSUME Inv, CrashAll PROVE Inv'
BY SMTT(60) DEF CrashAll, Crash

LEMMA StutterInv == ASSUME Inv, UNCHANGED vars PROVE Inv'
BY SMTT(60) DEF vars, quotaVars, orderVars

(* The inductive invariant holds in every reachable state.                 *)
THEOREM RechargeInvariance == RechargeSpec => []Inv
<1> HIDE RechargeAssumption DEF Fine, DbFails, Mishap, Goto, Finish, Begin,
    Proceed, account, ledger, ghosts, tasks, bounds, Steps, Operations,
    NoticeSteps, orders, gateway, notices, GoOn, Close, Answer, Settled,
    Inv, Typed2, Noticed, Columns, Owed, Owing, TradePaysOnce
<1>1. Inv /\ [RechargeNext]_vars => Inv'
  BY CreateInv, PayInv, NotifyInv, LoadInv, CheckInv, MarkInv, CreditedInv,
     CreditAccountInv, AccountInv, ClientInv, DropInv, CrashInv, StutterInv
  DEF RechargeNext, RunStep, NoticeStep
<1> QED BY <1>1, RechargeInvInit, PTL DEF RechargeSpec

(* No order is credited twice: notifications may repeat, overlap, and be   *)
(* cut off by errors, disconnects and crashes.                             *)
THEOREM AtMostOneCredit == RechargeSpec => []CreditedOnce
<1>1. Inv => CreditedOnce
  BY DEF CreditedOnce
<1> QED BY <1>1, RechargeInvariance, PTL

(* Two paid orders never share a trade number, even when both checks of    *)
(* process_notify pass before either UPDATE.                               *)
THEOREM OneOrderPerTrade == RechargeSpec => []TradePaysOnce
<1>1. Inv => TradePaysOnce
  OBVIOUS
<1> QED BY <1>1, RechargeInvariance, PTL

(* An order is credited once and a trade pays for one order, whatever is   *)
(* repeated, overlaps or fails (process_notify).                           *)
THEOREM OneCredit == RechargeSpec => []OneCreditPerTrade
<1>1. CreditedOnce /\ TradePaysOnce => OneCreditPerTrade
  BY DEF OneCreditPerTrade
<1> QED BY <1>1, AtMostOneCredit, OneOrderPerTrade, PTL
=============================================================================
