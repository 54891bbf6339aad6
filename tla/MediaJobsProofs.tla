--------------------------- MODULE MediaJobsProofs ---------------------------
(***************************************************************************)
(* For any number of jobs, prices, attempts and mishaps: what becomes of   *)
(* the money of an image or studio job, and of the files that jobs name.   *)
(***************************************************************************)
EXTENDS MediaJobs, FiniteSetTheorems, TLAPS

LEMMA MediaInitType == Init => TypeOK
<1> SUFFICES ASSUME Init PROVE TypeOK
  OBVIOUS
<1>1. StorageTypeOK
  BY DEF Init, StorageInit, StorageTypeOK, Backends
<1>2. shared \in [Jobs -> BOOLEAN] /\ up \in BOOLEAN
  BY Zenon DEF Init
<1>3. /\ row \in [Jobs -> RowStates] /\ kept \in [Jobs -> SUBSET Objects]
      /\ pc \in [Jobs -> Positions] /\ kind \in [Jobs -> AllKinds \cup {"none"}]
      /\ why \in [Jobs -> Causes] /\ removing \in [Jobs -> {"no", "file", "row"}]
  BY DEF Init, RowStates, Positions, AllKinds, Causes
<1>4. /\ model \in [Jobs -> Models] /\ attempt \in [Jobs -> 0..MaxAttempts] /\ via \in [Jobs -> Backends]
      /\ made \in [Jobs -> SUBSET Objects] /\ src \in [Jobs -> SUBSET Objects]
  BY MediaAssumption DEF Init, Models, Backends
<1>5. /\ paid \in [Jobs -> Nat] /\ back \in [Jobs -> Nat] /\ refunds \in [Jobs -> Nat]
      /\ price \in [Models -> Nat] /\ slots \in Nat
      /\ mishaps \in 0..MaxMishaps /\ changes \in 0..MaxChanges
  <2>1. price \in [Models -> Nat]
    <3>1. price \in [Models -> Prices \ {0}] /\ Prices \subseteq Nat
      BY MediaAssumption DEF Init
    <3> QED BY <3>1
  <2>2. slots \in Nat /\ mishaps \in 0..MaxMishaps /\ changes \in 0..MaxChanges
    BY MediaAssumption DEF Init
  <2>3. paid \in [Jobs -> Nat] /\ back \in [Jobs -> Nat] /\ refunds \in [Jobs -> Nat]
    BY DEF Init
  <2> QED BY <2>1, <2>2, <2>3
<1>6. avatar \in Jobs \cup {None}
  BY DEF Init
<1> QED BY <1>1, <1>2, <1>3, <1>4, <1>5, <1>6 DEF TypeOK

(* What every step does to the bounds, and most to a position, a row and   *)
(* a cause.                                                                *)
LEMMA BoundsType ==
    ASSUME mishaps \in 0..MaxMishaps, changes \in 0..MaxChanges,
           Fine \/ Change \/ \E f \in Faults : Mishap(f)
    PROVE  mishaps' \in 0..MaxMishaps /\ changes' \in 0..MaxChanges
<1>1. MaxMishaps \in Nat /\ MaxChanges \in Nat
  BY MediaAssumption
<1> QED BY <1>1 DEF Fine, Change, Mishap, bounds

(* Whatever delete answers, it only takes copies away, of one object.      *)
LEMMA RemovalType ==
    ASSUME StorageTypeOK, NEW o \in Objects, Removed(o) \/ NotRemoved(o)
    PROVE  /\ places' \in [Objects -> SUBSET Backends]
           /\ survivors' \subseteq Objects /\ survivors \subseteq survivors'
           /\ \A p \in Objects : places'[p] \subseteq places[p] /\ (p # o => places'[p] = places[p])
           /\ Fine \/ Mishap("store")
<1>1. \E gone \in SUBSET Backends : places' = [places EXCEPT ![o] = @ \ gone]
  <2>1. Copies \subseteq Backends /\ {backend} \subseteq Backends
    BY DEF StorageTypeOK, Copies, Backends
  <2> QED BY <2>1 DEF Removed, NotRemoved, Erase, EraseBucket, EraseFails
<1>2. survivors' = survivors \/ survivors' = survivors \cup {o}
  BY DEF Removed, NotRemoved, Erase, EraseBucket, EraseFails
<1>3. Fine \/ Mishap("store")
  BY DEF Removed, NotRemoved
<1> QED BY <1>1, <1>2, <1>3 DEF StorageTypeOK

LEMMA PcType ==
    ASSUME pc \in [Jobs -> Positions], NEW j \in Jobs, NEW l \in Positions, Goto(j, l)
    PROVE  pc' \in [Jobs -> Positions]
BY DEF Goto

LEMMA RowType ==
    ASSUME row \in [Jobs -> RowStates], NEW j \in Jobs, NEW s \in RowStates,
           SetRow(j, s) \/ UNCHANGED row
    PROVE  row' \in [Jobs -> RowStates]
BY DEF SetRow

LEMMA MediaTypeStep == TypeOK /\ [Next]_mediaVars => TypeOK'
<1> SUFFICES ASSUME TypeOK, [Next]_mediaVars PROVE TypeOK'
  OBVIOUS
<1> USE MediaAssumption DEF TypeOK, StorageTypeOK, Goto, Fine, Mishap, DbFails, Because, At, SetRow,
        storage, rows, locals, money, bounds, shop,
        RowStates, Positions, AllKinds, Models, Causes, Backends
<1>1. ASSUME NEW j \in Jobs, Request(j) PROVE TypeOK'
  <2>1. /\ kind' \in [Jobs -> AllKinds \cup {"none"}] /\ pc' \in [Jobs -> Positions]
        /\ model' \in [Jobs -> Models] /\ via' \in [Jobs -> Backends] /\ src' \in [Jobs -> SUBSET Objects]
    <3>1. Kinds[j] \subseteq AllKinds
      BY DEF AllKinds
    <3>2. ASSUME NEW i \in Jobs PROVE Clips(i) \subseteq Objects
      BY DEF Clips
    <3>3. ASSUME NEW k \in Kinds[j], AskPicture(j, k)
          PROVE  /\ pc' \in [Jobs -> Positions] /\ model' \in [Jobs -> Models]
                 /\ UNCHANGED <<via, src>>
      BY <3>3 DEF AskPicture
    <3>4. ASSUME NEW k \in Kinds[j], AskExport(j)
          PROVE  pc' \in [Jobs -> Positions] /\ src' \in [Jobs -> SUBSET Objects] /\ UNCHANGED <<via, model>>
      BY <3>2, <3>4 DEF AskExport
    <3>5. ASSUME NEW k \in Kinds[j], Upload(j, k)
          PROVE  /\ pc' \in [Jobs -> Positions] /\ via' \in [Jobs -> Backends]
                 /\ UNCHANGED <<model, src>>
      BY <3>5 DEF Upload
    <3>6. kind' \in [Jobs -> AllKinds \cup {"none"}]
      BY <1>1, <3>1 DEF Request
    <3> HIDE DEF TypeOK
    <3>7. TypeOK /\ \E k \in Kinds[j] : AskPicture(j, k) \/ AskExport(j) \/ Upload(j, k)
      BY <1>1 DEF Request
    <3> QED BY <3>3, <3>4, <3>5, <3>6, <3>7 DEF TypeOK
  <2>2. shared' \in [Jobs -> BOOLEAN]
    <3>1. UNCHANGED shared \/ \E s \in BOOLEAN : shared' = [shared EXCEPT ![j] = s]
      BY <1>1, Zenon DEF Request, AskPicture, AskExport, Upload
    <3> QED BY <3>1, SMTT(20)
  <2> QED BY <1>1, <2>1, <2>2 DEF Request
<1>2. ASSUME NEW j \in Jobs, Deduct(j) PROVE TypeOK'
  BY <1>2, SMTT(30) DEF Deduct
<1>3. ASSUME NEW j \in Jobs, Insert(j) PROVE TypeOK'
  <2>1. pc' \in [Jobs -> Positions] /\ why' \in [Jobs -> Causes]
    <3>1. \E l \in Positions : Goto(j, l)
      BY <1>3, Zenon DEF Insert, InsertLost
    <3>2. why' \in [Jobs -> Causes]
      BY <1>3 DEF Insert, InsertLost
    <3> QED BY <3>1, <3>2, PcType
  <2>2. row' \in [Jobs -> RowStates] /\ mishaps' \in 0..MaxMishaps /\ changes' \in 0..MaxChanges
    BY <1>3 DEF Insert
  <2> QED BY <1>3, <2>1, <2>2 DEF Insert
<1>4. ASSUME NEW j \in Jobs, Start(j) PROVE TypeOK'
  <2>1. row' \in [Jobs -> RowStates]
    BY <1>4, RowType DEF Start
  <2>2. mishaps' \in 0..MaxMishaps /\ changes' \in 0..MaxChanges
    BY <1>4, BoundsType DEF Start
  <2> QED BY <1>4, <2>1, <2>2 DEF Start
<1>5. ASSUME NEW j \in Jobs, Answered(j) PROVE TypeOK'
  BY <1>5, SMTT(30) DEF Answered, OnlyStep
<1>6. ASSUME NEW j \in Jobs, Refused(j) PROVE TypeOK'
  BY <1>6, SMTT(30) DEF Refused, Failing
<1>7. ASSUME NEW j \in Jobs, Retry(j) PROVE TypeOK'
  BY <1>7, SMTT(30) DEF Retry
<1>8. ASSUME NEW j \in Jobs, OpenStore(j) PROVE TypeOK'
  BY <1>8, SMTT(30) DEF OpenStore
<1>9. ASSUME NEW j \in Jobs, Stored(j) PROVE TypeOK'
  BY <1>9, SMTT(30) DEF Stored, Put, Wants, Permit
<1>10. ASSUME NEW j \in Jobs, NotStored(j) PROVE TypeOK'
  BY <1>10, SMTT(30) DEF NotStored, Failing, Permit
<1>11. ASSUME NEW j \in Jobs, Done(j) PROVE TypeOK'
  <2>1. pc' \in [Jobs -> Positions] /\ why' \in [Jobs -> Causes]
    <3>1. pc' = [pc EXCEPT ![j] = "over"] \/ pc' = [pc EXCEPT ![j] = "undo"]
      BY ONLY <1>11, Zenon DEF Done, Goto
    <3>2. UNCHANGED why \/ Because(j, "db")
      BY ONLY <1>11, Zenon DEF Done
    <3>3. pc' \in [Jobs -> Positions]
      BY ONLY <3>1, TypeOK DEF TypeOK, Positions
    <3>4. why' \in [Jobs -> Causes]
      BY ONLY <3>2, TypeOK DEF TypeOK, Causes, Because
    <3> QED BY <3>3, <3>4
  <2>2. row' \in [Jobs -> RowStates]
    <3>1. \/ UNCHANGED row \/ row' = [row EXCEPT ![j] = "done"]
          \/ row' = [row EXCEPT ![j] = IF @ \in {"none", "deleted"} THEN @ ELSE "done"]
      BY ONLY <1>11, Zenon DEF Done, SetRow, rows
    <3> QED BY ONLY <3>1, TypeOK DEF TypeOK, RowStates
  <2>3. kept' \in [Jobs -> SUBSET Objects]
    BY <1>11 DEF Done
  <2>4. UNCHANGED <<storage, removing, locals, money, avatar, price, slots, up>>
    BY <1>11 DEF Done
  <2>5. mishaps' \in 0..MaxMishaps /\ changes' \in 0..MaxChanges
    BY <1>11, BoundsType DEF Done
  <2> QED BY ONLY TypeOK, <2>1, <2>2, <2>3, <2>4, <2>5
          DEF TypeOK, StorageTypeOK, storage, locals, money
<1>12. ASSUME NEW j \in Jobs, Undo(j) PROVE TypeOK'
  <2>1. PICK o \in made[j] : Removed(o) \/ NotRemoved(o)
    BY ONLY <1>12 DEF Undo
  <2>2. /\ places' \in [Objects -> SUBSET Backends] /\ survivors' \subseteq Objects
        /\ Fine \/ Mishap("store")
    <3>1. o \in Objects /\ StorageTypeOK
      BY ONLY <2>1, TypeOK DEF TypeOK
    <3> QED BY ONLY <2>1, <3>1, RemovalType
  <2>3. mishaps' \in 0..MaxMishaps /\ changes' \in 0..MaxChanges
    BY <2>2, BoundsType
  <2>4. pc' \in [Jobs -> Positions]
    BY <1>12 DEF Undo
  <2>5. UNCHANGED <<backend, left, rows, locals, money, why, shop>>
    BY ONLY <1>12 DEF Undo
  <2> QED BY ONLY TypeOK, <2>2, <2>3, <2>4, <2>5 DEF TypeOK, StorageTypeOK, rows, locals, money, shop
<1>13. ASSUME NEW j \in Jobs, MarkFailed(j) PROVE TypeOK'
  BY <1>13, SMTT(30) DEF MarkFailed
<1>14. ASSUME NEW j \in Jobs, Refund(j) PROVE TypeOK'
  <2>1. pc' \in [Jobs -> Positions] /\ why' \in [Jobs -> Causes]
    BY <1>14 DEF Refund, AfterRefund
  <2>2. back' \in [Jobs -> Nat] /\ refunds' \in [Jobs -> Nat] /\ UNCHANGED paid
    <3>1. price[model[j]] \in Nat
      OBVIOUS
    <3>2. \/ UNCHANGED money
          \/ /\ back' = [back EXCEPT ![j] = @ + price[model[j]]]
             /\ refunds' = [refunds EXCEPT ![j] = @ + 1] /\ UNCHANGED paid
      BY ONLY <1>14, Zenon DEF Refund, money
    <3> QED BY ONLY <3>1, <3>2, TypeOK DEF TypeOK, money
  <2>3. mishaps' \in 0..MaxMishaps /\ changes' \in 0..MaxChanges
    BY <1>14 DEF Refund
  <2> QED BY <1>14, <2>1, <2>2, <2>3 DEF Refund
<1>15. ASSUME NEW j \in Jobs, Queue(j) PROVE TypeOK'
  BY <1>15, SMTT(30) DEF Queue
<1>16. ASSUME NEW j \in Jobs, Load(j) PROVE TypeOK'
  BY <1>16, SMTT(30) DEF Load
<1>17. ASSUME NEW j \in Jobs, Rendered(j) PROVE TypeOK'
  BY <1>17, SMTT(30) DEF Rendered, OnlyStep
<1>18. ASSUME NEW j \in Jobs, RenderFailed(j) PROVE TypeOK'
  BY <1>18, SMTT(30) DEF RenderFailed
<1>19. ASSUME NEW j \in Jobs, Previous(j) PROVE TypeOK'
  BY <1>19, SMTT(30) DEF Previous
<1>20. ASSUME NEW j \in Jobs, SetAvatar(j) PROVE TypeOK'
  <2>1. row' \in [Jobs -> RowStates] /\ kept' \in [Jobs -> SUBSET Objects]
    BY <1>20 DEF SetAvatar
  <2>2. pc' \in [Jobs -> Positions] /\ avatar' \in Jobs \cup {None}
    BY <1>20, ZenonT(20) DEF SetAvatar
  <2>3. mishaps' \in 0..MaxMishaps /\ changes' \in 0..MaxChanges
    BY <1>20, BoundsType DEF SetAvatar
  <2> QED BY <1>20, <2>1, <2>2, <2>3 DEF SetAvatar
<1>21. ASSUME NEW j \in Jobs, Tidy(j) PROVE TypeOK'
  <2>1. \/ \E o \in src[j] : Removed(o) \/ NotRemoved(o)
        \/ Fine /\ UNCHANGED <<places, survivors>>
    BY ONLY <1>21, Zenon DEF Tidy
  <2>2. /\ places' \in [Objects -> SUBSET Backends] /\ survivors' \subseteq Objects
        /\ Fine \/ Mishap("store")
    <3>1. StorageTypeOK /\ \A o \in src[j] : o \in Objects
      BY ONLY TypeOK DEF TypeOK
    <3>2. CASE Fine /\ UNCHANGED <<places, survivors>>
      BY ONLY <3>1, <3>2 DEF StorageTypeOK
    <3>3. CASE \E o \in src[j] : Removed(o) \/ NotRemoved(o)
      BY ONLY <3>1, <3>3, RemovalType
    <3> QED BY ONLY <2>1, <3>2, <3>3
  <2>3. mishaps' \in 0..MaxMishaps /\ changes' \in 0..MaxChanges
    BY <2>2, BoundsType
  <2>4. pc' \in [Jobs -> Positions]
    BY <1>21 DEF Tidy
  <2>5. UNCHANGED <<backend, left, rows, locals, money, why, shop>>
    BY ONLY <1>21, Zenon DEF Tidy
  <2> QED BY ONLY TypeOK, <2>2, <2>3, <2>4, <2>5 DEF TypeOK, StorageTypeOK, rows, locals, money, shop
<1>22. ASSUME NEW j \in Jobs, AskDelete(j) PROVE TypeOK'
  BY <1>22, SMTT(30) DEF AskDelete
<1>23. ASSUME NEW j \in Jobs, DeleteFile(j) PROVE TypeOK'
  <2>1. /\ places' \in [Objects -> SUBSET Backends] /\ survivors' \subseteq Objects
        /\ Fine \/ Mishap("store")
    <3>1. StorageTypeOK /\ \A o \in kept[j] : o \in Objects
      BY ONLY TypeOK DEF TypeOK
    <3>2. \E o \in kept[j] : Removed(o) \/ NotRemoved(o)
      BY ONLY <1>23, Zenon DEF DeleteFile
    <3> QED BY ONLY <3>1, <3>2, RemovalType
  <2>2. removing' \in [Jobs -> {"no", "file", "row"}]
    <3>1. removing' = [removing EXCEPT ![j] = "row"] \/ removing' = [removing EXCEPT ![j] = "no"]
      BY ONLY <1>23, Zenon DEF DeleteFile
    <3> QED BY ONLY <3>1, TypeOK DEF TypeOK
  <2>3. mishaps' \in 0..MaxMishaps /\ changes' \in 0..MaxChanges
    BY <2>1, BoundsType
  <2>4. UNCHANGED <<backend, left, rows, pc, locals, money, why, avatar, price, slots, up>>
    BY ONLY <1>23, Zenon DEF DeleteFile
  <2> QED BY ONLY TypeOK, <2>1, <2>2, <2>3, <2>4 DEF TypeOK, StorageTypeOK, rows, locals, money
<1>24. ASSUME NEW j \in Jobs, DeleteRow(j) PROVE TypeOK'
  BY <1>24, SMTT(30) DEF DeleteRow
<1>25. ASSUME NEW j \in Jobs, Forget(j) PROVE TypeOK'
  BY <1>25, SMTT(30) DEF Forget
<1>26. ASSUME NEW j \in Jobs, Disconnect(j) PROVE TypeOK'
  BY <1>26, SMTT(30) DEF Disconnect
<1>27. ASSUME NEW j \in Jobs, DropDelete(j) PROVE TypeOK'
  BY <1>27, SMTT(30) DEF DropDelete
<1>28. ASSUME Reprice PROVE TypeOK'
  BY <1>28, SMTT(30) DEF Reprice, Change
<1>29. ASSUME SwitchBackend PROVE TypeOK'
  BY <1>29, SMTT(30) DEF SwitchBackend, Change, Reconfigure
<1>30. ASSUME Crash PROVE TypeOK'
  <2>1. /\ pc' \in [Jobs -> Positions] /\ why' \in [Jobs -> Causes]
        /\ removing' \in [Jobs -> {"no", "file", "row"}]
    BY <1>30 DEF Crash
  <2>2. up' \in BOOLEAN /\ slots' \in Nat /\ mishaps' \in 0..MaxMishaps /\ changes' \in 0..MaxChanges
    BY <1>30, BoundsType DEF Crash
  <2> QED BY <1>30, <2>1, <2>2 DEF Crash
<1>31. ASSUME Boot PROVE TypeOK'
  BY <1>31, SMTT(30) DEF Boot, Live
<1>32. ASSUME UNCHANGED mediaVars PROVE TypeOK'
  BY <1>32, SMTT(30) DEF mediaVars
<1> HIDE DEF TypeOK
<1> QED
  BY <1>1, <1>2, <1>3, <1>4, <1>5, <1>6, <1>7, <1>8, <1>9, <1>10, <1>11, <1>12, <1>13, <1>14, <1>15, <1>16, <1>17, <1>18, <1>19, <1>20, <1>21, <1>22, <1>23, <1>24, <1>25, <1>26, <1>27, <1>28, <1>29, <1>30, <1>31, <1>32
  DEF Next, JobStep, AskStep, CallStep, StoreStep, FailStep, ExportStep, AvatarStep, DeleteStep

-----------------------------------------------------------------------------
Pictures == {"sync", "image", "responses", "studio"}

(* Only a picture made with a shared key is paid, before it is begun.      *)
Paying(j) ==
    /\ shared[j] => kind[j] \in Pictures
    /\ ~shared[j] => paid[j] = 0
    /\ pc[j] \in {"idle", "deduct"} => paid[j] = 0
    /\ (pc[j] = "idle" => ~shared[j]) /\ (pc[j] = "deduct" => shared[j])
    /\ shared[j] /\ pc[j] \notin {"deduct", "over"} => paid[j] > 0
    /\ pc[j] \in {"undo", "tidy", "previous", "queue", "load", "render"} => kind[j] \notin Pictures

(* Money comes back on the way out, after which nothing is handed over.    *)
Refunding(j) ==
    /\ refunds[j] = 0 => back[j] = 0
    /\ refunds[j] > 0 =>
         /\ refunds[j] = 1 /\ paid[j] > 0
         /\ pc[j] = "over" \/ (pc[j] = "fail" /\ kind[j] \in {"image", "responses"})
    /\ row[j] = "done" => refunds[j] = 0 /\ pc[j] \in {"over", "tidy"}

(* A job that is over, or past its refund, was settled or has a cause; a   *)
(* task has a row from its first step to its last.                         *)
Settling(j) ==
    /\ pc[j] = "failPaid" => why[j] # "none"
    /\ pc[j] = "fail" /\ kind[j] # "studio" => back[j] = paid[j] \/ why[j] # "none"
    /\ pc[j] = "over" /\ row[j] \notin {"done", "deleted"} /\ back[j] # paid[j] => why[j] # "none"
    /\ Tabled(j) /\ pc[j] \notin {"idle", "deduct", "insert", "refund", "over"} => row[j] # "none"
    /\ pc[j] \in {"fail", "failPaid"} => kind[j] # "sync"

Sound(j) == Paying(j) /\ Refunding(j) /\ Settling(j)
MoneyInv == TypeOK /\ \A j \in Jobs : Sound(j)

LEMMA MoneyInit == Init => MoneyInv
BY MediaInitType DEF MoneyInv, Init, Sound, Paying, Refunding, Settling, Tabled

(* Nothing of a job's money and progress changes.                          *)
Same(i) ==
    /\ kind'[i] = kind[i] /\ shared'[i] = shared[i] /\ row'[i] = row[i] /\ pc'[i] = pc[i]
    /\ paid'[i] = paid[i] /\ back'[i] = back[i] /\ refunds'[i] = refunds[i] /\ why'[i] = why[i]
Elsewhere(j) == \A i \in Jobs \ {j} : Same(i)

LEMMA SameSound == ASSUME NEW i \in Jobs, Sound(i), Same(i) PROVE Sound(i)'
BY DEF Sound, Same, Paying, Refunding, Settling, Tabled

LEMMA OneJobMoves ==
    ASSUME MoneyInv, NEW j \in Jobs, Elsewhere(j), Sound(j)'
    PROVE  \A i \in Jobs : Sound(i)'
BY SameSound DEF MoneyInv, Elsewhere

LEMMA MoneyStep == MoneyInv /\ [Next]_mediaVars => MoneyInv'
<1> SUFFICES ASSUME MoneyInv, [Next]_mediaVars PROVE \A i \in Jobs : Sound(i)'
  BY MediaTypeStep DEF MoneyInv
<1>0. /\ row \in [Jobs -> RowStates] /\ pc \in [Jobs -> Positions]
      /\ kind \in [Jobs -> AllKinds \cup {"none"}] /\ shared \in [Jobs -> BOOLEAN]
      /\ paid \in [Jobs -> Nat] /\ back \in [Jobs -> Nat] /\ refunds \in [Jobs -> Nat]
      /\ why \in [Jobs -> Causes] /\ price \in [Models -> Nat] /\ model \in [Jobs -> Models]
  BY DEF MoneyInv, TypeOK
<1>00. \A j \in Jobs : Sound(j)
  BY DEF MoneyInv
<1> USE <1>0, <1>00 DEF Goto, Because, At, SetRow, rows, locals, money
<1>1. ASSUME NEW j \in Jobs, Request(j) PROVE \A i \in Jobs : Sound(i)'
  <2>1. Elsewhere(j)
    BY <1>1, SMTT(20) DEF Request, AskPicture, AskExport, Upload, Elsewhere, Same
  <2>2. Paying(j)'
    BY <1>1, SMTT(20) DEF Request, AskPicture, AskExport, Upload, Sound, Paying, Refunding, Pictures
  <2>3. Refunding(j)'
    BY <1>1, SMTT(20) DEF Request, AskPicture, AskExport, Upload, Sound, Paying, Refunding, Pictures
  <2>4. Settling(j)'
    BY <1>1, SMTT(20) DEF Request, AskPicture, AskExport, Upload, Sound, Paying, Refunding, Settling, Tabled, Pictures
  <2> QED BY <2>1, <2>2, <2>3, <2>4, OneJobMoves DEF Sound
<1>2. ASSUME NEW j \in Jobs, Deduct(j) PROVE \A i \in Jobs : Sound(i)'
  <2>1. Elsewhere(j)
    BY <1>2, SMTT(20) DEF Deduct, Elsewhere, Same
  <2>2. Paying(j)'
    BY <1>2, SMTT(20) DEF Deduct, Sound, Paying, Refunding, Pictures
  <2>3. Refunding(j)'
    BY <1>2, SMTT(20) DEF Deduct, Sound, Paying, Refunding, Pictures
  <2>4. Settling(j)'
    BY <1>2, SMTT(20) DEF Deduct, Sound, Paying, Refunding, Settling, Tabled, Pictures
  <2> QED BY <2>1, <2>2, <2>3, <2>4, OneJobMoves DEF Sound
<1>3. ASSUME NEW j \in Jobs, Insert(j) PROVE \A i \in Jobs : Sound(i)'
  <2>1. Elsewhere(j)
    BY <1>3, SMTT(20) DEF Insert, InsertLost, Elsewhere, Same
  <2>2. Paying(j)'
    BY <1>3, SMTT(20) DEF Insert, InsertLost, Sound, Paying, Refunding, Pictures
  <2>3. Refunding(j)'
    BY <1>3, SMTT(20) DEF Insert, InsertLost, Sound, Paying, Refunding, Pictures
  <2>4. Settling(j)'
    BY <1>3, SMTT(20) DEF Insert, InsertLost, Sound, Paying, Refunding, Settling, Tabled, Pictures
  <2> QED BY <2>1, <2>2, <2>3, <2>4, OneJobMoves DEF Sound
<1>4. ASSUME NEW j \in Jobs, Start(j) PROVE \A i \in Jobs : Sound(i)'
  <2>1. Elsewhere(j)
    BY <1>4, SMTT(20) DEF Start, Elsewhere, Same
  <2>2. Paying(j)'
    BY <1>4, SMTT(20) DEF Start, Sound, Paying, Refunding, Pictures
  <2>3. Refunding(j)'
    BY <1>4, SMTT(20) DEF Start, Sound, Paying, Refunding, Pictures
  <2>4. Settling(j)'
    BY <1>4, SMTT(20) DEF Start, Sound, Paying, Refunding, Settling, Tabled, Pictures
  <2> QED BY <2>1, <2>2, <2>3, <2>4, OneJobMoves DEF Sound
<1>5. ASSUME NEW j \in Jobs, Answered(j) PROVE \A i \in Jobs : Sound(i)'
  <2>1. Elsewhere(j)
    BY <1>5, SMTT(20) DEF Answered, OnlyStep, Elsewhere, Same
  <2>2. Paying(j)'
    BY <1>5, SMTT(20) DEF Answered, OnlyStep, Sound, Paying, Refunding, Pictures
  <2>3. Refunding(j)'
    BY <1>5, SMTT(20) DEF Answered, OnlyStep, Sound, Paying, Refunding, Pictures
  <2>4. Settling(j)'
    BY <1>5, SMTT(20) DEF Answered, OnlyStep, Sound, Paying, Refunding, Settling, Tabled, Pictures
  <2> QED BY <2>1, <2>2, <2>3, <2>4, OneJobMoves DEF Sound
<1>6. ASSUME NEW j \in Jobs, Refused(j) PROVE \A i \in Jobs : Sound(i)'
  <2>1. Elsewhere(j)
    BY <1>6, SMTT(20) DEF Refused, Failing, Elsewhere, Same
  <2>2. Paying(j)'
    BY <1>6, SMTT(20) DEF Refused, Failing, Sound, Paying, Refunding, Pictures
  <2>3. Refunding(j)'
    BY <1>6, SMTT(20) DEF Refused, Failing, Sound, Paying, Refunding, Pictures
  <2>4. Settling(j)'
    BY <1>6, SMTT(20) DEF Refused, Failing, Sound, Paying, Refunding, Settling, Tabled, Pictures
  <2> QED BY <2>1, <2>2, <2>3, <2>4, OneJobMoves DEF Sound
<1>7. ASSUME NEW j \in Jobs, Retry(j) PROVE \A i \in Jobs : Sound(i)'
  <2>1. Elsewhere(j)
    BY <1>7, SMTT(20) DEF Retry, Elsewhere, Same
  <2>2. Paying(j)'
    BY <1>7, SMTT(20) DEF Retry, Sound, Paying, Refunding, Pictures
  <2>3. Refunding(j)'
    BY <1>7, SMTT(20) DEF Retry, Sound, Paying, Refunding, Pictures
  <2>4. Settling(j)'
    BY <1>7, SMTT(20) DEF Retry, Sound, Paying, Refunding, Settling, Tabled, Pictures
  <2> QED BY <2>1, <2>2, <2>3, <2>4, OneJobMoves DEF Sound
<1>8. ASSUME NEW j \in Jobs, OpenStore(j) PROVE \A i \in Jobs : Sound(i)'
  <2>1. Elsewhere(j)
    BY <1>8, SMTT(20) DEF OpenStore, Elsewhere, Same
  <2>2. Paying(j)'
    BY <1>8, SMTT(20) DEF OpenStore, Sound, Paying, Refunding, Pictures
  <2>3. Refunding(j)'
    BY <1>8, SMTT(20) DEF OpenStore, Sound, Paying, Refunding, Pictures
  <2>4. Settling(j)'
    BY <1>8, SMTT(20) DEF OpenStore, Sound, Paying, Refunding, Settling, Tabled, Pictures
  <2> QED BY <2>1, <2>2, <2>3, <2>4, OneJobMoves DEF Sound
<1>9. ASSUME NEW j \in Jobs, Stored(j) PROVE \A i \in Jobs : Sound(i)'
  <2>1. Elsewhere(j)
    BY <1>9, SMTT(20) DEF Stored, Elsewhere, Same
  <2>2. Paying(j)'
    BY <1>9, SMTT(20) DEF Stored, Sound, Paying, Refunding, Pictures
  <2>3. Refunding(j)'
    BY <1>9, SMTT(20) DEF Stored, Sound, Paying, Refunding, Pictures
  <2>4. Settling(j)'
    BY <1>9, SMTT(20) DEF Stored, Sound, Paying, Refunding, Settling, Tabled, Pictures
  <2> QED BY <2>1, <2>2, <2>3, <2>4, OneJobMoves DEF Sound
<1>10. ASSUME NEW j \in Jobs, NotStored(j) PROVE \A i \in Jobs : Sound(i)'
  <2>1. Elsewhere(j)
    BY <1>10, SMTT(20) DEF NotStored, Failing, Elsewhere, Same
  <2>2. Paying(j)'
    BY <1>10, SMTT(20) DEF NotStored, Failing, Sound, Paying, Refunding, Pictures
  <2>3. Refunding(j)'
    BY <1>10, SMTT(20) DEF NotStored, Failing, Sound, Paying, Refunding, Pictures
  <2>4. Settling(j)'
    BY <1>10, SMTT(20) DEF NotStored, Failing, Sound, Paying, Refunding, Settling, Tabled, Pictures
  <2> QED BY <2>1, <2>2, <2>3, <2>4, OneJobMoves DEF Sound
<1>11. ASSUME NEW j \in Jobs, Done(j) PROVE \A i \in Jobs : Sound(i)'
  <2>1. Elsewhere(j)
    BY <1>11, SMTT(20) DEF Done, Elsewhere, Same
  <2>2. Paying(j)'
    BY <1>11, SMTT(20) DEF Done, Sound, Paying, Refunding, Pictures
  <2>3. Refunding(j)'
    BY <1>11, SMTT(20) DEF Done, Sound, Paying, Refunding, Pictures
  <2>4. Settling(j)'
    BY <1>11, SMTT(20) DEF Done, Sound, Paying, Refunding, Settling, Tabled, Pictures
  <2> QED BY <2>1, <2>2, <2>3, <2>4, OneJobMoves DEF Sound
<1>12. ASSUME NEW j \in Jobs, Undo(j) PROVE \A i \in Jobs : Sound(i)'
  <2>1. Elsewhere(j)
    BY <1>12, SMTT(20) DEF Undo, Elsewhere, Same
  <2>2. Paying(j)'
    BY <1>12, SMTT(20) DEF Undo, Sound, Paying, Refunding, Pictures
  <2>3. Refunding(j)'
    BY <1>12, SMTT(20) DEF Undo, Sound, Paying, Refunding, Pictures
  <2>4. Settling(j)'
    BY <1>12, SMTT(20) DEF Undo, Sound, Paying, Refunding, Settling, Tabled, Pictures
  <2> QED BY <2>1, <2>2, <2>3, <2>4, OneJobMoves DEF Sound
<1>13. ASSUME NEW j \in Jobs, MarkFailed(j) PROVE \A i \in Jobs : Sound(i)'
  <2>1. Elsewhere(j)
    BY <1>13, SMTT(20) DEF MarkFailed, Elsewhere, Same
  <2>2. Paying(j)'
    BY <1>13, SMTT(20) DEF MarkFailed, Sound, Paying, Refunding, Pictures
  <2>3. Refunding(j)'
    BY <1>13, SMTT(20) DEF MarkFailed, Sound, Paying, Refunding, Pictures
  <2>4. Settling(j)'
    BY <1>13, SMTT(20) DEF MarkFailed, Sound, Paying, Refunding, Settling, Tabled, Pictures
  <2> QED BY <2>1, <2>2, <2>3, <2>4, OneJobMoves DEF Sound
<1>14. ASSUME NEW j \in Jobs, Refund(j) PROVE \A i \in Jobs : Sound(i)'
  <2>1. Elsewhere(j)
    BY <1>14, SMTT(20) DEF Refund, AfterRefund, Elsewhere, Same
  <2>2. Paying(j)'
    BY <1>14, SMTT(20) DEF Refund, AfterRefund, Sound, Paying, Refunding, Pictures
  <2>3. Refunding(j)'
    BY <1>14, SMTT(20) DEF Refund, AfterRefund, Sound, Paying, Refunding, Pictures
  <2>4. Settling(j)'
    BY <1>14, SMTT(20) DEF Refund, AfterRefund, Sound, Paying, Refunding, Settling, Tabled, Pictures
  <2> QED BY <2>1, <2>2, <2>3, <2>4, OneJobMoves DEF Sound
<1>15. ASSUME NEW j \in Jobs, Queue(j) PROVE \A i \in Jobs : Sound(i)'
  <2>1. Elsewhere(j)
    BY <1>15, SMTT(20) DEF Queue, Elsewhere, Same
  <2>2. Paying(j)'
    BY <1>15, SMTT(20) DEF Queue, Sound, Paying, Refunding, Pictures
  <2>3. Refunding(j)'
    BY <1>15, SMTT(20) DEF Queue, Sound, Paying, Refunding, Pictures
  <2>4. Settling(j)'
    BY <1>15, SMTT(20) DEF Queue, Sound, Paying, Refunding, Settling, Tabled, Pictures
  <2> QED BY <2>1, <2>2, <2>3, <2>4, OneJobMoves DEF Sound
<1>16. ASSUME NEW j \in Jobs, Load(j) PROVE \A i \in Jobs : Sound(i)'
  <2>1. Elsewhere(j)
    BY <1>16, SMTT(20) DEF Load, Elsewhere, Same
  <2>2. Paying(j)'
    BY <1>16, SMTT(20) DEF Load, Sound, Paying, Refunding, Pictures
  <2>3. Refunding(j)'
    BY <1>16, SMTT(20) DEF Load, Sound, Paying, Refunding, Pictures
  <2>4. Settling(j)'
    BY <1>16, SMTT(20) DEF Load, Sound, Paying, Refunding, Settling, Tabled, Pictures
  <2> QED BY <2>1, <2>2, <2>3, <2>4, OneJobMoves DEF Sound
<1>17. ASSUME NEW j \in Jobs, Rendered(j) PROVE \A i \in Jobs : Sound(i)'
  <2>1. Elsewhere(j)
    BY <1>17, SMTT(20) DEF Rendered, OnlyStep, Elsewhere, Same
  <2>2. Paying(j)'
    BY <1>17, SMTT(20) DEF Rendered, OnlyStep, Sound, Paying, Refunding, Pictures
  <2>3. Refunding(j)'
    BY <1>17, SMTT(20) DEF Rendered, OnlyStep, Sound, Paying, Refunding, Pictures
  <2>4. Settling(j)'
    BY <1>17, SMTT(20) DEF Rendered, OnlyStep, Sound, Paying, Refunding, Settling, Tabled, Pictures
  <2> QED BY <2>1, <2>2, <2>3, <2>4, OneJobMoves DEF Sound
<1>18. ASSUME NEW j \in Jobs, RenderFailed(j) PROVE \A i \in Jobs : Sound(i)'
  <2>1. Elsewhere(j)
    BY <1>18, SMTT(20) DEF RenderFailed, Elsewhere, Same
  <2>2. Paying(j)'
    BY <1>18, SMTT(20) DEF RenderFailed, Sound, Paying, Refunding, Pictures
  <2>3. Refunding(j)'
    BY <1>18, SMTT(20) DEF RenderFailed, Sound, Paying, Refunding, Pictures
  <2>4. Settling(j)'
    BY <1>18, SMTT(20) DEF RenderFailed, Sound, Paying, Refunding, Settling, Tabled, Pictures
  <2> QED BY <2>1, <2>2, <2>3, <2>4, OneJobMoves DEF Sound
<1>19. ASSUME NEW j \in Jobs, Previous(j) PROVE \A i \in Jobs : Sound(i)'
  <2>1. Elsewhere(j)
    BY <1>19, SMTT(20) DEF Previous, Elsewhere, Same
  <2>2. Paying(j)'
    BY <1>19, SMTT(20) DEF Previous, Sound, Paying, Refunding, Pictures
  <2>3. Refunding(j)'
    BY <1>19, SMTT(20) DEF Previous, Sound, Paying, Refunding, Pictures
  <2>4. Settling(j)'
    BY <1>19, SMTT(20) DEF Previous, Sound, Paying, Refunding, Settling, Tabled, Pictures
  <2> QED BY <2>1, <2>2, <2>3, <2>4, OneJobMoves DEF Sound
<1>20. ASSUME NEW j \in Jobs, Tidy(j) PROVE \A i \in Jobs : Sound(i)'
  <2>1. Elsewhere(j)
    BY <1>20, SMTT(20) DEF Tidy, Elsewhere, Same
  <2>2. Paying(j)'
    BY <1>20, SMTT(20) DEF Tidy, Sound, Paying, Refunding, Pictures
  <2>3. Refunding(j)'
    BY <1>20, SMTT(20) DEF Tidy, Sound, Paying, Refunding, Pictures
  <2>4. Settling(j)'
    BY <1>20, SMTT(20) DEF Tidy, Sound, Paying, Refunding, Settling, Tabled, Pictures
  <2> QED BY <2>1, <2>2, <2>3, <2>4, OneJobMoves DEF Sound
<1>21. ASSUME NEW j \in Jobs, AskDelete(j) PROVE \A i \in Jobs : Sound(i)'
  <2>1. Elsewhere(j)
    BY <1>21, SMTT(20) DEF AskDelete, Elsewhere, Same
  <2>2. Paying(j)'
    BY <1>21, SMTT(20) DEF AskDelete, Sound, Paying, Refunding, Pictures
  <2>3. Refunding(j)'
    BY <1>21, SMTT(20) DEF AskDelete, Sound, Paying, Refunding, Pictures
  <2>4. Settling(j)'
    BY <1>21, SMTT(20) DEF AskDelete, Sound, Paying, Refunding, Settling, Tabled, Pictures
  <2> QED BY <2>1, <2>2, <2>3, <2>4, OneJobMoves DEF Sound
<1>22. ASSUME NEW j \in Jobs, DeleteFile(j) PROVE \A i \in Jobs : Sound(i)'
  <2>1. Elsewhere(j)
    BY <1>22, SMTT(20) DEF DeleteFile, Elsewhere, Same
  <2>2. Paying(j)'
    BY <1>22, SMTT(20) DEF DeleteFile, Sound, Paying, Refunding, Pictures
  <2>3. Refunding(j)'
    BY <1>22, SMTT(20) DEF DeleteFile, Sound, Paying, Refunding, Pictures
  <2>4. Settling(j)'
    BY <1>22, SMTT(20) DEF DeleteFile, Sound, Paying, Refunding, Settling, Tabled, Pictures
  <2> QED BY <2>1, <2>2, <2>3, <2>4, OneJobMoves DEF Sound
<1>23. ASSUME NEW j \in Jobs, DeleteRow(j) PROVE \A i \in Jobs : Sound(i)'
  <2>1. Elsewhere(j)
    BY <1>23, SMTT(20) DEF DeleteRow, Elsewhere, Same
  <2>2. Paying(j)'
    BY <1>23, SMTT(20) DEF DeleteRow, Sound, Paying, Refunding, Pictures
  <2>3. Refunding(j)'
    BY <1>23, SMTT(20) DEF DeleteRow, Sound, Paying, Refunding, Pictures
  <2>4. Settling(j)'
    BY <1>23, SMTT(20) DEF DeleteRow, Sound, Paying, Refunding, Settling, Tabled, Pictures
  <2> QED BY <2>1, <2>2, <2>3, <2>4, OneJobMoves DEF Sound
<1>24. ASSUME NEW j \in Jobs, Forget(j) PROVE \A i \in Jobs : Sound(i)'
  <2>1. Elsewhere(j)
    BY <1>24, SMTT(20) DEF Forget, Elsewhere, Same
  <2>2. Paying(j)'
    BY <1>24, SMTT(20) DEF Forget, Sound, Paying, Refunding, Pictures
  <2>3. Refunding(j)'
    BY <1>24, SMTT(20) DEF Forget, Sound, Paying, Refunding, Pictures
  <2>4. Settling(j)'
    BY <1>24, SMTT(20) DEF Forget, Sound, Paying, Refunding, Settling, Tabled, Pictures
  <2> QED BY <2>1, <2>2, <2>3, <2>4, OneJobMoves DEF Sound
<1>25. ASSUME NEW j \in Jobs, Disconnect(j) PROVE \A i \in Jobs : Sound(i)'
  <2>1. Elsewhere(j)
    BY <1>25, SMTT(20) DEF Disconnect, Elsewhere, Same
  <2>2. Paying(j)'
    BY <1>25, SMTT(20) DEF Disconnect, Sound, Paying, Refunding, Pictures
  <2>3. Refunding(j)'
    BY <1>25, SMTT(20) DEF Disconnect, Sound, Paying, Refunding, Pictures
  <2>4. Settling(j)'
    BY <1>25, SMTT(20) DEF Disconnect, Sound, Paying, Refunding, Settling, Tabled, Pictures
  <2> QED BY <2>1, <2>2, <2>3, <2>4, OneJobMoves DEF Sound
<1>26. ASSUME NEW j \in Jobs, DropDelete(j) PROVE \A i \in Jobs : Sound(i)'
  <2>1. Elsewhere(j)
    BY <1>26, SMTT(20) DEF DropDelete, Elsewhere, Same
  <2>2. Paying(j)'
    BY <1>26, SMTT(20) DEF DropDelete, Sound, Paying, Refunding, Pictures
  <2>3. Refunding(j)'
    BY <1>26, SMTT(20) DEF DropDelete, Sound, Paying, Refunding, Pictures
  <2>4. Settling(j)'
    BY <1>26, SMTT(20) DEF DropDelete, Sound, Paying, Refunding, Settling, Tabled, Pictures
  <2> QED BY <2>1, <2>2, <2>3, <2>4, OneJobMoves DEF Sound
<1>27. ASSUME NEW j \in Jobs, SetAvatar(j) PROVE \A i \in Jobs : Sound(i)'
  <2>1. ASSUME NEW i \in Jobs PROVE Sound(i)'
    <3>1. CASE i = j
      BY <1>27, <3>1, SMTT(20) DEF SetAvatar, Sound, Paying, Refunding, Settling, Tabled, Pictures
    <3>2. CASE i # j
      BY <1>27, <3>2, SMTT(20) DEF SetAvatar, Sound, Paying, Refunding, Settling, Tabled, Pictures
    <3> QED BY <3>1, <3>2
  <2> QED BY <2>1
<1>28. ASSUME Reprice \/ SwitchBackend \/ UNCHANGED mediaVars PROVE \A i \in Jobs : Sound(i)'
  <2>1. \A i \in Jobs : Same(i)
    BY <1>28 DEF Reprice, SwitchBackend, mediaVars, Same
  <2> QED BY <2>1, SameSound
<1>29. ASSUME Crash PROVE \A i \in Jobs : Sound(i)'
  BY <1>29, SMTT(20) DEF Crash, Sound, Paying, Refunding, Settling, Tabled, Pictures
<1>30. ASSUME Boot PROVE \A i \in Jobs : Sound(i)'
  BY <1>30, SMTT(20) DEF Boot, Live, Sound, Paying, Refunding, Settling, Tabled, Pictures
<1> QED
  <2> HIDE <1>0, <1>00
  <2> QED
    BY <1>1, <1>2, <1>3, <1>4, <1>5, <1>6, <1>7, <1>8, <1>9, <1>10, <1>11, <1>12, <1>13, <1>14, <1>15, <1>16, <1>17, <1>18, <1>19, <1>20, <1>21, <1>22, <1>23, <1>24, <1>25, <1>26, <1>27, <1>28, <1>29, <1>30
    DEF Next, JobStep, AskStep, CallStep, StoreStep, FailStep, ExportStep, AvatarStep, DeleteStep

LEMMA MoneyConsequence == MoneyInv => RefundOnce /\ MediaMoneyExplained
BY DEF MoneyInv, Sound, Refunding, Settling, RefundOnce, MediaMoneyExplained

-----------------------------------------------------------------------------
(* Every handler, task and boot keeps every row, position and amount in    *)
(* its domain (images.rs, studio.rs, video_editor.rs, profile.rs).         *)
THEOREM MediaTypeCorrect == Spec => []TypeOK
BY MediaInitType, MediaTypeStep, PTL DEF Spec

(* Whatever fails, is retried, deleted, repriced or cut short by a         *)
(* restart, a job is refunded at most once and never one that delivered;   *)
(* and one that was paid, delivered nothing and was not given back what it *)
(* cost met one of the causes the code leaves open (refund_image_quota,    *)
(* insert_pending, cleanup_stale_jobs).                                    *)
THEOREM MediaMoney == Spec => []MediaMoneyExplained
BY MoneyInit, MoneyStep, MoneyConsequence, PTL DEF Spec

-----------------------------------------------------------------------------
(* Files and rows                                                          *)

(* While no bucket was left, every copy is where the backend looks: so an  *)
(* object is readable if it has a copy at all.                             *)
Together ==
    NothingStranded =>
      /\ \A o \in Objects : places[o] \subseteq Copies
      /\ \A j \in Jobs : via[j] \in Copies

(* A job's row names what the job has stored, under names of its own; an   *)
(* export stores one video, and is deleted when its task is over.          *)
Owned(j) ==
    /\ made[j] \subseteq {j} \X (1..MaxFiles) /\ kept[j] \subseteq made[j]
    /\ pc[j] = "idle" => kind[j] = "none" /\ made[j] = {} /\ src[j] = {} /\ row[j] = "none"
    /\ row[j] = "done" => pc[j] \in {"tidy", "over"}
    /\ kind[j] = "export" =>
         /\ pc[j] \notin {"done", "over"} => made[j] = {}
         /\ \A o, p \in made[j] : o = p
         /\ pc[j] # "over" => kept[j] = {} /\ row[j] \in {"none", "pending", "running"}
         /\ pc[j] \notin {"undo", "tidy", "previous"}
    /\ removing[j] # "no" => kind[j] = "export" /\ pc[j] = "over"
    /\ pc[j] \in {"previous", "tidy"} => kind[j] = "avatar"
    /\ kind[j] = "avatar" /\ pc[j] \notin {"done", "undo", "tidy", "over"} => src[j] = {}

(* The profile names the last avatar that was written; the one an upload   *)
(* is about to delete belongs to another upload, which is not listed.      *)
Named(i) == kind[i] = "avatar" /\ pc[i] \in {"tidy", "over"}
Replaced ==
    /\ avatar # None => Named(avatar)
    /\ \A i \in Jobs : kind[i] = "avatar" /\ row[i] = "done" => avatar = i
    /\ \A j \in Jobs : kind[j] = "avatar" /\ pc[j] \in {"done", "tidy"} /\ src[j] # {}
         => \E i \in Jobs \ {j} :
              /\ Named(i) /\ src[j] \subseteq kept[i]
              /\ pc[j] = "tidy" => row[i] # "done"

(* What a task has stored is there until it is over, and then as long as   *)
(* it is listed; what an export's deletion has passed is gone, or survived it.   *)
Present(j) ==
    NothingStranded =>
      /\ pc[j] \notin {"tidy", "over"} \/ (row[j] = "done" /\ kind[j] # "export")
           => \A o \in made[j] : places[o] # {}
      /\ kind[j] = "export" /\ (removing[j] = "row" \/ row[j] = "deleted")
           => \A o \in kept[j] : places[o] = {} \/ o \in survivors

(* No task outlives the process.                                           *)
Down == ~up => \A j \in Jobs : pc[j] \in {"idle", "over"}

FilesInv ==
    /\ TypeOK /\ Together /\ Replaced /\ Down
    /\ \A j \in Jobs : Owned(j) /\ Present(j)

LEMMA FilesInit == Init => FilesInv
<1> SUFFICES ASSUME Init PROVE FilesInv
  OBVIOUS
<1>1. Together
  BY DEF Init, StorageInit, Together, NothingStranded, Copies
<1>2. Replaced /\ \A j \in Jobs : Owned(j) /\ Present(j)
  BY DEF Init, Replaced, Owned, Present
<1>3. Down
  BY DEF Init, Down
<1> QED BY <1>1, <1>2, <1>3, MediaInitType DEF FilesInv

(* A step that moves a task or a deletion and touches no file.             *)
Paperwork(j) ==
    /\ UNCHANGED <<storage, kept, made, src, avatar, kind>>
    /\ \A i \in Jobs : via'[i] \in {via[i], backend}
    /\ \A i \in Jobs \ {j} : UNCHANGED <<pc[i], row[i], removing[i]>>
    /\ \/ pc'[j] = pc[j]
       \/ /\ pc[j] \notin {"idle", "over"}
          /\ pc'[j] \notin {"idle", "undo", "previous", "tidy"}
          /\ pc'[j] = "done" => kind[j] \notin {"export", "avatar"}
          /\ pc[j] \in {"done", "undo", "tidy"} => pc'[j] = "over"
    /\ row'[j] = "done" => row[j] = "done"
    /\ pc[j] = "idle" => row'[j] = row[j]
    /\ kind[j] = "export" =>
         /\ pc'[j] # "over" => row'[j] \in {"none", "pending", "running"}
         /\ row'[j] = "deleted" => row[j] = "deleted" \/ removing[j] = "row"
    /\ removing'[j] # "no" => kind[j] = "export" /\ pc[j] = "over" /\ pc'[j] = "over"
    /\ removing'[j] = "row" => removing[j] = "row" \/ kept[j] = {}

LEMMA PaperKeeps ==
    ASSUME FilesInv, NEW j \in Jobs, Paperwork(j)
    PROVE  Together' /\ Replaced' /\ \A i \in Jobs : Owned(i)' /\ Present(i)'
<1> USE DEF FilesInv, Paperwork, storage
<1>1. Together'
  <2>1. NothingStranded' = NothingStranded /\ Copies' = Copies /\ backend \in Copies
    BY DEF NothingStranded, Copies
  <2> QED BY <2>1 DEF Together
<1>2. Replaced'
  <2>1. \A i \in Jobs : (Named(i) => Named(i)') /\ (row'[i] = "done" => row[i] = "done")
    BY DEF Named
  <2>2. avatar # None => Named(avatar)'
    BY <2>1 DEF Replaced, TypeOK
  <2>3. \A i \in Jobs : kind'[i] = "avatar" /\ row'[i] = "done" => avatar' = i
    BY <2>1 DEF Replaced
  <2>4. \A k \in Jobs : kind[k] = "avatar" /\ pc'[k] \in {"done", "tidy"} => pc'[k] = pc[k]
    OBVIOUS
  <2>5. \A k \in Jobs : kind'[k] = "avatar" /\ pc'[k] \in {"done", "tidy"} /\ src'[k] # {}
          => \E i \in Jobs \ {k} :
               /\ Named(i)' /\ src'[k] \subseteq kept'[i]
               /\ pc'[k] = "tidy" => row'[i] # "done"
    BY <2>1, <2>4 DEF Replaced
  <2> QED BY <2>2, <2>3, <2>5 DEF Replaced
<1>3. ASSUME NEW i \in Jobs PROVE Owned(i)' /\ Present(i)'
  <2>1. Owned(i) /\ Present(i)
    OBVIOUS
  <2>2. NothingStranded' = NothingStranded
    BY DEF NothingStranded
  <2>3. CASE i # j
    BY <2>1, <2>2, <2>3 DEF Owned, Present
  <2>4. CASE i = j
    <3>1. Owned(j)'
      BY <2>1, <2>4 DEF Owned
    <3>2. Present(j)'
      BY <2>1, <2>2, <2>4 DEF Owned, Present
    <3> QED BY <2>4, <3>1, <3>2
  <2> QED BY <2>3, <2>4
<1> QED BY <1>1, <1>2, <1>3

LEMMA IsPaperwork ==
    ASSUME FilesInv, NEW j \in Jobs,
           \/ AskStep(j) \/ CallStep(j) \/ FailStep(j) \/ ExportStep(j)
           \/ OpenStore(j) \/ NotStored(j)
           \/ AskDelete(j) \/ DeleteRow(j) \/ Forget(j)
           \/ Disconnect(j) \/ DropDelete(j)
    PROVE  Paperwork(j)
<1>0. Owned(j)
  BY DEF FilesInv
<1>1. /\ row \in [Jobs -> RowStates] /\ pc \in [Jobs -> Positions]
      /\ via \in [Jobs -> Backends] /\ removing \in [Jobs -> {"no", "file", "row"}]
      /\ kind \in [Jobs -> AllKinds \cup {"none"}]
  BY DEF FilesInv, TypeOK
<1> USE <1>0, <1>1 DEF Owned, Paperwork, Goto, At, SetRow, rows, locals, shop, OnlyStep
<1>2. CASE Deduct(j)
  BY <1>2 DEF Deduct
<1>3. CASE Insert(j)
  BY <1>3 DEF Insert, InsertLost
<1>4. CASE Start(j)
  BY <1>4 DEF Start
<1>5. CASE Answered(j) \/ Refused(j)
  BY <1>5 DEF Answered, Refused, Failing
<1>6. CASE Retry(j)
  BY <1>6 DEF Retry
<1>7. CASE MarkFailed(j)
  BY <1>7 DEF MarkFailed
<1>8. CASE Refund(j)
  BY <1>8 DEF Refund, AfterRefund
<1>9. CASE Queue(j)
  BY <1>9 DEF Queue
<1>10. CASE Load(j) \/ Rendered(j) \/ RenderFailed(j)
  BY <1>10 DEF Load, Rendered, RenderFailed
<1>11. CASE OpenStore(j)
  BY <1>11 DEF OpenStore
<1>12. CASE NotStored(j)
  BY <1>12 DEF NotStored, Failing
<1>13. CASE AskDelete(j)
  BY <1>13 DEF AskDelete
<1>14. CASE DeleteRow(j)
  BY <1>14 DEF DeleteRow
<1>15. CASE Forget(j)
  BY <1>15 DEF Forget
<1>16. CASE Disconnect(j)
  BY <1>16 DEF Disconnect
<1>17. CASE DropDelete(j)
  BY <1>17 DEF DropDelete
<1> QED BY ONLY <1>2, <1>3, <1>4, <1>5, <1>6, <1>7, <1>8, <1>9, <1>10, <1>11,
       <1>12, <1>13, <1>14, <1>15, <1>16, <1>17,
       \/ AskStep(j) \/ CallStep(j) \/ FailStep(j) \/ ExportStep(j)
       \/ OpenStore(j) \/ NotStored(j)
       \/ AskDelete(j) \/ DeleteRow(j) \/ Forget(j)
       \/ Disconnect(j) \/ DropDelete(j)
       DEF AskStep, CallStep, FailStep, ExportStep

(* What a step of one job leaves alone of the others.                      *)
Aside(j) ==
    /\ UNCHANGED <<backend, left>>
    /\ \A i \in Jobs \ {j} :
         UNCHANGED <<kind[i], pc[i], row[i], removing[i], made[i], kept[i], src[i], via[i]>>
    /\ \A o \in Objects : o[1] # j => places'[o] = places[o]
    /\ survivors \subseteq survivors'

LEMMA OthersKeep ==
    ASSUME FilesInv, NEW j \in Jobs, Aside(j), NEW i \in Jobs \ {j}
    PROVE  Owned(i)' /\ Present(i)'
<1>1. Owned(i) /\ Present(i)
  BY DEF FilesInv
<1>2. \A o \in made[i] \cup kept[i] : places'[o] = places[o]
  <2>1. \A o \in made[i] \cup kept[i] : o \in Objects /\ o[1] = i
    BY <1>1, MediaAssumption DEF Owned, FilesInv, TypeOK
  <2> QED BY <2>1 DEF Aside
<1> QED BY <1>1, <1>2 DEF Aside, Owned, Present, NothingStranded

Kept == Together' /\ Replaced' /\ \A i \in Jobs : Owned(i)' /\ Present(i)'

LEMMA FilesRequest ==
    ASSUME FilesInv, NEW j \in Jobs, Request(j) PROVE Kept
<1>0. Owned(j) /\ pc[j] = "idle" /\ kind[j] = "none"
  BY DEF FilesInv, Request, At, Owned
<1>1. PICK k \in Kinds[j] :
        /\ kind' = [kind EXCEPT ![j] = k]
        /\ AskPicture(j, k) \/ (k = "export" /\ AskExport(j)) \/ Upload(j, k)
  BY DEF Request
<1>2. UNCHANGED <<storage, row, kept, made, removing, avatar>>
  BY DEF Request, rows, shop
<1>3. /\ \A i \in Jobs \ {j} : UNCHANGED <<kind[i], pc[i], via[i], src[i]>>
      /\ via'[j] \in {via[j], backend} /\ kind'[j] = k
      /\ pc'[j] \notin {"idle", "previous", "done", "undo", "tidy", "over"}
  BY <1>1 DEF AskPicture, AskExport, Upload, Goto, FilesInv, TypeOK
<1>4. Aside(j)
  BY <1>2, <1>3 DEF Aside, storage
<1>5. Together'
  BY <1>2, <1>3 DEF FilesInv, Together, NothingStranded, Copies, storage
<1>6. Replaced'
  <2>1. \A i \in Jobs : Named(i) => i # j /\ Named(i)'
    BY <1>0, <1>3 DEF Named
  <2>2. avatar # None => Named(avatar)'
    BY <1>2, <2>1 DEF FilesInv, Replaced, TypeOK
  <2>3. row[j] = "none"
    BY <1>0 DEF Owned
  <2> QED BY <1>2, <1>3, <2>1, <2>2, <2>3 DEF FilesInv, Replaced
<1>7. Owned(j)' /\ Present(j)'
  <2>1. made[j] = {} /\ row[j] = "none" /\ kept[j] = {} /\ removing[j] = "no" /\ src[j] = {}
    BY <1>0 DEF Owned, FilesInv, TypeOK
  <2>2. kind'[j] = "avatar" => src'[j] = src[j]
    BY <1>1, <1>3 DEF AskPicture, AskExport, Upload
  <2> QED BY <1>2, <1>3, <2>1, <2>2 DEF Owned, Present
<1> QED BY <1>4, <1>5, <1>6, <1>7, OthersKeep DEF Kept

LEMMA FilesStored ==
    ASSUME FilesInv, NEW j \in Jobs, Stored(j) PROVE Kept
<1>0. Owned(j) /\ Present(j) /\ pc[j] = "store" /\ via[j] \in Backends
  BY DEF FilesInv, TypeOK, Stored, At
<1>1. PICK o \in ({j} \X (1..MaxFiles)) \ made[j] :
        /\ places' = [places EXCEPT ![o] = @ \cup {via[j]}]
        /\ made' = [made EXCEPT ![j] = @ \cup {o}]
  BY DEF Stored, Put
<1>2. /\ o \in Objects /\ o[1] = j
      /\ places \in [Objects -> SUBSET Backends] /\ made \in [Jobs -> SUBSET Objects]
  BY MediaAssumption DEF FilesInv, TypeOK, StorageTypeOK
<1>3. UNCHANGED <<backend, left, survivors, row, kept, kind, via, src, avatar, removing>>
  BY DEF Stored, rows
<1>4. /\ \A i \in Jobs \ {j} : pc'[i] = pc[i]
      /\ pc'[j] = (IF kind[j] = "avatar" THEN "previous" ELSE "done")
           \/ (pc'[j] = "open" /\ Cardinality(made[j]) + 1 < Wants(j))
  BY DEF Stored, Goto, FilesInv, TypeOK
<1>5. kind[j] = "export" => made[j] = {} /\ pc'[j] = "done"
  <2>1. kind[j] = "export" => made[j] = {}
    BY <1>0 DEF Owned
  <2>2. Cardinality({}) = 0
    BY FS_EmptySet
  <2> QED BY <1>4, <2>1, <2>2 DEF Wants
<1>6. Aside(j)
  BY <1>1, <1>2, <1>3, <1>4 DEF Aside
<1>7. Together'
  BY <1>0, <1>1, <1>2, <1>3 DEF FilesInv, Together, NothingStranded, Copies
<1>8. Replaced'
  <2>1. \A i \in Jobs : Named(i) => i # j /\ Named(i)'
    BY <1>0, <1>3, <1>4 DEF Named
  <2>2. avatar # None => Named(avatar)'
    BY <1>3, <2>1 DEF FilesInv, Replaced, TypeOK
  <2>3. kind[j] = "avatar" => pc'[j] \notin {"done", "tidy"}
    BY <1>4
  <2> QED BY <1>3, <1>4, <2>1, <2>2, <2>3 DEF FilesInv, Replaced
<1>9. Owned(j)'
  <2>1. made'[j] = made[j] \cup {o}
    BY <1>1, <1>2
  <2> QED BY <1>0, <1>3, <1>4, <1>5, <2>1 DEF Owned
<1>10. Present(j)'
  <2>1. \A p \in made'[j] : p \in Objects /\ (p = o \/ p \in made[j])
    BY <1>1, <1>2
  <2>2. \A p \in Objects : places[p] \subseteq places'[p]
    BY <1>1, <1>2
  <2>3. places'[o] # {}
    BY <1>1, <1>2
  <2>4. kind[j] = "export" => removing[j] # "row" /\ row[j] # "deleted"
    BY <1>0 DEF Owned
  <2> QED BY <1>0, <1>3, <2>1, <2>2, <2>3, <2>4 DEF Present, NothingStranded
<1> QED BY <1>6, <1>7, <1>8, <1>9, <1>10, OthersKeep DEF Kept

LEMMA FilesDone ==
    ASSUME FilesInv, NEW j \in Jobs, Done(j) PROVE Kept
<1>0. Owned(j) /\ Present(j) /\ pc[j] = "done" /\ kind[j] # "avatar"
  BY DEF FilesInv, Done, At
<1>1. UNCHANGED <<storage, kind, made, via, src, avatar, removing>>
  BY DEF Done, locals, shop
<1>2. /\ \A i \in Jobs \ {j} : UNCHANGED <<pc[i], row[i], kept[i]>>
      /\ \/ pc'[j] = "over" /\ kept'[j] = (IF row'[j] = "done" THEN made[j] ELSE {})
         \/ /\ pc'[j] \in {"over", "undo"} /\ UNCHANGED <<row[j], kept[j]>>
            /\ pc'[j] = "undo" => kind[j] = "upload"
  BY DEF Done, SetRow, Goto, rows, FilesInv, TypeOK
<1>3. kind[j] = "export" => row'[j] \in {row[j], "done"}
  BY DEF Done, SetRow, Tabled, rows, FilesInv, TypeOK
<1>4. Aside(j)
  BY <1>1, <1>2 DEF Aside, storage
<1>5. Together'
  BY <1>1 DEF FilesInv, Together, NothingStranded, Copies, storage
<1>6. Replaced'
  <2>1. \A i \in Jobs : Named(i) => i # j /\ Named(i)'
    BY <1>0, <1>1, <1>2 DEF Named
  <2>2. avatar # None => Named(avatar)'
    BY <1>1, <2>1 DEF FilesInv, Replaced, TypeOK
  <2> QED BY <1>0, <1>1, <1>2, <2>1, <2>2 DEF FilesInv, Replaced
<1>7. Owned(j)'
  BY <1>0, <1>1, <1>2, <1>3 DEF Owned
<1>8. Present(j)'
  BY <1>0, <1>1, <1>2, <1>3 DEF Owned, Present, NothingStranded, storage
<1> QED BY <1>4, <1>5, <1>6, <1>7, <1>8, OthersKeep DEF Kept

LEMMA FilesUndo ==
    ASSUME FilesInv, NEW j \in Jobs, Undo(j) PROVE Kept
<1>0. Owned(j) /\ Present(j) /\ pc[j] = "undo"
  BY DEF FilesInv, Undo, At
<1>1. UNCHANGED <<backend, left, row, kept, kind, made, via, src, avatar, removing>>
  BY DEF Undo, rows, locals, shop
<1>2. pc'[j] = "over" /\ \A i \in Jobs \ {j} : pc'[i] = pc[i]
  BY DEF Undo, Goto, FilesInv, TypeOK
<1>3. /\ \A o \in Objects : places'[o] \subseteq places[o] /\ (o[1] # j => places'[o] = places[o])
      /\ survivors \subseteq survivors'
  <2>1. StorageTypeOK /\ \A o \in made[j] : o[1] = j /\ o \in Objects
    BY <1>0 DEF Owned, FilesInv, TypeOK
  <2>2. \E o \in made[j] : Removed(o) \/ NotRemoved(o)
    BY ONLY Undo(j) DEF Undo
  <2> QED BY ONLY <2>1, <2>2, RemovalType
<1>4. Aside(j)
  BY <1>1, <1>2, <1>3 DEF Aside
<1>5. Together'
  BY <1>1, <1>3 DEF FilesInv, Together, NothingStranded, Copies
<1>6. Replaced'
  <2>1. \A i \in Jobs : Named(i) => i # j /\ Named(i)'
    BY <1>0, <1>1, <1>2 DEF Named
  <2>2. avatar # None => Named(avatar)'
    BY <1>1, <2>1 DEF FilesInv, Replaced, TypeOK
  <2> QED BY <1>1, <1>2, <2>1, <2>2 DEF FilesInv, Replaced
<1>7. Owned(j)' /\ Present(j)'
  BY <1>0, <1>1, <1>2 DEF Owned, Present
<1> QED BY <1>4, <1>5, <1>6, <1>7, OthersKeep DEF Kept

LEMMA FilesPrevious ==
    ASSUME FilesInv, NEW j \in Jobs, Previous(j) PROVE Kept
<1>0. Owned(j) /\ Present(j) /\ pc[j] = "previous" /\ kind[j] = "avatar"
  BY DEF FilesInv, Previous, At, Owned
<1>1. UNCHANGED <<storage, row, kept, kind, made, via, avatar, removing>>
  BY DEF Previous, rows, shop
<1>2. /\ pc'[j] = "done" /\ \A i \in Jobs \ {j} : UNCHANGED <<pc[i], src[i]>>
      /\ src'[j] = src[j] \/ src'[j] = (IF avatar = None THEN {} ELSE kept[avatar])
  BY DEF Previous, Goto, FilesInv, TypeOK
<1>3. Aside(j)
  BY <1>1, <1>2 DEF Aside, storage
<1>4. Together'
  BY <1>1 DEF FilesInv, Together, NothingStranded, Copies, storage
<1>5. Replaced'
  <2>1. \A i \in Jobs : Named(i) => i # j /\ Named(i)'
    BY <1>0, <1>1, <1>2 DEF Named
  <2>2. avatar # None => Named(avatar)'
    BY <1>1, <2>1 DEF FilesInv, Replaced, TypeOK
  <2>3. src'[j] # {} => \E i \in Jobs \ {j} : Named(i)' /\ src'[j] \subseteq kept'[i]
    <3>1. CASE src'[j] = src[j]
      BY <1>0, <3>1 DEF FilesInv, Owned
    <3>2. CASE src'[j] = (IF avatar = None THEN {} ELSE kept[avatar])
      BY <1>1, <2>1, <3>2 DEF FilesInv, Replaced, TypeOK
    <3> QED BY <1>2, <3>1, <3>2
  <2> QED BY <1>0, <1>1, <1>2, <2>1, <2>2, <2>3 DEF FilesInv, Replaced
<1>6. Owned(j)' /\ Present(j)'
  BY <1>0, <1>1, <1>2 DEF Owned, Present, NothingStranded, storage
<1> QED BY <1>3, <1>4, <1>5, <1>6, OthersKeep DEF Kept

LEMMA FilesSetAvatar ==
    ASSUME FilesInv, NEW j \in Jobs, SetAvatar(j) PROVE Kept
<1>0. Owned(j) /\ Present(j) /\ pc[j] = "done" /\ kind[j] = "avatar"
  BY DEF FilesInv, SetAvatar, At
<1>1. UNCHANGED <<storage, kind, made, via, src, removing>>
  BY DEF SetAvatar, locals
<1>2. Together'
  BY <1>1 DEF FilesInv, Together, NothingStranded, Copies, storage
<1>3. CASE UNCHANGED <<row, kept, avatar>> /\ Goto(j, "undo")
  <2>1. pc'[j] = "undo" /\ \A i \in Jobs \ {j} : pc'[i] = pc[i]
    BY <1>3 DEF Goto, FilesInv, TypeOK
  <2>2. Aside(j)
    BY <1>1, <1>3, <2>1 DEF Aside, storage
  <2>3. \A i \in Jobs : Named(i) => i # j /\ Named(i)'
    BY <1>0, <1>1, <2>1 DEF Named
  <2>4. avatar # None => Named(avatar)'
    BY <1>3, <2>3 DEF FilesInv, Replaced, TypeOK
  <2>5. Replaced'
    BY <1>1, <1>3, <2>1, <2>3, <2>4 DEF FilesInv, Replaced
  <2>6. Owned(j)' /\ Present(j)'
    BY <1>0, <1>1, <1>3, <2>1 DEF Owned, Present, NothingStranded, storage
  <2> QED BY <1>2, <2>2, <2>5, <2>6, OthersKeep DEF Kept
<1>4. CASE /\ Goto(j, "tidy") /\ avatar' = j
           /\ row' = [i \in Jobs |-> IF i = j THEN "done"
                                     ELSE IF i = avatar THEN "deleted" ELSE row[i]]
           /\ kept' = [kept EXCEPT ![j] = made[j]]
  <2>1. /\ pc'[j] = "tidy" /\ row'[j] = "done" /\ kept'[j] = made[j]
        /\ \A i \in Jobs \ {j} :
             /\ pc'[i] = pc[i] /\ kept'[i] = kept[i]
             /\ row'[i] = IF i = avatar THEN "deleted" ELSE row[i]
    BY <1>4 DEF Goto, FilesInv, TypeOK
  <2>2. \A i \in Jobs : Named(i) => i # j /\ Named(i)'
    BY <1>0, <1>1, <2>1 DEF Named
  <2>3. \A i \in Jobs \ {j} : kind[i] = "avatar" => row'[i] # "done"
    BY <2>1 DEF FilesInv, Replaced
  <2>4. \A i \in Jobs \ {j} : row'[i] = "done" => row[i] = "done"
    BY <2>1
  <2>5. Replaced'
    <3>1. Named(j)'
      BY <1>0, <1>1, <2>1 DEF Named
    <3>2. ASSUME NEW k \in Jobs, kind[k] = "avatar", pc'[k] \in {"done", "tidy"}, src[k] # {}
          PROVE  \E i \in Jobs \ {k} :
                   /\ Named(i)' /\ src[k] \subseteq kept'[i]
                   /\ pc'[k] = "tidy" => row'[i] # "done"
      <4>1. pc[k] \in {"done", "tidy"}
        BY <1>0, <2>1, <3>2
      <4>2. PICK i \in Jobs \ {k} : Named(i) /\ src[k] \subseteq kept[i]
        BY <3>2, <4>1 DEF FilesInv, Replaced
      <4> QED BY <2>1, <2>2, <2>3, <4>2 DEF Named
    <3> QED BY <1>1, <1>4, <2>3, <3>1, <3>2 DEF Replaced
  <2>6. Owned(j)' /\ Present(j)'
    BY <1>0, <1>1, <2>1 DEF Owned, Present, NothingStranded, storage
  <2>7. ASSUME NEW i \in Jobs \ {j} PROVE Owned(i)' /\ Present(i)'
    <3>1. Owned(i) /\ Present(i)
      BY DEF FilesInv
    <3>2. i = avatar => Named(i)
      BY MediaAssumption DEF FilesInv, Replaced
    <3>3. row'[i] = row[i] \/ (row'[i] = "deleted" /\ kind[i] = "avatar" /\ pc[i] # "idle")
      BY <2>1, <3>2 DEF Named
    <3> QED BY <1>1, <2>1, <3>1, <3>3 DEF Owned, Present, NothingStranded, storage
  <2> QED BY <1>2, <2>5, <2>6, <2>7 DEF Kept
<1> QED BY <1>3, <1>4 DEF SetAvatar, rows

LEMMA FilesTidy ==
    ASSUME FilesInv, NEW j \in Jobs, Tidy(j) PROVE Kept
<1>0. Owned(j) /\ pc[j] = "tidy" /\ kind[j] = "avatar"
  BY DEF FilesInv, Tidy, At, Owned
<1>1. UNCHANGED <<backend, left, row, kept, kind, made, via, src, avatar, removing>>
  BY DEF Tidy, rows, locals, shop
<1>2. pc'[j] = "over" /\ \A i \in Jobs \ {j} : pc'[i] = pc[i]
  BY DEF Tidy, Goto, FilesInv, TypeOK
<1>3. /\ \A o \in Objects : places'[o] \subseteq places[o] /\ (o \notin src[j] => places'[o] = places[o])
      /\ survivors \subseteq survivors'
  <2>1. StorageTypeOK /\ \A o \in src[j] : o \in Objects
    BY DEF FilesInv, TypeOK
  <2>2. \/ \E o \in src[j] : Removed(o) \/ NotRemoved(o)
        \/ UNCHANGED <<places, survivors>>
    BY ONLY Zenon, Tidy(j) DEF Tidy
  <2> QED BY ONLY <2>1, <2>2, RemovalType
<1>4. Together'
  BY <1>1, <1>3 DEF FilesInv, Together, NothingStranded, Copies
<1>5. Replaced'
  <2>1. \A i \in Jobs : Named(i) => Named(i)'
    BY <1>1, <1>2 DEF Named
  <2>2. avatar # None => Named(avatar)'
    BY <1>1, <2>1 DEF FilesInv, Replaced, TypeOK
  <2> QED BY <1>0, <1>1, <1>2, <2>1, <2>2 DEF FilesInv, Replaced
<1>6. ASSUME NEW i \in Jobs PROVE Owned(i)'
  <2>1. Owned(i)
    BY DEF FilesInv
  <2> QED BY <1>0, <1>1, <1>2, <2>1 DEF Owned
<1>7. ASSUME NEW i \in Jobs PROVE Present(i)'
  <2>1. Owned(i) /\ Present(i)
    BY DEF FilesInv
  <2>2. pc'[i] \notin {"tidy", "over"} => pc[i] \notin {"tidy", "over"}
    BY <1>0, <1>2
  <2>3. \A o \in made[i] \cup kept[i] : o \in Objects
    BY <2>1 DEF Owned, FilesInv, TypeOK
  <2>4. ASSUME pc[i] \notin {"tidy", "over"} \/ (row[i] = "done" /\ kind[i] # "export"),
               NEW o \in made[i], o \in src[j]
        PROVE  FALSE
    <3>1. PICK k \in Jobs : Named(k) /\ src[j] \subseteq kept[k] /\ row[k] # "done"
      BY <1>0, <2>4 DEF FilesInv, Replaced
    <3>2. o[1] = k /\ o[1] = i
      BY <2>1, <2>4, <3>1 DEF FilesInv, Owned
    <3> QED BY <2>4, <3>1, <3>2 DEF Named
  <2>5. \A o \in made[i] \cup kept[i] : places[o] = {} => places'[o] = {}
    BY <1>3, <2>3
  <2> QED BY <1>1, <1>3, <2>1, <2>2, <2>3, <2>4, <2>5 DEF Present, NothingStranded
<1> QED BY <1>4, <1>5, <1>6, <1>7 DEF Kept

LEMMA FilesDelete ==
    ASSUME FilesInv, NEW j \in Jobs, DeleteFile(j) PROVE Kept
<1>0. Owned(j) /\ Present(j) /\ removing[j] = "file"
  BY DEF FilesInv, DeleteFile
<1>1. UNCHANGED <<backend, left, row, kept, pc, kind, made, via, src, avatar>>
  BY DEF DeleteFile, rows, locals
<1>2. /\ \A i \in Jobs \ {j} : removing'[i] = removing[i]
      /\ \/ removing'[j] = "no"
         \/ removing'[j] = "row" /\ \E o \in kept[j] : Removed(o)
  BY DEF DeleteFile, FilesInv, TypeOK
<1>3. /\ \A o \in Objects : places'[o] \subseteq places[o] /\ (o[1] # j => places'[o] = places[o])
      /\ survivors \subseteq survivors'
  <2>1. StorageTypeOK /\ \A o \in kept[j] : o[1] = j /\ o \in Objects
    BY <1>0 DEF Owned, FilesInv, TypeOK
  <2>2. \E o \in kept[j] : Removed(o) \/ NotRemoved(o)
    BY ONLY Zenon, DeleteFile(j) DEF DeleteFile
  <2> QED BY ONLY <2>1, <2>2, RemovalType
<1>4. Aside(j)
  BY <1>1, <1>2, <1>3 DEF Aside
<1>5. Together'
  BY <1>1, <1>3 DEF FilesInv, Together, NothingStranded, Copies
<1>6. Replaced'
  BY <1>1 DEF FilesInv, Replaced, Named
<1>7. Owned(j)'
  BY <1>0, <1>1, <1>2 DEF Owned
<1>8. Present(j)'
  <2>1. kind[j] = "export" /\ pc[j] = "over" /\ kept[j] \subseteq made[j] /\ made[j] \subseteq Objects
    BY <1>0 DEF Owned, FilesInv, TypeOK
  <2>2. ASSUME NothingStranded, \E o \in kept[j] : Removed(o)
        PROVE  \A p \in kept[j] : places'[p] = {} \/ p \in survivors'
    <3>1. PICK o \in kept[j] : Removed(o)
      BY <2>2
    <3>2. (places'[o] = places[o] \ Copies \/ o \in survivors') /\ places[o] \subseteq Copies
      BY <2>1, <2>2, <3>1 DEF Removed, Erase, EraseBucket, FilesInv, Together, TypeOK, StorageTypeOK
    <3>3. \A p \in kept[j] : p = o
      BY <1>0, <2>1 DEF Owned
    <3> QED BY <3>2, <3>3
  <2>3. ASSUME NothingStranded, row[j] = "deleted" PROVE \A p \in kept[j] : places'[p] = {} \/ p \in survivors'
    BY <1>0, <1>3, <2>1, <2>3 DEF Present
  <2> QED BY <1>1, <1>2, <2>1, <2>2, <2>3 DEF Present, NothingStranded
<1> QED BY <1>4, <1>5, <1>6, <1>7, <1>8, OthersKeep DEF Kept

LEMMA FilesWorld ==
    ASSUME FilesInv, Reprice \/ SwitchBackend \/ UNCHANGED mediaVars PROVE Kept
<1>1. UNCHANGED <<places, survivors, rows, pc, locals, avatar, removing>>
  BY DEF Reprice, SwitchBackend, Reconfigure, storage, mediaVars, shop
<1>2. NothingStranded' => NothingStranded /\ Copies \subseteq Copies'
  <2>1. CASE Reprice \/ UNCHANGED mediaVars
    BY <2>1 DEF Reprice, storage, mediaVars, NothingStranded, Copies
  <2>2. CASE SwitchBackend
    <3>1. left' = left \cup {backend}
      BY <2>2 DEF SwitchBackend, Reconfigure
    <3> QED BY <3>1 DEF NothingStranded, Copies
  <2> QED BY <2>1, <2>2
<1>3. Together'
  BY <1>1, <1>2 DEF FilesInv, Together, locals
<1>4. Replaced'
  BY <1>1 DEF FilesInv, Replaced, Named, rows, locals
<1>5. ASSUME NEW j \in Jobs PROVE Owned(j)' /\ Present(j)'
  <2>1. Owned(j) /\ Present(j)
    BY DEF FilesInv
  <2> QED BY <1>1, <1>2, <2>1 DEF Owned, Present, rows, locals
<1> QED BY <1>3, <1>4, <1>5 DEF Kept

LEMMA FilesCrash ==
    ASSUME FilesInv, Crash \/ Boot PROVE Kept
<1>1. UNCHANGED <<storage, kept, kind, made, via, src, avatar>>
  BY DEF Crash, Boot, rows, locals
<1>2. \A j \in Jobs :
        /\ pc'[j] = pc[j] \/ (pc[j] # "idle" /\ pc'[j] = "over")
        /\ row'[j] = row[j] \/ (row[j] \in Live /\ row'[j] = "failed" /\ pc[j] \in {"idle", "over"})
        /\ removing'[j] \in {removing[j], "no"}
  BY DEF Crash, Boot, rows, FilesInv, Down, TypeOK
<1>3. Together'
  BY <1>1 DEF FilesInv, Together, NothingStranded, Copies, storage
<1>4. Replaced'
  <2>1. \A i \in Jobs : (Named(i) => Named(i)') /\ (row'[i] = "done" => row[i] = "done")
    BY <1>1, <1>2 DEF Named
  <2>2. avatar # None => Named(avatar)'
    BY <1>1, <2>1 DEF FilesInv, Replaced, TypeOK
  <2> QED BY <1>1, <1>2, <2>1, <2>2 DEF FilesInv, Replaced
<1>5. ASSUME NEW j \in Jobs PROVE Owned(j)' /\ Present(j)'
  <2>1. Owned(j) /\ Present(j)
    BY DEF FilesInv
  <2>2. pc[j] = "idle" => row'[j] = row[j]
    BY <1>2, <2>1 DEF Owned, Live
  <2>3. Owned(j)'
    BY <1>1, <1>2, <2>1, <2>2 DEF Owned, Live
  <2>4. row'[j] \in {"done", "deleted"} => row'[j] = row[j]
    BY <1>2
  <2> QED BY <1>1, <1>2, <2>1, <2>3, <2>4 DEF Present, NothingStranded, storage
<1> QED BY <1>3, <1>4, <1>5 DEF Kept

LEMMA DownStep == ASSUME TypeOK, Down, [Next]_mediaVars PROVE Down'
<1>1. CASE Crash
  BY <1>1 DEF Crash, Down, TypeOK
<1>2. CASE Boot
  BY <1>2 DEF Boot, Down
<1>3. CASE UNCHANGED mediaVars
  BY <1>3 DEF mediaVars, shop, Down
<1>4. CASE /\ Next /\ ~Crash /\ ~Boot
  <2>1. ASSUME NEW j \in Jobs, AskStep(j) \/ CallStep(j) PROVE up /\ up' = up
    BY Zenon, <2>1 DEF AskStep, CallStep, Deduct, Insert, Start, Answered, Refused, Retry, At, OnlyStep, shop
  <2>2. ASSUME NEW j \in Jobs, StoreStep(j) \/ FailStep(j) PROVE up /\ up' = up
    BY Zenon, <2>2 DEF StoreStep, FailStep, OpenStore, Stored, NotStored, Done, Undo, MarkFailed,
       Refund, At, OnlyStep, shop
  <2>3. ASSUME NEW j \in Jobs, ExportStep(j) \/ AvatarStep(j) PROVE up /\ up' = up
    BY Zenon, <2>3 DEF ExportStep, AvatarStep, Queue, Load, Rendered, RenderFailed, Previous,
       SetAvatar, Tidy, At, OnlyStep, shop
  <2>4. ASSUME NEW j \in Jobs, Request(j) \/ DeleteStep(j) \/ Disconnect(j) \/ DropDelete(j)
        PROVE  up /\ up' = up
    BY Zenon, <2>4 DEF Request, DeleteStep, AskDelete, DeleteFile, DeleteRow, Forget, Disconnect,
       DropDelete, At, OnlyStep, shop
  <2>5. ASSUME Reprice \/ SwitchBackend PROVE up /\ up' = up
    BY Zenon, <2>5 DEF Reprice, SwitchBackend, shop
  <2>6. up /\ up' = up
    BY ONLY Zenon, <1>4, <2>1, <2>2, <2>3, <2>4, <2>5 DEF Next, JobStep
  <2> QED BY <2>6 DEF Down
<1> QED BY <1>1, <1>2, <1>3, <1>4

LEMMA FilesStep == FilesInv /\ [Next]_mediaVars => FilesInv'
<1> SUFFICES ASSUME FilesInv, [Next]_mediaVars PROVE FilesInv'
  OBVIOUS
<1>1. TypeOK' /\ Down'
  BY MediaTypeStep, DownStep DEF FilesInv
<1>2. ASSUME NEW j \in Jobs, Paperwork(j) PROVE Kept
  BY ONLY FilesInv, <1>2, PaperKeeps DEF Kept
<1>3. Kept
  BY ONLY FilesInv, [Next]_mediaVars, <1>2, IsPaperwork, FilesRequest, FilesStored, FilesDone,
     FilesUndo, FilesPrevious, FilesSetAvatar, FilesTidy, FilesDelete, FilesWorld, FilesCrash
     DEF Next, JobStep, StoreStep, AvatarStep, DeleteStep
<1> QED BY <1>1, <1>3 DEF FilesInv, Kept

LEMMA FilesConsequence == FilesInv => FilesMatchRows
<1> SUFFICES ASSUME FilesInv, NothingStranded, NEW j \in Jobs
    PROVE  /\ kind[j] # "export" => \A o \in Served(j) : Readable(o)
           /\ row[j] = "deleted" /\ kind[j] = "export" => \A o \in kept[j] : Readable(o) => o \in survivors
  BY DEF FilesMatchRows
<1>1. Owned(j) /\ Present(j)
  BY DEF FilesInv
<1>2. \A o \in made[j] : o \in Objects /\ places[o] \subseteq Copies
  BY DEF FilesInv, TypeOK, Together
<1> QED BY <1>1, <1>2 DEF Owned, Present, Served, Readable

(* For any number of jobs, uploads of avatars that overtake each other,    *)
(* switches of the backend and mishaps: while no bucket was left, whatever *)
(* a finished job, an upload or the profile names can be read, and nothing *)
(* of a deleted export, but a local copy beside a bucket whose removal     *)
(* failed (with_local_fallback, upload_avatar, delete_export).             *)
THEOREM FilesAgree == Spec => []FilesMatchRows
BY FilesInit, FilesStep, FilesConsequence, PTL DEF Spec

-----------------------------------------------------------------------------
(* The promise to the user                                                 *)

(* Handing pictures over is the last thing that happens to a job, and the  *)
(* only way its row gets to name any. A studio generation, which alone can *)
(* be deleted, is only finished with a picture.                            *)
Handing(j) ==
    kind[j] \in Pictures =>
      /\ Delivered(j) => pc[j] = "over" /\ refunds[j] = 0
      /\ kept[j] # {} => Delivered(j)
      /\ row[j] = "deleted" => kind[j] = "studio"
      /\ kind[j] = "studio" =>
           /\ pc[j] = "done" => made[j] # {}
           /\ row[j] = "done" => kept[j] # {}

Handed(j) == <<kind[j], row[j], kept[j], made[j], pc[j], refunds[j]>>

LEMMA HandingInit == Init => \A j \in Jobs : Handing(j)
BY DEF Init, Handing, Delivered, Pictures

LEMMA HandingKept ==
    ASSUME NEW j \in Jobs, Handing(j), UNCHANGED Handed(j)
    PROVE  Handing(j)'
BY DEF Handing, Handed, Delivered

LEMMA HandingStep ==
    ASSUME MoneyInv, FilesInv, \A j \in Jobs : Handing(j), [Next]_mediaVars
    PROVE  \A j \in Jobs : Handing(j)'
<1>0. /\ row \in [Jobs -> RowStates] /\ pc \in [Jobs -> Positions]
      /\ kind \in [Jobs -> AllKinds \cup {"none"}] /\ kept \in [Jobs -> SUBSET Objects]
      /\ made \in [Jobs -> SUBSET Objects] /\ refunds \in [Jobs -> Nat]
  BY DEF MoneyInv, TypeOK
<1>00. \A j \in Jobs : Paying(j) /\ Refunding(j) /\ Owned(j) /\ Handing(j)
  BY DEF MoneyInv, Sound, FilesInv
<1>01. ASSUME NEW j \in Jobs, \A i \in Jobs \ {j} : UNCHANGED Handed(i), Handing(j)'
       PROVE  \A i \in Jobs : Handing(i)'
  BY <1>00, <1>01, HandingKept
<1> DEFINE Alone(j) == (\A i \in Jobs \ {j} : UNCHANGED Handed(i)) /\ Handing(j)'
<1> USE <1>0, <1>00 DEF Goto, At, SetRow, rows, locals, money, Handed, Delivered
<1>1. ASSUME NEW j \in Jobs, Request(j) PROVE Alone(j)
  <2>1. \A i \in Jobs \ {j} : UNCHANGED Handed(i)
    BY <1>1, SMTT(20) DEF Request, AskPicture, AskExport, Upload, Owned, Refunding
  <2>2. Handing(j)'
    BY <1>1, SMTT(20) DEF Request, AskPicture, AskExport, Upload, Owned, Refunding, Handing, Pictures
  <2> QED BY <2>1, <2>2
<1>2. ASSUME NEW j \in Jobs, Deduct(j) PROVE Alone(j)
  <2>1. \A i \in Jobs \ {j} : UNCHANGED Handed(i)
    BY <1>2, SMTT(20) DEF Deduct
  <2>2. Handing(j)'
    BY <1>2, SMTT(20) DEF Deduct, Handing, Pictures
  <2> QED BY <2>1, <2>2
<1>3. ASSUME NEW j \in Jobs, Insert(j) PROVE Alone(j)
  <2>1. \A i \in Jobs \ {j} : UNCHANGED Handed(i)
    BY <1>3, SMTT(20) DEF Insert, InsertLost
  <2>2. Handing(j)'
    BY <1>3, SMTT(20) DEF Insert, InsertLost, Handing, Pictures
  <2> QED BY <2>1, <2>2
<1>4. ASSUME NEW j \in Jobs, Start(j) PROVE Alone(j)
  <2>1. \A i \in Jobs \ {j} : UNCHANGED Handed(i)
    BY <1>4, SMTT(20) DEF Start
  <2>2. Handing(j)'
    BY <1>4, SMTT(20) DEF Start, Handing, Pictures
  <2> QED BY <2>1, <2>2
<1>5. ASSUME NEW j \in Jobs, Answered(j) PROVE Alone(j)
  <2>1. \A i \in Jobs \ {j} : UNCHANGED Handed(i)
    BY <1>5, SMTT(20) DEF Answered, OnlyStep
  <2>2. Handing(j)'
    BY <1>5, SMTT(20) DEF Answered, OnlyStep, Handing, Pictures
  <2> QED BY <2>1, <2>2
<1>6. ASSUME NEW j \in Jobs, Refused(j) PROVE Alone(j)
  <2>1. \A i \in Jobs \ {j} : UNCHANGED Handed(i)
    BY <1>6, SMTT(20) DEF Refused, Failing
  <2>2. Handing(j)'
    BY <1>6, SMTT(20) DEF Refused, Failing, Handing, Pictures
  <2> QED BY <2>1, <2>2
<1>7. ASSUME NEW j \in Jobs, Retry(j) PROVE Alone(j)
  <2>1. \A i \in Jobs \ {j} : UNCHANGED Handed(i)
    BY <1>7, SMTT(20) DEF Retry
  <2>2. Handing(j)'
    BY <1>7, SMTT(20) DEF Retry, Handing, Pictures
  <2> QED BY <2>1, <2>2
<1>8. ASSUME NEW j \in Jobs, OpenStore(j) PROVE Alone(j)
  <2>1. \A i \in Jobs \ {j} : UNCHANGED Handed(i)
    BY <1>8, SMTT(20) DEF OpenStore
  <2>2. Handing(j)'
    BY <1>8, SMTT(20) DEF OpenStore, Handing, Pictures
  <2> QED BY <2>1, <2>2
<1>9. ASSUME NEW j \in Jobs, Stored(j) PROVE Alone(j)
  <2>1. \A i \in Jobs \ {j} : UNCHANGED Handed(i)
    BY <1>9, SMTT(20) DEF Stored
  <2>2. Handing(j)'
    BY <1>9, SMTT(20) DEF Stored, Handing, Pictures
  <2> QED BY <2>1, <2>2
<1>10. ASSUME NEW j \in Jobs, NotStored(j) PROVE Alone(j)
  <2>1. \A i \in Jobs \ {j} : UNCHANGED Handed(i)
    BY <1>10, SMTT(20) DEF NotStored, Failing
  <2>2. Handing(j)'
    BY <1>10, SMTT(20) DEF NotStored, Failing, Handing, Pictures
  <2> QED BY <2>1, <2>2
<1>11. ASSUME NEW j \in Jobs, Done(j) PROVE Alone(j)
  <2>1. \A i \in Jobs \ {j} : UNCHANGED Handed(i)
    BY <1>11, SMTT(20) DEF Done, Tabled, Refunding
  <2>2. Handing(j)'
    BY <1>11, SMTT(20) DEF Done, Tabled, Refunding, Handing, Pictures
  <2> QED BY <2>1, <2>2
<1>12. ASSUME NEW j \in Jobs, Undo(j) PROVE Alone(j)
  <2>1. \A i \in Jobs \ {j} : UNCHANGED Handed(i)
    BY <1>12, SMTT(20) DEF Undo, Paying
  <2>2. Handing(j)'
    BY <1>12, SMTT(20) DEF Undo, Paying, Handing, Pictures
  <2> QED BY <2>1, <2>2
<1>13. ASSUME NEW j \in Jobs, MarkFailed(j) PROVE Alone(j)
  <2>1. \A i \in Jobs \ {j} : UNCHANGED Handed(i)
    BY <1>13, SMTT(20) DEF MarkFailed
  <2>2. Handing(j)'
    BY <1>13, SMTT(20) DEF MarkFailed, Handing, Pictures
  <2> QED BY <2>1, <2>2
<1>14. ASSUME NEW j \in Jobs, Refund(j) PROVE Alone(j)
  <2>1. \A i \in Jobs \ {j} : UNCHANGED Handed(i)
    BY <1>14, SMTT(20) DEF Refund, AfterRefund, Refunding
  <2>2. Handing(j)'
    BY <1>14, SMTT(20) DEF Refund, AfterRefund, Refunding, Handing, Pictures
  <2> QED BY <2>1, <2>2
<1>15. ASSUME NEW j \in Jobs, Queue(j) PROVE Alone(j)
  <2>1. \A i \in Jobs \ {j} : UNCHANGED Handed(i)
    BY <1>15, SMTT(20) DEF Queue, Paying
  <2>2. Handing(j)'
    BY <1>15, SMTT(20) DEF Queue, Paying, Handing, Pictures
  <2> QED BY <2>1, <2>2
<1>16. ASSUME NEW j \in Jobs, Load(j) PROVE Alone(j)
  <2>1. \A i \in Jobs \ {j} : UNCHANGED Handed(i)
    BY <1>16, SMTT(20) DEF Load, Paying
  <2>2. Handing(j)'
    BY <1>16, SMTT(20) DEF Load, Paying, Handing, Pictures
  <2> QED BY <2>1, <2>2
<1>17. ASSUME NEW j \in Jobs, Rendered(j) PROVE Alone(j)
  <2>1. \A i \in Jobs \ {j} : UNCHANGED Handed(i)
    BY <1>17, SMTT(20) DEF Rendered, OnlyStep, Paying
  <2>2. Handing(j)'
    BY <1>17, SMTT(20) DEF Rendered, OnlyStep, Paying, Handing, Pictures
  <2> QED BY <2>1, <2>2
<1>18. ASSUME NEW j \in Jobs, RenderFailed(j) PROVE Alone(j)
  <2>1. \A i \in Jobs \ {j} : UNCHANGED Handed(i)
    BY <1>18, SMTT(20) DEF RenderFailed, Paying
  <2>2. Handing(j)'
    BY <1>18, SMTT(20) DEF RenderFailed, Paying, Handing, Pictures
  <2> QED BY <2>1, <2>2
<1>19. ASSUME NEW j \in Jobs, Previous(j) PROVE Alone(j)
  <2>1. \A i \in Jobs \ {j} : UNCHANGED Handed(i)
    BY <1>19, SMTT(20) DEF Previous
  <2>2. Handing(j)'
    BY <1>19, SMTT(20) DEF Previous, Paying, Handing, Pictures
  <2> QED BY <2>1, <2>2
<1>20. ASSUME NEW j \in Jobs, Tidy(j) PROVE Alone(j)
  <2>1. \A i \in Jobs \ {j} : UNCHANGED Handed(i)
    BY <1>20, SMTT(20) DEF Tidy
  <2>2. Handing(j)'
    BY <1>20, SMTT(20) DEF Tidy, Handing, Pictures
  <2> QED BY <2>1, <2>2
<1>21. ASSUME NEW j \in Jobs, AskDelete(j) PROVE Alone(j)
  <2>1. \A i \in Jobs \ {j} : UNCHANGED Handed(i)
    BY <1>21, SMTT(20) DEF AskDelete
  <2>2. Handing(j)'
    BY <1>21, SMTT(20) DEF AskDelete, Handing, Pictures
  <2> QED BY <2>1, <2>2
<1>22. ASSUME NEW j \in Jobs, DeleteFile(j) PROVE Alone(j)
  <2>1. \A i \in Jobs \ {j} : UNCHANGED Handed(i)
    BY <1>22, SMTT(20) DEF DeleteFile
  <2>2. Handing(j)'
    BY <1>22, SMTT(20) DEF DeleteFile, Handing, Pictures
  <2> QED BY <2>1, <2>2
<1>23. ASSUME NEW j \in Jobs, DeleteRow(j) PROVE Alone(j)
  <2>1. \A i \in Jobs \ {j} : UNCHANGED Handed(i)
    BY <1>23, SMTT(20) DEF DeleteRow, Owned
  <2>2. Handing(j)'
    BY <1>23, SMTT(20) DEF DeleteRow, Owned, Handing, Pictures
  <2> QED BY <2>1, <2>2
<1>24. ASSUME NEW j \in Jobs, Forget(j) PROVE Alone(j)
  <2>1. \A i \in Jobs \ {j} : UNCHANGED Handed(i)
    BY <1>24, SMTT(20) DEF Forget
  <2>2. Handing(j)'
    BY <1>24, SMTT(20) DEF Forget, Handing, Pictures
  <2> QED BY <2>1, <2>2
<1>25. ASSUME NEW j \in Jobs, Disconnect(j) PROVE Alone(j)
  <2>1. \A i \in Jobs \ {j} : UNCHANGED Handed(i)
    BY <1>25, SMTT(20) DEF Disconnect
  <2>2. Handing(j)'
    BY <1>25, SMTT(20) DEF Disconnect, Handing, Pictures
  <2> QED BY <2>1, <2>2
<1>26. ASSUME NEW j \in Jobs, DropDelete(j) PROVE Alone(j)
  <2>1. \A i \in Jobs \ {j} : UNCHANGED Handed(i)
    BY <1>26, SMTT(20) DEF DropDelete
  <2>2. Handing(j)'
    BY <1>26, SMTT(20) DEF DropDelete, Handing, Pictures
  <2> QED BY <2>1, <2>2
<1>27. ASSUME NEW j \in Jobs, SetAvatar(j) PROVE \A i \in Jobs : Handing(i)'
  <2>1. kind[j] = "avatar" /\ kind' = kind /\ (avatar # None => kind[avatar] = "avatar")
    BY <1>27 DEF SetAvatar, FilesInv, Replaced, Named
  <2>2. ASSUME NEW i \in Jobs, kind[i] \in Pictures PROVE UNCHANGED Handed(i)
    <3>1. i # j /\ i # avatar
      BY <2>1, <2>2, MediaAssumption DEF Pictures
    <3> QED BY <1>27, <3>1 DEF SetAvatar
  <2> QED BY <2>1, <2>2, HandingKept DEF Handing
<1>28. ASSUME Reprice \/ SwitchBackend \/ UNCHANGED mediaVars PROVE \A i \in Jobs : Handing(i)'
  <2>1. \A i \in Jobs : UNCHANGED Handed(i)
    BY <1>28 DEF Reprice, SwitchBackend, mediaVars
  <2> QED BY <2>1, HandingKept
<1>29. ASSUME Crash PROVE \A i \in Jobs : Handing(i)'
  BY <1>29, SMTT(20) DEF Crash, Handing
<1>30. ASSUME Boot PROVE \A i \in Jobs : Handing(i)'
  BY <1>30, SMTT(20) DEF Boot, Live, Handing
<1> QED
  <2> HIDE <1>0, <1>00
  <2> QED
    BY ONLY [Next]_mediaVars, <1>01,
       <1>1, <1>2, <1>3, <1>4, <1>5, <1>6, <1>7, <1>8, <1>9, <1>10, <1>11, <1>12, <1>13, <1>14, <1>15, <1>16, <1>17, <1>18, <1>19, <1>20, <1>21, <1>22, <1>23, <1>24, <1>25, <1>26, <1>27, <1>28, <1>29, <1>30, Zenon
    DEF Next, JobStep, AskStep, CallStep, StoreStep, FailStep, ExportStep, AvatarStep, DeleteStep

LEMMA StageKept ==
    ASSUME UNCHANGED <<paid, refunds>>,
           \A j \in Jobs : paid[j] # 0 => (Delivered(j)' <=> Delivered(j))
    PROVE  stage' = stage
<1>1. \A j \in Jobs : stage'[j] = stage[j]
  BY DEF stage
<1>2. stage = [j \in Jobs |-> stage[j]] /\ stage' = [j \in Jobs |-> stage'[j]]
  BY DEF stage
<1> HIDE DEF stage
<1> QED BY <1>1, <1>2

LEMMA OneMove ==
    ASSUME NEW j \in Jobs, NEW from, NEW to, stage[j] = from, stage'[j] = to,
           \A i \in Jobs \ {j} : /\ paid'[i] = paid[i] /\ refunds'[i] = refunds[i]
                                 /\ Delivered(i)' <=> Delivered(i)
    PROVE  EscrowOf!Move(j, from, to)
<1>1. \A i \in Jobs \ {j} : stage'[i] = stage[i]
  BY DEF stage
<1>2. stage = [i \in Jobs |-> stage[i]] /\ stage' = [i \in Jobs |-> stage'[i]]
  BY DEF stage
<1> HIDE DEF stage
<1> QED BY <1>1, <1>2 DEF EscrowOf!Move

(* Only a payment, a refund and a hand-over move a job to another stage.   *)
LEMMA EscrowStep ==
    ASSUME MoneyInv, FilesInv, \A j \in Jobs : Handing(j), [Next]_mediaVars
    PROVE  [EscrowOf!Next]_stage
<1>0. /\ row \in [Jobs -> RowStates] /\ kept \in [Jobs -> SUBSET Objects]
      /\ paid \in [Jobs -> Nat] /\ refunds \in [Jobs -> Nat] /\ price \in [Models -> Nat]
      /\ kind \in [Jobs -> AllKinds \cup {"none"}]
  BY DEF MoneyInv, TypeOK
<1>00. \A j \in Jobs : /\ Paying(j) /\ Refunding(j) /\ Owned(j) /\ Handing(j)
                       /\ paid[j] # 0 => kind[j] \in Pictures
  BY DEF MoneyInv, Sound, FilesInv, Paying
<1>1. CASE UNCHANGED <<paid, refunds, row, kept>>
  BY <1>1, StageKept DEF Delivered
<1>2. ASSUME NEW j \in Jobs, Deduct(j) PROVE [EscrowOf!Next]_stage
  <2>1. paid[j] = 0 /\ refunds[j] = 0 /\ ~Delivered(j)
    BY <1>0, <1>00, <1>2 DEF Deduct, At, Paying, Refunding, Handing
  <2>2. UNCHANGED <<refunds, row, kept>>
    BY <1>2 DEF Deduct, rows
  <2>3. CASE paid' = paid
    BY <2>2, <2>3, StageKept DEF Delivered
  <2>4. CASE price["model"] > 0 /\ paid' = [paid EXCEPT ![j] = price["model"]]
    <3>1. paid'[j] # 0 /\ \A i \in Jobs \ {j} : paid'[i] = paid[i]
      BY <1>0, <2>4 DEF Models
    <3>2. stage[j] = "unpaid" /\ stage'[j] = "held"
      BY <2>1, <2>2, <3>1 DEF stage, Delivered
    <3>3. EscrowOf!Move(j, "unpaid", "held")
      BY <2>2, <3>1, <3>2, OneMove DEF Delivered
    <3> QED BY <3>3 DEF EscrowOf!Next, EscrowOf!Pay
  <2> QED BY <1>2, <2>3, <2>4 DEF Deduct
<1>3. ASSUME NEW j \in Jobs, Refund(j) PROVE [EscrowOf!Next]_stage
  <2>1. UNCHANGED <<paid, row, kept>>
    BY <1>3 DEF Refund, rows, money
  <2>2. CASE refunds' = refunds
    BY <2>1, <2>2, StageKept DEF Delivered
  <2>3. CASE shared[j] /\ refunds' = [refunds EXCEPT ![j] = @ + 1]
    <3>1. pc[j] = "refund" /\ paid[j] > 0 /\ refunds[j] = 0 /\ ~Delivered(j)
      BY <1>0, <1>00, <1>3, <2>3 DEF Refund, At, Paying, Refunding, Handing
    <3>2. refunds'[j] # 0 /\ \A i \in Jobs \ {j} : refunds'[i] = refunds[i]
      BY <1>0, <2>3
    <3>3. stage[j] = "held" /\ stage'[j] = "refunded"
      BY <1>0, <2>1, <3>1, <3>2 DEF stage, Delivered
    <3>4. EscrowOf!Move(j, "held", "refunded")
      BY <2>1, <3>2, <3>3, OneMove DEF Delivered
    <3> QED BY <3>4 DEF EscrowOf!Next, EscrowOf!Refund
  <2> QED BY <1>3, <2>2, <2>3 DEF Refund, money
<1>4. ASSUME NEW j \in Jobs, Done(j) PROVE [EscrowOf!Next]_stage
  <2>1. UNCHANGED <<paid, refunds>>
    BY <1>4 DEF Done, money
  <2>2. \A i \in Jobs \ {j} : row'[i] = row[i] /\ kept'[i] = kept[i]
    BY <1>0, <1>4 DEF Done, SetRow, rows
  <2>3. CASE paid[j] # 0 /\ row[j] # "done" /\ row'[j] = "done"
    <3>1. pc[j] = "done" /\ refunds[j] = 0 /\ ~Delivered(j)
      BY <1>0, <1>00, <1>4, <2>3 DEF Done, At, Refunding, Handing
    <3>2. stage[j] = "held" /\ stage'[j] = "delivered"
      BY <2>1, <2>3, <3>1 DEF stage, Delivered
    <3>3. EscrowOf!Move(j, "held", "delivered")
      BY <2>1, <2>2, <3>2, OneMove DEF Delivered
    <3> QED BY <3>3 DEF EscrowOf!Next, EscrowOf!Deliver
  <2>4. CASE paid[j] = 0 \/ row[j] = "done" \/ row'[j] # "done"
    <3>1. pc[j] = "done"
      BY <1>4 DEF Done, At
    <3>2. paid[j] # 0 => ~Delivered(j)
      BY <1>00, <3>1 DEF Handing
    <3>3. row'[j] # "done" => UNCHANGED <<row, kept>> \/ kept'[j] = {}
      BY <1>0, <1>4 DEF Done, rows
    <3>4. paid[j] # 0 => ~Delivered(j)'
      BY <2>4, <3>2, <3>3 DEF Delivered
    <3> QED BY <2>1, <2>2, <3>2, <3>4, StageKept DEF Delivered
  <2> QED BY <2>3, <2>4
<1>5. ASSUME NEW j \in Jobs, Insert(j) \/ Start(j) \/ MarkFailed(j) \/ Queue(j)
      PROVE  [EscrowOf!Next]_stage
  <2>1. /\ UNCHANGED <<paid, refunds, kept>> /\ \A i \in Jobs \ {j} : row'[i] = row[i]
        /\ pc[j] \notin {"idle", "over"} /\ (row'[j] = row[j] \/ row'[j] \notin {"done", "deleted"})
    BY <1>0, <1>5 DEF Insert, Start, MarkFailed, Queue, At, SetRow, money
  <2>2. paid[j] # 0 => ~Delivered(j)
    BY <1>00, <2>1 DEF Handing
  <2> QED BY <2>1, <2>2, StageKept DEF Delivered
<1>6. ASSUME NEW j \in Jobs, DeleteRow(j) \/ Forget(j) PROVE [EscrowOf!Next]_stage
  <2>1. /\ UNCHANGED <<paid, refunds, kept>> /\ \A i \in Jobs \ {j} : row'[i] = row[i]
        /\ row'[j] = row[j] \/ row'[j] = "deleted"
    BY <1>0, <1>6 DEF DeleteRow, Forget, SetRow, money
  <2>2. kind[j] \in Pictures => kind[j] = "studio"
    BY <1>00, <1>6 DEF DeleteRow, Forget, Owned, Pictures
  <2>3. paid[j] # 0 => (Delivered(j)' <=> Delivered(j))
    BY <1>00, <2>1, <2>2 DEF Handing, Delivered
  <2> QED BY <2>1, <2>3, StageKept DEF Delivered
<1>7. ASSUME NEW j \in Jobs, SetAvatar(j) PROVE [EscrowOf!Next]_stage
  <2>1. UNCHANGED <<paid, refunds>>
    BY <1>7 DEF SetAvatar, money
  <2>2. kind[j] = "avatar" /\ (avatar # None => kind[avatar] = "avatar")
    BY <1>7 DEF SetAvatar, FilesInv, Replaced, Named
  <2>3. ASSUME NEW i \in Jobs, paid[i] # 0 PROVE row'[i] = row[i] /\ kept'[i] = kept[i]
    <3>1. i # j /\ i # avatar
      BY <1>00, <2>2, <2>3, MediaAssumption DEF Pictures
    <3> QED BY <1>0, <1>7, <3>1 DEF SetAvatar, rows
  <2> QED BY <2>1, <2>3, StageKept DEF Delivered
<1>8. CASE Boot
  <2>1. /\ UNCHANGED <<paid, refunds, kept>>
        /\ \A i \in Jobs : row'[i] = row[i] \/ (row[i] \in Live /\ row'[i] = "failed")
    BY <1>0, <1>8 DEF Boot, money
  <2> QED BY <2>1, StageKept DEF Delivered, Live
<1>9. \/ UNCHANGED <<paid, refunds, row, kept>> \/ Boot
      \/ \E j \in Jobs : Deduct(j) \/ Refund(j) \/ Done(j) \/ SetAvatar(j)
      \/ \E j \in Jobs : Insert(j) \/ Start(j) \/ MarkFailed(j) \/ Queue(j)
      \/ \E j \in Jobs : DeleteRow(j) \/ Forget(j)
  BY ZenonT(60) DEF Next, JobStep, AskStep, CallStep, StoreStep, FailStep, ExportStep, AvatarStep,
     DeleteStep, Request, Answered, Refused, Retry, OpenStore, Stored, NotStored, Undo, Load,
     Rendered, RenderFailed, Previous, Tidy, AskDelete, DeleteFile, Disconnect, DropDelete,
     Reprice, SwitchBackend, Crash, OnlyStep, mediaVars, rows, money
<1> QED BY <1>1, <1>2, <1>3, <1>4, <1>5, <1>6, <1>7, <1>8, <1>9

(* Every step of every picture job is a step of the escrow or leaves it    *)
(* alone, for any prices, failures, lost clients, deletions and restarts:  *)
(* a price is held, then earned by a hand-over or given back, and neither  *)
(* is undone (start_*_job, submit_generate, cleanup_stale_jobs,            *)
(* delete_generation).                                                     *)
THEOREM PicturesKeepEscrow == Spec => ImplementsEscrow
<1>1. Init => EscrowOf!Init
  BY DEF Init, EscrowOf!Init, stage
<1> DEFINE Hands == \A j \in Jobs : Handing(j)
<1>2. Init => MoneyInv /\ FilesInv /\ Hands
  BY MoneyInit, FilesInit, HandingInit
<1>3. MoneyInv /\ FilesInv /\ Hands /\ [Next]_mediaVars => (MoneyInv /\ FilesInv /\ Hands)'
  BY MoneyStep, FilesStep, HandingStep
<1>4. MoneyInv /\ FilesInv /\ Hands /\ [Next]_mediaVars => [EscrowOf!Next]_stage
  BY EscrowStep
<1> HIDE DEF Hands
<1> QED BY <1>1, <1>2, <1>3, <1>4, PTL DEF Spec, ImplementsEscrow, EscrowOf!Spec
=============================================================================
