------------------------------ MODULE MediaJobs ------------------------------
(***************************************************************************)
(* What makes and keeps media beside the video jobs: synchronous image     *)
(* proxies and image jobs (src/images.rs), studio generations              *)
(* (src/studio.rs), uploads and FFmpeg exports of the video editor         *)
(* (src/video_editor.rs) and avatars (src/profile.rs), over one store. A   *)
(* job is one request and the task it spawns, one step is one statement or *)
(* one call.                                                               *)
(***************************************************************************)
EXTENDS MediaStorage

CONSTANTS
    Jobs,        \* requests
    None,        \* no job
    Kinds,       \* what each of them may ask for
    Prices,      \* what an admin may charge for a picture; 0: not offered
    MaxAttempts, \* a studio task's calls of its upstream (MAX_ATTEMPTS)
    MaxFiles,    \* pictures in one answer
    Slots,       \* media_process_slots
    Faults,      \* "db", "disconnect", "crash", "store": a put or a delete
    MaxMishaps,  \* how many times something goes wrong
    MaxChanges   \* how many times an admin changes a price or the backend

AllKinds == {"sync", "image", "responses", "studio", "export", "upload", "save", "avatar"}
Models == {"model", "alias"}  \* the client's name of a model and its channel's

ASSUME MediaAssumption ==
    /\ Kinds \in [Jobs -> SUBSET AllKinds]
    /\ Prices \subseteq Nat
    /\ MaxAttempts \in Nat /\ MaxFiles \in Nat \ {0} /\ Slots \in Nat
    /\ MaxMishaps \in Nat /\ MaxChanges \in Nat
    /\ None \notin Jobs
    /\ Objects = Jobs \X (1..MaxFiles)

VARIABLES
    row,       \* the job's row in image_jobs, studio_generations, video_editor_exports or media_library_assets; for a proxy and an avatar, whether its picture was handed over
    kept,      \* the objects its row names
    pc, kind, model, shared, attempt, via,  \* the locals of its handler and task
    made,      \* the objects its task has stored
    src,       \* the object an export cuts, the avatar an upload replaces
    paid, back, refunds, why,  \* ghosts: charged, given back, how often, and what stood in the way
    avatar,    \* users.avatar_url
    removing,  \* where delete_export stands
    price,     \* model_prices
    slots, up, mishaps, changes

rows == <<row, kept>>
locals == <<kind, model, shared, attempt, via, made, src>>
money == <<paid, back, refunds>>
bounds == <<mishaps, changes>>
shop == <<avatar, removing, price, slots, up>>
mediaVars == <<storage, rows, pc, locals, money, why, shop, bounds>>

Positions == {"idle", "deduct", "insert", "start", "call", "queue", "load", "render", "open",
              "store", "previous", "done", "undo", "fail", "failPaid", "refund", "tidy", "over"}
RowStates == {"none", "pending", "running", "done", "failed", "deleted"}
Causes == {"none", "db", "crash", "disconnect", "unpriced", "repriced", "kept"}
Live == {"pending", "running"}

TypeOK ==
    /\ StorageTypeOK
    /\ row \in [Jobs -> RowStates] /\ kept \in [Jobs -> SUBSET Objects]
    /\ pc \in [Jobs -> Positions] /\ kind \in [Jobs -> AllKinds \cup {"none"}]
    /\ model \in [Jobs -> Models] /\ shared \in [Jobs -> BOOLEAN]
    /\ attempt \in [Jobs -> 0..MaxAttempts] /\ via \in [Jobs -> Backends]
    /\ made \in [Jobs -> SUBSET Objects] /\ src \in [Jobs -> SUBSET Objects]
    /\ paid \in [Jobs -> Nat] /\ back \in [Jobs -> Nat] /\ refunds \in [Jobs -> Nat]
    /\ why \in [Jobs -> Causes]
    /\ avatar \in Jobs \cup {None} /\ removing \in [Jobs -> {"no", "file", "row"}]
    /\ price \in [Models -> Nat] /\ slots \in Nat /\ up \in BOOLEAN
    /\ mishaps \in 0..MaxMishaps /\ changes \in 0..MaxChanges

Init ==
    /\ StorageInit
    /\ row = [j \in Jobs |-> "none"] /\ kept = [j \in Jobs |-> {}]
    /\ pc = [j \in Jobs |-> "idle"] /\ kind = [j \in Jobs |-> "none"]
    /\ model = [j \in Jobs |-> "model"] /\ shared = [j \in Jobs |-> FALSE]
    /\ attempt = [j \in Jobs |-> 0] /\ via = [j \in Jobs |-> "local"]
    /\ made = [j \in Jobs |-> {}] /\ src = [j \in Jobs |-> {}]
    /\ paid = [j \in Jobs |-> 0] /\ back = [j \in Jobs |-> 0]
    /\ refunds = [j \in Jobs |-> 0] /\ why = [j \in Jobs |-> "none"]
    /\ avatar = None /\ removing = [j \in Jobs |-> "no"]
    /\ price \in [Models -> Prices \ {0}] /\ slots = Slots /\ up = TRUE
    /\ mishaps = 0 /\ changes = 0

Goto(j, label) == pc' = [pc EXCEPT ![j] = label]
Fine == UNCHANGED bounds
Mishap(f) ==
    /\ f \in Faults /\ mishaps < MaxMishaps
    /\ mishaps' = mishaps + 1 /\ UNCHANGED changes
DbFails == Mishap("db")

(* MediaStorage::delete as its callers see it.                             *)
Removed(o) == (Fine /\ Erase(o)) \/ (Mishap("store") /\ EraseBucket(o))
NotRemoved(o) == Mishap("store") /\ EraseFails(o)
Because(j, cause) == why' = [why EXCEPT ![j] = IF @ = "none" \/ cause = "db" THEN cause ELSE @]

At(j, label) == up /\ pc[j] = label
Tabled(j) == kind[j] \in {"image", "responses", "studio", "export"}
SetRow(j, s) == row' = [row EXCEPT ![j] = IF @ \in {"none", "deleted"} THEN @ ELSE s]
OnlyStep == UNCHANGED <<storage, rows, locals, money, why, shop>>

(* What get_job, get_generation, list_assets and a profile name.           *)
Served(j) == IF row[j] = "done" THEN kept[j] ELSE {}

(* stored_media: what a clip of a project may name - pictures and videos,  *)
(* whoever made them and whether or not they are still listed.             *)
Clips(i) == IF kind[i] = "avatar" THEN {} ELSE kept[i]

-----------------------------------------------------------------------------
(* Requests                                                                *)

(* resolve_image_upstream: with the user's own key nothing is charged. A   *)
(* studio channel may know the model by another name.                      *)
AskPicture(j, k) ==
    /\ k \in {"sync", "image", "responses", "studio"}
    /\ \E s \in BOOLEAN : shared' = [shared EXCEPT ![j] = s] /\
        Goto(j, IF s THEN "deduct" ELSE IF k = "sync" THEN "call" ELSE "insert")
    /\ \E m \in IF k = "studio" THEN Models ELSE {"model"} : model' = [model EXCEPT ![j] = m]
    /\ UNCHANGED <<src, via>>

(* create_export: of a saved project, whose clips name stored media.       *)
AskExport(j) ==
    /\ \E i \in Jobs \ {j} : Clips(i) # {} /\ src' = [src EXCEPT ![j] = Clips(i)]
    /\ Goto(j, "insert")
    /\ UNCHANGED <<model, shared, via>>

(* upload_asset, save_b64_image, upload_avatar: the bytes come with the    *)
(* request.                                                                *)
Upload(j, k) ==
    /\ k \in {"upload", "save", "avatar"}
    /\ via' = [via EXCEPT ![j] = backend]
    /\ Goto(j, "store")
    /\ UNCHANGED <<model, shared, src>>

Request(j) ==
    /\ At(j, "idle")
    /\ \E k \in Kinds[j] :
        /\ kind' = [kind EXCEPT ![j] = k]
        /\ AskPicture(j, k) \/ (k = "export" /\ AskExport(j)) \/ Upload(j, k)
    /\ UNCHANGED <<storage, rows, attempt, made, money, why, shop, bounds>>

(* try_deduct_per_call: a model without a price is refused, and so is an   *)
(* account without the quota (Quota).                                      *)
Deduct(j) ==
    /\ At(j, "deduct") /\ Fine
    /\ \/ /\ price["model"] > 0
          /\ paid' = [paid EXCEPT ![j] = price["model"]]
          /\ Goto(j, IF kind[j] = "sync" THEN "call" ELSE "insert")
       \/ Goto(j, "over") /\ UNCHANGED paid
    /\ UNCHANGED <<storage, rows, locals, back, refunds, why, shop>>

(* Mutant of InsertLost: the image handlers do not refund either.          *)
InsertLostUnpaid(j) == Goto(j, "over") /\ UNCHANGED why

(* insert_job gives the charge back when it fails, insert_pending does not.*)
InsertLost(j) ==
    IF shared[j] /\ kind[j] \in {"image", "responses"}
    THEN Goto(j, "refund") /\ UNCHANGED why
    ELSE Goto(j, "over") /\ Because(j, "kept")

Insert(j) ==
    /\ At(j, "insert")
    /\ \/ /\ Fine /\ row' = [row EXCEPT ![j] = "pending"] /\ UNCHANGED why
          /\ Goto(j, CASE kind[j] = "export" -> "queue"
                       [] kind[j] = "studio" -> "call"
                       [] OTHER -> "start")
       \/ DbFails /\ InsertLost(j) /\ UNCHANGED row
    /\ UNCHANGED <<storage, kept, locals, money, shop>>

-----------------------------------------------------------------------------
(* The calls and what becomes of their answers                             *)

(* mark_running, its error ignored.                                        *)
Start(j) ==
    /\ At(j, "start") /\ Goto(j, "call")
    /\ (Fine /\ SetRow(j, "running")) \/ (DbFails /\ UNCHANGED row)
    /\ UNCHANGED <<storage, kept, locals, money, why, shop>>

(* A failure is marked first in the studio, refunded first in an image     *)
(* job; a proxy has no row.                                                *)
Failing(j) == IF kind[j] \in {"sync", "image", "responses"} THEN "refund" ELSE "fail"

(* An answer with pictures, or - responses - with text alone.              *)
Answered(j) ==
    /\ At(j, "call") /\ Fine
    /\ Goto(j, "open") \/ (kind[j] = "responses" /\ Goto(j, "done"))
    /\ OnlyStep

(* A studio task tries again what may pass; an answer it cannot use is     *)
(* failed and stays paid.                                                  *)
Refused(j) ==
    /\ At(j, "call") /\ Fine
    /\ \/ Goto(j, Failing(j)) /\ UNCHANGED why
       \/ kind[j] = "studio" /\ Goto(j, "failPaid") /\ Because(j, "kept")
    /\ UNCHANGED <<storage, rows, locals, money, shop>>
Retry(j) ==
    /\ At(j, "call") /\ Fine /\ kind[j] = "studio" /\ attempt[j] < MaxAttempts
    /\ attempt' = [attempt EXCEPT ![j] = @ + 1]
    /\ UNCHANGED <<storage, rows, pc, kind, model, shared, via, made, src, money, why, shop>>

(* The backend of a put is the one that is configured when it begins.      *)
OpenStore(j) ==
    /\ At(j, "open") /\ Fine /\ Goto(j, "store")
    /\ via' = [via EXCEPT ![j] = backend]
    /\ UNCHANGED <<storage, rows, kind, model, shared, attempt, made, src, money, why, shop>>

Wants(j) == IF kind[j] \in {"sync", "image", "responses"} THEN MaxFiles ELSE 1
Permit(j) == IF kind[j] = "export" THEN slots' = slots + 1 ELSE UNCHANGED slots

Stored(j) ==
    /\ At(j, "store") /\ Fine
    /\ \E o \in ({j} \X (1..MaxFiles)) \ made[j] :
        Put(o, via[j]) /\ made' = [made EXCEPT ![j] = @ \cup {o}]
    /\ \/ /\ Goto(j, IF kind[j] = "avatar" THEN "previous" ELSE "done")
          /\ Permit(j)
       \/ Cardinality(made[j]) + 1 < Wants(j) /\ Goto(j, "open") /\ UNCHANGED slots
    /\ UNCHANGED <<backend, left, survivors, rows, kind, model, shared, attempt, via, src, money, why, avatar, removing, price, up>>

(* A picture that cannot be decoded or stored: image jobs give up, with    *)
(* what they have stored; responses skip it and fail with nothing; the     *)
(* studio fails and keeps the charge.                                      *)
NotStored(j) ==
    /\ At(j, "store")
    /\ (Fine /\ kind[j] \in {"sync", "image", "responses", "studio"}) \/ Mishap("store")
    /\ CASE kind[j] = "responses" /\ made[j] # {} -> Goto(j, "done")
         [] kind[j] \in {"upload", "save", "avatar"} -> Goto(j, "over")
         [] kind[j] = "studio" -> Goto(j, "failPaid")
         [] OTHER -> Goto(j, Failing(j))
    /\ IF kind[j] = "studio" THEN Because(j, "kept") ELSE UNCHANGED why
    /\ Permit(j)
    /\ UNCHANGED <<storage, rows, locals, money, avatar, removing, price, up>>

(* mark_done, finalize_done, update_export, insert_library_asset; an       *)
(* upload whose row cannot be written is taken back.                       *)
Done(j) ==
    /\ At(j, "done") /\ kind[j] # "avatar"
    /\ \/ /\ Fine /\ Goto(j, "over") /\ UNCHANGED why
          /\ IF Tabled(j) THEN SetRow(j, "done") ELSE row' = [row EXCEPT ![j] = "done"]
          /\ kept' = [kept EXCEPT ![j] = IF row'[j] = "done" THEN made[j] ELSE {}]
       \/ /\ kind[j] \notin {"sync", "save"} /\ DbFails /\ Because(j, "db") /\ UNCHANGED rows
          /\ Goto(j, IF kind[j] = "upload" THEN "undo" ELSE "over")
    /\ UNCHANGED <<storage, locals, money, shop>>

Undo(j) ==
    /\ At(j, "undo") /\ Goto(j, "over")
    /\ \E o \in made[j] : Removed(o) \/ NotRemoved(o)
    /\ UNCHANGED <<backend, left, rows, locals, money, why, shop>>

-----------------------------------------------------------------------------
(* Failures                                                                *)

(* mark_failed, finalize_failed, update_export.                            *)
MarkFailed(j) ==
    /\ At(j, "fail") \/ At(j, "failPaid")
    /\ Goto(j, IF kind[j] = "studio" /\ pc[j] = "fail" THEN "refund" ELSE "over")
    /\ \/ Fine /\ SetRow(j, "failed") /\ UNCHANGED why
       \/ DbFails /\ Because(j, "db") /\ UNCHANGED row
    /\ UNCHANGED <<storage, kept, locals, money, shop>>

(* Mutant of AfterRefund: a studio task takes the image jobs' way back.     *)
RefundThenFail(j) == IF row[j] = "none" THEN "over" ELSE "fail"

AfterRefund(j) == IF kind[j] = "image" \/ kind[j] = "responses"
                  THEN IF row[j] = "none" THEN "over" ELSE "fail"
                  ELSE "over"

(* refund_image_quota, and the studio's copies of it: the price is read    *)
(* again, in the studio under the channel's name of the model.             *)
Refund(j) ==
    LET p == price[model[j]] IN
    /\ At(j, "refund") /\ Goto(j, AfterRefund(j))
    /\ \/ Fine /\ ~shared[j] /\ UNCHANGED <<money, why>>
       \/ Fine /\ shared[j] /\ p = 0 /\ Because(j, "unpriced") /\ UNCHANGED money
       \/ /\ Fine /\ shared[j] /\ p > 0
          /\ back' = [back EXCEPT ![j] = @ + p]
          /\ refunds' = [refunds EXCEPT ![j] = @ + 1]
          /\ IF p # paid[j] THEN Because(j, "repriced") ELSE UNCHANGED why
          /\ UNCHANGED paid
       \/ DbFails /\ shared[j] /\ Because(j, "db") /\ UNCHANGED money
    /\ UNCHANGED <<storage, rows, locals, shop>>

-----------------------------------------------------------------------------
(* Exports: run_export_job and render_snapshot                             *)

Queue(j) ==
    /\ At(j, "queue") /\ slots > 0 /\ slots' = slots - 1
    /\ Goto(j, "load")
    /\ (Fine /\ SetRow(j, "running")) \/ (DbFails /\ UNCHANGED row)
    /\ UNCHANGED <<storage, kept, locals, money, why, avatar, removing, price, up>>

(* write_media_input reads every clip's object.                            *)
Load(j) ==
    /\ At(j, "load") /\ Fine
    /\ IF \A o \in src[j] : Readable(o) THEN Goto(j, "render") /\ UNCHANGED slots
                                        ELSE Goto(j, "fail") /\ slots' = slots + 1
    /\ UNCHANGED <<storage, rows, locals, money, why, avatar, removing, price, up>>

(* Mutant of RenderFailed: the permit is kept when FFmpeg fails.           *)
RenderHeld(j) == At(j, "render") /\ Fine /\ Goto(j, "fail") /\ OnlyStep

(* FFmpeg ends, fails or is stopped by its timeout.                        *)
Rendered(j) == At(j, "render") /\ Fine /\ Goto(j, "open") /\ OnlyStep
RenderFailed(j) ==
    /\ At(j, "render") /\ Fine /\ Goto(j, "fail") /\ slots' = slots + 1
    /\ UNCHANGED <<storage, rows, locals, money, why, avatar, removing, price, up>>

(* delete_export reads a finished row, deletes the video, deletes the row. *)
AskDelete(j) ==
    /\ up /\ Fine /\ kind[j] = "export" /\ removing[j] = "no" /\ row[j] \in {"done", "failed"}
    /\ removing' = [removing EXCEPT ![j] = IF kept[j] # {} THEN "file" ELSE "row"]
    /\ UNCHANGED <<storage, rows, pc, locals, money, why, avatar, price, slots, up>>

DeleteFile(j) ==
    /\ up /\ removing[j] = "file"
    /\ \E o \in kept[j] :
          \/ Removed(o) /\ removing' = [removing EXCEPT ![j] = "row"]
          \/ NotRemoved(o) /\ removing' = [removing EXCEPT ![j] = "no"]
    /\ UNCHANGED <<backend, left, rows, pc, locals, money, why, avatar, price, slots, up>>

DeleteRow(j) ==
    /\ up /\ removing[j] = "row" /\ removing' = [removing EXCEPT ![j] = "no"]
    /\ (Fine /\ SetRow(j, "deleted")) \/ (DbFails /\ UNCHANGED row)
    /\ UNCHANGED <<storage, kept, pc, locals, money, why, avatar, price, slots, up>>

(* delete_generation, delete_asset: the row goes, whatever its task does,  *)
(* and the object stays.                                                   *)
Forget(j) ==
    /\ up /\ Fine /\ kind[j] \in {"studio", "upload"} /\ row[j] # "deleted"
    /\ row[j] # "none" /\ SetRow(j, "deleted")
    /\ UNCHANGED <<storage, kept, pc, locals, money, why, shop>>

-----------------------------------------------------------------------------
(* Avatars: upload_avatar                                                  *)

(* The picture to be replaced; an error counts as none.                    *)
Previous(j) ==
    /\ At(j, "previous") /\ Goto(j, "done")
    /\ \/ Fine /\ src' = [src EXCEPT ![j] = IF avatar = None THEN {} ELSE kept[avatar]]
       \/ DbFails /\ UNCHANGED src
    /\ UNCHANGED <<storage, rows, kind, model, shared, attempt, via, made, money, why, shop>>

(* Mutant of SetAvatar: the old picture is deleted even where the row      *)
(* could not be written and still names it.                                *)
TidyAnyway(j) ==
    /\ At(j, "done") /\ kind[j] = "avatar" /\ Goto(j, "tidy")
    /\ \/ /\ Fine /\ avatar' = j
          /\ row' = [i \in Jobs |-> IF i = j THEN "done"
                                    ELSE IF i = avatar THEN "deleted" ELSE row[i]]
          /\ kept' = [kept EXCEPT ![j] = made[j]]
       \/ DbFails /\ UNCHANGED <<rows, avatar>>
    /\ UNCHANGED <<storage, locals, money, why, removing, price, slots, up>>

SetAvatar(j) ==
    /\ At(j, "done") /\ kind[j] = "avatar"
    /\ \/ /\ Fine /\ Goto(j, "tidy") /\ avatar' = j
          /\ row' = [i \in Jobs |-> IF i = j THEN "done"
                                    ELSE IF i = avatar THEN "deleted" ELSE row[i]]
          /\ kept' = [kept EXCEPT ![j] = made[j]]
       \/ DbFails /\ Goto(j, "undo") /\ UNCHANGED <<rows, avatar>>
    /\ UNCHANGED <<storage, locals, money, why, removing, price, slots, up>>

Tidy(j) ==
    /\ At(j, "tidy") /\ Goto(j, "over")
    /\ \/ \E o \in src[j] : Removed(o) \/ NotRemoved(o)
       \/ Fine /\ src[j] = {} /\ UNCHANGED <<places, survivors>>
    /\ UNCHANGED <<backend, left, rows, locals, money, why, shop>>

-----------------------------------------------------------------------------
(* The admin and the world                                                 *)

Change == changes < MaxChanges /\ changes' = changes + 1 /\ UNCHANGED mishaps
Reprice ==
    /\ up /\ Change /\ \E m \in Models, p \in Prices : price' = [price EXCEPT ![m] = p]
    /\ UNCHANGED <<storage, rows, pc, locals, money, why, avatar, removing, slots, up>>
SwitchBackend ==
    /\ up /\ Change /\ Reconfigure
    /\ UNCHANGED <<rows, pc, locals, money, why, shop>>

(* A handler is dropped when its client goes away; spawned tasks are not.  *)
InHandler(j) ==
    \/ kind[j] \in {"sync", "upload", "save", "avatar"}
    \/ pc[j] \in {"deduct", "insert"} \/ (pc[j] = "refund" /\ row[j] = "none")
Disconnect(j) ==
    /\ up /\ pc[j] \notin {"idle", "over"} /\ InHandler(j) /\ Mishap("disconnect")
    /\ Goto(j, "over") /\ Because(j, "disconnect")
    /\ UNCHANGED <<storage, rows, locals, money, shop>>
DropDelete(j) ==
    /\ up /\ removing[j] # "no" /\ Mishap("disconnect")
    /\ removing' = [removing EXCEPT ![j] = "no"]
    /\ UNCHANGED <<storage, rows, pc, locals, money, why, avatar, price, slots, up>>

Crash ==
    /\ up /\ Mishap("crash") /\ up' = FALSE
    /\ pc' = [j \in Jobs |-> IF pc[j] = "idle" THEN "idle" ELSE "over"]
    /\ why' = [j \in Jobs |-> IF pc[j] \in {"idle", "over"} \/ why[j] # "none"
                             THEN why[j] ELSE "crash"]
    /\ removing' = [j \in Jobs |-> "no"] /\ slots' = Slots
    /\ UNCHANGED <<storage, rows, locals, money, avatar, price>>

(* cleanup_stale_jobs of both tables and recover, their errors ignored: a  *)
(* database that fails here is the same mishap as the crash.               *)
Boot ==
    /\ ~up /\ up' = TRUE
    /\ \/ /\ Fine /\ UNCHANGED why
          /\ row' = [j \in Jobs |-> IF row[j] \in Live THEN "failed" ELSE row[j]]
       \/ /\ Fine /\ "db" \in Faults /\ UNCHANGED row
          /\ why' = [j \in Jobs |-> IF row[j] \in Live THEN "db" ELSE why[j]]
    /\ UNCHANGED <<storage, kept, pc, locals, money, avatar, removing, price, slots>>

AskStep(j) == Deduct(j) \/ Insert(j)
CallStep(j) == Start(j) \/ Answered(j) \/ Refused(j) \/ Retry(j)
StoreStep(j) == OpenStore(j) \/ Stored(j) \/ NotStored(j) \/ Done(j) \/ Undo(j)
FailStep(j) == MarkFailed(j) \/ Refund(j)
ExportStep(j) == Queue(j) \/ Load(j) \/ Rendered(j) \/ RenderFailed(j)
AvatarStep(j) == Previous(j) \/ SetAvatar(j) \/ Tidy(j)
JobStep(j) == AskStep(j) \/ CallStep(j) \/ StoreStep(j) \/ FailStep(j) \/ ExportStep(j) \/ AvatarStep(j)
DeleteStep(j) == AskDelete(j) \/ DeleteFile(j) \/ DeleteRow(j) \/ Forget(j)

Next ==
    \/ \E j \in Jobs : Request(j) \/ JobStep(j) \/ DeleteStep(j) \/ Disconnect(j) \/ DropDelete(j)
    \/ Reprice \/ SwitchBackend \/ Crash \/ Boot

Spec == Init /\ [][Next]_mediaVars

(* The runtime runs every handler and task on, calls have timeouts, a      *)
(* process that dies is started again. Nobody has to ask for anything.     *)
FairSpec == Spec /\ (\A j \in Jobs : WF_mediaVars(JobStep(j))) /\ WF_mediaVars(Boot)

-----------------------------------------------------------------------------
(* Properties                                                              *)

(* Whatever fails, is retried, deleted or cut short by a restart, a job is *)
(* refunded at most once, and never one whose pictures were handed over    *)
(* (start_*_job, submit_generate, cleanup_stale_jobs).                     *)
RefundOnce ==
    \A j \in Jobs : refunds[j] > 0 => refunds[j] = 1 /\ paid[j] > 0 /\ row[j] # "done"

(* The money of every job is accounted for: RefundOnce; and one that was   *)
(* paid, made nothing and was not given back what it cost met a restart, a *)
(* lost client or a database error, a price that had changed, or one of    *)
(* the studio's failures that stay paid.                                   *)
MediaMoneyExplained ==
    /\ RefundOnce
    /\ \A j \in Jobs :
          pc[j] = "over" /\ row[j] \notin {"done", "deleted"} /\ back[j] # paid[j]
              => why[j] # "none"

(* Rows and objects agree across switches of the backend, unless one led   *)
(* away from a bucket. What a finished job, an upload or the profile names *)
(* can be read - an export may be half deleted (with_local_fallback,       *)
(* upload_avatar) - and a deleted export cannot be played any more,        *)
(* wherever it was stored (delete_export), except from a local copy whose  *)
(* removal failed beside a bucket, an error MediaStorage::delete drops.    *)
FilesMatchRows ==
    NothingStranded =>
        \A j \in Jobs :
            /\ kind[j] # "export" => \A o \in Served(j) : Readable(o)
            /\ row[j] = "deleted" /\ kind[j] = "export" =>
                  \A o \in kept[j] : Readable(o) => o \in survivors

(* Every job that has a row ends, unless the row could not be written.     *)
(* Exports wait for a slot, which every export gives back (run_export_job).*)
EveryMediaJobEnds ==
    \A j \in Jobs : row[j] \in Live ~> row[j] \notin Live \/ why[j] = "db"
-----------------------------------------------------------------------------
(* The promise to the user, as the abstract specification Escrow. A job    *)
(* has delivered when its pictures were handed over, also if its row is    *)
(* deleted afterwards.                                                     *)
Delivered(j) == row[j] = "done" \/ (row[j] = "deleted" /\ kept[j] # {})
stage ==
    [j \in Jobs |->
        IF paid[j] = 0 THEN "unpaid"
        ELSE IF refunds[j] = 0
             THEN IF Delivered(j) THEN "delivered" ELSE "held"
             ELSE IF Delivered(j) THEN "void" ELSE "refunded"]

EscrowOf == INSTANCE Escrow WITH Items <- Jobs

(* MediaJobs implements Escrow, whatever fails, is cut off or restarts:    *)
(* the price of a picture is held, then earned by handing it over or given *)
(* back, and neither is ever undone (start_*_job, submit_generate,         *)
(* cleanup_stale_jobs, delete_generation).                                 *)
ImplementsEscrow == EscrowOf!Spec
=============================================================================
