--------------------------------- MODULE Turns ---------------------------------
(***************************************************************************)
(* The turns of one agent session (agent_api.rs, agent_session.rs): a      *)
(* prompt is a command the runtime accepts; the turn it starts appends     *)
(* entries and settles; each settle spawns a task that mirrors the new     *)
(* entries and sets the row to idle. The commands, these tasks, the end of *)
(* the runtime and the deletion of the session all write the same rows.    *)
(* pi runs with --no-session: a new runtime starts an empty transcript.    *)
(***************************************************************************)
EXTENDS Integers, FiniteSets

CONSTANTS
    Calls,         \* requests to prompt, to abort and to stop
    Passes,        \* mirror tasks, one for each settle
    MaxRuns,       \* runtimes the session has one after the other
    MaxEntries,    \* entries in one of their transcripts
    TurnFaults,    \* what can go wrong: "db", "exit", "timeout", "drop", "crash"
    MaxAccidents   \* how many times something goes wrong

ASSUME TurnsAssumption ==
    /\ {MaxRuns, MaxEntries, MaxAccidents} \subseteq Nat /\ Calls \cap Passes = {}

Entries == (1..MaxRuns) \X (1..MaxEntries)
Start == <<0, 0>>         \* no cursor
Cursors == Entries \cup {Start}

VARIABLES
    run, alive,       \* which runtime it is, whether it lives
    closing,          \* the runtimes whose pump has not cleaned up yet
    turning, length,  \* a turn is under way; entries in the runtime's transcript
    row, cursor,      \* agent_sessions: status, cursor
    stored, cascade,  \* agent_entries; whether the database enforces foreign keys
    call, of, what,   \* a request: where it stands, its runtime, its command
    pass, lock,       \* a mirror task: where it stands; who holds a runtime's mirror_lock
    since, upto,      \* the cursor it read, the entries it was given
    next,             \* the first of them it has not written
    unheard,       \* ghost: the last status was wrong as it was written, or was not written
    missed,        \* ghost: entries whose INSERT failed, or that a delete took away
    unread,        \* ghost: the runtimes with a settle that was not mirrored
    remover,          \* delete_session
    accidents

runtimeNow == <<run, alive, closing, turning, length>>
rows == <<row, cursor, stored, cascade>>
calls == <<call, of, what>>
mirrors == <<pass, lock, since, upto, next>>
blames == <<unheard, missed, unread>>
turnVars == <<runtimeNow, rows, calls, mirrors, blames, remover, accidents>>

TurnsTypeOK ==
    /\ run \in 0..MaxRuns /\ alive \in BOOLEAN /\ closing \subseteq 1..MaxRuns
    /\ turning \in BOOLEAN /\ length \in 0..MaxEntries
    /\ row \in {"none", "idle", "running"} /\ cursor \in Cursors
    /\ stored \subseteq Entries /\ cascade \in BOOLEAN
    /\ call \in [Calls -> {"idle", "sent", "givenUp", "accepted", "over"}]
    /\ of \in [Calls \cup Passes -> 0..MaxRuns] /\ what \in [Calls -> {"prompt", "abort", "stop"}]
    /\ pass \in [Passes -> {"idle", "lock", "ask", "insert", "cursor", "status", "over"}]
    /\ lock \in [1..MaxRuns -> SUBSET Passes]
    /\ since \in [Passes -> Cursors] /\ upto \in [Passes -> 0..MaxEntries]
    /\ next \in [Passes -> 1..(MaxEntries + 1)]
    /\ unheard \in BOOLEAN /\ missed \subseteq Entries /\ unread \subseteq 1..MaxRuns
    /\ remover \in {"idle", "entries", "row", "over"} /\ accidents \in 0..MaxAccidents

TurnsInit ==
    /\ run = 0 /\ alive = FALSE /\ closing = {} /\ turning = FALSE /\ length = 0
    /\ row = "idle" /\ cursor = Start /\ stored = {} /\ cascade \in BOOLEAN
    /\ call = [q \in Calls |-> "idle"] /\ of = [q \in Calls \cup Passes |-> 0]
    /\ what \in [Calls -> {"prompt", "abort", "stop"}]
    /\ pass = [p \in Passes |-> "idle"] /\ lock = [r \in 1..MaxRuns |-> {}]
    /\ since = [p \in Passes |-> Start] /\ upto = [p \in Passes |-> 0] /\ next = [p \in Passes |-> 1]
    /\ unheard = FALSE /\ missed = {} /\ unread = {}
    /\ remover = "idle" /\ accidents = 0

Accident(kind) == kind \in TurnFaults /\ accidents < MaxAccidents /\ accidents' = accidents + 1
Well == UNCHANGED accidents

(* What is written is wrong as it is written.                              *)
Wrong(s) == (s = "running") # turning
(* set_status: a row that is gone stays gone, and an UPDATE that fails     *)
(* leaves what was there: its error is dropped.                            *)
SetStatus(s) ==
    \/ row' = (IF row = "none" THEN "none" ELSE s) /\ unheard' = Wrong(s) /\ Well
    \/ UNCHANGED row /\ unheard' = (row # s \/ Wrong(s)) /\ Accident("db")

-----------------------------------------------------------------------------
(* The runtime                                                             *)

Launch ==
    /\ ~alive /\ run < MaxRuns /\ row # "none"
    /\ run' = run + 1 /\ alive' = TRUE /\ turning' = FALSE /\ length' = 0
    /\ UNCHANGED <<closing, rows, calls, mirrors, blames, remover>> /\ Well
AddEntry ==
    /\ alive /\ turning /\ length < MaxEntries /\ length' = length + 1
    /\ UNCHANGED <<run, alive, closing, turning, rows, calls, mirrors, blames, remover>> /\ Well

(* agent_settled: the pump spawns a mirror task.                           *)
SettleTurn(p) ==
    /\ alive /\ turning /\ pass[p] = "idle" /\ turning' = FALSE
    /\ pass' = [pass EXCEPT ![p] = "lock"] /\ of' = [of EXCEPT ![p] = run]
    /\ UNCHANGED <<run, alive, closing, length, rows, call, what, lock, since, upto, next, blames, remover>> /\ Well

(* It exits, or teardown_runtime shuts it down; its pump is told.          *)
Ends == alive' = FALSE /\ turning' = FALSE /\ closing' = closing \cup {run} /\ UNCHANGED <<run, length>>
Exit ==
    /\ alive /\ Accident("exit") /\ Ends
    /\ UNCHANGED <<rows, calls, mirrors, blames, remover>>
(* The end of the pump: the row is idle, waiting commands fail.            *)
PumpCloses(r) ==
    /\ r \in closing /\ closing' = closing \ {r} /\ SetStatus("idle")
    /\ call' = [q \in Calls |-> IF of[q] = r /\ call[q] \in {"sent", "givenUp"} THEN "over" ELSE call[q]]
    /\ UNCHANGED <<run, alive, turning, length, cursor, stored, cascade, of, what, mirrors, missed, unread, remover>>

-----------------------------------------------------------------------------
(* prompt, abort and stop                                                  *)

Send(q) ==
    /\ call[q] = "idle" /\ what[q] # "stop" /\ alive /\ row # "none"
    /\ call' = [call EXCEPT ![q] = "sent"] /\ of' = [of EXCEPT ![q] = run]
    /\ UNCHANGED <<runtimeNow, rows, what, mirrors, blames, remover>> /\ Well
(* The runtime takes the command and the pump delivers its answer, if      *)
(* anybody still waits for it. A prompt during a turn is queued, and is    *)
(* part of it; an abort settles the turn, which is a step of its own.      *)
Accept(q) ==
    /\ call[q] \in {"sent", "givenUp"} /\ alive /\ of[q] = run
    /\ call' = [call EXCEPT ![q] = IF @ = "sent" THEN "accepted" ELSE "over"]
    /\ turning' = (turning \/ what[q] = "prompt")
    /\ unheard' = (unheard \/ (what[q] = "prompt" /\ call[q] = "givenUp"))
    /\ UNCHANGED <<run, alive, closing, length, rows, of, what, mirrors, missed, unread, remover>> /\ Well
(* REQUEST_TIMEOUT: the runtime may still take the command.                *)
GiveUp(q) ==
    /\ call[q] = "sent" /\ Accident("timeout") /\ call' = [call EXCEPT ![q] = "givenUp"]
    /\ UNCHANGED <<runtimeNow, rows, of, what, mirrors, blames, remover>>
(* stop_session: teardown_runtime finds a runtime and shuts it down.       *)
Stop(q) ==
    /\ call[q] = "idle" /\ what[q] = "stop" /\ alive /\ row # "none" /\ Ends
    /\ call' = [call EXCEPT ![q] = "accepted"] /\ of' = [of EXCEPT ![q] = run]
    /\ UNCHANGED <<rows, what, mirrors, blames, remover>> /\ Well
(* Only now the row says so, whatever became of the turn meanwhile.        *)
Record(q) ==
    /\ call[q] = "accepted" /\ call' = [call EXCEPT ![q] = "over"]
    /\ SetStatus(IF what[q] = "prompt" THEN "running" ELSE "idle")
    /\ UNCHANGED <<runtimeNow, cursor, stored, cascade, of, what, mirrors, missed, unread, remover>>
(* The client hangs up and its handler is dropped where it waits: the      *)
(* runtime may still take the command, and what it accepted is not         *)
(* recorded.                                                               *)
HangUp(q) ==
    /\ call[q] \in {"sent", "accepted"} /\ Accident("drop")
    /\ call' = [call EXCEPT ![q] = IF @ = "sent" THEN "givenUp" ELSE "over"]
    /\ unheard' = (unheard \/ (what[q] = "prompt" /\ call[q] = "accepted"))
    /\ UNCHANGED <<runtimeNow, rows, of, what, mirrors, missed, unread, remover>>

-----------------------------------------------------------------------------
(* mirror_entries                                                          *)

PassMoves(p, label) == pass' = [pass EXCEPT ![p] = label]
PassOnly == UNCHANGED <<runtimeNow, calls, remover>>
(* Done or failed, its guard is dropped and the row is set to idle next.   *)
Unlock(p) == PassMoves(p, "status") /\ lock' = [lock EXCEPT ![of[p]] = @ \ {p}]

Lock(p) ==
    /\ lock[of[p]] = {} /\ PassMoves(p, "ask") /\ lock' = [lock EXCEPT ![of[p]] = {p}]
BeginPass(p) ==
    /\ pass[p] = "lock" /\ Lock(p) /\ since' = [since EXCEPT ![p] = cursor]
    /\ UNCHANGED <<rows, of, upto, next, blames>> /\ PassOnly /\ Well

(* get_entries: what was appended after the cursor; all of it if the       *)
(* cursor is not of this runtime. Without a runtime, with no reply in      *)
(* time, or when the cursor cannot be read, the pass has failed.           *)
FirstOf(p) == IF since[p][1] = run THEN since[p][2] + 1 ELSE 1
GetEntries(p) ==
    /\ pass[p] = "ask" /\ alive /\ of[p] = run
    /\ IF FirstOf(p) <= length THEN PassMoves(p, "insert") /\ UNCHANGED lock ELSE Unlock(p)
    /\ next' = [next EXCEPT ![p] = FirstOf(p)] /\ upto' = [upto EXCEPT ![p] = length]
    /\ UNCHANGED <<rows, of, since, blames>> /\ PassOnly /\ Well
GetEntriesFails(p) ==
    /\ pass[p] = "ask" /\ Unlock(p)
    /\ \/ ~(alive /\ of[p] = run) /\ Well
       \/ \E fault \in {"timeout", "db"} : Accident(fault)
    /\ unread' = unread \cup {of[p]}
    /\ UNCHANGED <<rows, of, since, upto, next, unheard, missed>> /\ PassOnly

(* One INSERT: a conflict or an error is passed over.                      *)
Insert(p) ==
    LET e == <<of[p], next[p]>> IN
    /\ pass[p] = "insert" /\ next' = [next EXCEPT ![p] = @ + 1]
    /\ PassMoves(p, IF next[p] = upto[p] THEN "cursor" ELSE "insert")
    /\ \/ stored' = (IF row = "none" /\ cascade THEN stored ELSE stored \cup {e}) /\ UNCHANGED missed /\ Well
       \/ e \notin stored /\ missed' = missed \cup {e} /\ UNCHANGED stored /\ Accident("db")
    /\ UNCHANGED <<row, cursor, cascade, of, lock, since, upto, unheard, unread>> /\ PassOnly

(* Mutant of Reached: the pass resumes after what is in the transcript by  *)
(* the time it has written what it was given.                              *)
ReachedNow(p) == <<of[p], IF of[p] = run THEN length ELSE upto[p]>>
(* The last entry it was given.                                            *)
Reached(p) == <<of[p], upto[p]>>
MoveCursor(p) ==
    /\ pass[p] = "cursor" /\ Unlock(p)
    /\ \/ cursor' = (IF row = "none" THEN cursor ELSE Reached(p)) /\ Well
       \/ UNCHANGED cursor /\ Accident("db")
    /\ UNCHANGED <<row, stored, cascade, of, since, upto, next, blames>> /\ PassOnly

(* Mutant of Rest: a pass that failed leaves the row as it is.             *)
RestMirrored(p) ==
    IF of[p] \in unread THEN UNCHANGED row /\ unheard' = Wrong("idle") /\ Well ELSE SetStatus("idle")
Rest(p) == SetStatus("idle")
(* set_status after the pass, and SessionEvent::Settled.                   *)
EndPass(p) ==
    /\ pass[p] = "status" /\ PassMoves(p, "over") /\ Rest(p)
    /\ UNCHANGED <<cursor, stored, cascade, of, lock, since, upto, next, missed, unread>> /\ PassOnly

-----------------------------------------------------------------------------
(* delete_session: teardown_runtime, then the rows; a DELETE that fails,   *)
(* or a client that hangs up, leaves the rest, and one may try again.      *)
TearDown ==
    /\ remover = "idle" /\ row # "none" /\ remover' = "entries"
    /\ IF alive THEN Ends ELSE UNCHANGED runtimeNow
    /\ UNCHANGED <<rows, calls, mirrors, blames>> /\ Well
DeleteEntries ==
    /\ remover = "entries" /\ remover' = "row" /\ stored' = {} /\ missed' = missed \cup stored
    /\ UNCHANGED <<runtimeNow, row, cursor, cascade, calls, mirrors, unheard, unread>> /\ Well
DeleteRow ==
    /\ remover = "row" /\ remover' = "over" /\ row' = "none"
    /\ stored' = IF cascade THEN {} ELSE stored
    /\ UNCHANGED <<runtimeNow, cursor, cascade, calls, mirrors, blames>> /\ Well
DeleteStops ==
    /\ remover \in {"entries", "row"} /\ remover' = "idle"
    /\ \E fault \in {"db", "drop"} : Accident(fault)
    /\ UNCHANGED <<runtimeNow, rows, calls, mirrors, blames>>

(* reset_running_sessions: when its UPDATE fails, the error is only told.  *)
Reset ==
    \/ row' = (IF row = "running" THEN "idle" ELSE row) /\ unheard' = FALSE
    \/ "db" \in TurnFaults /\ UNCHANGED row /\ unheard' = (row = "running")
(* The server dies, runtimes and tasks with it, and starts again.          *)
Restart ==
    /\ Accident("crash") /\ alive' = FALSE /\ turning' = FALSE /\ closing' = {} /\ Reset
    /\ call' = [q \in Calls |-> IF call[q] = "idle" THEN "idle" ELSE "over"]
    /\ pass' = [p \in Passes |-> IF pass[p] = "idle" THEN "idle" ELSE "over"]
    /\ lock' = [r \in 1..MaxRuns |-> {}]
    /\ unread' = IF \E p \in Passes : pass[p] \notin {"idle", "over"} THEN unread \cup 1..MaxRuns ELSE unread
    /\ remover' = IF remover = "over" THEN "over" ELSE "idle"
    /\ UNCHANGED <<run, length, cursor, stored, cascade, of, what, since, upto, next, missed>>

CallStep == \E q \in Calls : Send(q) \/ Accept(q) \/ GiveUp(q) \/ Stop(q) \/ Record(q) \/ HangUp(q)
PassStep ==
    \E p \in Passes :
        \/ SettleTurn(p) \/ BeginPass(p) \/ GetEntries(p) \/ GetEntriesFails(p)
        \/ Insert(p) \/ MoveCursor(p) \/ EndPass(p)
DeleteStep == TearDown \/ DeleteEntries \/ DeleteRow \/ DeleteStops
TurnsNext ==
    \/ Launch \/ AddEntry \/ Exit \/ \E r \in 1..MaxRuns : PumpCloses(r)
    \/ CallStep \/ PassStep \/ DeleteStep \/ Restart

TurnsSpec == TurnsInit /\ [][TurnsNext]_turnVars
-----------------------------------------------------------------------------
(* Entries of a session that is gone are left only where the database does *)
(* not enforce foreign keys, and only of a pass that had its reply before. *)
OrphansExplained ==
    row = "none" /\ stored # {} =>
        /\ ~cascade
        /\ \A e \in stored : \E p \in Passes : of[p] = e[1] /\ upto[p] >= e[2]

(* The transcript clients read has no hole: of every runtime, each entry   *)
(* before one that is stored, each up to the cursor and, once every settle *)
(* was mirrored, all there are - unless an INSERT or a pass failed or a    *)
(* delete that stopped half-way took it, and whichever passes overlapped,  *)
(* whatever cursor of an earlier runtime they read (mirror_entries).       *)
Settled == \A p \in Passes : pass[p] \in {"idle", "over"}
NoHole ==
    row # "none" =>
        /\ \A i \in 1..cursor[2] : <<cursor[1], i>> \in stored \cup missed
        /\ \A e \in stored, i \in 1..MaxEntries : i < e[2] => <<e[1], i>> \in stored \cup missed
        /\ Settled /\ alive /\ ~turning /\ run \notin unread =>
               \A i \in 1..length : <<run, i>> \in stored \cup missed

(* The mirror is the transcript, no less while the session lives and       *)
(* nothing unexplained after (mirror_entries, delete_session).             *)
MirrorIsWhole == NoHole /\ OrphansExplained

(* When nothing is under way the row tells whether a turn is, unless its   *)
(* last status was already wrong when it was written, for after the        *)
(* answer, the pass, the pump and the stop the turn may be another one; or *)
(* it was not written: the UPDATE failed, or nobody waited any more for    *)
(* the runtime to take the prompt (set_status, reset_running_sessions).    *)
StatusExplained ==
    /\ Settled /\ closing = {} /\ \A q \in Calls : call[q] \in {"idle", "over"}
    /\ ~unheard /\ row # "none"
    => (row = "running" <=> turning)
=============================================================================
