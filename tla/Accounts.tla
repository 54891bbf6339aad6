------------------------------- MODULE Accounts -------------------------------
(***************************************************************************)
(* Sessions of the web (src/auth.rs, login and logout in src/main.rs) and  *)
(* what an account suffers meanwhile: a new password, its own              *)
(* (src/profile.rs) or an administrator's, demotion and deletion           *)
(* (src/admin.rs).  A step is one query.                                   *)
(***************************************************************************)
EXTENDS Naturals, FiniteSets

CONSTANTS
    People,
    Founders,    \* administrators of long standing
    Logins,      \* requests to log in; a session bears the name of its login
    Removals,    \* requests to demote or delete somebody
    Resets,      \* requests for somebody's new password
    Nobody,
    AccFaults,   \* "db", "drop"
    AccMishaps   \* how many of them happen

ASSUME AccAssumption ==
    /\ Founders \subseteq People /\ Founders # {} /\ Nobody \notin People
    /\ AccMishaps \in Nat

VARIABLES
    people, admin, password,  \* users: rows, is_admin, which password it is
    session,                  \* sessions: whose
    login, who, typed,        \* where a login stands, as whom, with which password
    removal, of, kind,        \* where a removal stands, of whom, "demote" or "delete"
    reset, whose, imposed,    \* where a reset stands, of whom; the latest password an administrator gave
    overlap, overtook, missed, slips  \* ghosts: removals or sessions that were overtaken; sessions a mishap spared; mishaps so far

usersRows == <<people, admin, password>>
loginVars == <<session, login, who, typed>>
removalVars == <<removal, of, kind>>
resetVars == <<reset, whose, imposed>>
accGhosts == <<overlap, overtook, missed, slips>>
accVars == <<usersRows, loginVars, removalVars, resetVars, accGhosts>>

AccTypeOK ==
    /\ people \subseteq People /\ admin \subseteq People /\ password \in [People -> Nat]
    /\ session \in [Logins -> People \cup {Nobody}]
    /\ login \in [Logins -> {"idle", "open", "over"}] /\ who \in [Logins -> People \cup {Nobody}]
    /\ typed \in [Logins -> Nat]
    /\ removal \in [Removals -> {"idle", "count", "write", "over"}]
    /\ of \in [Removals -> People \cup {Nobody}]
    /\ kind \in [Removals -> {"demote", "delete"}]
    /\ reset \in [Resets -> {"idle", "sessions", "over"}] /\ whose \in [Resets -> People \cup {Nobody}]
    /\ imposed \in [People -> Nat]
    /\ overlap \in BOOLEAN /\ overtook \subseteq Logins /\ missed \subseteq Logins
    /\ slips \in 0..AccMishaps

AccInit ==
    /\ people = People /\ admin = Founders /\ password = [p \in People |-> 0]
    /\ session = [l \in Logins |-> Nobody] /\ login = [l \in Logins |-> "idle"]
    /\ who = [l \in Logins |-> Nobody] /\ typed = [l \in Logins |-> 0]
    /\ removal = [x \in Removals |-> "idle"] /\ of = [x \in Removals |-> Nobody] /\ kind = [x \in Removals |-> "demote"]
    /\ reset = [x \in Resets |-> "idle"] /\ whose = [x \in Resets |-> Nobody]
    /\ imposed = [p \in People |-> 0]
    /\ overlap = FALSE /\ overtook = {} /\ missed = {} /\ slips = 0

Slip(f) == f \in AccFaults /\ slips < AccMishaps /\ slips' = slips + 1
Kept == UNCHANGED <<overlap, overtook, missed, slips>>

-----------------------------------------------------------------------------
(* login and logout                                                        *)

(* The row is read and the password verified; a wrong one changes nothing. *)
ReadUser(l, p) ==
    /\ login[l] = "idle" /\ p \in people
    /\ login' = [login EXCEPT ![l] = "open"] /\ who' = [who EXCEPT ![l] = p]
    /\ typed' = [typed EXCEPT ![l] = password[p]] /\ Kept
    /\ UNCHANGED <<usersRows, session, removalVars, resetVars>>

(* create_session: of a deleted account there is none, or one that         *)
(* user_for_token, which joins users, does not find.                       *)
CreateSession(l) ==
    /\ login[l] = "open" /\ login' = [login EXCEPT ![l] = "over"]
    /\ \/ who[l] \in people /\ session' = [session EXCEPT ![l] = who[l]] /\ Kept
       \/ who[l] \notin people /\ UNCHANGED session /\ Kept
       \/ Slip("db") /\ UNCHANGED <<session, overlap, overtook, missed>>
    /\ UNCHANGED <<usersRows, who, typed, removalVars, resetVars>>

(* logout, and prune_sessions or user_for_token once a session is past its *)
(* thirty days.                                                            *)
EndSession(l) ==
    /\ session[l] # Nobody /\ session' = [session EXCEPT ![l] = Nobody] /\ Kept
    /\ UNCHANGED <<usersRows, login, who, typed, removalVars, resetVars>>

(* change_password ends no session.                                        *)
ChangePassword(p) ==
    /\ p \in people /\ password[p] < Cardinality(Resets) + 1
    /\ \E l \in Logins : session[l] = p
    /\ password' = [password EXCEPT ![p] = @ + 1] /\ Kept
    /\ UNCHANGED <<people, admin, loginVars, removalVars, resetVars>>

-----------------------------------------------------------------------------
(* Administrators                                                          *)

(* require_admin, and not of oneself.                                      *)
AskRemoval(x, a, p, k) ==
    /\ removal[x] = "idle" /\ a \in admin \cap people /\ p \in people \ {a}
    /\ removal' = [removal EXCEPT ![x] = "count"] /\ of' = [of EXCEPT ![x] = p] /\ kind' = [kind EXCEPT ![x] = k] /\ Kept
    /\ UNCHANGED <<usersRows, loginVars, resetVars>>

(* Mutant of CountAdmins: the last administrator is not looked for.        *)
CountNoAdmins(x) ==
    /\ removal[x] = "count" /\ removal' = [removal EXCEPT ![x] = "write"] /\ Kept
    /\ UNCHANGED <<usersRows, loginVars, of, kind, resetVars>>

(* Two administrators at least, unless who is deleted is none; a failing   *)
(* count is zero and refuses.                                              *)
CountAdmins(x) ==
    /\ removal[x] = "count" /\ Kept
    /\ LET refused == (kind[x] = "demote" \/ of[x] \in admin) /\ Cardinality(admin \cap people) <= 1 IN
       removal' = [removal EXCEPT ![x] = IF refused THEN "over" ELSE "write"]
    /\ UNCHANGED <<usersRows, loginVars, of, kind, resetVars>>

(* The UPDATE or DELETE, by id alone.                                      *)
Remove(x) ==
    /\ removal[x] = "write" /\ removal' = [removal EXCEPT ![x] = "over"]
    /\ \/ /\ admin' = admin \ {of[x]}
          /\ people' = IF kind[x] = "delete" THEN people \ {of[x]} ELSE people
          /\ session' = IF kind[x] = "delete"
                        THEN [l \in Logins |-> IF session[l] = of[x] THEN Nobody ELSE session[l]]
                        ELSE session
          /\ overlap' = (overlap \/ \E y \in Removals \ {x} : removal[y] = "write" /\ of[y] \in admin)
          /\ UNCHANGED <<overtook, missed, slips>>
       \/ /\ Slip("db") \/ Slip("drop")
          /\ UNCHANGED <<admin, people, session, overlap, overtook, missed>>
    /\ UNCHANGED <<password, login, who, typed, of, kind, resetVars>>

(* update_user, of an administrator.                                       *)
Promote(a, p) ==
    /\ a \in admin \cap people /\ p \in people \ admin /\ admin' = admin \cup {p}
    /\ overlap' = (overlap \/ \E y \in Removals : removal[y] \in {"count", "write"} /\ of[y] = p)
    /\ UNCHANGED <<people, password, loginVars, removalVars, resetVars, overtook, missed, slips>>

(* update_user with a password: the hash first, then the sessions.         *)
ResetPassword(x, a, p) ==
    /\ reset[x] = "idle" /\ a \in admin \cap people /\ p \in people
    /\ reset' = [reset EXCEPT ![x] = "sessions"] /\ whose' = [whose EXCEPT ![x] = p]
    /\ password' = [password EXCEPT ![p] = @ + 1]
    /\ imposed' = [imposed EXCEPT ![p] = password[p] + 1] /\ Kept
    /\ UNCHANGED <<people, admin, loginVars, removalVars>>

SessionsOf(p) == {l \in Logins : session[l] = p}
Overtaken(p) == {l \in Logins : login[l] = "open" /\ who[l] = p /\ typed[l] < imposed[p]}

(* Mutant of DropSessions: the sessions stay.                              *)
DropNone(x) ==
    /\ reset[x] = "sessions" /\ reset' = [reset EXCEPT ![x] = "over"]
    /\ overtook' = overtook \cup Overtaken(whose[x]) /\ UNCHANGED <<overlap, missed, slips>>
    /\ UNCHANGED <<usersRows, loginVars, removalVars, whose, imposed>>

(* A login that has read the old hash may still open its session; an error *)
(* of the DELETE is ignored.                                               *)
DropSessions(x) ==
    /\ reset[x] = "sessions" /\ reset' = [reset EXCEPT ![x] = "over"]
    /\ overtook' = overtook \cup Overtaken(whose[x])
    /\ \/ /\ session' = [l \in Logins |-> IF l \in SessionsOf(whose[x]) THEN Nobody ELSE session[l]]
          /\ UNCHANGED <<missed, slips>>
       \/ /\ Slip("db") \/ Slip("drop")
          /\ missed' = missed \cup SessionsOf(whose[x]) /\ UNCHANGED session
    /\ UNCHANGED <<usersRows, login, who, typed, removalVars, whose, imposed, overlap>>

AccNext ==
    \/ \E l \in Logins : CreateSession(l) \/ EndSession(l) \/ \E p \in People : ReadUser(l, p)
    \/ \E p \in People : ChangePassword(p) \/ \E a \in People : Promote(a, p)
    \/ \E x \in Removals : \/ CountAdmins(x) \/ Remove(x)
                           \/ \E a, p \in People, k \in {"demote", "delete"} : AskRemoval(x, a, p, k)
    \/ \E x \in Resets : DropSessions(x) \/ \E a, p \in People : ResetPassword(x, a, p)

AccSpec == AccInit /\ [][AccNext]_accVars
-----------------------------------------------------------------------------
(* Somebody administers the site, unless two removals had both counted     *)
(* before either wrote, or one was promoted while it was being removed     *)
(* (update_user 268-300 and delete_user 347-360: the count and the write   *)
(* are two statements).                                                    *)
SomebodyAdministers == admin \cap people # {} \/ overlap

(* A password an administrator gives ends the sessions of the old one: one *)
(* that lives on is about to be ended, was opened by a login that had read *)
(* the old hash before (login 380-398), or was spared by a failing DELETE  *)
(* (update_user 325-331, its error is ignored).                            *)
ResetEndsSessions ==
    \A l \in Logins : (session[l] # Nobody /\ typed[l] < imposed[session[l]]) =>
        \/ \E x \in Resets : reset[x] = "sessions" /\ whose[x] = session[l]
        \/ l \in overtook \cup missed
=============================================================================
