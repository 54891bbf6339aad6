----------------------------- MODULE Registration -----------------------------
(***************************************************************************)
(* Opening an account: codes by mail (src/email.rs), register (src/main.rs)*)
(* and the reward of an invitation (src/invites.rs).  All requests are of  *)
(* one address, as a form that is sent twice, and the site verifies        *)
(* addresses.  A step is one query or one mail.                            *)
(***************************************************************************)
EXTENDS Naturals, FiniteSets

CONSTANTS
    Requests,    \* to register; an account bears the name of its request
    NameOf,      \* the user name one asks for
    Invited,     \* those that show the invite code of an account of long standing
    Pays,        \* the sides the settings reward, with more than zero, when a request reads them
    Letters,     \* requests for a code, numbered: the order of their created_at
    MaxAttempts,
    RegFaults,   \* "db", "drop" (the client goes away), "mail"
    RegMishaps   \* how many of them happen

ASSUME RegAssumption ==
    /\ Letters \subseteq Nat \ {0} /\ Invited \subseteq Requests
    /\ Pays \in [Requests -> SUBSET {"inviter", "invitee"}]
    /\ MaxAttempts \in Nat \ {0} /\ RegMishaps \in Nat

VARIABLES
    letter, stored, used, expired, attempts, recent, inbox, \* where a send_code stands; email_codes; those younger than the cooldown; delivered
    reg, shows,                     \* where a register stands, the letter whose code it was matched with, or 0
    users, account, claimed, inviteCode,  \* users, quota accounts, invited_by, invite_code
    toInviter, toInvitee,           \* ghosts: how often a registration was rewarded
    clash, troubled, troubles       \* ghosts: refused for a name or address; hit by a mishap; how many so far

lettersTable == <<stored, used, expired, attempts, recent>>
usersTable == <<users, account, claimed, inviteCode>>
rewards == <<toInviter, toInvitee>>
ghosts == <<clash, troubled, troubles>>
regVars == <<letter, lettersTable, inbox, reg, shows, usersTable, rewards, ghosts>>

Stages == {"idle", "count", "use", "insert", "account", "code", "resolve", "claim", "inviter", "invitee", "session", "over"}
RegTypeOK ==
    /\ letter \in [Letters -> {"idle", "check", "store", "mail", "over"}]
    /\ stored \subseteq Letters /\ used \subseteq Letters /\ expired \subseteq Letters
    /\ attempts \in [Letters -> Nat] /\ recent \subseteq Letters /\ inbox \subseteq Letters
    /\ reg \in [Requests -> Stages] /\ shows \in [Requests -> Letters \cup {0}]
    /\ users \subseteq Requests /\ account \subseteq Requests /\ claimed \subseteq Requests
    /\ inviteCode \subseteq Requests
    /\ toInviter \in [Requests -> Nat] /\ toInvitee \in [Requests -> Nat]
    /\ clash \subseteq Requests /\ troubled \subseteq Requests /\ troubles \in 0..RegMishaps

RegInit ==
    /\ letter = [l \in Letters |-> "idle"] /\ stored = {} /\ used = {} /\ expired = {}
    /\ attempts = [l \in Letters |-> 0] /\ recent = {} /\ inbox = {}
    /\ reg = [r \in Requests |-> "idle"] /\ shows = [r \in Requests |-> 0]
    /\ users = {} /\ account = {} /\ claimed = {} /\ inviteCode = {}
    /\ toInviter = [r \in Requests |-> 0] /\ toInvitee = [r \in Requests |-> 0]
    /\ clash = {} /\ troubled = {} /\ troubles = 0

Smooth == UNCHANGED <<troubled, troubles>>
Strikes(f) == f \in RegFaults /\ troubles < RegMishaps /\ troubles' = troubles + 1
Trouble(r, f) == Strikes(f) /\ troubled' = troubled \cup {r}
LetterAt(l, label) == letter' = [letter EXCEPT ![l] = label]
RegAt(r, label) == reg' = [reg EXCEPT ![r] = label]

-----------------------------------------------------------------------------
(* send_code                                                               *)

(* The limiter, email_already_registered: an error is "no".                *)
AskForCode(l) ==
    /\ letter[l] = "idle" /\ \A k \in Letters : k < l => letter[k] # "idle"
    /\ \/ users = {} /\ Smooth
       \/ Strikes("db") /\ UNCHANGED troubled
    /\ LetterAt(l, "check") /\ UNCHANGED <<lettersTable, inbox, reg, shows, usersTable, rewards, clash>>

(* recent_code_seconds against the cooldown, and the settings of the mail. *)
CheckCooldown(l) ==
    /\ letter[l] = "check" /\ LetterAt(l, IF recent = {} THEN "store" ELSE "over") /\ Smooth
    /\ UNCHANGED <<lettersTable, inbox, reg, shows, usersTable, rewards, clash>>

(* store_code comes before send_mail: a code that cannot be sent stays,    *)
(* and so does its cooldown.                                               *)
StoreCode(l) ==
    /\ letter[l] = "store"
    /\ \/ /\ stored' = stored \cup {l} /\ recent' = recent \cup {l}
          /\ LetterAt(l, "mail") /\ Smooth
       \/ Strikes("db") /\ LetterAt(l, "over") /\ UNCHANGED <<stored, recent, troubled>>
    /\ UNCHANGED <<used, expired, attempts, inbox, reg, shows, usersTable, rewards, clash>>
SendMail(l) ==
    /\ letter[l] = "mail" /\ LetterAt(l, "over")
    /\ \/ inbox' = inbox \cup {l} /\ Smooth
       \/ Strikes("mail") /\ UNCHANGED <<inbox, troubled>>
    /\ UNCHANGED <<lettersTable, reg, shows, usersTable, rewards, clash>>

(* A minute, and ten minutes, after it was stored.                         *)
CooldownEnds(l) ==
    /\ l \in recent /\ recent' = recent \ {l} /\ Smooth
    /\ UNCHANGED <<letter, stored, used, expired, attempts, inbox, reg, shows, usersTable, rewards, clash>>
LetterExpires(l) ==
    /\ l \in stored \ (expired \cup recent) /\ expired' = expired \cup {l} /\ Smooth
    /\ UNCHANGED <<letter, stored, used, attempts, recent, inbox, reg, shows, usersTable, rewards, clash>>

-----------------------------------------------------------------------------
(* consume_code, inside register                                           *)

Valid == stored \ (used \cup expired)
Newest == {l \in Valid : \A k \in Valid : k <= l}

(* The newest code that is neither used nor expired decides, and no older  *)
(* one.                                                                    *)
ShowCode(r) ==
    /\ reg[r] = "idle"
    /\ \E l \in Newest :
        /\ attempts[l] < MaxAttempts /\ shows' = [shows EXCEPT ![r] = l]
        /\ RegAt(r, IF l \in inbox THEN "use" ELSE "count") /\ Smooth
    /\ UNCHANGED <<letter, lettersTable, inbox, usersTable, rewards, clash>>
(* An older code, or a slip of the hand.                                   *)
ShowWrong(r) ==
    /\ reg[r] = "idle"
    /\ \E l \in Newest :
        /\ attempts[l] < MaxAttempts /\ shows' = [shows EXCEPT ![r] = l]
        /\ RegAt(r, "count") /\ Smooth
    /\ UNCHANGED <<letter, lettersTable, inbox, usersTable, rewards, clash>>
CountAttempt(r) ==
    /\ reg[r] = "count" /\ RegAt(r, "over") /\ shows' = [shows EXCEPT ![r] = 0]
    /\ attempts' = [attempts EXCEPT ![shows[r]] = @ + 1] /\ Smooth
    /\ UNCHANGED <<letter, stored, used, expired, recent, inbox, usersTable, rewards, clash>>

(* UPDATE ... SET used = 1 WHERE id: whoever matched before goes on too.   *)
UseCode(r) ==
    /\ reg[r] = "use"
    /\ \/ used' = used \cup {shows[r]} /\ RegAt(r, "insert") /\ Smooth
       \/ Trouble(r, "db") /\ RegAt(r, "over") /\ UNCHANGED used
    /\ UNCHANGED <<letter, stored, expired, attempts, recent, inbox, shows, usersTable, rewards, clash>>

-----------------------------------------------------------------------------
(* register                                                                *)

NameTaken(r) == \E u \in users : NameOf[u] = NameOf[r]
AddressTaken == users # {}

(* Mutant of InsertUser: the address is not unique.                        *)
InsertNamed(r) ==
    /\ reg[r] = "insert" /\ Smooth
    /\ \/ ~NameTaken(r) /\ users' = users \cup {r} /\ RegAt(r, "account") /\ UNCHANGED clash
       \/ NameTaken(r) /\ RegAt(r, "over") /\ clash' = clash \cup {r} /\ UNCHANGED users
    /\ UNCHANGED <<letter, lettersTable, inbox, shows, account, claimed, inviteCode, rewards>>

InsertUser(r) ==
    /\ reg[r] = "insert"
    /\ LET refused == NameTaken(r) \/ AddressTaken IN
       \/ /\ ~refused /\ Smooth
          /\ users' = users \cup {r} /\ RegAt(r, "account") /\ UNCHANGED clash
       \/ refused /\ Smooth /\ RegAt(r, "over") /\ clash' = clash \cup {r} /\ UNCHANGED users
       \/ Trouble(r, "db") /\ RegAt(r, "over") /\ UNCHANGED <<users, clash>>
    /\ UNCHANGED <<letter, lettersTable, inbox, shows, account, claimed, inviteCode, rewards>>

(* ensure_account and ensure_code: their errors are ignored.               *)
EnsureAccount(r) ==
    /\ reg[r] = "account" /\ RegAt(r, "code")
    /\ \/ account' = account \cup {r} /\ Smooth
       \/ Trouble(r, "db") /\ UNCHANGED account
    /\ UNCHANGED <<letter, lettersTable, inbox, shows, users, claimed, inviteCode, rewards, clash>>
EnsureCode(r) ==
    /\ reg[r] = "code" /\ RegAt(r, IF r \in Invited THEN "resolve" ELSE "session")
    /\ \/ inviteCode' = inviteCode \cup {r} /\ Smooth
       \/ Trouble(r, "db") /\ UNCHANGED inviteCode
    /\ UNCHANGED <<letter, lettersTable, inbox, shows, users, account, claimed, rewards, clash>>

(* resolve_inviter: an error is an unknown code.                           *)
ResolveInviter(r) ==
    /\ reg[r] = "resolve"
    /\ \/ RegAt(r, "claim") /\ Smooth
       \/ Trouble(r, "db") /\ RegAt(r, "session")
    /\ UNCHANGED <<letter, lettersTable, inbox, shows, usersTable, rewards, clash>>

(* Mutant of ClaimInviter: the rewards do not wait for the claim.          *)
ClaimLoosely(r) ==
    /\ reg[r] = "claim" /\ RegAt(r, "inviter")
    /\ \/ claimed' = claimed \cup {r} /\ Smooth
       \/ Trouble(r, "db") /\ UNCHANGED claimed
    /\ UNCHANGED <<letter, lettersTable, inbox, shows, users, account, inviteCode, rewards, clash>>

(* set_invited_by: rewards are for whoever claimed, and an error has not.  *)
ClaimInviter(r) ==
    /\ reg[r] = "claim"
    /\ \/ /\ r \notin claimed /\ Smooth
          /\ claimed' = claimed \cup {r} /\ RegAt(r, "inviter")
       \/ Trouble(r, "db") /\ RegAt(r, "session") /\ UNCHANGED claimed
    /\ UNCHANGED <<letter, lettersTable, inbox, shows, users, account, inviteCode, rewards, clash>>

(* The two grants, of what is more than zero: an error of one is ignored   *)
(* and the other goes on.                                                  *)
GrantInviter(r) ==
    /\ reg[r] = "inviter" /\ RegAt(r, "invitee")
    /\ \/ "inviter" \in Pays[r] /\ toInviter' = [toInviter EXCEPT ![r] = @ + 1] /\ Smooth
       \/ "inviter" \notin Pays[r] /\ UNCHANGED toInviter /\ Smooth
       \/ "inviter" \in Pays[r] /\ Trouble(r, "db") /\ UNCHANGED toInviter
    /\ UNCHANGED <<letter, lettersTable, inbox, shows, usersTable, toInvitee, clash>>
GrantInvitee(r) ==
    /\ reg[r] = "invitee" /\ RegAt(r, "session")
    /\ \/ "invitee" \in Pays[r] /\ toInvitee' = [toInvitee EXCEPT ![r] = @ + 1] /\ Smooth
       \/ "invitee" \notin Pays[r] /\ UNCHANGED toInvitee /\ Smooth
       \/ "invitee" \in Pays[r] /\ Trouble(r, "db") /\ UNCHANGED toInvitee
    /\ UNCHANGED <<letter, lettersTable, inbox, shows, usersTable, toInviter, clash>>

(* create_session: when it fails the account is there all the same.        *)
OpenSession(r) ==
    /\ reg[r] = "session" /\ RegAt(r, "over")
    /\ Smooth \/ Trouble(r, "db")
    /\ UNCHANGED <<letter, lettersTable, inbox, shows, usersTable, rewards, clash>>

(* The handler is dropped where it waits.                                  *)
FormLeaves(r) ==
    /\ reg[r] \notin {"idle", "over"} /\ Trouble(r, "drop") /\ RegAt(r, "over")
    /\ UNCHANGED <<letter, lettersTable, inbox, shows, usersTable, rewards, clash>>

RegNext ==
    \/ \E l \in Letters : \/ AskForCode(l) \/ CheckCooldown(l) \/ StoreCode(l) \/ SendMail(l)
                          \/ CooldownEnds(l) \/ LetterExpires(l)
    \/ \E r \in Requests :
        \/ ShowCode(r) \/ ShowWrong(r) \/ CountAttempt(r) \/ UseCode(r) \/ InsertUser(r)
        \/ EnsureAccount(r) \/ EnsureCode(r) \/ ResolveInviter(r) \/ ClaimInviter(r)
        \/ GrantInviter(r) \/ GrantInvitee(r) \/ OpenSession(r) \/ FormLeaves(r)

RegSpec == RegInit /\ [][RegNext]_regVars
-----------------------------------------------------------------------------
(* A code by mail opens one account, though two requests may both find it  *)
(* unused (consume_code 266-305: SELECT, then UPDATE by id); a code spent  *)
(* without one went to a request that was refused for a taken name or      *)
(* address, or was hit by a mishap after it (register 247-290).            *)
LetterWellSpent ==
    \A l \in used :
        LET by == {r \in Requests : shows[r] = l} IN
        /\ Cardinality(by \cap users) <= 1
        /\ \/ by \cap users # {}
           \/ \E r \in by : reg[r] = "insert" \/ r \in clash \cup troubled

(* A registration is rewarded once, only when its referral was claimed,    *)
(* and each side the settings reward is, unless a mishap befell it: the    *)
(* grants are two transactions whose errors are ignored (register 295-335).*)
Due(r, side) == IF side \in Pays[r] THEN 1 ELSE 0
RewardExplained ==
    \A r \in Requests :
        /\ toInviter[r] + toInvitee[r] > 0 => r \in claimed \cap users
        /\ toInviter[r] <= 1 /\ toInvitee[r] <= 1
        /\ (r \in claimed /\ reg[r] \in {"session", "over"} /\ r \notin troubled) =>
               toInviter[r] = Due(r, "inviter") /\ toInvitee[r] = Due(r, "invitee")

(* A registration costs one letter and earns one reward (register).        *)
RegistrationExplained == LetterWellSpent /\ RewardExplained
=============================================================================
