------------------------------- MODULE CliLogin -------------------------------
(***************************************************************************)
(* Signing in from a command line (src/cli_auth.rs) and the agent tokens   *)
(* it ends in (src/agent_token.rs): a CLI asks for a code, a person        *)
(* approves it in a browser, and the CLI's next poll is given a token.     *)
(* Tokens are also made by hand, under a cap.  A step is one query.        *)
(***************************************************************************)
EXTENDS Naturals, FiniteSets

CONSTANTS
    Codes,      \* logins begun by a command line
    Polls,      \* requests for the token of a code; the token one mints bears its name
    CodeOf,     \* the code a poll asks about
    Accounts,   \* people in front of a browser
    Pages,      \* requests for a token by hand
    By,         \* the account that makes one
    NoOne,
    TokenCap,   \* MAX_TOKENS_PER_USER
    CliFaults,  \* "db", "drop" (the client of a request goes away), "lost" (its answer does), "crash"
    CliMishaps  \* how many of them happen

ASSUME CliAssumption ==
    /\ CodeOf \in [Polls -> Codes] /\ By \in [Pages -> Accounts]
    /\ Polls \cap Pages = {} /\ NoOne \notin Accounts \cup Polls
    /\ IsFiniteSet(Polls \cup Pages)
    /\ TokenCap \in Nat /\ CliMishaps \in Nat

Tokens == Polls \cup Pages

VARIABLES
    code, owner, denied, consumed, late,  \* cli_device_codes: the row; user_id, denied_at, the poll that claimed it, past expires_at
    poll, saw,                            \* where a poll stands, the account it read
    token, holder,                        \* agent_tokens: revoked or not, user_id; what expires stays a row like the others
    page, overtaken,                      \* where a request by hand stands, whether a token of its account came since it counted
    heard, hit, mishaps                   \* ghosts: tokens whose plaintext arrived; requests a mishap befell; how many so far

rowOfCode == <<code, owner, denied, consumed, late>>
tokens == <<token, holder>>
pagesOf == <<page, overtaken>>
cliVars == <<rowOfCode, poll, saw, tokens, pagesOf, heard, hit, mishaps>>

CliTypeOK ==
    /\ code \in [Codes -> {"none", "there", "gone"}]
    /\ owner \in [Codes -> Accounts \cup {NoOne}] /\ denied \in [Codes -> BOOLEAN]
    /\ consumed \in [Codes -> Polls \cup {NoOne}] /\ late \in [Codes -> BOOLEAN]
    /\ poll \in [Polls -> {"idle", "mint", "claim", "giveBack", "answer", "over"}]
    /\ saw \in [Polls -> Accounts \cup {NoOne}]
    /\ token \in [Tokens -> {"none", "live", "revoked"}]
    /\ holder \in [Tokens -> Accounts \cup {NoOne}]
    /\ page \in [Pages -> {"idle", "insert", "over"}] /\ overtaken \in [Pages -> BOOLEAN]
    /\ heard \subseteq Tokens /\ hit \subseteq Tokens /\ mishaps \in 0..CliMishaps

CliInit ==
    /\ code = [c \in Codes |-> "none"] /\ owner = [c \in Codes |-> NoOne]
    /\ denied = [c \in Codes |-> FALSE] /\ consumed = [c \in Codes |-> NoOne]
    /\ late = [c \in Codes |-> FALSE]
    /\ poll = [p \in Polls |-> "idle"] /\ saw = [p \in Polls |-> NoOne]
    /\ token = [t \in Tokens |-> "none"] /\ holder = [t \in Tokens |-> NoOne]
    /\ page = [k \in Pages |-> "idle"] /\ overtaken = [k \in Pages |-> FALSE]
    /\ heard = {} /\ hit = {} /\ mishaps = 0

Fine == UNCHANGED <<hit, mishaps>>
Mishap(f) == f \in CliFaults /\ mishaps < CliMishaps /\ mishaps' = mishaps + 1
Fails(t) == Mishap("db") /\ hit' = hit \cup {t}
PollAt(p, label) == poll' = [poll EXCEPT ![p] = label]

-----------------------------------------------------------------------------
(* The command line                                                        *)

(* start: prune_expired, whose failure is ignored, and the row.            *)
Start(c) ==
    /\ code[c] = "none"
    /\ \/ /\ Fine
          /\ code' = [d \in Codes |-> CASE d = c -> "there"
                                        [] code[d] = "there" /\ late[d] -> "gone"
                                        [] OTHER -> code[d]]
       \/ /\ Mishap("db") /\ UNCHANGED hit /\ code' = [code EXCEPT ![c] = "there"]
    /\ UNCHANGED <<owner, denied, consumed, late, poll, saw, tokens, pagesOf, heard>>

(* poll reads the row; every other answer than "approved" changes nothing. *)
ReadCode(p) ==
    /\ poll[p] = "idle" /\ code[CodeOf[p]] = "there"
    /\ ~denied[CodeOf[p]] /\ ~late[CodeOf[p]] /\ consumed[CodeOf[p]] = NoOne /\ owner[CodeOf[p]] # NoOne
    /\ PollAt(p, "mint") /\ saw' = [saw EXCEPT ![p] = owner[CodeOf[p]]] /\ Fine
    /\ UNCHANGED <<rowOfCode, tokens, pagesOf, heard>>

(* mint: a row of the account.                                             *)
Minted(t, u) ==
    /\ token' = [token EXCEPT ![t] = "live"] /\ holder' = [holder EXCEPT ![t] = u]
    /\ overtaken' = [k \in Pages |-> overtaken[k] \/ (page[k] = "insert" /\ By[k] = u /\ k # t)]

MintForPoll(p) ==
    /\ poll[p] = "mint"
    /\ \/ Minted(p, saw[p]) /\ PollAt(p, "claim") /\ Fine
       \/ Fails(p) /\ PollAt(p, "over") /\ UNCHANGED <<tokens, overtaken>>
    /\ UNCHANGED <<rowOfCode, saw, page, heard>>

(* Mutant of Claim: UPDATE without consumed_at IS NULL.                    *)
ClaimAgain(p) ==
    /\ poll[p] = "claim" /\ Fine
    /\ \/ /\ code[CodeOf[p]] = "there"
          /\ consumed' = [consumed EXCEPT ![CodeOf[p]] = p] /\ PollAt(p, "answer")
       \/ code[CodeOf[p]] = "gone" /\ PollAt(p, "giveBack") /\ UNCHANGED consumed
    /\ UNCHANGED <<code, owner, denied, late, saw, tokens, pagesOf, heard>>

(* UPDATE ... WHERE consumed_at IS NULL: no row, or an error, is a loss.   *)
Claim(p) ==
    /\ poll[p] = "claim"
    /\ LET open == code[CodeOf[p]] = "there" /\ consumed[CodeOf[p]] = NoOne IN
       \/ /\ open /\ Fine
          /\ consumed' = [consumed EXCEPT ![CodeOf[p]] = p] /\ PollAt(p, "answer")
       \/ ~open /\ Fine /\ PollAt(p, "giveBack") /\ UNCHANGED consumed
       \/ Fails(p) /\ PollAt(p, "giveBack") /\ UNCHANGED consumed
    /\ UNCHANGED <<code, owner, denied, late, saw, tokens, pagesOf, heard>>

(* Mutant of GiveBack: the loser of a race keeps its row.                  *)
KeepIt(p) ==
    /\ poll[p] = "giveBack" /\ PollAt(p, "over") /\ Fine
    /\ UNCHANGED <<rowOfCode, saw, tokens, pagesOf, heard>>

(* revoke_by_plaintext, whose failure is ignored.                          *)
GiveBack(p) ==
    /\ poll[p] = "giveBack" /\ PollAt(p, "over")
    /\ \/ token' = [token EXCEPT ![p] = "revoked"] /\ Fine
       \/ Fails(p) /\ UNCHANGED token
    /\ UNCHANGED <<rowOfCode, saw, holder, pagesOf, heard>>

(* The one answer that bears the token.                                    *)
Answer(p) ==
    /\ poll[p] = "answer" /\ PollAt(p, "over")
    /\ \/ heard' = heard \cup {p} /\ Fine
       \/ Mishap("lost") /\ hit' = hit \cup {p} /\ UNCHANGED heard
    /\ UNCHANGED <<rowOfCode, saw, tokens, pagesOf>>

(* The handler of a client that went away is dropped where it waits.       *)
Busy == {p \in Polls : poll[p] \notin {"idle", "over"}} \cup {k \in Pages : page[k] = "insert"}
Dropped(S) ==
    /\ poll' = [p \in Polls |-> IF p \in S THEN "over" ELSE poll[p]]
    /\ page' = [k \in Pages |-> IF k \in S THEN "over" ELSE page[k]]
    /\ hit' = hit \cup S /\ UNCHANGED <<rowOfCode, saw, tokens, overtaken, heard>>
ClientLeaves(t) == t \in Busy /\ Mishap("drop") /\ Dropped({t})
ServerCrash == Busy # {} /\ Mishap("crash") /\ Dropped(Busy)

-----------------------------------------------------------------------------
(* The browser                                                             *)

(* Mutant of Approve: UPDATE without user_id IS NULL.                      *)
ApproveAgain(u, c) ==
    /\ code[c] = "there" /\ ~denied[c] /\ ~late[c]
    /\ owner' = [owner EXCEPT ![c] = u] /\ Fine
    /\ UNCHANGED <<code, denied, consumed, late, poll, saw, tokens, pagesOf, heard>>

Approve(u, c) ==
    /\ code[c] = "there" /\ owner[c] = NoOne /\ ~denied[c] /\ ~late[c]
    /\ owner' = [owner EXCEPT ![c] = u] /\ Fine
    /\ UNCHANGED <<code, denied, consumed, late, poll, saw, tokens, pagesOf, heard>>

(* deny, by any account that knows the code.                               *)
Deny(c) ==
    /\ code[c] = "there" /\ owner[c] = NoOne /\ ~denied[c]
    /\ denied' = [denied EXCEPT ![c] = TRUE] /\ Fine
    /\ UNCHANGED <<code, owner, consumed, late, poll, saw, tokens, pagesOf, heard>>

(* Rows that are not revoked count, expired ones too.                      *)
Counted(u) == Cardinality({t \in Tokens : token[t] = "live" /\ holder[t] = u})

(* Mutant of CountTokens: the cap is not looked at.                        *)
CountBlindly(k) ==
    /\ page[k] = "idle" /\ page' = [page EXCEPT ![k] = "insert"] /\ Fine
    /\ UNCHANGED <<rowOfCode, poll, saw, tokens, overtaken, heard>>

(* create_token: an error counts as zero.                                  *)
CountTokens(k) ==
    /\ page[k] = "idle" /\ page' = [page EXCEPT ![k] = "insert"]
    /\ \/ Counted(By[k]) < TokenCap /\ Fine
       \/ Fails(k)
    /\ UNCHANGED <<rowOfCode, poll, saw, tokens, overtaken, heard>>

InsertToken(k) ==
    /\ page[k] = "insert" /\ page' = [page EXCEPT ![k] = "over"]
    /\ \/ Minted(k, By[k]) /\ heard' = heard \cup {k} /\ Fine
       \/ Fails(k) /\ UNCHANGED <<tokens, overtaken, heard>>
    /\ UNCHANGED <<rowOfCode, poll, saw>>

(* revoke_token, by the owner.                                             *)
RevokeToken(t) ==
    /\ token[t] = "live" /\ token' = [token EXCEPT ![t] = "revoked"] /\ Fine
    /\ UNCHANGED <<rowOfCode, poll, saw, holder, pagesOf, heard>>

-----------------------------------------------------------------------------
CodeExpires(c) ==
    /\ code[c] = "there" /\ ~late[c] /\ late' = [late EXCEPT ![c] = TRUE] /\ Fine
    /\ UNCHANGED <<code, owner, denied, consumed, poll, saw, tokens, pagesOf, heard>>

CliNext ==
    \/ \E c \in Codes : Start(c) \/ Deny(c) \/ CodeExpires(c) \/ \E u \in Accounts : Approve(u, c)
    \/ \E p \in Polls : \/ ReadCode(p) \/ MintForPoll(p) \/ Claim(p) \/ GiveBack(p) \/ Answer(p)
    \/ \E k \in Pages : CountTokens(k) \/ InsertToken(k)
    \/ \E t \in Tokens : RevokeToken(t) \/ ClientLeaves(t)
    \/ ServerCrash

CliSpec == CliInit /\ [][CliNext]_cliVars
-----------------------------------------------------------------------------
(* A code is worth one token, of the account that approved it: however     *)
(* polls race, approvals repeat and rows are pruned meanwhile, what a CLI  *)
(* was given is what its code was consumed for (poll 328-353).             *)
HandedOnce ==
    \A p \in Polls \cap heard :
        /\ consumed[CodeOf[p]] = p /\ ~denied[CodeOf[p]]
        /\ owner[CodeOf[p]] = holder[p] /\ holder[p] # NoOne

(* A token nobody was given is not left alive: it is still its poll's, it  *)
(* is the one its code was consumed for, or a mishap befell the poll       *)
(* between the INSERT and the claim or at the revocation (poll 311-353:    *)
(* minted before it is claimed).                                           *)
NoOrphanToken ==
    \A p \in Polls : token[p] = "live" =>
        poll[p] \in {"claim", "giveBack"} \/ consumed[CodeOf[p]] = p \/ p \in hit

(* An account has more than the cap of tokens by hand only if one was      *)
(* inserted after a count that another had made false, or that failed      *)
(* (create_token 284-300: two statements).                                 *)
TokensCapped ==
    \A u \in Accounts :
        LET mine == {k \in Pages : token[k] = "live" /\ By[k] = u} IN
        Cardinality(mine) > TokenCap => \E k \in mine : overtaken[k] \/ k \in hit

(* The tokens that live are accounted for: handed out once for the code    *)
(* they were minted for, claimed, or counted.                              *)
TokensExplained == HandedOnce /\ NoOrphanToken /\ TokensCapped
=============================================================================
