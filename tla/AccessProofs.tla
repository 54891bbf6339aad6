---------------------------- MODULE AccessProofs ----------------------------
(***************************************************************************)
(* The ways into an account, for any number of people, requests, codes and *)
(* tokens: what the limiter lets through, what a registration leaves       *)
(* behind, when a site can be left without an administrator, when a        *)
(* session can outlive the password it was opened with, and that a code    *)
(* buys one token. The parts share no variable: each has an inductive      *)
(* invariant of its own.                                                   *)
(***************************************************************************)
EXTENDS RateLimiter, Registration, Accounts, CliLogin, FiniteSetTheorems, SequenceTheorems, TLAPS

-----------------------------------------------------------------------------
(* The limiter                                                             *)

(* Attempts are let through one after the other.                           *)
Ordered ==
    \A a \in Addresses : \A i \in 1..Len(let[a]) :
        /\ let[a][i] <= clock
        /\ \A j \in 1..i : let[a][j] <= let[a][i]

(* The bucket holds the last attempts, the first of which began it.        *)
InBucket ==
    \A a \in Addresses : count[a] > 0 =>
        /\ count[a] <= Len(let[a])
        /\ let[a][Len(let[a]) - count[a] + 1] = began[a]

(* Attempts that are as many as the limit before those of the bucket are   *)
(* of an earlier window than the one before; of a bucket that is forgotten *)
(* the clock says as much.                                                 *)
Past(s, k, b, t) ==
    /\ k > 0 => \A i \in 1..(Len(s) - k - Most) : s[i] + Window < b
    /\ k = 0 => \A i \in 1..(Len(s) - Most) : s[i] + Window < t
Aged == \A a \in Addresses : Past(let[a], count[a], began[a], clock)

RateInv == RateTypeOK /\ Ordered /\ InBucket /\ Aged /\ TwiceAtMost

LEMMA RateInitInv == RateInit => RateInv
  BY RateAssumption DEF RateInit, RateInv, RateTypeOK, Times, Ordered, InBucket, Aged, Past, TwiceAtMost

(* Every attempt has its time.                                            *)
LEMMA LetTimes ==
    ASSUME RateTypeOK, NEW a \in Addresses
    PROVE  \A i \in 1..Len(let[a]) : let[a][i] \in 0..Horizon
  BY ElementOfSeq DEF RateTypeOK, Times

(* Time passes: what is past stays past.                                   *)
LEMMA RateTick == ASSUME RateInv, Tick PROVE RateInv'
<1>1. RateTypeOK'
  BY RateAssumption DEF RateInv, RateTypeOK, Times, Tick
<1>2. Ordered'
  <2>1. \A a \in Addresses : \A i \in 1..Len(let[a]) : let[a][i] \in 0..Horizon
    BY LetTimes DEF RateInv
  <2>2. clock \in 0..Horizon
    BY DEF RateInv, RateTypeOK, Times
  <2> QED BY <2>1, <2>2, SMTT(20) DEF RateInv, Ordered, Tick
<1>3. InBucket'
  BY DEF RateInv, InBucket, Tick
<1>4. Aged'
  <2>1. \A a \in Addresses : Len(let[a]) \in Nat /\ let[a] \in Seq(0..Horizon)
    BY DEF RateInv, RateTypeOK, Times
  <2>2. ASSUME NEW a \in Addresses, NEW i \in 1..(Len(let[a]) - Most)
        PROVE  let[a][i] \in 0..Horizon
    <3>1. i \in 1..Len(let[a])
      BY <2>1, RateAssumption
    <3> QED BY <3>1, LetTimes DEF RateInv
  <2>3. /\ clock \in 0..Horizon /\ clock' = clock + 1 /\ UNCHANGED <<count, began, let>>
        /\ \A a \in Addresses : count[a] = 0 => \A i \in 1..(Len(let[a]) - Most) : let[a][i] + Window < clock
        /\ Window \in Nat
    BY RateAssumption DEF RateInv, RateTypeOK, Times, Aged, Past, Tick
  <2>4. ASSUME NEW a \in Addresses, count[a] = 0, NEW i \in 1..(Len(let[a]) - Most)
        PROVE  let[a][i] + Window < clock + 1
    <3>1. let[a][i] \in 0..Horizon /\ let[a][i] + Window < clock
      BY <2>2, <2>3, <2>4
    <3> QED BY <3>1, <2>3
  <2> QED BY <2>3, <2>4 DEF RateInv, Aged, Past
<1>5. TwiceAtMost'
  BY DEF RateInv, TwiceAtMost, Tick
<1> QED BY <1>1, <1>2, <1>3, <1>4, <1>5 DEF RateInv

(* What a bucket knows of the attempts before it.                          *)
LEMMA BeforeBucket ==
    ASSUME RateInv, NEW a \in Addresses, count[a] > 0
    PROVE  /\ count[a] \in 1..Most /\ count[a] <= Len(let[a]) /\ began[a] \in 0..clock
           /\ \A i \in 1..(Len(let[a]) - Most) : let[a][i] <= began[a]
<1> DEFINE n == Len(let[a])
           k == count[a]
           b == began[a]
<1>1. let[a] \in Seq(0..Horizon) /\ n \in Nat /\ k \in 1..Most /\ b \in 0..Horizon /\ Most \in Nat
  BY RateAssumption DEF RateInv, RateTypeOK, Times
<1>2. k <= n /\ let[a][n - k + 1] = b
  BY DEF RateInv, InBucket
<1>3. \A i \in 1..n : let[a][i] <= clock /\ \A j \in 1..i : let[a][j] <= let[a][i]
  BY DEF RateInv, Ordered
<1> HIDE DEF n, k, b
<1>4. n - k + 1 \in 1..n /\ \A i \in 1..(n - Most) : i \in 1..(n - k + 1)
  BY <1>1, <1>2
<1>5. b \in 0..clock /\ \A i \in 1..(n - Most) : let[a][i] <= b
  BY <1>1, <1>2, <1>3, <1>4
<1> QED BY <1>1, <1>2, <1>5 DEF n, k, b

(* What is forgotten is two windows old.                                   *)
LEMMA RatePrune == ASSUME RateInv, Prune PROVE RateInv'
<1>1. /\ UNCHANGED <<clock, began, let>>
      /\ count' = [a \in Addresses |-> IF clock - began[a] < 2 * Window THEN count[a] ELSE 0]
  BY DEF Prune
<1>2. RateTypeOK'
  BY <1>1, RateAssumption DEF RateInv, RateTypeOK
<1>3. Ordered'
  BY <1>1 DEF RateInv, Ordered
<1>4. InBucket'
  BY <1>1 DEF RateInv, InBucket
<1>5. ASSUME NEW a \in Addresses, count'[a] # count[a]
      PROVE  count'[a] = 0 /\ \A i \in 1..(Len(let[a]) - Most) : let[a][i] + Window < clock
  <2> DEFINE n == Len(let[a])
             b == began[a]
  <2>1. let[a] \in Seq(0..Horizon) /\ n \in Nat /\ count[a] \in 0..Most /\ clock \in 0..Horizon
        /\ Most \in Nat /\ Window \in Nat \ {0}
    BY RateAssumption DEF RateInv, RateTypeOK, Times
  <2>2. count[a] > 0 /\ count'[a] = 0 /\ ~(clock - b < 2 * Window)
    BY <1>1, <1>5, <2>1
  <2>3. b \in 0..clock /\ \A i \in 1..(n - Most) : let[a][i] <= b
    BY <2>2, BeforeBucket
  <2> HIDE DEF n, b
  <2>4. b + Window < clock
    BY <2>1, <2>2, <2>3
  <2>5. ASSUME NEW i \in 1..(n - Most)
        PROVE  let[a][i] \in 0..Horizon
    <3>1. i \in 1..n
      BY <2>1
    <3> QED BY <3>1, LetTimes DEF n, RateInv
  <2>6. \A i \in 1..(n - Most) : let[a][i] + Window < clock
    BY <2>1, <2>3, <2>4, <2>5
  <2> QED BY <2>2, <2>6 DEF n
<1>6. Aged'
  BY <1>1, <1>5 DEF RateInv, Aged, Past
<1>7. TwiceAtMost'
  BY <1>1 DEF RateInv, TwiceAtMost
<1> QED BY <1>2, <1>3, <1>4, <1>6, <1>7 DEF RateInv

(* An attempt in the bucket's window, or the first of a new window.        *)
LEMMA RateAllow == ASSUME RateInv, NEW a \in Addresses, Allow(a) PROVE RateInv'
<1> DEFINE n == Len(let[a])
           k == count[a]
           b == began[a]
<1>0a. PICK s, k1, b1 : s = let'[a] /\ k1 = count'[a] /\ b1 = began'[a]
  OBVIOUS
<1>0. Most \in Nat \ {0} /\ Window \in Nat \ {0} /\ Horizon \in Nat
  BY RateAssumption
<1>1. /\ clock' = clock /\ clock \in 0..Horizon
      /\ s = Append(let[a], clock) /\ let[a] \in Seq(0..Horizon) /\ n \in Nat
      /\ k \in 0..Most /\ b \in 0..Horizon
  BY <1>0a DEF Allow, RateInv, RateTypeOK, Times
<1>2. Len(s) = n + 1 /\ s \in Seq(0..Horizon) /\ s[n + 1] = clock /\ \A i \in 1..n : s[i] = let[a][i]
  BY <1>1
<1>3. /\ count' = [count EXCEPT ![a] = k1] /\ began' = [began EXCEPT ![a] = b1] /\ let' = [let EXCEPT ![a] = s]
      /\ \A c \in Addresses \ {a} : let'[c] = let[c] /\ count'[c] = count[c] /\ began'[c] = began[c]
  BY <1>0a DEF Allow, RateInv, RateTypeOK
<1>4. \/ Fresh(a) /\ k1 = 1 /\ b1 = clock
      \/ ~Fresh(a) /\ k1 = k + 1 /\ b1 = b /\ k < Most
  BY <1>0a DEF Allow, RateInv, RateTypeOK
<1>5. \A i \in 1..n : let[a][i] \in 0..Horizon /\ let[a][i] <= clock /\ \A j \in 1..i : let[a][j] <= let[a][i]
  BY LetTimes DEF RateInv, Ordered
<1>6. Fresh(a) <=> k = 0 \/ clock - b > Window
  BY DEF Fresh
<1>7. k > 0 => /\ k <= n /\ let[a][n - k + 1] = b /\ b <= clock
               /\ \A i \in 1..(n - Most) : let[a][i] <= b
  BY BeforeBucket, <1>1 DEF RateInv, InBucket
<1>8. /\ k > 0 => \A i \in 1..(n - k - Most) : let[a][i] + Window < b
      /\ k = 0 => \A i \in 1..(n - Most) : let[a][i] + Window < clock
  BY DEF RateInv, Aged, Past
<1>9. \A i \in 1..(n - 2 * Most) : let[a][i + 2 * Most] - let[a][i] > Window
  BY DEF RateInv, TwiceAtMost
<1>10. k1 \in 1..Most /\ b1 \in 0..clock
  BY <1>0, <1>1, <1>4, <1>6, <1>7
<1> HIDE DEF n, k, b
<1>11. RateTypeOK'
  <2>1. k1 \in 0..Most /\ b1 \in 0..Horizon
    BY <1>0, <1>1, <1>10
  <2> QED BY <2>1, <1>0a, <1>1, <1>2, <1>3 DEF RateInv, RateTypeOK, Times
<1>12. ASSUME NEW i \in 1..(n + 1), NEW j \in 1..i PROVE s[i] <= clock /\ s[j] <= s[i]
  <2>1. CASE i \in 1..n
    <3>1. j \in 1..n
      BY <2>1, <1>1
    <3> QED BY <2>1, <3>1, <1>2, <1>5
  <2>2. CASE i = n + 1
    <3>1. s[i] = clock /\ (j = i \/ j \in 1..n)
      BY <2>2, <1>1, <1>2
    <3>2. clock <= clock
      BY <1>1
    <3> QED BY <3>1, <3>2, <1>2, <1>5
  <2>3. i \in 1..n \/ i = n + 1
    BY <1>12, <1>1
  <2> QED BY <2>1, <2>2, <2>3, Zenon
<1>13. k1 <= n + 1 /\ s[n + 1 - k1 + 1] = b1
  <2>1. CASE Fresh(a)
    BY <2>1, <1>1, <1>2, <1>4
  <2>2. CASE ~Fresh(a)
    <3>1. k > 0 /\ n - k + 1 \in 1..n /\ n + 1 - k1 + 1 = n - k + 1
      BY <2>2, <1>1, <1>4, <1>6, <1>7
    <3> QED BY <3>1, <2>2, <1>1, <1>2, <1>4, <1>7
  <2> QED BY <2>1, <2>2
(* Before a new window the last but Most attempts are past the window.     *)
<1>14. ASSUME Fresh(a), NEW i \in 1..(n - Most) PROVE let[a][i] + Window < clock
  <2>1. i \in 1..n
    BY <1>14, <1>0, <1>1
  <2>2. CASE k = 0
    BY <2>2, <1>14, <1>8
  <2>3. CASE k # 0
    <3>1. k > 0
      BY <2>3, <1>1
    <3>2. let[a][i] <= b /\ clock - b > Window
      BY <2>3, <3>1, <1>14, <1>6, <1>7
    <3>3. let[a][i] \in 0..Horizon
      BY <2>1, <1>5
    <3> QED BY <3>2, <3>3, <1>0, <1>1
  <2> QED BY <2>2, <2>3
<1>15. ASSUME NEW i \in 1..(n + 1 - k1 - Most) PROVE s[i] + Window < b1
  <2>1. i \in 1..n /\ s[i] = let[a][i]
    BY <1>15, <1>0, <1>1, <1>2, <1>10
  <2>2. CASE Fresh(a)
    <3>1. i \in 1..(n - Most)
      BY <2>2, <1>15, <1>0, <1>1, <1>4
    <3> QED BY <3>1, <2>1, <2>2, <1>14, <1>4
  <2>3. CASE ~Fresh(a)
    <3>1. k > 0 /\ i \in 1..(n - k - Most)
      BY <2>3, <1>15, <1>0, <1>1, <1>4, <1>6
    <3> QED BY <3>1, <2>1, <2>3, <1>4, <1>8
  <2> QED BY <2>2, <2>3
<1>16. ASSUME NEW i \in 1..(n + 1 - 2 * Most) PROVE s[i + 2 * Most] - s[i] > Window
  <2>1. CASE i + 2 * Most <= n
    <3>1. i \in 1..(n - 2 * Most) /\ i \in 1..n /\ i + 2 * Most \in 1..n
      BY <2>1, <1>16, <1>0, <1>1
    <3> QED BY <3>1, <1>2, <1>9
  <2>2. CASE i + 2 * Most = n + 1
    <3>1. i \in 1..(n - Most) /\ i \in 1..n /\ s[i] = let[a][i] /\ s[i] \in 0..Horizon
      BY <2>2, <1>16, <1>0, <1>1, <1>2, <1>5
    <3>2. s[i] + Window < clock
      <4>1. CASE Fresh(a)
        BY <4>1, <3>1, <1>14
      <4>2. CASE ~Fresh(a)
        <5>1. i \in 1..(n + 1 - k1 - Most)
          BY <2>2, <1>16, <1>0, <1>1, <1>10
        <5> QED BY <5>1, <1>15, <1>10, <3>1, <1>0, <1>1, SMTT(20)
      <4> QED BY <4>1, <4>2
    <3>3. s[i + 2 * Most] = clock /\ s[i + 2 * Most] \in 0..Horizon
      BY <2>2, <1>1, <1>2
    <3> QED BY <3>1, <3>2, <3>3, <1>0, <1>1
  <2>3. i + 2 * Most <= n \/ i + 2 * Most = n + 1
    BY <1>16, <1>0, <1>1
  <2> QED BY <2>1, <2>2, <2>3, Zenon
<1>17. Ordered'
  <2>1. \A i \in 1..Len(s) : s[i] <= clock /\ \A j \in 1..i : s[j] <= s[i]
    <3> SUFFICES ASSUME NEW i \in 1..Len(s) PROVE s[i] <= clock /\ \A j \in 1..i : s[j] <= s[i]
      OBVIOUS
    <3>1. i \in 1..(n + 1) /\ i \in 1..i
      BY <1>1, <1>2
    <3> QED BY <3>1, <1>12
  <2> QED BY <2>1, <1>1, <1>0a, <1>3 DEF RateInv, Ordered
<1>18. InBucket'
  <2>1. k1 <= Len(s) /\ s[Len(s) - k1 + 1] = b1
    <3>1. Len(s) = n + 1
      BY <1>2
    <3> QED BY <3>1, <1>1, <1>10, <1>13
  <2> QED BY <2>1, <1>0a, <1>3 DEF RateInv, InBucket
<1>19. Aged'
  <2>1. ASSUME NEW i \in 1..(Len(s) - k1 - Most) PROVE s[i] + Window < b1
    <3>1. Len(s) = n + 1
      BY <1>2
    <3> QED BY <2>1, <3>1, <1>0, <1>1, <1>10, <1>15
  <2>2. k1 # 0
    BY <1>10, <1>0
  <2>3. \A c \in Addresses : /\ c = a => count'[c] = k1 /\ began'[c] = b1 /\ let'[c] = s
                             /\ c # a => count'[c] = count[c] /\ began'[c] = began[c] /\ let'[c] = let[c]
    BY <1>0a, <1>3, Zenon
  <2>4. k1 > 0 /\ clock' = clock
    BY <1>1, <1>10
  <2>5. Past(s, k1, b1, clock)
    BY <2>1, <2>2, Zenon DEF Past
  <2>6. ASSUME NEW c \in Addresses PROVE Past(let'[c], count'[c], began'[c], clock)
    <3>1. CASE c = a
      BY <2>3, <2>5, <2>6, <3>1
    <3>2. CASE c # a
      BY <2>3, <2>6, <3>2 DEF RateInv, Aged
    <3> QED BY <3>1, <3>2
  <2> QED BY <2>4, <2>6 DEF Aged, Past
<1>20. TwiceAtMost'
  <2>1. ASSUME NEW i \in 1..(Len(s) - 2 * Most) PROVE s[i + 2 * Most] - s[i] > Window
    <3>1. Len(s) = n + 1
      BY <1>2
    <3>2. i \in 1..(n + 1 - 2 * Most)
      BY <2>1, <3>1, <1>0, <1>1
    <3> QED BY <3>2, <1>16, Zenon
  <2> QED BY <2>1, <1>0a, <1>3 DEF RateInv, TwiceAtMost
<1> QED BY <1>11, <1>17, <1>18, <1>19, <1>20 DEF RateInv

LEMMA RateInvariant == RateSpec => []RateInv
<1>1. RateInv /\ [RateNext]_rateVars => RateInv'
  <2>1. ASSUME RateInv, UNCHANGED rateVars PROVE RateInv'
    BY <2>1 DEF RateInv, rateVars, RateTypeOK, Ordered, InBucket, Aged, TwiceAtMost
  <2> QED BY <2>1, RateTick, RatePrune, RateAllow DEF RateNext
<1> QED BY <1>1, RateInitInv, PTL DEF RateSpec

(* For any limit, window and number of addresses: however attempts, the    *)
(* ends of windows and the task that forgets addresses fall, no span of a  *)
(* window sees more than twice the limit.                                  *)
THEOREM TwiceTheLimit == RateSpec => []TwiceAtMost
<1>1. RateInv => TwiceAtMost
  BY DEF RateInv
<1> QED BY <1>1, RateInvariant, PTL

-----------------------------------------------------------------------------
(* Registrations                                                           *)

(* One address opens one account.                                          *)
OneAccount == \A a, b \in users : a = b

(* Whoever has used a letter is about to open the account, has opened it,  *)
(* was refused for its name or address, or met a mishap; and nobody goes   *)
(* back to the form.                                                       *)
Shown == \A r \in Requests : reg[r] \in {"count", "use", "insert"} => shows[r] \in Letters
Spent ==
    /\ \A r \in users \cup clash \cup troubled : reg[r] \notin {"idle", "count"}
    /\ \A l \in used : \E r \in Requests :
          shows[r] = l /\ (reg[r] = "insert" \/ r \in users \cup clash \cup troubled)

Opening == {"account", "code", "resolve", "claim", "inviter", "invitee"}
Unclaimed == {"idle", "count", "use", "insert", "account", "code", "resolve", "claim"}

(* What has been granted, by where the registration stands.                *)
Rewarded ==
    \A r \in Requests :
        /\ reg[r] \in Opening => r \in users
        /\ reg[r] \in Unclaimed => r \notin claimed
        /\ reg[r] \in {"inviter", "invitee"} => r \in claimed
        /\ r \in claimed => r \in users
        /\ r \notin claimed \/ reg[r] = "inviter" => toInviter[r] = 0 /\ toInvitee[r] = 0
        /\ reg[r] = "invitee" => toInvitee[r] = 0 /\ (toInviter[r] = Due(r, "inviter") \/ r \in troubled)
        /\ toInviter[r] <= 1 /\ toInvitee[r] <= 1
        /\ r \in claimed /\ reg[r] \in {"session", "over"} =>
              (toInviter[r] = Due(r, "inviter") /\ toInvitee[r] = Due(r, "invitee")) \/ r \in troubled

RegInv == RegTypeOK /\ OneAccount /\ Shown /\ Spent /\ Rewarded

LEMMA RegInitInv == RegInit => RegInv
BY RegAssumption DEF RegInit, RegInv, RegTypeOK, OneAccount, Shown, Spent, Rewarded,
   Stages, Opening, Unclaimed

LEMMA RegTypeStep ==
    ASSUME RegTypeOK, Shown, [RegNext]_regVars
    PROVE  RegTypeOK'
<1> USE RegAssumption DEF RegTypeOK, Stages, Smooth, Strikes, Trouble, LetterAt,
        RegAt, lettersTable, usersTable, rewards, ghosts, Shown
<1>1. ASSUME NEW l \in Letters, AskForCode(l) PROVE RegTypeOK'
  BY <1>1 DEF AskForCode
<1>2. ASSUME NEW l \in Letters, CheckCooldown(l) PROVE RegTypeOK'
  <2>1. /\ letter' \in [Letters -> {"idle", "check", "store", "mail", "over"}]
        /\ stored' \subseteq Letters /\ used' \subseteq Letters /\ expired' \subseteq Letters
        /\ recent' \subseteq Letters /\ inbox' \subseteq Letters
    BY <1>2 DEF CheckCooldown
  <2>2. attempts' \in [Letters -> Nat] /\ shows' \in [Requests -> Letters \cup {0}]
    BY <1>2 DEF CheckCooldown
  <2>3. /\ reg' \in [Requests -> Stages]
        /\ users' \subseteq Requests /\ account' \subseteq Requests
        /\ claimed' \subseteq Requests /\ inviteCode' \subseteq Requests
    BY <1>2 DEF CheckCooldown
  <2>4. /\ toInviter' \in [Requests -> Nat] /\ toInvitee' \in [Requests -> Nat]
        /\ clash' \subseteq Requests /\ troubled' \subseteq Requests
        /\ troubles' \in 0..RegMishaps
    BY <1>2 DEF CheckCooldown
  <2> QED BY <2>1, <2>2, <2>3, <2>4, Zenon
<1>3. ASSUME NEW l \in Letters, StoreCode(l) PROVE RegTypeOK'
  <2>1. /\ letter' \in [Letters -> {"idle", "check", "store", "mail", "over"}]
        /\ stored' \subseteq Letters /\ used' \subseteq Letters /\ expired' \subseteq Letters
        /\ recent' \subseteq Letters /\ inbox' \subseteq Letters
    BY <1>3 DEF StoreCode
  <2>2. attempts' \in [Letters -> Nat] /\ shows' \in [Requests -> Letters \cup {0}]
    BY <1>3 DEF StoreCode
  <2>3. /\ reg' \in [Requests -> Stages]
        /\ users' \subseteq Requests /\ account' \subseteq Requests
        /\ claimed' \subseteq Requests /\ inviteCode' \subseteq Requests
    BY <1>3 DEF StoreCode
  <2>4. /\ toInviter' \in [Requests -> Nat] /\ toInvitee' \in [Requests -> Nat]
        /\ clash' \subseteq Requests /\ troubled' \subseteq Requests
        /\ troubles' \in 0..RegMishaps
    BY <1>3 DEF StoreCode
  <2> QED BY <2>1, <2>2, <2>3, <2>4, Zenon
<1>4. ASSUME NEW l \in Letters, SendMail(l) PROVE RegTypeOK'
  <2>1. /\ letter' \in [Letters -> {"idle", "check", "store", "mail", "over"}]
        /\ stored' \subseteq Letters /\ used' \subseteq Letters /\ expired' \subseteq Letters
        /\ recent' \subseteq Letters /\ inbox' \subseteq Letters
    BY <1>4 DEF SendMail
  <2>2. attempts' \in [Letters -> Nat] /\ shows' \in [Requests -> Letters \cup {0}]
    BY <1>4 DEF SendMail
  <2>3. /\ reg' \in [Requests -> Stages]
        /\ users' \subseteq Requests /\ account' \subseteq Requests
        /\ claimed' \subseteq Requests /\ inviteCode' \subseteq Requests
    BY <1>4 DEF SendMail
  <2>4. /\ toInviter' \in [Requests -> Nat] /\ toInvitee' \in [Requests -> Nat]
        /\ clash' \subseteq Requests /\ troubled' \subseteq Requests
        /\ troubles' \in 0..RegMishaps
    BY <1>4 DEF SendMail
  <2> QED BY <2>1, <2>2, <2>3, <2>4, Zenon
<1>5. ASSUME NEW l \in Letters, CooldownEnds(l) PROVE RegTypeOK'
  BY <1>5 DEF CooldownEnds
<1>6. ASSUME NEW l \in Letters, LetterExpires(l) PROVE RegTypeOK'
  BY <1>6 DEF LetterExpires
<1>7. ASSUME NEW r \in Requests, ShowCode(r) PROVE RegTypeOK'
  BY <1>7 DEF ShowCode, Newest, Valid
<1>8. ASSUME NEW r \in Requests, ShowWrong(r) PROVE RegTypeOK'
  <2>1. /\ letter' \in [Letters -> {"idle", "check", "store", "mail", "over"}]
        /\ stored' \subseteq Letters /\ used' \subseteq Letters /\ expired' \subseteq Letters
        /\ recent' \subseteq Letters /\ inbox' \subseteq Letters
    BY <1>8 DEF ShowWrong, Newest, Valid
  <2>2. attempts' \in [Letters -> Nat] /\ shows' \in [Requests -> Letters \cup {0}]
    BY <1>8 DEF ShowWrong, Newest, Valid
  <2>3. /\ reg' \in [Requests -> Stages]
        /\ users' \subseteq Requests /\ account' \subseteq Requests
        /\ claimed' \subseteq Requests /\ inviteCode' \subseteq Requests
    BY <1>8 DEF ShowWrong, Newest, Valid
  <2>4. /\ toInviter' \in [Requests -> Nat] /\ toInvitee' \in [Requests -> Nat]
        /\ clash' \subseteq Requests /\ troubled' \subseteq Requests
        /\ troubles' \in 0..RegMishaps
    BY <1>8 DEF ShowWrong, Newest, Valid
  <2> QED BY <2>1, <2>2, <2>3, <2>4, Zenon
<1>9. ASSUME NEW r \in Requests, CountAttempt(r) PROVE RegTypeOK'
  <2>1. /\ letter' \in [Letters -> {"idle", "check", "store", "mail", "over"}]
        /\ stored' \subseteq Letters /\ used' \subseteq Letters /\ expired' \subseteq Letters
        /\ recent' \subseteq Letters /\ inbox' \subseteq Letters
    BY <1>9 DEF CountAttempt
  <2>2. attempts' \in [Letters -> Nat] /\ shows' \in [Requests -> Letters \cup {0}]
    <3>1. shows[r] \in Letters
      BY <1>9 DEF CountAttempt
    <3>2. attempts[shows[r]] \in Nat
      BY <3>1, Zenon
    <3>3. attempts[shows[r]] + 1 \in Nat
      BY <3>2
    <3>4. attempts' = [attempts EXCEPT ![shows[r]] = attempts[shows[r]] + 1]
      BY <1>9 DEF CountAttempt
    <3>5. shows' = [shows EXCEPT ![r] = 0]
      BY <1>9 DEF CountAttempt
    <3> QED BY <3>3, <3>4, <3>5
  <2>3. /\ reg' \in [Requests -> Stages]
        /\ users' \subseteq Requests /\ account' \subseteq Requests
        /\ claimed' \subseteq Requests /\ inviteCode' \subseteq Requests
    BY <1>9 DEF CountAttempt
  <2>4. /\ toInviter' \in [Requests -> Nat] /\ toInvitee' \in [Requests -> Nat]
        /\ clash' \subseteq Requests /\ troubled' \subseteq Requests
        /\ troubles' \in 0..RegMishaps
    BY <1>9 DEF CountAttempt
  <2> QED BY <2>1, <2>2, <2>3, <2>4, Zenon
<1>10. ASSUME NEW r \in Requests, UseCode(r) PROVE RegTypeOK'
  <2>1. /\ letter' \in [Letters -> {"idle", "check", "store", "mail", "over"}]
        /\ stored' \subseteq Letters /\ used' \subseteq Letters /\ expired' \subseteq Letters
        /\ recent' \subseteq Letters /\ inbox' \subseteq Letters
    <3>1. shows[r] \in Letters
      BY <1>10 DEF UseCode
    <3>2. used' = used \cup {shows[r]} \/ used' = used
      BY ONLY <1>10 DEF UseCode
    <3>3. used' \subseteq Letters
      BY <3>1, <3>2
    <3>4. /\ letter' = letter /\ stored' = stored /\ expired' = expired
          /\ recent' = recent /\ inbox' = inbox
      BY <1>10 DEF UseCode
    <3> QED BY <3>3, <3>4
  <2>2. attempts' \in [Letters -> Nat] /\ shows' \in [Requests -> Letters \cup {0}]
    BY <1>10 DEF UseCode
  <2>3. /\ reg' \in [Requests -> Stages]
        /\ users' \subseteq Requests /\ account' \subseteq Requests
        /\ claimed' \subseteq Requests /\ inviteCode' \subseteq Requests
    BY <1>10 DEF UseCode
  <2>4. /\ toInviter' \in [Requests -> Nat] /\ toInvitee' \in [Requests -> Nat]
        /\ clash' \subseteq Requests /\ troubled' \subseteq Requests
        /\ troubles' \in 0..RegMishaps
    BY <1>10 DEF UseCode
  <2> QED BY <2>1, <2>2, <2>3, <2>4, Zenon
<1>11. ASSUME NEW r \in Requests, InsertUser(r) PROVE RegTypeOK'
  BY <1>11 DEF InsertUser, NameTaken, AddressTaken
<1>12. ASSUME NEW r \in Requests, EnsureAccount(r) PROVE RegTypeOK'
  BY <1>12 DEF EnsureAccount
<1>13. ASSUME NEW r \in Requests, EnsureCode(r) PROVE RegTypeOK'
  BY <1>13 DEF EnsureCode
<1>14. ASSUME NEW r \in Requests, ResolveInviter(r) PROVE RegTypeOK'
  BY <1>14 DEF ResolveInviter
<1>15. ASSUME NEW r \in Requests, ClaimInviter(r) PROVE RegTypeOK'
  BY <1>15 DEF ClaimInviter
<1>16. ASSUME NEW r \in Requests, GrantInviter(r) PROVE RegTypeOK'
  BY <1>16 DEF GrantInviter
<1>17. ASSUME NEW r \in Requests, GrantInvitee(r) PROVE RegTypeOK'
  BY <1>17 DEF GrantInvitee
<1>18. ASSUME NEW r \in Requests, OpenSession(r) PROVE RegTypeOK'
  BY <1>18 DEF OpenSession
<1>19. ASSUME NEW r \in Requests, FormLeaves(r) PROVE RegTypeOK'
  BY <1>19 DEF FormLeaves
<1>20. CASE UNCHANGED regVars
  BY <1>20 DEF regVars, lettersTable, usersTable, rewards, ghosts
<1> QED
  BY <1>1, <1>2, <1>3, <1>4, <1>5, <1>6, <1>7, <1>8, <1>9, <1>10, <1>11,
     <1>12, <1>13, <1>14, <1>15, <1>16, <1>17, <1>18, <1>19, <1>20, Zenon
  DEF RegNext

LEMMA SpentStep ==
    ASSUME RegTypeOK, OneAccount, Shown, Spent, [RegNext]_regVars
    PROVE  (OneAccount /\ Shown /\ Spent)'
<1> USE RegAssumption DEF RegTypeOK, Stages, Smooth, Strikes, Trouble, LetterAt,
        RegAt, lettersTable, usersTable, rewards, ghosts, OneAccount,
        Shown, Spent
<1>1. ASSUME NEW l \in Letters, AskForCode(l)
      PROVE  (OneAccount /\ Shown /\ Spent)'
  BY <1>1 DEF AskForCode
<1>2. ASSUME NEW l \in Letters, CheckCooldown(l)
      PROVE  (OneAccount /\ Shown /\ Spent)'
  BY <1>2 DEF CheckCooldown
<1>3. ASSUME NEW l \in Letters, StoreCode(l)
      PROVE  (OneAccount /\ Shown /\ Spent)'
  BY <1>3 DEF StoreCode
<1>4. ASSUME NEW l \in Letters, SendMail(l)
      PROVE  (OneAccount /\ Shown /\ Spent)'
  BY <1>4 DEF SendMail
<1>5. ASSUME NEW l \in Letters, CooldownEnds(l)
      PROVE  (OneAccount /\ Shown /\ Spent)'
  BY <1>5 DEF CooldownEnds
<1>6. ASSUME NEW l \in Letters, LetterExpires(l)
      PROVE  (OneAccount /\ Shown /\ Spent)'
  BY <1>6 DEF LetterExpires
<1>7. ASSUME NEW r \in Requests, ShowCode(r)
      PROVE  (OneAccount /\ Shown /\ Spent)'
  BY <1>7 DEF ShowCode, Newest, Valid
<1>8. ASSUME NEW r \in Requests, ShowWrong(r)
      PROVE  (OneAccount /\ Shown /\ Spent)'
  BY <1>8 DEF ShowWrong, Newest, Valid
<1>9. ASSUME NEW r \in Requests, CountAttempt(r)
      PROVE  (OneAccount /\ Shown /\ Spent)'
  <2>1. OneAccount' /\ Shown'
    BY <1>9 DEF CountAttempt
  <2>2. \A b \in users' \cup clash' \cup troubled' : reg'[b] \notin {"idle", "count"}
    BY <1>9 DEF CountAttempt
  <2>3. ASSUME NEW m \in used'
        PROVE  \E b \in Requests :
                  shows'[b] = m /\ (reg'[b] = "insert" \/ b \in users' \cup clash' \cup troubled')
    <3>1. CASE m \notin used
      BY <1>9, <2>3, <3>1 DEF CountAttempt
    <3>2. CASE m \in used
      <4>1. PICK b \in Requests :
               shows[b] = m /\ (reg[b] = "insert" \/ b \in users \cup clash \cup troubled)
        BY <3>2
      <4>2. b = r \/ reg'[b] = reg[b]
        BY <1>9 DEF CountAttempt
      <4> QED BY <1>9, <4>1, <4>2 DEF CountAttempt
    <3> QED BY <3>1, <3>2
  <2> QED BY <2>1, <2>2, <2>3, Zenon
<1>10. ASSUME NEW r \in Requests, UseCode(r)
      PROVE  (OneAccount /\ Shown /\ Spent)'
  <2>1. OneAccount' /\ Shown'
    BY <1>10 DEF UseCode
  <2>2. \A b \in users' \cup clash' \cup troubled' : reg'[b] \notin {"idle", "count"}
    BY <1>10 DEF UseCode
  <2>3. ASSUME NEW m \in used'
        PROVE  \E b \in Requests :
                  shows'[b] = m /\ (reg'[b] = "insert" \/ b \in users' \cup clash' \cup troubled')
    <3>1. CASE m \notin used
      BY <1>10, <2>3, <3>1 DEF UseCode
    <3>2. CASE m \in used
      <4>1. PICK b \in Requests :
               shows[b] = m /\ (reg[b] = "insert" \/ b \in users \cup clash \cup troubled)
        BY <3>2
      <4>2. b = r \/ reg'[b] = reg[b]
        BY <1>10 DEF UseCode
      <4> QED BY <1>10, <4>1, <4>2 DEF UseCode
    <3> QED BY <3>1, <3>2
  <2> QED BY <2>1, <2>2, <2>3, Zenon
<1>11. ASSUME NEW r \in Requests, InsertUser(r)
      PROVE  (OneAccount /\ Shown /\ Spent)'
  BY <1>11 DEF InsertUser, NameTaken, AddressTaken
<1>12. ASSUME NEW r \in Requests, EnsureAccount(r)
      PROVE  (OneAccount /\ Shown /\ Spent)'
  BY <1>12 DEF EnsureAccount
<1>13. ASSUME NEW r \in Requests, EnsureCode(r)
      PROVE  (OneAccount /\ Shown /\ Spent)'
  BY <1>13 DEF EnsureCode
<1>14. ASSUME NEW r \in Requests, ResolveInviter(r)
      PROVE  (OneAccount /\ Shown /\ Spent)'
  BY <1>14 DEF ResolveInviter
<1>15. ASSUME NEW r \in Requests, ClaimInviter(r)
      PROVE  (OneAccount /\ Shown /\ Spent)'
  BY <1>15 DEF ClaimInviter
<1>16. ASSUME NEW r \in Requests, GrantInviter(r)
      PROVE  (OneAccount /\ Shown /\ Spent)'
  BY <1>16 DEF GrantInviter
<1>17. ASSUME NEW r \in Requests, GrantInvitee(r)
      PROVE  (OneAccount /\ Shown /\ Spent)'
  BY <1>17 DEF GrantInvitee
<1>18. ASSUME NEW r \in Requests, OpenSession(r)
      PROVE  (OneAccount /\ Shown /\ Spent)'
  BY <1>18 DEF OpenSession
<1>19. ASSUME NEW r \in Requests, FormLeaves(r)
      PROVE  (OneAccount /\ Shown /\ Spent)'
  BY <1>19 DEF FormLeaves
<1>20. CASE UNCHANGED regVars
  BY <1>20 DEF regVars, lettersTable, usersTable, rewards, ghosts
<1> QED
  BY <1>1, <1>2, <1>3, <1>4, <1>5, <1>6, <1>7, <1>8, <1>9, <1>10, <1>11,
     <1>12, <1>13, <1>14, <1>15, <1>16, <1>17, <1>18, <1>19, <1>20, Zenon
  DEF RegNext

LEMMA RewardedStep ==
    ASSUME RegTypeOK, Rewarded, [RegNext]_regVars
    PROVE  Rewarded'
<1> USE RegAssumption DEF RegTypeOK, Stages, Smooth, Strikes, Trouble, LetterAt,
        RegAt, lettersTable, usersTable, rewards, ghosts, Rewarded, Opening,
        Unclaimed, Due
<1>1. ASSUME NEW l \in Letters, AskForCode(l) PROVE Rewarded'
  BY <1>1 DEF AskForCode
<1>2. ASSUME NEW l \in Letters, CheckCooldown(l) PROVE Rewarded'
  BY <1>2 DEF CheckCooldown
<1>3. ASSUME NEW l \in Letters, StoreCode(l) PROVE Rewarded'
  BY <1>3 DEF StoreCode
<1>4. ASSUME NEW l \in Letters, SendMail(l) PROVE Rewarded'
  BY <1>4 DEF SendMail
<1>5. ASSUME NEW l \in Letters, CooldownEnds(l) PROVE Rewarded'
  BY <1>5 DEF CooldownEnds
<1>6. ASSUME NEW l \in Letters, LetterExpires(l) PROVE Rewarded'
  BY <1>6 DEF LetterExpires
<1>7. ASSUME NEW r \in Requests, ShowCode(r) PROVE Rewarded'
  BY <1>7 DEF ShowCode, Newest, Valid
<1>8. ASSUME NEW r \in Requests, ShowWrong(r) PROVE Rewarded'
  BY <1>8 DEF ShowWrong, Newest, Valid
<1>9. ASSUME NEW r \in Requests, CountAttempt(r) PROVE Rewarded'
  BY <1>9 DEF CountAttempt
<1>10. ASSUME NEW r \in Requests, UseCode(r) PROVE Rewarded'
  BY <1>10 DEF UseCode
<1>11. ASSUME NEW r \in Requests, InsertUser(r) PROVE Rewarded'
  BY <1>11 DEF InsertUser, NameTaken, AddressTaken
<1>12. ASSUME NEW r \in Requests, EnsureAccount(r) PROVE Rewarded'
  BY <1>12 DEF EnsureAccount
<1>13. ASSUME NEW r \in Requests, EnsureCode(r) PROVE Rewarded'
  BY <1>13 DEF EnsureCode
<1>14. ASSUME NEW r \in Requests, ResolveInviter(r) PROVE Rewarded'
  BY <1>14 DEF ResolveInviter
<1>15. ASSUME NEW r \in Requests, ClaimInviter(r) PROVE Rewarded'
  BY <1>15 DEF ClaimInviter
<1>16. ASSUME NEW r \in Requests, GrantInviter(r) PROVE Rewarded'
  BY <1>16 DEF GrantInviter
<1>17. ASSUME NEW r \in Requests, GrantInvitee(r) PROVE Rewarded'
  BY <1>17 DEF GrantInvitee
<1>18. ASSUME NEW r \in Requests, OpenSession(r) PROVE Rewarded'
  BY <1>18 DEF OpenSession
<1>19. ASSUME NEW r \in Requests, FormLeaves(r) PROVE Rewarded'
  BY <1>19 DEF FormLeaves
<1>20. CASE UNCHANGED regVars
  BY <1>20 DEF regVars, lettersTable, usersTable, rewards, ghosts
<1> QED
  BY <1>1, <1>2, <1>3, <1>4, <1>5, <1>6, <1>7, <1>8, <1>9, <1>10, <1>11,
     <1>12, <1>13, <1>14, <1>15, <1>16, <1>17, <1>18, <1>19, <1>20, Zenon
  DEF RegNext

LEMMA RegInvariant == RegSpec => []RegInv
<1>1. RegInv /\ [RegNext]_regVars => RegInv'
  BY RegTypeStep, SpentStep, RewardedStep DEF RegInv
<1> QED BY <1>1, RegInitInv, PTL DEF RegSpec

(* Every query of a registration keeps every row and position in its       *)
(* domain, and no request is rewarded twice on either side.                *)
THEOREM RegTypeCorrect == RegSpec => []RegTypeOK
<1>1. RegInv => RegTypeOK
  BY DEF RegInv
<1> QED BY <1>1, RegInvariant, PTL

(* A code by mail opens one account, a code spent without one went to a    *)
(* request that was refused or hit by a mishap, and a claimed referral is  *)
(* rewarded once on each side that is paid unless a mishap befell it (con- *)
(* sume_code, register, set_invited_by); however often the form is sent.   *)
THEOREM RegistrationsExplained == RegSpec => []RegistrationExplained
<1>1. RegInv => LetterWellSpent
  <2> SUFFICES ASSUME RegInv, NEW l \in used,
                      NEW by, by = {r \in Requests : shows[r] = l}
               PROVE  /\ Cardinality(by \cap users) <= 1
                      /\ \/ by \cap users # {}
                         \/ \E r \in by : reg[r] = "insert" \/ r \in clash \cup troubled
    BY Zenon DEF LetterWellSpent
  <2>1. Cardinality(by \cap users) <= 1
    <3>1. CASE by \cap users = {}
      BY <3>1, FS_EmptySet
    <3>2. ASSUME NEW p \in by \cap users PROVE Cardinality(by \cap users) <= 1
      <4>1. by \cap users = {p}
        BY DEF RegInv, OneAccount
      <4> QED BY <4>1, FS_Singleton
    <3> QED BY <3>1, <3>2
  <2>2. PICK r \in Requests :
           shows[r] = l /\ (reg[r] = "insert" \/ r \in users \cup clash \cup troubled)
    BY DEF RegInv, Spent
  <2>3. r \in by
    BY <2>2
  <2> QED BY <2>1, <2>2, <2>3
<1>2. RegInv => RewardExplained
  BY DEF RegInv, RegTypeOK, Rewarded, RewardExplained
<1> QED BY <1>1, <1>2, RegInvariant, PTL DEF RegistrationExplained

-----------------------------------------------------------------------------
(* Passwords, sessions and administrators                                  *)

(* Who is about to be removed is not the last administrator, as long as no *)
(* two removals overlapped.                                                *)
OthersLeft ==
    ~overlap =>
        /\ admin \cap people # {}
        /\ \A x \in Removals : removal[x] = "write" /\ of[x] \in admin =>
              \E a \in admin \cap people : a # of[x]

(* A session is of the account its login read, once. An imposed password   *)
(* is no later than the present one. A login under way that has read an    *)
(* older one will be met by the DELETE, or was.                            *)
Opened ==
    /\ \A l \in Logins : session[l] # Nobody => login[l] = "over" /\ session[l] = who[l]
    /\ \A l \in Logins : login[l] = "open" => who[l] \in People
    /\ \A p \in People : imposed[p] <= password[p]
    /\ \A l \in Logins : login[l] = "open" /\ typed[l] < imposed[who[l]] =>
          \/ \E x \in Resets : reset[x] = "sessions" /\ whose[x] = who[l]
          \/ l \in overtook \cup missed

AccInv == AccTypeOK /\ OthersLeft /\ Opened /\ ResetEndsSessions

LEMMA AccInitInv == AccInit => AccInv
<1> SUFFICES ASSUME AccInit PROVE AccInv
  OBVIOUS
<1>1. AccTypeOK
  <2>1. /\ people \subseteq People /\ admin \subseteq People /\ password \in [People -> Nat]
        /\ imposed \in [People -> Nat] /\ slips \in 0..AccMishaps
    BY AccAssumption DEF AccInit
  <2>2. /\ session \in [Logins -> People \cup {Nobody}] /\ who \in [Logins -> People \cup {Nobody}]
        /\ login \in [Logins -> {"idle", "open", "over"}] /\ typed \in [Logins -> Nat]
    BY DEF AccInit
  <2>3. /\ removal \in [Removals -> {"idle", "count", "write", "over"}]
        /\ of \in [Removals -> People \cup {Nobody}] /\ kind \in [Removals -> {"demote", "delete"}]
        /\ reset \in [Resets -> {"idle", "sessions", "over"}] /\ whose \in [Resets -> People \cup {Nobody}]
    BY DEF AccInit
  <2>4. overlap \in BOOLEAN /\ overtook \subseteq Logins /\ missed \subseteq Logins
    BY DEF AccInit
  <2> QED BY <2>1, <2>2, <2>3, <2>4 DEF AccTypeOK
<1>2. OthersLeft
  BY AccAssumption DEF AccInit, OthersLeft
<1>3. Opened /\ ResetEndsSessions
  BY AccAssumption DEF AccInit, Opened, ResetEndsSessions
<1> QED BY <1>1, <1>2, <1>3 DEF AccInv

LEMMA SlipType == ASSUME AccTypeOK, NEW f, Slip(f) PROVE slips' \in 0..AccMishaps
BY AccAssumption DEF AccTypeOK, Slip

(* Among two administrators there is another.                              *)
LEMMA AtMostOne ==
    ASSUME NEW S, NEW p, \A a \in S : a = p
    PROVE  Cardinality(S) = 0 \/ Cardinality(S) = 1
<1>1. CASE S = {}
  <2>1. Cardinality({}) = 0
    BY FS_EmptySet
  <2> QED BY <1>1, <2>1, Zenon
<1>2. CASE S # {}
  <2>1. S = {p}
    BY <1>2
  <2>2. Cardinality({p}) = 1
    BY FS_Singleton
  <2> QED BY <2>1, <2>2, Zenon
<1> QED BY <1>1, <1>2

LEMMA AccTypeStep == AccTypeOK /\ [AccNext]_accVars => AccTypeOK'
<1> SUFFICES ASSUME AccTypeOK, [AccNext]_accVars PROVE AccTypeOK'
  OBVIOUS
<1> USE AccAssumption, SlipType DEF AccTypeOK,
        usersRows, loginVars, removalVars, resetVars, Kept
<1>1. ASSUME NEW l \in Logins, CreateSession(l) PROVE AccTypeOK'
  BY <1>1 DEF CreateSession
<1>2. ASSUME NEW l \in Logins, EndSession(l) PROVE AccTypeOK'
  BY <1>2 DEF EndSession
<1>3. ASSUME NEW l \in Logins, NEW p \in People, ReadUser(l, p) PROVE AccTypeOK'
  BY <1>3 DEF ReadUser
<1>4. ASSUME NEW p \in People, ChangePassword(p) PROVE AccTypeOK'
  BY <1>4 DEF ChangePassword
<1>5. ASSUME NEW a \in People, NEW p \in People, Promote(a, p) PROVE AccTypeOK'
  BY <1>5 DEF Promote
<1>6. ASSUME NEW x \in Removals, CountAdmins(x) PROVE AccTypeOK'
  BY <1>6 DEF CountAdmins
<1>7. ASSUME NEW x \in Removals, Remove(x) PROVE AccTypeOK'
  BY <1>7, ZenonT(20) DEF Remove
<1>8. ASSUME NEW x \in Removals, NEW a \in People, NEW p \in People, NEW k \in {"demote", "delete"},
             AskRemoval(x, a, p, k) PROVE AccTypeOK'
  BY <1>8 DEF AskRemoval
<1>9. ASSUME NEW x \in Resets, DropSessions(x) PROVE AccTypeOK'
  BY <1>9 DEF DropSessions, SessionsOf, Overtaken
<1>10. ASSUME NEW x \in Resets, NEW a \in People, NEW p \in People, ResetPassword(x, a, p) PROVE AccTypeOK'
  BY <1>10 DEF ResetPassword
<1>11. ASSUME UNCHANGED accVars PROVE AccTypeOK'
  BY <1>11 DEF accVars, accGhosts
<1> QED
  BY <1>1, <1>2, <1>3, <1>4, <1>5, <1>6, <1>7, <1>8, <1>9, <1>10, <1>11 DEF AccNext

LEMMA OthersStep == AccInv /\ [AccNext]_accVars => OthersLeft'
<1> SUFFICES ASSUME AccInv, [AccNext]_accVars PROVE OthersLeft'
  OBVIOUS
<1> USE AccAssumption DEF AccInv, AccTypeOK, OthersLeft,
        usersRows, loginVars, removalVars, resetVars, Kept
<1>1. ASSUME NEW l \in Logins, CreateSession(l) PROVE OthersLeft'
  BY <1>1 DEF CreateSession
<1>2. ASSUME NEW l \in Logins, EndSession(l) PROVE OthersLeft'
  BY <1>2 DEF EndSession
<1>3. ASSUME NEW l \in Logins, NEW p \in People, ReadUser(l, p) PROVE OthersLeft'
  BY <1>3 DEF ReadUser
<1>4. ASSUME NEW p \in People, ChangePassword(p) PROVE OthersLeft'
  BY <1>4 DEF ChangePassword
<1>5. ASSUME NEW a \in People, NEW p \in People, Promote(a, p) PROVE OthersLeft'
  BY <1>5 DEF Promote
<1>6. ASSUME NEW x \in Removals, CountAdmins(x) PROVE OthersLeft'
  <2>1. UNCHANGED <<people, admin, of, kind, overlap>>
    BY <1>6 DEF CountAdmins
  <2>2. \A y \in Removals \ {x} : removal'[y] = removal[y]
    BY <1>6 DEF CountAdmins
  <2>3. ASSUME removal'[x] = "write", of[x] \in admin
        PROVE  \E a \in admin \cap people : a # of[x]
    <3>1. ~(Cardinality(admin \cap people) <= 1)
      BY <1>6, <2>3 DEF CountAdmins
    <3>2. SUFFICES ASSUME \A a \in admin \cap people : a = of[x] PROVE FALSE
      OBVIOUS
    <3>3. Cardinality(admin \cap people) = 0 \/ Cardinality(admin \cap people) = 1
      BY ONLY <3>2, AtMostOne
    <3> QED BY ONLY <3>1, <3>3
  <2> QED BY <2>1, <2>2, <2>3
<1>7. ASSUME NEW x \in Removals, Remove(x) PROVE OthersLeft'
  <2>1. CASE ~overlap'
    <3>1. CASE UNCHANGED <<admin, people, session, overlap, overtook, missed>>
      BY <1>7, <3>1 DEF Remove
    <3>2. CASE /\ admin' = admin \ {of[x]} /\ people \ {of[x]} \subseteq people'
               /\ overlap' = (overlap \/ \E y \in Removals \ {x} : removal[y] = "write" /\ of[y] \in admin)
      <4>1. ~overlap /\ \A y \in Removals \ {x} : removal[y] = "write" => of[y] \notin admin
        BY <2>1, <3>2, Zenon
      <4>2. admin \cap people # {} /\ (of[x] \in admin => \E a \in admin \cap people : a # of[x])
        BY <1>7, <4>1 DEF Remove
      <4>3. admin' \cap people' # {}
        BY <3>2, <4>2
      <4>4. \A y \in Removals : removal'[y] = "write" => of'[y] \notin admin'
        BY <1>7, <3>2, <4>1 DEF Remove
      <4> QED BY <4>3, <4>4
    <3> QED
      <4>1. \/ UNCHANGED <<admin, people, session, overlap, overtook, missed>>
            \/ /\ admin' = admin \ {of[x]} /\ people \ {of[x]} \subseteq people'
               /\ overlap' = (overlap \/ \E y \in Removals \ {x} : removal[y] = "write" /\ of[y] \in admin)
        BY <1>7 DEF Remove
      <4> QED BY <3>1, <3>2, <4>1
  <2> QED BY <2>1
<1>8. ASSUME NEW x \in Removals, NEW a \in People, NEW p \in People, NEW k \in {"demote", "delete"},
             AskRemoval(x, a, p, k) PROVE OthersLeft'
  BY <1>8 DEF AskRemoval
<1>9. ASSUME NEW x \in Resets, DropSessions(x) PROVE OthersLeft'
  BY <1>9 DEF DropSessions, SessionsOf, Overtaken
<1>10. ASSUME NEW x \in Resets, NEW a \in People, NEW p \in People, ResetPassword(x, a, p) PROVE OthersLeft'
  BY <1>10 DEF ResetPassword
<1>11. ASSUME UNCHANGED accVars PROVE OthersLeft'
  BY <1>11 DEF accVars, accGhosts
<1> QED
  BY <1>1, <1>2, <1>3, <1>4, <1>5, <1>6, <1>7, <1>8, <1>9, <1>10, <1>11 DEF AccNext

LEMMA OpenedStep == AccInv /\ [AccNext]_accVars => (Opened /\ ResetEndsSessions)'
<1> SUFFICES ASSUME AccInv, [AccNext]_accVars PROVE (Opened /\ ResetEndsSessions)'
  OBVIOUS
<1> USE AccAssumption DEF AccInv, AccTypeOK, Opened, ResetEndsSessions,
        usersRows, loginVars, removalVars, resetVars, Kept
<1>1. ASSUME NEW l \in Logins, CreateSession(l) PROVE (Opened /\ ResetEndsSessions)'
  BY <1>1 DEF CreateSession
<1>2. ASSUME NEW l \in Logins, EndSession(l) PROVE (Opened /\ ResetEndsSessions)'
  BY <1>2 DEF EndSession
<1>3. ASSUME NEW l \in Logins, NEW p \in People, ReadUser(l, p) PROVE (Opened /\ ResetEndsSessions)'
  BY <1>3 DEF ReadUser
<1>4. ASSUME NEW p \in People, ChangePassword(p) PROVE (Opened /\ ResetEndsSessions)'
  BY <1>4 DEF ChangePassword
<1>5. ASSUME NEW a \in People, NEW p \in People, Promote(a, p) PROVE (Opened /\ ResetEndsSessions)'
  BY <1>5 DEF Promote
<1>6. ASSUME NEW x \in Removals, CountAdmins(x) PROVE (Opened /\ ResetEndsSessions)'
  BY <1>6 DEF CountAdmins
<1>7. ASSUME NEW x \in Removals, Remove(x) PROVE (Opened /\ ResetEndsSessions)'
  BY <1>7 DEF Remove
<1>8. ASSUME NEW x \in Removals, NEW a \in People, NEW p \in People, NEW k \in {"demote", "delete"},
             AskRemoval(x, a, p, k) PROVE (Opened /\ ResetEndsSessions)'
  BY <1>8 DEF AskRemoval
<1>9. ASSUME NEW x \in Resets, DropSessions(x) PROVE (Opened /\ ResetEndsSessions)'
  BY <1>9 DEF DropSessions, SessionsOf, Overtaken
<1>10. ASSUME NEW x \in Resets, NEW a \in People, NEW p \in People, ResetPassword(x, a, p) PROVE (Opened /\ ResetEndsSessions)'
  BY <1>10 DEF ResetPassword
<1>11. ASSUME UNCHANGED accVars PROVE (Opened /\ ResetEndsSessions)'
  BY <1>11 DEF accVars, accGhosts
<1> QED
  BY <1>1, <1>2, <1>3, <1>4, <1>5, <1>6, <1>7, <1>8, <1>9, <1>10, <1>11 DEF AccNext

-----------------------------------------------------------------------------
(* Every query keeps every row and position in its domain (auth.rs,        *)
(* admin.rs, profile.rs).                                                  *)
THEOREM AccTypeCorrect == AccSpec => []AccTypeOK
<1>1. AccInit => AccTypeOK
  BY AccInitInv DEF AccInv
<1> QED BY <1>1, AccTypeStep, PTL DEF AccSpec

(* The inductive invariant of the two theorems that follow.                *)
LEMMA AccInvariant == AccSpec => []AccInv
<1>1. AccInv /\ [AccNext]_accVars => AccInv'
  BY AccTypeStep, OthersStep, OpenedStep DEF AccInv
<1> QED BY <1>1, AccInitInv, PTL DEF AccSpec

(* Somebody administers the site however many removals there are, unless   *)
(* two of them had counted before either wrote (update_user 268-300,       *)
(* delete_user 347-360).                                                   *)
THEOREM AlwaysAdministered == AccSpec => []SomebodyAdministers
<1>1. AccInv => SomebodyAdministers
  BY DEF AccInv, OthersLeft, SomebodyAdministers
<1> QED BY <1>1, AccInvariant, PTL

(* No session outlives an imposed password but one opened by a login that  *)
(* had read the old one, or one whose DELETE failed (update_user 325-331). *)
THEOREM SessionsEnd == AccSpec => []ResetEndsSessions
<1>1. AccInv => ResetEndsSessions
  BY DEF AccInv
<1> QED BY <1>1, AccInvariant, PTL

-----------------------------------------------------------------------------
(* The command line and agent tokens                                       *)

Minting == {"mint", "claim", "giveBack", "answer"}
Holding == {"claim", "giveBack", "answer"}

(* A code that was approved is not denied; the account a poll read is the  *)
(* one that approved it, and stays it.                                     *)
Approved ==
    /\ \A c \in Codes : owner[c] # NoOne => ~denied[c]
    /\ \A p \in Polls : poll[p] \in Minting => saw[p] # NoOne /\ owner[CodeOf[p]] = saw[p]

(* What a poll or a request has not inserted yet is not there; what it has *)
(* is its account's.                                                       *)
Held ==
    /\ \A p \in Polls : poll[p] \in {"idle", "mint"} => token[p] = "none"
    /\ \A p \in Polls : poll[p] \in Holding => holder[p] = saw[p]
    /\ \A k \in Pages : page[k] \in {"idle", "insert"} => token[k] = "none"
    /\ \A k \in Pages : token[k] = "live" => holder[k] = By[k]

(* The poll that claimed a code is past its claim; one that answers, or    *)
(* whose token arrived, is the one that claimed.                           *)
Claimed ==
    /\ \A c \in Codes : consumed[c] # NoOne =>
          /\ CodeOf[consumed[c]] = c /\ poll[consumed[c]] \in {"answer", "over"}
          /\ owner[c] # NoOne /\ holder[consumed[c]] = owner[c]
    /\ \A p \in Polls : poll[p] = "answer" \/ p \in heard => consumed[CodeOf[p]] = p

CliInv == CliTypeOK /\ Approved /\ Held /\ Claimed /\ NoOrphanToken

LEMMA CliInitInv == CliInit => CliInv
BY CliAssumption DEF CliInit, CliInv, CliTypeOK, Approved, Held, Claimed, NoOrphanToken,
    Tokens, Minting, Holding

LEMMA MishapType ==
    ASSUME CliTypeOK, NEW f, Mishap(f)
    PROVE  mishaps' \in 0..CliMishaps
<1>1. mishaps \in 0..CliMishaps
  BY DEF CliTypeOK
<1>2. CliMishaps \in Nat
  BY CliAssumption
<1> QED BY <1>1, <1>2 DEF Mishap

LEMMA OvertakenType ==
    ASSUME NEW t, NEW u, Minted(t, u)
    PROVE  overtaken' \in [Pages -> BOOLEAN]
BY Zenon DEF Minted

LEMMA CliTypeStep == CliTypeOK /\ [CliNext]_cliVars => CliTypeOK'
<1> SUFFICES ASSUME CliTypeOK, [CliNext]_cliVars PROVE CliTypeOK'
  OBVIOUS
<1> USE CliAssumption, MishapType DEF CliTypeOK, Tokens, Fine, Fails, PollAt,
        rowOfCode, tokens, pagesOf
<1>1. ASSUME NEW c \in Codes, Start(c) PROVE CliTypeOK'
  BY <1>1 DEF Start
<1>2. ASSUME NEW c \in Codes, Deny(c) PROVE CliTypeOK'
  BY <1>2 DEF Deny
<1>3. ASSUME NEW c \in Codes, CodeExpires(c) PROVE CliTypeOK'
  BY <1>3 DEF CodeExpires
<1>4. ASSUME NEW c \in Codes, NEW u \in Accounts, Approve(u, c) PROVE CliTypeOK'
  BY <1>4 DEF Approve
<1>5. ASSUME NEW p \in Polls, ReadCode(p) PROVE CliTypeOK'
  BY <1>5 DEF ReadCode
<1>6. ASSUME NEW p \in Polls, MintForPoll(p) PROVE CliTypeOK'
  <2>1. overtaken' \in [Pages -> BOOLEAN]
    BY <1>6, OvertakenType DEF MintForPoll
  <2> QED BY <1>6, <2>1 DEF MintForPoll, Minted
<1>7. ASSUME NEW p \in Polls, Claim(p) PROVE CliTypeOK'
  BY <1>7 DEF Claim
<1>8. ASSUME NEW p \in Polls, GiveBack(p) PROVE CliTypeOK'
  BY <1>8 DEF GiveBack
<1>9. ASSUME NEW p \in Polls, Answer(p) PROVE CliTypeOK'
  BY <1>9 DEF Answer
<1>10. ASSUME NEW k \in Pages, CountTokens(k) PROVE CliTypeOK'
  BY <1>10 DEF CountTokens
<1>11. ASSUME NEW k \in Pages, InsertToken(k) PROVE CliTypeOK'
  <2>1. overtaken' \in [Pages -> BOOLEAN]
    BY <1>11, OvertakenType DEF InsertToken
  <2>2. token' \in [Tokens -> {"none", "live", "revoked"}] /\ holder' \in [Tokens -> Accounts \cup {NoOne}]
    BY <1>11 DEF InsertToken, Minted
  <2> QED BY <1>11, <2>1, <2>2 DEF InsertToken
<1>12. ASSUME NEW t \in Tokens, RevokeToken(t) PROVE CliTypeOK'
  BY <1>12 DEF RevokeToken
<1>13. ASSUME NEW t \in Tokens, ClientLeaves(t) PROVE CliTypeOK'
  BY <1>13 DEF ClientLeaves, Dropped, Busy
<1>14. CASE ServerCrash
  BY <1>14 DEF ServerCrash, Dropped, Busy
<1>15. CASE UNCHANGED cliVars
  BY <1>15 DEF cliVars
<1> QED
  BY <1>1, <1>2, <1>3, <1>4, <1>5, <1>6, <1>7, <1>8, <1>9, <1>10, <1>11, <1>12, <1>13, <1>14, <1>15
  DEF CliNext

LEMMA CliInvStep == CliInv /\ [CliNext]_cliVars => CliInv'
<1> SUFFICES ASSUME CliInv, [CliNext]_cliVars PROVE CliInv'
  OBVIOUS
<1>0. CliTypeOK'
  BY CliTypeStep DEF CliInv
<1> DEFINE Rest == Approved /\ Held /\ Claimed /\ NoOrphanToken
<1> USE CliAssumption DEF CliInv, CliTypeOK, Minting, Holding, Tokens, Fine, Fails, PollAt,
        rowOfCode, tokens, pagesOf
<1>1. ASSUME NEW c \in Codes, Start(c) PROVE Rest'
  <2>1. Approved'
    BY <1>1 DEF Start, Approved
  <2>2. Held'
    BY <1>1 DEF Start, Held
  <2>3. Claimed'
    BY <1>1 DEF Start, Approved, Held, Claimed
  <2>4. NoOrphanToken'
    BY <1>1 DEF Start, Held, Claimed, NoOrphanToken
  <2> QED BY <2>1, <2>2, <2>3, <2>4
<1>2. ASSUME NEW c \in Codes, Deny(c) PROVE Rest'
  <2>1. Approved'
    BY <1>2 DEF Deny, Approved
  <2>2. Held'
    BY <1>2 DEF Deny, Held
  <2>3. Claimed'
    BY <1>2 DEF Deny, Approved, Held, Claimed
  <2>4. NoOrphanToken'
    BY <1>2 DEF Deny, Held, Claimed, NoOrphanToken
  <2> QED BY <2>1, <2>2, <2>3, <2>4
<1>3. ASSUME NEW c \in Codes, CodeExpires(c) PROVE Rest'
  <2>1. Approved'
    BY <1>3 DEF CodeExpires, Approved
  <2>2. Held'
    BY <1>3 DEF CodeExpires, Held
  <2>3. Claimed'
    BY <1>3 DEF CodeExpires, Approved, Held, Claimed
  <2>4. NoOrphanToken'
    BY <1>3 DEF CodeExpires, Held, Claimed, NoOrphanToken
  <2> QED BY <2>1, <2>2, <2>3, <2>4
<1>4. ASSUME NEW c \in Codes, NEW u \in Accounts, Approve(u, c) PROVE Rest'
  <2>1. Approved'
    BY <1>4 DEF Approve, Approved
  <2>2. Held'
    BY <1>4 DEF Approve, Held
  <2>3. Claimed'
    BY <1>4 DEF Approve, Approved, Held, Claimed
  <2>4. NoOrphanToken'
    BY <1>4 DEF Approve, Held, Claimed, NoOrphanToken
  <2> QED BY <2>1, <2>2, <2>3, <2>4
<1>5. ASSUME NEW p \in Polls, ReadCode(p) PROVE Rest'
  <2>1. Approved'
    BY <1>5 DEF ReadCode, Approved
  <2>2. Held'
    BY <1>5 DEF ReadCode, Held
  <2>3. Claimed'
    BY <1>5 DEF ReadCode, Approved, Held, Claimed
  <2>4. NoOrphanToken'
    BY <1>5 DEF ReadCode, Held, Claimed, NoOrphanToken
  <2> QED BY <2>1, <2>2, <2>3, <2>4
<1>6. ASSUME NEW p \in Polls, MintForPoll(p) PROVE Rest'
  <2>1. Approved'
    BY <1>6 DEF MintForPoll, Minted, Approved
  <2>2. Held'
    BY <1>6 DEF MintForPoll, Minted, Held
  <2>3. Claimed'
    BY <1>6 DEF MintForPoll, Minted, Approved, Held, Claimed
  <2>4. NoOrphanToken'
    BY <1>6 DEF MintForPoll, Minted, Held, Claimed, NoOrphanToken
  <2> QED BY <2>1, <2>2, <2>3, <2>4
<1>7. ASSUME NEW p \in Polls, Claim(p) PROVE Rest'
  <2>1. Approved'
    BY <1>7 DEF Claim, Approved
  <2>2. Held'
    BY <1>7 DEF Claim, Held
  <2>3. Claimed'
    BY <1>7 DEF Claim, Approved, Held, Claimed
  <2>4. NoOrphanToken'
    BY <1>7 DEF Claim, Held, Claimed, NoOrphanToken
  <2> QED BY <2>1, <2>2, <2>3, <2>4
<1>8. ASSUME NEW p \in Polls, GiveBack(p) PROVE Rest'
  <2>1. Approved'
    BY <1>8 DEF GiveBack, Approved
  <2>2. Held'
    BY <1>8 DEF GiveBack, Held
  <2>3. Claimed'
    BY <1>8 DEF GiveBack, Approved, Held, Claimed
  <2>4. NoOrphanToken'
    BY <1>8 DEF GiveBack, Held, Claimed, NoOrphanToken
  <2> QED BY <2>1, <2>2, <2>3, <2>4
<1>9. ASSUME NEW p \in Polls, Answer(p) PROVE Rest'
  <2>1. Approved'
    BY <1>9 DEF Answer, Approved
  <2>2. Held'
    BY <1>9 DEF Answer, Held
  <2>3. Claimed'
    BY <1>9 DEF Answer, Approved, Held, Claimed
  <2>4. NoOrphanToken'
    BY <1>9 DEF Answer, Held, Claimed, NoOrphanToken
  <2> QED BY <2>1, <2>2, <2>3, <2>4
<1>10. ASSUME NEW k \in Pages, CountTokens(k) PROVE Rest'
  <2>1. Approved'
    BY <1>10 DEF CountTokens, Approved
  <2>2. Held'
    BY <1>10 DEF CountTokens, Held
  <2>3. Claimed'
    BY <1>10 DEF CountTokens, Approved, Held, Claimed
  <2>4. NoOrphanToken'
    BY <1>10 DEF CountTokens, Held, Claimed, NoOrphanToken
  <2> QED BY <2>1, <2>2, <2>3, <2>4
<1>11. ASSUME NEW k \in Pages, InsertToken(k) PROVE Rest'
  <2>1. Approved'
    BY <1>11 DEF InsertToken, Minted, Approved
  <2>2. Held'
    BY <1>11 DEF InsertToken, Minted, Held
  <2>3. Claimed'
    BY <1>11 DEF InsertToken, Minted, Approved, Held, Claimed
  <2>4. NoOrphanToken'
    BY <1>11 DEF InsertToken, Minted, Held, Claimed, NoOrphanToken
  <2> QED BY <2>1, <2>2, <2>3, <2>4
<1>12. ASSUME NEW t \in Tokens, RevokeToken(t) PROVE Rest'
  <2>1. Approved'
    BY <1>12 DEF RevokeToken, Approved
  <2>2. Held'
    BY <1>12 DEF RevokeToken, Held
  <2>3. Claimed'
    BY <1>12 DEF RevokeToken, Approved, Held, Claimed
  <2>4. NoOrphanToken'
    BY <1>12 DEF RevokeToken, Held, Claimed, NoOrphanToken
  <2> QED BY <2>1, <2>2, <2>3, <2>4
<1>13. ASSUME NEW t \in Tokens, ClientLeaves(t) PROVE Rest'
  <2>1. Approved'
    BY <1>13 DEF ClientLeaves, Dropped, Busy, Approved
  <2>2. Held'
    BY <1>13 DEF ClientLeaves, Dropped, Busy, Held
  <2>3. Claimed'
    BY <1>13 DEF ClientLeaves, Dropped, Busy, Approved, Held, Claimed
  <2>4. NoOrphanToken'
    BY <1>13 DEF ClientLeaves, Dropped, Busy, Held, Claimed, NoOrphanToken
  <2> QED BY <2>1, <2>2, <2>3, <2>4
<1>14. ASSUME ServerCrash PROVE Rest'
  <2>1. Approved'
    BY <1>14 DEF ServerCrash, Dropped, Busy, Approved
  <2>2. Held'
    BY <1>14 DEF ServerCrash, Dropped, Busy, Held
  <2>3. Claimed'
    BY <1>14 DEF ServerCrash, Dropped, Busy, Approved, Held, Claimed
  <2>4. NoOrphanToken'
    BY <1>14 DEF ServerCrash, Dropped, Busy, Held, Claimed, NoOrphanToken
  <2> QED BY <2>1, <2>2, <2>3, <2>4
<1>15. ASSUME UNCHANGED cliVars PROVE Rest'
  <2>1. Approved'
    BY <1>15 DEF cliVars, Approved
  <2>2. Held'
    BY <1>15 DEF cliVars, Held
  <2>3. Claimed'
    BY <1>15 DEF cliVars, Approved, Held, Claimed
  <2>4. NoOrphanToken'
    BY <1>15 DEF cliVars, Held, Claimed, NoOrphanToken
  <2> QED BY <2>1, <2>2, <2>3, <2>4
<1> QED
  BY <1>0, <1>1, <1>2, <1>3, <1>4, <1>5, <1>6, <1>7, <1>8, <1>9, <1>10, <1>11, <1>12, <1>13, <1>14, <1>15
  DEF CliNext

-----------------------------------------------------------------------------
(* The cap                                                                 *)

Live(u) == {t \in Tokens : token[t] = "live" /\ holder[t] = u}
ByHand(u) == {k \in Pages : token[k] = "live" /\ By[k] = u}

(* Those whose count stood when they were inserted.                        *)
WellCounted(u) == {k \in ByHand(u) : ~overtaken[k] /\ k \notin hit}

(* A request whose count still stands has room for the row it inserts, and *)
(* so had those before it.                                                 *)
Room ==
    /\ \A k \in Pages :
          page[k] = "insert" /\ ~overtaken[k] /\ k \notin hit => Counted(By[k]) < TokenCap
    /\ \A u \in Accounts : Cardinality(WellCounted(u)) <= TokenCap

CapInv == CliInv /\ Room

LEMMA Sizes ==
    ASSUME NEW S \in SUBSET Tokens
    PROVE  /\ IsFiniteSet(S) /\ Cardinality(S) \in Nat
           /\ \A T \in SUBSET S : IsFiniteSet(T) /\ Cardinality(T) <= Cardinality(S)
<1>1. IsFiniteSet(Tokens)
  BY CliAssumption DEF Tokens
<1> QED BY <1>1, FS_Subset, FS_CardinalityType

LEMMA CountedSize == \A u : Counted(u) = Cardinality(Live(u)) /\ Counted(u) \in Nat
BY Sizes DEF Counted, Live

LEMMA CountedSizeNext == \A u : Counted(u)' = Cardinality(Live(u)') /\ Counted(u)' \in Nat
BY Sizes DEF Counted, Live

(* A step that makes no token live leaves a count that stands standing.    *)
LEMMA NoNewToken ==
    ASSUME CapInv,
           \A t \in Tokens : token'[t] = "live" => token[t] = "live" /\ holder'[t] = holder[t],
           \A k \in Pages : page'[k] = "insert" /\ k \notin hit' =>
               page[k] = "insert" \/ Counted(By[k]) < TokenCap,
           \A k \in Pages : overtaken[k] => overtaken'[k],
           hit \subseteq hit'
    PROVE  Room'
<1>1. ASSUME NEW u PROVE Counted(u)' <= Counted(u) /\ Counted(u)' \in Nat /\ Counted(u) \in Nat
  <2>1. Live(u)' \in SUBSET Live(u) /\ Live(u) \in SUBSET Tokens
    BY DEF Live
  <2> QED BY <2>1, Sizes, CountedSize, CountedSizeNext
<1>2. ASSUME NEW k \in Pages, page'[k] = "insert", ~overtaken'[k], k \notin hit'
      PROVE  Counted(By[k])' < TokenCap
  <2>1. Counted(By[k]) < TokenCap
    BY <1>2 DEF CapInv, Room
  <2> QED BY <2>1, <1>1, CliAssumption
<1>3. ASSUME NEW u \in Accounts PROVE Cardinality(WellCounted(u)') <= TokenCap
  <2>1. WellCounted(u)' \in SUBSET WellCounted(u) /\ WellCounted(u) \in SUBSET Tokens
    BY DEF WellCounted, ByHand, Tokens
  <2>2. Cardinality(WellCounted(u)) <= TokenCap
    BY DEF CapInv, Room
  <2>3. /\ Cardinality(WellCounted(u)') \in Nat /\ Cardinality(WellCounted(u)) \in Nat
        /\ Cardinality(WellCounted(u)') <= Cardinality(WellCounted(u))
    BY <2>1, Sizes
  <2> QED BY <2>2, <2>3, CliAssumption
<1> QED BY <1>2, <1>3 DEF Room

(* A step that makes one token live counts for its account: whoever of it  *)
(* had counted is overtaken.                                               *)
LEMMA NewToken ==
    ASSUME CapInv, CliTypeOK', NEW t \in Tokens, NEW u \in Accounts, Minted(t, u), token[t] = "none",
           t \in Pages => By[t] = u /\ page[t] = "insert" /\ page'[t] = "over",
           \A k \in Pages : page'[k] = "insert" => page[k] = "insert",
           UNCHANGED hit
    PROVE  Room'
<1> USE DEF CapInv, CliInv, CliTypeOK
<1>1. /\ token' = [token EXCEPT ![t] = "live"] /\ holder' = [holder EXCEPT ![t] = u]
      /\ \A k \in Pages : overtaken[k] => overtaken'[k]
      /\ \A k \in Pages : page[k] = "insert" /\ By[k] = u /\ k # t => overtaken'[k]
      /\ \A k \in Pages : k = t => (overtaken'[k] <=> overtaken[k])
  BY DEF Minted
<1>2. ASSUME NEW v, v # u PROVE Live(v)' = Live(v)
  BY <1>1, <1>2 DEF Live
<1>3. ASSUME NEW k \in Pages, page'[k] = "insert", ~overtaken'[k], k \notin hit'
      PROVE  Counted(By[k])' < TokenCap
  <2>1. By[k] # u
    BY <1>1, <1>3
  <2>2. Counted(By[k])' = Counted(By[k])
    BY <2>1, <1>2, CountedSize, CountedSizeNext
  <2> QED BY <2>2, <1>1, <1>3 DEF Room
<1>4. ASSUME NEW v \in Accounts PROVE Cardinality(WellCounted(v)') <= TokenCap
  <2>0. WellCounted(v) \in SUBSET Tokens /\ Cardinality(WellCounted(v)) <= TokenCap
    BY DEF WellCounted, ByHand, Tokens, Room
  <2>1. CASE t \in WellCounted(v)'
    <3>1. t \in Pages /\ v = u /\ ~overtaken[t] /\ t \notin hit
      BY <2>1, <1>1 DEF WellCounted, ByHand
    <3>2. Counted(v) < TokenCap
      BY <3>1 DEF Room
    <3>3. WellCounted(v)' \in SUBSET (Live(v) \cup {t})
      BY <1>1 DEF WellCounted, ByHand, Live, Held, Tokens
    <3>4. Live(v) \in SUBSET Tokens /\ Live(v) \cup {t} \in SUBSET Tokens
      BY DEF Live
    <3>5. IsFiniteSet(Live(v)) /\ Cardinality(Live(v)) \in Nat /\ Cardinality(Live(v)) < TokenCap
      BY <3>2, <3>4, Sizes, CountedSize
    <3>6. Cardinality(Live(v) \cup {t}) <= Cardinality(Live(v)) + 1
      <4>1. CASE t \in Live(v)
        <5>1. Live(v) \cup {t} = Live(v)
          BY <4>1
        <5>2. Cardinality(Live(v) \cup {t}) = Cardinality(Live(v))
          BY <5>1, Zenon
        <5> QED BY <3>5, <5>2
      <4>2. CASE t \notin Live(v)
        <5>1. Cardinality(Live(v) \cup {t}) = Cardinality(Live(v)) + 1
          BY <3>5, <4>2, FS_AddElement
        <5> QED BY <3>5, <5>1
      <4> QED BY <4>1, <4>2
    <3>7. /\ Cardinality(WellCounted(v)') \in Nat /\ Cardinality(Live(v) \cup {t}) \in Nat
          /\ Cardinality(WellCounted(v)') <= Cardinality(Live(v) \cup {t})
      BY <3>3, <3>4, Sizes
    <3> QED BY <3>5, <3>6, <3>7, CliAssumption
  <2>2. CASE t \notin WellCounted(v)'
    <3>1. WellCounted(v)' \in SUBSET WellCounted(v)
      BY <2>2, <1>1 DEF WellCounted, ByHand, Tokens
    <3>2. /\ Cardinality(WellCounted(v)') \in Nat /\ Cardinality(WellCounted(v)) \in Nat
          /\ Cardinality(WellCounted(v)') <= Cardinality(WellCounted(v))
      BY <3>1, <2>0, Sizes
    <3> QED BY <3>2, <2>0, CliAssumption
  <2> QED BY <2>1, <2>2
<1> QED BY <1>3, <1>4 DEF Room

LEMMA CapInit == CliInit => Room
<1> SUFFICES ASSUME CliInit PROVE Room
  OBVIOUS
<1>1. \A u : WellCounted(u) = {}
  BY DEF CliInit, WellCounted, ByHand, Tokens
<1>2. \A k \in Pages : page[k] # "insert"
  BY DEF CliInit
<1> QED BY <1>1, <1>2, FS_EmptySet, CliAssumption DEF Room

LEMMA CapStep == CapInv /\ [CliNext]_cliVars => CapInv'
<1> SUFFICES ASSUME CapInv, [CliNext]_cliVars PROVE Room'
  BY CliInvStep DEF CapInv
<1>0. CliTypeOK /\ CliTypeOK'
  BY CliTypeStep DEF CapInv, CliInv
<1>1. ASSUME NEW p \in Polls, MintForPoll(p) PROVE Room'
  <2>1. CASE Minted(p, saw[p]) /\ PollAt(p, "claim") /\ Fine
    <3>1. saw[p] \in Accounts /\ token[p] = "none" /\ p \notin Pages /\ p \in Tokens
      BY <1>0, <1>1, CliAssumption
      DEF MintForPoll, CapInv, CliInv, Approved, Held, Minting, CliTypeOK, Tokens
    <3>2. UNCHANGED <<page, hit>>
      BY <1>1, <2>1 DEF MintForPoll, Fine
    <3> QED BY <1>0, <2>1, <3>1, <3>2, NewToken
  <2>2. CASE Fails(p) /\ PollAt(p, "over") /\ UNCHANGED <<tokens, overtaken>>
    BY <1>1, <2>2, NoNewToken DEF MintForPoll, Fails, tokens
  <2> QED BY <1>1, <2>1, <2>2 DEF MintForPoll
<1>2. ASSUME NEW k \in Pages, InsertToken(k) PROVE Room'
  <2>1. CASE Minted(k, By[k]) /\ heard' = heard \cup {k} /\ Fine
    <3>1. By[k] \in Accounts /\ token[k] = "none" /\ k \in Tokens
      <4>1. k \in Tokens /\ By \in [Pages -> Accounts]
        BY CliAssumption DEF Tokens
      <4> QED BY <1>2, <4>1 DEF InsertToken, CapInv, CliInv, Held
    <3>2. page[k] = "insert" /\ page' = [page EXCEPT ![k] = "over"] /\ UNCHANGED hit
      BY <1>2, <2>1 DEF InsertToken, Fine
    <3>3. page'[k] = "over" /\ \A i \in Pages : page'[i] = "insert" => page[i] = "insert"
      BY <1>0, <3>2 DEF CliTypeOK
    <3> QED BY <1>0, <2>1, <3>1, <3>2, <3>3, NewToken
  <2>2. CASE Fails(k) /\ UNCHANGED <<tokens, overtaken, heard>>
    BY <1>0, <1>2, <2>2, NoNewToken DEF InsertToken, Fails, tokens, CliTypeOK
  <2> QED BY <1>2, <2>1, <2>2 DEF InsertToken
<1>3. ASSUME NEW k \in Pages, CountTokens(k) PROVE Room'
  BY <1>0, <1>3, NoNewToken DEF CountTokens, Fails, Fine, tokens, CliTypeOK
<1>4. ASSUME NEW t \in Tokens, RevokeToken(t) PROVE Room'
  BY <1>0, <1>4, NoNewToken DEF RevokeToken, Fine, pagesOf, CliTypeOK
<1>5. ASSUME NEW p \in Polls, GiveBack(p) PROVE Room'
  BY <1>0, <1>5, NoNewToken DEF GiveBack, Fails, Fine, pagesOf, CliTypeOK
<1>6. ASSUME NEW t \in Tokens, ClientLeaves(t) PROVE Room'
  BY <1>0, <1>6, NoNewToken DEF ClientLeaves, Dropped, tokens, CliTypeOK
<1>7. CASE ServerCrash
  BY <1>0, <1>7, NoNewToken DEF ServerCrash, Dropped, tokens, CliTypeOK
<1>8. CASE UNCHANGED <<tokens, pagesOf>> /\ hit \subseteq hit'
  BY <1>0, <1>8, NoNewToken DEF tokens, pagesOf
<1>9. ASSUME NEW c \in Codes, Start(c) \/ Deny(c) \/ CodeExpires(c) PROVE Room'
  BY <1>8, <1>9 DEF Start, Deny, CodeExpires, Fine
<1>10. ASSUME NEW c \in Codes, NEW u \in Accounts, Approve(u, c) PROVE Room'
  BY <1>8, <1>10 DEF Approve, Fine
<1>11. ASSUME NEW p \in Polls, ReadCode(p) \/ Claim(p) \/ Answer(p) PROVE Room'
  BY <1>8, <1>11 DEF ReadCode, Claim, Answer, Fine, Fails
<1>12. CASE UNCHANGED cliVars
  BY <1>8, <1>12 DEF cliVars
<1> QED
  BY <1>1, <1>2, <1>3, <1>4, <1>5, <1>6, <1>7, <1>9, <1>10, <1>11, <1>12 DEF CliNext

LEMMA CapConsequence == CapInv => TokensExplained
<1> SUFFICES ASSUME CapInv PROVE HandedOnce /\ NoOrphanToken /\ TokensCapped
  BY DEF TokensExplained
<1>1. HandedOnce
  BY CliAssumption DEF CapInv, CliInv, CliTypeOK, Claimed, Approved, HandedOnce
<1>2. NoOrphanToken
  BY DEF CapInv, CliInv
<1>3. TokensCapped
  <2> SUFFICES ASSUME NEW u \in Accounts, Cardinality(ByHand(u)) > TokenCap
               PROVE  \E k \in ByHand(u) : overtaken[k] \/ k \in hit
    BY DEF TokensCapped, ByHand
  <2>1. Cardinality(WellCounted(u)) <= TokenCap
    BY DEF CapInv, Room
  <2>2. Cardinality(WellCounted(u)) \in Nat /\ Cardinality(ByHand(u)) \in Nat
    BY Sizes DEF WellCounted, ByHand, Tokens
  <2>3. ByHand(u) # WellCounted(u)
    BY <2>1, <2>2, CliAssumption
  <2> QED BY <2>3 DEF WellCounted
<1> QED BY <1>1, <1>2, <1>3

-----------------------------------------------------------------------------
(* The steps of the command line, the browser and the server keep every    *)
(* row and every position in its domain (cli_auth.rs, agent_token.rs).     *)
THEOREM CliTypeCorrect == CliSpec => []CliTypeOK
<1>1. CliInit => CliTypeOK
  BY CliInitInv DEF CliInv
<1> QED BY <1>1, CliTypeStep, PTL DEF CliSpec

(* Whatever polls race, clients leave and queries fail: a code is worth    *)
(* one token, of the account that approved it; a token nobody was given is *)
(* not left alive but by a mishap between its INSERT and the claim; and    *)
(* more tokens by hand than the cap take a count that was overtaken        *)
(* (poll 311-353, create_token 284-300).                                   *)
THEOREM TokensAreExplained == CliSpec => []TokensExplained
<1>1. CliInit => CapInv
  BY CliInitInv, CapInit DEF CapInv
<1> QED BY <1>1, CapStep, CapConsequence, PTL DEF CliSpec
=============================================================================
