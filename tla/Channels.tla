------------------------------- MODULE Channels -------------------------------
(***************************************************************************)
(* Upstream channels (src/channels.rs): the tables administrators edit,    *)
(* the cached catalogs, the routing of a chat, the pruning of prices that  *)
(* nothing serves any more and the import of prices (src/newapi_sync.rs).  *)
(* A reader is a request that asks the channels what they offer; what it   *)
(* read before it waited may be stale when it goes on.                     *)
(***************************************************************************)
EXTENDS Integers, FiniteSets, Sequences, Functions

CONSTANTS
    Channels, Tier,      \* upstream_channels, numbered; priority
    Conns, Wire,         \* what the signature hashes (protocol, base_url, api_key), and its protocol
    Models, WireOf,      \* model_pricing.model and its protocol
    Names, Unbound,      \* what upstreams call models, a model's own name among them
    Routers, RouteOf,    \* requests for a chat, and its model
    Pruners, Syncs,      \* requests to prune, to import prices
    Ttl, ErrorTtl,       \* CATALOG_TTL, CATALOG_ERROR_TTL, in ticks
    Limit,               \* the timeout of a probe
    MaxEdits, MaxShifts

ASSUME ChannelsAssumption ==
    /\ Channels \subseteq Nat /\ IsFiniteSet(Channels) /\ Tier \in [Channels -> Nat]
    /\ Models \subseteq Names /\ Unbound \notin Names
    /\ RouteOf \in [Routers -> Models] /\ Routers \cap Pruners = {}
    /\ {Ttl, ErrorTtl, Limit, MaxEdits, MaxShifts} \subseteq Nat

Readers == Routers \cup Pruners

VARIABLES
    there, on, conn, bound, price,   \* rows of upstream_channels, enabled, connection; channel_models; model_pricing
    offers, shifts, gone,            \* what a connection lists, how often any of them changed, since when a name is gone
    cache, dirty, turn,              \* catalog_cache; patched, invalidate_catalog still to come; the round robin's counters
    at, chans, with, alias, got,     \* a reader: where it stands, the channels it read, their connections and names, the catalogs
    listed, chain, asked,            \* the prices a pruner read, the chain a router made, ghost: tables changed since it read them
    sync, existing,                  \* an import: where it stands, the rows it read
    choice, late, wrong, edits       \* ghosts: what the operator last chose; rows written over a later choice; prices pruned wrongly

tables == <<there, on, conn, bound, price>>
upstream == <<offers, shifts, gone>>
reading == <<at, chans, with, alias, got, listed, chain, asked>>
imports == <<sync, existing>>
verdicts == <<choice, late, wrong, edits>>
channelsVars == <<tables, upstream, cache, dirty, turn, reading, imports, verdicts>>

Tiers == {Tier[c] : c \in Channels}
LongAgo == Ttl + 2 * Limit + 1
Blank == [st |-> "none", ok |-> FALSE, names |-> {}, ver |-> 0, age |-> 0]
NoEntry == [conn |-> "none", age |-> Ttl, ok |-> FALSE, names |-> {}, ver |-> 0]

ChannelsTypeOK ==
    /\ there \subseteq Channels /\ on \subseteq there /\ conn \in [Channels -> Conns]
    /\ bound \in [Models -> [Channels -> Names \cup {Unbound}]]
    /\ price \in [Models -> {"none", "off", "on"}]
    /\ offers \in [Conns -> SUBSET Names] /\ shifts \in 0..MaxShifts
    /\ dirty \subseteq Channels /\ gone \in [Conns -> [Names -> 0..LongAgo]]
    /\ at \in [Readers -> {"idle", "bound", "restricted", "any", "channels", "probe", "bindings", "routed", "over"}]
    /\ chans \in [Readers -> SUBSET Channels] /\ with \in [Readers -> [Channels -> Conns]]
    /\ sync \in [Syncs -> {"idle", "write", "over"}] /\ edits \in 0..MaxEdits

ChannelsInit ==
    /\ there \in SUBSET Channels /\ on = there
    /\ \E k \in Conns : conn = [c \in Channels |-> k]
    /\ bound = [m \in Models |-> [c \in Channels |-> Unbound]]
    /\ price = [m \in Models |-> "on"] /\ choice = price
    /\ \E k \in Conns : offers = [j \in Conns |-> IF j = k THEN Models ELSE {}]
    /\ shifts = 0
    /\ gone = [k \in Conns |-> [n \in Names |-> LongAgo]]
    /\ cache = [c \in Channels |-> NoEntry] /\ dirty = {} /\ turn = [m \in Models |-> [t \in Tiers |-> 0]]
    /\ at = [r \in Readers |-> "idle"] /\ chans = [r \in Readers |-> {}]
    /\ with = [r \in Readers |-> conn] /\ alias = [r \in Readers |-> [c \in Channels |-> Unbound]]
    /\ got = [r \in Readers |-> [c \in Channels |-> Blank]]
    /\ listed = [r \in Readers |-> {}] /\ chain = [r \in Readers |-> <<>>] /\ asked = [r \in Readers |-> FALSE]
    /\ sync = [s \in Syncs |-> "idle"] /\ existing = [s \in Syncs |-> price]
    /\ late = {} /\ wrong = {} /\ edits = 0

-----------------------------------------------------------------------------
(* The tables                                                              *)

Edit == edits < MaxEdits /\ edits' = edits + 1 /\ asked' = [r \in Readers |-> TRUE]
Untouched == UNCHANGED <<upstream, turn, at, chans, with, alias, got, listed, chain, imports, wrong>>

(* create_channel, once a row is free.                                     *)
CreateChannel(c, k) ==
    /\ c \notin there /\ Edit /\ there' = there \cup {c} /\ on' = on \cup {c}
    /\ conn' = [conn EXCEPT ![c] = k]
    /\ UNCHANGED <<bound, price, cache, dirty, choice, late>> /\ Untouched

(* update_channel and, once it has answered, invalidate_catalog.           *)
SwitchChannel(c) ==
    /\ c \in there /\ Edit /\ on' = IF c \in on THEN on \ {c} ELSE on \cup {c}
    /\ dirty' = dirty \cup {c}
    /\ UNCHANGED <<there, conn, bound, price, cache, choice, late>> /\ Untouched
MoveChannel(c, k) ==
    /\ c \in there /\ k # conn[c] /\ Edit /\ conn' = [conn EXCEPT ![c] = k]
    /\ dirty' = dirty \cup {c}
    /\ UNCHANGED <<there, on, bound, price, cache, choice, late>> /\ Untouched
(* delete_channel: its bindings go with it.                                *)
DeleteChannel(c) ==
    /\ c \in there /\ Edit /\ there' = there \ {c} /\ on' = on \ {c} /\ dirty' = dirty \cup {c}
    /\ bound' = [m \in Models |-> [bound[m] EXCEPT ![c] = Unbound]]
    /\ UNCHANGED <<conn, price, cache, choice, late>> /\ Untouched
InvalidateCatalog(c) ==
    /\ c \in dirty /\ dirty' = dirty \ {c} /\ cache' = [cache EXCEPT ![c] = NoEntry]
    /\ UNCHANGED <<tables, edits, asked, choice, late>> /\ Untouched

(* set_channel_models, for one model.                                      *)
BindChannel(c, m, n) ==
    /\ c \in there /\ bound[m][c] # n /\ Edit /\ bound' = [bound EXCEPT ![m][c] = n]
    /\ UNCHANGED <<there, on, conn, price, cache, dirty, choice, late>> /\ Untouched

(* upsert_price: the row, and the bindings if any are given; that they are *)
(* of the model's protocol was another query, which may be stale by now.   *)
Rebound(m, S) ==
    /\ S \subseteq there
    /\ bound' \in {bound, [bound EXCEPT ![m] = [c \in Channels |-> IF c \in S THEN m ELSE Unbound]]}
UpsertPrice(m, v, S) ==
    /\ Edit /\ price' = [price EXCEPT ![m] = v] /\ choice' = [choice EXCEPT ![m] = v]
    /\ Rebound(m, S) /\ late' = late \ {m}
    /\ UNCHANGED <<there, on, conn, cache, dirty>> /\ Untouched
(* delete_price: the rule and its bindings, in one transaction.            *)
Deleted(S) ==
    /\ price' = [m \in Models |-> IF m \in S THEN "none" ELSE price[m]]
    /\ bound' = [m \in Models |-> IF m \in S THEN [c \in Channels |-> Unbound] ELSE bound[m]]
DeletePrice(m) ==
    /\ price[m] # "none" /\ Edit /\ Deleted({m}) /\ choice' = [choice EXCEPT ![m] = "none"]
    /\ UNCHANGED <<there, on, conn, cache, dirty, late>> /\ Untouched

-----------------------------------------------------------------------------
(* The upstreams and the time                                              *)

Still == UNCHANGED <<tables, reading, imports, verdicts, dirty, turn>>

(* What a connection lists changes.                                        *)
Shift(k, S) ==
    /\ shifts < MaxShifts /\ S # offers[k] /\ shifts' = shifts + 1
    /\ offers' = [offers EXCEPT ![k] = S]
    /\ gone' = [gone EXCEPT ![k] = [n \in Names |-> IF n \in offers[k] \ S THEN 0 ELSE gone[k][n]]]
    /\ UNCHANGED cache /\ Still

(* Probes end within their timeout and queries take no time: a reader that *)
(* has something to do but wait for a probe does it first.                 *)
Waiting(r) == at[r] = "probe" /\ \E c \in chans[r] : got[r][c].st = "out"
Older(n, most) == IF n < most THEN n + 1 ELSE n
Tick ==
    /\ \A r \in Readers : at[r] \in {"idle", "routed", "over"} \/ Waiting(r)
    /\ \A r \in Readers, c \in Channels : /\ got[r][c].st # "todo"
                                          /\ got[r][c].st = "out" => got[r][c].age < Limit
    /\ cache' = [c \in Channels |-> [cache[c] EXCEPT !.age = Older(@, Ttl)]]
    /\ gone' = [k \in Conns |-> [n \in Names |-> Older(gone[k][n], LongAgo)]]
    /\ got' = [r \in Readers |-> [c \in Channels |->
                  [got[r][c] EXCEPT !.age = IF got[r][c].st = "out" THEN @ + 1 ELSE 0]]]
    /\ UNCHANGED <<tables, offers, shifts, at, chans, with, alias, listed, chain, asked, imports, verdicts, dirty, turn>>

-----------------------------------------------------------------------------
(* cached_channel_catalog                                                  *)

Quiet == UNCHANGED <<there, on, conn, upstream, dirty, imports, choice, late, edits>>
Got(r, c, e) == got' = [got EXCEPT ![r][c] = e]

(* Mutant of Hit: whatever is cached for the channel is as good.           *)
HitAny(c, k) == cache[c].conn # "none" /\ cache[c].age < IF cache[c].ok THEN Ttl ELSE ErrorTtl
(* An entry of this connection, young enough.                              *)
Hit(c, k) == cache[c].conn = k /\ cache[c].age < IF cache[c].ok THEN Ttl ELSE ErrorTtl

UseCache(r, c) ==
    /\ at[r] = "probe" /\ c \in chans[r] /\ got[r][c].st = "todo" /\ Hit(c, with[r][c])
    /\ Got(r, c, [st |-> "in", ok |-> cache[c].ok, names |-> cache[c].names,
                  ver |-> cache[c].ver, age |-> 0])
    /\ UNCHANGED <<at, chans, with, alias, listed, chain, asked, bound, price, cache, turn, wrong>> /\ Quiet
(* probe_channel_models: the request goes out, and is answered or fails;   *)
(* refresh=1, which pruning may ask for, does not look at the cache. What  *)
(* an upstream offers is the one page it is asked for, and nothing if an   *)
(* answer of status 200 names nothing.                                     *)
Probe(r, c) ==
    /\ at[r] = "probe" /\ c \in chans[r] /\ got[r][c].st = "todo"
    /\ Hit(c, with[r][c]) => r \in Pruners
    /\ LET k == with[r][c] IN
       \E ok \in BOOLEAN :
           Got(r, c, [st |-> "out", ok |-> ok, names |-> IF ok THEN offers[k] ELSE {},
                      ver |-> shifts, age |-> 0])
    /\ UNCHANGED <<at, chans, with, alias, listed, chain, asked, bound, price, cache, turn, wrong>> /\ Quiet
(* Its answer is cached under the connection that was asked, over whatever *)
(* came meanwhile.                                                         *)
ProbeReturns(r, c) ==
    /\ at[r] = "probe" /\ got[r][c].st = "out"
    /\ Got(r, c, [got[r][c] EXCEPT !.st = "in", !.age = 0])
    /\ cache' = [cache EXCEPT ![c] = [conn |-> with[r][c], age |-> 0, ok |-> got[r][c].ok,
                                      names |-> got[r][c].names, ver |-> got[r][c].ver]]
    /\ UNCHANGED <<at, chans, with, alias, listed, chain, asked, bound, price, turn, wrong>> /\ Quiet
AllIn(r) == at[r] = "probe" /\ \A c \in chans[r] : got[r][c].st = "in"

-----------------------------------------------------------------------------
(* resolve_route                                                           *)

Step(r, label) == at' = [at EXCEPT ![r] = label]
Reads == UNCHANGED <<tables, upstream, cache, dirty, imports, verdicts, listed, asked>>

(* The locals of a request that has its answer.                            *)
Forgets(r) ==
    /\ chans' = [chans EXCEPT ![r] = {}] /\ UNCHANGED with
    /\ got' = [got EXCEPT ![r] = [c \in Channels |-> Blank]]
    /\ alias' = [alias EXCEPT ![r] = [c \in Channels |-> Unbound]]

BoundRows(m) == {c \in on : bound[m][c] # Unbound}
(* Mutant of Restricted: a model bound to disabled channels falls back.    *)
NeverRestricted(m) == FALSE
(* model_has_explicit_binding                                              *)
Restricted(m) == \E c \in Channels : bound[m][c] # Unbound
SentAs(m) == [c \in Channels |-> IF bound[m][c] = Unbound THEN m ELSE bound[m][c]]

(* What the channels of the client's protocol offer is asked of all of     *)
(* them at once; without any there is nothing to route to.                 *)
Asking(r, S) ==
    LET wired == {c \in S : Wire[conn[c]] = WireOf[RouteOf[r]]} IN
    /\ Step(r, IF wired = {} THEN "over" ELSE "probe")
    /\ chans' = [chans EXCEPT ![r] = wired] /\ with' = [with EXCEPT ![r] = conn]
    /\ alias' = [alias EXCEPT ![r] = SentAs(RouteOf[r])]
    /\ got' = [got EXCEPT ![r] = [c \in Channels |-> IF c \in wired THEN [Blank EXCEPT !.st = "todo"] ELSE Blank]]

(* channels_for_model: one query, a second one, a third one.               *)
ReadBound(r) ==
    /\ at[r] = "idle"
    /\ \/ BoundRows(RouteOf[r]) # {} /\ Asking(r, BoundRows(RouteOf[r]))
       \/ BoundRows(RouteOf[r]) = {} /\ Step(r, "restricted") /\ UNCHANGED <<chans, with, alias, got>>
    /\ UNCHANGED <<chain, turn>> /\ Reads
ReadRestricted(r) ==
    /\ at[r] = "restricted" /\ Step(r, IF Restricted(RouteOf[r]) THEN "over" ELSE "any")
    /\ UNCHANGED <<chans, with, alias, got, chain, turn>> /\ Reads
ReadAny(r) ==
    /\ at[r] = "any" /\ Asking(r, on) /\ UNCHANGED <<chain, turn>> /\ Reads

(* narrow_to_advertised: the unreadable only when none advertises it.      *)
Narrow(S, a, g) ==
    LET advertising == {c \in S : g[c].ok /\ a[c] \in g[c].names} IN
    IF advertising # {} THEN advertising ELSE {c \in S : ~g[c].ok}

(* balance_chain: tier after tier, each in the order of its numbers, from  *)
(* the one on whose turn it is (rr_next).                                  *)
OfTier(S, t) == {c \in S : Tier[c] = t}
Rank(c, S) == Cardinality({d \in S : d < c})
Place(c, S, m) ==
    LET tier == OfTier(S, Tier[c]) IN (Rank(c, tier) - turn[m][Tier[c]]) % Cardinality(tier)
Before(d, c, S, m) == Tier[d] < Tier[c] \/ (Tier[d] = Tier[c] /\ Place(d, S, m) < Place(c, S, m))
Balanced(S, m) ==
    [i \in 1..Cardinality(S) |->
        CHOOSE c \in S : Cardinality({d \in S : Before(d, c, S, m)}) = i - 1]
Route(r) ==
    /\ r \in Routers /\ AllIn(r)
    /\ LET S == Narrow(chans[r], alias[r], got[r]) IN
       /\ Step(r, IF S = {} THEN "over" ELSE "routed")
       /\ chain' = [chain EXCEPT ![r] = Balanced(S, RouteOf[r])]
       /\ turn' = [turn EXCEPT ![RouteOf[r]] =
                       [t \in Tiers |-> IF Cardinality(OfTier(S, t)) > 1 THEN @[t] + 1 ELSE @[t]]]
    /\ Forgets(r) /\ Reads

-----------------------------------------------------------------------------
(* AvailabilityIndex and admin_prune_unavailable_pricing                   *)

(* Mutant of Serving: an unreadable catalog serves nothing.                *)
ServingListed(m, S, w, b, g) ==
    {c \in S : /\ Wire[w[c]] = WireOf[m]
               /\ b[c] # Unbound \/ \A d \in Channels : b[d] = Unbound
               /\ g[c].ok /\ (IF b[c] = Unbound THEN m ELSE b[c]) \in g[c].names}
(* serving_channels, of the channels S with the connections w, the         *)
(* bindings b of the model and the catalogs g.                             *)
Serving(m, S, w, b, g) ==
    {c \in S : /\ Wire[w[c]] = WireOf[m]
               /\ b[c] # Unbound \/ \A d \in Channels : b[d] = Unbound
               /\ g[c].ok => (IF b[c] = Unbound THEN m ELSE b[c]) \in g[c].names}

ReadPrices(r) ==
    /\ at[r] = "idle" /\ Step(r, "channels")
    /\ listed' = [listed EXCEPT ![r] = {m \in Models : price[m] # "none"}]
    /\ asked' = [asked EXCEPT ![r] = FALSE]
    /\ UNCHANGED <<tables, upstream, cache, dirty, turn, imports, verdicts, chans, with, alias, got, chain>>
ReadChannels(r) ==
    /\ at[r] = "channels" /\ Step(r, "probe")
    /\ chans' = [chans EXCEPT ![r] = on] /\ with' = [with EXCEPT ![r] = conn]
    /\ got' = [got EXCEPT ![r] = [c \in Channels |-> IF c \in on THEN [Blank EXCEPT !.st = "todo"] ELSE Blank]]
    /\ UNCHANGED <<alias, chain, turn>> /\ Reads
(* load_bindings comes last.                                               *)
ReadBindings(r) ==
    /\ r \in Pruners /\ AllIn(r) /\ Step(r, "bindings")
    /\ listed' = [listed EXCEPT ![r] =
                     {m \in @ : Serving(m, chans[r], with[r], bound[m], got[r]) = {}}]
    /\ UNCHANGED <<tables, upstream, cache, dirty, turn, imports, verdicts, chans, with, alias, got, chain, asked>>

(* delete_prices, by name.  A price is pruned wrongly when it is served,   *)
(* and neither the tables nor the upstreams changed since they were asked. *)
Truth == [c \in Channels |-> [ok |-> TRUE, names |-> offers[conn[c]]]]
PrunePrices(r) ==
    /\ at[r] = "bindings" /\ Step(r, "over") /\ Deleted(listed[r])
    /\ choice' = [m \in Models |-> IF m \in listed[r] THEN "none" ELSE choice[m]]
    /\ wrong' = wrong \cup
           {m \in listed[r] : /\ ~asked[r] /\ price[m] # "none" /\ Serving(m, on, conn, bound[m], Truth) # {}
                              /\ \A c \in chans[r] : shifts = got[r][c].ver}
    /\ UNCHANGED <<there, on, conn, upstream, cache, dirty, turn, imports, late, edits>>
    /\ Forgets(r) /\ UNCHANGED <<listed, chain, asked>>

-----------------------------------------------------------------------------
(* apply_sync                                                              *)

Apart == UNCHANGED <<there, on, conn, upstream, cache, dirty, turn, at, chans, with, alias, got, listed, chain, wrong, edits>>

SyncRead(s) ==
    /\ sync[s] = "idle" /\ sync' = [sync EXCEPT ![s] = "write"]
    /\ existing' = [existing EXCEPT ![s] = price]
    /\ UNCHANGED <<price, bound, asked, choice, late>> /\ Apart

(* Mutant of Imported: a price that is refreshed is enabled again.         *)
ImportedAfresh(s, m) == {"on"}
(* What an import writes as enabled: what it read, or the form's choice.   *)
Imported(s, m) == IF existing[s][m] = "none" THEN {"off", "on"} ELSE {existing[s][m]}

SyncWrite(s, m, S) ==
    /\ sync[s] = "write" /\ Rebound(m, S) /\ asked' = [r \in Readers |-> TRUE]
    /\ \E v \in Imported(s, m) : price' = [price EXCEPT ![m] = v]
    /\ late' = IF price[m] # existing[s][m] THEN late \cup {m} ELSE late
    /\ UNCHANGED <<sync, existing, choice>> /\ Apart
SyncEnds(s) ==
    /\ sync[s] = "write" /\ sync' = [sync EXCEPT ![s] = "over"]
    /\ UNCHANGED <<existing, price, bound, asked, choice, late>> /\ Apart

-----------------------------------------------------------------------------
EditStep ==
    \E c \in Channels :
        \/ SwitchChannel(c) \/ DeleteChannel(c) \/ InvalidateCatalog(c)
        \/ \E k \in Conns : CreateChannel(c, k) \/ MoveChannel(c, k)
        \/ \E m \in Models, n \in Names : BindChannel(c, m, n)
PriceStep ==
    \E m \in Models :
        \/ DeletePrice(m)
        \/ \E S \in SUBSET Channels : \/ \E v \in {"off", "on"} : UpsertPrice(m, v, S)
                                      \/ \E s \in Syncs : SyncWrite(s, m, S)
ChannelsNext ==
    \/ EditStep \/ PriceStep \/ Tick \/ \E k \in Conns, S \in SUBSET Names : Shift(k, S)
    \/ \E r \in Readers, c \in Channels : UseCache(r, c) \/ Probe(r, c) \/ ProbeReturns(r, c)
    \/ \E r \in Routers : ReadBound(r) \/ ReadRestricted(r) \/ ReadAny(r) \/ Route(r)
    \/ \E r \in Pruners : ReadPrices(r) \/ ReadChannels(r) \/ ReadBindings(r) \/ PrunePrices(r)
    \/ \E s \in Syncs : SyncRead(s) \/ SyncEnds(s)

ChannelsSpec == ChannelsInit /\ [][ChannelsNext]_channelsVars
-----------------------------------------------------------------------------
(* A chat is never sent where the model went long ago: whatever probes     *)
(* raced, channels moved and entries were invalidated too late, each       *)
(* channel of a chain listed the name within the life of an entry and the  *)
(* probes on both sides of it, or none of the chain's catalogs was         *)
(* readable (cached_channel_catalog 1021-1055, narrow_to_advertised).      *)
RoutedFresh ==
    [][\A r \in Routers : \A c \in Range(chain'[r]) :
           (at[r] = "probe" /\ at'[r] = "routed") =>
               \/ alias[r][c] \in offers[with[r][c]]
               \/ gone[with[r][c]][alias[r][c]] < LongAgo
               \/ \A d \in Range(chain'[r]) : ~got[r][d].ok]_channelsVars

(* Pruning deletes no price that is served, unless a table or an upstream  *)
(* changed since it was read: an unreadable catalog keeps its models       *)
(* (admin_prune_unavailable_pricing 1589-1636).                            *)
PrunedExplained == wrong = {}

(* What the picker offers is what can be routed: the index and the router  *)
(* answer alike from the same tables and catalogs, for bindings with and   *)
(* without an alias and for channels disabled, moved or deleted            *)
(* (serving_channels 1143-1173 and resolve_route 1885-1947).               *)
Known == [c \in Channels |-> IF Hit(c, conn[c]) THEN [ok |-> cache[c].ok, names |-> cache[c].names]
                             ELSE [ok |-> FALSE, names |-> {}]]
RouteRows(m) == IF BoundRows(m) # {} THEN BoundRows(m) ELSE IF Restricted(m) THEN {} ELSE on
OfferedIsRoutable ==
    \A m \in Models :
        LET S == {c \in RouteRows(m) : Wire[conn[c]] = WireOf[m]} IN
        (Serving(m, on, conn, bound[m], Known) # {}) <=> (Narrow(S, SentAs(m), Known) # {})

(* The availability of a model is right: what is served is neither pruned  *)
(* nor hidden, what is offered can be routed (AvailabilityIndex).          *)
AvailabilitySound == PrunedExplained /\ OfferedIsRoutable

(* A model the operator disabled stays disabled through every import,      *)
(* unless the row changed between the import's one read and its write of   *)
(* it (apply_sync 407-413 and 499-525).                                    *)
DisabledStays == \A m \in Models : (choice[m] = "off" /\ price[m] = "on") => m \in late
=============================================================================
