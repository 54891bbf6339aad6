-------------------------- MODULE ConversationProofs --------------------------
(***************************************************************************)
(* What holds of a conversation for any channels, bodies, questions and    *)
(* faults: what is offered can be routed and a route is fresh, a chat is   *)
(* charged for what its frames reported, mirrored turns are whole and      *)
(* their statuses explained, and a question that is answered was asked.    *)
(* The parts share no variable: each has an inductive invariant of its     *)
(* own, one lemma for each of its conjuncts and one step for each action.  *)
(***************************************************************************)
EXTENDS Channels, ChatStream, Turns, Dialogs, FiniteSetTheorems, SequenceTheorems, WellFoundedInduction, TLAPS

-----------------------------------------------------------------------------
(* Channels                                                                *)

OffOn == {"off", "on"}
Listing == {"none", "off", "on"}
Catalogs == [st : {"none", "todo", "out", "in"}, ok : BOOLEAN, names : SUBSET Names, ver : Nat, age : Nat]
Cached == [conn : Conns \cup {"none"}, age : 0..Ttl, ok : BOOLEAN, names : SUBSET Names, ver : Nat]

ChannelRows ==
    /\ there \subseteq Channels /\ on \subseteq there /\ conn \in [Channels -> Conns]
    /\ dirty \subseteq Channels
ChannelPrices ==
    /\ bound \in [Models -> [Channels -> Names \cup {Unbound}]]
    /\ price \in [Models -> Listing] /\ choice \in [Models -> Listing] /\ late \subseteq Models
ChannelCounts == shifts \in 0..MaxShifts /\ edits \in 0..MaxEdits
ChannelLists ==
    /\ offers \in [Conns -> SUBSET Names] /\ gone \in [Conns -> [Names -> 0..LongAgo]]
ChannelImports ==
    /\ sync \in [Syncs -> {"idle", "write", "over"}] /\ existing \in [Syncs -> [Models -> Listing]]
ChannelReaders ==
    /\ at \in [Readers -> {"idle", "bound", "restricted", "any", "channels", "probe", "bindings", "routed", "over"}]
    /\ asked \in [Readers -> BOOLEAN]
ChannelLocals ==
    /\ chans \in [Readers -> SUBSET Channels] /\ with \in [Readers -> [Channels -> Conns]]
    /\ alias \in [Readers -> [Channels -> Names \cup {Unbound}]] /\ listed \in [Readers -> SUBSET Models]
ChannelCatalogs ==
    /\ got \in [Readers -> [Channels -> Catalogs]] /\ cache \in [Channels -> Cached]
ChannelTurns == turn \in [Models -> [Tiers -> Nat]] /\ DOMAIN chain = Readers
ChannelsTyped ==
    /\ ChannelRows /\ ChannelPrices /\ ChannelCounts /\ ChannelLists /\ ChannelImports
    /\ ChannelReaders /\ ChannelLocals /\ ChannelCatalogs /\ ChannelTurns

(* A price that is not there was chosen away.                              *)
NoneChosen == \A m \in Models : price[m] = "none" => choice[m] = "none"

(* A catalog is of the version it was read at; one of the newest version   *)
(* lists what the connection lists.                                        *)
Versions ==
    /\ \A c \in Channels : cache[c].ver <= shifts
    /\ \A r \in Readers, c \in Channels : got[r][c].ver <= shifts
CacheMatches ==
    \A c \in Channels : cache[c].ok /\ cache[c].ver = shifts =>
        cache[c].conn \in Conns /\ cache[c].names = offers[cache[c].conn]
GotMatches ==
    \A r \in Readers, c \in Channels :
        got[r][c].st \in {"out", "in"} /\ got[r][c].ok /\ got[r][c].ver = shifts =>
            got[r][c].names = offers[with[r][c]]

(* Of a pruner that no change of the tables overtook: it works on the      *)
(* channels as they are, and what it found unserved is, as far as its      *)
(* catalogs tell.                                                          *)
AsTheyAre ==
    \A r \in Pruners : ~asked[r] /\ at[r] \in {"probe", "bindings"} => chans[r] = on /\ with[r] = conn
Unserved ==
    \A r \in Pruners : ~asked[r] /\ at[r] = "bindings" =>
        \A m \in listed[r] : price[m] # "none" => Serving(m, chans[r], with[r], bound[m], got[r]) = {}
AllRead == \A r \in Pruners : at[r] = "bindings" => \A c \in chans[r] : got[r][c].st = "in"

(* The connection k lists the name n, or did at most b ticks ago.          *)
Recent(k, n, b) == n \in offers[k] \/ gone[k][n] <= b

(* How old what is known can be: an entry as old as it is and the probe    *)
(* that brought it, an answer under way as old as its probe, and an answer *)
(* that is held as old as an entry and the slowest probe under way.        *)
CachedFresh ==
    \A c \in Channels : cache[c].conn \in Conns /\ cache[c].ok /\ cache[c].age < Ttl =>
        \A n \in cache[c].names : Recent(cache[c].conn, n, cache[c].age + Limit)
AnswerFresh ==
    \A r \in Readers, c \in Channels : got[r][c].st = "out" =>
        /\ got[r][c].age <= Limit
        /\ got[r][c].ok => \A n \in got[r][c].names : Recent(with[r][c], n, got[r][c].age)
HeldFresh ==
    \A r \in Readers, c \in Channels : got[r][c].st = "in" /\ got[r][c].ok =>
        \A n \in got[r][c].names :
            /\ Recent(with[r][c], n, Ttl + 2 * Limit)
            /\ \A d \in Channels :
                   /\ got[r][d].st = "todo" => Recent(with[r][c], n, Ttl + Limit)
                   /\ got[r][d].st = "out" => Recent(with[r][c], n, Ttl + Limit + got[r][d].age)
EmptyHanded ==
    \A r \in Readers : at[r] \in {"idle", "restricted", "routed", "over"} => \A c \in Channels : got[r][c].st = "none"

LEMMA ChannelNats ==
    /\ Ttl \in Nat /\ ErrorTtl \in Nat /\ Limit \in Nat /\ MaxEdits \in Nat /\ MaxShifts \in Nat
    /\ LongAgo \in Nat /\ Models \subseteq Names /\ Unbound \notin Names
    /\ Routers \subseteq Readers /\ Pruners \subseteq Readers /\ RouteOf \in [Routers -> Models]
    /\ Routers \cap Pruners = {}
  BY ChannelsAssumption DEF LongAgo, Readers

LEMMA ReboundType ==
    ASSUME ChannelsTyped, NEW m \in Models, NEW S, Rebound(m, S)
    PROVE  bound' \in [Models -> [Channels -> Names \cup {Unbound}]]
<1> DEFINE f == [c \in Channels |-> IF c \in S THEN m ELSE Unbound]
<1>1. f \in [Channels -> Names \cup {Unbound}]
  BY ChannelNats
<1>2. bound' = bound \/ bound' = [bound EXCEPT ![m] = f]
  BY DEF Rebound
<1> HIDE DEF f
<1> QED
  BY <1>1, <1>2 DEF ChannelsTyped, ChannelPrices

LEMMA AskingType ==
    ASSUME ChannelsTyped, NEW r \in Routers, NEW S \in SUBSET Channels, Asking(r, S)
    PROVE  /\ chans' \in [Readers -> SUBSET Channels] /\ with' \in [Readers -> [Channels -> Conns]]
           /\ alias' \in [Readers -> [Channels -> Names \cup {Unbound}]]
           /\ got' \in [Readers -> [Channels -> Catalogs]]
<1> DEFINE wired == {c \in S : Wire[conn[c]] = WireOf[RouteOf[r]]}
           f == SentAs(RouteOf[r])
           g == [c \in Channels |-> IF c \in wired THEN [Blank EXCEPT !.st = "todo"] ELSE Blank]
<1> USE ChannelNats DEF ChannelsTyped, ChannelLocals, ChannelCatalogs
<1>1. f \in [Channels -> Names \cup {Unbound}]
  <2>1. RouteOf[r] \in Models /\ RouteOf[r] \in Names
    OBVIOUS
  <2> QED
    BY <2>1 DEF SentAs, ChannelPrices
<1>2. g \in [Channels -> Catalogs]
  BY DEF Blank, Catalogs
<1>3. /\ chans' = [chans EXCEPT ![r] = wired] /\ with' = [with EXCEPT ![r] = conn]
      /\ alias' = [alias EXCEPT ![r] = f] /\ got' = [got EXCEPT ![r] = g]
  BY DEF Asking
<1>4. wired \subseteq Channels
  OBVIOUS
<1> HIDE DEF wired, f, g
<1>5. chans' \in [Readers -> SUBSET Channels] /\ with' \in [Readers -> [Channels -> Conns]]
  BY <1>3, <1>4 DEF ChannelRows
<1>6. alias' \in [Readers -> [Channels -> Names \cup {Unbound}]] /\ got' \in [Readers -> [Channels -> Catalogs]]
  BY <1>1, <1>2, <1>3
<1> QED
  BY <1>5, <1>6

LEMMA ChannelRowsKept ==
    ASSUME ChannelsTyped, [ChannelsNext]_channelsVars
    PROVE  ChannelRows'
<1> USE ChannelNats DEF ChannelsTyped, ChannelRows, channelsVars, tables, upstream, reading,
        imports, verdicts, Edit, Untouched, Still, Quiet, Reads, Apart, Got, Step, Forgets
<1>1. ASSUME NEW c \in Channels, SwitchChannel(c) PROVE ChannelRows'
  BY <1>1 DEF SwitchChannel
<1>2. ASSUME NEW c \in Channels, DeleteChannel(c) PROVE ChannelRows'
  BY <1>2 DEF DeleteChannel
<1>3. ASSUME NEW c \in Channels, InvalidateCatalog(c) PROVE ChannelRows'
  BY <1>3 DEF InvalidateCatalog
<1>4. ASSUME NEW c \in Channels, NEW k \in Conns, CreateChannel(c, k)
      PROVE  ChannelRows'
  BY <1>4 DEF CreateChannel
<1>5. ASSUME NEW c \in Channels, NEW k \in Conns, MoveChannel(c, k)
      PROVE  ChannelRows'
  BY <1>5 DEF MoveChannel
<1>6. ASSUME NEW c \in Channels, NEW m \in Models, NEW n \in Names, BindChannel(c, m, n)
      PROVE  ChannelRows'
  BY <1>6 DEF BindChannel
<1>7. ASSUME NEW m \in Models, DeletePrice(m) PROVE ChannelRows'
  BY <1>7 DEF DeletePrice, Deleted
<1>8. ASSUME NEW m \in Models, NEW S \in SUBSET Channels, NEW v \in OffOn, UpsertPrice(m, v, S)
      PROVE  ChannelRows'
  BY <1>8 DEF UpsertPrice, OffOn, Rebound
<1>9. ASSUME NEW m \in Models, NEW S \in SUBSET Channels, NEW s \in Syncs, SyncWrite(s, m, S)
      PROVE  ChannelRows'
  BY <1>9 DEF SyncWrite, Rebound, Imported
<1>10. CASE Tick
  BY <1>10 DEF Tick, Older
<1>11. ASSUME NEW k \in Conns, NEW S \in SUBSET Names, Shift(k, S)
      PROVE  ChannelRows'
  BY <1>11 DEF Shift
<1>12. ASSUME NEW r \in Readers, NEW c \in Channels, UseCache(r, c)
      PROVE  ChannelRows'
  BY <1>12 DEF UseCache
<1>13. ASSUME NEW r \in Readers, NEW c \in Channels, Probe(r, c)
      PROVE  ChannelRows'
  BY <1>13 DEF Probe
<1>14. ASSUME NEW r \in Readers, NEW c \in Channels, ProbeReturns(r, c)
      PROVE  ChannelRows'
  BY <1>14 DEF ProbeReturns
<1>15. ASSUME NEW r \in Routers, ReadBound(r) PROVE ChannelRows'
  BY <1>15 DEF ReadBound, Asking, SentAs, BoundRows
<1>16. ASSUME NEW r \in Routers, ReadRestricted(r) PROVE ChannelRows'
  BY <1>16 DEF ReadRestricted
<1>17. ASSUME NEW r \in Routers, ReadAny(r) PROVE ChannelRows'
  BY <1>17 DEF ReadAny, Asking, SentAs
<1>18. ASSUME NEW r \in Routers, Route(r) PROVE ChannelRows'
  BY <1>18 DEF Route
<1>19. ASSUME NEW r \in Pruners, ReadPrices(r) PROVE ChannelRows'
  BY <1>19 DEF ReadPrices
<1>20. ASSUME NEW r \in Pruners, ReadChannels(r) PROVE ChannelRows'
  BY <1>20 DEF ReadChannels
<1>21. ASSUME NEW r \in Pruners, ReadBindings(r) PROVE ChannelRows'
  BY <1>21 DEF ReadBindings
<1>22. ASSUME NEW r \in Pruners, PrunePrices(r) PROVE ChannelRows'
  BY <1>22 DEF PrunePrices, Deleted
<1>23. ASSUME NEW s \in Syncs, SyncRead(s) PROVE ChannelRows'
  BY <1>23 DEF SyncRead
<1>24. ASSUME NEW s \in Syncs, SyncEnds(s) PROVE ChannelRows'
  BY <1>24 DEF SyncEnds
<1>25. CASE UNCHANGED channelsVars
  BY <1>25 DEF channelsVars
<1> QED
  BY ONLY [ChannelsNext]_channelsVars, <1>1, <1>2, <1>3, <1>4, <1>5, <1>6, <1>7, <1>8, <1>9, <1>10, <1>11,
     <1>12, <1>13, <1>14, <1>15, <1>16, <1>17, <1>18, <1>19, <1>20, <1>21,
     <1>22, <1>23, <1>24, <1>25, Zenon
  DEF ChannelsNext, EditStep, PriceStep, OffOn

LEMMA ChannelPricesKept ==
    ASSUME ChannelsTyped, [ChannelsNext]_channelsVars
    PROVE  ChannelPrices'
<1> USE ChannelNats DEF ChannelsTyped, ChannelPrices, ChannelLocals, channelsVars, tables, upstream,
        reading, imports, verdicts, Edit, Untouched, Still, Quiet, Reads, Apart, Got, Step, Forgets
<1>1. ASSUME NEW c \in Channels, SwitchChannel(c) PROVE ChannelPrices'
  BY <1>1 DEF SwitchChannel
<1>2. ASSUME NEW c \in Channels, DeleteChannel(c) PROVE ChannelPrices'
  BY <1>2 DEF DeleteChannel
<1>3. ASSUME NEW c \in Channels, InvalidateCatalog(c) PROVE ChannelPrices'
  BY <1>3 DEF InvalidateCatalog
<1>4. ASSUME NEW c \in Channels, NEW k \in Conns, CreateChannel(c, k)
      PROVE  ChannelPrices'
  BY <1>4 DEF CreateChannel
<1>5. ASSUME NEW c \in Channels, NEW k \in Conns, MoveChannel(c, k)
      PROVE  ChannelPrices'
  BY <1>5 DEF MoveChannel
<1>6. ASSUME NEW c \in Channels, NEW m \in Models, NEW n \in Names, BindChannel(c, m, n)
      PROVE  ChannelPrices'
  BY <1>6 DEF BindChannel
<1>7. ASSUME NEW m \in Models, DeletePrice(m) PROVE ChannelPrices'
  <2>1. bound' \in [Models -> [Channels -> Names \cup {Unbound}]]
    BY <1>7 DEF DeletePrice, Deleted
  <2>2. price' \in [Models -> Listing] /\ choice' \in [Models -> Listing]
    BY <1>7 DEF DeletePrice, Deleted, Listing
  <2> QED
    BY <1>7, <2>1, <2>2 DEF DeletePrice
<1>8. ASSUME NEW m \in Models, NEW S \in SUBSET Channels, NEW v \in OffOn, UpsertPrice(m, v, S)
      PROVE  ChannelPrices'
  <2>1. bound' \in [Models -> [Channels -> Names \cup {Unbound}]]
    BY <1>8, ReboundType DEF UpsertPrice
  <2>2. price' \in [Models -> Listing] /\ choice' \in [Models -> Listing]
    BY <1>8 DEF UpsertPrice, Listing, OffOn
  <2> QED
    BY <1>8, <2>1, <2>2 DEF UpsertPrice
<1>9. ASSUME NEW m \in Models, NEW S \in SUBSET Channels, NEW s \in Syncs, SyncWrite(s, m, S)
      PROVE  ChannelPrices'
  <2>1. bound' \in [Models -> [Channels -> Names \cup {Unbound}]]
    BY <1>9, ReboundType DEF SyncWrite
  <2>2. PICK v \in Imported(s, m) : price' = [price EXCEPT ![m] = v]
    BY <1>9 DEF SyncWrite
  <2>3. v \in Listing
    <3>1. existing[s][m] \in {"none", "off", "on"}
      BY DEF ChannelImports, Listing
    <3> QED
      BY <2>2, <3>1 DEF Imported, Listing
  <2> QED
    BY <1>9, <2>1, <2>2, <2>3 DEF SyncWrite
<1>10. CASE Tick
  BY <1>10 DEF Tick, Older
<1>11. ASSUME NEW k \in Conns, NEW S \in SUBSET Names, Shift(k, S)
      PROVE  ChannelPrices'
  BY <1>11 DEF Shift
<1>12. ASSUME NEW r \in Readers, NEW c \in Channels, UseCache(r, c)
      PROVE  ChannelPrices'
  BY <1>12 DEF UseCache
<1>13. ASSUME NEW r \in Readers, NEW c \in Channels, Probe(r, c)
      PROVE  ChannelPrices'
  BY <1>13 DEF Probe
<1>14. ASSUME NEW r \in Readers, NEW c \in Channels, ProbeReturns(r, c)
      PROVE  ChannelPrices'
  BY <1>14 DEF ProbeReturns
<1>15. ASSUME NEW r \in Routers, ReadBound(r) PROVE ChannelPrices'
  BY <1>15 DEF ReadBound, Asking, SentAs, BoundRows
<1>16. ASSUME NEW r \in Routers, ReadRestricted(r) PROVE ChannelPrices'
  BY <1>16 DEF ReadRestricted
<1>17. ASSUME NEW r \in Routers, ReadAny(r) PROVE ChannelPrices'
  BY <1>17 DEF ReadAny, Asking, SentAs
<1>18. ASSUME NEW r \in Routers, Route(r) PROVE ChannelPrices'
  BY <1>18 DEF Route
<1>19. ASSUME NEW r \in Pruners, ReadPrices(r) PROVE ChannelPrices'
  BY <1>19 DEF ReadPrices
<1>20. ASSUME NEW r \in Pruners, ReadChannels(r) PROVE ChannelPrices'
  BY <1>20 DEF ReadChannels
<1>21. ASSUME NEW r \in Pruners, ReadBindings(r) PROVE ChannelPrices'
  BY <1>21 DEF ReadBindings
<1>22. ASSUME NEW r \in Pruners, PrunePrices(r) PROVE ChannelPrices'
  <2>1. bound' \in [Models -> [Channels -> Names \cup {Unbound}]]
    BY <1>22 DEF PrunePrices, Deleted
  <2>2. price' \in [Models -> Listing] /\ choice' \in [Models -> Listing]
    BY <1>22 DEF PrunePrices, Deleted, Listing
  <2> QED
    BY <1>22, <2>1, <2>2 DEF PrunePrices
<1>23. ASSUME NEW s \in Syncs, SyncRead(s) PROVE ChannelPrices'
  BY <1>23 DEF SyncRead
<1>24. ASSUME NEW s \in Syncs, SyncEnds(s) PROVE ChannelPrices'
  BY <1>24 DEF SyncEnds
<1>25. CASE UNCHANGED channelsVars
  BY <1>25 DEF channelsVars
<1> QED
  BY ONLY [ChannelsNext]_channelsVars, <1>1, <1>2, <1>3, <1>4, <1>5, <1>6, <1>7, <1>8, <1>9, <1>10, <1>11,
     <1>12, <1>13, <1>14, <1>15, <1>16, <1>17, <1>18, <1>19, <1>20, <1>21,
     <1>22, <1>23, <1>24, <1>25, Zenon
  DEF ChannelsNext, EditStep, PriceStep, OffOn

LEMMA ChannelCountsKept ==
    ASSUME ChannelsTyped, [ChannelsNext]_channelsVars
    PROVE  ChannelCounts'
<1> USE ChannelNats DEF ChannelsTyped, ChannelCounts, channelsVars, tables, upstream, reading,
        imports, verdicts, Edit, Untouched, Still, Quiet, Reads, Apart, Got, Step, Forgets
<1>1. ASSUME NEW c \in Channels, SwitchChannel(c) PROVE ChannelCounts'
  BY <1>1 DEF SwitchChannel
<1>2. ASSUME NEW c \in Channels, DeleteChannel(c) PROVE ChannelCounts'
  BY <1>2 DEF DeleteChannel
<1>3. ASSUME NEW c \in Channels, InvalidateCatalog(c) PROVE ChannelCounts'
  BY <1>3 DEF InvalidateCatalog
<1>4. ASSUME NEW c \in Channels, NEW k \in Conns, CreateChannel(c, k)
      PROVE  ChannelCounts'
  BY <1>4 DEF CreateChannel
<1>5. ASSUME NEW c \in Channels, NEW k \in Conns, MoveChannel(c, k)
      PROVE  ChannelCounts'
  BY <1>5 DEF MoveChannel
<1>6. ASSUME NEW c \in Channels, NEW m \in Models, NEW n \in Names, BindChannel(c, m, n)
      PROVE  ChannelCounts'
  BY <1>6 DEF BindChannel
<1>7. ASSUME NEW m \in Models, DeletePrice(m) PROVE ChannelCounts'
  BY <1>7 DEF DeletePrice, Deleted
<1>8. ASSUME NEW m \in Models, NEW S \in SUBSET Channels, NEW v \in OffOn, UpsertPrice(m, v, S)
      PROVE  ChannelCounts'
  BY <1>8 DEF UpsertPrice, OffOn, Rebound
<1>9. ASSUME NEW m \in Models, NEW S \in SUBSET Channels, NEW s \in Syncs, SyncWrite(s, m, S)
      PROVE  ChannelCounts'
  BY <1>9 DEF SyncWrite, Rebound, Imported
<1>10. CASE Tick
  BY <1>10 DEF Tick, Older
<1>11. ASSUME NEW k \in Conns, NEW S \in SUBSET Names, Shift(k, S)
      PROVE  ChannelCounts'
  BY <1>11 DEF Shift
<1>12. ASSUME NEW r \in Readers, NEW c \in Channels, UseCache(r, c)
      PROVE  ChannelCounts'
  BY <1>12 DEF UseCache
<1>13. ASSUME NEW r \in Readers, NEW c \in Channels, Probe(r, c)
      PROVE  ChannelCounts'
  BY <1>13 DEF Probe
<1>14. ASSUME NEW r \in Readers, NEW c \in Channels, ProbeReturns(r, c)
      PROVE  ChannelCounts'
  BY <1>14 DEF ProbeReturns
<1>15. ASSUME NEW r \in Routers, ReadBound(r) PROVE ChannelCounts'
  BY <1>15 DEF ReadBound, Asking, SentAs, BoundRows
<1>16. ASSUME NEW r \in Routers, ReadRestricted(r) PROVE ChannelCounts'
  BY <1>16 DEF ReadRestricted
<1>17. ASSUME NEW r \in Routers, ReadAny(r) PROVE ChannelCounts'
  BY <1>17 DEF ReadAny, Asking, SentAs
<1>18. ASSUME NEW r \in Routers, Route(r) PROVE ChannelCounts'
  BY <1>18 DEF Route
<1>19. ASSUME NEW r \in Pruners, ReadPrices(r) PROVE ChannelCounts'
  BY <1>19 DEF ReadPrices
<1>20. ASSUME NEW r \in Pruners, ReadChannels(r) PROVE ChannelCounts'
  BY <1>20 DEF ReadChannels
<1>21. ASSUME NEW r \in Pruners, ReadBindings(r) PROVE ChannelCounts'
  BY <1>21 DEF ReadBindings
<1>22. ASSUME NEW r \in Pruners, PrunePrices(r) PROVE ChannelCounts'
  BY <1>22 DEF PrunePrices, Deleted
<1>23. ASSUME NEW s \in Syncs, SyncRead(s) PROVE ChannelCounts'
  BY <1>23 DEF SyncRead
<1>24. ASSUME NEW s \in Syncs, SyncEnds(s) PROVE ChannelCounts'
  BY <1>24 DEF SyncEnds
<1>25. CASE UNCHANGED channelsVars
  BY <1>25 DEF channelsVars
<1> QED
  BY ONLY [ChannelsNext]_channelsVars, <1>1, <1>2, <1>3, <1>4, <1>5, <1>6, <1>7, <1>8, <1>9, <1>10, <1>11,
     <1>12, <1>13, <1>14, <1>15, <1>16, <1>17, <1>18, <1>19, <1>20, <1>21,
     <1>22, <1>23, <1>24, <1>25, Zenon
  DEF ChannelsNext, EditStep, PriceStep, OffOn

LEMMA ChannelListsKept ==
    ASSUME ChannelsTyped, [ChannelsNext]_channelsVars
    PROVE  ChannelLists'
<1> USE ChannelNats DEF ChannelsTyped, ChannelLists, channelsVars, tables, upstream, reading,
        imports, verdicts, Edit, Untouched, Still, Quiet, Reads, Apart, Got, Step, Forgets
<1>1. ASSUME NEW c \in Channels, SwitchChannel(c) PROVE ChannelLists'
  BY <1>1 DEF SwitchChannel
<1>2. ASSUME NEW c \in Channels, DeleteChannel(c) PROVE ChannelLists'
  BY <1>2 DEF DeleteChannel
<1>3. ASSUME NEW c \in Channels, InvalidateCatalog(c) PROVE ChannelLists'
  BY <1>3 DEF InvalidateCatalog
<1>4. ASSUME NEW c \in Channels, NEW k \in Conns, CreateChannel(c, k)
      PROVE  ChannelLists'
  BY <1>4 DEF CreateChannel
<1>5. ASSUME NEW c \in Channels, NEW k \in Conns, MoveChannel(c, k)
      PROVE  ChannelLists'
  BY <1>5 DEF MoveChannel
<1>6. ASSUME NEW c \in Channels, NEW m \in Models, NEW n \in Names, BindChannel(c, m, n)
      PROVE  ChannelLists'
  BY <1>6 DEF BindChannel
<1>7. ASSUME NEW m \in Models, DeletePrice(m) PROVE ChannelLists'
  BY <1>7 DEF DeletePrice, Deleted
<1>8. ASSUME NEW m \in Models, NEW S \in SUBSET Channels, NEW v \in OffOn, UpsertPrice(m, v, S)
      PROVE  ChannelLists'
  BY <1>8 DEF UpsertPrice, OffOn, Rebound
<1>9. ASSUME NEW m \in Models, NEW S \in SUBSET Channels, NEW s \in Syncs, SyncWrite(s, m, S)
      PROVE  ChannelLists'
  BY <1>9 DEF SyncWrite, Rebound, Imported
<1>10. CASE Tick
  BY <1>10 DEF Tick, Older
<1>11. ASSUME NEW k \in Conns, NEW S \in SUBSET Names, Shift(k, S)
      PROVE  ChannelLists'
  BY <1>11 DEF Shift
<1>12. ASSUME NEW r \in Readers, NEW c \in Channels, UseCache(r, c)
      PROVE  ChannelLists'
  BY <1>12 DEF UseCache
<1>13. ASSUME NEW r \in Readers, NEW c \in Channels, Probe(r, c)
      PROVE  ChannelLists'
  BY <1>13 DEF Probe
<1>14. ASSUME NEW r \in Readers, NEW c \in Channels, ProbeReturns(r, c)
      PROVE  ChannelLists'
  BY <1>14 DEF ProbeReturns
<1>15. ASSUME NEW r \in Routers, ReadBound(r) PROVE ChannelLists'
  BY <1>15 DEF ReadBound, Asking, SentAs, BoundRows
<1>16. ASSUME NEW r \in Routers, ReadRestricted(r) PROVE ChannelLists'
  BY <1>16 DEF ReadRestricted
<1>17. ASSUME NEW r \in Routers, ReadAny(r) PROVE ChannelLists'
  BY <1>17 DEF ReadAny, Asking, SentAs
<1>18. ASSUME NEW r \in Routers, Route(r) PROVE ChannelLists'
  BY <1>18 DEF Route
<1>19. ASSUME NEW r \in Pruners, ReadPrices(r) PROVE ChannelLists'
  BY <1>19 DEF ReadPrices
<1>20. ASSUME NEW r \in Pruners, ReadChannels(r) PROVE ChannelLists'
  BY <1>20 DEF ReadChannels
<1>21. ASSUME NEW r \in Pruners, ReadBindings(r) PROVE ChannelLists'
  BY <1>21 DEF ReadBindings
<1>22. ASSUME NEW r \in Pruners, PrunePrices(r) PROVE ChannelLists'
  BY <1>22 DEF PrunePrices, Deleted
<1>23. ASSUME NEW s \in Syncs, SyncRead(s) PROVE ChannelLists'
  BY <1>23 DEF SyncRead
<1>24. ASSUME NEW s \in Syncs, SyncEnds(s) PROVE ChannelLists'
  BY <1>24 DEF SyncEnds
<1>25. CASE UNCHANGED channelsVars
  BY <1>25 DEF channelsVars
<1> QED
  BY ONLY [ChannelsNext]_channelsVars, <1>1, <1>2, <1>3, <1>4, <1>5, <1>6, <1>7, <1>8, <1>9, <1>10, <1>11,
     <1>12, <1>13, <1>14, <1>15, <1>16, <1>17, <1>18, <1>19, <1>20, <1>21,
     <1>22, <1>23, <1>24, <1>25, Zenon
  DEF ChannelsNext, EditStep, PriceStep, OffOn

LEMMA ChannelImportsKept ==
    ASSUME ChannelsTyped, [ChannelsNext]_channelsVars
    PROVE  ChannelImports'
<1> USE ChannelNats DEF ChannelsTyped, ChannelImports, ChannelPrices, Listing, channelsVars, tables,
        upstream, reading, imports, verdicts, Edit, Untouched, Still, Quiet, Reads, Apart, Got,
        Step, Forgets
<1>1. ASSUME NEW c \in Channels, SwitchChannel(c) PROVE ChannelImports'
  BY <1>1 DEF SwitchChannel
<1>2. ASSUME NEW c \in Channels, DeleteChannel(c) PROVE ChannelImports'
  BY <1>2 DEF DeleteChannel
<1>3. ASSUME NEW c \in Channels, InvalidateCatalog(c) PROVE ChannelImports'
  BY <1>3 DEF InvalidateCatalog
<1>4. ASSUME NEW c \in Channels, NEW k \in Conns, CreateChannel(c, k)
      PROVE  ChannelImports'
  BY <1>4 DEF CreateChannel
<1>5. ASSUME NEW c \in Channels, NEW k \in Conns, MoveChannel(c, k)
      PROVE  ChannelImports'
  BY <1>5 DEF MoveChannel
<1>6. ASSUME NEW c \in Channels, NEW m \in Models, NEW n \in Names, BindChannel(c, m, n)
      PROVE  ChannelImports'
  BY <1>6 DEF BindChannel
<1>7. ASSUME NEW m \in Models, DeletePrice(m) PROVE ChannelImports'
  BY <1>7 DEF DeletePrice, Deleted
<1>8. ASSUME NEW m \in Models, NEW S \in SUBSET Channels, NEW v \in OffOn, UpsertPrice(m, v, S)
      PROVE  ChannelImports'
  BY <1>8 DEF UpsertPrice, OffOn, Rebound
<1>9. ASSUME NEW m \in Models, NEW S \in SUBSET Channels, NEW s \in Syncs, SyncWrite(s, m, S)
      PROVE  ChannelImports'
  BY <1>9 DEF SyncWrite, Rebound, Imported
<1>10. CASE Tick
  BY <1>10 DEF Tick, Older
<1>11. ASSUME NEW k \in Conns, NEW S \in SUBSET Names, Shift(k, S)
      PROVE  ChannelImports'
  BY <1>11 DEF Shift
<1>12. ASSUME NEW r \in Readers, NEW c \in Channels, UseCache(r, c)
      PROVE  ChannelImports'
  BY <1>12 DEF UseCache
<1>13. ASSUME NEW r \in Readers, NEW c \in Channels, Probe(r, c)
      PROVE  ChannelImports'
  BY <1>13 DEF Probe
<1>14. ASSUME NEW r \in Readers, NEW c \in Channels, ProbeReturns(r, c)
      PROVE  ChannelImports'
  BY <1>14 DEF ProbeReturns
<1>15. ASSUME NEW r \in Routers, ReadBound(r) PROVE ChannelImports'
  BY <1>15 DEF ReadBound, Asking, SentAs, BoundRows
<1>16. ASSUME NEW r \in Routers, ReadRestricted(r) PROVE ChannelImports'
  BY <1>16 DEF ReadRestricted
<1>17. ASSUME NEW r \in Routers, ReadAny(r) PROVE ChannelImports'
  BY <1>17 DEF ReadAny, Asking, SentAs
<1>18. ASSUME NEW r \in Routers, Route(r) PROVE ChannelImports'
  BY <1>18 DEF Route
<1>19. ASSUME NEW r \in Pruners, ReadPrices(r) PROVE ChannelImports'
  BY <1>19 DEF ReadPrices
<1>20. ASSUME NEW r \in Pruners, ReadChannels(r) PROVE ChannelImports'
  BY <1>20 DEF ReadChannels
<1>21. ASSUME NEW r \in Pruners, ReadBindings(r) PROVE ChannelImports'
  BY <1>21 DEF ReadBindings
<1>22. ASSUME NEW r \in Pruners, PrunePrices(r) PROVE ChannelImports'
  BY <1>22 DEF PrunePrices, Deleted
<1>23. ASSUME NEW s \in Syncs, SyncRead(s) PROVE ChannelImports'
  BY <1>23 DEF SyncRead
<1>24. ASSUME NEW s \in Syncs, SyncEnds(s) PROVE ChannelImports'
  BY <1>24 DEF SyncEnds
<1>25. CASE UNCHANGED channelsVars
  BY <1>25 DEF channelsVars
<1> QED
  BY ONLY [ChannelsNext]_channelsVars, <1>1, <1>2, <1>3, <1>4, <1>5, <1>6, <1>7, <1>8, <1>9, <1>10, <1>11,
     <1>12, <1>13, <1>14, <1>15, <1>16, <1>17, <1>18, <1>19, <1>20, <1>21,
     <1>22, <1>23, <1>24, <1>25, Zenon
  DEF ChannelsNext, EditStep, PriceStep, OffOn

LEMMA ChannelReadersKept ==
    ASSUME ChannelsTyped, [ChannelsNext]_channelsVars
    PROVE  ChannelReaders'
<1> USE ChannelNats DEF ChannelsTyped, ChannelReaders, channelsVars, tables, upstream, reading,
        imports, verdicts, Edit, Untouched, Still, Quiet, Reads, Apart, Got, Step, Forgets
<1>1. ASSUME NEW c \in Channels, SwitchChannel(c) PROVE ChannelReaders'
  BY <1>1 DEF SwitchChannel
<1>2. ASSUME NEW c \in Channels, DeleteChannel(c) PROVE ChannelReaders'
  BY <1>2 DEF DeleteChannel
<1>3. ASSUME NEW c \in Channels, InvalidateCatalog(c) PROVE ChannelReaders'
  BY <1>3 DEF InvalidateCatalog
<1>4. ASSUME NEW c \in Channels, NEW k \in Conns, CreateChannel(c, k)
      PROVE  ChannelReaders'
  BY <1>4 DEF CreateChannel
<1>5. ASSUME NEW c \in Channels, NEW k \in Conns, MoveChannel(c, k)
      PROVE  ChannelReaders'
  BY <1>5 DEF MoveChannel
<1>6. ASSUME NEW c \in Channels, NEW m \in Models, NEW n \in Names, BindChannel(c, m, n)
      PROVE  ChannelReaders'
  BY <1>6 DEF BindChannel
<1>7. ASSUME NEW m \in Models, DeletePrice(m) PROVE ChannelReaders'
  BY <1>7 DEF DeletePrice, Deleted
<1>8. ASSUME NEW m \in Models, NEW S \in SUBSET Channels, NEW v \in OffOn, UpsertPrice(m, v, S)
      PROVE  ChannelReaders'
  BY <1>8 DEF UpsertPrice, OffOn, Rebound
<1>9. ASSUME NEW m \in Models, NEW S \in SUBSET Channels, NEW s \in Syncs, SyncWrite(s, m, S)
      PROVE  ChannelReaders'
  BY <1>9 DEF SyncWrite, Rebound, Imported
<1>10. CASE Tick
  BY <1>10 DEF Tick, Older
<1>11. ASSUME NEW k \in Conns, NEW S \in SUBSET Names, Shift(k, S)
      PROVE  ChannelReaders'
  BY <1>11 DEF Shift
<1>12. ASSUME NEW r \in Readers, NEW c \in Channels, UseCache(r, c)
      PROVE  ChannelReaders'
  BY <1>12 DEF UseCache
<1>13. ASSUME NEW r \in Readers, NEW c \in Channels, Probe(r, c)
      PROVE  ChannelReaders'
  BY <1>13 DEF Probe
<1>14. ASSUME NEW r \in Readers, NEW c \in Channels, ProbeReturns(r, c)
      PROVE  ChannelReaders'
  BY <1>14 DEF ProbeReturns
<1>15. ASSUME NEW r \in Routers, ReadBound(r) PROVE ChannelReaders'
  BY <1>15 DEF ReadBound, Asking, SentAs, BoundRows
<1>16. ASSUME NEW r \in Routers, ReadRestricted(r) PROVE ChannelReaders'
  BY <1>16 DEF ReadRestricted
<1>17. ASSUME NEW r \in Routers, ReadAny(r) PROVE ChannelReaders'
  BY <1>17 DEF ReadAny, Asking, SentAs
<1>18. ASSUME NEW r \in Routers, Route(r) PROVE ChannelReaders'
  BY <1>18 DEF Route
<1>19. ASSUME NEW r \in Pruners, ReadPrices(r) PROVE ChannelReaders'
  BY <1>19 DEF ReadPrices
<1>20. ASSUME NEW r \in Pruners, ReadChannels(r) PROVE ChannelReaders'
  BY <1>20 DEF ReadChannels
<1>21. ASSUME NEW r \in Pruners, ReadBindings(r) PROVE ChannelReaders'
  BY <1>21 DEF ReadBindings
<1>22. ASSUME NEW r \in Pruners, PrunePrices(r) PROVE ChannelReaders'
  BY <1>22 DEF PrunePrices, Deleted
<1>23. ASSUME NEW s \in Syncs, SyncRead(s) PROVE ChannelReaders'
  BY <1>23 DEF SyncRead
<1>24. ASSUME NEW s \in Syncs, SyncEnds(s) PROVE ChannelReaders'
  BY <1>24 DEF SyncEnds
<1>25. CASE UNCHANGED channelsVars
  BY <1>25 DEF channelsVars
<1> QED
  BY ONLY [ChannelsNext]_channelsVars, <1>1, <1>2, <1>3, <1>4, <1>5, <1>6, <1>7, <1>8, <1>9, <1>10, <1>11,
     <1>12, <1>13, <1>14, <1>15, <1>16, <1>17, <1>18, <1>19, <1>20, <1>21,
     <1>22, <1>23, <1>24, <1>25, Zenon
  DEF ChannelsNext, EditStep, PriceStep, OffOn

LEMMA ChannelLocalsKept ==
    ASSUME ChannelsTyped, [ChannelsNext]_channelsVars
    PROVE  ChannelLocals'
<1> USE ChannelNats DEF ChannelsTyped, ChannelLocals, ChannelPrices, ChannelRows, channelsVars,
        tables, upstream, reading, imports, verdicts, Edit, Untouched, Still, Quiet, Reads, Apart,
        Got, Step, Forgets
<1>1. ASSUME NEW c \in Channels, SwitchChannel(c) PROVE ChannelLocals'
  BY <1>1 DEF SwitchChannel
<1>2. ASSUME NEW c \in Channels, DeleteChannel(c) PROVE ChannelLocals'
  BY <1>2 DEF DeleteChannel
<1>3. ASSUME NEW c \in Channels, InvalidateCatalog(c) PROVE ChannelLocals'
  BY <1>3 DEF InvalidateCatalog
<1>4. ASSUME NEW c \in Channels, NEW k \in Conns, CreateChannel(c, k)
      PROVE  ChannelLocals'
  BY <1>4 DEF CreateChannel
<1>5. ASSUME NEW c \in Channels, NEW k \in Conns, MoveChannel(c, k)
      PROVE  ChannelLocals'
  BY <1>5 DEF MoveChannel
<1>6. ASSUME NEW c \in Channels, NEW m \in Models, NEW n \in Names, BindChannel(c, m, n)
      PROVE  ChannelLocals'
  BY <1>6 DEF BindChannel
<1>7. ASSUME NEW m \in Models, DeletePrice(m) PROVE ChannelLocals'
  BY <1>7 DEF DeletePrice, Deleted
<1>8. ASSUME NEW m \in Models, NEW S \in SUBSET Channels, NEW v \in OffOn, UpsertPrice(m, v, S)
      PROVE  ChannelLocals'
  BY <1>8 DEF UpsertPrice, OffOn, Rebound
<1>9. ASSUME NEW m \in Models, NEW S \in SUBSET Channels, NEW s \in Syncs, SyncWrite(s, m, S)
      PROVE  ChannelLocals'
  BY <1>9 DEF SyncWrite, Rebound, Imported
<1>10. CASE Tick
  BY <1>10 DEF Tick, Older
<1>11. ASSUME NEW k \in Conns, NEW S \in SUBSET Names, Shift(k, S)
      PROVE  ChannelLocals'
  BY <1>11 DEF Shift
<1>12. ASSUME NEW r \in Readers, NEW c \in Channels, UseCache(r, c)
      PROVE  ChannelLocals'
  BY <1>12 DEF UseCache
<1>13. ASSUME NEW r \in Readers, NEW c \in Channels, Probe(r, c)
      PROVE  ChannelLocals'
  BY <1>13 DEF Probe
<1>14. ASSUME NEW r \in Readers, NEW c \in Channels, ProbeReturns(r, c)
      PROVE  ChannelLocals'
  BY <1>14 DEF ProbeReturns
<1>15. ASSUME NEW r \in Routers, ReadBound(r) PROVE ChannelLocals'
  <2>1. CASE BoundRows(RouteOf[r]) # {} /\ Asking(r, BoundRows(RouteOf[r]))
    <3>1. BoundRows(RouteOf[r]) \subseteq Channels
      BY DEF BoundRows, ChannelRows
    <3> QED
      BY <1>15, <2>1, <3>1, AskingType DEF ReadBound
  <2>2. CASE UNCHANGED <<chans, with, alias, got>>
    BY <1>15, <2>2 DEF ReadBound
  <2> QED
    BY <1>15, <2>1, <2>2 DEF ReadBound
<1>16. ASSUME NEW r \in Routers, ReadRestricted(r) PROVE ChannelLocals'
  BY <1>16 DEF ReadRestricted
<1>17. ASSUME NEW r \in Routers, ReadAny(r) PROVE ChannelLocals'
  <2>1. on \subseteq Channels /\ Asking(r, on)
    BY <1>17 DEF ReadAny, ChannelRows
  <2> QED
    BY <1>17, <2>1, AskingType DEF ReadAny
<1>18. ASSUME NEW r \in Routers, Route(r) PROVE ChannelLocals'
  BY <1>18 DEF Route
<1>19. ASSUME NEW r \in Pruners, ReadPrices(r) PROVE ChannelLocals'
  BY <1>19 DEF ReadPrices
<1>20. ASSUME NEW r \in Pruners, ReadChannels(r) PROVE ChannelLocals'
  BY <1>20 DEF ReadChannels
<1>21. ASSUME NEW r \in Pruners, ReadBindings(r) PROVE ChannelLocals'
  BY <1>21 DEF ReadBindings
<1>22. ASSUME NEW r \in Pruners, PrunePrices(r) PROVE ChannelLocals'
  BY <1>22 DEF PrunePrices, Deleted
<1>23. ASSUME NEW s \in Syncs, SyncRead(s) PROVE ChannelLocals'
  BY <1>23 DEF SyncRead
<1>24. ASSUME NEW s \in Syncs, SyncEnds(s) PROVE ChannelLocals'
  BY <1>24 DEF SyncEnds
<1>25. CASE UNCHANGED channelsVars
  BY <1>25 DEF channelsVars
<1> QED
  BY ONLY [ChannelsNext]_channelsVars, <1>1, <1>2, <1>3, <1>4, <1>5, <1>6, <1>7, <1>8, <1>9, <1>10, <1>11,
     <1>12, <1>13, <1>14, <1>15, <1>16, <1>17, <1>18, <1>19, <1>20, <1>21,
     <1>22, <1>23, <1>24, <1>25, Zenon
  DEF ChannelsNext, EditStep, PriceStep, OffOn

LEMMA ChannelCatalogsKept ==
    ASSUME ChannelsTyped, [ChannelsNext]_channelsVars
    PROVE  ChannelCatalogs'
<1> USE ChannelNats DEF ChannelsTyped, ChannelCatalogs, ChannelLists, ChannelCounts, ChannelRows,
        Catalogs, Cached, Blank, NoEntry, channelsVars, tables, upstream, reading, imports,
        verdicts, Edit, Untouched, Still, Quiet, Reads, Apart, Got, Step, Forgets
<1>1. ASSUME NEW c \in Channels, SwitchChannel(c) PROVE ChannelCatalogs'
  BY <1>1 DEF SwitchChannel
<1>2. ASSUME NEW c \in Channels, DeleteChannel(c) PROVE ChannelCatalogs'
  BY <1>2 DEF DeleteChannel
<1>3. ASSUME NEW c \in Channels, InvalidateCatalog(c) PROVE ChannelCatalogs'
  BY <1>3 DEF InvalidateCatalog
<1>4. ASSUME NEW c \in Channels, NEW k \in Conns, CreateChannel(c, k)
      PROVE  ChannelCatalogs'
  BY <1>4 DEF CreateChannel
<1>5. ASSUME NEW c \in Channels, NEW k \in Conns, MoveChannel(c, k)
      PROVE  ChannelCatalogs'
  BY <1>5 DEF MoveChannel
<1>6. ASSUME NEW c \in Channels, NEW m \in Models, NEW n \in Names, BindChannel(c, m, n)
      PROVE  ChannelCatalogs'
  BY <1>6 DEF BindChannel
<1>7. ASSUME NEW m \in Models, DeletePrice(m) PROVE ChannelCatalogs'
  BY <1>7 DEF DeletePrice, Deleted
<1>8. ASSUME NEW m \in Models, NEW S \in SUBSET Channels, NEW v \in OffOn, UpsertPrice(m, v, S)
      PROVE  ChannelCatalogs'
  BY <1>8 DEF UpsertPrice, OffOn, Rebound
<1>9. ASSUME NEW m \in Models, NEW S \in SUBSET Channels, NEW s \in Syncs, SyncWrite(s, m, S)
      PROVE  ChannelCatalogs'
  BY <1>9 DEF SyncWrite, Rebound, Imported
<1>10. CASE Tick
  <2>1. cache' \in [Channels -> Cached]
    <3> SUFFICES ASSUME NEW c \in Channels PROVE [cache[c] EXCEPT !.age = Older(cache[c].age, Ttl)] \in Cached
      BY <1>10 DEF Tick
    <3>1. cache[c] \in Cached /\ Older(cache[c].age, Ttl) \in 0..Ttl
      BY DEF Older, Cached
    <3> QED
      BY <3>1 DEF Cached
  <2>2. got' \in [Readers -> [Channels -> Catalogs]]
    <3> SUFFICES ASSUME NEW r \in Readers, NEW c \in Channels
                 PROVE  [got[r][c] EXCEPT !.age = IF got[r][c].st = "out" THEN got[r][c].age + 1 ELSE 0] \in Catalogs
      BY <1>10 DEF Tick
    <3> DEFINE v == IF got[r][c].st = "out" THEN got[r][c].age + 1 ELSE 0
    <3>1. got[r][c] \in Catalogs
      OBVIOUS
    <3>2. got[r][c].age \in Nat
      BY <3>1 DEF Catalogs
    <3>3. v \in Nat
      BY <3>2
    <3>4. [got[r][c] EXCEPT !.age = v] \in Catalogs
      <4> HIDE DEF v
      <4> QED
        BY <3>1, <3>3 DEF Catalogs
    <3> QED
      BY <3>4
  <2> QED
    BY <2>1, <2>2
<1>11. ASSUME NEW k \in Conns, NEW S \in SUBSET Names, Shift(k, S)
      PROVE  ChannelCatalogs'
  BY <1>11 DEF Shift
<1>12. ASSUME NEW r \in Readers, NEW c \in Channels, UseCache(r, c)
      PROVE  ChannelCatalogs'
  BY <1>12 DEF UseCache
<1>13. ASSUME NEW r \in Readers, NEW c \in Channels, Probe(r, c) PROVE ChannelCatalogs'
  <2>1. PICK ok \in BOOLEAN :
            got' = [got EXCEPT ![r][c] = [st |-> "out", ok |-> ok, names |-> IF ok THEN offers[with[r][c]] ELSE {},
                                         ver |-> shifts, age |-> 0]]
    BY <1>13 DEF Probe
  <2>2. with[r][c] \in Conns /\ shifts \in Nat
    BY DEF ChannelLocals
  <2> DEFINE e == [st |-> "out", ok |-> ok, names |-> IF ok THEN offers[with[r][c]] ELSE {}, ver |-> shifts, age |-> 0]
  <2>3. e \in Catalogs
    BY <2>2
  <2>4. got' = [got EXCEPT ![r][c] = e]
    BY <2>1
  <2> HIDE DEF e
  <2> QED
    BY <1>13, <2>3, <2>4 DEF Probe
<1>14. ASSUME NEW r \in Readers, NEW c \in Channels, ProbeReturns(r, c) PROVE ChannelCatalogs'
  <2> DEFINE g == [got[r][c] EXCEPT !.st = "in", !.age = 0]
             e == [conn |-> with[r][c], age |-> 0, ok |-> got[r][c].ok, names |-> got[r][c].names, ver |-> got[r][c].ver]
  <2>1. got[r][c] \in Catalogs /\ with[r][c] \in Conns
    BY DEF ChannelLocals
  <2>2. g \in Catalogs
    BY <2>1 DEF Catalogs
  <2>3. e \in Cached
    BY <2>1 DEF Catalogs, Cached
  <2>4. got' = [got EXCEPT ![r][c] = g] /\ cache' = [cache EXCEPT ![c] = e]
    BY <1>14 DEF ProbeReturns
  <2> HIDE DEF g, e
  <2> QED
    BY <2>2, <2>3, <2>4
<1>15. ASSUME NEW r \in Routers, ReadBound(r) PROVE ChannelCatalogs'
  <2>1. CASE BoundRows(RouteOf[r]) # {} /\ Asking(r, BoundRows(RouteOf[r]))
    <3>1. BoundRows(RouteOf[r]) \subseteq Channels
      BY DEF BoundRows, ChannelRows
    <3> QED
      BY <1>15, <2>1, <3>1, AskingType DEF ReadBound
  <2>2. CASE UNCHANGED <<chans, with, alias, got>>
    BY <1>15, <2>2 DEF ReadBound
  <2> QED
    BY <1>15, <2>1, <2>2 DEF ReadBound
<1>16. ASSUME NEW r \in Routers, ReadRestricted(r) PROVE ChannelCatalogs'
  BY <1>16 DEF ReadRestricted
<1>17. ASSUME NEW r \in Routers, ReadAny(r) PROVE ChannelCatalogs'
  <2>1. on \subseteq Channels /\ Asking(r, on)
    BY <1>17 DEF ReadAny, ChannelRows
  <2> QED
    BY <1>17, <2>1, AskingType DEF ReadAny
<1>18. ASSUME NEW r \in Routers, Route(r) PROVE ChannelCatalogs'
  BY <1>18 DEF Route
<1>19. ASSUME NEW r \in Pruners, ReadPrices(r) PROVE ChannelCatalogs'
  BY <1>19 DEF ReadPrices
<1>20. ASSUME NEW r \in Pruners, ReadChannels(r) PROVE ChannelCatalogs'
  BY <1>20 DEF ReadChannels
<1>21. ASSUME NEW r \in Pruners, ReadBindings(r) PROVE ChannelCatalogs'
  BY <1>21 DEF ReadBindings
<1>22. ASSUME NEW r \in Pruners, PrunePrices(r) PROVE ChannelCatalogs'
  BY <1>22 DEF PrunePrices, Deleted
<1>23. ASSUME NEW s \in Syncs, SyncRead(s) PROVE ChannelCatalogs'
  BY <1>23 DEF SyncRead
<1>24. ASSUME NEW s \in Syncs, SyncEnds(s) PROVE ChannelCatalogs'
  BY <1>24 DEF SyncEnds
<1>25. CASE UNCHANGED channelsVars
  BY <1>25 DEF channelsVars
<1> QED
  BY ONLY [ChannelsNext]_channelsVars, <1>1, <1>2, <1>3, <1>4, <1>5, <1>6, <1>7, <1>8, <1>9, <1>10, <1>11,
     <1>12, <1>13, <1>14, <1>15, <1>16, <1>17, <1>18, <1>19, <1>20, <1>21,
     <1>22, <1>23, <1>24, <1>25, Zenon
  DEF ChannelsNext, EditStep, PriceStep, OffOn

LEMMA ChannelTurnsKept ==
    ASSUME ChannelsTyped, [ChannelsNext]_channelsVars
    PROVE  ChannelTurns'
<1> USE ChannelNats DEF ChannelsTyped, ChannelTurns, channelsVars, tables, upstream, reading,
        imports, verdicts, Edit, Untouched, Still, Quiet, Reads, Apart, Got, Step, Forgets
<1>1. ASSUME NEW c \in Channels, SwitchChannel(c) PROVE ChannelTurns'
  BY <1>1 DEF SwitchChannel
<1>2. ASSUME NEW c \in Channels, DeleteChannel(c) PROVE ChannelTurns'
  BY <1>2 DEF DeleteChannel
<1>3. ASSUME NEW c \in Channels, InvalidateCatalog(c) PROVE ChannelTurns'
  BY <1>3 DEF InvalidateCatalog
<1>4. ASSUME NEW c \in Channels, NEW k \in Conns, CreateChannel(c, k)
      PROVE  ChannelTurns'
  BY <1>4 DEF CreateChannel
<1>5. ASSUME NEW c \in Channels, NEW k \in Conns, MoveChannel(c, k)
      PROVE  ChannelTurns'
  BY <1>5 DEF MoveChannel
<1>6. ASSUME NEW c \in Channels, NEW m \in Models, NEW n \in Names, BindChannel(c, m, n)
      PROVE  ChannelTurns'
  BY <1>6 DEF BindChannel
<1>7. ASSUME NEW m \in Models, DeletePrice(m) PROVE ChannelTurns'
  BY <1>7 DEF DeletePrice, Deleted
<1>8. ASSUME NEW m \in Models, NEW S \in SUBSET Channels, NEW v \in OffOn, UpsertPrice(m, v, S)
      PROVE  ChannelTurns'
  BY <1>8 DEF UpsertPrice, OffOn, Rebound
<1>9. ASSUME NEW m \in Models, NEW S \in SUBSET Channels, NEW s \in Syncs, SyncWrite(s, m, S)
      PROVE  ChannelTurns'
  BY <1>9 DEF SyncWrite, Rebound, Imported
<1>10. CASE Tick
  BY <1>10 DEF Tick, Older
<1>11. ASSUME NEW k \in Conns, NEW S \in SUBSET Names, Shift(k, S)
      PROVE  ChannelTurns'
  BY <1>11 DEF Shift
<1>12. ASSUME NEW r \in Readers, NEW c \in Channels, UseCache(r, c)
      PROVE  ChannelTurns'
  BY <1>12 DEF UseCache
<1>13. ASSUME NEW r \in Readers, NEW c \in Channels, Probe(r, c)
      PROVE  ChannelTurns'
  BY <1>13 DEF Probe
<1>14. ASSUME NEW r \in Readers, NEW c \in Channels, ProbeReturns(r, c)
      PROVE  ChannelTurns'
  BY <1>14 DEF ProbeReturns
<1>15. ASSUME NEW r \in Routers, ReadBound(r) PROVE ChannelTurns'
  BY <1>15 DEF ReadBound, Asking, SentAs, BoundRows
<1>16. ASSUME NEW r \in Routers, ReadRestricted(r) PROVE ChannelTurns'
  BY <1>16 DEF ReadRestricted
<1>17. ASSUME NEW r \in Routers, ReadAny(r) PROVE ChannelTurns'
  BY <1>17 DEF ReadAny, Asking, SentAs
<1>18. ASSUME NEW r \in Routers, Route(r) PROVE ChannelTurns'
  BY <1>18 DEF Route
<1>19. ASSUME NEW r \in Pruners, ReadPrices(r) PROVE ChannelTurns'
  BY <1>19 DEF ReadPrices
<1>20. ASSUME NEW r \in Pruners, ReadChannels(r) PROVE ChannelTurns'
  BY <1>20 DEF ReadChannels
<1>21. ASSUME NEW r \in Pruners, ReadBindings(r) PROVE ChannelTurns'
  BY <1>21 DEF ReadBindings
<1>22. ASSUME NEW r \in Pruners, PrunePrices(r) PROVE ChannelTurns'
  BY <1>22 DEF PrunePrices, Deleted
<1>23. ASSUME NEW s \in Syncs, SyncRead(s) PROVE ChannelTurns'
  BY <1>23 DEF SyncRead
<1>24. ASSUME NEW s \in Syncs, SyncEnds(s) PROVE ChannelTurns'
  BY <1>24 DEF SyncEnds
<1>25. CASE UNCHANGED channelsVars
  BY <1>25 DEF channelsVars
<1> QED
  BY ONLY [ChannelsNext]_channelsVars, <1>1, <1>2, <1>3, <1>4, <1>5, <1>6, <1>7, <1>8, <1>9, <1>10, <1>11,
     <1>12, <1>13, <1>14, <1>15, <1>16, <1>17, <1>18, <1>19, <1>20, <1>21,
     <1>22, <1>23, <1>24, <1>25, Zenon
  DEF ChannelsNext, EditStep, PriceStep, OffOn

(* What a tick, and a router's reading of the channels, do to the catalogs *)
(* that are held.                                                          *)
LEMMA TickEffect ==
    ASSUME ChannelsTyped, Tick
    PROVE  /\ \A c \in Channels :
                  /\ cache'[c].conn = cache[c].conn /\ cache'[c].names = cache[c].names
                  /\ cache'[c].ver = cache[c].ver /\ (cache'[c].ok <=> cache[c].ok)
                  /\ cache'[c].age = Older(cache[c].age, Ttl)
           /\ \A r \in Readers, c \in Channels :
                  /\ got'[r][c].st = got[r][c].st /\ got'[r][c].names = got[r][c].names
                  /\ got'[r][c].ver = got[r][c].ver /\ (got'[r][c].ok <=> got[r][c].ok)
                  /\ got'[r][c].age = IF got[r][c].st = "out" THEN got[r][c].age + 1 ELSE 0
           /\ \A k \in Conns, n \in Names : gone'[k][n] = Older(gone[k][n], LongAgo)
           /\ UNCHANGED <<offers, shifts, with, chans, at, alias>>
<1> USE DEF ChannelsTyped
<1>1. ASSUME NEW c \in Channels
      PROVE  /\ cache'[c].conn = cache[c].conn /\ cache'[c].names = cache[c].names
             /\ cache'[c].ver = cache[c].ver /\ (cache'[c].ok <=> cache[c].ok)
             /\ cache'[c].age = Older(cache[c].age, Ttl)
  <2> DEFINE a == Older(cache[c].age, Ttl)
  <2>1. cache'[c] = [cache[c] EXCEPT !.age = a] /\ cache[c] \in Cached
    BY DEF Tick, ChannelCatalogs
  <2> HIDE DEF a
  <2>2. cache'[c].age = a /\ cache'[c].conn = cache[c].conn /\ cache'[c].names = cache[c].names /\ cache'[c].ver = cache[c].ver
    BY <2>1 DEF Cached
  <2>3. cache'[c].ok <=> cache[c].ok
    BY <2>1 DEF Cached
  <2> QED
    BY <2>2, <2>3 DEF a
<1>2. ASSUME NEW r \in Readers, NEW c \in Channels
      PROVE  /\ got'[r][c].st = got[r][c].st /\ got'[r][c].names = got[r][c].names
             /\ got'[r][c].ver = got[r][c].ver /\ (got'[r][c].ok <=> got[r][c].ok)
             /\ got'[r][c].age = IF got[r][c].st = "out" THEN got[r][c].age + 1 ELSE 0
  <2> DEFINE a == IF got[r][c].st = "out" THEN got[r][c].age + 1 ELSE 0
  <2>1. got'[r][c] = [got[r][c] EXCEPT !.age = a] /\ got[r][c] \in Catalogs
    BY DEF Tick, ChannelCatalogs
  <2> HIDE DEF a
  <2>2. got'[r][c].age = a /\ got'[r][c].st = got[r][c].st /\ got'[r][c].names = got[r][c].names /\ got'[r][c].ver = got[r][c].ver
    BY <2>1 DEF Catalogs
  <2>3. got'[r][c].ok <=> got[r][c].ok
    BY <2>1 DEF Catalogs
  <2> QED
    BY <2>2, <2>3 DEF a
<1>3. \A k \in Conns, n \in Names : gone'[k][n] = Older(gone[k][n], LongAgo)
  BY DEF Tick
<1> QED
  BY <1>1, <1>2, <1>3 DEF Tick

LEMMA ReadBoundEffect ==
    ASSUME ChannelsTyped, NEW r \in Routers, ReadBound(r)
    PROVE  /\ at[r] = "idle" /\ at'[r] \in {"over", "probe", "restricted"}
           /\ \A q \in Readers : q # r => /\ at'[q] = at[q] /\ chans'[q] = chans[q] /\ with'[q] = with[q]
                                          /\ alias'[q] = alias[q] /\ got'[q] = got[q]
           /\ \A c \in Channels : (got'[r][c] = got[r][c] /\ with'[r][c] = with[r][c]) \/ got'[r][c] = Blank
                                  \/ got'[r][c] = [Blank EXCEPT !.st = "todo"]
           /\ at'[r] = "over" => \A c \in Channels : got'[r][c] = Blank
           /\ at'[r] = "restricted" => got'[r] = got[r]
           /\ UNCHANGED <<there, on, conn, bound, price, offers, shifts, gone, cache, listed, asked>>
<1> USE ChannelNats DEF ChannelsTyped, ChannelReaders, ChannelLocals, ChannelCatalogs, Step
<1>1. CASE BoundRows(RouteOf[r]) # {} /\ Asking(r, BoundRows(RouteOf[r]))
  <2> DEFINE S == BoundRows(RouteOf[r])
             wired == {c \in S : Wire[conn[c]] = WireOf[RouteOf[r]]}
             g == [c \in Channels |-> IF c \in wired THEN [Blank EXCEPT !.st = "todo"] ELSE Blank]
  <2>1. /\ at' = [at EXCEPT ![r] = IF wired = {} THEN "over" ELSE "probe"]
        /\ chans' = [chans EXCEPT ![r] = wired] /\ with' = [with EXCEPT ![r] = conn]
        /\ alias' = [alias EXCEPT ![r] = SentAs(RouteOf[r])] /\ got' = [got EXCEPT ![r] = g]
    BY <1>1 DEF Asking
  <2>2. \A c \in Channels : g[c] = Blank \/ g[c] = [Blank EXCEPT !.st = "todo"]
    OBVIOUS
  <2>3. wired = {} => \A c \in Channels : g[c] = Blank
    OBVIOUS
  <2> HIDE DEF wired, g
  <2>4. got'[r] = g
    BY <2>1
  <2> QED
    BY <2>1, <2>2, <2>3, <2>4 DEF ReadBound, Reads, tables, upstream
<1>2. CASE Step(r, "restricted") /\ UNCHANGED <<chans, with, alias, got>>
  BY <1>2 DEF ReadBound, Reads, tables, upstream
<1> QED
  BY <1>1, <1>2 DEF ReadBound

(* A model is offered exactly when it can be routed: whatever is cached,   *)
(* both ask the same channels the same question.                           *)
LEMMA OfferedAndRoutable ==
    ASSUME ChannelsTyped PROVE OfferedIsRoutable
<1> USE ChannelNats DEF ChannelsTyped, ChannelRows, ChannelPrices
<1> SUFFICES ASSUME NEW m \in Models
             PROVE  LET S == {c \in RouteRows(m) : Wire[conn[c]] = WireOf[m]} IN
                    (Serving(m, on, conn, bound[m], Known) # {}) <=> (Narrow(S, SentAs(m), Known) # {})
  BY DEF OfferedIsRoutable
<1> DEFINE S == {c \in RouteRows(m) : Wire[conn[c]] = WireOf[m]}
           named(c) == IF bound[m][c] = Unbound THEN m ELSE bound[m][c]
<1>1. \A c \in on : SentAs(m)[c] = named(c)
  BY DEF SentAs
<1>2. S = {c \in on : /\ Wire[conn[c]] = WireOf[m]
                      /\ bound[m][c] # Unbound \/ \A d \in Channels : bound[m][d] = Unbound}
  <2>1. CASE BoundRows(m) # {}
    BY <2>1 DEF RouteRows, BoundRows
  <2>2. CASE BoundRows(m) = {} /\ Restricted(m)
    BY <2>2 DEF RouteRows, BoundRows, Restricted
  <2>3. CASE BoundRows(m) = {} /\ ~Restricted(m)
    BY <2>3 DEF RouteRows, BoundRows, Restricted
  <2> QED
    BY <2>1, <2>2, <2>3
<1>3. Serving(m, on, conn, bound[m], Known) = {c \in S : Known[c].ok => named(c) \in Known[c].names}
  BY <1>2 DEF Serving
<1>4. Narrow(S, SentAs(m), Known) # {} <=> \E c \in S : Known[c].ok => named(c) \in Known[c].names
  <2>1. S \subseteq on
    BY <1>2
  <2> HIDE DEF S, named
  <2> QED
    BY <1>1, <2>1 DEF Narrow
<1> HIDE DEF S, named
<1> QED
  BY <1>3, <1>4 DEF S

(* What routing makes of the channels that are left is a chain of them.    *)
LEMMA ModuloApart ==
    ASSUME NEW n \in Nat, NEW a \in 0..(n - 1), NEW b \in 0..(n - 1), NEW k \in Int,
           (a - k) % n = (b - k) % n
    PROVE  a = b
<1>1. n \in Nat \ {0}
  OBVIOUS
<1> DEFINE x == a - k  y == b - k  p == x \div n  q == y \div n
<1>2. x = n * p + (x % n) /\ y = n * q + (y % n) /\ p \in Int /\ q \in Int /\ x \in Int /\ y \in Int /\ x % n \in Int /\ y % n \in Int
  BY <1>1
<1>3. x - y = n * (p - q)
  <2> DEFINE u == x % n
  <2>1. y % n = u /\ u \in Int
    BY <1>2
  <2>2. x = n * p + u /\ y = n * q + u
    BY <1>2, <2>1
  <2> HIDE DEF x, y, p, q, u
  <2> QED
    BY <1>1, <1>2, <2>1, <2>2
<1>4. x - y = a - b
  OBVIOUS
<1> DEFINE d == p - q
<1>5. d \in Int /\ n * d = a - b /\ a - b < n /\ b - a < n
  BY <1>2, <1>3, <1>4
<1> HIDE DEF x, y, p, q, d
<1>6. d < 1
  <2> SUFFICES ASSUME d >= 1 PROVE n * d >= n
    BY <1>1, <1>5
  <2> QED
    BY <1>1, <1>5
<1>7. d > -1
  <2> SUFFICES ASSUME d <= -1 PROVE n * d <= -n
    BY <1>1, <1>5
  <2> QED
    BY <1>1, <1>5
<1>8. d = 0
  BY <1>5, <1>6, <1>7
<1> QED
  BY <1>1, <1>5, <1>8

LEMMA RankedApart ==
    ASSUME NEW S \in SUBSET Nat, IsFiniteSet(S), NEW c \in S, NEW d \in S, c < d
    PROVE  Rank(c, S) \in Nat /\ Rank(d, S) \in Nat /\ Rank(c, S) < Rank(d, S)
<1> DEFINE C == {e \in S : e < c}  D == {e \in S : e < d}
<1>1. IsFiniteSet(D) /\ C \subseteq D /\ C # D
  <2>1. IsFiniteSet(D)
    BY FS_Subset
  <2>2. C \subseteq D
    <3> SUFFICES ASSUME NEW e \in S, e < c PROVE e < d
      OBVIOUS
    <3>1. e \in Nat /\ c \in Nat /\ d \in Nat
      OBVIOUS
    <3> QED
      BY <3>1
  <2>3. c \in D /\ c \notin C
    OBVIOUS
  <2> QED
    BY <2>1, <2>2, <2>3
<1>2. Rank(c, S) = Cardinality(C) /\ Rank(d, S) = Cardinality(D)
  BY DEF Rank
<1> HIDE DEF C, D
<1>3. IsFiniteSet(C) /\ Cardinality(C) < Cardinality(D) /\ Cardinality(C) \in Nat /\ Cardinality(D) \in Nat
  BY <1>1, FS_Subset, FS_CardinalityType
<1> QED
  BY <1>2, <1>3

LEMMA RankBelow ==
    ASSUME NEW S \in SUBSET Nat, IsFiniteSet(S), NEW c \in S
    PROVE  Rank(c, S) \in 0..(Cardinality(S) - 1) /\ Cardinality(S) \in Nat
<1> DEFINE C == {e \in S : e < c}
<1>1. C \subseteq S /\ C # S
  BY c \notin C
<1>2. IsFiniteSet(C) /\ Cardinality(C) < Cardinality(S) /\ Cardinality(C) \in Nat /\ Cardinality(S) \in Nat
  BY <1>1, FS_Subset, FS_CardinalityType
<1> QED
  BY <1>2 DEF Rank

LEMMA PlacesApart ==
    ASSUME ChannelsTyped, NEW S \in SUBSET Channels, NEW m \in Models, NEW c \in S, NEW d \in S,
           c # d, Tier[c] = Tier[d]
    PROVE  Place(c, S, m) # Place(d, S, m)
<1> DEFINE tier == OfTier(S, Tier[c])  n == Cardinality(tier)  k == turn[m][Tier[c]]
<1>1. S \subseteq Nat /\ IsFiniteSet(S) /\ tier \subseteq S /\ IsFiniteSet(tier) /\ c \in tier /\ d \in tier
  BY ChannelsAssumption, FS_Subset DEF OfTier
<1>2. Tier[c] \in Tiers /\ k \in Int
  <2>1. turn \in [Models -> [Tiers -> Nat]]
    BY DEF ChannelsTyped, ChannelTurns
  <2>2. Tier[c] \in Tiers
    BY DEF Tiers
  <2> QED
    BY <2>1, <2>2
<1> HIDE DEF tier
<1>3. tier \subseteq Nat
  BY <1>1
<1>4. Rank(c, tier) \in 0..(n - 1) /\ Rank(d, tier) \in 0..(n - 1) /\ n \in Nat
  BY <1>1, <1>3, RankBelow
<1>5. Rank(c, tier) # Rank(d, tier)
  <2>1. c < d \/ d < c
    BY <1>1, <1>3
  <2>2. CASE c < d
    BY <2>2, <1>1, <1>3, <1>4, RankedApart
  <2>3. CASE d < c
    BY <2>3, <1>1, <1>3, <1>4, RankedApart
  <2> QED
    BY <2>1, <2>2, <2>3
<1> HIDE DEF n, k
<1>6. (Rank(c, tier) - k) % n # (Rank(d, tier) - k) % n
  BY <1>2, <1>4, <1>5, ModuloApart
<1>7. Place(c, S, m) = (Rank(c, tier) - k) % n /\ Place(d, S, m) = (Rank(d, tier) - k) % n
  BY DEF Place, tier, k, n
<1> QED
  BY <1>6, <1>7

LEMMA PlaceType ==
    ASSUME ChannelsTyped, NEW S \in SUBSET Channels, NEW m \in Models, NEW c \in S
    PROVE  Place(c, S, m) \in Int /\ Tier[c] \in Nat
<1> DEFINE tier == OfTier(S, Tier[c])
<1>1. S \subseteq Nat /\ IsFiniteSet(S) /\ tier \subseteq S /\ IsFiniteSet(tier) /\ c \in tier /\ Tier[c] \in Nat
  BY ChannelsAssumption, FS_Subset DEF OfTier
<1>2. turn[m][Tier[c]] \in Int
  <2>1. turn \in [Models -> [Tiers -> Nat]]
    BY DEF ChannelsTyped, ChannelTurns
  <2>2. Tier[c] \in Tiers
    BY DEF Tiers
  <2> QED
    BY <2>1, <2>2
<1> HIDE DEF tier
<1>3. tier \subseteq Nat
  BY <1>1
<1>4. Rank(c, tier) \in Int /\ Cardinality(tier) \in Nat \ {0}
  <2>1. Rank(c, tier) \in 0..(Cardinality(tier) - 1) /\ Cardinality(tier) \in Nat
    BY <1>1, <1>3, RankBelow
  <2> QED
    BY <2>1
<1>5. (Rank(c, tier) - turn[m][Tier[c]]) % Cardinality(tier) \in Int
  BY <1>2, <1>4
<1> QED
  BY <1>1, <1>5 DEF Place, tier

LEMMA ChainOfThem ==
    ASSUME ChannelsTyped, NEW S \in SUBSET Channels, NEW m \in Models
    PROVE  Range(Balanced(S, m)) \subseteq S
<1> DEFINE first(c) == {d \in S : Before(d, c, S, m)}
           n == Cardinality(S)
           R == [c \in S |-> Cardinality(first(c))]
<1>1. IsFiniteSet(S) /\ n \in Nat
  BY ChannelsAssumption, FS_Subset, FS_CardinalityType
<1>2. ASSUME NEW c \in S PROVE IsFiniteSet(first(c)) /\ R[c] \in 0..(n - 1)
  <2>1. first(c) \subseteq S
    OBVIOUS
  <2>2. c \notin first(c)
    BY PlaceType DEF Before
  <2>3. IsFiniteSet(first(c)) /\ Cardinality(first(c)) < n /\ Cardinality(first(c)) \in Nat
    BY <1>1, <2>1, <2>2, FS_Subset, FS_CardinalityType
  <2> QED
    BY <1>1, <2>3
<1>3. ASSUME NEW c \in S, NEW d \in S, Before(c, d, S, m) PROVE R[c] # R[d]
  <2>1. first(c) \subseteq first(d)
    <3>1. SUFFICES ASSUME NEW e \in S, Before(e, c, S, m) PROVE Before(e, d, S, m)
      OBVIOUS
    <3>2. /\ Place(c, S, m) \in Int /\ Place(d, S, m) \in Int /\ Place(e, S, m) \in Int
          /\ Tier[c] \in Nat /\ Tier[d] \in Nat /\ Tier[e] \in Nat
      BY PlaceType
    <3> QED
      BY <1>3, <3>1, <3>2 DEF Before
  <2>2. c \in first(d) /\ c \notin first(c)
    BY <1>3, PlaceType DEF Before
  <2>3. IsFiniteSet(first(d))
    BY <1>2
  <2> DEFINE C == first(c)  D == first(d)
  <2>4. C \subseteq D /\ C # D /\ IsFiniteSet(D)
    BY <2>1, <2>2, <2>3
  <2>5. R[c] = Cardinality(C) /\ R[d] = Cardinality(D)
    OBVIOUS
  <2> HIDE DEF C, D
  <2>6. Cardinality(C) < Cardinality(D) /\ Cardinality(C) \in Nat /\ Cardinality(D) \in Nat
    BY <2>4, FS_Subset, FS_CardinalityType
  <2> QED
    BY <2>5, <2>6
<1>4. ASSUME NEW c \in S, NEW d \in S, c # d PROVE Before(c, d, S, m) \/ Before(d, c, S, m)
  <2>1. /\ Place(c, S, m) \in Int /\ Place(d, S, m) \in Int /\ Tier[c] \in Nat /\ Tier[d] \in Nat
    BY PlaceType
  <2>2. Tier[c] = Tier[d] => Place(c, S, m) # Place(d, S, m)
    BY <1>4, PlacesApart
  <2> QED
    BY <2>1, <2>2 DEF Before
<1>5. ASSUME NEW c \in S, NEW d \in S, R[c] = R[d] PROVE c = d
  BY <1>3, <1>4, <1>5
<1>6. R \in [S -> 0..(n - 1)]
  BY <1>2
<1>7. \A c \in S : R[c] = Cardinality(first(c))
  OBVIOUS
<1>8. Balanced(S, m) = [i \in 1..n |-> CHOOSE c \in S : Cardinality(first(c)) = i - 1]
  BY DEF Balanced
<1> HIDE DEF R, n
<1>9. R \in Injection(S, 0..(n - 1))
  BY <1>5, <1>6 DEF Injection, IsInjective
<1>10. IsFiniteSet(0..(n - 1)) /\ Cardinality(0..(n - 1)) = n
  BY <1>1, FS_Interval
<1>11. R \in Surjection(S, 0..(n - 1))
  BY <1>9, <1>10, FS_Injection DEF n
<1>12. ASSUME NEW i \in 1..n PROVE \E c \in S : Cardinality(first(c)) = i - 1
  <2>1. i - 1 \in 0..(n - 1)
    BY <1>1
  <2>2. PICK c \in S : R[c] = i - 1
    BY <1>11, <2>1 DEF Surjection
  <2> QED
    BY <1>7, <2>2
<1>13. ASSUME NEW i \in 1..n PROVE Balanced(S, m)[i] \in S
  <2>1. Balanced(S, m)[i] = CHOOSE c \in S : Cardinality(first(c)) = i - 1
    BY <1>8
  <2> HIDE DEF first
  <2> QED
    BY <1>12, <2>1
<1>14. DOMAIN Balanced(S, m) = 1..n
  BY <1>8
<1> QED
  BY <1>13, <1>14 DEF Range

LEMMA NoneChosenKept ==
    ASSUME ChannelsTyped, NoneChosen, [ChannelsNext]_channelsVars
    PROVE  NoneChosen'
<1> USE ChannelNats DEF ChannelsTyped, ChannelPrices, OffOn, NoneChosen, channelsVars, tables,
        upstream, reading, imports, verdicts, Edit, Untouched, Still, Quiet, Reads, Apart, Got,
        Step, Forgets
<1>1. ASSUME NEW c \in Channels, SwitchChannel(c) PROVE NoneChosen'
  BY <1>1 DEF SwitchChannel
<1>2. ASSUME NEW c \in Channels, DeleteChannel(c) PROVE NoneChosen'
  BY <1>2 DEF DeleteChannel
<1>3. ASSUME NEW c \in Channels, InvalidateCatalog(c) PROVE NoneChosen'
  BY <1>3 DEF InvalidateCatalog
<1>4. ASSUME NEW c \in Channels, NEW k \in Conns, CreateChannel(c, k)
      PROVE  NoneChosen'
  BY <1>4 DEF CreateChannel
<1>5. ASSUME NEW c \in Channels, NEW k \in Conns, MoveChannel(c, k)
      PROVE  NoneChosen'
  BY <1>5 DEF MoveChannel
<1>6. ASSUME NEW c \in Channels, NEW m \in Models, NEW n \in Names, BindChannel(c, m, n)
      PROVE  NoneChosen'
  BY <1>6 DEF BindChannel
<1>7. ASSUME NEW m \in Models, DeletePrice(m) PROVE NoneChosen'
  BY <1>7 DEF DeletePrice, Deleted
<1>8. ASSUME NEW m \in Models, NEW S \in SUBSET Channels, NEW v \in OffOn, UpsertPrice(m, v, S)
      PROVE  NoneChosen'
  BY <1>8 DEF UpsertPrice, OffOn, Rebound
<1>9. ASSUME NEW m \in Models, NEW S \in SUBSET Channels, NEW s \in Syncs, SyncWrite(s, m, S)
      PROVE  NoneChosen'
  <2>1. PICK v \in Imported(s, m) : price' = [price EXCEPT ![m] = v]
    BY <1>9 DEF SyncWrite
  <2>2. v # "none"
    <3>1. existing[s][m] \in {"none", "off", "on"}
      BY DEF ChannelImports, Listing
    <3> QED
      BY <2>1, <3>1 DEF Imported
  <2> QED
    BY <1>9, <2>1, <2>2 DEF SyncWrite, ChannelPrices
<1>10. CASE Tick
  BY <1>10 DEF Tick, Older
<1>11. ASSUME NEW k \in Conns, NEW S \in SUBSET Names, Shift(k, S)
      PROVE  NoneChosen'
  BY <1>11 DEF Shift
<1>12. ASSUME NEW r \in Readers, NEW c \in Channels, UseCache(r, c)
      PROVE  NoneChosen'
  BY <1>12 DEF UseCache
<1>13. ASSUME NEW r \in Readers, NEW c \in Channels, Probe(r, c)
      PROVE  NoneChosen'
  BY <1>13 DEF Probe
<1>14. ASSUME NEW r \in Readers, NEW c \in Channels, ProbeReturns(r, c)
      PROVE  NoneChosen'
  BY <1>14 DEF ProbeReturns
<1>15. ASSUME NEW r \in Routers, ReadBound(r) PROVE NoneChosen'
  BY <1>15 DEF ReadBound, Asking, SentAs, BoundRows
<1>16. ASSUME NEW r \in Routers, ReadRestricted(r) PROVE NoneChosen'
  BY <1>16 DEF ReadRestricted
<1>17. ASSUME NEW r \in Routers, ReadAny(r) PROVE NoneChosen'
  BY <1>17 DEF ReadAny, Asking, SentAs
<1>18. ASSUME NEW r \in Routers, Route(r) PROVE NoneChosen'
  BY <1>18 DEF Route
<1>19. ASSUME NEW r \in Pruners, ReadPrices(r) PROVE NoneChosen'
  BY <1>19 DEF ReadPrices
<1>20. ASSUME NEW r \in Pruners, ReadChannels(r) PROVE NoneChosen'
  BY <1>20 DEF ReadChannels
<1>21. ASSUME NEW r \in Pruners, ReadBindings(r) PROVE NoneChosen'
  BY <1>21 DEF ReadBindings
<1>22. ASSUME NEW r \in Pruners, PrunePrices(r) PROVE NoneChosen'
  BY <1>22 DEF PrunePrices, Deleted
<1>23. ASSUME NEW s \in Syncs, SyncRead(s) PROVE NoneChosen'
  BY <1>23 DEF SyncRead
<1>24. ASSUME NEW s \in Syncs, SyncEnds(s) PROVE NoneChosen'
  BY <1>24 DEF SyncEnds
<1>25. CASE UNCHANGED channelsVars
  BY <1>25 DEF channelsVars
<1> QED
  BY ONLY [ChannelsNext]_channelsVars, <1>1, <1>2, <1>3, <1>4, <1>5, <1>6, <1>7, <1>8, <1>9, <1>10, <1>11,
     <1>12, <1>13, <1>14, <1>15, <1>16, <1>17, <1>18, <1>19, <1>20, <1>21,
     <1>22, <1>23, <1>24, <1>25, Zenon
  DEF ChannelsNext, EditStep, PriceStep, OffOn

LEMMA DisabledKept ==
    ASSUME ChannelsTyped, NoneChosen, DisabledStays, [ChannelsNext]_channelsVars
    PROVE  DisabledStays'
<1> USE ChannelNats DEF ChannelsTyped, ChannelPrices, OffOn, DisabledStays, channelsVars, tables,
        upstream, reading, imports, verdicts, Edit, Untouched, Still, Quiet, Reads, Apart, Got,
        Step, Forgets
<1>1. ASSUME NEW c \in Channels, SwitchChannel(c) PROVE DisabledStays'
  BY <1>1 DEF SwitchChannel
<1>2. ASSUME NEW c \in Channels, DeleteChannel(c) PROVE DisabledStays'
  BY <1>2 DEF DeleteChannel
<1>3. ASSUME NEW c \in Channels, InvalidateCatalog(c) PROVE DisabledStays'
  BY <1>3 DEF InvalidateCatalog
<1>4. ASSUME NEW c \in Channels, NEW k \in Conns, CreateChannel(c, k)
      PROVE  DisabledStays'
  BY <1>4 DEF CreateChannel
<1>5. ASSUME NEW c \in Channels, NEW k \in Conns, MoveChannel(c, k)
      PROVE  DisabledStays'
  BY <1>5 DEF MoveChannel
<1>6. ASSUME NEW c \in Channels, NEW m \in Models, NEW n \in Names, BindChannel(c, m, n)
      PROVE  DisabledStays'
  BY <1>6 DEF BindChannel
<1>7. ASSUME NEW m \in Models, DeletePrice(m) PROVE DisabledStays'
  BY <1>7 DEF DeletePrice, Deleted
<1>8. ASSUME NEW m \in Models, NEW S \in SUBSET Channels, NEW v \in OffOn, UpsertPrice(m, v, S)
      PROVE  DisabledStays'
  BY <1>8 DEF UpsertPrice, OffOn, Rebound
<1>9. ASSUME NEW m \in Models, NEW S \in SUBSET Channels, NEW s \in Syncs, SyncWrite(s, m, S)
      PROVE  DisabledStays'
  <2>1. PICK v \in Imported(s, m) : price' = [price EXCEPT ![m] = v]
    BY <1>9 DEF SyncWrite
  <2>2. UNCHANGED choice /\ late \subseteq late' /\ (price[m] # existing[s][m] => m \in late')
    BY <1>9 DEF SyncWrite
  <2>3. choice[m] = "off" /\ v = "on" => m \in late'
    <3>1. CASE price[m] # existing[s][m]
      BY <2>2, <3>1
    <3>2. CASE price[m] = existing[s][m] /\ price[m] = "none"
      BY <3>2 DEF NoneChosen
    <3>3. CASE price[m] = existing[s][m] /\ price[m] # "none"
      BY <2>1, <2>2, <3>3 DEF Imported
    <3> QED
      BY <3>1, <3>2, <3>3
  <2> QED
    BY <2>1, <2>2, <2>3 DEF ChannelPrices
<1>10. CASE Tick
  BY <1>10 DEF Tick, Older
<1>11. ASSUME NEW k \in Conns, NEW S \in SUBSET Names, Shift(k, S)
      PROVE  DisabledStays'
  BY <1>11 DEF Shift
<1>12. ASSUME NEW r \in Readers, NEW c \in Channels, UseCache(r, c)
      PROVE  DisabledStays'
  BY <1>12 DEF UseCache
<1>13. ASSUME NEW r \in Readers, NEW c \in Channels, Probe(r, c)
      PROVE  DisabledStays'
  BY <1>13 DEF Probe
<1>14. ASSUME NEW r \in Readers, NEW c \in Channels, ProbeReturns(r, c)
      PROVE  DisabledStays'
  BY <1>14 DEF ProbeReturns
<1>15. ASSUME NEW r \in Routers, ReadBound(r) PROVE DisabledStays'
  BY <1>15 DEF ReadBound, Asking, SentAs, BoundRows
<1>16. ASSUME NEW r \in Routers, ReadRestricted(r) PROVE DisabledStays'
  BY <1>16 DEF ReadRestricted
<1>17. ASSUME NEW r \in Routers, ReadAny(r) PROVE DisabledStays'
  BY <1>17 DEF ReadAny, Asking, SentAs
<1>18. ASSUME NEW r \in Routers, Route(r) PROVE DisabledStays'
  BY <1>18 DEF Route
<1>19. ASSUME NEW r \in Pruners, ReadPrices(r) PROVE DisabledStays'
  BY <1>19 DEF ReadPrices
<1>20. ASSUME NEW r \in Pruners, ReadChannels(r) PROVE DisabledStays'
  BY <1>20 DEF ReadChannels
<1>21. ASSUME NEW r \in Pruners, ReadBindings(r) PROVE DisabledStays'
  BY <1>21 DEF ReadBindings
<1>22. ASSUME NEW r \in Pruners, PrunePrices(r) PROVE DisabledStays'
  BY <1>22 DEF PrunePrices, Deleted
<1>23. ASSUME NEW s \in Syncs, SyncRead(s) PROVE DisabledStays'
  BY <1>23 DEF SyncRead
<1>24. ASSUME NEW s \in Syncs, SyncEnds(s) PROVE DisabledStays'
  BY <1>24 DEF SyncEnds
<1>25. CASE UNCHANGED channelsVars
  BY <1>25 DEF channelsVars
<1> QED
  BY ONLY [ChannelsNext]_channelsVars, <1>1, <1>2, <1>3, <1>4, <1>5, <1>6, <1>7, <1>8, <1>9, <1>10, <1>11,
     <1>12, <1>13, <1>14, <1>15, <1>16, <1>17, <1>18, <1>19, <1>20, <1>21,
     <1>22, <1>23, <1>24, <1>25, Zenon
  DEF ChannelsNext, EditStep, PriceStep, OffOn

LEMMA CacheMatchesKept ==
    ASSUME ChannelsTyped, Versions, CacheMatches, GotMatches, [ChannelsNext]_channelsVars
    PROVE  CacheMatches'
<1> USE ChannelNats DEF ChannelsTyped, ChannelCounts, ChannelLists, ChannelCatalogs, ChannelLocals,
        Catalogs, Cached, Blank, NoEntry, Versions, CacheMatches, GotMatches, channelsVars, tables,
        upstream, reading, imports, verdicts, Edit, Untouched, Still, Quiet, Reads, Apart, Got,
        Step, Forgets
<1>1. ASSUME NEW c \in Channels, SwitchChannel(c) PROVE CacheMatches'
  BY <1>1 DEF SwitchChannel
<1>2. ASSUME NEW c \in Channels, DeleteChannel(c) PROVE CacheMatches'
  BY <1>2 DEF DeleteChannel
<1>3. ASSUME NEW c \in Channels, InvalidateCatalog(c) PROVE CacheMatches'
  BY <1>3 DEF InvalidateCatalog
<1>4. ASSUME NEW c \in Channels, NEW k \in Conns, CreateChannel(c, k)
      PROVE  CacheMatches'
  BY <1>4 DEF CreateChannel
<1>5. ASSUME NEW c \in Channels, NEW k \in Conns, MoveChannel(c, k)
      PROVE  CacheMatches'
  BY <1>5 DEF MoveChannel
<1>6. ASSUME NEW c \in Channels, NEW m \in Models, NEW n \in Names, BindChannel(c, m, n)
      PROVE  CacheMatches'
  BY <1>6 DEF BindChannel
<1>7. ASSUME NEW m \in Models, DeletePrice(m) PROVE CacheMatches'
  BY <1>7 DEF DeletePrice, Deleted
<1>8. ASSUME NEW m \in Models, NEW S \in SUBSET Channels, NEW v \in OffOn, UpsertPrice(m, v, S)
      PROVE  CacheMatches'
  BY <1>8 DEF UpsertPrice, OffOn, Rebound
<1>9. ASSUME NEW m \in Models, NEW S \in SUBSET Channels, NEW s \in Syncs, SyncWrite(s, m, S)
      PROVE  CacheMatches'
  BY <1>9 DEF SyncWrite, Rebound, Imported
<1>10. CASE Tick
  BY <1>10, TickEffect
<1>11. ASSUME NEW k \in Conns, NEW S \in SUBSET Names, Shift(k, S)
      PROVE  CacheMatches'
  BY <1>11 DEF Shift
<1>12. ASSUME NEW r \in Readers, NEW c \in Channels, UseCache(r, c)
      PROVE  CacheMatches'
  BY <1>12 DEF UseCache
<1>13. ASSUME NEW r \in Readers, NEW c \in Channels, Probe(r, c)
      PROVE  CacheMatches'
  BY <1>13 DEF Probe
<1>14. ASSUME NEW r \in Readers, NEW c \in Channels, ProbeReturns(r, c)
      PROVE  CacheMatches'
  BY <1>14 DEF ProbeReturns
<1>15. ASSUME NEW r \in Routers, ReadBound(r) PROVE CacheMatches'
  BY <1>15 DEF ReadBound, Asking, SentAs, BoundRows
<1>16. ASSUME NEW r \in Routers, ReadRestricted(r) PROVE CacheMatches'
  BY <1>16 DEF ReadRestricted
<1>17. ASSUME NEW r \in Routers, ReadAny(r) PROVE CacheMatches'
  BY <1>17 DEF ReadAny, Asking, SentAs
<1>18. ASSUME NEW r \in Routers, Route(r) PROVE CacheMatches'
  BY <1>18 DEF Route
<1>19. ASSUME NEW r \in Pruners, ReadPrices(r) PROVE CacheMatches'
  BY <1>19 DEF ReadPrices
<1>20. ASSUME NEW r \in Pruners, ReadChannels(r) PROVE CacheMatches'
  BY <1>20 DEF ReadChannels
<1>21. ASSUME NEW r \in Pruners, ReadBindings(r) PROVE CacheMatches'
  BY <1>21 DEF ReadBindings
<1>22. ASSUME NEW r \in Pruners, PrunePrices(r) PROVE CacheMatches'
  BY <1>22 DEF PrunePrices, Deleted
<1>23. ASSUME NEW s \in Syncs, SyncRead(s) PROVE CacheMatches'
  BY <1>23 DEF SyncRead
<1>24. ASSUME NEW s \in Syncs, SyncEnds(s) PROVE CacheMatches'
  BY <1>24 DEF SyncEnds
<1>25. CASE UNCHANGED channelsVars
  BY <1>25 DEF channelsVars
<1> QED
  BY ONLY [ChannelsNext]_channelsVars, <1>1, <1>2, <1>3, <1>4, <1>5, <1>6, <1>7, <1>8, <1>9, <1>10, <1>11,
     <1>12, <1>13, <1>14, <1>15, <1>16, <1>17, <1>18, <1>19, <1>20, <1>21,
     <1>22, <1>23, <1>24, <1>25, Zenon
  DEF ChannelsNext, EditStep, PriceStep, OffOn

LEMMA VersionsKept ==
    ASSUME ChannelsTyped, Versions, [ChannelsNext]_channelsVars
    PROVE  Versions'
<1> USE ChannelNats DEF ChannelsTyped, ChannelCounts, ChannelCatalogs, ChannelLocals, Catalogs,
        Cached, Blank, NoEntry, Versions, channelsVars, tables, upstream, reading, imports,
        verdicts, Edit, Untouched, Still, Quiet, Reads, Apart, Got, Step, Forgets
<1>1. ASSUME NEW c \in Channels, SwitchChannel(c) PROVE Versions'
  BY <1>1 DEF SwitchChannel
<1>2. ASSUME NEW c \in Channels, DeleteChannel(c) PROVE Versions'
  BY <1>2 DEF DeleteChannel
<1>3. ASSUME NEW c \in Channels, InvalidateCatalog(c) PROVE Versions'
  BY <1>3 DEF InvalidateCatalog
<1>4. ASSUME NEW c \in Channels, NEW k \in Conns, CreateChannel(c, k)
      PROVE  Versions'
  BY <1>4 DEF CreateChannel
<1>5. ASSUME NEW c \in Channels, NEW k \in Conns, MoveChannel(c, k)
      PROVE  Versions'
  BY <1>5 DEF MoveChannel
<1>6. ASSUME NEW c \in Channels, NEW m \in Models, NEW n \in Names, BindChannel(c, m, n)
      PROVE  Versions'
  BY <1>6 DEF BindChannel
<1>7. ASSUME NEW m \in Models, DeletePrice(m) PROVE Versions'
  BY <1>7 DEF DeletePrice, Deleted
<1>8. ASSUME NEW m \in Models, NEW S \in SUBSET Channels, NEW v \in OffOn, UpsertPrice(m, v, S)
      PROVE  Versions'
  BY <1>8 DEF UpsertPrice, OffOn, Rebound
<1>9. ASSUME NEW m \in Models, NEW S \in SUBSET Channels, NEW s \in Syncs, SyncWrite(s, m, S)
      PROVE  Versions'
  BY <1>9 DEF SyncWrite, Rebound, Imported
<1>10. CASE Tick
  BY <1>10, TickEffect
<1>11. ASSUME NEW k \in Conns, NEW S \in SUBSET Names, Shift(k, S)
      PROVE  Versions'
  BY <1>11 DEF Shift
<1>12. ASSUME NEW r \in Readers, NEW c \in Channels, UseCache(r, c)
      PROVE  Versions'
  BY <1>12 DEF UseCache
<1>13. ASSUME NEW r \in Readers, NEW c \in Channels, Probe(r, c)
      PROVE  Versions'
  BY <1>13 DEF Probe
<1>14. ASSUME NEW r \in Readers, NEW c \in Channels, ProbeReturns(r, c)
      PROVE  Versions'
  BY <1>14 DEF ProbeReturns
<1>15. ASSUME NEW r \in Routers, ReadBound(r) PROVE Versions'
  <2>1. UNCHANGED <<shifts, cache, offers>>
    BY <1>15, ReadBoundEffect
  <2>2. ASSUME NEW q \in Readers, NEW c \in Channels
        PROVE  (got'[q][c] = got[q][c] /\ with'[q][c] = with[q][c]) \/ got'[q][c] = Blank \/ got'[q][c] = [Blank EXCEPT !.st = "todo"]
    <3>1. CASE q # r
      BY <1>15, <3>1, ReadBoundEffect, SMTT(20)
    <3>2. CASE q = r
      <4>1. \A x \in Channels :
                (got'[r][x] = got[r][x] /\ with'[r][x] = with[r][x]) \/ got'[r][x] = Blank \/ got'[r][x] = [Blank EXCEPT !.st = "todo"]
        BY <1>15, ReadBoundEffect
      <4> QED
        BY <3>2, <4>1, Zenon
    <3> QED
      BY <3>1, <3>2
  <2>3. Blank.ver = 0 /\ [Blank EXCEPT !.st = "todo"].ver = 0 /\ shifts \in Nat
    BY DEF Blank
  <2>4. Blank.st = "none" /\ [Blank EXCEPT !.st = "todo"].st = "todo"
    BY DEF Blank
  <2>5. ASSUME NEW q \in Readers, NEW c \in Channels PROVE got'[q][c].ver <= shifts
    <3> DEFINE todo == [Blank EXCEPT !.st = "todo"]
    <3>1. todo.ver = 0 /\ todo.st = "todo"
      BY <2>3, <2>4
    <3>2. (got'[q][c] = got[q][c] /\ with'[q][c] = with[q][c]) \/ got'[q][c] = Blank \/ got'[q][c] = todo
      BY <2>2
    <3> HIDE DEF todo
    <3> QED
      BY <2>1, <2>3, <2>4, <3>1, <3>2
  <2> QED
    BY <2>1, <2>5
<1>16. ASSUME NEW r \in Routers, ReadRestricted(r) PROVE Versions'
  BY <1>16 DEF ReadRestricted
<1>17. ASSUME NEW r \in Routers, ReadAny(r) PROVE Versions'
  BY <1>17 DEF ReadAny, Asking, SentAs
<1>18. ASSUME NEW r \in Routers, Route(r) PROVE Versions'
  BY <1>18 DEF Route
<1>19. ASSUME NEW r \in Pruners, ReadPrices(r) PROVE Versions'
  BY <1>19 DEF ReadPrices
<1>20. ASSUME NEW r \in Pruners, ReadChannels(r) PROVE Versions'
  BY <1>20 DEF ReadChannels
<1>21. ASSUME NEW r \in Pruners, ReadBindings(r) PROVE Versions'
  BY <1>21 DEF ReadBindings
<1>22. ASSUME NEW r \in Pruners, PrunePrices(r) PROVE Versions'
  BY <1>22 DEF PrunePrices, Deleted
<1>23. ASSUME NEW s \in Syncs, SyncRead(s) PROVE Versions'
  BY <1>23 DEF SyncRead
<1>24. ASSUME NEW s \in Syncs, SyncEnds(s) PROVE Versions'
  BY <1>24 DEF SyncEnds
<1>25. CASE UNCHANGED channelsVars
  BY <1>25 DEF channelsVars
<1> QED
  BY ONLY [ChannelsNext]_channelsVars, <1>1, <1>2, <1>3, <1>4, <1>5, <1>6, <1>7, <1>8, <1>9, <1>10, <1>11,
     <1>12, <1>13, <1>14, <1>15, <1>16, <1>17, <1>18, <1>19, <1>20, <1>21,
     <1>22, <1>23, <1>24, <1>25, Zenon
  DEF ChannelsNext, EditStep, PriceStep, OffOn

LEMMA GotMatchesKept ==
    ASSUME ChannelsTyped, Versions, CacheMatches, GotMatches, [ChannelsNext]_channelsVars
    PROVE  GotMatches'
<1> USE ChannelNats DEF ChannelsTyped, ChannelCounts, ChannelLists, ChannelCatalogs, ChannelLocals,
        Catalogs, Cached, Blank, NoEntry, Versions, CacheMatches, GotMatches, channelsVars, tables,
        upstream, reading, imports, verdicts, Edit, Untouched, Still, Quiet, Reads, Apart, Got,
        Step, Forgets
<1>1. ASSUME NEW c \in Channels, SwitchChannel(c) PROVE GotMatches'
  BY <1>1 DEF SwitchChannel
<1>2. ASSUME NEW c \in Channels, DeleteChannel(c) PROVE GotMatches'
  BY <1>2 DEF DeleteChannel
<1>3. ASSUME NEW c \in Channels, InvalidateCatalog(c) PROVE GotMatches'
  BY <1>3 DEF InvalidateCatalog
<1>4. ASSUME NEW c \in Channels, NEW k \in Conns, CreateChannel(c, k)
      PROVE  GotMatches'
  BY <1>4 DEF CreateChannel
<1>5. ASSUME NEW c \in Channels, NEW k \in Conns, MoveChannel(c, k)
      PROVE  GotMatches'
  BY <1>5 DEF MoveChannel
<1>6. ASSUME NEW c \in Channels, NEW m \in Models, NEW n \in Names, BindChannel(c, m, n)
      PROVE  GotMatches'
  BY <1>6 DEF BindChannel
<1>7. ASSUME NEW m \in Models, DeletePrice(m) PROVE GotMatches'
  BY <1>7 DEF DeletePrice, Deleted
<1>8. ASSUME NEW m \in Models, NEW S \in SUBSET Channels, NEW v \in OffOn, UpsertPrice(m, v, S)
      PROVE  GotMatches'
  BY <1>8 DEF UpsertPrice, OffOn, Rebound
<1>9. ASSUME NEW m \in Models, NEW S \in SUBSET Channels, NEW s \in Syncs, SyncWrite(s, m, S)
      PROVE  GotMatches'
  BY <1>9 DEF SyncWrite, Rebound, Imported
<1>10. CASE Tick
  BY <1>10, TickEffect
<1>11. ASSUME NEW k \in Conns, NEW S \in SUBSET Names, Shift(k, S)
      PROVE  GotMatches'
  BY <1>11 DEF Shift
<1>12. ASSUME NEW r \in Readers, NEW c \in Channels, UseCache(r, c) PROVE GotMatches'
  <2> DEFINE e == [st |-> "in", ok |-> cache[c].ok, names |-> cache[c].names, ver |-> cache[c].ver, age |-> 0]
  <2>1. got' = [got EXCEPT ![r][c] = e] /\ UNCHANGED <<offers, shifts, with>> /\ cache[c].conn = with[r][c]
    BY <1>12 DEF UseCache, Hit
  <2>2. e.ok /\ e.ver = shifts => e.names = offers[with[r][c]]
    BY <2>1
  <2> HIDE DEF e
  <2> QED
    BY <2>1, <2>2
<1>13. ASSUME NEW r \in Readers, NEW c \in Channels, Probe(r, c)
      PROVE  GotMatches'
  BY <1>13 DEF Probe
<1>14. ASSUME NEW r \in Readers, NEW c \in Channels, ProbeReturns(r, c)
      PROVE  GotMatches'
  BY <1>14 DEF ProbeReturns
<1>15. ASSUME NEW r \in Routers, ReadBound(r) PROVE GotMatches'
  <2>1. UNCHANGED <<shifts, cache, offers>>
    BY <1>15, ReadBoundEffect
  <2>2. ASSUME NEW q \in Readers, NEW c \in Channels
        PROVE  (got'[q][c] = got[q][c] /\ with'[q][c] = with[q][c]) \/ got'[q][c] = Blank \/ got'[q][c] = [Blank EXCEPT !.st = "todo"]
    <3>1. CASE q # r
      BY <1>15, <3>1, ReadBoundEffect, SMTT(20)
    <3>2. CASE q = r
      <4>1. \A x \in Channels :
                (got'[r][x] = got[r][x] /\ with'[r][x] = with[r][x]) \/ got'[r][x] = Blank \/ got'[r][x] = [Blank EXCEPT !.st = "todo"]
        BY <1>15, ReadBoundEffect
      <4> QED
        BY <3>2, <4>1, Zenon
    <3> QED
      BY <3>1, <3>2
  <2>3. Blank.ver = 0 /\ [Blank EXCEPT !.st = "todo"].ver = 0 /\ shifts \in Nat
    BY DEF Blank
  <2>4. Blank.st = "none" /\ [Blank EXCEPT !.st = "todo"].st = "todo"
    BY DEF Blank
  <2>5. ASSUME NEW q \in Readers, NEW c \in Channels PROVE 
             got'[q][c].st \in {"out", "in"} /\ got'[q][c].ok /\ got'[q][c].ver = shifts =>
                 got'[q][c].names = offers[with'[q][c]]
    <3> DEFINE todo == [Blank EXCEPT !.st = "todo"]
    <3>1. todo.ver = 0 /\ todo.st = "todo"
      BY <2>3, <2>4
    <3>2. (got'[q][c] = got[q][c] /\ with'[q][c] = with[q][c]) \/ got'[q][c] = Blank \/ got'[q][c] = todo
      BY <2>2
    <3> HIDE DEF todo
    <3> QED
      BY <2>1, <2>3, <2>4, <3>1, <3>2
  <2> QED
    BY <2>1, <2>5
<1>16. ASSUME NEW r \in Routers, ReadRestricted(r) PROVE GotMatches'
  BY <1>16 DEF ReadRestricted
<1>17. ASSUME NEW r \in Routers, ReadAny(r) PROVE GotMatches'
  BY <1>17 DEF ReadAny, Asking, SentAs
<1>18. ASSUME NEW r \in Routers, Route(r) PROVE GotMatches'
  BY <1>18 DEF Route
<1>19. ASSUME NEW r \in Pruners, ReadPrices(r) PROVE GotMatches'
  BY <1>19 DEF ReadPrices
<1>20. ASSUME NEW r \in Pruners, ReadChannels(r) PROVE GotMatches'
  BY <1>20 DEF ReadChannels
<1>21. ASSUME NEW r \in Pruners, ReadBindings(r) PROVE GotMatches'
  BY <1>21 DEF ReadBindings
<1>22. ASSUME NEW r \in Pruners, PrunePrices(r) PROVE GotMatches'
  BY <1>22 DEF PrunePrices, Deleted
<1>23. ASSUME NEW s \in Syncs, SyncRead(s) PROVE GotMatches'
  BY <1>23 DEF SyncRead
<1>24. ASSUME NEW s \in Syncs, SyncEnds(s) PROVE GotMatches'
  BY <1>24 DEF SyncEnds
<1>25. CASE UNCHANGED channelsVars
  BY <1>25 DEF channelsVars
<1> QED
  BY ONLY [ChannelsNext]_channelsVars, <1>1, <1>2, <1>3, <1>4, <1>5, <1>6, <1>7, <1>8, <1>9, <1>10, <1>11,
     <1>12, <1>13, <1>14, <1>15, <1>16, <1>17, <1>18, <1>19, <1>20, <1>21,
     <1>22, <1>23, <1>24, <1>25, Zenon
  DEF ChannelsNext, EditStep, PriceStep, OffOn

LEMMA AsTheyAreKept ==
    ASSUME ChannelsTyped, AsTheyAre, [ChannelsNext]_channelsVars
    PROVE  AsTheyAre'
<1> USE ChannelNats DEF ChannelsTyped, ChannelReaders, ChannelLocals, AsTheyAre, AllIn,
        channelsVars, tables, upstream, reading, imports, verdicts, Edit, Untouched, Still, Quiet,
        Reads, Apart, Got, Step, Forgets
<1>1. ASSUME NEW c \in Channels, SwitchChannel(c) PROVE AsTheyAre'
  BY <1>1 DEF SwitchChannel
<1>2. ASSUME NEW c \in Channels, DeleteChannel(c) PROVE AsTheyAre'
  BY <1>2 DEF DeleteChannel
<1>3. ASSUME NEW c \in Channels, InvalidateCatalog(c) PROVE AsTheyAre'
  BY <1>3 DEF InvalidateCatalog
<1>4. ASSUME NEW c \in Channels, NEW k \in Conns, CreateChannel(c, k)
      PROVE  AsTheyAre'
  BY <1>4 DEF CreateChannel
<1>5. ASSUME NEW c \in Channels, NEW k \in Conns, MoveChannel(c, k)
      PROVE  AsTheyAre'
  BY <1>5 DEF MoveChannel
<1>6. ASSUME NEW c \in Channels, NEW m \in Models, NEW n \in Names, BindChannel(c, m, n)
      PROVE  AsTheyAre'
  BY <1>6 DEF BindChannel
<1>7. ASSUME NEW m \in Models, DeletePrice(m) PROVE AsTheyAre'
  BY <1>7 DEF DeletePrice, Deleted
<1>8. ASSUME NEW m \in Models, NEW S \in SUBSET Channels, NEW v \in OffOn, UpsertPrice(m, v, S)
      PROVE  AsTheyAre'
  BY <1>8 DEF UpsertPrice, OffOn, Rebound
<1>9. ASSUME NEW m \in Models, NEW S \in SUBSET Channels, NEW s \in Syncs, SyncWrite(s, m, S)
      PROVE  AsTheyAre'
  BY <1>9 DEF SyncWrite, Rebound, Imported
<1>10. CASE Tick
  BY <1>10 DEF Tick, Older
<1>11. ASSUME NEW k \in Conns, NEW S \in SUBSET Names, Shift(k, S)
      PROVE  AsTheyAre'
  BY <1>11 DEF Shift
<1>12. ASSUME NEW r \in Readers, NEW c \in Channels, UseCache(r, c)
      PROVE  AsTheyAre'
  BY <1>12 DEF UseCache
<1>13. ASSUME NEW r \in Readers, NEW c \in Channels, Probe(r, c)
      PROVE  AsTheyAre'
  BY <1>13 DEF Probe
<1>14. ASSUME NEW r \in Readers, NEW c \in Channels, ProbeReturns(r, c)
      PROVE  AsTheyAre'
  BY <1>14 DEF ProbeReturns
<1>15. ASSUME NEW r \in Routers, ReadBound(r) PROVE AsTheyAre'
  <2>1. ASSUME NEW q \in Pruners PROVE q \in Readers /\ q # r
    OBVIOUS
  <2> QED
    BY <1>15, <2>1, ReadBoundEffect
<1>16. ASSUME NEW r \in Routers, ReadRestricted(r) PROVE AsTheyAre'
  BY <1>16 DEF ReadRestricted
<1>17. ASSUME NEW r \in Routers, ReadAny(r) PROVE AsTheyAre'
  BY <1>17 DEF ReadAny, Asking, SentAs
<1>18. ASSUME NEW r \in Routers, Route(r) PROVE AsTheyAre'
  BY <1>18 DEF Route
<1>19. ASSUME NEW r \in Pruners, ReadPrices(r) PROVE AsTheyAre'
  BY <1>19 DEF ReadPrices
<1>20. ASSUME NEW r \in Pruners, ReadChannels(r) PROVE AsTheyAre'
  BY <1>20 DEF ReadChannels
<1>21. ASSUME NEW r \in Pruners, ReadBindings(r) PROVE AsTheyAre'
  <2>1. at[r] = "probe" /\ \A c \in chans[r] : got[r][c].st = "in"
    BY <1>21 DEF ReadBindings
  <2>2. UNCHANGED <<on, conn, asked, chans, with, got>> /\ at' = [at EXCEPT ![r] = "bindings"]
    BY <1>21 DEF ReadBindings
  <2> QED
    BY <2>1, <2>2
<1>22. ASSUME NEW r \in Pruners, PrunePrices(r) PROVE AsTheyAre'
  BY <1>22 DEF PrunePrices, Deleted
<1>23. ASSUME NEW s \in Syncs, SyncRead(s) PROVE AsTheyAre'
  BY <1>23 DEF SyncRead
<1>24. ASSUME NEW s \in Syncs, SyncEnds(s) PROVE AsTheyAre'
  BY <1>24 DEF SyncEnds
<1>25. CASE UNCHANGED channelsVars
  BY <1>25 DEF channelsVars
<1> QED
  BY ONLY [ChannelsNext]_channelsVars, <1>1, <1>2, <1>3, <1>4, <1>5, <1>6, <1>7, <1>8, <1>9, <1>10, <1>11,
     <1>12, <1>13, <1>14, <1>15, <1>16, <1>17, <1>18, <1>19, <1>20, <1>21,
     <1>22, <1>23, <1>24, <1>25, Zenon
  DEF ChannelsNext, EditStep, PriceStep, OffOn

LEMMA AllReadKept ==
    ASSUME ChannelsTyped, AllRead, [ChannelsNext]_channelsVars
    PROVE  AllRead'
<1> USE ChannelNats DEF ChannelsTyped, ChannelReaders, ChannelLocals, ChannelCatalogs, AllRead,
        AllIn, channelsVars, tables, upstream, reading, imports, verdicts, Edit, Untouched, Still,
        Quiet, Reads, Apart, Got, Step, Forgets
<1>1. ASSUME NEW c \in Channels, SwitchChannel(c) PROVE AllRead'
  BY <1>1 DEF SwitchChannel
<1>2. ASSUME NEW c \in Channels, DeleteChannel(c) PROVE AllRead'
  BY <1>2 DEF DeleteChannel
<1>3. ASSUME NEW c \in Channels, InvalidateCatalog(c) PROVE AllRead'
  BY <1>3 DEF InvalidateCatalog
<1>4. ASSUME NEW c \in Channels, NEW k \in Conns, CreateChannel(c, k)
      PROVE  AllRead'
  BY <1>4 DEF CreateChannel
<1>5. ASSUME NEW c \in Channels, NEW k \in Conns, MoveChannel(c, k)
      PROVE  AllRead'
  BY <1>5 DEF MoveChannel
<1>6. ASSUME NEW c \in Channels, NEW m \in Models, NEW n \in Names, BindChannel(c, m, n)
      PROVE  AllRead'
  BY <1>6 DEF BindChannel
<1>7. ASSUME NEW m \in Models, DeletePrice(m) PROVE AllRead'
  BY <1>7 DEF DeletePrice, Deleted
<1>8. ASSUME NEW m \in Models, NEW S \in SUBSET Channels, NEW v \in OffOn, UpsertPrice(m, v, S)
      PROVE  AllRead'
  BY <1>8 DEF UpsertPrice, OffOn, Rebound
<1>9. ASSUME NEW m \in Models, NEW S \in SUBSET Channels, NEW s \in Syncs, SyncWrite(s, m, S)
      PROVE  AllRead'
  BY <1>9 DEF SyncWrite, Rebound, Imported
<1>10. CASE Tick
  BY <1>10 DEF Tick, Older
<1>11. ASSUME NEW k \in Conns, NEW S \in SUBSET Names, Shift(k, S)
      PROVE  AllRead'
  BY <1>11 DEF Shift
<1>12. ASSUME NEW r \in Readers, NEW c \in Channels, UseCache(r, c)
      PROVE  AllRead'
  BY <1>12 DEF UseCache
<1>13. ASSUME NEW r \in Readers, NEW c \in Channels, Probe(r, c) PROVE AllRead'
  BY <1>13 DEF Probe
<1>14. ASSUME NEW r \in Readers, NEW c \in Channels, ProbeReturns(r, c)
      PROVE  AllRead'
  BY <1>14 DEF ProbeReturns
<1>15. ASSUME NEW r \in Routers, ReadBound(r) PROVE AllRead'
  <2>1. ASSUME NEW q \in Pruners PROVE q \in Readers /\ q # r
    OBVIOUS
  <2> QED
    BY <1>15, <2>1, ReadBoundEffect
<1>16. ASSUME NEW r \in Routers, ReadRestricted(r) PROVE AllRead'
  BY <1>16 DEF ReadRestricted
<1>17. ASSUME NEW r \in Routers, ReadAny(r) PROVE AllRead'
  BY <1>17 DEF ReadAny, Asking, SentAs
<1>18. ASSUME NEW r \in Routers, Route(r) PROVE AllRead'
  BY <1>18 DEF Route
<1>19. ASSUME NEW r \in Pruners, ReadPrices(r) PROVE AllRead'
  BY <1>19 DEF ReadPrices
<1>20. ASSUME NEW r \in Pruners, ReadChannels(r) PROVE AllRead'
  BY <1>20 DEF ReadChannels
<1>21. ASSUME NEW r \in Pruners, ReadBindings(r) PROVE AllRead'
  BY <1>21 DEF ReadBindings
<1>22. ASSUME NEW r \in Pruners, PrunePrices(r) PROVE AllRead'
  BY <1>22 DEF PrunePrices, Deleted
<1>23. ASSUME NEW s \in Syncs, SyncRead(s) PROVE AllRead'
  BY <1>23 DEF SyncRead
<1>24. ASSUME NEW s \in Syncs, SyncEnds(s) PROVE AllRead'
  BY <1>24 DEF SyncEnds
<1>25. CASE UNCHANGED channelsVars
  BY <1>25 DEF channelsVars
<1> QED
  BY ONLY [ChannelsNext]_channelsVars, <1>1, <1>2, <1>3, <1>4, <1>5, <1>6, <1>7, <1>8, <1>9, <1>10, <1>11,
     <1>12, <1>13, <1>14, <1>15, <1>16, <1>17, <1>18, <1>19, <1>20, <1>21,
     <1>22, <1>23, <1>24, <1>25, Zenon
  DEF ChannelsNext, EditStep, PriceStep, OffOn

LEMMA UnservedKept ==
    ASSUME ChannelsTyped, Unserved, [ChannelsNext]_channelsVars
    PROVE  Unserved'
<1> USE ChannelNats DEF ChannelsTyped, ChannelReaders, ChannelLocals, ChannelCatalogs,
        ChannelPrices, Unserved, AllIn, channelsVars, tables, upstream, reading, imports, verdicts,
        Edit, Untouched, Still, Quiet, Reads, Apart, Got, Step, Forgets
<1>1. ASSUME NEW c \in Channels, SwitchChannel(c) PROVE Unserved'
  BY <1>1 DEF SwitchChannel
<1>2. ASSUME NEW c \in Channels, DeleteChannel(c) PROVE Unserved'
  BY <1>2 DEF DeleteChannel
<1>3. ASSUME NEW c \in Channels, InvalidateCatalog(c) PROVE Unserved'
  BY <1>3 DEF InvalidateCatalog
<1>4. ASSUME NEW c \in Channels, NEW k \in Conns, CreateChannel(c, k)
      PROVE  Unserved'
  BY <1>4 DEF CreateChannel
<1>5. ASSUME NEW c \in Channels, NEW k \in Conns, MoveChannel(c, k)
      PROVE  Unserved'
  BY <1>5 DEF MoveChannel
<1>6. ASSUME NEW c \in Channels, NEW m \in Models, NEW n \in Names, BindChannel(c, m, n)
      PROVE  Unserved'
  BY <1>6 DEF BindChannel
<1>7. ASSUME NEW m \in Models, DeletePrice(m) PROVE Unserved'
  BY <1>7 DEF DeletePrice, Deleted
<1>8. ASSUME NEW m \in Models, NEW S \in SUBSET Channels, NEW v \in OffOn, UpsertPrice(m, v, S)
      PROVE  Unserved'
  BY <1>8 DEF UpsertPrice, OffOn, Rebound
<1>9. ASSUME NEW m \in Models, NEW S \in SUBSET Channels, NEW s \in Syncs, SyncWrite(s, m, S)
      PROVE  Unserved'
  BY <1>9 DEF SyncWrite, Rebound, Imported
<1>10. CASE Tick
  <2>1. UNCHANGED at /\ \A q \in Pruners : at[q] # "bindings"
    BY <1>10 DEF Tick, Waiting
  <2> QED
    BY <2>1
<1>11. ASSUME NEW k \in Conns, NEW S \in SUBSET Names, Shift(k, S)
      PROVE  Unserved'
  BY <1>11 DEF Shift
<1>12. ASSUME NEW r \in Readers, NEW c \in Channels, UseCache(r, c)
      PROVE  Unserved'
  BY <1>12 DEF UseCache
<1>13. ASSUME NEW r \in Readers, NEW c \in Channels, Probe(r, c)
      PROVE  Unserved'
  BY <1>13 DEF Probe
<1>14. ASSUME NEW r \in Readers, NEW c \in Channels, ProbeReturns(r, c)
      PROVE  Unserved'
  BY <1>14 DEF ProbeReturns
<1>15. ASSUME NEW r \in Routers, ReadBound(r) PROVE Unserved'
  <2>1. UNCHANGED <<price, listed, asked, bound>>
    BY <1>15, ReadBoundEffect
  <2>2. ASSUME NEW q \in Pruners
        PROVE  at'[q] = at[q] /\ chans'[q] = chans[q] /\ with'[q] = with[q] /\ got'[q] = got[q]
    <3>1. q \in Readers /\ q # r
      OBVIOUS
    <3> QED
      BY <1>15, <3>1, ReadBoundEffect
  <2> QED
    BY <2>1, <2>2
<1>16. ASSUME NEW r \in Routers, ReadRestricted(r) PROVE Unserved'
  BY <1>16 DEF ReadRestricted
<1>17. ASSUME NEW r \in Routers, ReadAny(r) PROVE Unserved'
  BY <1>17 DEF ReadAny, Asking, SentAs
<1>18. ASSUME NEW r \in Routers, Route(r) PROVE Unserved'
  BY <1>18 DEF Route
<1>19. ASSUME NEW r \in Pruners, ReadPrices(r) PROVE Unserved'
  BY <1>19 DEF ReadPrices
<1>20. ASSUME NEW r \in Pruners, ReadChannels(r) PROVE Unserved'
  BY <1>20 DEF ReadChannels
<1>21. ASSUME NEW r \in Pruners, ReadBindings(r) PROVE Unserved'
  <2>1. listed' = [listed EXCEPT ![r] = {m \in listed[r] : Serving(m, chans[r], with[r], bound[m], got[r]) = {}}]
    BY <1>21 DEF ReadBindings
  <2>2. UNCHANGED <<asked, chans, with, got, bound, price>> /\ at' = [at EXCEPT ![r] = "bindings"]
    BY <1>21 DEF ReadBindings
  <2> QED
    BY <2>1, <2>2
<1>22. ASSUME NEW r \in Pruners, PrunePrices(r) PROVE Unserved'
  <2>1. SUFFICES ASSUME NEW q \in Pruners, ~asked[q], at'[q] = "bindings", NEW m \in listed[q], price'[m] # "none"
                 PROVE  Serving(m, chans'[q], with'[q], bound'[m], got'[q]) = {}
    BY <1>22 DEF PrunePrices
  <2>2. q # r /\ at[q] = "bindings" /\ chans'[q] = chans[q] /\ with' = with /\ got'[q] = got[q]
    BY <1>22, <2>1 DEF PrunePrices
  <2>3. m \notin listed[r] /\ price[m] # "none" /\ bound'[m] = bound[m]
    BY <1>22, <2>1 DEF PrunePrices, Deleted
  <2> QED
    BY <2>1, <2>2, <2>3
<1>23. ASSUME NEW s \in Syncs, SyncRead(s) PROVE Unserved'
  BY <1>23 DEF SyncRead
<1>24. ASSUME NEW s \in Syncs, SyncEnds(s) PROVE Unserved'
  BY <1>24 DEF SyncEnds
<1>25. CASE UNCHANGED channelsVars
  BY <1>25 DEF channelsVars
<1> QED
  BY ONLY [ChannelsNext]_channelsVars, <1>1, <1>2, <1>3, <1>4, <1>5, <1>6, <1>7, <1>8, <1>9, <1>10, <1>11,
     <1>12, <1>13, <1>14, <1>15, <1>16, <1>17, <1>18, <1>19, <1>20, <1>21,
     <1>22, <1>23, <1>24, <1>25, Zenon
  DEF ChannelsNext, EditStep, PriceStep, OffOn

LEMMA PrunedKept ==
    ASSUME ChannelsTyped, GotMatches, AsTheyAre, AllRead, Unserved, PrunedExplained, [ChannelsNext]_channelsVars
    PROVE  PrunedExplained'
<1> USE ChannelNats DEF ChannelsTyped, PrunedExplained, channelsVars, tables, upstream, reading,
        imports, verdicts, Edit, Untouched, Still, Quiet, Reads, Apart, Got, Step, Forgets
<1>1. ASSUME NEW c \in Channels, SwitchChannel(c) PROVE PrunedExplained'
  BY <1>1 DEF SwitchChannel
<1>2. ASSUME NEW c \in Channels, DeleteChannel(c) PROVE PrunedExplained'
  BY <1>2 DEF DeleteChannel
<1>3. ASSUME NEW c \in Channels, InvalidateCatalog(c) PROVE PrunedExplained'
  BY <1>3 DEF InvalidateCatalog
<1>4. ASSUME NEW c \in Channels, NEW k \in Conns, CreateChannel(c, k)
      PROVE  PrunedExplained'
  BY <1>4 DEF CreateChannel
<1>5. ASSUME NEW c \in Channels, NEW k \in Conns, MoveChannel(c, k)
      PROVE  PrunedExplained'
  BY <1>5 DEF MoveChannel
<1>6. ASSUME NEW c \in Channels, NEW m \in Models, NEW n \in Names, BindChannel(c, m, n)
      PROVE  PrunedExplained'
  BY <1>6 DEF BindChannel
<1>7. ASSUME NEW m \in Models, DeletePrice(m) PROVE PrunedExplained'
  BY <1>7 DEF DeletePrice, Deleted
<1>8. ASSUME NEW m \in Models, NEW S \in SUBSET Channels, NEW v \in OffOn, UpsertPrice(m, v, S)
      PROVE  PrunedExplained'
  BY <1>8 DEF UpsertPrice, OffOn, Rebound
<1>9. ASSUME NEW m \in Models, NEW S \in SUBSET Channels, NEW s \in Syncs, SyncWrite(s, m, S)
      PROVE  PrunedExplained'
  BY <1>9 DEF SyncWrite, Rebound, Imported
<1>10. CASE Tick
  BY <1>10 DEF Tick, Older
<1>11. ASSUME NEW k \in Conns, NEW S \in SUBSET Names, Shift(k, S)
      PROVE  PrunedExplained'
  BY <1>11 DEF Shift
<1>12. ASSUME NEW r \in Readers, NEW c \in Channels, UseCache(r, c)
      PROVE  PrunedExplained'
  BY <1>12 DEF UseCache
<1>13. ASSUME NEW r \in Readers, NEW c \in Channels, Probe(r, c)
      PROVE  PrunedExplained'
  BY <1>13 DEF Probe
<1>14. ASSUME NEW r \in Readers, NEW c \in Channels, ProbeReturns(r, c)
      PROVE  PrunedExplained'
  BY <1>14 DEF ProbeReturns
<1>15. ASSUME NEW r \in Routers, ReadBound(r) PROVE PrunedExplained'
  BY <1>15 DEF ReadBound, Asking, SentAs, BoundRows
<1>16. ASSUME NEW r \in Routers, ReadRestricted(r) PROVE PrunedExplained'
  BY <1>16 DEF ReadRestricted
<1>17. ASSUME NEW r \in Routers, ReadAny(r) PROVE PrunedExplained'
  BY <1>17 DEF ReadAny, Asking, SentAs
<1>18. ASSUME NEW r \in Routers, Route(r) PROVE PrunedExplained'
  BY <1>18 DEF Route
<1>19. ASSUME NEW r \in Pruners, ReadPrices(r) PROVE PrunedExplained'
  BY <1>19 DEF ReadPrices
<1>20. ASSUME NEW r \in Pruners, ReadChannels(r) PROVE PrunedExplained'
  BY <1>20 DEF ReadChannels
<1>21. ASSUME NEW r \in Pruners, ReadBindings(r) PROVE PrunedExplained'
  BY <1>21 DEF ReadBindings
<1>22. ASSUME NEW r \in Pruners, PrunePrices(r) PROVE PrunedExplained'
  <2>1. at[r] = "bindings" /\ wrong' = wrong \cup
            {m \in listed[r] : /\ ~asked[r] /\ price[m] # "none" /\ Serving(m, on, conn, bound[m], Truth) # {}
                               /\ \A c \in chans[r] : shifts = got[r][c].ver}
    BY <1>22 DEF PrunePrices
  <2>2. SUFFICES ASSUME NEW m \in listed[r], ~asked[r], price[m] # "none", \A c \in chans[r] : shifts = got[r][c].ver
                 PROVE  Serving(m, on, conn, bound[m], Truth) = {}
    BY <2>1 DEF PrunedExplained
  <2>3. chans[r] = on /\ with[r] = conn /\ Serving(m, on, conn, bound[m], got[r]) = {}
    BY <2>1, <2>2 DEF AsTheyAre, Unserved
  <2>4. ASSUME NEW c \in on, got[r][c].ok PROVE got[r][c].names = offers[conn[c]]
    <3>1. c \in Channels /\ r \in Readers /\ got[r][c].st = "in" /\ got[r][c].ver = shifts
      BY <2>1, <2>2, <2>3 DEF AllRead, ChannelRows
    <3> QED
      BY <2>3, <2>4, <3>1 DEF GotMatches
  <2>5. \A c \in on : Truth[c].ok /\ Truth[c].names = offers[conn[c]]
    BY DEF Truth, ChannelRows
  <2> QED
    BY <2>3, <2>4, <2>5 DEF Serving
<1>23. ASSUME NEW s \in Syncs, SyncRead(s) PROVE PrunedExplained'
  BY <1>23 DEF SyncRead
<1>24. ASSUME NEW s \in Syncs, SyncEnds(s) PROVE PrunedExplained'
  BY <1>24 DEF SyncEnds
<1>25. CASE UNCHANGED channelsVars
  BY <1>25 DEF channelsVars
<1> QED
  BY ONLY [ChannelsNext]_channelsVars, <1>1, <1>2, <1>3, <1>4, <1>5, <1>6, <1>7, <1>8, <1>9, <1>10, <1>11,
     <1>12, <1>13, <1>14, <1>15, <1>16, <1>17, <1>18, <1>19, <1>20, <1>21,
     <1>22, <1>23, <1>24, <1>25, Zenon
  DEF ChannelsNext, EditStep, PriceStep, OffOn

LEMMA RecentLater ==
    ASSUME ChannelsTyped, Tick, NEW k \in Conns, NEW n \in Names, NEW b \in Nat, Recent(k, n, b)
    PROVE  n \in offers'[k] \/ gone'[k][n] <= b + 1
<1>1. gone'[k][n] = Older(gone[k][n], LongAgo) /\ offers' = offers
  BY TickEffect
<1>2. gone[k][n] \in Nat
  BY DEF ChannelsTyped, ChannelLists
<1> QED
  BY <1>1, <1>2 DEF Older, Recent

LEMMA RecentShifted ==
    ASSUME ChannelsTyped, NEW j \in Conns, NEW S \in SUBSET Names, Shift(j, S),
           NEW k \in Conns, NEW n \in Names, NEW b \in Nat, Recent(k, n, b)
    PROVE  n \in offers'[k] \/ gone'[k][n] <= b
<1>1. /\ offers' = [offers EXCEPT ![j] = S]
      /\ gone' = [gone EXCEPT ![j] = [x \in Names |-> IF x \in offers[j] \ S THEN 0 ELSE gone[j][x]]]
  BY DEF Shift
<1> USE DEF ChannelsTyped, ChannelLists
<1>2. CASE k = j
  BY <1>1, <1>2 DEF Recent
<1>3. CASE k # j
  BY <1>1, <1>3 DEF Recent
<1> QED
  BY <1>2, <1>3

LEMMA ReadAnyEffect ==
    ASSUME ChannelsTyped, NEW r \in Routers, ReadAny(r)
    PROVE  /\ at[r] = "any" /\ at'[r] \in {"over", "probe"}
           /\ \A q \in Readers : q # r => /\ at'[q] = at[q] /\ chans'[q] = chans[q] /\ with'[q] = with[q]
                                          /\ alias'[q] = alias[q] /\ got'[q] = got[q]
           /\ \A c \in Channels : got'[r][c] = Blank \/ got'[r][c] = [Blank EXCEPT !.st = "todo"]
           /\ at'[r] = "over" => \A c \in Channels : got'[r][c] = Blank
           /\ UNCHANGED <<there, on, conn, bound, price, offers, shifts, gone, cache, listed, asked>>
<1> USE ChannelNats DEF ChannelsTyped, ChannelReaders, ChannelLocals, ChannelCatalogs, Step
<1> DEFINE wired == {c \in on : Wire[conn[c]] = WireOf[RouteOf[r]]}
           g == [c \in Channels |-> IF c \in wired THEN [Blank EXCEPT !.st = "todo"] ELSE Blank]
<1>1. /\ at' = [at EXCEPT ![r] = IF wired = {} THEN "over" ELSE "probe"]
      /\ chans' = [chans EXCEPT ![r] = wired] /\ with' = [with EXCEPT ![r] = conn]
      /\ alias' = [alias EXCEPT ![r] = SentAs(RouteOf[r])] /\ got' = [got EXCEPT ![r] = g]
  BY DEF ReadAny, Asking
<1>2. \A c \in Channels : g[c] = Blank \/ g[c] = [Blank EXCEPT !.st = "todo"]
  OBVIOUS
<1>3. wired = {} => \A c \in Channels : g[c] = Blank
  OBVIOUS
<1> HIDE DEF wired, g
<1>4. got'[r] = g
  BY <1>1
<1> QED
  BY <1>1, <1>2, <1>3, <1>4 DEF ReadAny, Reads, tables, upstream

(* An answer that is held from now on is at least as fresh as any other.   *)
LEMMA HeldStep ==
    ASSUME ChannelsTyped, HeldFresh, NEW r \in Readers, NEW c \in Channels, NEW e,
           got' = [got EXCEPT ![r][c] = e], UNCHANGED <<offers, gone, with>>, e.st = "in",
           e.ok => e.names \subseteq Names,
           e.ok => \A n \in e.names : Recent(with[r][c], n, Ttl + Limit)
    PROVE  HeldFresh'
<1> USE ChannelNats DEF ChannelsTyped, ChannelLocals, ChannelCatalogs
<1>1. /\ \A q \in Readers, d \in Channels : (q # r \/ d # c) => got'[q][d] = got[q][d]
      /\ got'[r][c] = e
  OBVIOUS
<1>2. SUFFICES ASSUME NEW q \in Readers, NEW x \in Channels, got'[q][x].st = "in", got'[q][x].ok, NEW n \in got'[q][x].names
               PROVE  /\ Recent(with[q][x], n, Ttl + 2 * Limit)
                      /\ \A d \in Channels :
                            /\ got'[q][d].st = "todo" => Recent(with[q][x], n, Ttl + Limit)
                            /\ got'[q][d].st = "out" => Recent(with[q][x], n, Ttl + Limit + got'[q][d].age)
  BY DEF Recent, HeldFresh
<1>3. ASSUME NEW d \in Channels, got'[q][d].st \in {"todo", "out"}
      PROVE  got'[q][d] = got[q][d] /\ got[q][d].age \in Nat
  <2>1. got'[q][d] = got[q][d]
    BY <1>1, <1>3
  <2>2. got[q][d] \in Catalogs
    OBVIOUS
  <2> QED
    BY <2>1, <2>2 DEF Catalogs
<1>4. CASE q = r /\ x = c
  <2>1. Recent(with[q][x], n, Ttl + Limit) /\ n \in Names /\ with[q][x] \in Conns
    BY <1>1, <1>2, <1>4
  <2>2. gone[with[q][x]][n] \in Nat
    BY <2>1 DEF ChannelLists
  <2>3. ASSUME NEW b \in Nat PROVE Recent(with[q][x], n, Ttl + Limit + b)
    BY <2>1, <2>2 DEF Recent
  <2>4. Recent(with[q][x], n, Ttl + 2 * Limit)
    BY <2>1, <2>2 DEF Recent
  <2>5. ASSUME NEW d \in Channels, got'[q][d].st = "out" PROVE Recent(with[q][x], n, Ttl + Limit + got'[q][d].age)
    BY <1>3, <2>3, <2>5
  <2> QED
    BY <2>1, <2>4, <2>5
<1>5. CASE ~(q = r /\ x = c)
  <2>1. got'[q][x] = got[q][x]
    BY <1>1, <1>5
  <2> QED
    BY <1>2, <1>3, <2>1 DEF HeldFresh
<1> QED
  BY <1>4, <1>5

LEMMA EmptyHandedKept ==
    ASSUME ChannelsTyped, EmptyHanded, [ChannelsNext]_channelsVars
    PROVE  EmptyHanded'
<1> USE ChannelNats DEF ChannelsTyped, ChannelReaders, ChannelLists, ChannelCatalogs, ChannelLocals,
        EmptyHanded, Blank, AllIn, channelsVars, tables, upstream, reading, imports, verdicts, Edit,
        Untouched, Still, Quiet, Reads, Apart, Got, Step, Forgets
<1>1. ASSUME NEW c \in Channels, SwitchChannel(c) PROVE EmptyHanded'
  BY <1>1 DEF SwitchChannel
<1>2. ASSUME NEW c \in Channels, DeleteChannel(c) PROVE EmptyHanded'
  BY <1>2 DEF DeleteChannel
<1>3. ASSUME NEW c \in Channels, InvalidateCatalog(c) PROVE EmptyHanded'
  BY <1>3 DEF InvalidateCatalog
<1>4. ASSUME NEW c \in Channels, NEW k \in Conns, CreateChannel(c, k)
      PROVE  EmptyHanded'
  BY <1>4 DEF CreateChannel
<1>5. ASSUME NEW c \in Channels, NEW k \in Conns, MoveChannel(c, k)
      PROVE  EmptyHanded'
  BY <1>5 DEF MoveChannel
<1>6. ASSUME NEW c \in Channels, NEW m \in Models, NEW n \in Names, BindChannel(c, m, n)
      PROVE  EmptyHanded'
  BY <1>6 DEF BindChannel
<1>7. ASSUME NEW m \in Models, DeletePrice(m) PROVE EmptyHanded'
  BY <1>7 DEF DeletePrice, Deleted
<1>8. ASSUME NEW m \in Models, NEW S \in SUBSET Channels, NEW v \in OffOn, UpsertPrice(m, v, S)
      PROVE  EmptyHanded'
  BY <1>8 DEF UpsertPrice, OffOn, Rebound
<1>9. ASSUME NEW m \in Models, NEW S \in SUBSET Channels, NEW s \in Syncs, SyncWrite(s, m, S)
      PROVE  EmptyHanded'
  BY <1>9 DEF SyncWrite, Rebound, Imported
<1>10. CASE Tick
  <2>1. UNCHANGED at /\ \A r \in Readers, c \in Channels : got'[r][c].st = got[r][c].st
    BY <1>10, TickEffect
  <2> QED
    BY <2>1, ZenonT(20)
<1>11. ASSUME NEW k \in Conns, NEW S \in SUBSET Names, Shift(k, S)
      PROVE  EmptyHanded'
  BY <1>11 DEF Shift
<1>12. ASSUME NEW r \in Readers, NEW c \in Channels, UseCache(r, c)
      PROVE  EmptyHanded'
  BY <1>12 DEF UseCache
<1>13. ASSUME NEW r \in Readers, NEW c \in Channels, Probe(r, c)
      PROVE  EmptyHanded'
  BY <1>13 DEF Probe
<1>14. ASSUME NEW r \in Readers, NEW c \in Channels, ProbeReturns(r, c)
      PROVE  EmptyHanded'
  BY <1>14 DEF ProbeReturns
<1>15. ASSUME NEW r \in Routers, ReadBound(r) PROVE EmptyHanded'
  <2>1. Blank.st = "none"
    BY DEF Blank
  <2>2. ASSUME NEW q \in Readers, q # r PROVE got'[q] = got[q] /\ at'[q] = at[q]
    BY <1>15, <2>2, ReadBoundEffect
  <2>3. /\ at'[r] \in {"over", "probe", "restricted"} /\ at[r] \in {"idle", "any"}
        /\ at'[r] = "over" => \A c \in Channels : got'[r][c] = Blank
        /\ at'[r] = "restricted" => got'[r] = got[r] /\ at[r] = "idle"
    BY <1>15, ReadBoundEffect
  <2>4. ASSUME NEW q \in Readers, at'[q] \in {"idle", "restricted", "routed", "over"}, NEW c \in Channels
        PROVE  got'[q][c].st = "none"
    <3>1. CASE q # r
      BY <2>2, <2>4, <3>1
    <3>2. CASE q = r
      BY <2>1, <2>3, <2>4, <3>2
    <3> QED
      BY <3>1, <3>2
  <2> QED
    BY <2>4
<1>16. ASSUME NEW r \in Routers, ReadRestricted(r) PROVE EmptyHanded'
  BY <1>16 DEF ReadRestricted
<1>17. ASSUME NEW r \in Routers, ReadAny(r) PROVE EmptyHanded'
  <2>1. Blank.st = "none"
    BY DEF Blank
  <2>2. ASSUME NEW q \in Readers, q # r PROVE got'[q] = got[q] /\ at'[q] = at[q]
    BY <1>17, <2>2, ReadAnyEffect
  <2>3. /\ at'[r] \in {"over", "probe", "restricted"} /\ at[r] \in {"idle", "any"}
        /\ at'[r] = "over" => \A c \in Channels : got'[r][c] = Blank
        /\ at'[r] = "restricted" => got'[r] = got[r] /\ at[r] = "idle"
    BY <1>17, ReadAnyEffect
  <2>4. ASSUME NEW q \in Readers, at'[q] \in {"idle", "restricted", "routed", "over"}, NEW c \in Channels
        PROVE  got'[q][c].st = "none"
    <3>1. CASE q # r
      BY <2>2, <2>4, <3>1
    <3>2. CASE q = r
      BY <2>1, <2>3, <2>4, <3>2
    <3> QED
      BY <3>1, <3>2
  <2> QED
    BY <2>4
<1>18. ASSUME NEW r \in Routers, Route(r) PROVE EmptyHanded'
  BY <1>18 DEF Route
<1>19. ASSUME NEW r \in Pruners, ReadPrices(r) PROVE EmptyHanded'
  BY <1>19 DEF ReadPrices
<1>20. ASSUME NEW r \in Pruners, ReadChannels(r) PROVE EmptyHanded'
  BY <1>20 DEF ReadChannels
<1>21. ASSUME NEW r \in Pruners, ReadBindings(r) PROVE EmptyHanded'
  BY <1>21 DEF ReadBindings
<1>22. ASSUME NEW r \in Pruners, PrunePrices(r) PROVE EmptyHanded'
  BY <1>22 DEF PrunePrices, Deleted
<1>23. ASSUME NEW s \in Syncs, SyncRead(s) PROVE EmptyHanded'
  BY <1>23 DEF SyncRead
<1>24. ASSUME NEW s \in Syncs, SyncEnds(s) PROVE EmptyHanded'
  BY <1>24 DEF SyncEnds
<1>25. CASE UNCHANGED channelsVars
  BY <1>25 DEF channelsVars
<1> QED
  BY ONLY [ChannelsNext]_channelsVars, <1>1, <1>2, <1>3, <1>4, <1>5, <1>6, <1>7, <1>8, <1>9, <1>10, <1>11,
     <1>12, <1>13, <1>14, <1>15, <1>16, <1>17, <1>18, <1>19, <1>20, <1>21,
     <1>22, <1>23, <1>24, <1>25, Zenon
  DEF ChannelsNext, EditStep, PriceStep, OffOn

LEMMA CachedFreshKept ==
    ASSUME ChannelsTyped, CachedFresh, AnswerFresh, [ChannelsNext]_channelsVars
    PROVE  CachedFresh'
<1> USE ChannelNats DEF ChannelsTyped, ChannelLists, ChannelCatalogs, ChannelLocals, CachedFresh,
        Recent, NoEntry, channelsVars, tables, upstream, reading, imports, verdicts, Edit,
        Untouched, Still, Quiet, Reads, Apart, Got, Step, Forgets
<1>1. ASSUME NEW c \in Channels, SwitchChannel(c) PROVE CachedFresh'
  BY <1>1 DEF SwitchChannel
<1>2. ASSUME NEW c \in Channels, DeleteChannel(c) PROVE CachedFresh'
  BY <1>2 DEF DeleteChannel
<1>3. ASSUME NEW c \in Channels, InvalidateCatalog(c) PROVE CachedFresh'
  BY <1>3 DEF InvalidateCatalog
<1>4. ASSUME NEW c \in Channels, NEW k \in Conns, CreateChannel(c, k)
      PROVE  CachedFresh'
  BY <1>4 DEF CreateChannel
<1>5. ASSUME NEW c \in Channels, NEW k \in Conns, MoveChannel(c, k)
      PROVE  CachedFresh'
  BY <1>5 DEF MoveChannel
<1>6. ASSUME NEW c \in Channels, NEW m \in Models, NEW n \in Names, BindChannel(c, m, n)
      PROVE  CachedFresh'
  BY <1>6 DEF BindChannel
<1>7. ASSUME NEW m \in Models, DeletePrice(m) PROVE CachedFresh'
  BY <1>7 DEF DeletePrice, Deleted
<1>8. ASSUME NEW m \in Models, NEW S \in SUBSET Channels, NEW v \in OffOn, UpsertPrice(m, v, S)
      PROVE  CachedFresh'
  BY <1>8 DEF UpsertPrice, OffOn, Rebound
<1>9. ASSUME NEW m \in Models, NEW S \in SUBSET Channels, NEW s \in Syncs, SyncWrite(s, m, S)
      PROVE  CachedFresh'
  BY <1>9 DEF SyncWrite, Rebound, Imported
<1>10. CASE Tick
  <2>1. SUFFICES ASSUME NEW c \in Channels, cache'[c].conn \in Conns, cache'[c].ok, cache'[c].age < Ttl, NEW n \in cache'[c].names
                 PROVE  n \in offers'[cache'[c].conn] \/ gone'[cache'[c].conn][n] <= cache'[c].age + Limit
    BY DEF Recent
  <2>2. /\ cache'[c].conn = cache[c].conn /\ cache'[c].names = cache[c].names /\ cache[c].ok
        /\ cache'[c].age = Older(cache[c].age, Ttl)
    BY <1>10, <2>1, TickEffect
  <2>3. cache[c].age \in 0..Ttl /\ cache[c].names \subseteq Names
    BY DEF Cached
  <2>4. cache[c].age < Ttl /\ cache'[c].age = cache[c].age + 1
    BY <2>1, <2>2, <2>3 DEF Older
  <2>5. Recent(cache[c].conn, n, cache[c].age + Limit)
    BY <2>1, <2>2, <2>4 DEF CachedFresh
  <2>6. cache[c].age + Limit \in Nat
    BY <2>3
  <2> DEFINE b == cache[c].age + Limit
  <2>7. n \in offers'[cache[c].conn] \/ gone'[cache[c].conn][n] <= b + 1
    <3> HIDE DEF b
    <3>1. Recent(cache[c].conn, n, b) /\ b \in Nat /\ cache[c].conn \in Conns /\ n \in Names
      BY <2>1, <2>2, <2>3, <2>5, <2>6 DEF b
    <3> QED
      BY <1>10, <3>1, RecentLater
  <2> QED
    BY <2>2, <2>3, <2>4, <2>7
<1>11. ASSUME NEW k \in Conns, NEW S \in SUBSET Names, Shift(k, S) PROVE CachedFresh'
  <2>1. UNCHANGED cache
    BY <1>11 DEF Shift
  <2>2. SUFFICES ASSUME NEW c \in Channels, cache[c].conn \in Conns, cache[c].ok, cache[c].age < Ttl, NEW n \in cache[c].names
                 PROVE  n \in offers'[cache[c].conn] \/ gone'[cache[c].conn][n] <= cache[c].age + Limit
    BY <2>1 DEF Recent
  <2> DEFINE b == cache[c].age + Limit
  <2>3. b \in Nat /\ n \in Names /\ Recent(cache[c].conn, n, b)
    BY <2>2 DEF Cached, CachedFresh
  <2> HIDE DEF b
  <2>4. n \in offers'[cache[c].conn] \/ gone'[cache[c].conn][n] <= b
    BY <1>11, <2>2, <2>3, RecentShifted
  <2> QED
    BY <2>4 DEF b
<1>12. ASSUME NEW r \in Readers, NEW c \in Channels, UseCache(r, c)
      PROVE  CachedFresh'
  BY <1>12 DEF UseCache
<1>13. ASSUME NEW r \in Readers, NEW c \in Channels, Probe(r, c)
      PROVE  CachedFresh'
  BY <1>13 DEF Probe
<1>14. ASSUME NEW r \in Readers, NEW c \in Channels, ProbeReturns(r, c) PROVE CachedFresh'
  <2> DEFINE e == [conn |-> with[r][c], age |-> 0, ok |-> got[r][c].ok, names |-> got[r][c].names, ver |-> got[r][c].ver]
  <2>1. cache' = [cache EXCEPT ![c] = e] /\ UNCHANGED <<offers, gone>> /\ got[r][c].st = "out"
    BY <1>14 DEF ProbeReturns
  <2>2. got[r][c] \in Catalogs /\ with[r][c] \in Conns
    OBVIOUS
  <2>3. ASSUME e.ok, NEW n \in e.names PROVE Recent(e.conn, n, e.age + Limit)
    <3>1. Recent(with[r][c], n, got[r][c].age) /\ got[r][c].age <= Limit
      BY <2>1, <2>3 DEF AnswerFresh
    <3>2. got[r][c].age \in Nat /\ n \in Names
      BY <2>2, <2>3 DEF Catalogs
    <3>3. gone[with[r][c]][n] \in Nat
      BY <2>2, <3>2 DEF ChannelLists
    <3> QED
      BY <3>1, <3>2, <3>3 DEF Recent
  <2> HIDE DEF e
  <2> QED
    BY <2>1, <2>3 DEF Recent
<1>15. ASSUME NEW r \in Routers, ReadBound(r) PROVE CachedFresh'
  BY <1>15 DEF ReadBound, Asking, SentAs, BoundRows
<1>16. ASSUME NEW r \in Routers, ReadRestricted(r) PROVE CachedFresh'
  BY <1>16 DEF ReadRestricted
<1>17. ASSUME NEW r \in Routers, ReadAny(r) PROVE CachedFresh'
  BY <1>17 DEF ReadAny, Asking, SentAs
<1>18. ASSUME NEW r \in Routers, Route(r) PROVE CachedFresh'
  BY <1>18 DEF Route
<1>19. ASSUME NEW r \in Pruners, ReadPrices(r) PROVE CachedFresh'
  BY <1>19 DEF ReadPrices
<1>20. ASSUME NEW r \in Pruners, ReadChannels(r) PROVE CachedFresh'
  BY <1>20 DEF ReadChannels
<1>21. ASSUME NEW r \in Pruners, ReadBindings(r) PROVE CachedFresh'
  BY <1>21 DEF ReadBindings
<1>22. ASSUME NEW r \in Pruners, PrunePrices(r) PROVE CachedFresh'
  BY <1>22 DEF PrunePrices, Deleted
<1>23. ASSUME NEW s \in Syncs, SyncRead(s) PROVE CachedFresh'
  BY <1>23 DEF SyncRead
<1>24. ASSUME NEW s \in Syncs, SyncEnds(s) PROVE CachedFresh'
  BY <1>24 DEF SyncEnds
<1>25. CASE UNCHANGED channelsVars
  BY <1>25 DEF channelsVars
<1> QED
  BY ONLY [ChannelsNext]_channelsVars, <1>1, <1>2, <1>3, <1>4, <1>5, <1>6, <1>7, <1>8, <1>9, <1>10, <1>11,
     <1>12, <1>13, <1>14, <1>15, <1>16, <1>17, <1>18, <1>19, <1>20, <1>21,
     <1>22, <1>23, <1>24, <1>25, Zenon
  DEF ChannelsNext, EditStep, PriceStep, OffOn

LEMMA AnswerFreshKept ==
    ASSUME ChannelsTyped, AnswerFresh, [ChannelsNext]_channelsVars
    PROVE  AnswerFresh'
<1> USE ChannelNats DEF ChannelsTyped, ChannelLists, ChannelCatalogs, ChannelLocals, AnswerFresh,
        Recent, Blank, channelsVars, tables, upstream, reading, imports, verdicts, Edit, Untouched,
        Still, Quiet, Reads, Apart, Got, Step, Forgets
<1>1. ASSUME NEW c \in Channels, SwitchChannel(c) PROVE AnswerFresh'
  BY <1>1 DEF SwitchChannel
<1>2. ASSUME NEW c \in Channels, DeleteChannel(c) PROVE AnswerFresh'
  BY <1>2 DEF DeleteChannel
<1>3. ASSUME NEW c \in Channels, InvalidateCatalog(c) PROVE AnswerFresh'
  BY <1>3 DEF InvalidateCatalog
<1>4. ASSUME NEW c \in Channels, NEW k \in Conns, CreateChannel(c, k)
      PROVE  AnswerFresh'
  BY <1>4 DEF CreateChannel
<1>5. ASSUME NEW c \in Channels, NEW k \in Conns, MoveChannel(c, k)
      PROVE  AnswerFresh'
  BY <1>5 DEF MoveChannel
<1>6. ASSUME NEW c \in Channels, NEW m \in Models, NEW n \in Names, BindChannel(c, m, n)
      PROVE  AnswerFresh'
  BY <1>6 DEF BindChannel
<1>7. ASSUME NEW m \in Models, DeletePrice(m) PROVE AnswerFresh'
  BY <1>7 DEF DeletePrice, Deleted
<1>8. ASSUME NEW m \in Models, NEW S \in SUBSET Channels, NEW v \in OffOn, UpsertPrice(m, v, S)
      PROVE  AnswerFresh'
  BY <1>8 DEF UpsertPrice, OffOn, Rebound
<1>9. ASSUME NEW m \in Models, NEW S \in SUBSET Channels, NEW s \in Syncs, SyncWrite(s, m, S)
      PROVE  AnswerFresh'
  BY <1>9 DEF SyncWrite, Rebound, Imported
<1>10. CASE Tick
  <2>1. SUFFICES ASSUME NEW r \in Readers, NEW c \in Channels, got'[r][c].st = "out"
                 PROVE  /\ got'[r][c].age <= Limit
                        /\ got'[r][c].ok => \A n \in got'[r][c].names :
                               n \in offers'[with'[r][c]] \/ gone'[with'[r][c]][n] <= got'[r][c].age
    BY DEF Recent
  <2>2. /\ got'[r][c].st = got[r][c].st /\ got'[r][c].names = got[r][c].names /\ (got'[r][c].ok <=> got[r][c].ok)
        /\ got'[r][c].age = got[r][c].age + 1 /\ with' = with
    BY <1>10, <2>1, TickEffect
  <2>3. got[r][c].age < Limit /\ got[r][c].age \in Nat /\ with[r][c] \in Conns /\ got[r][c].names \subseteq Names
    BY <1>10, <2>1, <2>2 DEF Tick, Catalogs
  <2>4. ASSUME got[r][c].ok, NEW n \in got[r][c].names
        PROVE  n \in offers'[with[r][c]] \/ gone'[with[r][c]][n] <= got[r][c].age + 1
    <3>1. Recent(with[r][c], n, got[r][c].age)
      BY <2>1, <2>2, <2>4 DEF AnswerFresh
    <3> QED
      BY <1>10, <2>3, <2>4, <3>1, RecentLater
  <2> QED
    BY <2>2, <2>3, <2>4
<1>11. ASSUME NEW k \in Conns, NEW S \in SUBSET Names, Shift(k, S) PROVE AnswerFresh'
  <2>1. UNCHANGED <<got, with>>
    BY <1>11 DEF Shift, Still, reading
  <2>2. SUFFICES ASSUME NEW r \in Readers, NEW c \in Channels, got[r][c].st = "out", got[r][c].ok, NEW n \in got[r][c].names
                 PROVE  n \in offers'[with[r][c]] \/ gone'[with[r][c]][n] <= got[r][c].age
    BY <2>1 DEF Recent, AnswerFresh
  <2>3. got[r][c].age \in Nat /\ n \in Names /\ with[r][c] \in Conns /\ Recent(with[r][c], n, got[r][c].age)
    BY <2>2 DEF Catalogs, AnswerFresh
  <2> QED
    BY <1>11, <2>3, RecentShifted
<1>12. ASSUME NEW r \in Readers, NEW c \in Channels, UseCache(r, c)
      PROVE  AnswerFresh'
  BY <1>12 DEF UseCache
<1>13. ASSUME NEW r \in Readers, NEW c \in Channels, Probe(r, c) PROVE AnswerFresh'
  <2>1. PICK ok \in BOOLEAN :
            got' = [got EXCEPT ![r][c] = [st |-> "out", ok |-> ok, names |-> IF ok THEN offers[with[r][c]] ELSE {},
                                         ver |-> shifts, age |-> 0]]
    BY <1>13 DEF Probe
  <2> DEFINE e == [st |-> "out", ok |-> ok, names |-> IF ok THEN offers[with[r][c]] ELSE {}, ver |-> shifts, age |-> 0]
  <2>2. e.age = 0 /\ e.names \subseteq offers[with[r][c]]
    OBVIOUS
  <2>3. got' = [got EXCEPT ![r][c] = e] /\ UNCHANGED <<offers, gone, with>>
    BY <1>13, <2>1 DEF Probe
  <2> HIDE DEF e
  <2> QED
    BY <2>2, <2>3 DEF Recent
<1>14. ASSUME NEW r \in Readers, NEW c \in Channels, ProbeReturns(r, c)
      PROVE  AnswerFresh'
  BY <1>14 DEF ProbeReturns
<1>15. ASSUME NEW r \in Routers, ReadBound(r) PROVE AnswerFresh'
  <2>1. UNCHANGED <<offers, gone>>
    BY <1>15, ReadBoundEffect
  <2>2. ASSUME NEW q \in Readers, q # r PROVE got'[q] = got[q] /\ with'[q] = with[q] /\ at'[q] = at[q]
    BY <1>15, <2>2, ReadBoundEffect
  <2>3. ASSUME NEW c \in Channels
        PROVE  (got'[r][c] = got[r][c] /\ with'[r][c] = with[r][c]) \/ got'[r][c].st \in {"none", "todo"}
    <3>1. Blank.st = "none" /\ [Blank EXCEPT !.st = "todo"].st = "todo"
      BY DEF Blank
    <3>2. (got'[r][c] = got[r][c] /\ with'[r][c] = with[r][c]) \/ got'[r][c] = Blank \/ got'[r][c] = [Blank EXCEPT !.st = "todo"]
      BY <1>15, ReadBoundEffect, SMTT(20)
    <3> QED
      BY <3>1, <3>2
  <2> QED
    <3> SUFFICES ASSUME NEW q \in Readers, NEW c \in Channels, got'[q][c].st = "out"
                 PROVE  /\ got'[q][c].age <= Limit
                        /\ got'[q][c].ok => \A n \in got'[q][c].names :
                               n \in offers'[with'[q][c]] \/ gone'[with'[q][c]][n] <= got'[q][c].age
      BY DEF AnswerFresh, Recent
    <3>1. got'[q][c] = got[q][c] /\ with'[q][c] = with[q][c]
      BY <2>2, <2>3
    <3> QED
      BY ONLY <2>1, <3>1, AnswerFresh, q \in Readers, c \in Channels, got'[q][c].st = "out"
      DEF AnswerFresh, Recent
<1>16. ASSUME NEW r \in Routers, ReadRestricted(r) PROVE AnswerFresh'
  BY <1>16 DEF ReadRestricted
<1>17. ASSUME NEW r \in Routers, ReadAny(r) PROVE AnswerFresh'
  <2>1. UNCHANGED <<offers, gone>>
    BY <1>17, ReadAnyEffect
  <2>2. ASSUME NEW q \in Readers, q # r PROVE got'[q] = got[q] /\ with'[q] = with[q] /\ at'[q] = at[q]
    BY <1>17, <2>2, ReadAnyEffect
  <2>3. ASSUME NEW c \in Channels
        PROVE  (got'[r][c] = got[r][c] /\ with'[r][c] = with[r][c]) \/ got'[r][c].st \in {"none", "todo"}
    <3>1. Blank.st = "none" /\ [Blank EXCEPT !.st = "todo"].st = "todo"
      BY DEF Blank
    <3>2. (got'[r][c] = got[r][c] /\ with'[r][c] = with[r][c]) \/ got'[r][c] = Blank \/ got'[r][c] = [Blank EXCEPT !.st = "todo"]
      BY <1>17, ReadAnyEffect, SMTT(20)
    <3> QED
      BY <3>1, <3>2
  <2> QED
    <3> SUFFICES ASSUME NEW q \in Readers, NEW c \in Channels, got'[q][c].st = "out"
                 PROVE  /\ got'[q][c].age <= Limit
                        /\ got'[q][c].ok => \A n \in got'[q][c].names :
                               n \in offers'[with'[q][c]] \/ gone'[with'[q][c]][n] <= got'[q][c].age
      BY DEF AnswerFresh, Recent
    <3>1. got'[q][c] = got[q][c] /\ with'[q][c] = with[q][c]
      BY <2>2, <2>3
    <3> QED
      BY ONLY <2>1, <3>1, AnswerFresh, q \in Readers, c \in Channels, got'[q][c].st = "out"
      DEF AnswerFresh, Recent
<1>18. ASSUME NEW r \in Routers, Route(r) PROVE AnswerFresh'
  BY <1>18 DEF Route
<1>19. ASSUME NEW r \in Pruners, ReadPrices(r) PROVE AnswerFresh'
  BY <1>19 DEF ReadPrices
<1>20. ASSUME NEW r \in Pruners, ReadChannels(r) PROVE AnswerFresh'
  BY <1>20 DEF ReadChannels
<1>21. ASSUME NEW r \in Pruners, ReadBindings(r) PROVE AnswerFresh'
  BY <1>21 DEF ReadBindings
<1>22. ASSUME NEW r \in Pruners, PrunePrices(r) PROVE AnswerFresh'
  BY <1>22 DEF PrunePrices, Deleted
<1>23. ASSUME NEW s \in Syncs, SyncRead(s) PROVE AnswerFresh'
  BY <1>23 DEF SyncRead
<1>24. ASSUME NEW s \in Syncs, SyncEnds(s) PROVE AnswerFresh'
  BY <1>24 DEF SyncEnds
<1>25. CASE UNCHANGED channelsVars
  BY <1>25 DEF channelsVars
<1> QED
  BY ONLY [ChannelsNext]_channelsVars, <1>1, <1>2, <1>3, <1>4, <1>5, <1>6, <1>7, <1>8, <1>9, <1>10, <1>11,
     <1>12, <1>13, <1>14, <1>15, <1>16, <1>17, <1>18, <1>19, <1>20, <1>21,
     <1>22, <1>23, <1>24, <1>25, Zenon
  DEF ChannelsNext, EditStep, PriceStep, OffOn

LEMMA HeldFreshKept ==
    ASSUME ChannelsTyped, EmptyHanded, CachedFresh, AnswerFresh, HeldFresh, [ChannelsNext]_channelsVars
    PROVE  HeldFresh'
<1> USE ChannelNats DEF ChannelsTyped, ChannelLists, ChannelCatalogs, ChannelLocals, HeldFresh,
        Recent, Blank, channelsVars, tables, upstream, reading, imports, verdicts, Edit, Untouched,
        Still, Quiet, Reads, Apart, Got, Step, Forgets
<1>1. ASSUME NEW c \in Channels, SwitchChannel(c) PROVE HeldFresh'
  BY <1>1 DEF SwitchChannel
<1>2. ASSUME NEW c \in Channels, DeleteChannel(c) PROVE HeldFresh'
  BY <1>2 DEF DeleteChannel
<1>3. ASSUME NEW c \in Channels, InvalidateCatalog(c) PROVE HeldFresh'
  BY <1>3 DEF InvalidateCatalog
<1>4. ASSUME NEW c \in Channels, NEW k \in Conns, CreateChannel(c, k)
      PROVE  HeldFresh'
  BY <1>4 DEF CreateChannel
<1>5. ASSUME NEW c \in Channels, NEW k \in Conns, MoveChannel(c, k)
      PROVE  HeldFresh'
  BY <1>5 DEF MoveChannel
<1>6. ASSUME NEW c \in Channels, NEW m \in Models, NEW n \in Names, BindChannel(c, m, n)
      PROVE  HeldFresh'
  BY <1>6 DEF BindChannel
<1>7. ASSUME NEW m \in Models, DeletePrice(m) PROVE HeldFresh'
  BY <1>7 DEF DeletePrice, Deleted
<1>8. ASSUME NEW m \in Models, NEW S \in SUBSET Channels, NEW v \in OffOn, UpsertPrice(m, v, S)
      PROVE  HeldFresh'
  BY <1>8 DEF UpsertPrice, OffOn, Rebound
<1>9. ASSUME NEW m \in Models, NEW S \in SUBSET Channels, NEW s \in Syncs, SyncWrite(s, m, S)
      PROVE  HeldFresh'
  BY <1>9 DEF SyncWrite, Rebound, Imported
<1>10. CASE Tick
  <2>1. SUFFICES ASSUME NEW r \in Readers, NEW c \in Channels, got'[r][c].st = "in", got'[r][c].ok, NEW n \in got'[r][c].names
                 PROVE  /\ n \in offers'[with'[r][c]] \/ gone'[with'[r][c]][n] <= Ttl + 2 * Limit
                        /\ \A d \in Channels :
                              /\ got'[r][d].st = "todo" =>
                                     n \in offers'[with'[r][c]] \/ gone'[with'[r][c]][n] <= Ttl + Limit
                              /\ got'[r][d].st = "out" =>
                                     n \in offers'[with'[r][c]] \/ gone'[with'[r][c]][n] <= Ttl + Limit + got'[r][d].age
    BY DEF Recent
  <2>2. got[r][c].st = "in" /\ got[r][c].ok /\ n \in got[r][c].names /\ with' = with
    BY <1>10, <2>1, TickEffect
  <2>3. ASSUME NEW d \in Channels
        PROVE  got'[r][d].st = got[r][d].st /\ (got[r][d].st = "out" => got'[r][d].age = got[r][d].age + 1)
    BY <1>10, TickEffect
  <2>4. n \in Names /\ with[r][c] \in Conns
    BY <2>2 DEF Catalogs
  <2>5. ASSUME NEW d \in Channels, got[r][d].st = "out"
        PROVE  /\ n \in offers'[with[r][c]] \/ gone'[with[r][c]][n] <= Ttl + Limit + got[r][d].age + 1
               /\ got[r][d].age \in Nat /\ got[r][d].age < Limit
    <3> DEFINE b == Ttl + Limit + got[r][d].age
    <3>1. got[r][d].age \in Nat /\ got[r][d].age < Limit
      BY <1>10, <2>5 DEF Tick, Catalogs
    <3>2. b \in Nat /\ Recent(with[r][c], n, b)
      BY <2>2, <2>5, <3>1 DEF HeldFresh
    <3> HIDE DEF b
    <3>3. n \in offers'[with[r][c]] \/ gone'[with[r][c]][n] <= b + 1
      BY <1>10, <2>4, <3>2, RecentLater
    <3> QED
      BY <3>1, <3>3 DEF b
  <2>6. PICK d \in Channels : got[r][d].st = "out"
    <3>1. at[r] \notin {"idle", "restricted", "routed", "over"}
      BY <2>2 DEF EmptyHanded
    <3>2. Waiting(r)
      BY <1>10, <3>1 DEF Tick
    <3> QED
      BY <3>2 DEF Waiting
  <2>7. gone'[with[r][c]][n] \in Nat
    <3>1. gone'[with[r][c]][n] = Older(gone[with[r][c]][n], LongAgo) /\ gone[with[r][c]][n] \in Nat
      BY <1>10, <2>4, TickEffect DEF ChannelLists
    <3> QED
      BY <3>1 DEF Older
  <2>8. \A x \in Channels : got[r][x].st # "todo"
    <3>1. \A p \in Readers, x \in Channels :
              got[p][x].st # "todo" /\ (got[p][x].st = "out" => got[p][x].age < Limit)
      BY <1>10 DEF Tick
    <3> QED
      BY <3>1
  <2>9. n \in offers'[with[r][c]] \/ gone'[with[r][c]][n] <= Ttl + 2 * Limit
    <3>1. /\ n \in offers'[with[r][c]] \/ gone'[with[r][c]][n] <= Ttl + Limit + got[r][d].age + 1
          /\ got[r][d].age \in Nat /\ got[r][d].age < Limit
      BY <2>5, <2>6
    <3> DEFINE g == gone'[with[r][c]][n]  a == got[r][d].age
    <3>2. g \in Nat /\ a \in Nat /\ a < Limit /\ (n \in offers'[with[r][c]] \/ g <= Ttl + Limit + a + 1)
      BY <2>7, <3>1
    <3> HIDE DEF g, a
    <3>3. n \in offers'[with[r][c]] \/ g <= Ttl + 2 * Limit
      BY <3>2
    <3> QED
      BY <3>3 DEF g
  <2>10. ASSUME NEW x \in Channels
        PROVE  /\ got'[r][x].st # "todo"
               /\ got'[r][x].st = "out" =>
                      n \in offers'[with[r][c]] \/ gone'[with[r][c]][n] <= Ttl + Limit + got'[r][x].age
    <3>1. got'[r][x].st # "todo"
      BY <2>3, <2>8
    <3>2. ASSUME got'[r][x].st = "out"
          PROVE  n \in offers'[with[r][c]] \/ gone'[with[r][c]][n] <= Ttl + Limit + got'[r][x].age
      <4>1. got[r][x].st = "out" /\ got'[r][x].age = got[r][x].age + 1
        BY <2>3, <3>2
      <4>2. /\ n \in offers'[with[r][c]] \/ gone'[with[r][c]][n] <= Ttl + Limit + got[r][x].age + 1
            /\ got[r][x].age \in Nat
        BY <2>5, <4>1
      <4>3. Ttl + Limit + got[r][x].age + 1 = Ttl + Limit + got'[r][x].age
        BY <4>1, <4>2
      <4> QED
        BY <4>2, <4>3
    <3> QED
      BY <3>1, <3>2
  <2> QED
    BY <2>2, <2>9, <2>10
<1>11. ASSUME NEW k \in Conns, NEW S \in SUBSET Names, Shift(k, S) PROVE HeldFresh'
  <2>1. UNCHANGED <<got, with>>
    BY <1>11 DEF Shift, Still, reading
  <2>2. SUFFICES ASSUME NEW r \in Readers, NEW c \in Channels, got[r][c].st = "in", got[r][c].ok, NEW n \in got[r][c].names
                 PROVE  /\ Recent(with[r][c], n, Ttl + 2 * Limit)'
                        /\ \A d \in Channels :
                              /\ got[r][d].st = "todo" => Recent(with[r][c], n, Ttl + Limit)'
                              /\ got[r][d].st = "out" => Recent(with[r][c], n, Ttl + Limit + got[r][d].age)'
    BY <2>1
  <2>3. n \in Names /\ with[r][c] \in Conns
    BY <2>2 DEF Catalogs
  <2>4. ASSUME NEW b \in Nat, Recent(with[r][c], n, b) PROVE n \in offers'[with[r][c]] \/ gone'[with[r][c]][n] <= b
    BY <1>11, <2>3, <2>4, RecentShifted
  <2>5. Recent(with[r][c], n, Ttl + 2 * Limit)'
    BY <2>1, <2>2, <2>4, Ttl + 2 * Limit \in Nat DEF HeldFresh, Recent
  <2>6. ASSUME NEW d \in Channels, got[r][d].st = "todo" PROVE Recent(with[r][c], n, Ttl + Limit)'
    BY <2>1, <2>2, <2>4, <2>6, Ttl + Limit \in Nat DEF HeldFresh, Recent
  <2>7. ASSUME NEW d \in Channels, got[r][d].st = "out" PROVE Recent(with[r][c], n, Ttl + Limit + got[r][d].age)'
    <3>1. got[r][d].age \in Nat
      BY DEF Catalogs
    <3>2. Ttl + Limit + got[r][d].age \in Nat
      BY <3>1
    <3> QED
      BY <2>1, <2>2, <2>4, <2>7, <3>2 DEF HeldFresh, Recent
  <2> QED
    BY <2>5, <2>6, <2>7
<1>12. ASSUME NEW r \in Readers, NEW c \in Channels, UseCache(r, c) PROVE HeldFresh'
  <2> DEFINE e == [st |-> "in", ok |-> cache[c].ok, names |-> cache[c].names, ver |-> cache[c].ver, age |-> 0]
  <2>1. /\ got' = [got EXCEPT ![r][c] = e] /\ UNCHANGED <<offers, gone, with>> /\ cache[c].conn = with[r][c]
        /\ cache[c].ok => cache[c].age < Ttl
    BY <1>12 DEF UseCache, Hit
  <2>2. cache[c].age \in Nat /\ cache[c].names \subseteq Names /\ with[r][c] \in Conns
    BY DEF Cached
  <2>3. e.st = "in"
    OBVIOUS
  <2>4. ASSUME e.ok, NEW n \in e.names PROVE Recent(with[r][c], n, Ttl + Limit)
    <3>1. Recent(with[r][c], n, cache[c].age + Limit) /\ cache[c].age < Ttl
      BY <2>1, <2>2, <2>4 DEF CachedFresh
    <3>2. gone[with[r][c]][n] \in Nat
      BY <2>2, <2>4 DEF ChannelLists
    <3> QED
      BY <2>2, <3>1, <3>2 DEF Recent
  <2>5. e.ok => e.names \subseteq Names
    BY <2>2
  <2> HIDE DEF e
  <2>6. UNCHANGED <<offers, gone, with>> /\ got' = [got EXCEPT ![r][c] = e]
    BY <2>1
  <2> HIDE DEF HeldFresh, Recent, ChannelsTyped, ChannelLists, ChannelCatalogs, ChannelLocals, Catalogs, Cached
  <2> QED
    BY <2>3, <2>4, <2>5, <2>6, HeldStep
<1>13. ASSUME NEW r \in Readers, NEW c \in Channels, Probe(r, c) PROVE HeldFresh'
  <2>1. PICK ok \in BOOLEAN :
            got' = [got EXCEPT ![r][c] = [st |-> "out", ok |-> ok, names |-> IF ok THEN offers[with[r][c]] ELSE {},
                                         ver |-> shifts, age |-> 0]]
    BY <1>13 DEF Probe
  <2> DEFINE e == [st |-> "out", ok |-> ok, names |-> IF ok THEN offers[with[r][c]] ELSE {}, ver |-> shifts, age |-> 0]
  <2>2. e.st = "out" /\ e.age = 0
    OBVIOUS
  <2>3. got' = [got EXCEPT ![r][c] = e] /\ UNCHANGED <<offers, gone, with>> /\ got[r][c].st = "todo"
    BY <1>13, <2>1 DEF Probe
  <2> HIDE DEF e
  <2>4. /\ \A q \in Readers, d \in Channels : (q # r \/ d # c) => got'[q][d] = got[q][d]
        /\ got'[r][c] = e
    BY <2>3
  <2>5. SUFFICES ASSUME NEW q \in Readers, NEW x \in Channels, got'[q][x].st = "in", got'[q][x].ok, NEW n \in got'[q][x].names
                 PROVE  /\ Recent(with[q][x], n, Ttl + 2 * Limit)
                        /\ \A d \in Channels :
                              /\ got'[q][d].st = "todo" => Recent(with[q][x], n, Ttl + Limit)
                              /\ got'[q][d].st = "out" => Recent(with[q][x], n, Ttl + Limit + got'[q][d].age)
    BY <2>3 DEF Recent
  <2>6. got'[q][x] = got[q][x]
    BY <2>2, <2>4, <2>5
  <2>7. CASE q = r
    <3>1. Recent(with[q][x], n, Ttl + Limit)
      BY <2>3, <2>5, <2>6, <2>7 DEF HeldFresh
    <3>2. Ttl + Limit + 0 = Ttl + Limit
      OBVIOUS
    <3>3. ASSUME NEW d \in Channels, got'[q][d].st = "out" PROVE Recent(with[q][x], n, Ttl + Limit + got'[q][d].age)
      <4>1. CASE d = c
        BY <2>2, <2>4, <2>7, <3>1, <3>2, <4>1
      <4>2. CASE d # c
        BY <2>4, <2>5, <2>6, <3>3, <4>2 DEF HeldFresh
      <4> QED
        BY <4>1, <4>2
    <3> QED
      BY <2>5, <2>6, <3>1, <3>3 DEF HeldFresh
  <2>8. CASE q # r
    BY <2>4, <2>5, <2>6, <2>8 DEF HeldFresh
  <2> QED
    BY <2>7, <2>8
<1>14. ASSUME NEW r \in Readers, NEW c \in Channels, ProbeReturns(r, c) PROVE HeldFresh'
  <2> DEFINE e == [got[r][c] EXCEPT !.st = "in", !.age = 0]
  <2>1. got' = [got EXCEPT ![r][c] = e] /\ UNCHANGED <<offers, gone, with>> /\ got[r][c].st = "out"
    BY <1>14 DEF ProbeReturns
  <2>2. got[r][c] \in Catalogs /\ with[r][c] \in Conns
    OBVIOUS
  <2>3. e.st = "in" /\ (e.ok <=> got[r][c].ok) /\ e.names = got[r][c].names /\ got[r][c].names \subseteq Names /\ got[r][c].age \in Nat
    BY <2>2 DEF Catalogs
  <2> HIDE DEF e
  <2>4. ASSUME e.ok, NEW n \in e.names PROVE Recent(with[r][c], n, Ttl + Limit)
    <3>1. Recent(with[r][c], n, got[r][c].age) /\ got[r][c].age <= Limit
      BY <2>1, <2>3, <2>4 DEF AnswerFresh
    <3>2. gone[with[r][c]][n] \in Nat
      BY <2>2, <2>3, <2>4 DEF ChannelLists
    <3> QED
      BY <2>3, <3>1, <3>2 DEF Recent
  <2>5. e.ok => e.names \subseteq Names
    BY <2>3
  <2>6. UNCHANGED <<offers, gone, with>> /\ got' = [got EXCEPT ![r][c] = e]
    BY <2>1
  <2> HIDE DEF HeldFresh, Recent, ChannelsTyped, ChannelLists, ChannelCatalogs, ChannelLocals, Catalogs, Cached
  <2> QED
    BY <2>3, <2>4, <2>5, <2>6, HeldStep
<1>15. ASSUME NEW r \in Routers, ReadBound(r) PROVE HeldFresh'
  <2>1. UNCHANGED <<offers, gone>>
    BY <1>15, ReadBoundEffect
  <2>2. ASSUME NEW q \in Readers, q # r PROVE got'[q] = got[q] /\ with'[q] = with[q] /\ at'[q] = at[q]
    BY <1>15, <2>2, ReadBoundEffect
  <2>3. ASSUME NEW c \in Channels
        PROVE  (got'[r][c] = got[r][c] /\ with'[r][c] = with[r][c]) \/ got'[r][c].st \in {"none", "todo"}
    <3>1. Blank.st = "none" /\ [Blank EXCEPT !.st = "todo"].st = "todo"
      BY DEF Blank
    <3>2. (got'[r][c] = got[r][c] /\ with'[r][c] = with[r][c]) \/ got'[r][c] = Blank \/ got'[r][c] = [Blank EXCEPT !.st = "todo"]
      BY <1>15, ReadBoundEffect, SMTT(20)
    <3> QED
      BY <3>1, <3>2
  <2>4. ASSUME NEW q \in Readers, q = r, NEW c \in Channels PROVE got'[q][c].st # "in"
    <3>1. Blank.st = "none" /\ [Blank EXCEPT !.st = "todo"].st = "todo"
      BY DEF Blank
    <3>2. at[r] = "idle" => got[r][c].st = "none"
      BY DEF EmptyHanded
    <3>3. (got'[r][c] = got[r][c] /\ at[r] = "idle") \/ got'[r][c] = Blank \/ got'[r][c] = [Blank EXCEPT !.st = "todo"]
      BY <1>15, ReadBoundEffect, SMTT(20)
    <3> QED
      BY <2>4, <3>1, <3>2, <3>3
  <2>5. SUFFICES ASSUME NEW q \in Readers, NEW x \in Channels, got'[q][x].st = "in", got'[q][x].ok, NEW n \in got'[q][x].names
                 PROVE  /\ Recent(with'[q][x], n, Ttl + 2 * Limit)
                        /\ \A d \in Channels :
                              /\ got'[q][d].st = "todo" => Recent(with'[q][x], n, Ttl + Limit)
                              /\ got'[q][d].st = "out" => Recent(with'[q][x], n, Ttl + Limit + got'[q][d].age)
    BY <2>1 DEF Recent
  <2>6. got'[q] = got[q] /\ with'[q] = with[q]
    BY <2>2, <2>4, <2>5
  <2> QED
    BY <2>5, <2>6 DEF HeldFresh
<1>16. ASSUME NEW r \in Routers, ReadRestricted(r) PROVE HeldFresh'
  BY <1>16 DEF ReadRestricted
<1>17. ASSUME NEW r \in Routers, ReadAny(r) PROVE HeldFresh'
  <2>1. UNCHANGED <<offers, gone>>
    BY <1>17, ReadAnyEffect
  <2>2. ASSUME NEW q \in Readers, q # r PROVE got'[q] = got[q] /\ with'[q] = with[q] /\ at'[q] = at[q]
    BY <1>17, <2>2, ReadAnyEffect
  <2>3. ASSUME NEW c \in Channels
        PROVE  (got'[r][c] = got[r][c] /\ with'[r][c] = with[r][c]) \/ got'[r][c].st \in {"none", "todo"}
    <3>1. Blank.st = "none" /\ [Blank EXCEPT !.st = "todo"].st = "todo"
      BY DEF Blank
    <3>2. (got'[r][c] = got[r][c] /\ with'[r][c] = with[r][c]) \/ got'[r][c] = Blank \/ got'[r][c] = [Blank EXCEPT !.st = "todo"]
      BY <1>17, ReadAnyEffect, SMTT(20)
    <3> QED
      BY <3>1, <3>2
  <2>4. ASSUME NEW q \in Readers, q = r, NEW c \in Channels PROVE got'[q][c].st # "in"
    <3>1. Blank.st = "none" /\ [Blank EXCEPT !.st = "todo"].st = "todo"
      BY DEF Blank
    <3>2. at[r] = "idle" => got[r][c].st = "none"
      BY DEF EmptyHanded
    <3>3. (got'[r][c] = got[r][c] /\ at[r] = "idle") \/ got'[r][c] = Blank \/ got'[r][c] = [Blank EXCEPT !.st = "todo"]
      BY <1>17, ReadAnyEffect, SMTT(20)
    <3> QED
      BY <2>4, <3>1, <3>2, <3>3
  <2>5. SUFFICES ASSUME NEW q \in Readers, NEW x \in Channels, got'[q][x].st = "in", got'[q][x].ok, NEW n \in got'[q][x].names
                 PROVE  /\ Recent(with'[q][x], n, Ttl + 2 * Limit)
                        /\ \A d \in Channels :
                              /\ got'[q][d].st = "todo" => Recent(with'[q][x], n, Ttl + Limit)
                              /\ got'[q][d].st = "out" => Recent(with'[q][x], n, Ttl + Limit + got'[q][d].age)
    BY <2>1 DEF Recent
  <2>6. got'[q] = got[q] /\ with'[q] = with[q]
    BY <2>2, <2>4, <2>5
  <2> QED
    BY <2>5, <2>6 DEF HeldFresh
<1>18. ASSUME NEW r \in Routers, Route(r) PROVE HeldFresh'
  BY <1>18 DEF Route
<1>19. ASSUME NEW r \in Pruners, ReadPrices(r) PROVE HeldFresh'
  BY <1>19 DEF ReadPrices
<1>20. ASSUME NEW r \in Pruners, ReadChannels(r) PROVE HeldFresh'
  BY <1>20 DEF ReadChannels
<1>21. ASSUME NEW r \in Pruners, ReadBindings(r) PROVE HeldFresh'
  BY <1>21 DEF ReadBindings
<1>22. ASSUME NEW r \in Pruners, PrunePrices(r) PROVE HeldFresh'
  BY <1>22 DEF PrunePrices, Deleted
<1>23. ASSUME NEW s \in Syncs, SyncRead(s) PROVE HeldFresh'
  BY <1>23 DEF SyncRead
<1>24. ASSUME NEW s \in Syncs, SyncEnds(s) PROVE HeldFresh'
  BY <1>24 DEF SyncEnds
<1>25. CASE UNCHANGED channelsVars
  BY <1>25 DEF channelsVars
<1> QED
  BY ONLY [ChannelsNext]_channelsVars, <1>1, <1>2, <1>3, <1>4, <1>5, <1>6, <1>7, <1>8, <1>9, <1>10, <1>11,
     <1>12, <1>13, <1>14, <1>15, <1>16, <1>17, <1>18, <1>19, <1>20, <1>21,
     <1>22, <1>23, <1>24, <1>25, Zenon
  DEF ChannelsNext, EditStep, PriceStep, OffOn

ChannelsHeld ==
    /\ ChannelsTyped /\ NoneChosen /\ DisabledStays /\ Versions /\ CacheMatches /\ GotMatches
    /\ AsTheyAre /\ Unserved /\ AllRead /\ PrunedExplained
    /\ EmptyHanded /\ CachedFresh /\ AnswerFresh /\ HeldFresh

LEMMA ChannelsStart == ChannelsInit => ChannelsHeld
<1> SUFFICES ASSUME ChannelsInit PROVE ChannelsHeld
  OBVIOUS
<1> USE ChannelNats
<1>1. ChannelRows /\ ChannelCounts /\ ChannelTurns /\ ChannelReaders
  BY DEF ChannelsInit, ChannelRows, ChannelCounts, ChannelTurns, ChannelReaders
<1>2. ChannelPrices /\ ChannelLists
  BY DEF ChannelsInit, ChannelPrices, ChannelLists, Listing
<1>3. ChannelImports
  BY <1>2 DEF ChannelsInit, ChannelPrices, ChannelImports
<1>4. ChannelLocals
  BY <1>1 DEF ChannelsInit, ChannelRows, ChannelLocals
<1>5. Blank \in Catalogs /\ NoEntry \in Cached
  BY DEF Blank, NoEntry, Catalogs, Cached
<1>6. ChannelCatalogs
  BY <1>5 DEF ChannelsInit, ChannelCatalogs
<1>7. ChannelsTyped
  BY <1>1, <1>2, <1>3, <1>4, <1>6 DEF ChannelsTyped
<1>8. /\ \A r \in Readers, c \in Channels : got[r][c].st = "none" /\ got[r][c].ver = 0
      /\ \A c \in Channels : ~cache[c].ok /\ cache[c].ver = 0
  BY DEF ChannelsInit, Blank, NoEntry
<1>9. shifts = 0 /\ wrong = {} /\ \A r \in Readers : at[r] = "idle"
  BY DEF ChannelsInit
<1>10. NoneChosen /\ DisabledStays
  BY DEF ChannelsInit, NoneChosen, DisabledStays
<1>11. Versions /\ CacheMatches /\ GotMatches
  BY <1>8, <1>9 DEF Versions, CacheMatches, GotMatches
<1>12. AsTheyAre /\ Unserved /\ AllRead /\ PrunedExplained
  BY <1>9 DEF AsTheyAre, Unserved, AllRead, PrunedExplained
<1>13. EmptyHanded /\ CachedFresh /\ AnswerFresh /\ HeldFresh
  BY <1>8 DEF EmptyHanded, CachedFresh, AnswerFresh, HeldFresh
<1> QED
  BY <1>7, <1>10, <1>11, <1>12, <1>13 DEF ChannelsHeld

LEMMA ChannelsStep == ChannelsHeld /\ [ChannelsNext]_channelsVars => ChannelsHeld'
<1> SUFFICES ASSUME ChannelsHeld, [ChannelsNext]_channelsVars PROVE ChannelsHeld'
  OBVIOUS
<1>1. ChannelsTyped'
  BY ChannelRowsKept, ChannelPricesKept, ChannelCountsKept, ChannelListsKept, ChannelImportsKept, ChannelReadersKept,
     ChannelLocalsKept, ChannelCatalogsKept, ChannelTurnsKept DEF ChannelsHeld, ChannelsTyped
<1>2. NoneChosen' /\ DisabledStays'
  BY NoneChosenKept, DisabledKept DEF ChannelsHeld
<1>3. Versions' /\ CacheMatches' /\ GotMatches'
  BY VersionsKept, CacheMatchesKept, GotMatchesKept DEF ChannelsHeld
<1>4. AsTheyAre' /\ Unserved' /\ AllRead' /\ PrunedExplained'
  BY AsTheyAreKept, UnservedKept, AllReadKept, PrunedKept DEF ChannelsHeld
<1>5. EmptyHanded' /\ CachedFresh' /\ AnswerFresh' /\ HeldFresh'
  BY EmptyHandedKept, CachedFreshKept, AnswerFreshKept, HeldFreshKept DEF ChannelsHeld
<1> QED
  BY <1>1, <1>2, <1>3, <1>4, <1>5 DEF ChannelsHeld

LEMMA ChannelsInvariant == ChannelsSpec => []ChannelsHeld
  BY ChannelsStart, ChannelsStep, PTL DEF ChannelsSpec

(* The channels, their bindings, the prices, the locals of every reader    *)
(* and of every import keep their types.                                   *)
THEOREM ChannelsTypeCorrect == ChannelsSpec => []ChannelsTypeOK
<1>1. ChannelsHeld => ChannelsTypeOK
  <2> SUFFICES ASSUME ChannelsHeld PROVE ChannelsTypeOK
    OBVIOUS
  <2> USE DEF ChannelsHeld, ChannelsTyped
  <2>1. there \subseteq Channels /\ on \subseteq there /\ conn \in [Channels -> Conns] /\ dirty \subseteq Channels
    BY DEF ChannelRows
  <2>2. bound \in [Models -> [Channels -> Names \cup {Unbound}]] /\ price \in [Models -> {"none", "off", "on"}]
    BY DEF ChannelPrices, Listing
  <2>3. /\ offers \in [Conns -> SUBSET Names] /\ shifts \in 0..MaxShifts /\ edits \in 0..MaxEdits
        /\ gone \in [Conns -> [Names -> 0..LongAgo]]
    BY DEF ChannelLists, ChannelCounts
  <2>4. chans \in [Readers -> SUBSET Channels] /\ with \in [Readers -> [Channels -> Conns]]
    BY DEF ChannelLocals
  <2>5. sync \in [Syncs -> {"idle", "write", "over"}]
    BY DEF ChannelImports
  <2>6. at \in [Readers -> {"idle", "bound", "restricted", "any", "channels", "probe", "bindings", "routed", "over"}]
    BY DEF ChannelReaders
  <2> QED
    BY <2>1, <2>2, <2>3, <2>4, <2>5, <2>6 DEF ChannelsTypeOK
<1> QED
  BY <1>1, ChannelsInvariant, PTL

(* What is served is neither pruned nor hidden and what is offered can be  *)
(* routed: whatever is probed, cached, edited and imported meanwhile, a    *)
(* price is pruned only when no channel, as the pruner read them, serves   *)
(* its model (AvailabilityIndex, admin_prune_unavailable_pricing).         *)
THEOREM AvailabilityIsSound == ChannelsSpec => []AvailabilitySound
<1>1. ChannelsHeld => AvailabilitySound
  BY OfferedAndRoutable DEF ChannelsHeld, AvailabilitySound
<1> QED
  BY <1>1, ChannelsInvariant, PTL

(* A model the operator disabled stays disabled through every import,      *)
(* unless its row changed between the import's read and its write          *)
(* (apply_sync).                                                           *)
THEOREM DisabledModelsStay == ChannelsSpec => []DisabledStays
  BY ChannelsInvariant, PTL DEF ChannelsHeld

LEMMA OnlyRouteRoutes ==
    ASSUME ChannelsHeld, [ChannelsNext]_channelsVars, NEW q \in Routers, at[q] = "probe", at'[q] = "routed"
    PROVE  Route(q)
<1> USE ChannelNats DEF ChannelsHeld, ChannelsTyped, ChannelReaders, channelsVars, tables, upstream, reading, imports, verdicts, Edit, Untouched, Still, Quiet, Reads, Apart, Got, Step, Forgets
<1>1. ASSUME NEW c \in Channels, SwitchChannel(c) PROVE Route(q)
  BY <1>1 DEF SwitchChannel
<1>2. ASSUME NEW c \in Channels, DeleteChannel(c) PROVE Route(q)
  BY <1>2 DEF DeleteChannel
<1>3. ASSUME NEW c \in Channels, InvalidateCatalog(c) PROVE Route(q)
  BY <1>3 DEF InvalidateCatalog
<1>4. ASSUME NEW c \in Channels, NEW k \in Conns, CreateChannel(c, k)
      PROVE  Route(q)
  BY <1>4 DEF CreateChannel
<1>5. ASSUME NEW c \in Channels, NEW k \in Conns, MoveChannel(c, k)
      PROVE  Route(q)
  BY <1>5 DEF MoveChannel
<1>6. ASSUME NEW c \in Channels, NEW m \in Models, NEW n \in Names, BindChannel(c, m, n)
      PROVE  Route(q)
  BY <1>6 DEF BindChannel
<1>7. ASSUME NEW m \in Models, DeletePrice(m) PROVE Route(q)
  BY <1>7 DEF DeletePrice, Deleted
<1>8. ASSUME NEW m \in Models, NEW S \in SUBSET Channels, NEW v \in OffOn, UpsertPrice(m, v, S)
      PROVE  Route(q)
  BY <1>8 DEF UpsertPrice, OffOn, Rebound
<1>9. ASSUME NEW m \in Models, NEW S \in SUBSET Channels, NEW s \in Syncs, SyncWrite(s, m, S)
      PROVE  Route(q)
  BY <1>9 DEF SyncWrite, Rebound, Imported
<1>10. CASE Tick
  BY <1>10 DEF Tick, Older
<1>11. ASSUME NEW k \in Conns, NEW S \in SUBSET Names, Shift(k, S)
      PROVE  Route(q)
  BY <1>11 DEF Shift
<1>12. ASSUME NEW r \in Readers, NEW c \in Channels, UseCache(r, c)
      PROVE  Route(q)
  BY <1>12 DEF UseCache
<1>13. ASSUME NEW r \in Readers, NEW c \in Channels, Probe(r, c)
      PROVE  Route(q)
  BY <1>13 DEF Probe
<1>14. ASSUME NEW r \in Readers, NEW c \in Channels, ProbeReturns(r, c)
      PROVE  Route(q)
  BY <1>14 DEF ProbeReturns
<1>15. ASSUME NEW r \in Routers, ReadBound(r) PROVE Route(q)
  BY <1>15, ReadBoundEffect
<1>16. ASSUME NEW r \in Routers, ReadRestricted(r) PROVE Route(q)
  BY <1>16 DEF ReadRestricted
<1>17. ASSUME NEW r \in Routers, ReadAny(r) PROVE Route(q)
  BY <1>17, ReadAnyEffect
<1>18. ASSUME NEW r \in Routers, Route(r) PROVE Route(q)
  BY <1>18 DEF Route
<1>19. ASSUME NEW r \in Pruners, ReadPrices(r) PROVE Route(q)
  BY <1>19 DEF ReadPrices
<1>20. ASSUME NEW r \in Pruners, ReadChannels(r) PROVE Route(q)
  BY <1>20 DEF ReadChannels
<1>21. ASSUME NEW r \in Pruners, ReadBindings(r) PROVE Route(q)
  BY <1>21 DEF ReadBindings
<1>22. ASSUME NEW r \in Pruners, PrunePrices(r) PROVE Route(q)
  BY <1>22 DEF PrunePrices, Deleted
<1>23. ASSUME NEW s \in Syncs, SyncRead(s) PROVE Route(q)
  BY <1>23 DEF SyncRead
<1>24. ASSUME NEW s \in Syncs, SyncEnds(s) PROVE Route(q)
  BY <1>24 DEF SyncEnds
<1>25. CASE UNCHANGED channelsVars
  BY <1>25 DEF channelsVars
<1> QED
  BY ONLY [ChannelsNext]_channelsVars, <1>1, <1>2, <1>3, <1>4, <1>5, <1>6, <1>7, <1>8, <1>9, <1>10, <1>11,
     <1>12, <1>13, <1>14, <1>15, <1>16, <1>17, <1>18, <1>19, <1>20, <1>21,
     <1>22, <1>23, <1>24, <1>25, Zenon
  DEF ChannelsNext, EditStep, PriceStep, OffOn

(* A chat is never sent where the model went long ago: of a chain, each    *)
(* channel listed the name within the life of an entry and the probes on   *)
(* both sides of it, or none of the chain's catalogs could be read         *)
(* (cached_channel_catalog, narrow_to_advertised, balance_chain).          *)
THEOREM RoutesAreFresh == ChannelsSpec => RoutedFresh
<1>1. ASSUME ChannelsHeld, [ChannelsNext]_channelsVars, NEW r \in Routers, NEW c \in Range(chain'[r]),
             at[r] = "probe", at'[r] = "routed"
      PROVE  \/ alias[r][c] \in offers[with[r][c]]
             \/ gone[with[r][c]][alias[r][c]] < LongAgo
             \/ \A d \in Range(chain'[r]) : ~got[r][d].ok
  <2> DEFINE S == Narrow(chans[r], alias[r], got[r])
  <2> USE <1>1, ChannelNats DEF ChannelsHeld
  <2>1. Route(r)
    BY <1>1, OnlyRouteRoutes
  <2>2. S \subseteq chans[r] /\ S \subseteq Channels /\ r \in Readers /\ RouteOf[r] \in Models
    BY DEF Narrow, ChannelsTyped, ChannelLocals
  <2>3. Range(chain'[r]) \subseteq S
    <3>1. chain' = [chain EXCEPT ![r] = Balanced(S, RouteOf[r])]
      BY <2>1 DEF Route
    <3>2. chain'[r] = Balanced(S, RouteOf[r])
      BY <2>2, <3>1 DEF ChannelsTyped, ChannelTurns
    <3> HIDE DEF S
    <3> QED
      BY <2>2, <3>2, ChainOfThem
  <2>4. CASE \E d \in chans[r] : got[r][d].ok /\ alias[r][d] \in got[r][d].names
    <3>1. got[r][c].ok /\ alias[r][c] \in got[r][c].names /\ c \in chans[r] /\ c \in Channels
      BY <2>2, <2>3, <2>4 DEF Narrow
    <3>2. got[r][c].st = "in" /\ got[r][c].names \subseteq Names /\ with[r][c] \in Conns
      BY <2>1, <2>2, <3>1 DEF Route, AllIn, ChannelsTyped, ChannelLocals, ChannelCatalogs, Catalogs
    <3>3. Recent(with[r][c], alias[r][c], Ttl + 2 * Limit)
      BY <2>2, <3>1, <3>2 DEF HeldFresh
    <3>4. gone[with[r][c]][alias[r][c]] \in Nat
      BY <3>1, <3>2 DEF ChannelsTyped, ChannelLists
    <3> QED
      BY <3>3, <3>4 DEF Recent, LongAgo
  <2>5. CASE ~\E d \in chans[r] : got[r][d].ok /\ alias[r][d] \in got[r][d].names
    BY <2>3, <2>5 DEF Narrow
  <2> QED
    BY <2>4, <2>5
<1>2. ChannelsHeld /\ [ChannelsNext]_channelsVars =>
          [\A r \in Routers : \A c \in Range(chain'[r]) :
               (at[r] = "probe" /\ at'[r] = "routed") =>
                   \/ alias[r][c] \in offers[with[r][c]]
                   \/ gone[with[r][c]][alias[r][c]] < LongAgo
                   \/ \A d \in Range(chain'[r]) : ~got[r][d].ok]_channelsVars
  BY <1>1
<1> QED
  BY <1>2, ChannelsInvariant, PTL DEF ChannelsSpec, RoutedFresh

-----------------------------------------------------------------------------
(* The stream of an answer (ChatStream)                                    *)

ChatTyped ==
    /\ talk \in [Chats -> {"idle", "authorize", "try", "stream", "settle", "over"}]
    /\ left \in [Chats -> 0..ChainLength]
    /\ usage \in [Chats -> Tokens] /\ bill \in [Chats -> Tokens]
    /\ lost \in [Chats -> SUBSET Reasons] /\ sold \in BOOLEAN
ChatCounts == troubles \in 0..MaxTroubles /\ flips \in 0..MaxFlips
ChatPlaces ==
    /\ sent \in [Chats -> Nat] /\ from \in [Chats -> Nat]
    /\ \A c \in Chats : sent[c] <= Len(Body[c]) /\ from[c] <= sent[c]

(* The units k and k + 1 report usage; u counts every report among the     *)
(* first n units; u is nothing or what some of them reported.              *)
ReportAt(c, k) == Body[c][k].kind = "open" /\ Body[c][k + 1].kind = "close"
Counts(u, c, n) ==
    \A k \in 1..(n - 1) : ReportAt(c, k) => Body[c][k].use.input <= u.input /\ Body[c][k].use.output <= u.output
Earned(u, c, n) ==
    /\ u.input = 0 \/ \E k \in 1..(n - 1) : ReportAt(c, k) /\ u.input = Body[c][k].use.input
    /\ u.output = 0 \/ \E k \in 1..(n - 1) : ReportAt(c, k) /\ u.output = Body[c][k].use.output

(* Nothing was sent before the stream; nothing is billed before the end.   *)
Quietly ==
    \A c \in Chats : talk[c] \in {"idle", "authorize", "try"} =>
        sent[c] = 0 /\ from[c] = 0 /\ usage[c] = NoTokens
BilledLate == \A c \in Chats : bill[c] = NoTokens \/ (talk[c] = "over" /\ bill[c] = usage[c])
(* No counter exceeds what was reported; and unless there is a reason the  *)
(* pending frames begin where no report is cut, all before them is counted,*)
(* and so is everything once the stream is dropped.                        *)
NeverMore == \A c \in Chats : Earned(usage[c], c, sent[c])
NoneCut ==
    \A c \in Chats : lost[c] = {} =>
        /\ from[c] = 0 \/ Body[c][from[c]].kind # "open"
        /\ talk[c] = "stream" => Counts(usage[c], c, from[c])
AllCounted ==
    \A c \in Chats : lost[c] = {} =>
        /\ talk[c] = "settle" => Counts(usage[c], c, sent[c])
        /\ talk[c] = "over" => Counts(bill[c], c, sent[c])

LEMMA SetInduction ==
    ASSUME NEW S, IsFiniteSet(S), NEW F, {} \in F,
           \A T \in SUBSET S : \A x \in S \ T : T \in F => T \cup {x} \in F
    PROVE  S \in F
<1> DEFINE Bad == {T \in SUBSET S : T \notin F}
<1> SUFFICES ASSUME Bad # {} PROVE FALSE
  OBVIOUS
<1>1. IsWellFoundedOn(StrictSubsetOrdering(S), FiniteSubsetsOf(S))
  BY FS_StrictSubsetOrderingWellFounded
<1>2. FiniteSubsetsOf(S) = SUBSET S
  BY FS_FiniteSubsetsOfFinite
<1>3. Bad \subseteq FiniteSubsetsOf(S)
  BY <1>2
<1>4. PICK U \in Bad : \A V \in Bad : ~ (<<V, U>> \in StrictSubsetOrdering(S))
  <2> HIDE DEF Bad
  <2> QED
    BY <1>1, <1>3, WFMin
<1>5. PICK x \in U : TRUE
  OBVIOUS
<1>6. U \ {x} \in SUBSET S /\ U \ {x} \notin Bad
  BY <1>4 DEF StrictSubsetOrdering
<1>7. U \ {x} \in F /\ x \in S \ (U \ {x}) /\ (U \ {x}) \cup {x} = U
  BY <1>6
<1> QED
  BY <1>6, <1>7

LEMMA MaxOf ==
    ASSUME NEW S \in SUBSET Nat, IsFiniteSet(S), S # {}
    PROVE  Max(S) \in S /\ \A y \in S : y <= Max(S)
<1> DEFINE F == {T \in SUBSET S : T = {} \/ \E x \in T : \A y \in T : x >= y}
<1>1. {} \in F
  OBVIOUS
<1>2. ASSUME NEW T \in SUBSET S, NEW x \in S \ T, T \in F PROVE T \cup {x} \in F
  <2>1. CASE T = {}
    <3>1. x \in Nat /\ T \cup {x} = {x} /\ x >= x
      BY <2>1
    <3> QED
      BY <3>1
  <2>2. CASE T # {}
    <3>1. PICK m \in T : \A y \in T : m >= y
      BY <1>2, <2>2
    <3>2. m \in Nat /\ x \in Nat /\ \A y \in T : y \in Nat
      OBVIOUS
    <3>3. CASE x >= m
      <4>1. \A y \in T \cup {x} : x >= y
        BY <3>1, <3>2, <3>3
      <4> QED
        BY <4>1
    <3>4. CASE m >= x
      <4>1. \A y \in T \cup {x} : m >= y
        BY <3>1, <3>2, <3>4
      <4> QED
        BY <4>1
    <3> QED
      BY <3>2, <3>3, <3>4
  <2> QED
    BY <2>1, <2>2
<1>3. S \in F
  <2> HIDE DEF F
  <2> QED
    BY <1>1, <1>2, SetInduction
<1>4. \E x \in S : \A y \in S : x >= y
  BY <1>3
<1>5. Max(S) \in S /\ \A y \in S : Max(S) >= y
  BY <1>4 DEF Max
<1> QED
  BY <1>5

LEMMA FiniteImage ==
    ASSUME NEW f, IsFiniteSet(DOMAIN f)
    PROVE  IsFiniteSet({f[x] : x \in DOMAIN f})
<1> DEFINE T == {f[x] : x \in DOMAIN f}
           g == [x \in DOMAIN f |-> f[x]]
<1>1. g \in Surjection(DOMAIN f, T)
  BY DEF Surjection
<1> HIDE DEF T, g
<1>2. IsFiniteSet(T)
  BY <1>1, FS_Surjection
<1> QED
  BY <1>2 DEF T

LEMMA ChatNats ==
    /\ MaxPending \in Nat /\ ChainLength \in Nat /\ MaxTroubles \in Nat /\ MaxFlips \in Nat
    /\ \A c \in Chats : Len(Body[c]) \in Nat
    /\ \A c \in Chats : \A k \in 1..Len(Body[c]) : Body[c][k] \in Units
  BY ChatAssumption

(* What merging the reports of the units i..j comes to.                    *)
LEMMA MergeOf ==
    ASSUME NEW c \in Chats, NEW u \in Tokens, NEW i \in Nat \ {0}, NEW j \in Nat, j <= Len(Body[c])
    PROVE  LET w == Merge(u, Reported(c, i, j)) IN
           /\ w \in Tokens /\ u.input <= w.input /\ u.output <= w.output
           /\ \A k \in i..(j - 1) : ReportAt(c, k) => Body[c][k].use.input <= w.input /\ Body[c][k].use.output <= w.output
           /\ w.input = u.input \/ \E k \in i..(j - 1) : ReportAt(c, k) /\ w.input = Body[c][k].use.input
           /\ w.output = u.output \/ \E k \in i..(j - 1) : ReportAt(c, k) /\ w.output = Body[c][k].use.output
<1> DEFINE K == {k \in i..(j - 1) : ReportAt(c, k)}
           R == Reported(c, i, j)
           I == {r.input : r \in R \cup {u}}
           O == {r.output : r \in R \cup {u}}
           w == Merge(u, R)
<1>1. R = {Body[c][k].use : k \in K}
  BY DEF Reported, ReportAt
<1>2. IsFiniteSet(K)
  <2>1. IsFiniteSet(i..(j - 1)) /\ K \subseteq i..(j - 1)
    BY FS_Interval
  <2> QED
    BY <2>1, FS_Subset
<1>3. ASSUME NEW k \in K PROVE Body[c][k].use \in Tokens
  <2>1. k \in 1..Len(Body[c])
    BY ChatNats
  <2>2. Body[c][k] \in Units
    BY <2>1, ChatNats
  <2> QED
    BY <2>2 DEF Units
<1>4. IsFiniteSet(R) /\ R \subseteq Tokens
  <2>1. R \subseteq Tokens
    BY <1>1, <1>3
  <2> DEFINE f == [k \in K |-> Body[c][k].use]
  <2>2. DOMAIN f = K /\ R = {f[k] : k \in DOMAIN f}
    BY <1>1
  <2> HIDE DEF f, R, K
  <2>3. IsFiniteSet({f[k] : k \in DOMAIN f})
    BY <1>2, <2>2, FiniteImage
  <2> QED
    BY <2>1, <2>2, <2>3
<1>5. IsFiniteSet(R \cup {u}) /\ R \cup {u} \subseteq Tokens
  <2> HIDE DEF R
  <2> QED
    BY <1>4, FS_AddElement
<1>6. I \subseteq Nat /\ I # {} /\ IsFiniteSet(I)
  <2> DEFINE V == R \cup {u}
             f == [r \in V |-> r.input]
  <2>1. I = {f[r] : r \in DOMAIN f} /\ DOMAIN f = V /\ u \in V
    OBVIOUS
  <2>2. \A r \in V : r.input \in Nat
    BY <1>5 DEF Tokens
  <2>3. I \subseteq Nat /\ I # {}
    BY <2>1, <2>2
  <2> HIDE DEF V, f, I
  <2> QED
    BY <1>5, <2>1, <2>3, FiniteImage DEF V
<1>7. O \subseteq Nat /\ O # {} /\ IsFiniteSet(O)
  <2> DEFINE V == R \cup {u}
             f == [r \in V |-> r.output]
  <2>1. O = {f[r] : r \in DOMAIN f} /\ DOMAIN f = V /\ u \in V
    OBVIOUS
  <2>2. \A r \in V : r.output \in Nat
    BY <1>5 DEF Tokens
  <2>3. O \subseteq Nat /\ O # {}
    BY <2>1, <2>2
  <2> HIDE DEF V, f, O
  <2> QED
    BY <1>5, <2>1, <2>3, FiniteImage DEF V
<1>8. w.input = Max(I) /\ w.output = Max(O) /\ w \in [input : {Max(I)}, output : {Max(O)}]
  BY DEF Merge
<1> HIDE DEF w
<1>9. Max(I) \in I /\ \A y \in I : y <= Max(I)
  <2> HIDE DEF I
  <2> QED
    BY <1>6, MaxOf
<1>10. Max(O) \in O /\ \A y \in O : y <= Max(O)
  <2> HIDE DEF O
  <2> QED
    BY <1>7, MaxOf
<1>11. w \in Tokens
  <2> HIDE DEF I, O
  <2> QED
    BY <1>6, <1>7, <1>8, <1>9, <1>10 DEF Tokens
<1>12. u.input <= w.input /\ u.output <= w.output
  BY <1>8, <1>9, <1>10
<1>13. ASSUME NEW k \in i..(j - 1), ReportAt(c, k)
       PROVE  Body[c][k].use.input <= w.input /\ Body[c][k].use.output <= w.output
  <2>1. Body[c][k].use \in R
    BY <1>1, <1>13
  <2> HIDE DEF R
  <2>2. Body[c][k].use.input \in I /\ Body[c][k].use.output \in O
    BY <2>1
  <2> HIDE DEF I, O
  <2> QED
    BY <1>8, <1>9, <1>10, <2>2
<1>14. w.input = u.input \/ \E k \in i..(j - 1) : ReportAt(c, k) /\ w.input = Body[c][k].use.input
  <2>1. PICK r \in R \cup {u} : w.input = r.input
    <3> HIDE DEF R
    <3> QED
      BY <1>8, <1>9
  <2> QED
    BY <1>1, <2>1
<1>15. w.output = u.output \/ \E k \in i..(j - 1) : ReportAt(c, k) /\ w.output = Body[c][k].use.output
  <2>1. PICK r \in R \cup {u} : w.output = r.output
    <3> HIDE DEF R
    <3> QED
      BY <1>8, <1>10
  <2> QED
    BY <1>1, <2>1
<1> QED
  BY <1>11, <1>12, <1>13, <1>14, <1>15 DEF w

(* What is owed counts every report that was forwarded, and is one.        *)
LEMMA OwedIs ==
    ASSUME ChatPlaces, NEW c \in Chats
    PROVE  Owed(c) \in Tokens /\ Counts(Owed(c), c, sent[c]) /\ Earned(Owed(c), c, sent[c])
<1>1. NoTokens \in Tokens /\ NoTokens.input = 0 /\ NoTokens.output = 0
  BY DEF NoTokens, Tokens
<1>2. sent[c] \in Nat /\ sent[c] <= Len(Body[c])
  BY DEF ChatPlaces
<1> DEFINE w == Merge(NoTokens, Reported(c, 1, sent[c]))
<1>3. /\ w \in Tokens
      /\ \A k \in 1..(sent[c] - 1) : ReportAt(c, k) => Body[c][k].use.input <= w.input /\ Body[c][k].use.output <= w.output
      /\ w.input = 0 \/ \E k \in 1..(sent[c] - 1) : ReportAt(c, k) /\ w.input = Body[c][k].use.input
      /\ w.output = 0 \/ \E k \in 1..(sent[c] - 1) : ReportAt(c, k) /\ w.output = Body[c][k].use.output
  BY <1>1, <1>2, MergeOf, SMTT(20)
<1> QED
  BY <1>3 DEF Owed, Counts, Earned

LEMMA UseIsTokens ==
    ASSUME ChatPlaces, NEW c \in Chats, NEW k \in 1..(sent[c] - 1)
    PROVE  Body[c][k].use.input \in Nat /\ Body[c][k].use.output \in Nat
<1>1. k \in 1..Len(Body[c])
  BY ChatNats DEF ChatPlaces
<1> QED
  BY <1>1, ChatNats DEF Units, Tokens

LEMMA EarnedAtMost ==
    ASSUME ChatPlaces, NEW c \in Chats, NEW u \in Tokens, NEW v \in Tokens,
           Earned(u, c, sent[c]), Counts(v, c, sent[c])
    PROVE  u.input <= v.input /\ u.output <= v.output
<1>1. v.input \in Nat /\ v.output \in Nat
  BY DEF Tokens
<1>2. u.input <= v.input
  BY <1>1, UseIsTokens DEF Earned, Counts
<1>3. u.output <= v.output
  BY <1>1, UseIsTokens DEF Earned, Counts
<1> QED
  BY <1>2, <1>3

LEMMA EarnedIsOwed ==
    ASSUME ChatPlaces, NEW c \in Chats, NEW u \in Tokens, Earned(u, c, sent[c]), Counts(u, c, sent[c])
    PROVE  u = Owed(c)
<1> DEFINE v == Owed(c)
<1>1. v \in Tokens /\ Counts(v, c, sent[c]) /\ Earned(v, c, sent[c])
  BY OwedIs
<1> HIDE DEF v
<1>2. u.input <= v.input /\ u.output <= v.output /\ v.input <= u.input /\ v.output <= u.output
  BY <1>1, EarnedAtMost
<1>3. u.input = v.input /\ u.output = v.output
  BY <1>1, <1>2 DEF Tokens
<1>4. u = v
  BY <1>1, <1>3 DEF Tokens
<1> QED
  BY <1>4 DEF v

(* The frames kept of a chunk end with a blank line, or there is none.     *)
LEMMA LastBlankIs ==
    ASSUME NEW c \in Chats, NEW i \in Nat \ {0}, NEW j \in Nat
    PROVE  /\ LastBlank(c, i, j) \in Nat
           /\ LastBlank(c, i, j) = i - 1 \/ (LastBlank(c, i, j) \in i..j /\ Body[c][LastBlank(c, i, j)].kind = "blank")
<1> DEFINE K == {k \in i..j : Body[c][k].kind = "blank"}
           V == K \cup {i - 1}
<1>1. IsFiniteSet(i..j) /\ K \subseteq i..j
  BY FS_Interval
<1>2. IsFiniteSet(K)
  BY <1>1, FS_Subset
<1>3. V \subseteq Nat /\ V # {}
  OBVIOUS
<1>4. IsFiniteSet(V)
  <2> HIDE DEF K
  <2> QED
    BY <1>2, FS_AddElement
<1>5. LastBlank(c, i, j) = Max(V)
  BY DEF LastBlank
<1>6. Max(V) \in V
  <2> HIDE DEF V
  <2> QED
    BY <1>3, <1>4, MaxOf
<1> QED
  BY <1>3, <1>5, <1>6

(* A chunk, step by step: where it starts and ends, what is read of it.    *)
LEMMA ChunkIs ==
    ASSUME ChatTyped, ChatPlaces, NEW c \in Chats, NEW n \in 1..MaxPending, Chunk(c, n)
    PROVE  LET i == from[c] + 1
               j == sent[c] + n
               kept == LastBlank(c, i, j)
               w == Merge(usage[c], Reported(c, i, kept)) IN
           /\ talk[c] = "stream" /\ j <= Len(Body[c]) /\ sent' = [sent EXCEPT ![c] = j]
           /\ UNCHANGED <<talk, left, bill, sold, troubles, flips>>
           /\ i \in Nat \ {0} /\ j \in Nat /\ i <= j
           /\ kept \in Nat /\ (kept = i - 1 \/ (kept \in i..j /\ Body[c][kept].kind = "blank"))
           /\ \/ /\ from' = [from EXCEPT ![c] = j] /\ UNCHANGED usage
                 /\ lost' = [lost EXCEPT ![c] = lost[c] \cup (IF Matters(c, i, j) THEN {"split"} ELSE {})]
              \/ /\ usage' = [usage EXCEPT ![c] = w]
                 /\ from' = [from EXCEPT ![c] = IF j - kept > MaxPending THEN j ELSE kept]
                 /\ lost' = [lost EXCEPT ![c] = lost[c] \cup
                               (IF j - kept > MaxPending /\ Matters(c, kept + 1, j) THEN {"big"} ELSE {})]
<1> DEFINE i == from[c] + 1
           j == sent[c] + n
           kept == LastBlank(c, i, j)
<1>1. i \in Nat \ {0} /\ j \in Nat /\ i <= j
  BY ChatNats DEF ChatPlaces
<1>2. kept \in Nat /\ (kept = i - 1 \/ (kept \in i..j /\ Body[c][kept].kind = "blank"))
  <2> HIDE DEF i, j
  <2> QED
    BY <1>1, LastBlankIs
<1>3. /\ talk[c] = "stream" /\ j <= Len(Body[c]) /\ sent' = [sent EXCEPT ![c] = j]
      /\ UNCHANGED <<talk, left, bill, sold, troubles, flips>>
  BY DEF Chunk, Smooth
<1>4. \/ /\ from' = [from EXCEPT ![c] = j] /\ UNCHANGED usage
         /\ lost' = [lost EXCEPT ![c] = lost[c] \cup (IF Matters(c, i, j) THEN {"split"} ELSE {})]
      \/ /\ usage' = [usage EXCEPT ![c] = Merge(usage[c], Reported(c, i, kept))]
         /\ from' = [from EXCEPT ![c] = IF j - kept > MaxPending THEN j ELSE kept]
         /\ lost' = [lost EXCEPT ![c] = lost[c] \cup
                       (IF j - kept > MaxPending /\ Matters(c, kept + 1, j) THEN {"big"} ELSE {})]
  BY DEF Chunk, Loses, Ingest
<1> QED
  BY <1>1, <1>2, <1>3, <1>4

LEMMA EndIs ==
    ASSUME ChatTyped, ChatPlaces, NEW c \in Chats, StreamEnds(c)
    PROVE  LET w == Merge(usage[c], Reported(c, from[c] + 1, sent[c])) IN
           /\ talk[c] = "stream" /\ usage' = [usage EXCEPT ![c] = w] /\ w \in Tokens
           /\ usage'[c] = w
           /\ talk' = [talk EXCEPT ![c] = IF w = NoTokens THEN "over" ELSE "settle"]
           /\ UNCHANGED <<left, sent, from, bill, lost, sold>>
<1>1. usage[c] \in Tokens /\ from[c] + 1 \in Nat \ {0} /\ sent[c] \in Nat /\ sent[c] <= Len(Body[c])
  BY DEF ChatTyped, ChatPlaces
<1> DEFINE w == Merge(usage[c], Reported(c, from[c] + 1, sent[c]))
<1>2. w \in Tokens
  BY <1>1, MergeOf
<1>3. usage' = [usage EXCEPT ![c] = w] /\ talk[c] = "stream"
  BY DEF StreamEnds, Ingest
<1>4. usage'[c] = w
  BY <1>3 DEF ChatTyped
<1>5. talk' = [talk EXCEPT ![c] = IF w = NoTokens THEN "over" ELSE "settle"]
  BY <1>4 DEF StreamEnds, Moves
<1> QED
  BY <1>2, <1>3, <1>4, <1>5 DEF StreamEnds

LEMMA ChatTypedKept ==
    ASSUME ChatTyped, ChatPlaces, [ChatNext]_chatVars
    PROVE  ChatTyped'
<1> USE ChatNats DEF ChatTyped, ChatPlaces, Reasons, NoTokens, Tokens, chatVars, Trouble, Smooth,
        Moves, Unread, Loses
<1>1. ASSUME NEW c \in Chats, Arrive(c) PROVE ChatTyped'
  BY <1>1 DEF Arrive
<1>2. ASSUME NEW c \in Chats, Authorize(c) PROVE ChatTyped'
  BY <1>2 DEF Authorize
<1>3. ASSUME NEW c \in Chats, Attempt(c) PROVE ChatTyped'
  <2>1. PICK label \in {"stream", "over", "try"} : talk' = [talk EXCEPT ![c] = label]
    BY <1>3 DEF Attempt
  <2>2. left' = [left EXCEPT ![c] = left[c] - 1] /\ left[c] - 1 \in 0..ChainLength
    BY <1>3, SMTT(20) DEF Attempt
  <2>3. UNCHANGED <<usage, bill, lost, sold>>
    BY <1>3 DEF Attempt
  <2> QED
    BY <2>1, <2>2, <2>3
<1>4. ASSUME NEW c \in Chats, StreamEnds(c) PROVE ChatTyped'
  <2> DEFINE w == Merge(usage[c], Reported(c, from[c] + 1, sent[c]))
  <2>1. /\ usage' = [usage EXCEPT ![c] = w] /\ w \in Tokens /\ UNCHANGED <<left, bill, lost, sold>>
        /\ talk' = [talk EXCEPT ![c] = IF w = NoTokens THEN "over" ELSE "settle"]
    BY <1>4, EndIs
  <2> HIDE DEF w
  <2> QED
    BY <2>1
<1>5. ASSUME NEW c \in Chats, Settle(c) PROVE ChatTyped'
  BY <1>5, ZenonT(20) DEF Settle
<1>6. ASSUME NEW c \in Chats, NEW n \in 1..MaxPending, Chunk(c, n) PROVE ChatTyped'
  <2> DEFINE i == from[c] + 1
             j == sent[c] + n
             kept == LastBlank(c, i, j)
             w == Merge(usage[c], Reported(c, i, kept))
  <2>1. i \in Nat \ {0} /\ j \in Nat /\ j <= Len(Body[c]) /\ kept \in Nat /\ kept <= j
    <3>1. i \in Nat \ {0} /\ j \in Nat /\ i <= j /\ j <= Len(Body[c])
      BY <1>6, ChunkIs
    <3>2. kept \in Nat /\ (kept = i - 1 \/ kept \in i..j)
      BY <1>6, ChunkIs
    <3> HIDE DEF i, j, kept
    <3> QED
      BY <3>1, <3>2
  <2>2. w \in Tokens
    <3>1. kept <= Len(Body[c])
      BY <2>1, ChatNats
    <3> HIDE DEF i, j, kept
    <3> QED
      BY <2>1, <3>1, MergeOf
  <2>3. UNCHANGED <<talk, left, bill, sold>>
    BY <1>6 DEF Chunk
  <2>4. PICK why \in SUBSET Reasons : lost' = [lost EXCEPT ![c] = lost[c] \cup why]
    <3> DEFINE C == Cut(c, sent[c] + 1, j)  M == Matters(c, i, j)  N == j - kept > MaxPending /\ Matters(c, kept + 1, j)
    <3>1. \/ lost' = [lost EXCEPT ![c] = lost[c] \cup (IF M THEN {"split"} ELSE {})]
          \/ lost' = [lost EXCEPT ![c] = lost[c] \cup (IF N THEN {"big"} ELSE {})]
      BY <1>6 DEF Chunk, Loses
    <3> HIDE DEF M, N
    <3> QED
      BY <3>1
  <2>5. usage' = usage \/ usage' = [usage EXCEPT ![c] = w]
    BY <1>6 DEF Chunk, Ingest
  <2> HIDE DEF w, Reasons
  <2>6. lost' \in [Chats -> SUBSET Reasons]
    BY <2>4
  <2>7. usage' \in [Chats -> Tokens]
    <3>1. CASE usage' = usage
      BY <3>1
    <3>2. CASE usage' = [usage EXCEPT ![c] = w]
      <4> HIDE DEF Tokens
      <4> QED
        BY <2>2, <3>2
    <3> QED
      BY <2>5, <3>1, <3>2
  <2> QED
    BY <2>3, <2>6, <2>7
<1>7. CASE OpenOrClose
  BY <1>7 DEF OpenOrClose
<1>8. CASE ChatCrash
  BY <1>8 DEF ChatCrash
<1>9. CASE UNCHANGED chatVars
  BY <1>9 DEF chatVars
<1> QED
  BY ONLY [ChatNext]_chatVars, <1>1, <1>2, <1>3, <1>4, <1>5, <1>6, <1>7, <1>8, <1>9, Zenon
  DEF ChatNext

LEMMA ChatPlacesKept ==
    ASSUME ChatTyped, ChatPlaces, [ChatNext]_chatVars
    PROVE  ChatPlaces'
<1> USE ChatNats DEF ChatTyped, ChatPlaces, chatVars, Trouble, Smooth, Moves, Unread, Loses
<1>1. ASSUME NEW c \in Chats, Arrive(c) PROVE ChatPlaces'
  BY <1>1 DEF Arrive
<1>2. ASSUME NEW c \in Chats, Authorize(c) PROVE ChatPlaces'
  BY <1>2 DEF Authorize
<1>3. ASSUME NEW c \in Chats, Attempt(c) PROVE ChatPlaces'
  BY <1>3 DEF Attempt
<1>4. ASSUME NEW c \in Chats, StreamEnds(c) PROVE ChatPlaces'
  BY <1>4, EndIs
<1>5. ASSUME NEW c \in Chats, Settle(c) PROVE ChatPlaces'
  BY <1>5 DEF Settle
<1>6. ASSUME NEW c \in Chats, NEW n \in 1..MaxPending, Chunk(c, n) PROVE ChatPlaces'
  <2> DEFINE i == from[c] + 1
             j == sent[c] + n
             kept == LastBlank(c, i, j)
  <2>1. /\ i \in Nat \ {0} /\ j \in Nat /\ j <= Len(Body[c]) /\ kept \in Nat /\ kept <= j
        /\ sent' = [sent EXCEPT ![c] = j]
        /\ from' = [from EXCEPT ![c] = j] \/ from' = [from EXCEPT ![c] = kept]
    BY <1>6, ChunkIs
  <2> HIDE DEF j, kept
  <2> QED
    BY <2>1
<1>7. CASE OpenOrClose
  BY <1>7 DEF OpenOrClose
<1>8. CASE ChatCrash
  BY <1>8 DEF ChatCrash
<1>9. CASE UNCHANGED chatVars
  BY <1>9 DEF chatVars
<1> QED
  BY ONLY [ChatNext]_chatVars, <1>1, <1>2, <1>3, <1>4, <1>5, <1>6, <1>7, <1>8, <1>9, Zenon
  DEF ChatNext

LEMMA ChatCountsKept ==
    ASSUME ChatTyped, ChatPlaces, ChatCounts, [ChatNext]_chatVars
    PROVE  ChatCounts'
<1> USE ChatNats DEF ChatCounts, chatVars, Trouble, Smooth, Moves, Unread, Loses
<1>1. ASSUME NEW c \in Chats, Arrive(c) PROVE ChatCounts'
  BY <1>1 DEF Arrive
<1>2. ASSUME NEW c \in Chats, Authorize(c) PROVE ChatCounts'
  BY <1>2 DEF Authorize
<1>3. ASSUME NEW c \in Chats, Attempt(c) PROVE ChatCounts'
  BY <1>3 DEF Attempt
<1>4. ASSUME NEW c \in Chats, StreamEnds(c) PROVE ChatCounts'
  BY <1>4 DEF StreamEnds
<1>5. ASSUME NEW c \in Chats, Settle(c) PROVE ChatCounts'
  BY <1>5 DEF Settle
<1>6. ASSUME NEW c \in Chats, NEW n \in 1..MaxPending, Chunk(c, n)
      PROVE  ChatCounts'
  BY <1>6 DEF Chunk
<1>7. CASE OpenOrClose
  BY <1>7 DEF OpenOrClose
<1>8. CASE ChatCrash
  BY <1>8 DEF ChatCrash
<1>9. CASE UNCHANGED chatVars
  BY <1>9 DEF chatVars
<1> QED
  BY ONLY [ChatNext]_chatVars, <1>1, <1>2, <1>3, <1>4, <1>5, <1>6, <1>7, <1>8, <1>9, Zenon
  DEF ChatNext

LEMMA EarnedGrows ==
    ASSUME NEW c, NEW u, NEW n \in Nat, NEW m \in Nat, n <= m, Earned(u, c, n)
    PROVE  Earned(u, c, m)
<1>1. \A k \in 1..(n - 1) : k \in 1..(m - 1)
  OBVIOUS
<1> QED
  BY <1>1 DEF Earned

LEMMA CountsNone == \A c, u : Counts(u, c, 0)
<1>1. 1..(0 - 1) = {}
  OBVIOUS
<1> QED
  BY <1>1 DEF Counts

LEMMA MergeEarned ==
    ASSUME NEW c \in Chats, NEW u \in Tokens, NEW n \in Nat, Earned(u, c, n),
           NEW i \in Nat \ {0}, NEW j \in Nat, j <= Len(Body[c]), j <= n
    PROVE  Earned(Merge(u, Reported(c, i, j)), c, n)
<1> DEFINE w == Merge(u, Reported(c, i, j))
<1>1. /\ w.input = u.input \/ \E k \in i..(j - 1) : ReportAt(c, k) /\ w.input = Body[c][k].use.input
      /\ w.output = u.output \/ \E k \in i..(j - 1) : ReportAt(c, k) /\ w.output = Body[c][k].use.output
  BY MergeOf
<1> HIDE DEF w
<1>2. \A k \in i..(j - 1) : k \in 1..(n - 1)
  OBVIOUS
<1>3. Earned(w, c, n)
  BY <1>1, <1>2 DEF Earned
<1> QED
  BY <1>3 DEF w

LEMMA CountsOver ==
    ASSUME NEW c, NEW u, NEW n \in Nat, NEW m \in Nat, n <= m, Counts(u, c, n),
           n = 0 \/ Body[c][n].kind # "open", \A k \in (n + 1)..m : Body[c][k].kind # "open"
    PROVE  Counts(u, c, m)
<1> SUFFICES ASSUME NEW k \in 1..(m - 1), ReportAt(c, k)
             PROVE  Body[c][k].use.input <= u.input /\ Body[c][k].use.output <= u.output
  BY DEF Counts
<1>1. k \notin (n + 1)..m /\ (k # n)
  BY DEF ReportAt
<1>2. k \in 1..(n - 1)
  BY <1>1
<1> QED
  BY <1>2 DEF Counts

LEMMA MergeCounts ==
    ASSUME NEW c \in Chats, NEW u \in Tokens, NEW n \in Nat, Counts(u, c, n),
           n = 0 \/ Body[c][n].kind # "open", NEW j \in Nat, j <= Len(Body[c])
    PROVE  Counts(Merge(u, Reported(c, n + 1, j)), c, j)
<1> DEFINE w == Merge(u, Reported(c, n + 1, j))
<1>1. /\ w \in Tokens /\ u.input <= w.input /\ u.output <= w.output
      /\ \A k \in (n + 1)..(j - 1) : ReportAt(c, k) => Body[c][k].use.input <= w.input /\ Body[c][k].use.output <= w.output
  BY n + 1 \in Nat \ {0}, MergeOf
<1> HIDE DEF w
<1>2. ASSUME NEW k \in 1..(j - 1), ReportAt(c, k)
      PROVE  Body[c][k].use.input <= w.input /\ Body[c][k].use.output <= w.output
  <2>1. k # n
    BY <1>2 DEF ReportAt
  <2>2. CASE k \in (n + 1)..(j - 1)
    BY <1>1, <1>2, <2>2
  <2>3. CASE k \in 1..(n - 1)
    <3>1. Body[c][k].use.input <= u.input /\ Body[c][k].use.output <= u.output
      BY <1>2, <2>3 DEF Counts
    <3>2. Body[c][k].use \in Tokens
      <4>1. k \in 1..Len(Body[c])
        BY ChatNats
      <4> QED
        BY <4>1, ChatNats DEF Units
    <3> QED
      BY <1>1, <3>1, <3>2 DEF Tokens
  <2> QED
    BY <2>1, <2>2, <2>3
<1>3. Counts(w, c, j)
  BY <1>2 DEF Counts
<1> QED
  BY <1>3 DEF w

LEMMA QuietlyKept ==
    ASSUME ChatTyped, ChatPlaces, Quietly, [ChatNext]_chatVars
    PROVE  Quietly'
<1> USE ChatNats DEF ChatTyped, ChatPlaces, Quietly, chatVars, Trouble, Smooth, Moves, Unread, Loses
<1>1. ASSUME NEW c \in Chats, Arrive(c) PROVE Quietly'
  BY <1>1 DEF Arrive
<1>2. ASSUME NEW c \in Chats, Authorize(c) PROVE Quietly'
  BY <1>2 DEF Authorize
<1>3. ASSUME NEW c \in Chats, Attempt(c) PROVE Quietly'
  BY <1>3 DEF Attempt
<1>4. ASSUME NEW c \in Chats, StreamEnds(c) PROVE Quietly'
  <2> DEFINE w == Merge(usage[c], Reported(c, from[c] + 1, sent[c]))
  <2>1. /\ usage' = [usage EXCEPT ![c] = w] /\ w \in Tokens /\ UNCHANGED <<left, sent, from, bill, lost, sold>>
        /\ talk[c] = "stream" /\ talk' = [talk EXCEPT ![c] = IF w = NoTokens THEN "over" ELSE "settle"]
    BY <1>4, EndIs
  <2>2. from[c] \in Nat /\ from[c] + 1 \in Nat \ {0} /\ sent[c] \in Nat /\ sent[c] <= Len(Body[c])
    BY DEF ChatPlaces
  <2> HIDE DEF w
  <2> QED
    BY <2>1 DEF Quietly
<1>5. ASSUME NEW c \in Chats, Settle(c) PROVE Quietly'
  BY <1>5 DEF Settle
<1>6. ASSUME NEW c \in Chats, NEW n \in 1..MaxPending, Chunk(c, n) PROVE Quietly'
  <2> DEFINE i == from[c] + 1
             j == sent[c] + n
             kept == LastBlank(c, i, j)
             w == Merge(usage[c], Reported(c, i, kept))
  <2>1. i \in Nat \ {0} /\ j \in Nat /\ i <= j /\ j <= Len(Body[c]) /\ sent[c] \in Nat /\ sent[c] <= j /\ from[c] \in Nat
    <3>1. i \in Nat \ {0} /\ j \in Nat /\ i <= j /\ j <= Len(Body[c])
      BY <1>6, ChunkIs
    <3>2. sent[c] \in Nat /\ from[c] \in Nat /\ sent[c] <= j
      BY DEF ChatPlaces
    <3> QED
      BY <3>1, <3>2
  <2>2. kept \in Nat /\ kept <= j /\ kept <= Len(Body[c]) /\ (kept = from[c] \/ (kept \in i..j /\ Body[c][kept].kind = "blank"))
    <3>1. kept \in Nat /\ (kept = i - 1 \/ (kept \in i..j /\ Body[c][kept].kind = "blank"))
      BY <1>6, ChunkIs
    <3>2. i - 1 = from[c] /\ Len(Body[c]) \in Nat
      BY <2>1, ChatNats
    <3> HIDE DEF i, j, kept
    <3> QED
      BY <2>1, <3>1, <3>2
  <2>3. sent' = [sent EXCEPT ![c] = j] /\ talk[c] = "stream" /\ UNCHANGED <<talk, bill>>
    BY <1>6 DEF Chunk
  <2>4. /\ \E x : usage' = [usage EXCEPT ![c] = x]
        /\ \E x : from' = [from EXCEPT ![c] = x]
    <3>1. usage = [usage EXCEPT ![c] = usage[c]]
      OBVIOUS
    <3> QED
      BY <1>6, <3>1 DEF Chunk, Ingest
  <2>5. \A d \in Chats : d # c => usage'[d] = usage[d] /\ from'[d] = from[d] /\ sent'[d] = sent[d]
    BY <2>3, <2>4
  <2> QED
    BY <2>3, <2>5 DEF Quietly
<1>7. CASE OpenOrClose
  BY <1>7 DEF OpenOrClose
<1>8. CASE ChatCrash
  BY <1>8 DEF ChatCrash
<1>9. CASE UNCHANGED chatVars
  BY <1>9 DEF chatVars
<1> QED
  BY ONLY [ChatNext]_chatVars, <1>1, <1>2, <1>3, <1>4, <1>5, <1>6, <1>7, <1>8, <1>9, Zenon
  DEF ChatNext

LEMMA BilledLateKept ==
    ASSUME ChatTyped, ChatPlaces, BilledLate, [ChatNext]_chatVars
    PROVE  BilledLate'
<1> USE ChatNats DEF ChatTyped, ChatPlaces, BilledLate, chatVars, Trouble, Smooth, Moves, Unread,
        Loses
<1>1. ASSUME NEW c \in Chats, Arrive(c) PROVE BilledLate'
  BY <1>1 DEF Arrive
<1>2. ASSUME NEW c \in Chats, Authorize(c) PROVE BilledLate'
  BY <1>2 DEF Authorize
<1>3. ASSUME NEW c \in Chats, Attempt(c) PROVE BilledLate'
  BY <1>3 DEF Attempt
<1>4. ASSUME NEW c \in Chats, StreamEnds(c) PROVE BilledLate'
  <2> DEFINE w == Merge(usage[c], Reported(c, from[c] + 1, sent[c]))
  <2>1. /\ usage' = [usage EXCEPT ![c] = w] /\ w \in Tokens /\ UNCHANGED <<left, sent, from, bill, lost, sold>>
        /\ talk[c] = "stream" /\ talk' = [talk EXCEPT ![c] = IF w = NoTokens THEN "over" ELSE "settle"]
    BY <1>4, EndIs
  <2>2. from[c] \in Nat /\ from[c] + 1 \in Nat \ {0} /\ sent[c] \in Nat /\ sent[c] <= Len(Body[c])
    BY DEF ChatPlaces
  <2> HIDE DEF w
  <2> QED
    BY <2>1 DEF BilledLate
<1>5. ASSUME NEW c \in Chats, Settle(c) PROVE BilledLate'
  BY <1>5 DEF Settle
<1>6. ASSUME NEW c \in Chats, NEW n \in 1..MaxPending, Chunk(c, n) PROVE BilledLate'
  <2> DEFINE i == from[c] + 1
             j == sent[c] + n
             kept == LastBlank(c, i, j)
             w == Merge(usage[c], Reported(c, i, kept))
  <2>1. i \in Nat \ {0} /\ j \in Nat /\ i <= j /\ j <= Len(Body[c]) /\ sent[c] \in Nat /\ sent[c] <= j /\ from[c] \in Nat
    <3>1. i \in Nat \ {0} /\ j \in Nat /\ i <= j /\ j <= Len(Body[c])
      BY <1>6, ChunkIs
    <3>2. sent[c] \in Nat /\ from[c] \in Nat /\ sent[c] <= j
      BY DEF ChatPlaces
    <3> QED
      BY <3>1, <3>2
  <2>2. kept \in Nat /\ kept <= j /\ kept <= Len(Body[c]) /\ (kept = from[c] \/ (kept \in i..j /\ Body[c][kept].kind = "blank"))
    <3>1. kept \in Nat /\ (kept = i - 1 \/ (kept \in i..j /\ Body[c][kept].kind = "blank"))
      BY <1>6, ChunkIs
    <3>2. i - 1 = from[c] /\ Len(Body[c]) \in Nat
      BY <2>1, ChatNats
    <3> HIDE DEF i, j, kept
    <3> QED
      BY <2>1, <3>1, <3>2
  <2>3. sent' = [sent EXCEPT ![c] = j] /\ talk[c] = "stream" /\ UNCHANGED <<talk, bill>>
    BY <1>6 DEF Chunk
  <2>4. \E x : usage' = [usage EXCEPT ![c] = x]
    <3>1. usage = [usage EXCEPT ![c] = usage[c]]
      OBVIOUS
    <3> QED
      BY <1>6, <3>1 DEF Chunk, Ingest
  <2> QED
    BY <2>3, <2>4 DEF BilledLate
<1>7. CASE OpenOrClose
  BY <1>7 DEF OpenOrClose
<1>8. CASE ChatCrash
  BY <1>8 DEF ChatCrash
<1>9. CASE UNCHANGED chatVars
  BY <1>9 DEF chatVars
<1> QED
  BY ONLY [ChatNext]_chatVars, <1>1, <1>2, <1>3, <1>4, <1>5, <1>6, <1>7, <1>8, <1>9, Zenon
  DEF ChatNext

LEMMA NeverMoreKept ==
    ASSUME ChatTyped, ChatPlaces, NeverMore, [ChatNext]_chatVars
    PROVE  NeverMore'
<1> USE ChatNats DEF ChatTyped, ChatPlaces, NeverMore, chatVars, Trouble, Smooth, Moves, Unread,
        Loses
<1>1. ASSUME NEW c \in Chats, Arrive(c) PROVE NeverMore'
  BY <1>1 DEF Arrive
<1>2. ASSUME NEW c \in Chats, Authorize(c) PROVE NeverMore'
  BY <1>2 DEF Authorize
<1>3. ASSUME NEW c \in Chats, Attempt(c) PROVE NeverMore'
  BY <1>3 DEF Attempt
<1>4. ASSUME NEW c \in Chats, StreamEnds(c) PROVE NeverMore'
  <2> DEFINE w == Merge(usage[c], Reported(c, from[c] + 1, sent[c]))
  <2>1. /\ usage' = [usage EXCEPT ![c] = w] /\ w \in Tokens /\ UNCHANGED <<left, sent, from, bill, lost, sold>>
        /\ talk[c] = "stream" /\ talk' = [talk EXCEPT ![c] = IF w = NoTokens THEN "over" ELSE "settle"]
    BY <1>4, EndIs
  <2>2. from[c] \in Nat /\ from[c] + 1 \in Nat \ {0} /\ sent[c] \in Nat /\ sent[c] <= Len(Body[c])
    BY DEF ChatPlaces
  <2>3. Earned(w, c, sent[c])
    BY <2>2, sent[c] <= sent[c], MergeEarned DEF NeverMore, ChatTyped
  <2> HIDE DEF w
  <2> QED
    BY <2>1, <2>3 DEF NeverMore
<1>5. ASSUME NEW c \in Chats, Settle(c) PROVE NeverMore'
  BY <1>5 DEF Settle
<1>6. ASSUME NEW c \in Chats, NEW n \in 1..MaxPending, Chunk(c, n) PROVE NeverMore'
  <2> DEFINE i == from[c] + 1
             j == sent[c] + n
             kept == LastBlank(c, i, j)
             w == Merge(usage[c], Reported(c, i, kept))
  <2>1. i \in Nat \ {0} /\ j \in Nat /\ i <= j /\ j <= Len(Body[c]) /\ sent[c] \in Nat /\ sent[c] <= j /\ from[c] \in Nat
    <3>1. i \in Nat \ {0} /\ j \in Nat /\ i <= j /\ j <= Len(Body[c])
      BY <1>6, ChunkIs
    <3>2. sent[c] \in Nat /\ from[c] \in Nat /\ sent[c] <= j
      BY DEF ChatPlaces
    <3> QED
      BY <3>1, <3>2
  <2>2. kept \in Nat /\ kept <= j /\ kept <= Len(Body[c]) /\ (kept = from[c] \/ (kept \in i..j /\ Body[c][kept].kind = "blank"))
    <3>1. kept \in Nat /\ (kept = i - 1 \/ (kept \in i..j /\ Body[c][kept].kind = "blank"))
      BY <1>6, ChunkIs
    <3>2. i - 1 = from[c] /\ Len(Body[c]) \in Nat
      BY <2>1, ChatNats
    <3> HIDE DEF i, j, kept
    <3> QED
      BY <2>1, <3>1, <3>2
  <2>3. sent' = [sent EXCEPT ![c] = j] /\ talk[c] = "stream" /\ UNCHANGED <<talk, bill>>
    BY <1>6 DEF Chunk
  <2>4. usage' = usage \/ usage' = [usage EXCEPT ![c] = w]
    BY <1>6 DEF Chunk, Ingest
  <2>5. Earned(usage[c], c, j)
    <3> HIDE DEF j
    <3> QED
      BY <2>1, EarnedGrows DEF NeverMore
  <2>6. Earned(w, c, j)
    <3> HIDE DEF i, j, kept
    <3> QED
      BY <2>1, <2>2, <2>5, MergeEarned DEF ChatTyped
  <2>7. sent'[c] = j /\ (usage'[c] = usage[c] \/ usage'[c] = w)
    BY <2>3, <2>4
  <2> HIDE DEF w, j
  <2>8. ASSUME NEW d \in Chats PROVE Earned(usage'[d], d, sent'[d])
    <3>1. CASE d = c
      BY <2>5, <2>6, <2>7, <3>1
    <3>2. CASE d # c
      BY <2>3, <2>4, <3>2
    <3> QED
      BY <3>1, <3>2
  <2> QED
    BY <2>8 DEF NeverMore
<1>7. CASE OpenOrClose
  BY <1>7 DEF OpenOrClose
<1>8. CASE ChatCrash
  BY <1>8 DEF ChatCrash
<1>9. CASE UNCHANGED chatVars
  BY <1>9 DEF chatVars
<1> QED
  BY ONLY [ChatNext]_chatVars, <1>1, <1>2, <1>3, <1>4, <1>5, <1>6, <1>7, <1>8, <1>9, Zenon
  DEF ChatNext

LEMMA NoneCutKept ==
    ASSUME ChatTyped, ChatPlaces, NoneCut, Quietly, [ChatNext]_chatVars
    PROVE  NoneCut'
<1> USE ChatNats DEF ChatTyped, ChatPlaces, NoneCut, Quietly, chatVars, Trouble, Smooth, Moves,
        Unread, Loses
<1>1. ASSUME NEW c \in Chats, Arrive(c) PROVE NoneCut'
  BY <1>1 DEF Arrive
<1>2. ASSUME NEW c \in Chats, Authorize(c) PROVE NoneCut'
  BY <1>2 DEF Authorize
<1>3. ASSUME NEW c \in Chats, Attempt(c) PROVE NoneCut'
  <2>1. PICK label : talk' = [talk EXCEPT ![c] = label]
    BY <1>3 DEF Attempt
  <2>2. talk[c] = "try" /\ UNCHANGED <<from, usage, lost>>
    BY <1>3 DEF Attempt
  <2>3. Counts(usage[c], c, from[c])
    BY <2>2, CountsNone
  <2> QED
    BY <2>1, <2>2, <2>3
<1>4. ASSUME NEW c \in Chats, StreamEnds(c) PROVE NoneCut'
  <2> DEFINE w == Merge(usage[c], Reported(c, from[c] + 1, sent[c]))
  <2>1. /\ usage' = [usage EXCEPT ![c] = w] /\ w \in Tokens /\ UNCHANGED <<left, sent, from, bill, lost, sold>>
        /\ talk[c] = "stream" /\ talk' = [talk EXCEPT ![c] = IF w = NoTokens THEN "over" ELSE "settle"]
    BY <1>4, EndIs
  <2>2. from[c] \in Nat /\ from[c] + 1 \in Nat \ {0} /\ sent[c] \in Nat /\ sent[c] <= Len(Body[c])
    BY DEF ChatPlaces
  <2> HIDE DEF w
  <2> QED
    BY <2>1 DEF NoneCut
<1>5. ASSUME NEW c \in Chats, Settle(c) PROVE NoneCut'
  BY <1>5 DEF Settle
<1>6. ASSUME NEW c \in Chats, NEW n \in 1..MaxPending, Chunk(c, n) PROVE NoneCut'
  <2> DEFINE i == from[c] + 1
             j == sent[c] + n
             kept == LastBlank(c, i, j)
             w == Merge(usage[c], Reported(c, i, kept))
  <2>1. i \in Nat \ {0} /\ j \in Nat /\ i <= j /\ j <= Len(Body[c]) /\ sent[c] \in Nat /\ sent[c] <= j /\ from[c] \in Nat
    <3>1. i \in Nat \ {0} /\ j \in Nat /\ i <= j /\ j <= Len(Body[c])
      BY <1>6, ChunkIs
    <3>2. sent[c] \in Nat /\ from[c] \in Nat /\ sent[c] <= j
      BY DEF ChatPlaces
    <3> QED
      BY <3>1, <3>2
  <2>2. kept \in Nat /\ kept <= j /\ kept <= Len(Body[c]) /\ (kept = from[c] \/ (kept \in i..j /\ Body[c][kept].kind = "blank"))
    <3>1. kept \in Nat /\ (kept = i - 1 \/ (kept \in i..j /\ Body[c][kept].kind = "blank"))
      BY <1>6, ChunkIs
    <3>2. i - 1 = from[c] /\ Len(Body[c]) \in Nat
      BY <2>1, ChatNats
    <3> HIDE DEF i, j, kept
    <3> QED
      BY <2>1, <3>1, <3>2
  <2>3. sent' = [sent EXCEPT ![c] = j] /\ talk[c] = "stream" /\ UNCHANGED <<talk, bill>>
    BY <1>6 DEF Chunk
  <2>4. SUFFICES ASSUME NEW d \in Chats, lost'[d] = {}
                 PROVE  /\ from'[d] = 0 \/ Body[d][from'[d]].kind # "open"
                        /\ talk'[d] = "stream" => Counts(usage'[d], d, from'[d])
    BY DEF NoneCut
  <2>5. CASE d # c
    <3>1. /\ \E x : from' = [from EXCEPT ![c] = x]
          /\ \E x : usage' = [usage EXCEPT ![c] = x]
          /\ \E x : lost' = [lost EXCEPT ![c] = x]
      <4>1. usage = [usage EXCEPT ![c] = usage[c]]
        OBVIOUS
      <4> QED
        BY <1>6, <4>1 DEF Chunk, Ingest, Loses
    <3>2. from'[d] = from[d] /\ usage'[d] = usage[d] /\ lost'[d] = lost[d] /\ talk' = talk
      BY <2>3, <2>5, <3>1
    <3> QED
      BY <2>4, <3>2 DEF NoneCut
  <2>6. CASE d = c
    <3> DEFINE M == Matters(c, i, j)
               N == j - kept > MaxPending /\ Matters(c, kept + 1, j)
    <3>1. \/ /\ from' = [from EXCEPT ![c] = j] /\ UNCHANGED usage
             /\ lost' = [lost EXCEPT ![c] = lost[c] \cup (IF M THEN {"split"} ELSE {})]
          \/ /\ usage' = [usage EXCEPT ![c] = w]
             /\ from' = [from EXCEPT ![c] = IF j - kept > MaxPending THEN j ELSE kept]
             /\ lost' = [lost EXCEPT ![c] = lost[c] \cup (IF N THEN {"big"} ELSE {})]
      BY <1>6 DEF Chunk, Ingest, Loses
    <3> HIDE DEF M, N, w
    <3>2. \/ from'[c] = j /\ usage'[c] = usage[c] /\ lost[c] = {} /\ ~M
          \/ /\ usage'[c] = w /\ lost[c] = {}
             /\ from'[c] = IF j - kept > MaxPending THEN j ELSE kept
             /\ ~N
      <4>1. lost'[c] = {}
        BY <2>4, <2>6
      <4> HIDE DEF j, kept
      <4> QED
        BY ONLY <3>1, <4>1, lost \in [Chats -> SUBSET Reasons], from \in [Chats -> Nat], usage \in [Chats -> Tokens], c \in Chats
    <3>3. (from[c] = 0 \/ Body[c][from[c]].kind # "open") /\ Counts(usage[c], c, from[c])
      BY <2>3, <3>2 DEF NoneCut
    <3>4. Counts(w, c, kept)
      <4>1. Counts(Merge(usage[c], Reported(c, from[c] + 1, kept)), c, kept)
        <5> HIDE DEF kept
        <5> QED
          BY <2>1, <2>2, <3>3, MergeCounts DEF ChatTyped
      <4> QED
        BY <4>1 DEF w
    <3>5. kept = 0 \/ Body[c][kept].kind # "open"
      BY <2>2, <3>3
    <3> HIDE DEF i, j, kept
    <3>6. CASE from'[c] = j /\ usage'[c] = usage[c] /\ ~M
      <4>1. \A k \in i..j : Body[c][k].kind # "open"
        BY <3>6 DEF M, Matters
      <4>2. i = from[c] + 1 /\ from[c] <= j /\ j \in i..j
        BY <2>1 DEF i
      <4>3. Counts(usage[c], c, j)
        BY <2>1, <3>3, <4>1, <4>2, CountsOver
      <4> QED
        BY <2>6, <3>6, <4>1, <4>2, <4>3
    <3>7. CASE usage'[c] = w /\ from'[c] = kept
      BY <2>6, <3>4, <3>5, <3>7
    <3>8. CASE usage'[c] = w /\ from'[c] = j /\ j - kept > MaxPending /\ ~N
      <4>1. \A k \in (kept + 1)..j : Body[c][k].kind # "open"
        BY <3>8 DEF N, Matters
      <4>2. j \in (kept + 1)..j
        BY <2>1, <2>2, <3>8
      <4>3. Counts(w, c, j)
        BY <2>1, <2>2, <3>4, <3>5, <4>1, CountsOver
      <4> QED
        BY <2>6, <3>8, <4>1, <4>2, <4>3
    <3> QED
      BY <3>2, <3>6, <3>7, <3>8
  <2> QED
    BY <2>5, <2>6
<1>7. CASE OpenOrClose
  BY <1>7 DEF OpenOrClose
<1>8. CASE ChatCrash
  BY <1>8 DEF ChatCrash
<1>9. CASE UNCHANGED chatVars
  BY <1>9 DEF chatVars
<1> QED
  BY ONLY [ChatNext]_chatVars, <1>1, <1>2, <1>3, <1>4, <1>5, <1>6, <1>7, <1>8, <1>9, Zenon
  DEF ChatNext

LEMMA AllCountedKept ==
    ASSUME ChatTyped, ChatPlaces, Quietly, BilledLate, NoneCut, AllCounted, [ChatNext]_chatVars
    PROVE  AllCounted'
<1> USE ChatNats DEF ChatTyped, ChatPlaces, Quietly, BilledLate, AllCounted, chatVars, Trouble,
        Smooth, Moves, Unread, Loses
<1>1. ASSUME NEW c \in Chats, Arrive(c) PROVE AllCounted'
  <2>1. PICK label : talk' = [talk EXCEPT ![c] = label] /\ label # "settle"
    BY <1>1 DEF Arrive
  <2>2. talk[c] \in {"idle", "authorize", "try"} /\ UNCHANGED <<sent, usage, bill, lost>>
    BY <1>1 DEF Arrive
  <2>3. \A u : Counts(u, c, sent[c])
    BY <2>2, CountsNone
  <2> QED
    BY <2>1, <2>2, <2>3
<1>2. ASSUME NEW c \in Chats, Authorize(c) PROVE AllCounted'
  <2>1. PICK label : talk' = [talk EXCEPT ![c] = label] /\ label # "settle"
    BY <1>2 DEF Authorize
  <2>2. talk[c] \in {"idle", "authorize", "try"} /\ UNCHANGED <<sent, usage, bill, lost>>
    BY <1>2 DEF Authorize
  <2>3. \A u : Counts(u, c, sent[c])
    BY <2>2, CountsNone
  <2> QED
    BY <2>1, <2>2, <2>3
<1>3. ASSUME NEW c \in Chats, Attempt(c) PROVE AllCounted'
  <2>1. PICK label : talk' = [talk EXCEPT ![c] = label] /\ label # "settle"
    BY <1>3 DEF Attempt
  <2>2. talk[c] \in {"idle", "authorize", "try"} /\ UNCHANGED <<sent, usage, bill, lost>>
    BY <1>3 DEF Attempt
  <2>3. \A u : Counts(u, c, sent[c])
    BY <2>2, CountsNone
  <2> QED
    BY <2>1, <2>2, <2>3
<1>4. ASSUME NEW c \in Chats, StreamEnds(c) PROVE AllCounted'
  <2> DEFINE w == Merge(usage[c], Reported(c, from[c] + 1, sent[c]))
  <2>1. /\ usage' = [usage EXCEPT ![c] = w] /\ w \in Tokens /\ UNCHANGED <<left, sent, from, bill, lost, sold>>
        /\ talk[c] = "stream" /\ talk' = [talk EXCEPT ![c] = IF w = NoTokens THEN "over" ELSE "settle"]
    BY <1>4, EndIs
  <2>2. from[c] \in Nat /\ from[c] + 1 \in Nat \ {0} /\ sent[c] \in Nat /\ sent[c] <= Len(Body[c])
    BY DEF ChatPlaces
  <2>3. lost[c] = {} => Counts(w, c, sent[c])
    BY <2>1, <2>2, MergeCounts DEF NoneCut, ChatTyped
  <2>4. bill[c] = NoTokens
    BY <2>1 DEF BilledLate
  <2> HIDE DEF w
  <2> QED
    BY <2>1, <2>3, <2>4 DEF AllCounted
<1>5. ASSUME NEW c \in Chats, Settle(c) PROVE AllCounted'
  BY <1>5 DEF Settle
<1>6. ASSUME NEW c \in Chats, NEW n \in 1..MaxPending, Chunk(c, n) PROVE AllCounted'
  <2> DEFINE i == from[c] + 1
             j == sent[c] + n
             kept == LastBlank(c, i, j)
             w == Merge(usage[c], Reported(c, i, kept))
  <2>1. i \in Nat \ {0} /\ j \in Nat /\ i <= j /\ j <= Len(Body[c]) /\ sent[c] \in Nat /\ sent[c] <= j /\ from[c] \in Nat
    <3>1. i \in Nat \ {0} /\ j \in Nat /\ i <= j /\ j <= Len(Body[c])
      BY <1>6, ChunkIs
    <3>2. sent[c] \in Nat /\ from[c] \in Nat /\ sent[c] <= j
      BY DEF ChatPlaces
    <3> QED
      BY <3>1, <3>2
  <2>2. kept \in Nat /\ kept <= j /\ kept <= Len(Body[c]) /\ (kept = from[c] \/ (kept \in i..j /\ Body[c][kept].kind = "blank"))
    <3>1. kept \in Nat /\ (kept = i - 1 \/ (kept \in i..j /\ Body[c][kept].kind = "blank"))
      BY <1>6, ChunkIs
    <3>2. i - 1 = from[c] /\ Len(Body[c]) \in Nat
      BY <2>1, ChatNats
    <3> HIDE DEF i, j, kept
    <3> QED
      BY <2>1, <3>1, <3>2
  <2>3. sent' = [sent EXCEPT ![c] = j] /\ talk[c] = "stream" /\ UNCHANGED <<talk, bill>>
    BY <1>6 DEF Chunk
  <2>4. SUFFICES ASSUME NEW d \in Chats, lost'[d] = {}, talk'[d] \in {"settle", "over"}
                 PROVE  /\ talk'[d] = "settle" => Counts(usage'[d], d, sent'[d])
                        /\ talk'[d] = "over" => Counts(bill'[d], d, sent'[d])
    BY DEF AllCounted
  <2>5. d # c
    BY <2>3, <2>4
  <2>6. /\ \E x : usage' = [usage EXCEPT ![c] = x]
        /\ \E x : lost' = [lost EXCEPT ![c] = x]
    <3>1. usage = [usage EXCEPT ![c] = usage[c]]
      OBVIOUS
    <3> QED
      BY <1>6, <3>1 DEF Chunk, Ingest, Loses
  <2>7. usage'[d] = usage[d] /\ lost'[d] = lost[d] /\ talk' = talk /\ bill' = bill /\ sent'[d] = sent[d]
    BY <2>3, <2>5, <2>6
  <2> QED
    BY <2>4, <2>7 DEF AllCounted
<1>7. CASE OpenOrClose
  BY <1>7 DEF OpenOrClose
<1>8. CASE ChatCrash
  <2>1. SUFFICES ASSUME NEW d \in Chats, lost'[d] = {}
                 PROVE  /\ talk'[d] = "settle" => Counts(usage'[d], d, sent'[d])
                        /\ talk'[d] = "over" => Counts(bill'[d], d, sent'[d])
    OBVIOUS
  <2>2. UNCHANGED <<sent, usage, bill>> /\ talk'[d] = IF talk[d] = "idle" THEN "idle" ELSE "over"
    BY <1>8 DEF ChatCrash
  <2>3. talk[d] \notin {"stream", "settle"} /\ lost[d] = {}
    BY <1>8, <2>1 DEF ChatCrash
  <2>4. CASE talk[d] = "over"
    BY <2>2, <2>3, <2>4
  <2>5. CASE talk[d] # "over"
    <3>1. sent[d] = 0
      BY <2>3, <2>5
    <3>2. Counts(bill[d], d, sent[d])
      BY <3>1, CountsNone
    <3> QED
      BY <2>2, <3>2
  <2> QED
    BY <2>4, <2>5
<1>9. CASE UNCHANGED chatVars
  BY <1>9 DEF chatVars
<1> QED
  BY ONLY [ChatNext]_chatVars, <1>1, <1>2, <1>3, <1>4, <1>5, <1>6, <1>7, <1>8, <1>9, Zenon
  DEF ChatNext

ChatHeld ==
    /\ ChatTyped /\ ChatCounts /\ ChatPlaces /\ Quietly /\ BilledLate /\ NeverMore /\ NoneCut /\ AllCounted

LEMMA ChatStart == ChatInit => ChatHeld
<1> SUFFICES ASSUME ChatInit PROVE ChatHeld
  OBVIOUS
<1>1. NoTokens \in Tokens /\ NoTokens.input = 0 /\ NoTokens.output = 0
  BY DEF NoTokens, Tokens
<1>2. ChatTyped /\ ChatCounts /\ ChatPlaces
  BY <1>1, ChatNats DEF ChatInit, ChatTyped, ChatCounts, ChatPlaces
<1>3. Quietly /\ BilledLate
  BY DEF ChatInit, Quietly, BilledLate
<1>4. NeverMore
  BY <1>1 DEF ChatInit, NeverMore, Earned
<1>5. NoneCut /\ AllCounted
  BY DEF ChatInit, NoneCut, AllCounted
<1> QED
  BY <1>2, <1>3, <1>4, <1>5 DEF ChatHeld

LEMMA ChatInvariant == ChatSpec => []ChatHeld
<1>1. ChatHeld /\ [ChatNext]_chatVars => ChatHeld'
  <2> SUFFICES ASSUME ChatHeld, [ChatNext]_chatVars PROVE ChatHeld'
    OBVIOUS
  <2> QED
    BY ChatTypedKept, ChatPlacesKept, ChatCountsKept, QuietlyKept, BilledLateKept, NeverMoreKept,
       NoneCutKept, AllCountedKept DEF ChatHeld
<1> QED
  BY <1>1, ChatStart, PTL DEF ChatSpec

(* The state of every chat, its counters and its bill keep their types,    *)
(* and the pending frames lie within what was received.                    *)
THEOREM ChatTypeCorrect == ChatSpec => []ChatTypeOK
<1>1. ChatHeld => ChatTypeOK
  BY ChatNats DEF ChatHeld, ChatTyped, ChatCounts, ChatPlaces, ChatTypeOK
<1> QED
  BY <1>1, ChatInvariant, PTL

(* Wherever the chunks are cut and however the stream ends, a chat that is *)
(* over was charged for exactly what the frames forwarded reported, or for *)
(* less and there is a reason; and never for more: for any bodies, frame   *)
(* sizes, faults and changes of the price list (MeteredStream,             *)
(* UsageAccumulator, settle_chat).                                         *)
THEOREM ChatsAreCharged == ChatSpec => []UsageIsCharged
<1>1. ASSUME ChatHeld, NEW c \in Chats
      PROVE  /\ bill[c].input <= Owed(c).input /\ bill[c].output <= Owed(c).output
             /\ talk[c] = "over" /\ lost[c] = {} => bill[c] = Owed(c)
  <2> USE <1>1 DEF ChatHeld
  <2>1. NoTokens \in Tokens /\ NoTokens.input = 0 /\ NoTokens.output = 0
    BY DEF NoTokens, Tokens
  <2>2. bill[c] \in Tokens /\ Earned(bill[c], c, sent[c])
    <3>1. CASE bill[c] = NoTokens
      BY <2>1, <3>1 DEF Earned
    <3>2. CASE bill[c] = usage[c]
      BY <3>2 DEF NeverMore, ChatTyped
    <3> QED
      BY <3>1, <3>2 DEF BilledLate
  <2>3. Owed(c) \in Tokens /\ Counts(Owed(c), c, sent[c])
    BY OwedIs
  <2>4. bill[c].input <= Owed(c).input /\ bill[c].output <= Owed(c).output
    BY <2>2, <2>3, EarnedAtMost
  <2>5. ASSUME talk[c] = "over", lost[c] = {} PROVE bill[c] = Owed(c)
    <3>1. Counts(bill[c], c, sent[c])
      BY <2>5 DEF AllCounted
    <3> QED
      BY <2>2, <3>1, EarnedIsOwed
  <2> QED
    BY <2>4, <2>5
<1>2. ChatHeld => UsageIsCharged
  BY <1>1 DEF UsageIsCharged
<1> QED
  BY <1>2, ChatInvariant, PTL

-----------------------------------------------------------------------------
(* Turns                                                                   *)

Has(r, i) == <<r, i>> \in stored \cup missed
Prefix(r, n) == \A i \in 1..n : Has(r, i)

TurnCounts ==
    /\ run \in 0..MaxRuns /\ closing \subseteq 1..MaxRuns
    /\ length \in 0..MaxEntries /\ unread \subseteq 1..MaxRuns
    /\ remover \in {"idle", "entries", "row", "over"} /\ accidents \in 0..MaxAccidents
TurnFlags ==
    /\ alive \in BOOLEAN /\ turning \in BOOLEAN
    /\ unheard \in BOOLEAN /\ cascade \in BOOLEAN
TurnLabels ==
    /\ row \in {"none", "idle", "running"}
    /\ call \in [Calls -> {"idle", "sent", "givenUp", "accepted", "over"}]
    /\ what \in [Calls -> {"prompt", "abort", "stop"}]
    /\ pass \in [Passes -> {"idle", "lock", "ask", "insert", "cursor", "status", "over"}]
    /\ lock \in [1..MaxRuns -> SUBSET Passes]
TurnPlaces ==
    /\ cursor \in Cursors /\ stored \subseteq Entries /\ missed \subseteq Entries
    /\ of \in [Calls \cup Passes -> 0..MaxRuns]
    /\ since \in [Passes -> Cursors] /\ upto \in [Passes -> 0..MaxEntries]
    /\ next \in [Passes -> 1..(MaxEntries + 1)]

(* The row goes last; a runtime that has ended has no turn.                *)
GoneIsGone ==
    /\ row = "none" => remover = "over"
    /\ (~alive => ~turning) /\ (alive => run > 0)
(* A pass is of a runtime, and writes what it was given.                   *)
PassRange ==
    \A p \in Passes : /\ pass[p] # "idle" => of[p] > 0
                      /\ pass[p] = "insert" => next[p] <= upto[p]
                      /\ pass[p] = "cursor" => upto[p] > 0
TurnsTyped == TurnCounts /\ TurnFlags /\ TurnLabels /\ TurnPlaces /\ GoneIsGone /\ PassRange

FilledCursor == row # "none" => Prefix(cursor[1], cursor[2])
FilledEntries ==
    row # "none" => \A e \in stored, i \in 1..MaxEntries : i < e[2] => Has(e[1], i)
FilledPasses ==
    row # "none" =>
        \A p \in Passes :
            /\ pass[p] = "ask" => Prefix(since[p][1], since[p][2])
            /\ pass[p] = "insert" => Prefix(of[p], next[p] - 1)
            /\ pass[p] = "cursor" => Prefix(of[p], upto[p])
(* Each entry of the runtime is written, or a pass will get to it.         *)
Covered(i) ==
    \E p \in Passes : /\ of[p] = run
                      /\ pass[p] \in {"lock", "ask"} \/ (pass[p] = "insert" /\ upto[p] >= i)
Followed ==
    row # "none" /\ alive /\ ~turning /\ run \notin unread =>
        \A i \in 1..length : Has(run, i) \/ Covered(i)
(* Each entry that is stored came with a pass that was given it.           *)
Working == {"insert", "cursor", "status", "over"}
SourcedEntries ==
    \A e \in stored : \E p \in Passes : pass[p] \in Working /\ of[p] = e[1] /\ upto[p] >= e[2]
GoneEmpty == row = "none" /\ cascade => stored = {}
Pending == ~Settled \/ closing # {} \/ \E q \in Calls : call[q] = "accepted" /\ what[q] = "prompt"
RowTells == row # "none" /\ ~unheard /\ ~Pending => (row = "running" <=> turning)

LEMMA TurnNats == /\ MaxRuns \in Nat /\ MaxEntries \in Nat /\ MaxAccidents \in Nat
                  /\ Calls \subseteq Calls \cup Passes /\ Passes \subseteq Calls \cup Passes
  BY TurnsAssumption

LEMMA PassFacts ==
    ASSUME TurnsTyped, NEW p \in Passes, pass[p] # "idle"
    PROVE  of[p] \in 1..MaxRuns /\ upto[p] \in 0..MaxEntries /\ next[p] \in 1..(MaxEntries + 1)
<1>1. of[p] \in 0..MaxRuns /\ of[p] > 0
  BY DEF TurnsTyped, TurnPlaces, PassRange
<1>2. upto[p] \in 0..MaxEntries /\ next[p] \in 1..(MaxEntries + 1)
  BY DEF TurnsTyped, TurnPlaces
<1> QED
  BY <1>1, <1>2, TurnNats

LEMMA TurnCountsKept ==
    ASSUME TurnsTyped, [TurnsNext]_turnVars
    PROVE  TurnCounts'
<1> USE TurnsAssumption, TurnNats DEF TurnsTyped, TurnCounts, GoneIsGone, TurnPlaces, PassRange,
        Well, Accident, runtimeNow, rows, calls, mirrors, blames, PassOnly, PassMoves, turnVars
<1>1. CASE Launch
  BY <1>1 DEF Launch
<1>2. CASE AddEntry
  BY <1>2 DEF AddEntry
<1>3. CASE Exit
  <2>1. run \in 1..MaxRuns
    BY <1>3 DEF Exit
  <2>2. closing' = closing \cup {run} /\ UNCHANGED <<run, length, unread, remover>>
    BY <1>3 DEF Exit, Ends
  <2>3. accidents' \in 0..MaxAccidents
    BY <1>3 DEF Exit
  <2> QED
    BY <2>1, <2>2, <2>3
<1>4. ASSUME NEW r \in 1..MaxRuns, PumpCloses(r) PROVE TurnCounts'
  BY <1>4 DEF PumpCloses, SetStatus, Wrong
<1>5. ASSUME NEW q \in Calls, Send(q) PROVE TurnCounts'
  BY <1>5 DEF Send
<1>6. ASSUME NEW q \in Calls, Accept(q) PROVE TurnCounts'
  BY <1>6 DEF Accept
<1>7. ASSUME NEW q \in Calls, GiveUp(q) PROVE TurnCounts'
  BY <1>7 DEF GiveUp
<1>8. ASSUME NEW q \in Calls, Record(q) PROVE TurnCounts'
  BY <1>8 DEF Record, SetStatus, Wrong
<1>9. ASSUME NEW p \in Passes, SettleTurn(p) PROVE TurnCounts'
  BY <1>9 DEF SettleTurn
<1>10. ASSUME NEW p \in Passes, BeginPass(p) PROVE TurnCounts'
  BY <1>10 DEF BeginPass, Lock
<1>11. ASSUME NEW p \in Passes, GetEntries(p) PROVE TurnCounts'
  BY <1>11 DEF GetEntries, FirstOf, Unlock
<1>12. ASSUME NEW p \in Passes, GetEntriesFails(p) PROVE TurnCounts'
  <2>1. of[p] \in 1..MaxRuns
    BY <1>12 DEF GetEntriesFails, TurnPlaces, PassRange
  <2>2. accidents' \in 0..MaxAccidents
    BY <1>12 DEF GetEntriesFails
  <2> QED
    BY <1>12, <2>1, <2>2 DEF GetEntriesFails, Unlock
<1>13. ASSUME NEW p \in Passes, Insert(p) PROVE TurnCounts'
  BY <1>13 DEF Insert
<1>14. ASSUME NEW p \in Passes, MoveCursor(p) PROVE TurnCounts'
  BY <1>14 DEF MoveCursor, Unlock, Reached
<1>15. ASSUME NEW p \in Passes, EndPass(p) PROVE TurnCounts'
  BY <1>15 DEF EndPass, Rest, SetStatus, Wrong
<1>16. CASE TearDown
  <2>1. CASE alive
    <3>1. run \in 1..MaxRuns
      BY <2>1
    <3>2. closing' = closing \cup {run} /\ UNCHANGED <<run, length, unread, accidents>> /\ remover' = "entries"
      BY <1>16, <2>1 DEF TearDown, Ends
    <3> QED
      BY <3>1, <3>2
  <2>2. CASE ~alive
    BY <1>16, <2>2 DEF TearDown
  <2> QED
    BY <2>1, <2>2
<1>17. CASE DeleteEntries
  BY <1>17 DEF DeleteEntries
<1>18. CASE DeleteRow
  BY <1>18 DEF DeleteRow
<1>19. CASE Restart
  BY <1>19 DEF Restart, Reset
<1>20. CASE UNCHANGED turnVars
  BY <1>20 DEF turnVars
<1>21. ASSUME NEW q \in Calls, Stop(q) PROVE TurnCounts'
  BY <1>21 DEF Stop, Ends
<1>22. ASSUME NEW q \in Calls, HangUp(q) PROVE TurnCounts'
  BY <1>22 DEF HangUp
<1>23. CASE DeleteStops
  BY <1>23 DEF DeleteStops
<1> QED
  BY <1>1, <1>2, <1>3, <1>4, <1>5, <1>6, <1>7, <1>8, <1>9, <1>10, <1>11,
     <1>12, <1>13, <1>14, <1>15, <1>16, <1>17, <1>18, <1>19, <1>20,
     <1>21, <1>22, <1>23, Zenon
  DEF TurnsNext, CallStep, PassStep, DeleteStep

LEMMA TurnPlacesKept ==
    ASSUME TurnsTyped, [TurnsNext]_turnVars
    PROVE  TurnPlaces'
<1> USE TurnsAssumption, TurnNats DEF TurnsTyped, TurnPlaces, TurnCounts, TurnLabels, PassRange,
        GoneIsGone, Entries, Cursors, Start, Well, Accident, runtimeNow, rows, calls, mirrors,
        blames, PassOnly, PassMoves, turnVars
<1>1. CASE Launch
  BY <1>1 DEF Launch
<1>2. CASE AddEntry
  BY <1>2 DEF AddEntry
<1>3. CASE Exit
  BY <1>3 DEF Exit, Ends
<1>4. ASSUME NEW r \in 1..MaxRuns, PumpCloses(r) PROVE TurnPlaces'
  BY <1>4 DEF PumpCloses, SetStatus, Wrong
<1>5. ASSUME NEW q \in Calls, Send(q) PROVE TurnPlaces'
  BY <1>5 DEF Send
<1>6. ASSUME NEW q \in Calls, Accept(q) PROVE TurnPlaces'
  BY <1>6 DEF Accept
<1>7. ASSUME NEW q \in Calls, GiveUp(q) PROVE TurnPlaces'
  BY <1>7 DEF GiveUp
<1>8. ASSUME NEW q \in Calls, Record(q) PROVE TurnPlaces'
  BY <1>8 DEF Record, SetStatus, Wrong
<1>9. ASSUME NEW p \in Passes, SettleTurn(p) PROVE TurnPlaces'
  BY <1>9 DEF SettleTurn
<1>10. ASSUME NEW p \in Passes, BeginPass(p) PROVE TurnPlaces'
  BY <1>10 DEF BeginPass, Lock
<1>11. ASSUME NEW p \in Passes, GetEntries(p) PROVE TurnPlaces'
  <2>1. since[p] \in (0..MaxRuns) \X (0..MaxEntries)
    OBVIOUS
  <2>2. since[p][2] \in 0..MaxEntries
    BY <2>1
  <2>3. FirstOf(p) \in 1..(MaxEntries + 1)
    BY <2>2 DEF FirstOf
  <2>4. next' \in [Passes -> 1..(MaxEntries + 1)] /\ upto' \in [Passes -> 0..MaxEntries]
    BY <1>11, <2>3 DEF GetEntries
  <2>5. UNCHANGED <<cursor, stored, missed, of, since>>
    BY <1>11 DEF GetEntries
  <2> QED
    BY <2>4, <2>5
<1>12. ASSUME NEW p \in Passes, GetEntriesFails(p) PROVE TurnPlaces'
  BY <1>12 DEF GetEntriesFails, Unlock
<1>13. ASSUME NEW p \in Passes, Insert(p) PROVE TurnPlaces'
  <2>0. pass[p] = "insert" /\ pass[p] # "idle"
    BY <1>13 DEF Insert
  <2>1. of[p] \in 1..MaxRuns /\ next[p] \in 1..upto[p] /\ upto[p] \in 0..MaxEntries
    BY <2>0, PassFacts
  <2>2. <<of[p], next[p]>> \in Entries /\ next[p] + 1 \in 1..(MaxEntries + 1)
    BY <2>1
  <2>3. next' \in [Passes -> 1..(MaxEntries + 1)]
    BY <1>13, <2>2 DEF Insert
  <2>4. stored' \subseteq Entries /\ missed' \subseteq Entries
    BY <1>13, <2>2 DEF Insert
  <2>5. UNCHANGED <<cursor, of, since, upto>>
    BY <1>13 DEF Insert
  <2> QED
    BY <2>3, <2>4, <2>5
<1>14. ASSUME NEW p \in Passes, MoveCursor(p) PROVE TurnPlaces'
  <2>0. pass[p] = "cursor" /\ pass[p] # "idle"
    BY <1>14 DEF MoveCursor
  <2>1. of[p] \in 1..MaxRuns /\ upto[p] \in 1..MaxEntries
    BY <2>0, PassFacts
  <2>2. Reached(p) \in Cursors
    BY <2>1 DEF Reached
  <2>3. cursor' \in Cursors /\ UNCHANGED <<stored, missed, of, since, upto, next>>
    BY <1>14, <2>2 DEF MoveCursor
  <2> QED
    BY <2>3
<1>15. ASSUME NEW p \in Passes, EndPass(p) PROVE TurnPlaces'
  BY <1>15 DEF EndPass, Rest, SetStatus, Wrong
<1>16. CASE TearDown
  BY <1>16 DEF TearDown, Ends
<1>17. CASE DeleteEntries
  BY <1>17 DEF DeleteEntries
<1>18. CASE DeleteRow
  BY <1>18 DEF DeleteRow
<1>19. CASE Restart
  BY <1>19 DEF Restart, Reset
<1>20. CASE UNCHANGED turnVars
  BY <1>20 DEF turnVars
<1>21. ASSUME NEW q \in Calls, Stop(q) PROVE TurnPlaces'
  BY <1>21 DEF Stop, Ends
<1>22. ASSUME NEW q \in Calls, HangUp(q) PROVE TurnPlaces'
  BY <1>22 DEF HangUp
<1>23. CASE DeleteStops
  BY <1>23 DEF DeleteStops
<1> QED
  BY <1>1, <1>2, <1>3, <1>4, <1>5, <1>6, <1>7, <1>8, <1>9, <1>10, <1>11,
     <1>12, <1>13, <1>14, <1>15, <1>16, <1>17, <1>18, <1>19, <1>20,
     <1>21, <1>22, <1>23, Zenon
  DEF TurnsNext, CallStep, PassStep, DeleteStep

LEMMA TurnFlagsKept ==
    ASSUME TurnsTyped, [TurnsNext]_turnVars
    PROVE  TurnFlags'
<1> USE TurnsAssumption, TurnNats DEF TurnsTyped, TurnFlags, Well, Accident, runtimeNow, rows,
        calls, mirrors, blames, PassOnly, PassMoves, turnVars
<1>1. CASE Launch
  BY <1>1 DEF Launch
<1>2. CASE AddEntry
  BY <1>2 DEF AddEntry
<1>3. CASE Exit
  BY <1>3 DEF Exit, Ends
<1>4. ASSUME NEW r \in 1..MaxRuns, PumpCloses(r) PROVE TurnFlags'
  BY <1>4 DEF PumpCloses, SetStatus, Wrong
<1>5. ASSUME NEW q \in Calls, Send(q) PROVE TurnFlags'
  BY <1>5 DEF Send
<1>6. ASSUME NEW q \in Calls, Accept(q) PROVE TurnFlags'
  BY <1>6 DEF Accept
<1>7. ASSUME NEW q \in Calls, GiveUp(q) PROVE TurnFlags'
  BY <1>7 DEF GiveUp
<1>8. ASSUME NEW q \in Calls, Record(q) PROVE TurnFlags'
  BY <1>8 DEF Record, SetStatus, Wrong
<1>9. ASSUME NEW p \in Passes, SettleTurn(p) PROVE TurnFlags'
  BY <1>9 DEF SettleTurn
<1>10. ASSUME NEW p \in Passes, BeginPass(p) PROVE TurnFlags'
  BY <1>10 DEF BeginPass, Lock
<1>11. ASSUME NEW p \in Passes, GetEntries(p) PROVE TurnFlags'
  BY <1>11 DEF GetEntries, FirstOf, Unlock
<1>12. ASSUME NEW p \in Passes, GetEntriesFails(p) PROVE TurnFlags'
  BY <1>12 DEF GetEntriesFails, Unlock
<1>13. ASSUME NEW p \in Passes, Insert(p) PROVE TurnFlags'
  BY <1>13 DEF Insert
<1>14. ASSUME NEW p \in Passes, MoveCursor(p) PROVE TurnFlags'
  BY <1>14 DEF MoveCursor, Unlock, Reached
<1>15. ASSUME NEW p \in Passes, EndPass(p) PROVE TurnFlags'
  BY <1>15 DEF EndPass, Rest, SetStatus, Wrong
<1>16. CASE TearDown
  BY <1>16 DEF TearDown, Ends
<1>17. CASE DeleteEntries
  BY <1>17 DEF DeleteEntries
<1>18. CASE DeleteRow
  BY <1>18 DEF DeleteRow
<1>19. CASE Restart
  BY <1>19 DEF Restart, Reset
<1>20. CASE UNCHANGED turnVars
  BY <1>20 DEF turnVars
<1>21. ASSUME NEW q \in Calls, Stop(q) PROVE TurnFlags'
  BY <1>21 DEF Stop, Ends
<1>22. ASSUME NEW q \in Calls, HangUp(q) PROVE TurnFlags'
  BY <1>22 DEF HangUp
<1>23. CASE DeleteStops
  BY <1>23 DEF DeleteStops
<1> QED
  BY <1>1, <1>2, <1>3, <1>4, <1>5, <1>6, <1>7, <1>8, <1>9, <1>10, <1>11,
     <1>12, <1>13, <1>14, <1>15, <1>16, <1>17, <1>18, <1>19, <1>20,
     <1>21, <1>22, <1>23, Zenon
  DEF TurnsNext, CallStep, PassStep, DeleteStep

LEMMA TurnLabelsKept ==
    ASSUME TurnsTyped, [TurnsNext]_turnVars
    PROVE  TurnLabels'
<1> USE TurnsAssumption, TurnNats DEF TurnsTyped, TurnLabels, Well, Accident, runtimeNow, rows,
        calls, mirrors, blames, PassOnly, PassMoves, turnVars
<1>1. CASE Launch
  BY <1>1 DEF Launch
<1>2. CASE AddEntry
  BY <1>2 DEF AddEntry
<1>3. CASE Exit
  BY <1>3 DEF Exit, Ends
<1>4. ASSUME NEW r \in 1..MaxRuns, PumpCloses(r) PROVE TurnLabels'
  BY <1>4 DEF PumpCloses, SetStatus, Wrong
<1>5. ASSUME NEW q \in Calls, Send(q) PROVE TurnLabels'
  BY <1>5 DEF Send
<1>6. ASSUME NEW q \in Calls, Accept(q) PROVE TurnLabels'
  BY <1>6 DEF Accept
<1>7. ASSUME NEW q \in Calls, GiveUp(q) PROVE TurnLabels'
  BY <1>7 DEF GiveUp
<1>8. ASSUME NEW q \in Calls, Record(q) PROVE TurnLabels'
  BY <1>8 DEF Record, SetStatus, Wrong
<1>9. ASSUME NEW p \in Passes, SettleTurn(p) PROVE TurnLabels'
  BY <1>9 DEF SettleTurn
<1>10. ASSUME NEW p \in Passes, BeginPass(p) PROVE TurnLabels'
  BY <1>10 DEF BeginPass, Lock
<1>11. ASSUME NEW p \in Passes, GetEntries(p) PROVE TurnLabels'
  BY <1>11 DEF GetEntries, FirstOf, Unlock
<1>12. ASSUME NEW p \in Passes, GetEntriesFails(p) PROVE TurnLabels'
  BY <1>12 DEF GetEntriesFails, Unlock
<1>13. ASSUME NEW p \in Passes, Insert(p) PROVE TurnLabels'
  BY <1>13 DEF Insert
<1>14. ASSUME NEW p \in Passes, MoveCursor(p) PROVE TurnLabels'
  BY <1>14 DEF MoveCursor, Unlock, Reached
<1>15. ASSUME NEW p \in Passes, EndPass(p) PROVE TurnLabels'
  BY <1>15 DEF EndPass, Rest, SetStatus, Wrong
<1>16. CASE TearDown
  BY <1>16 DEF TearDown, Ends
<1>17. CASE DeleteEntries
  BY <1>17 DEF DeleteEntries
<1>18. CASE DeleteRow
  BY <1>18 DEF DeleteRow
<1>19. CASE Restart
  BY <1>19 DEF Restart, Reset
<1>20. CASE UNCHANGED turnVars
  BY <1>20 DEF turnVars
<1>21. ASSUME NEW q \in Calls, Stop(q) PROVE TurnLabels'
  BY <1>21 DEF Stop, Ends
<1>22. ASSUME NEW q \in Calls, HangUp(q) PROVE TurnLabels'
  BY <1>22 DEF HangUp
<1>23. CASE DeleteStops
  BY <1>23 DEF DeleteStops
<1> QED
  BY <1>1, <1>2, <1>3, <1>4, <1>5, <1>6, <1>7, <1>8, <1>9, <1>10, <1>11,
     <1>12, <1>13, <1>14, <1>15, <1>16, <1>17, <1>18, <1>19, <1>20,
     <1>21, <1>22, <1>23, Zenon
  DEF TurnsNext, CallStep, PassStep, DeleteStep

LEMMA GoneIsGoneKept ==
    ASSUME TurnsTyped, [TurnsNext]_turnVars
    PROVE  GoneIsGone'
<1> USE TurnsAssumption, TurnNats DEF TurnsTyped, GoneIsGone, TurnCounts, TurnLabels, Well,
        Accident, runtimeNow, rows, calls, mirrors, blames, PassOnly, PassMoves, turnVars
<1>1. CASE Launch
  BY <1>1 DEF Launch
<1>2. CASE AddEntry
  BY <1>2 DEF AddEntry
<1>3. CASE Exit
  BY <1>3 DEF Exit, Ends
<1>4. ASSUME NEW r \in 1..MaxRuns, PumpCloses(r) PROVE GoneIsGone'
  BY <1>4 DEF PumpCloses, SetStatus, Wrong
<1>5. ASSUME NEW q \in Calls, Send(q) PROVE GoneIsGone'
  BY <1>5 DEF Send
<1>6. ASSUME NEW q \in Calls, Accept(q) PROVE GoneIsGone'
  BY <1>6 DEF Accept
<1>7. ASSUME NEW q \in Calls, GiveUp(q) PROVE GoneIsGone'
  BY <1>7 DEF GiveUp
<1>8. ASSUME NEW q \in Calls, Record(q) PROVE GoneIsGone'
  BY <1>8 DEF Record, SetStatus, Wrong
<1>9. ASSUME NEW p \in Passes, SettleTurn(p) PROVE GoneIsGone'
  BY <1>9 DEF SettleTurn
<1>10. ASSUME NEW p \in Passes, BeginPass(p) PROVE GoneIsGone'
  BY <1>10 DEF BeginPass, Lock
<1>11. ASSUME NEW p \in Passes, GetEntries(p) PROVE GoneIsGone'
  BY <1>11 DEF GetEntries, FirstOf, Unlock
<1>12. ASSUME NEW p \in Passes, GetEntriesFails(p) PROVE GoneIsGone'
  BY <1>12 DEF GetEntriesFails, Unlock
<1>13. ASSUME NEW p \in Passes, Insert(p) PROVE GoneIsGone'
  BY <1>13 DEF Insert
<1>14. ASSUME NEW p \in Passes, MoveCursor(p) PROVE GoneIsGone'
  BY <1>14 DEF MoveCursor, Unlock, Reached
<1>15. ASSUME NEW p \in Passes, EndPass(p) PROVE GoneIsGone'
  BY <1>15 DEF EndPass, Rest, SetStatus, Wrong
<1>16. CASE TearDown
  BY <1>16 DEF TearDown, Ends
<1>17. CASE DeleteEntries
  BY <1>17 DEF DeleteEntries
<1>18. CASE DeleteRow
  BY <1>18 DEF DeleteRow
<1>19. CASE Restart
  BY <1>19 DEF Restart, Reset
<1>20. CASE UNCHANGED turnVars
  BY <1>20 DEF turnVars
<1>21. ASSUME NEW q \in Calls, Stop(q) PROVE GoneIsGone'
  BY <1>21 DEF Stop, Ends
<1>22. ASSUME NEW q \in Calls, HangUp(q) PROVE GoneIsGone'
  BY <1>22 DEF HangUp
<1>23. CASE DeleteStops
  BY <1>23 DEF DeleteStops
<1> QED
  BY <1>1, <1>2, <1>3, <1>4, <1>5, <1>6, <1>7, <1>8, <1>9, <1>10, <1>11,
     <1>12, <1>13, <1>14, <1>15, <1>16, <1>17, <1>18, <1>19, <1>20,
     <1>21, <1>22, <1>23, Zenon
  DEF TurnsNext, CallStep, PassStep, DeleteStep

LEMMA PassRangeKept ==
    ASSUME TurnsTyped, [TurnsNext]_turnVars
    PROVE  PassRange'
<1> USE TurnsAssumption, TurnNats DEF TurnsTyped, PassRange, TurnCounts, TurnPlaces, TurnLabels,
        GoneIsGone, Well, Accident, runtimeNow, rows, calls, mirrors, blames, PassOnly, PassMoves,
        turnVars
<1>1. CASE Launch
  BY <1>1 DEF Launch
<1>2. CASE AddEntry
  BY <1>2 DEF AddEntry
<1>3. CASE Exit
  BY <1>3 DEF Exit, Ends
<1>4. ASSUME NEW r \in 1..MaxRuns, PumpCloses(r) PROVE PassRange'
  BY <1>4 DEF PumpCloses, SetStatus, Wrong
<1>5. ASSUME NEW q \in Calls, Send(q) PROVE PassRange'
  BY <1>5 DEF Send
<1>6. ASSUME NEW q \in Calls, Accept(q) PROVE PassRange'
  BY <1>6 DEF Accept
<1>7. ASSUME NEW q \in Calls, GiveUp(q) PROVE PassRange'
  BY <1>7 DEF GiveUp
<1>8. ASSUME NEW q \in Calls, Record(q) PROVE PassRange'
  BY <1>8 DEF Record, SetStatus, Wrong
<1>9. ASSUME NEW p \in Passes, SettleTurn(p) PROVE PassRange'
  BY <1>9 DEF SettleTurn
<1>10. ASSUME NEW p \in Passes, BeginPass(p) PROVE PassRange'
  BY <1>10 DEF BeginPass, Lock
<1>11. ASSUME NEW p \in Passes, GetEntries(p) PROVE PassRange'
  BY <1>11 DEF GetEntries, FirstOf, Unlock
<1>12. ASSUME NEW p \in Passes, GetEntriesFails(p) PROVE PassRange'
  BY <1>12 DEF GetEntriesFails, Unlock
<1>13. ASSUME NEW p \in Passes, Insert(p) PROVE PassRange'
  BY <1>13 DEF Insert
<1>14. ASSUME NEW p \in Passes, MoveCursor(p) PROVE PassRange'
  BY <1>14 DEF MoveCursor, Unlock, Reached
<1>15. ASSUME NEW p \in Passes, EndPass(p) PROVE PassRange'
  BY <1>15 DEF EndPass, Rest, SetStatus, Wrong
<1>16. CASE TearDown
  BY <1>16 DEF TearDown, Ends
<1>17. CASE DeleteEntries
  BY <1>17 DEF DeleteEntries
<1>18. CASE DeleteRow
  BY <1>18 DEF DeleteRow
<1>19. CASE Restart
  BY <1>19 DEF Restart, Reset
<1>20. CASE UNCHANGED turnVars
  BY <1>20 DEF turnVars
<1>21. ASSUME NEW q \in Calls, Stop(q) PROVE PassRange'
  BY <1>21 DEF Stop, Ends
<1>22. ASSUME NEW q \in Calls, HangUp(q) PROVE PassRange'
  BY <1>22 DEF HangUp
<1>23. CASE DeleteStops
  BY <1>23 DEF DeleteStops
<1> QED
  BY <1>1, <1>2, <1>3, <1>4, <1>5, <1>6, <1>7, <1>8, <1>9, <1>10, <1>11,
     <1>12, <1>13, <1>14, <1>15, <1>16, <1>17, <1>18, <1>19, <1>20,
     <1>21, <1>22, <1>23, Zenon
  DEF TurnsNext, CallStep, PassStep, DeleteStep

LEMMA TurnsTypedInit == TurnsInit => TurnsTyped
<1> SUFFICES ASSUME TurnsInit PROVE TurnsTyped
  OBVIOUS
<1> USE TurnNats DEF TurnsInit
<1>1. TurnCounts
  BY DEF TurnCounts
<1>6. TurnFlags
  BY DEF TurnFlags
<1>2. TurnLabels
  BY DEF TurnLabels
<1>3. TurnPlaces
  BY DEF TurnPlaces, Cursors, Start
<1>4. GoneIsGone /\ PassRange
  BY DEF GoneIsGone, PassRange
<1> QED
  BY <1>1, <1>2, <1>3, <1>4, <1>6 DEF TurnsTyped

LEMMA TurnsTypedKept == ASSUME TurnsTyped, [TurnsNext]_turnVars PROVE TurnsTyped'
<1>1. TurnCounts'
  BY TurnCountsKept DEF TurnsTyped
<1>6. TurnFlags'
  BY TurnFlagsKept DEF TurnsTyped
<1>2. TurnLabels'
  BY TurnLabelsKept DEF TurnsTyped
<1>3. TurnPlaces'
  BY TurnPlacesKept DEF TurnsTyped
<1>4. GoneIsGone'
  BY GoneIsGoneKept DEF TurnsTyped
<1>5. PassRange'
  BY PassRangeKept DEF TurnsTyped
<1> QED
  BY <1>1, <1>2, <1>3, <1>4, <1>5, <1>6 DEF TurnsTyped

LEMMA StoredGrows ==
    ASSUME TurnsTyped, [TurnsNext]_turnVars, row' # "none"
    PROVE  /\ row # "none"
           /\ \A x : x \in stored \cup missed => x \in stored' \cup missed'
<1> DEFINE Goal == row # "none" /\ \A x : x \in stored \cup missed => x \in stored' \cup missed'
<1> USE DEF TurnsTyped, GoneIsGone, Well, Accident, runtimeNow, rows, calls, mirrors, blames, PassOnly, PassMoves, turnVars
<1>1. CASE Launch
  BY <1>1 DEF Launch
<1>2. CASE AddEntry
  BY <1>2 DEF AddEntry
<1>3. CASE Exit
  BY <1>3 DEF Exit, Ends
<1>4. ASSUME NEW r \in 1..MaxRuns, PumpCloses(r) PROVE Goal
  BY <1>4 DEF PumpCloses, SetStatus, Wrong
<1>5. ASSUME NEW q \in Calls, Send(q) PROVE Goal
  BY <1>5 DEF Send
<1>6. ASSUME NEW q \in Calls, Accept(q) PROVE Goal
  BY <1>6 DEF Accept
<1>7. ASSUME NEW q \in Calls, GiveUp(q) PROVE Goal
  BY <1>7 DEF GiveUp
<1>8. ASSUME NEW q \in Calls, Record(q) PROVE Goal
  BY <1>8 DEF Record, SetStatus, Wrong
<1>9. ASSUME NEW p \in Passes, SettleTurn(p) PROVE Goal
  BY <1>9 DEF SettleTurn
<1>10. ASSUME NEW p \in Passes, BeginPass(p) PROVE Goal
  BY <1>10 DEF BeginPass, Lock
<1>11. ASSUME NEW p \in Passes, GetEntries(p) PROVE Goal
  BY <1>11 DEF GetEntries, FirstOf, Unlock
<1>12. ASSUME NEW p \in Passes, GetEntriesFails(p) PROVE Goal
  BY <1>12 DEF GetEntriesFails, Unlock
<1>13. ASSUME NEW p \in Passes, Insert(p) PROVE Goal
  BY <1>13 DEF Insert
<1>14. ASSUME NEW p \in Passes, MoveCursor(p) PROVE Goal
  BY <1>14 DEF MoveCursor, Unlock, Reached
<1>15. ASSUME NEW p \in Passes, EndPass(p) PROVE Goal
  BY <1>15 DEF EndPass, Rest, SetStatus, Wrong
<1>16. CASE TearDown
  BY <1>16 DEF TearDown, Ends
<1>17. CASE DeleteEntries
  BY <1>17 DEF DeleteEntries
<1>18. CASE DeleteRow
  BY <1>18 DEF DeleteRow
<1>19. CASE Restart
  BY <1>19 DEF Restart, Reset
<1>20. CASE UNCHANGED turnVars
  BY <1>20 DEF turnVars
<1>21. ASSUME NEW q \in Calls, Stop(q) PROVE Goal
  BY <1>21 DEF Stop, Ends
<1>22. ASSUME NEW q \in Calls, HangUp(q) PROVE Goal
  BY <1>22 DEF HangUp
<1>23. CASE DeleteStops
  BY <1>23 DEF DeleteStops
<1> QED
  BY <1>1, <1>2, <1>3, <1>4, <1>5, <1>6, <1>7, <1>8, <1>9, <1>10, <1>11,
     <1>12, <1>13, <1>14, <1>15, <1>16, <1>17, <1>18, <1>19, <1>20,
     <1>21, <1>22, <1>23, Zenon
  DEF TurnsNext, CallStep, PassStep, DeleteStep

LEMMA FilledCursorKept ==
    ASSUME TurnsTyped, FilledCursor, FilledPasses, [TurnsNext]_turnVars
    PROVE  FilledCursor'
<1> USE TurnNats DEF FilledCursor, Prefix, Has, Well, Accident, runtimeNow, rows, calls, mirrors,
        blames, PassOnly, PassMoves, turnVars
<1>1. CASE Launch
  BY <1>1 DEF Launch
<1>2. CASE AddEntry
  BY <1>2 DEF AddEntry
<1>3. CASE Exit
  BY <1>3 DEF Exit, Ends
<1>4. ASSUME NEW r \in 1..MaxRuns, PumpCloses(r) PROVE FilledCursor'
  BY <1>4 DEF PumpCloses, SetStatus, Wrong
<1>5. ASSUME NEW q \in Calls, Send(q) PROVE FilledCursor'
  BY <1>5 DEF Send
<1>6. ASSUME NEW q \in Calls, Accept(q) PROVE FilledCursor'
  BY <1>6 DEF Accept
<1>7. ASSUME NEW q \in Calls, GiveUp(q) PROVE FilledCursor'
  BY <1>7 DEF GiveUp
<1>8. ASSUME NEW q \in Calls, Record(q) PROVE FilledCursor'
  BY <1>8 DEF Record, SetStatus, Wrong
<1>9. ASSUME NEW p \in Passes, SettleTurn(p) PROVE FilledCursor'
  BY <1>9 DEF SettleTurn
<1>10. ASSUME NEW p \in Passes, BeginPass(p) PROVE FilledCursor'
  BY <1>10 DEF BeginPass, Lock
<1>11. ASSUME NEW p \in Passes, GetEntries(p) PROVE FilledCursor'
  BY <1>11 DEF GetEntries, FirstOf, Unlock
<1>12. ASSUME NEW p \in Passes, GetEntriesFails(p) PROVE FilledCursor'
  BY <1>12 DEF GetEntriesFails, Unlock
<1>13. ASSUME NEW p \in Passes, Insert(p) PROVE FilledCursor'
  BY <1>13 DEF Insert
<1>14. ASSUME NEW p \in Passes, MoveCursor(p) PROVE FilledCursor'
  <2>1. CASE row' = "none"
    BY <2>1
  <2>2. CASE row' # "none"
    <3>1. row # "none" /\ pass[p] = "cursor" /\ UNCHANGED <<stored, missed>>
      BY <1>14, <2>2 DEF MoveCursor
    <3>2. Prefix(of[p], upto[p]) /\ Prefix(cursor[1], cursor[2])
      BY <3>1 DEF FilledPasses
    <3>3. CASE cursor' = cursor
      BY <3>1, <3>2, <3>3
    <3>4. CASE cursor' = <<of[p], upto[p]>>
      BY <3>1, <3>2, <3>4
    <3>5. cursor' = cursor \/ cursor' = <<of[p], upto[p]>>
      BY <1>14 DEF MoveCursor, Reached
    <3> QED
      BY ONLY <3>3, <3>4, <3>5, Zenon
  <2> QED
    BY ONLY <2>1, <2>2, Zenon
<1>15. ASSUME NEW p \in Passes, EndPass(p) PROVE FilledCursor'
  BY <1>15 DEF EndPass, Rest, SetStatus, Wrong
<1>16. CASE TearDown
  BY <1>16 DEF TearDown, Ends
<1>17. CASE DeleteEntries
  BY <1>17 DEF DeleteEntries
<1>18. CASE DeleteRow
  BY <1>18 DEF DeleteRow
<1>19. CASE Restart
  BY <1>19 DEF Restart, Reset
<1>20. CASE UNCHANGED turnVars
  BY <1>20 DEF turnVars
<1>21. ASSUME NEW q \in Calls, Stop(q) PROVE FilledCursor'
  BY <1>21 DEF Stop, Ends
<1>22. ASSUME NEW q \in Calls, HangUp(q) PROVE FilledCursor'
  BY <1>22 DEF HangUp
<1>23. CASE DeleteStops
  BY <1>23 DEF DeleteStops
<1> QED
  BY <1>1, <1>2, <1>3, <1>4, <1>5, <1>6, <1>7, <1>8, <1>9, <1>10, <1>11,
     <1>12, <1>13, <1>14, <1>15, <1>16, <1>17, <1>18, <1>19, <1>20,
     <1>21, <1>22, <1>23, Zenon
  DEF TurnsNext, CallStep, PassStep, DeleteStep

LEMMA FilledEntriesKept ==
    ASSUME TurnsTyped, FilledEntries, FilledPasses, [TurnsNext]_turnVars
    PROVE  FilledEntries'
<1> USE TurnNats DEF FilledEntries, Has, Well, Accident, runtimeNow, rows, calls, mirrors, blames,
        PassOnly, PassMoves, turnVars
<1>1. CASE Launch
  BY <1>1 DEF Launch
<1>2. CASE AddEntry
  BY <1>2 DEF AddEntry
<1>3. CASE Exit
  BY <1>3 DEF Exit, Ends
<1>4. ASSUME NEW r \in 1..MaxRuns, PumpCloses(r) PROVE FilledEntries'
  BY <1>4 DEF PumpCloses, SetStatus, Wrong
<1>5. ASSUME NEW q \in Calls, Send(q) PROVE FilledEntries'
  BY <1>5 DEF Send
<1>6. ASSUME NEW q \in Calls, Accept(q) PROVE FilledEntries'
  BY <1>6 DEF Accept
<1>7. ASSUME NEW q \in Calls, GiveUp(q) PROVE FilledEntries'
  BY <1>7 DEF GiveUp
<1>8. ASSUME NEW q \in Calls, Record(q) PROVE FilledEntries'
  BY <1>8 DEF Record, SetStatus, Wrong
<1>9. ASSUME NEW p \in Passes, SettleTurn(p) PROVE FilledEntries'
  BY <1>9 DEF SettleTurn
<1>10. ASSUME NEW p \in Passes, BeginPass(p) PROVE FilledEntries'
  BY <1>10 DEF BeginPass, Lock
<1>11. ASSUME NEW p \in Passes, GetEntries(p) PROVE FilledEntries'
  BY <1>11 DEF GetEntries, FirstOf, Unlock
<1>12. ASSUME NEW p \in Passes, GetEntriesFails(p) PROVE FilledEntries'
  BY <1>12 DEF GetEntriesFails, Unlock
<1>13. ASSUME NEW p \in Passes, Insert(p) PROVE FilledEntries'
  <2> SUFFICES ASSUME row' # "none", NEW e \in stored', NEW i \in 1..MaxEntries, i < e[2]
               PROVE  Has(e[1], i)'
    BY DEF FilledEntries
  <2>1. row # "none" /\ \A x : x \in stored \cup missed => x \in stored' \cup missed'
    BY <1>13, StoredGrows DEF TurnsNext, PassStep
  <2>2. pass[p] = "insert" /\ (e \in stored \/ e = <<of[p], next[p]>>)
    BY <1>13 DEF Insert
  <2>3. CASE e \in stored
    BY <2>1, <2>3 DEF FilledEntries, Has
  <2>4. CASE e = <<of[p], next[p]>>
    <3>1. Prefix(of[p], next[p] - 1)
      BY <2>1, <2>2 DEF FilledPasses
    <3>2. i \in 1..(next[p] - 1) /\ e[1] = of[p]
      BY <2>2, <2>4, PassFacts
    <3> QED
      BY <2>1, <3>1, <3>2 DEF Prefix, Has
  <2> QED
    BY <2>2, <2>3, <2>4
<1>14. ASSUME NEW p \in Passes, MoveCursor(p) PROVE FilledEntries'
  BY <1>14 DEF MoveCursor, Unlock, Reached
<1>15. ASSUME NEW p \in Passes, EndPass(p) PROVE FilledEntries'
  BY <1>15 DEF EndPass, Rest, SetStatus, Wrong
<1>16. CASE TearDown
  BY <1>16 DEF TearDown, Ends
<1>17. CASE DeleteEntries
  BY <1>17 DEF DeleteEntries
<1>18. CASE DeleteRow
  BY <1>18 DEF DeleteRow
<1>19. CASE Restart
  BY <1>19 DEF Restart, Reset
<1>20. CASE UNCHANGED turnVars
  BY <1>20 DEF turnVars
<1>21. ASSUME NEW q \in Calls, Stop(q) PROVE FilledEntries'
  BY <1>21 DEF Stop, Ends
<1>22. ASSUME NEW q \in Calls, HangUp(q) PROVE FilledEntries'
  BY <1>22 DEF HangUp
<1>23. CASE DeleteStops
  BY <1>23 DEF DeleteStops
<1> QED
  BY <1>1, <1>2, <1>3, <1>4, <1>5, <1>6, <1>7, <1>8, <1>9, <1>10, <1>11,
     <1>12, <1>13, <1>14, <1>15, <1>16, <1>17, <1>18, <1>19, <1>20,
     <1>21, <1>22, <1>23, Zenon
  DEF TurnsNext, CallStep, PassStep, DeleteStep

LEMMA FilledPassesKept ==
    ASSUME TurnsTyped, FilledCursor, FilledPasses, [TurnsNext]_turnVars
    PROVE  FilledPasses'
<1> USE TurnNats DEF FilledPasses, Prefix, Has, Well, Accident, runtimeNow, rows, calls, mirrors,
        blames, PassOnly, PassMoves, turnVars
<1>1. CASE Launch
  BY <1>1 DEF Launch
<1>2. CASE AddEntry
  BY <1>2 DEF AddEntry
<1>3. CASE Exit
  BY <1>3 DEF Exit, Ends
<1>4. ASSUME NEW r \in 1..MaxRuns, PumpCloses(r) PROVE FilledPasses'
  BY <1>4 DEF PumpCloses, SetStatus, Wrong
<1>5. ASSUME NEW q \in Calls, Send(q) PROVE FilledPasses'
  <2>1. \A p \in Passes : of'[p] = of[p]
    BY <1>5, TurnsAssumption DEF Send, TurnsTyped, TurnPlaces
  <2> QED
    BY <1>5, <2>1 DEF Send
<1>6. ASSUME NEW q \in Calls, Accept(q) PROVE FilledPasses'
  BY <1>6 DEF Accept
<1>7. ASSUME NEW q \in Calls, GiveUp(q) PROVE FilledPasses'
  BY <1>7 DEF GiveUp
<1>8. ASSUME NEW q \in Calls, Record(q) PROVE FilledPasses'
  BY <1>8 DEF Record, SetStatus, Wrong
<1>9. ASSUME NEW p \in Passes, SettleTurn(p) PROVE FilledPasses'
  BY <1>9 DEF SettleTurn
<1>10. ASSUME NEW p \in Passes, BeginPass(p) PROVE FilledPasses'
  <2> SUFFICES ASSUME row' # "none", NEW o \in Passes
               PROVE  /\ pass'[o] = "ask" => Prefix(since[o][1], since[o][2])'
                      /\ pass'[o] = "insert" => Prefix(of[o], next[o] - 1)'
                      /\ pass'[o] = "cursor" => Prefix(of[o], upto[o])'
    BY DEF FilledPasses
  <2>1. row # "none" /\ \A x : x \in stored \cup missed => x \in stored' \cup missed'
    BY <1>10, StoredGrows DEF TurnsNext, PassStep
  <2>2. /\ pass[o] = "ask" => Prefix(since[o][1], since[o][2])
        /\ pass[o] = "insert" => Prefix(of[o], next[o] - 1)
        /\ pass[o] = "cursor" => Prefix(of[o], upto[o])
    BY <2>1 DEF FilledPasses
  <2>3. /\ pass'[p] = "ask" /\ since'[p] = cursor /\ UNCHANGED <<of, next, upto, stored, missed, cursor>>
        /\ o # p => pass'[o] = pass[o] /\ since'[o] = since[o]
    BY <1>10 DEF BeginPass, Lock, TurnsTyped, TurnLabels, TurnPlaces
  <2>4. Prefix(cursor[1], cursor[2])
    BY <2>1 DEF FilledCursor
  <2> QED
    BY <2>2, <2>3, <2>4 DEF Prefix, Has
<1>11. ASSUME NEW p \in Passes, GetEntries(p) PROVE FilledPasses'
  <2> SUFFICES ASSUME row' # "none", NEW o \in Passes
               PROVE  /\ pass'[o] = "ask" => Prefix(since[o][1], since[o][2])'
                      /\ pass'[o] = "insert" => Prefix(of[o], next[o] - 1)'
                      /\ pass'[o] = "cursor" => Prefix(of[o], upto[o])'
    BY DEF FilledPasses
  <2>1. row # "none" /\ \A x : x \in stored \cup missed => x \in stored' \cup missed'
    BY <1>11, StoredGrows DEF TurnsNext, PassStep
  <2>2. /\ pass[o] = "ask" => Prefix(since[o][1], since[o][2])
        /\ pass[o] = "insert" => Prefix(of[o], next[o] - 1)
        /\ pass[o] = "cursor" => Prefix(of[o], upto[o])
    BY <2>1 DEF FilledPasses
  <2>3. CASE o # p
    <3>1. /\ pass'[o] = pass[o] /\ next'[o] = next[o] /\ upto'[o] = upto[o]
          /\ UNCHANGED <<of, since, stored, missed>>
      BY <1>11, <2>3 DEF GetEntries, Unlock, TurnsTyped, TurnLabels, TurnPlaces
    <3> QED
      BY <2>1, <2>2, <3>1 DEF Prefix, Has
  <2>4. CASE o = p
    <3>1. /\ pass[p] = "ask" /\ of[p] = run /\ next'[p] = FirstOf(p)
          /\ UNCHANGED <<of, since, stored, missed>> /\ pass'[p] \in {"insert", "status"}
      BY <1>11 DEF GetEntries, Unlock, TurnsTyped, TurnLabels, TurnPlaces
    <3>2. since[p] \in Cursors
      BY DEF TurnsTyped, TurnPlaces
    <3>3. CASE since[p][1] = run
      <4>1. FirstOf(p) - 1 = since[p][2]
        BY <3>2, <3>3 DEF FirstOf, Cursors, Entries, Start
      <4> QED
        BY <2>1, <2>2, <2>4, <3>1, <3>3, <4>1 DEF Prefix, Has
    <3>4. CASE since[p][1] # run
      BY <2>4, <3>1, <3>4 DEF Prefix, FirstOf
    <3> QED
      BY <3>3, <3>4
  <2> QED
    BY <2>3, <2>4
<1>12. ASSUME NEW p \in Passes, GetEntriesFails(p) PROVE FilledPasses'
  BY <1>12 DEF GetEntriesFails, Unlock
<1>13. ASSUME NEW p \in Passes, Insert(p) PROVE FilledPasses'
  <2> SUFFICES ASSUME row' # "none", NEW o \in Passes
               PROVE  /\ pass'[o] = "ask" => Prefix(since[o][1], since[o][2])'
                      /\ pass'[o] = "insert" => Prefix(of[o], next[o] - 1)'
                      /\ pass'[o] = "cursor" => Prefix(of[o], upto[o])'
    BY DEF FilledPasses
  <2>1. row # "none" /\ \A x : x \in stored \cup missed => x \in stored' \cup missed'
    BY <1>13, StoredGrows DEF TurnsNext, PassStep
  <2>2. /\ pass[o] = "ask" => Prefix(since[o][1], since[o][2])
        /\ pass[o] = "insert" => Prefix(of[o], next[o] - 1)
        /\ pass[o] = "cursor" => Prefix(of[o], upto[o])
    BY <2>1 DEF FilledPasses
  <2>3. CASE o # p
    <3>1. pass'[o] = pass[o] /\ next'[o] = next[o] /\ UNCHANGED <<of, since, upto>>
      BY <1>13, <2>3 DEF Insert
    <3> QED
      BY <2>1, <2>2, <3>1 DEF Prefix, Has
  <2>4. CASE o = p
    <3>1. /\ pass[p] = "insert" /\ next'[p] = next[p] + 1 /\ UNCHANGED <<of, since, upto>>
          /\ pass'[p] = IF next[p] = upto[p] THEN "cursor" ELSE "insert"
      BY <1>13 DEF Insert, TurnsTyped, TurnLabels, TurnPlaces
    <3>2. <<of[p], next[p]>> \in stored' \cup missed'
      BY <1>13, <2>1 DEF Insert, TurnsTyped, GoneIsGone
    <3>3. next[p] \in 1..upto[p] /\ upto[p] \in Nat
      BY <3>1, PassFacts DEF TurnsTyped, PassRange
    <3>4. \A i \in 1..next[p] : <<of[p], i>> \in stored' \cup missed'
      <4> SUFFICES ASSUME NEW i \in 1..next[p] PROVE <<of[p], i>> \in stored' \cup missed'
        OBVIOUS
      <4>1. CASE i = next[p]
        BY <3>2, <4>1
      <4>2. CASE i # next[p]
        <5>1. i \in 1..(next[p] - 1)
          BY <3>3, <4>2
        <5> QED
          BY <2>1, <2>2, <3>1, <5>1 DEF Prefix, Has
      <4> QED
        BY <4>1, <4>2
    <3>5. next'[p] - 1 = next[p]
      BY <3>1, <3>3
    <3> QED
      BY <2>4, <3>1, <3>4, <3>5 DEF Prefix, Has
  <2> QED
    BY <2>3, <2>4
<1>14. ASSUME NEW p \in Passes, MoveCursor(p) PROVE FilledPasses'
  BY <1>14 DEF MoveCursor, Unlock, Reached
<1>15. ASSUME NEW p \in Passes, EndPass(p) PROVE FilledPasses'
  BY <1>15 DEF EndPass, Rest, SetStatus, Wrong
<1>16. CASE TearDown
  BY <1>16 DEF TearDown, Ends
<1>17. CASE DeleteEntries
  BY <1>17 DEF DeleteEntries
<1>18. CASE DeleteRow
  BY <1>18 DEF DeleteRow
<1>19. CASE Restart
  BY <1>19 DEF Restart, Reset
<1>20. CASE UNCHANGED turnVars
  BY <1>20 DEF turnVars
<1>21. ASSUME NEW q \in Calls, Stop(q) PROVE FilledPasses'
  <2>1. \A p \in Passes : of'[p] = of[p]
    BY <1>21, TurnsAssumption DEF Stop, TurnsTyped, TurnPlaces
  <2> QED
    BY <1>21, <2>1 DEF Stop, Ends
<1>22. ASSUME NEW q \in Calls, HangUp(q) PROVE FilledPasses'
  BY <1>22 DEF HangUp
<1>23. CASE DeleteStops
  BY <1>23 DEF DeleteStops
<1> QED
  BY <1>1, <1>2, <1>3, <1>4, <1>5, <1>6, <1>7, <1>8, <1>9, <1>10, <1>11,
     <1>12, <1>13, <1>14, <1>15, <1>16, <1>17, <1>18, <1>19, <1>20,
     <1>21, <1>22, <1>23, Zenon
  DEF TurnsNext, CallStep, PassStep, DeleteStep

LEMMA FollowedKept ==
    ASSUME TurnsTyped, FilledCursor, FilledPasses, Followed, [TurnsNext]_turnVars
    PROVE  Followed'
<1> USE TurnNats DEF Well, Accident, runtimeNow, rows, calls, mirrors, blames, PassOnly, PassMoves,
        turnVars
<1>1. CASE Launch
  BY <1>1 DEF Followed, Launch
<1>2. CASE AddEntry
  BY <1>2 DEF Followed, AddEntry
<1>3. CASE Exit
  BY <1>3 DEF Followed, Exit, Ends
<1>4. ASSUME NEW r \in 1..MaxRuns, PumpCloses(r) PROVE Followed'
  <2> SUFFICES ASSUME row' # "none", alive', ~turning', run' \notin unread', NEW i \in 1..length'
               PROVE  Has(run, i)' \/ Covered(i)'
    BY DEF Followed
  <2>1. row # "none" /\ \A x : x \in stored \cup missed => x \in stored' \cup missed'
    BY <1>4, StoredGrows DEF TurnsNext, PassStep, CallStep
  <2>2. alive /\ ~turning /\ run \notin unread /\ UNCHANGED <<run, length>>
    BY <1>4 DEF PumpCloses, SetStatus, Wrong
  <2>3. Has(run, i) \/ Covered(i)
    BY <2>1, <2>2 DEF Followed
  <2>4. CASE Has(run, i)
    BY <2>1, <2>2, <2>4 DEF Has
  <2>5. CASE Covered(i)
    <3>1. PICK o \in Passes : of[o] = run /\ (pass[o] \in {"lock", "ask"} \/ (pass[o] = "insert" /\ upto[o] >= i))
      BY <2>5 DEF Covered
    <3>2. of'[o] = of[o] /\ upto'[o] = upto[o] /\ (pass[o] \in {"lock", "ask"} => pass'[o] \in {"lock", "ask"})
      BY <1>4, <2>2, <3>1, TurnsAssumption DEF PumpCloses, SetStatus, Wrong, TurnsTyped, TurnLabels, TurnPlaces
    <3>3. pass[o] = "insert" => pass'[o] = "insert"
      BY <1>4, <3>1 DEF PumpCloses, SetStatus, Wrong, TurnsTyped, TurnLabels, TurnPlaces
    <3> QED
      BY <2>2, <3>1, <3>2, <3>3 DEF Covered
  <2> QED
    BY <2>3, <2>4, <2>5
<1>5. ASSUME NEW q \in Calls, Send(q) PROVE Followed'
  <2> SUFFICES ASSUME row' # "none", alive', ~turning', run' \notin unread', NEW i \in 1..length'
               PROVE  Has(run, i)' \/ Covered(i)'
    BY DEF Followed
  <2>1. row # "none" /\ \A x : x \in stored \cup missed => x \in stored' \cup missed'
    BY <1>5, StoredGrows DEF TurnsNext, PassStep, CallStep
  <2>2. alive /\ ~turning /\ run \notin unread /\ UNCHANGED <<run, length>>
    BY <1>5 DEF Send
  <2>3. Has(run, i) \/ Covered(i)
    BY <2>1, <2>2 DEF Followed
  <2>4. CASE Has(run, i)
    BY <2>1, <2>2, <2>4 DEF Has
  <2>5. CASE Covered(i)
    <3>1. PICK o \in Passes : of[o] = run /\ (pass[o] \in {"lock", "ask"} \/ (pass[o] = "insert" /\ upto[o] >= i))
      BY <2>5 DEF Covered
    <3>2. of'[o] = of[o] /\ upto'[o] = upto[o] /\ (pass[o] \in {"lock", "ask"} => pass'[o] \in {"lock", "ask"})
      BY <1>5, <2>2, <3>1, TurnsAssumption DEF Send, TurnsTyped, TurnLabels, TurnPlaces
    <3>3. pass[o] = "insert" => pass'[o] = "insert"
      BY <1>5, <3>1 DEF Send, TurnsTyped, TurnLabels, TurnPlaces
    <3> QED
      BY <2>2, <3>1, <3>2, <3>3 DEF Covered
  <2> QED
    BY <2>3, <2>4, <2>5
<1>6. ASSUME NEW q \in Calls, Accept(q) PROVE Followed'
  <2> SUFFICES ASSUME row' # "none", alive', ~turning', run' \notin unread', NEW i \in 1..length'
               PROVE  Has(run, i)' \/ Covered(i)'
    BY DEF Followed
  <2>1. row # "none" /\ \A x : x \in stored \cup missed => x \in stored' \cup missed'
    BY <1>6, StoredGrows DEF TurnsNext, PassStep, CallStep
  <2>2. alive /\ ~turning /\ run \notin unread /\ UNCHANGED <<run, length>>
    BY <1>6 DEF Accept
  <2>3. Has(run, i) \/ Covered(i)
    BY <2>1, <2>2 DEF Followed
  <2>4. CASE Has(run, i)
    BY <2>1, <2>2, <2>4 DEF Has
  <2>5. CASE Covered(i)
    <3>1. PICK o \in Passes : of[o] = run /\ (pass[o] \in {"lock", "ask"} \/ (pass[o] = "insert" /\ upto[o] >= i))
      BY <2>5 DEF Covered
    <3>2. of'[o] = of[o] /\ upto'[o] = upto[o] /\ (pass[o] \in {"lock", "ask"} => pass'[o] \in {"lock", "ask"})
      BY <1>6, <2>2, <3>1, TurnsAssumption DEF Accept, TurnsTyped, TurnLabels, TurnPlaces
    <3>3. pass[o] = "insert" => pass'[o] = "insert"
      BY <1>6, <3>1 DEF Accept, TurnsTyped, TurnLabels, TurnPlaces
    <3> QED
      BY <2>2, <3>1, <3>2, <3>3 DEF Covered
  <2> QED
    BY <2>3, <2>4, <2>5
<1>7. ASSUME NEW q \in Calls, GiveUp(q) PROVE Followed'
  <2> SUFFICES ASSUME row' # "none", alive', ~turning', run' \notin unread', NEW i \in 1..length'
               PROVE  Has(run, i)' \/ Covered(i)'
    BY DEF Followed
  <2>1. row # "none" /\ \A x : x \in stored \cup missed => x \in stored' \cup missed'
    BY <1>7, StoredGrows DEF TurnsNext, PassStep, CallStep
  <2>2. alive /\ ~turning /\ run \notin unread /\ UNCHANGED <<run, length>>
    BY <1>7 DEF GiveUp
  <2>3. Has(run, i) \/ Covered(i)
    BY <2>1, <2>2 DEF Followed
  <2>4. CASE Has(run, i)
    BY <2>1, <2>2, <2>4 DEF Has
  <2>5. CASE Covered(i)
    <3>1. PICK o \in Passes : of[o] = run /\ (pass[o] \in {"lock", "ask"} \/ (pass[o] = "insert" /\ upto[o] >= i))
      BY <2>5 DEF Covered
    <3>2. of'[o] = of[o] /\ upto'[o] = upto[o] /\ (pass[o] \in {"lock", "ask"} => pass'[o] \in {"lock", "ask"})
      BY <1>7, <2>2, <3>1, TurnsAssumption DEF GiveUp, TurnsTyped, TurnLabels, TurnPlaces
    <3>3. pass[o] = "insert" => pass'[o] = "insert"
      BY <1>7, <3>1 DEF GiveUp, TurnsTyped, TurnLabels, TurnPlaces
    <3> QED
      BY <2>2, <3>1, <3>2, <3>3 DEF Covered
  <2> QED
    BY <2>3, <2>4, <2>5
<1>8. ASSUME NEW q \in Calls, Record(q) PROVE Followed'
  <2> SUFFICES ASSUME row' # "none", alive', ~turning', run' \notin unread', NEW i \in 1..length'
               PROVE  Has(run, i)' \/ Covered(i)'
    BY DEF Followed
  <2>1. row # "none" /\ \A x : x \in stored \cup missed => x \in stored' \cup missed'
    BY <1>8, StoredGrows DEF TurnsNext, PassStep, CallStep
  <2>2. alive /\ ~turning /\ run \notin unread /\ UNCHANGED <<run, length>>
    BY <1>8 DEF Record, SetStatus, Wrong
  <2>3. Has(run, i) \/ Covered(i)
    BY <2>1, <2>2 DEF Followed
  <2>4. CASE Has(run, i)
    BY <2>1, <2>2, <2>4 DEF Has
  <2>5. CASE Covered(i)
    <3>1. PICK o \in Passes : of[o] = run /\ (pass[o] \in {"lock", "ask"} \/ (pass[o] = "insert" /\ upto[o] >= i))
      BY <2>5 DEF Covered
    <3>2. of'[o] = of[o] /\ upto'[o] = upto[o] /\ (pass[o] \in {"lock", "ask"} => pass'[o] \in {"lock", "ask"})
      BY <1>8, <2>2, <3>1, TurnsAssumption DEF Record, SetStatus, Wrong, TurnsTyped, TurnLabels, TurnPlaces
    <3>3. pass[o] = "insert" => pass'[o] = "insert"
      BY <1>8, <3>1 DEF Record, SetStatus, Wrong, TurnsTyped, TurnLabels, TurnPlaces
    <3> QED
      BY <2>2, <3>1, <3>2, <3>3 DEF Covered
  <2> QED
    BY <2>3, <2>4, <2>5
<1>9. ASSUME NEW p \in Passes, SettleTurn(p) PROVE Followed'
  <2> SUFFICES ASSUME row' # "none", alive', ~turning', run' \notin unread', NEW i \in 1..length'
               PROVE  Has(run, i)' \/ Covered(i)'
    BY DEF Followed
  <2>1. pass'[p] = "lock" /\ of'[p] = run'
    BY <1>9 DEF SettleTurn, TurnsTyped, TurnLabels, TurnPlaces
  <2> QED
    BY <2>1 DEF Covered
<1>10. ASSUME NEW p \in Passes, BeginPass(p) PROVE Followed'
  <2> SUFFICES ASSUME row' # "none", alive', ~turning', run' \notin unread', NEW i \in 1..length'
               PROVE  Has(run, i)' \/ Covered(i)'
    BY DEF Followed
  <2>1. row # "none" /\ \A x : x \in stored \cup missed => x \in stored' \cup missed'
    BY <1>10, StoredGrows DEF TurnsNext, PassStep, CallStep
  <2>2. alive /\ ~turning /\ run \notin unread /\ UNCHANGED <<run, length>>
    BY <1>10 DEF BeginPass, Lock
  <2>3. Has(run, i) \/ Covered(i)
    BY <2>1, <2>2 DEF Followed
  <2>4. CASE Has(run, i)
    BY <2>1, <2>2, <2>4 DEF Has
  <2>5. CASE Covered(i)
    <3>1. PICK o \in Passes : of[o] = run /\ (pass[o] \in {"lock", "ask"} \/ (pass[o] = "insert" /\ upto[o] >= i))
      BY <2>5 DEF Covered
    <3>2. of'[o] = of[o] /\ upto'[o] = upto[o] /\ (pass[o] \in {"lock", "ask"} => pass'[o] \in {"lock", "ask"})
      BY <1>10, <2>2, <3>1, TurnsAssumption DEF BeginPass, Lock, TurnsTyped, TurnLabels, TurnPlaces
    <3>3. pass[o] = "insert" => pass'[o] = "insert"
      BY <1>10, <3>1 DEF BeginPass, Lock, TurnsTyped, TurnLabels, TurnPlaces
    <3> QED
      BY <2>2, <3>1, <3>2, <3>3 DEF Covered
  <2> QED
    BY <2>3, <2>4, <2>5
<1>11. ASSUME NEW p \in Passes, GetEntries(p) PROVE Followed'
  <2> SUFFICES ASSUME row' # "none", alive', ~turning', run' \notin unread', NEW i \in 1..length'
               PROVE  Has(run, i)' \/ Covered(i)'
    BY DEF Followed
  <2>1. row # "none" /\ \A x : x \in stored \cup missed => x \in stored' \cup missed'
    BY <1>11, StoredGrows DEF TurnsNext, PassStep
  <2>2. pass[p] = "ask" /\ of[p] = run /\ UNCHANGED <<run, length, of, since, stored, missed>>
    BY <1>11 DEF GetEntries
  <2>3. CASE FirstOf(p) <= length
    <3>1. pass'[p] = "insert" /\ upto'[p] = length
      BY <1>11, <2>3 DEF GetEntries, TurnsTyped, TurnLabels, TurnPlaces
    <3>2. upto'[p] >= i
      BY <2>2, <3>1 DEF TurnsTyped, TurnCounts
    <3> QED
      BY <2>2, <3>1, <3>2 DEF Covered
  <2>4. CASE ~(FirstOf(p) <= length)
    <3>1. since[p] \in Cursors /\ length \in Nat
      BY DEF TurnsTyped, TurnPlaces, TurnCounts
    <3>2. since[p][1] = run /\ i \in 1..since[p][2]
      BY <2>2, <2>4, <3>1 DEF FirstOf, Cursors, Entries, Start
    <3>3. Prefix(since[p][1], since[p][2])
      BY <2>1, <2>2 DEF FilledPasses
    <3> QED
      BY <2>2, <3>2, <3>3 DEF Prefix, Has
  <2> QED
    BY <2>3, <2>4
<1>12. ASSUME NEW p \in Passes, GetEntriesFails(p) PROVE Followed'
  <2> SUFFICES ASSUME row' # "none", alive', ~turning', run' \notin unread', NEW i \in 1..length'
               PROVE  Has(run, i)' \/ Covered(i)'
    BY DEF Followed
  <2>1. row # "none" /\ \A x : x \in stored \cup missed => x \in stored' \cup missed'
    BY <1>12, StoredGrows DEF TurnsNext, PassStep, CallStep
  <2>2. alive /\ ~turning /\ run \notin unread /\ UNCHANGED <<run, length>>
    BY <1>12 DEF GetEntriesFails, Unlock
  <2>3. Has(run, i) \/ Covered(i)
    BY <2>1, <2>2 DEF Followed
  <2>4. CASE Has(run, i)
    BY <2>1, <2>2, <2>4 DEF Has
  <2>5. CASE Covered(i)
    <3>1. PICK o \in Passes : of[o] = run /\ (pass[o] \in {"lock", "ask"} \/ (pass[o] = "insert" /\ upto[o] >= i))
      BY <2>5 DEF Covered
    <3>2. of'[o] = of[o] /\ upto'[o] = upto[o] /\ (pass[o] \in {"lock", "ask"} => pass'[o] \in {"lock", "ask"})
      BY <1>12, <2>2, <3>1, TurnsAssumption DEF GetEntriesFails, Unlock, TurnsTyped, TurnLabels, TurnPlaces
    <3>3. pass[o] = "insert" => pass'[o] = "insert"
      BY <1>12, <3>1 DEF GetEntriesFails, Unlock, TurnsTyped, TurnLabels, TurnPlaces
    <3> QED
      BY <2>2, <3>1, <3>2, <3>3 DEF Covered
  <2> QED
    BY <2>3, <2>4, <2>5
<1>13. ASSUME NEW p \in Passes, Insert(p) PROVE Followed'
  <2> SUFFICES ASSUME row' # "none", alive', ~turning', run' \notin unread', NEW i \in 1..length'
               PROVE  Has(run, i)' \/ Covered(i)'
    BY DEF Followed
  <2>1. row # "none" /\ \A x : x \in stored \cup missed => x \in stored' \cup missed'
    BY <1>13, StoredGrows DEF TurnsNext, PassStep
  <2>2. alive /\ ~turning /\ run \notin unread /\ UNCHANGED <<run, length>>
    BY <1>13 DEF Insert
  <2>3. Has(run, i) \/ Covered(i)
    BY <2>1, <2>2 DEF Followed
  <2>4. CASE Has(run, i)
    BY <2>1, <2>2, <2>4 DEF Has
  <2>5. CASE Covered(i)
    <3>1. PICK o \in Passes : of[o] = run /\ (pass[o] \in {"lock", "ask"} \/ (pass[o] = "insert" /\ upto[o] >= i))
      BY <2>5 DEF Covered
    <3>2. UNCHANGED <<of, upto>> /\ (o # p => pass'[o] = pass[o]) /\ pass[p] = "insert"
      BY <1>13 DEF Insert, TurnsTyped, TurnLabels, TurnPlaces
    <3>3. CASE o # p
      BY <2>2, <3>1, <3>2, <3>3 DEF Covered
    <3>4. CASE o = p /\ pass'[p] = "insert"
      BY <2>2, <3>1, <3>2, <3>4 DEF Covered
    <3>5. CASE o = p /\ pass'[p] # "insert"
      <4>1. pass'[p] = "cursor"
        BY <1>13, <3>5 DEF Insert, TurnsTyped, TurnLabels, TurnPlaces
      <4>2. Prefix(of[p], upto[p])'
        BY <4>1, FilledPassesKept, <1>13 DEF TurnsNext, PassStep, FilledPasses
      <4>3. i \in 1..upto[p]
        BY <3>1, <3>2, <3>5, PassFacts
      <4> QED
        BY <2>2, <3>1, <3>2, <3>5, <4>2, <4>3 DEF Prefix
    <3> QED
      BY <3>3, <3>4, <3>5
  <2> QED
    BY <2>3, <2>4, <2>5
<1>14. ASSUME NEW p \in Passes, MoveCursor(p) PROVE Followed'
  <2> SUFFICES ASSUME row' # "none", alive', ~turning', run' \notin unread', NEW i \in 1..length'
               PROVE  Has(run, i)' \/ Covered(i)'
    BY DEF Followed
  <2>1. row # "none" /\ \A x : x \in stored \cup missed => x \in stored' \cup missed'
    BY <1>14, StoredGrows DEF TurnsNext, PassStep, CallStep
  <2>2. alive /\ ~turning /\ run \notin unread /\ UNCHANGED <<run, length>>
    BY <1>14 DEF MoveCursor, Unlock, Reached
  <2>3. Has(run, i) \/ Covered(i)
    BY <2>1, <2>2 DEF Followed
  <2>4. CASE Has(run, i)
    BY <2>1, <2>2, <2>4 DEF Has
  <2>5. CASE Covered(i)
    <3>1. PICK o \in Passes : of[o] = run /\ (pass[o] \in {"lock", "ask"} \/ (pass[o] = "insert" /\ upto[o] >= i))
      BY <2>5 DEF Covered
    <3>2. of'[o] = of[o] /\ upto'[o] = upto[o] /\ (pass[o] \in {"lock", "ask"} => pass'[o] \in {"lock", "ask"})
      BY <1>14, <2>2, <3>1, TurnsAssumption DEF MoveCursor, Unlock, Reached, TurnsTyped, TurnLabels, TurnPlaces
    <3>3. pass[o] = "insert" => pass'[o] = "insert"
      BY <1>14, <3>1 DEF MoveCursor, Unlock, Reached, TurnsTyped, TurnLabels, TurnPlaces
    <3> QED
      BY <2>2, <3>1, <3>2, <3>3 DEF Covered
  <2> QED
    BY <2>3, <2>4, <2>5
<1>15. ASSUME NEW p \in Passes, EndPass(p) PROVE Followed'
  <2> SUFFICES ASSUME row' # "none", alive', ~turning', run' \notin unread', NEW i \in 1..length'
               PROVE  Has(run, i)' \/ Covered(i)'
    BY DEF Followed
  <2>1. row # "none" /\ \A x : x \in stored \cup missed => x \in stored' \cup missed'
    BY <1>15, StoredGrows DEF TurnsNext, PassStep, CallStep
  <2>2. alive /\ ~turning /\ run \notin unread /\ UNCHANGED <<run, length>>
    BY <1>15 DEF EndPass, Rest, SetStatus, Wrong
  <2>3. Has(run, i) \/ Covered(i)
    BY <2>1, <2>2 DEF Followed
  <2>4. CASE Has(run, i)
    BY <2>1, <2>2, <2>4 DEF Has
  <2>5. CASE Covered(i)
    <3>1. PICK o \in Passes : of[o] = run /\ (pass[o] \in {"lock", "ask"} \/ (pass[o] = "insert" /\ upto[o] >= i))
      BY <2>5 DEF Covered
    <3>2. of'[o] = of[o] /\ upto'[o] = upto[o] /\ (pass[o] \in {"lock", "ask"} => pass'[o] \in {"lock", "ask"})
      BY <1>15, <2>2, <3>1, TurnsAssumption DEF EndPass, Rest, SetStatus, Wrong, TurnsTyped, TurnLabels, TurnPlaces
    <3>3. pass[o] = "insert" => pass'[o] = "insert"
      BY <1>15, <3>1 DEF EndPass, Rest, SetStatus, Wrong, TurnsTyped, TurnLabels, TurnPlaces
    <3> QED
      BY <2>2, <3>1, <3>2, <3>3 DEF Covered
  <2> QED
    BY <2>3, <2>4, <2>5
<1>16. CASE TearDown
  BY <1>16 DEF Followed, TearDown, Ends
<1>17. CASE DeleteEntries
  <2> SUFFICES ASSUME row' # "none", alive', ~turning', run' \notin unread', NEW i \in 1..length'
               PROVE  Has(run, i)' \/ Covered(i)'
    BY DEF Followed
  <2>1. row # "none" /\ \A x : x \in stored \cup missed => x \in stored' \cup missed'
    BY <1>17, StoredGrows DEF TurnsNext, DeleteStep
  <2>2. alive /\ ~turning /\ run \notin unread /\ UNCHANGED <<run, length>>
    BY <1>17 DEF DeleteEntries
  <2>3. Has(run, i) \/ Covered(i)
    BY <2>1, <2>2 DEF Followed
  <2>4. CASE Has(run, i)
    BY <2>1, <2>2, <2>4 DEF Has
  <2>5. CASE Covered(i)
    <3>1. PICK o \in Passes : of[o] = run /\ (pass[o] \in {"lock", "ask"} \/ (pass[o] = "insert" /\ upto[o] >= i))
      BY <2>5 DEF Covered
    <3>2. of'[o] = of[o] /\ upto'[o] = upto[o] /\ (pass[o] \in {"lock", "ask"} => pass'[o] \in {"lock", "ask"})
      BY <1>17, <2>2, <3>1, TurnsAssumption DEF DeleteEntries, TurnsTyped, TurnLabels, TurnPlaces
    <3>3. pass[o] = "insert" => pass'[o] = "insert"
      BY <1>17, <3>1 DEF DeleteEntries, TurnsTyped, TurnLabels, TurnPlaces
    <3> QED
      BY <2>2, <3>1, <3>2, <3>3 DEF Covered
  <2> QED
    BY <2>3, <2>4, <2>5
<1>18. CASE DeleteRow
  BY <1>18 DEF Followed, DeleteRow
<1>19. CASE Restart
  BY <1>19 DEF Followed, Restart, Reset
<1>20. CASE UNCHANGED turnVars
  BY <1>20 DEF turnVars, Followed, Covered, Has
<1>21. ASSUME NEW q \in Calls, Stop(q) PROVE Followed'
  BY <1>21 DEF Followed, Stop, Ends
<1>22. ASSUME NEW q \in Calls, HangUp(q) PROVE Followed'
  <2> SUFFICES ASSUME row' # "none", alive', ~turning', run' \notin unread', NEW i \in 1..length'
               PROVE  Has(run, i)' \/ Covered(i)'
    BY DEF Followed
  <2>1. row # "none" /\ \A x : x \in stored \cup missed => x \in stored' \cup missed'
    BY <1>22, StoredGrows DEF TurnsNext, PassStep, CallStep
  <2>2. alive /\ ~turning /\ run \notin unread /\ UNCHANGED <<run, length>>
    BY <1>22 DEF HangUp
  <2>3. Has(run, i) \/ Covered(i)
    BY <2>1, <2>2 DEF Followed
  <2>4. CASE Has(run, i)
    BY <2>1, <2>2, <2>4 DEF Has
  <2>5. CASE Covered(i)
    <3>1. PICK o \in Passes : of[o] = run /\ (pass[o] \in {"lock", "ask"} \/ (pass[o] = "insert" /\ upto[o] >= i))
      BY <2>5 DEF Covered
    <3>2. of'[o] = of[o] /\ upto'[o] = upto[o] /\ (pass[o] \in {"lock", "ask"} => pass'[o] \in {"lock", "ask"})
      BY <1>22, <2>2, <3>1, TurnsAssumption DEF HangUp, TurnsTyped, TurnLabels, TurnPlaces
    <3>3. pass[o] = "insert" => pass'[o] = "insert"
      BY <1>22, <3>1 DEF HangUp, TurnsTyped, TurnLabels, TurnPlaces
    <3> QED
      BY <2>2, <3>1, <3>2, <3>3 DEF Covered
  <2> QED
    BY <2>3, <2>4, <2>5
<1>23. CASE DeleteStops
  <2> SUFFICES ASSUME row' # "none", alive', ~turning', run' \notin unread', NEW i \in 1..length'
               PROVE  Has(run, i)' \/ Covered(i)'
    BY DEF Followed
  <2>1. row # "none" /\ \A x : x \in stored \cup missed => x \in stored' \cup missed'
    BY <1>23, StoredGrows DEF TurnsNext, DeleteStep
  <2>2. alive /\ ~turning /\ run \notin unread /\ UNCHANGED <<run, length>>
    BY <1>23 DEF DeleteStops
  <2>3. Has(run, i) \/ Covered(i)
    BY <2>1, <2>2 DEF Followed
  <2>4. CASE Has(run, i)
    BY <2>1, <2>2, <2>4 DEF Has
  <2>5. CASE Covered(i)
    <3>1. PICK o \in Passes : of[o] = run /\ (pass[o] \in {"lock", "ask"} \/ (pass[o] = "insert" /\ upto[o] >= i))
      BY <2>5 DEF Covered
    <3>2. of'[o] = of[o] /\ upto'[o] = upto[o] /\ (pass[o] \in {"lock", "ask"} => pass'[o] \in {"lock", "ask"})
      BY <1>23, <2>2, <3>1, TurnsAssumption DEF DeleteStops, TurnsTyped, TurnLabels, TurnPlaces
    <3>3. pass[o] = "insert" => pass'[o] = "insert"
      BY <1>23, <3>1 DEF DeleteStops, TurnsTyped, TurnLabels, TurnPlaces
    <3> QED
      BY <2>2, <3>1, <3>2, <3>3 DEF Covered
  <2> QED
    BY <2>3, <2>4, <2>5
<1> QED
  BY <1>1, <1>2, <1>3, <1>4, <1>5, <1>6, <1>7, <1>8, <1>9, <1>10, <1>11,
     <1>12, <1>13, <1>14, <1>15, <1>16, <1>17, <1>18, <1>19, <1>20,
     <1>21, <1>22, <1>23, Zenon
  DEF TurnsNext, CallStep, PassStep, DeleteStep

LEMMA SourcedKept ==
    ASSUME TurnsTyped, SourcedEntries, [TurnsNext]_turnVars
    PROVE  SourcedEntries'
<1> USE TurnNats DEF SourcedEntries, Well, Accident, runtimeNow, rows, calls, mirrors, blames,
        PassOnly, PassMoves, turnVars
<1>1. CASE Launch
  BY <1>1 DEF Launch
<1>2. CASE AddEntry
  BY <1>2 DEF AddEntry
<1>3. CASE Exit
  BY <1>3 DEF Exit, Ends
<1>4. ASSUME NEW r \in 1..MaxRuns, PumpCloses(r) PROVE SourcedEntries'
  BY <1>4 DEF PumpCloses, SetStatus, Wrong
<1>5. ASSUME NEW q \in Calls, Send(q) PROVE SourcedEntries'
  <2>1. \A p \in Passes : of'[p] = of[p]
    BY <1>5, TurnsAssumption DEF Send, TurnsTyped, TurnPlaces
  <2> QED
    BY <1>5, <2>1 DEF Send
<1>6. ASSUME NEW q \in Calls, Accept(q) PROVE SourcedEntries'
  BY <1>6 DEF Accept
<1>7. ASSUME NEW q \in Calls, GiveUp(q) PROVE SourcedEntries'
  BY <1>7 DEF GiveUp
<1>8. ASSUME NEW q \in Calls, Record(q) PROVE SourcedEntries'
  BY <1>8 DEF Record, SetStatus, Wrong
<1>9. ASSUME NEW p \in Passes, SettleTurn(p) PROVE SourcedEntries'
  <2> SUFFICES ASSUME NEW e \in stored'
               PROVE  \E p1 \in Passes : pass'[p1] \in Working /\ of'[p1] = e[1] /\ upto'[p1] >= e[2]
    BY DEF SourcedEntries
  <2>1. /\ e \in stored /\ UNCHANGED upto /\ pass[p] = "idle"
        /\ \A o \in Passes : o # p => pass'[o] = pass[o] /\ of'[o] = of[o]
    BY <1>9 DEF SettleTurn
  <2>2. PICK p1 \in Passes : pass[p1] \in Working /\ of[p1] = e[1] /\ upto[p1] >= e[2]
    BY <2>1 DEF SourcedEntries
  <2> QED
    BY <2>1, <2>2 DEF Working
<1>10. ASSUME NEW p \in Passes, BeginPass(p) PROVE SourcedEntries'
  <2> SUFFICES ASSUME NEW e \in stored'
               PROVE  \E p1 \in Passes : pass'[p1] \in Working /\ of'[p1] = e[1] /\ upto'[p1] >= e[2]
    BY DEF SourcedEntries
  <2>1. e \in stored /\ UNCHANGED <<of, upto>>
    BY <1>10 DEF BeginPass, Lock
  <2>2. PICK p1 \in Passes : pass[p1] \in Working /\ of[p1] = e[1] /\ upto[p1] >= e[2]
    BY <2>1 DEF SourcedEntries
  <2>3. pass'[p1] \in Working
    BY <1>10, <2>2 DEF BeginPass, Lock, Working
  <2> QED
    BY <2>1, <2>2, <2>3
<1>11. ASSUME NEW p \in Passes, GetEntries(p) PROVE SourcedEntries'
  <2> SUFFICES ASSUME NEW e \in stored'
               PROVE  \E p1 \in Passes : pass'[p1] \in Working /\ of'[p1] = e[1] /\ upto'[p1] >= e[2]
    BY DEF SourcedEntries
  <2>1. /\ e \in stored /\ UNCHANGED of /\ pass[p] = "ask"
        /\ \A o \in Passes : o # p => pass'[o] = pass[o] /\ upto'[o] = upto[o]
    BY <1>11 DEF GetEntries, Unlock, TurnsTyped, TurnLabels, TurnPlaces
  <2>2. PICK p1 \in Passes : pass[p1] \in Working /\ of[p1] = e[1] /\ upto[p1] >= e[2]
    BY <2>1 DEF SourcedEntries
  <2> QED
    BY <2>1, <2>2 DEF Working
<1>12. ASSUME NEW p \in Passes, GetEntriesFails(p) PROVE SourcedEntries'
  <2> SUFFICES ASSUME NEW e \in stored'
               PROVE  \E p1 \in Passes : pass'[p1] \in Working /\ of'[p1] = e[1] /\ upto'[p1] >= e[2]
    BY DEF SourcedEntries
  <2>1. e \in stored /\ UNCHANGED <<of, upto>>
    BY <1>12 DEF GetEntriesFails, Unlock
  <2>2. PICK p1 \in Passes : pass[p1] \in Working /\ of[p1] = e[1] /\ upto[p1] >= e[2]
    BY <2>1 DEF SourcedEntries
  <2>3. pass'[p1] \in Working
    BY <1>12, <2>2 DEF GetEntriesFails, Unlock, Working
  <2> QED
    BY <2>1, <2>2, <2>3
<1>13. ASSUME NEW p \in Passes, Insert(p) PROVE SourcedEntries'
  <2> SUFFICES ASSUME NEW e \in stored'
               PROVE  \E p1 \in Passes : pass'[p1] \in Working /\ of'[p1] = e[1] /\ upto'[p1] >= e[2]
    BY DEF SourcedEntries
  <2>1. pass[p] = "insert" /\ UNCHANGED <<of, upto>> /\ (e \in stored \/ e = <<of[p], next[p]>>)
    BY <1>13 DEF Insert
  <2>2. \A p1 \in Passes : pass[p1] \in Working => pass'[p1] \in Working
    BY <1>13 DEF Insert, Working
  <2>3. CASE e \in stored
    BY <2>1, <2>2, <2>3 DEF SourcedEntries
  <2>4. CASE e = <<of[p], next[p]>>
    <3>1. e[1] = of[p] /\ upto[p] >= e[2]
      BY <2>1, <2>4, PassFacts DEF TurnsTyped, PassRange
    <3> QED
      BY <2>1, <2>2, <3>1 DEF Working
  <2> QED
    BY <2>1, <2>3, <2>4
<1>14. ASSUME NEW p \in Passes, MoveCursor(p) PROVE SourcedEntries'
  <2> SUFFICES ASSUME NEW e \in stored'
               PROVE  \E p1 \in Passes : pass'[p1] \in Working /\ of'[p1] = e[1] /\ upto'[p1] >= e[2]
    BY DEF SourcedEntries
  <2>1. e \in stored /\ UNCHANGED <<of, upto>>
    BY <1>14 DEF MoveCursor, Unlock, Reached
  <2>2. PICK p1 \in Passes : pass[p1] \in Working /\ of[p1] = e[1] /\ upto[p1] >= e[2]
    BY <2>1 DEF SourcedEntries
  <2>3. pass'[p1] \in Working
    BY <1>14, <2>2 DEF MoveCursor, Unlock, Reached, Working
  <2> QED
    BY <2>1, <2>2, <2>3
<1>15. ASSUME NEW p \in Passes, EndPass(p) PROVE SourcedEntries'
  <2> SUFFICES ASSUME NEW e \in stored'
               PROVE  \E p1 \in Passes : pass'[p1] \in Working /\ of'[p1] = e[1] /\ upto'[p1] >= e[2]
    BY DEF SourcedEntries
  <2>1. e \in stored /\ UNCHANGED <<of, upto>>
    BY <1>15 DEF EndPass, Rest, SetStatus, Wrong
  <2>2. PICK p1 \in Passes : pass[p1] \in Working /\ of[p1] = e[1] /\ upto[p1] >= e[2]
    BY <2>1 DEF SourcedEntries
  <2>3. pass'[p1] \in Working
    BY <1>15, <2>2 DEF EndPass, Rest, SetStatus, Wrong, Working
  <2> QED
    BY <2>1, <2>2, <2>3
<1>16. CASE TearDown
  BY <1>16 DEF TearDown, Ends
<1>17. CASE DeleteEntries
  BY <1>17 DEF DeleteEntries
<1>18. CASE DeleteRow
  BY <1>18 DEF DeleteRow
<1>19. CASE Restart
  <2> SUFFICES ASSUME NEW e \in stored'
               PROVE  \E p1 \in Passes : pass'[p1] \in Working /\ of'[p1] = e[1] /\ upto'[p1] >= e[2]
    BY DEF SourcedEntries
  <2>1. e \in stored /\ UNCHANGED <<of, upto>>
    BY <1>19 DEF Restart, Reset
  <2>2. PICK p1 \in Passes : pass[p1] \in Working /\ of[p1] = e[1] /\ upto[p1] >= e[2]
    BY <2>1 DEF SourcedEntries
  <2>3. pass'[p1] \in Working
    BY <1>19, <2>2 DEF Restart, Reset, Working
  <2> QED
    BY <2>1, <2>2, <2>3
<1>20. CASE UNCHANGED turnVars
  BY <1>20 DEF turnVars
<1>21. ASSUME NEW q \in Calls, Stop(q) PROVE SourcedEntries'
  <2>1. \A p \in Passes : of'[p] = of[p]
    BY <1>21, TurnsAssumption DEF Stop, TurnsTyped, TurnPlaces
  <2> QED
    BY <1>21, <2>1 DEF Stop, Ends
<1>22. ASSUME NEW q \in Calls, HangUp(q) PROVE SourcedEntries'
  BY <1>22 DEF HangUp
<1>23. CASE DeleteStops
  BY <1>23 DEF DeleteStops
<1> QED
  BY <1>1, <1>2, <1>3, <1>4, <1>5, <1>6, <1>7, <1>8, <1>9, <1>10, <1>11,
     <1>12, <1>13, <1>14, <1>15, <1>16, <1>17, <1>18, <1>19, <1>20,
     <1>21, <1>22, <1>23, Zenon
  DEF TurnsNext, CallStep, PassStep, DeleteStep

LEMMA GoneEmptyKept ==
    ASSUME TurnsTyped, GoneEmpty, [TurnsNext]_turnVars
    PROVE  GoneEmpty'
<1> USE TurnNats DEF GoneEmpty, TurnsTyped, GoneIsGone, Well, Accident, runtimeNow, rows, calls,
        mirrors, blames, PassOnly, PassMoves, turnVars
<1>1. CASE Launch
  BY <1>1 DEF Launch
<1>2. CASE AddEntry
  BY <1>2 DEF AddEntry
<1>3. CASE Exit
  BY <1>3 DEF Exit, Ends
<1>4. ASSUME NEW r \in 1..MaxRuns, PumpCloses(r) PROVE GoneEmpty'
  BY <1>4 DEF PumpCloses, SetStatus, Wrong
<1>5. ASSUME NEW q \in Calls, Send(q) PROVE GoneEmpty'
  BY <1>5 DEF Send
<1>6. ASSUME NEW q \in Calls, Accept(q) PROVE GoneEmpty'
  BY <1>6 DEF Accept
<1>7. ASSUME NEW q \in Calls, GiveUp(q) PROVE GoneEmpty'
  BY <1>7 DEF GiveUp
<1>8. ASSUME NEW q \in Calls, Record(q) PROVE GoneEmpty'
  BY <1>8 DEF Record, SetStatus, Wrong
<1>9. ASSUME NEW p \in Passes, SettleTurn(p) PROVE GoneEmpty'
  BY <1>9 DEF SettleTurn
<1>10. ASSUME NEW p \in Passes, BeginPass(p) PROVE GoneEmpty'
  BY <1>10 DEF BeginPass, Lock
<1>11. ASSUME NEW p \in Passes, GetEntries(p) PROVE GoneEmpty'
  BY <1>11 DEF GetEntries, FirstOf, Unlock
<1>12. ASSUME NEW p \in Passes, GetEntriesFails(p) PROVE GoneEmpty'
  BY <1>12 DEF GetEntriesFails, Unlock
<1>13. ASSUME NEW p \in Passes, Insert(p) PROVE GoneEmpty'
  BY <1>13 DEF Insert
<1>14. ASSUME NEW p \in Passes, MoveCursor(p) PROVE GoneEmpty'
  BY <1>14 DEF MoveCursor, Unlock, Reached
<1>15. ASSUME NEW p \in Passes, EndPass(p) PROVE GoneEmpty'
  BY <1>15 DEF EndPass, Rest, SetStatus, Wrong
<1>16. CASE TearDown
  BY <1>16 DEF TearDown, Ends
<1>17. CASE DeleteEntries
  BY <1>17 DEF DeleteEntries
<1>18. CASE DeleteRow
  BY <1>18 DEF DeleteRow
<1>19. CASE Restart
  BY <1>19 DEF Restart, Reset
<1>20. CASE UNCHANGED turnVars
  BY <1>20 DEF turnVars
<1>21. ASSUME NEW q \in Calls, Stop(q) PROVE GoneEmpty'
  BY <1>21 DEF Stop, Ends
<1>22. ASSUME NEW q \in Calls, HangUp(q) PROVE GoneEmpty'
  BY <1>22 DEF HangUp
<1>23. CASE DeleteStops
  BY <1>23 DEF DeleteStops
<1> QED
  BY <1>1, <1>2, <1>3, <1>4, <1>5, <1>6, <1>7, <1>8, <1>9, <1>10, <1>11,
     <1>12, <1>13, <1>14, <1>15, <1>16, <1>17, <1>18, <1>19, <1>20,
     <1>21, <1>22, <1>23, Zenon
  DEF TurnsNext, CallStep, PassStep, DeleteStep

LEMMA RowTellsKept ==
    ASSUME TurnsTyped, RowTells, [TurnsNext]_turnVars
    PROVE  RowTells'
<1> USE TurnNats DEF RowTells, Pending, Settled, TurnsTyped, GoneIsGone, Well, Accident, runtimeNow,
        rows, calls, mirrors, blames, PassOnly, PassMoves, turnVars
<1>1. CASE Launch
  BY <1>1 DEF Launch
<1>2. CASE AddEntry
  BY <1>2 DEF AddEntry
<1>3. CASE Exit
  BY <1>3 DEF Exit, Ends
<1>4. ASSUME NEW r \in 1..MaxRuns, PumpCloses(r) PROVE RowTells'
  BY <1>4 DEF PumpCloses, SetStatus, Wrong
<1>5. ASSUME NEW q \in Calls, Send(q) PROVE RowTells'
  BY <1>5 DEF Send
<1>6. ASSUME NEW q \in Calls, Accept(q) PROVE RowTells'
  <2>1. UNCHANGED <<pass, closing, row>>
    BY <1>6 DEF Accept
  <2>2. CASE what[q] = "prompt" /\ call[q] = "givenUp"
    <3>1. unheard'
      BY <1>6, <2>2 DEF Accept
    <3> QED
      BY <3>1
  <2>3. CASE what[q] = "prompt" /\ call[q] = "sent"
    <3>1. call'[q] = "accepted" /\ what'[q] = "prompt"
      BY <1>6, <2>3 DEF Accept, TurnLabels
    <3>2. Pending'
      BY <3>1
    <3> QED
      BY <3>2
  <2>4. CASE what[q] # "prompt"
    <3>1. turning' = turning /\ unheard' = unheard
      BY <1>6, <2>4 DEF Accept, TurnFlags
    <3>2. Pending => Pending'
      <4>1. \A o \in Calls : call[o] = "accepted" /\ what[o] = "prompt" => call'[o] = "accepted" /\ what'[o] = "prompt"
        BY <1>6, <2>4 DEF Accept, TurnLabels
      <4> QED
        BY <2>1, <4>1
    <3> QED
      BY <2>1, <3>1, <3>2
  <2> QED
    BY <1>6, <2>2, <2>3, <2>4 DEF Accept
<1>7. ASSUME NEW q \in Calls, GiveUp(q) PROVE RowTells'
  BY <1>7 DEF GiveUp
<1>8. ASSUME NEW q \in Calls, Record(q) PROVE RowTells'
  BY <1>8 DEF Record, SetStatus, Wrong
<1>9. ASSUME NEW p \in Passes, SettleTurn(p) PROVE RowTells'
  <2>1. pass'[p] = "lock"
    BY <1>9 DEF SettleTurn, TurnLabels
  <2>2. Pending'
    BY <2>1
  <2> QED
    BY <2>2
<1>10. ASSUME NEW p \in Passes, BeginPass(p) PROVE RowTells'
  BY <1>10 DEF BeginPass, Lock
<1>11. ASSUME NEW p \in Passes, GetEntries(p) PROVE RowTells'
  <2>1. pass'[p] \in {"insert", "status"}
    BY <1>11 DEF GetEntries, Unlock, TurnLabels
  <2>2. Pending'
    BY <2>1
  <2> QED
    BY <2>2
<1>12. ASSUME NEW p \in Passes, GetEntriesFails(p) PROVE RowTells'
  BY <1>12 DEF GetEntriesFails, Unlock
<1>13. ASSUME NEW p \in Passes, Insert(p) PROVE RowTells'
  BY <1>13 DEF Insert
<1>14. ASSUME NEW p \in Passes, MoveCursor(p) PROVE RowTells'
  BY <1>14 DEF MoveCursor, Unlock, Reached
<1>15. ASSUME NEW p \in Passes, EndPass(p) PROVE RowTells'
  BY <1>15 DEF EndPass, Rest, SetStatus, Wrong
<1>16. CASE TearDown
  BY <1>16 DEF TearDown, Ends
<1>17. CASE DeleteEntries
  BY <1>17 DEF DeleteEntries
<1>18. CASE DeleteRow
  BY <1>18 DEF DeleteRow
<1>19. CASE Restart
  BY <1>19 DEF Restart, Reset
<1>20. CASE UNCHANGED turnVars
  BY <1>20 DEF turnVars
<1>21. ASSUME NEW q \in Calls, Stop(q) PROVE RowTells'
  BY <1>21 DEF Stop, Ends
<1>22. ASSUME NEW q \in Calls, HangUp(q) PROVE RowTells'
  <2>1. UNCHANGED <<pass, closing, row, turning, what>>
    BY <1>22 DEF HangUp
  <2>2. CASE what[q] = "prompt" /\ call[q] = "accepted"
    <3>1. unheard'
      BY <1>22, <2>2 DEF HangUp
    <3> QED
      BY <3>1
  <2>3. CASE ~(what[q] = "prompt" /\ call[q] = "accepted")
    <3>1. unheard' = unheard
      BY <1>22, <2>3 DEF HangUp, TurnFlags
    <3>2. \A o \in Calls : call[o] = "accepted" /\ what[o] = "prompt" => call'[o] = "accepted"
      BY <1>22, <2>3 DEF HangUp, TurnLabels
    <3>3. Pending => Pending'
      BY <2>1, <3>2
    <3> QED
      BY <2>1, <3>1, <3>3
  <2> QED
    BY <2>2, <2>3
<1>23. CASE DeleteStops
  BY <1>23 DEF DeleteStops
<1> QED
  BY <1>1, <1>2, <1>3, <1>4, <1>5, <1>6, <1>7, <1>8, <1>9, <1>10, <1>11,
     <1>12, <1>13, <1>14, <1>15, <1>16, <1>17, <1>18, <1>19, <1>20,
     <1>21, <1>22, <1>23, Zenon
  DEF TurnsNext, CallStep, PassStep, DeleteStep

TurnsInv ==
    /\ TurnsTyped /\ FilledCursor /\ FilledEntries /\ FilledPasses /\ Followed
    /\ SourcedEntries /\ GoneEmpty /\ RowTells

LEMMA TurnsInvariant == TurnsSpec => []TurnsInv
<1>1. TurnsInit => TurnsInv
  <2> SUFFICES ASSUME TurnsInit PROVE TurnsInv
    OBVIOUS
  <2>1. TurnsTyped
    BY TurnsTypedInit
  <2>2. FilledCursor /\ FilledEntries /\ FilledPasses
    BY DEF TurnsInit, FilledCursor, FilledEntries, FilledPasses, Prefix, Has, Start
  <2>3. Followed /\ SourcedEntries /\ GoneEmpty
    BY DEF TurnsInit, Followed, SourcedEntries, GoneEmpty
  <2>4. RowTells
    BY DEF TurnsInit, RowTells
  <2> QED
    BY <2>1, <2>2, <2>3, <2>4 DEF TurnsInv
<1>2. ASSUME TurnsInv, [TurnsNext]_turnVars PROVE TurnsInv'
  <2>1. TurnsTyped'
    BY <1>2, TurnsTypedKept DEF TurnsInv
  <2>2. FilledCursor' /\ FilledEntries' /\ FilledPasses'
    BY <1>2, FilledCursorKept, FilledEntriesKept, FilledPassesKept DEF TurnsInv
  <2>3. Followed' /\ SourcedEntries'
    BY <1>2, FollowedKept, SourcedKept DEF TurnsInv
  <2>4. GoneEmpty' /\ RowTells'
    BY <1>2, GoneEmptyKept, RowTellsKept DEF TurnsInv
  <2> QED
    BY <2>1, <2>2, <2>3, <2>4 DEF TurnsInv
<1> QED
  BY <1>1, <1>2, PTL DEF TurnsSpec

(* The rows, the transcripts and the mirror tasks hold what they should.   *)
THEOREM TurnsTypeCorrect == TurnsSpec => []TurnsTypeOK
<1>1. TurnsInv => TurnsTypeOK
  BY DEF TurnsInv, TurnsTyped, TurnCounts, TurnFlags, TurnLabels, TurnPlaces, TurnsTypeOK
<1> QED
  BY <1>1, TurnsInvariant, PTL

(* Whatever passes overlap, of whichever runtimes and with whatever cursor *)
(* they read, the transcript clients read has no hole, and what is left    *)
(* after a delete came from a pass that had its reply (mirror_entries).    *)
THEOREM MirrorsAreWhole == TurnsSpec => []MirrorIsWhole
<1>1. TurnsInv => MirrorIsWhole
  <2> SUFFICES ASSUME TurnsInv PROVE NoHole /\ OrphansExplained
    BY DEF MirrorIsWhole
  <2>1. ASSUME row # "none", Settled, alive, ~turning, run \notin unread, NEW i \in 1..length
        PROVE  Has(run, i)
    <3>1. ~Covered(i)
      BY <2>1 DEF Settled, Covered
    <3> QED
      BY <2>1, <3>1 DEF TurnsInv, Followed
  <2>2. NoHole
    BY <2>1 DEF NoHole, TurnsInv, FilledCursor, FilledEntries, Prefix, Has
  <2>3. OrphansExplained
    BY DEF OrphansExplained, TurnsInv, SourcedEntries, GoneEmpty
  <2> QED
    BY <2>2, <2>3
<1> QED
  BY <1>1, TurnsInvariant, PTL

(* When nothing is under way the row says what the runtime does, unless    *)
(* its last writer was already overtaken (set_status).                     *)
THEOREM StatusesExplained == TurnsSpec => []StatusExplained
<1>1. TurnsInv => StatusExplained
  <2> SUFFICES ASSUME TurnsInv, Settled, closing = {}, \A q \in Calls : call[q] \in {"idle", "over"},
                      ~unheard, row # "none"
               PROVE  row = "running" <=> turning
    BY DEF StatusExplained
  <2>1. ~Pending
    BY DEF Pending
  <2> QED
    BY <2>1 DEF TurnsInv, RowTells
<1> QED
  BY <1>1, TurnsInvariant, PTL

-----------------------------------------------------------------------------
(* Dialogs                                                                 *)

DialogEvents ==
    [kind : {"ask", "resolved"}, about : Questions] \cup [kind : {"frame", "closed"}, about : {NoQuestion}]
InQueue(e, s) == \E i \in 1..Len(s) : s[i] = e
Listens(c) == watch[c] \in {"subscribed", "on"}

DialogLabels ==
    /\ stage \in [Questions -> {"no", "kept", "told"}] /\ pending \subseteq Questions
    /\ watch \in [Clients -> {"off", "subscribed", "on", "closed"}]
    /\ behind \in [Clients -> {"no", "lagged", "told"}]
    /\ ended \in BOOLEAN /\ spoiled \subseteq Questions
DialogCounts == noise \in 0..MaxNoise /\ slips \in 0..MaxSlips
DialogScreens == shown \in [Clients -> SUBSET Questions]
DialogQueues ==
    /\ queue \in [Clients -> Seq(DialogEvents)]
    /\ \A c \in Clients : Len(queue[c]) <= Buffer
DialogAnswers ==
    /\ answers \in [Questions -> Nat]
    /\ answering \in [Clients -> [at : {"idle", "notify", "tell", "over"}, to : Questions \cup {NoQuestion}]]
    /\ \A c \in Clients : answering[c].at \in {"notify", "tell"} <=> answering[c].to # NoQuestion
DialogTyped == DialogLabels /\ DialogCounts /\ DialogScreens /\ DialogQueues /\ DialogAnswers

(* A question has not been asked, waits, is being answered by one client,  *)
(* was answered, or was lost by who had taken it.                          *)
Unanswered == \A q \in Questions : stage[q] = "no" \/ q \in pending =>
                  answers[q] = 0 /\ \A c \in Clients : answering[c].to # q
NotPending == \A q \in Questions : stage[q] = "no" => q \notin pending
InHand == \A c \in Clients : /\ answering[c].at = "notify" => answers[answering[c].to] = 0
                             /\ answering[c].at = "tell" => answers[answering[c].to] = 1
OneHand == \A c, d \in Clients : c # d /\ answering[c].to = answering[d].to => answering[c].to = NoQuestion
OnceEach == \A q \in Questions : answers[q] <= 1
Somewhere == \A q \in Questions : stage[q] # "no" =>
                 q \in pending \cup spoiled \/ (\E c \in Clients : answering[c].to = q) \/ answers[q] = 1
(* What a queue says is gone is gone.                                      *)
ResolvedIsGone ==
    \A q \in Questions, c \in Clients :
        InQueue(Event("resolved", q), queue[c]) => q \notin pending /\ stage[q] # "no"
AskedOfAll ==
    \A q \in pending, c \in Clients :
        stage[q] = "told" /\ watch[c] = "on" /\ behind[c] = "no" =>
            q \in shown[c] \/ InQueue(Event("ask", q), queue[c])

LEMMA QueueTail ==
    ASSUME NEW S, NEW s \in Seq(S), s # <<>>
    PROVE  /\ Head(s) \in S /\ Tail(s) \in Seq(S) /\ Len(Tail(s)) = Len(s) - 1 /\ Len(s) \in Nat
           /\ \A e : InQueue(e, Tail(s)) => InQueue(e, s)
           /\ \A e : InQueue(e, s) => e = Head(s) \/ InQueue(e, Tail(s))
<1>1. /\ Head(s) \in S /\ Tail(s) \in Seq(S) /\ Len(Tail(s)) = Len(s) - 1
      /\ \A i \in 1..Len(Tail(s)) : Tail(s)[i] = s[i + 1]
  BY HeadTailProperties
<1>2. Len(s) \in Nat /\ Head(s) = s[1] /\ Len(s) > 0
  BY EmptySeq, LenProperties
<1>3. ASSUME NEW e, InQueue(e, Tail(s)) PROVE InQueue(e, s)
  BY <1>1, <1>2, <1>3 DEF InQueue
<1>4. ASSUME NEW e, InQueue(e, s), e # Head(s) PROVE InQueue(e, Tail(s))
  <2>1. PICK i \in 1..Len(s) : s[i] = e
    BY <1>4 DEF InQueue
  <2>2. i - 1 \in 1..Len(Tail(s)) /\ (i - 1) + 1 = i
    BY <1>1, <1>2, <1>4, <2>1
  <2>3. Tail(s)[i - 1] = e
    BY <1>1, <2>1, <2>2
  <2> QED
    BY <2>2, <2>3 DEF InQueue
<1> QED
  BY <1>1, <1>2, <1>3, <1>4

LEMMA QueueAppend ==
    ASSUME NEW S, NEW s \in Seq(S), NEW x \in S
    PROVE  /\ Append(s, x) \in Seq(S) /\ Len(Append(s, x)) = Len(s) + 1 /\ Len(s) \in Nat
           /\ \A e : InQueue(e, Append(s, x)) <=> e = x \/ InQueue(e, s)
<1>1. /\ Append(s, x) \in Seq(S) /\ Len(Append(s, x)) = Len(s) + 1 /\ Len(s) \in Nat
      /\ \A i \in 1..Len(s) : Append(s, x)[i] = s[i]
      /\ Append(s, x)[Len(s) + 1] = x
  BY AppendProperties, LenProperties
<1>2. ASSUME NEW e, InQueue(e, s) PROVE InQueue(e, Append(s, x))
  BY <1>1, <1>2 DEF InQueue
<1>3. InQueue(x, Append(s, x))
  BY <1>1 DEF InQueue
<1>4. ASSUME NEW e, InQueue(e, Append(s, x)) PROVE e = x \/ InQueue(e, s)
  <2>1. PICK i \in 1..(Len(s) + 1) : Append(s, x)[i] = e
    BY <1>1, <1>4 DEF InQueue
  <2>2. CASE i = Len(s) + 1
    BY <1>1, <2>1, <2>2
  <2>3. CASE i # Len(s) + 1
    <3>1. i \in 1..Len(s)
      BY <1>1, <2>1, <2>3
    <3> QED
      BY <1>1, <2>1, <3>1 DEF InQueue
  <2> QED
    BY <2>2, <2>3
<1> QED
  BY <1>1, <1>2, <1>3, <1>4

(* What a broadcast does to the queue of one client.                       *)
LEMMA BroadcastFacts ==
    ASSUME DialogQueues, NEW x \in DialogEvents, Broadcast(x), NEW c \in Clients
    PROVE  /\ queue'[c] \in Seq(DialogEvents) /\ Len(queue'[c]) <= Buffer
           /\ behind'[c] \in {behind[c], "lagged"}
           /\ \A e : InQueue(e, queue'[c]) => e = x \/ InQueue(e, queue[c])
           /\ behind'[c] = "no" => behind[c] = "no" /\ \A e : InQueue(e, queue[c]) => InQueue(e, queue'[c])
           /\ behind'[c] = "no" /\ Listens(c) => InQueue(x, queue'[c])
<1> DEFINE s == queue[c]
<1>1. s \in Seq(DialogEvents) /\ Len(s) <= Buffer /\ Len(s) \in Nat
  BY LenProperties DEF DialogQueues
<1>2. CASE ~Listens(c)
  <2>1. queue'[c] = s /\ behind'[c] = behind[c]
    BY <1>2 DEF Broadcast, Listens
  <2> QED
    BY <1>1, <1>2, <2>1
<1>3. CASE Listens(c) /\ Len(s) = Buffer
  <2>1. queue'[c] = Append(Tail(s), x) /\ behind'[c] = "lagged"
    BY <1>3 DEF Broadcast, Listens
  <2>2. s # <<>>
    BY <1>3, DialogAssumption, EmptySeq
  <2>3. /\ Tail(s) \in Seq(DialogEvents) /\ Len(Tail(s)) = Len(s) - 1
        /\ \A e : InQueue(e, Tail(s)) => InQueue(e, s)
    BY <1>1, <2>2, QueueTail
  <2>4. /\ Append(Tail(s), x) \in Seq(DialogEvents) /\ Len(Append(Tail(s), x)) = Len(Tail(s)) + 1
        /\ \A e : InQueue(e, Append(Tail(s), x)) <=> e = x \/ InQueue(e, Tail(s))
    BY <2>3, QueueAppend
  <2>5. Len(Append(Tail(s), x)) <= Buffer
    BY <1>1, <2>3, <2>4
  <2> QED
    BY <2>1, <2>3, <2>4, <2>5
<1>4. CASE Listens(c) /\ Len(s) # Buffer
  <2>1. queue'[c] = Append(s, x) /\ behind'[c] = behind[c]
    BY <1>4 DEF Broadcast, Listens
  <2>2. /\ Append(s, x) \in Seq(DialogEvents) /\ Len(Append(s, x)) = Len(s) + 1
        /\ \A e : InQueue(e, Append(s, x)) <=> e = x \/ InQueue(e, s)
    BY <1>1, QueueAppend
  <2>3. Len(Append(s, x)) <= Buffer
    BY <1>1, <1>4, <2>2, DialogAssumption
  <2> QED
    BY <2>1, <2>2, <2>3
<1> QED
  BY <1>2, <1>3, <1>4

LEMMA BroadcastType ==
    ASSUME DialogQueues, DialogLabels, NEW x \in DialogEvents, Broadcast(x)
    PROVE  DialogQueues' /\ behind' \in [Clients -> {"no", "lagged", "told"}]
<1>1. \A c \in Clients : queue'[c] \in Seq(DialogEvents) /\ Len(queue'[c]) <= Buffer /\ behind'[c] \in {behind[c], "lagged"}
  BY BroadcastFacts
<1>2. queue' = [c \in Clients |-> queue'[c]]
  BY DEF Broadcast
<1>3. behind' = [c \in Clients |-> behind'[c]]
  BY DEF Broadcast
<1>4. queue' \in [Clients -> Seq(DialogEvents)]
  BY <1>1, <1>2
<1>5. behind' \in [Clients -> {"no", "lagged", "told"}]
  BY <1>1, <1>3 DEF DialogLabels
<1> QED
  BY <1>1, <1>4, <1>5 DEF DialogQueues

(* Who sends what.                                                         *)
LEMMA EventTypes ==
    /\ \A q \in Questions : Event("ask", q) \in DialogEvents /\ Event("resolved", q) \in DialogEvents
    /\ Event("frame", NoQuestion) \in DialogEvents /\ Event("closed", NoQuestion) \in DialogEvents
  BY DEF Event, DialogEvents

LEMMA Handed ==
    ASSUME DialogTyped, NEW c \in Clients, answering[c].at \in {"notify", "tell"}
    PROVE  answering[c].to \in Questions
  BY DEF DialogTyped, DialogAnswers

LEMMA DialogLabelsKept ==
    ASSUME DialogTyped, [DialogNext]_dialogVars
    PROVE  DialogLabels'
<1> USE DialogAssumption DEF DialogTyped, DialogLabels, NoSlip, dialogVars
<1>1. ASSUME NEW q \in Questions, AskUser(q) PROVE DialogLabels'
  BY <1>1 DEF AskUser
<1>2. ASSUME NEW q \in Questions, TellAll(q) PROVE DialogLabels'
  <2>1. Event("ask", q) \in DialogEvents
    BY <1>2, EventTypes DEF DialogAnswers, TellAll
  <2>2. Broadcast(Event("ask", q))
    BY <1>2 DEF TellAll
  <2>3. behind' \in [Clients -> {"no", "lagged", "told"}]
    BY <2>1, <2>2, BroadcastType
  <2> QED
    BY <1>2, <2>3 DEF TellAll
<1>3. ASSUME NEW c \in Clients, NEW q \in Questions, Approve(c, q)
      PROVE  DialogLabels'
  BY <1>3 DEF Approve, Take
<1>4. CASE EmitFrame
  <2>1. Event("frame", NoQuestion) \in DialogEvents
    BY <1>4, EventTypes DEF DialogAnswers, EmitFrame
  <2>2. Broadcast(Event("frame", NoQuestion))
    BY <1>4 DEF EmitFrame
  <2>3. behind' \in [Clients -> {"no", "lagged", "told"}]
    BY <2>1, <2>2, BroadcastType
  <2> QED
    BY <1>4, <2>3 DEF EmitFrame
<1>5. CASE RuntimeExits
  <2>1. Event("closed", NoQuestion) \in DialogEvents
    BY <1>5, EventTypes DEF DialogAnswers, RuntimeExits
  <2>2. Broadcast(Event("closed", NoQuestion))
    BY <1>5 DEF RuntimeExits
  <2>3. behind' \in [Clients -> {"no", "lagged", "told"}]
    BY <2>1, <2>2, BroadcastType
  <2> QED
    BY <1>5, <2>3 DEF RuntimeExits
<1>6. ASSUME NEW c \in Clients, OpenStream(c) PROVE DialogLabels'
  BY <1>6 DEF OpenStream
<1>7. ASSUME NEW c \in Clients, ReplayPending(c) PROVE DialogLabels'
  BY <1>7 DEF ReplayPending, Backlog
<1>8. ASSUME NEW c \in Clients, HearLagged(c) PROVE DialogLabels'
  BY <1>8 DEF HearLagged
<1>9. ASSUME NEW c \in Clients, Hear(c) PROVE DialogLabels'
  <2>1. watch' \in [Clients -> {"off", "subscribed", "on", "closed"}]
    BY <1>9 DEF Hear
  <2>2. UNCHANGED <<stage, pending, behind, ended, spoiled>>
    BY <1>9 DEF Hear
  <2> QED
    BY <2>1, <2>2
<1>10. ASSUME NEW c \in Clients, NotifyRuntime(c) PROVE DialogLabels'
  <2>1. answering[c].to \in Questions
    BY <1>10, Handed DEF NotifyRuntime
  <2>2. spoiled' \in {spoiled, spoiled \cup {answering[c].to}}
    BY <1>10 DEF NotifyRuntime
  <2>3. UNCHANGED <<stage, pending, watch, behind, ended>>
    BY <1>10 DEF NotifyRuntime
  <2> QED
    BY <2>1, <2>2, <2>3
<1>11. ASSUME NEW c \in Clients, TellResolved(c) PROVE DialogLabels'
  <2>1. Event("resolved", answering[c].to) \in DialogEvents
    BY <1>11, EventTypes DEF DialogAnswers, TellResolved
  <2>2. Broadcast(Event("resolved", answering[c].to))
    BY <1>11 DEF TellResolved
  <2>3. behind' \in [Clients -> {"no", "lagged", "told"}]
    BY <2>1, <2>2, BroadcastType
  <2> QED
    BY <1>11, <2>3 DEF TellResolved, Leave
<1>12. ASSUME NEW c \in Clients, DropApproval(c) PROVE DialogLabels'
  <2>1. answering[c].to \in Questions
    BY <1>12, Handed DEF DropApproval
  <2>2. spoiled' \in {spoiled, spoiled \cup {answering[c].to}}
    BY <1>12 DEF DropApproval
  <2>3. UNCHANGED <<stage, pending, watch, behind, ended>>
    BY <1>12 DEF DropApproval
  <2> QED
    BY <2>1, <2>2, <2>3
<1>13. CASE UNCHANGED dialogVars
  BY <1>13 DEF dialogVars
<1> QED
  BY <1>1, <1>2, <1>3, <1>4, <1>5, <1>6, <1>7, <1>8, <1>9, <1>10, <1>11,
     <1>12, <1>13, Zenon
  DEF DialogNext

LEMMA DialogCountsKept ==
    ASSUME DialogTyped, [DialogNext]_dialogVars
    PROVE  DialogCounts'
<1> USE DialogAssumption DEF DialogTyped, DialogCounts, Slip, NoSlip, dialogVars
<1>1. ASSUME NEW q \in Questions, AskUser(q) PROVE DialogCounts'
  BY <1>1 DEF AskUser
<1>2. ASSUME NEW q \in Questions, TellAll(q) PROVE DialogCounts'
  BY <1>2 DEF TellAll
<1>3. ASSUME NEW c \in Clients, NEW q \in Questions, Approve(c, q)
      PROVE  DialogCounts'
  BY <1>3 DEF Approve, Take
<1>4. CASE EmitFrame
  BY <1>4 DEF EmitFrame
<1>5. CASE RuntimeExits
  BY <1>5 DEF RuntimeExits
<1>6. ASSUME NEW c \in Clients, OpenStream(c) PROVE DialogCounts'
  BY <1>6 DEF OpenStream
<1>7. ASSUME NEW c \in Clients, ReplayPending(c) PROVE DialogCounts'
  BY <1>7 DEF ReplayPending, Backlog
<1>8. ASSUME NEW c \in Clients, HearLagged(c) PROVE DialogCounts'
  BY <1>8 DEF HearLagged
<1>9. ASSUME NEW c \in Clients, Hear(c) PROVE DialogCounts'
  BY <1>9 DEF Hear
<1>10. ASSUME NEW c \in Clients, NotifyRuntime(c) PROVE DialogCounts'
  BY <1>10 DEF NotifyRuntime, Leave
<1>11. ASSUME NEW c \in Clients, TellResolved(c) PROVE DialogCounts'
  BY <1>11 DEF TellResolved, Leave
<1>12. ASSUME NEW c \in Clients, DropApproval(c) PROVE DialogCounts'
  BY <1>12 DEF DropApproval, Leave
<1>13. CASE UNCHANGED dialogVars
  BY <1>13 DEF dialogVars
<1> QED
  BY <1>1, <1>2, <1>3, <1>4, <1>5, <1>6, <1>7, <1>8, <1>9, <1>10, <1>11,
     <1>12, <1>13, Zenon
  DEF DialogNext

LEMMA DialogScreensKept ==
    ASSUME DialogTyped, [DialogNext]_dialogVars
    PROVE  DialogScreens'
<1> USE DialogAssumption DEF DialogTyped, DialogLabels, DialogScreens, NoSlip, dialogVars
<1>1. ASSUME NEW q \in Questions, AskUser(q) PROVE DialogScreens'
  BY <1>1 DEF AskUser
<1>2. ASSUME NEW q \in Questions, TellAll(q) PROVE DialogScreens'
  BY <1>2 DEF TellAll
<1>3. ASSUME NEW c \in Clients, NEW q \in Questions, Approve(c, q)
      PROVE  DialogScreens'
  BY <1>3 DEF Approve, Take
<1>4. CASE EmitFrame
  BY <1>4 DEF EmitFrame
<1>5. CASE RuntimeExits
  BY <1>5 DEF RuntimeExits
<1>6. ASSUME NEW c \in Clients, OpenStream(c) PROVE DialogScreens'
  BY <1>6 DEF OpenStream
<1>7. ASSUME NEW c \in Clients, ReplayPending(c) PROVE DialogScreens'
  BY <1>7 DEF ReplayPending, Backlog
<1>8. ASSUME NEW c \in Clients, HearLagged(c) PROVE DialogScreens'
  BY <1>8 DEF HearLagged
<1>9. ASSUME NEW c \in Clients, Hear(c) PROVE DialogScreens'
  <2> DEFINE e == Head(queue[c])
  <2>1. queue[c] \in Seq(DialogEvents) /\ queue[c] # <<>>
    BY <1>9 DEF Hear, DialogQueues
  <2>2. e \in DialogEvents
    BY <2>1, QueueTail
  <2>3. e.kind = "ask" => e.about \in Questions
    BY <2>2 DEF DialogEvents
  <2>4. CASE e.kind = "ask"
    <3>1. shown' = [shown EXCEPT ![c] = shown[c] \cup {e.about}]
      BY <1>9, <2>4 DEF Hear
    <3>2. e.about \in Questions
      BY <2>3, <2>4
    <3> HIDE DEF e
    <3> QED
      BY <3>1, <3>2
  <2>5. CASE e.kind = "resolved"
    <3>1. shown' = [shown EXCEPT ![c] = shown[c] \ {e.about}]
      BY <1>9, <2>5 DEF Hear
    <3> HIDE DEF e
    <3> QED
      BY <3>1
  <2>6. CASE e.kind \notin {"ask", "resolved"}
    <3>1. shown' = shown
      BY <1>9, <2>6 DEF Hear
    <3> QED
      BY <3>1
  <2> QED
    BY <2>4, <2>5, <2>6
<1>10. ASSUME NEW c \in Clients, NotifyRuntime(c) PROVE DialogScreens'
  BY <1>10 DEF NotifyRuntime, Leave
<1>11. ASSUME NEW c \in Clients, TellResolved(c) PROVE DialogScreens'
  BY <1>11 DEF TellResolved, Leave
<1>12. ASSUME NEW c \in Clients, DropApproval(c) PROVE DialogScreens'
  BY <1>12 DEF DropApproval, Leave
<1>13. CASE UNCHANGED dialogVars
  BY <1>13 DEF dialogVars
<1> QED
  BY <1>1, <1>2, <1>3, <1>4, <1>5, <1>6, <1>7, <1>8, <1>9, <1>10, <1>11,
     <1>12, <1>13, Zenon
  DEF DialogNext

LEMMA DialogQueuesKept ==
    ASSUME DialogTyped, [DialogNext]_dialogVars
    PROVE  DialogQueues'
<1> USE DialogAssumption DEF DialogTyped, DialogQueues, NoSlip, dialogVars
<1>1. ASSUME NEW q \in Questions, AskUser(q) PROVE DialogQueues'
  BY <1>1 DEF AskUser
<1>2. ASSUME NEW q \in Questions, TellAll(q) PROVE DialogQueues'
  <2>1. Event("ask", q) \in DialogEvents
    BY <1>2, EventTypes DEF DialogAnswers, TellAll
  <2>2. Broadcast(Event("ask", q))
    BY <1>2 DEF TellAll
  <2> QED
    BY <2>1, <2>2, BroadcastType
<1>3. ASSUME NEW c \in Clients, NEW q \in Questions, Approve(c, q)
      PROVE  DialogQueues'
  BY <1>3 DEF Approve, Take
<1>4. CASE EmitFrame
  <2>1. Event("frame", NoQuestion) \in DialogEvents
    BY <1>4, EventTypes DEF DialogAnswers, EmitFrame
  <2>2. Broadcast(Event("frame", NoQuestion))
    BY <1>4 DEF EmitFrame
  <2> QED
    BY <2>1, <2>2, BroadcastType
<1>5. CASE RuntimeExits
  <2>1. Event("closed", NoQuestion) \in DialogEvents
    BY <1>5, EventTypes DEF DialogAnswers, RuntimeExits
  <2>2. Broadcast(Event("closed", NoQuestion))
    BY <1>5 DEF RuntimeExits
  <2> QED
    BY <2>1, <2>2, BroadcastType
<1>6. ASSUME NEW c \in Clients, OpenStream(c) PROVE DialogQueues'
  BY <1>6 DEF OpenStream
<1>7. ASSUME NEW c \in Clients, ReplayPending(c) PROVE DialogQueues'
  BY <1>7 DEF ReplayPending, Backlog
<1>8. ASSUME NEW c \in Clients, HearLagged(c) PROVE DialogQueues'
  BY <1>8 DEF HearLagged
<1>9. ASSUME NEW c \in Clients, Hear(c) PROVE DialogQueues'
  <2>1. queue[c] \in Seq(DialogEvents) /\ Len(queue[c]) <= Buffer /\ queue[c] # <<>>
    BY <1>9 DEF Hear, DialogQueues
  <2>2. Tail(queue[c]) \in Seq(DialogEvents) /\ Len(Tail(queue[c])) <= Buffer
    BY <2>1, QueueTail, DialogAssumption
  <2>3. queue' = [queue EXCEPT ![c] = Tail(queue[c])]
    BY <1>9 DEF Hear
  <2> QED
    BY <2>2, <2>3 DEF DialogQueues
<1>10. ASSUME NEW c \in Clients, NotifyRuntime(c) PROVE DialogQueues'
  BY <1>10 DEF NotifyRuntime, Leave
<1>11. ASSUME NEW c \in Clients, TellResolved(c) PROVE DialogQueues'
  <2>1. Event("resolved", answering[c].to) \in DialogEvents
    BY <1>11, EventTypes DEF DialogAnswers, TellResolved
  <2>2. Broadcast(Event("resolved", answering[c].to))
    BY <1>11 DEF TellResolved
  <2> QED
    BY <2>1, <2>2, BroadcastType
<1>12. ASSUME NEW c \in Clients, DropApproval(c) PROVE DialogQueues'
  BY <1>12 DEF DropApproval, Leave
<1>13. CASE UNCHANGED dialogVars
  BY <1>13 DEF dialogVars
<1> QED
  BY <1>1, <1>2, <1>3, <1>4, <1>5, <1>6, <1>7, <1>8, <1>9, <1>10, <1>11,
     <1>12, <1>13, Zenon
  DEF DialogNext

LEMMA DialogAnswersKept ==
    ASSUME DialogTyped, [DialogNext]_dialogVars
    PROVE  DialogAnswers'
<1> USE DialogAssumption DEF DialogTyped, DialogAnswers, NoSlip, dialogVars
<1>1. ASSUME NEW q \in Questions, AskUser(q) PROVE DialogAnswers'
  BY <1>1 DEF AskUser
<1>2. ASSUME NEW q \in Questions, TellAll(q) PROVE DialogAnswers'
  BY <1>2 DEF TellAll
<1>3. ASSUME NEW c \in Clients, NEW q \in Questions, Approve(c, q) PROVE DialogAnswers'
  <2>1. answering' = [answering EXCEPT ![c] = [at |-> "notify", to |-> q]] /\ UNCHANGED answers
    BY <1>3 DEF Approve
  <2>2. q # NoQuestion
    BY DialogAssumption
  <2> QED
    BY <2>1, <2>2
<1>4. CASE EmitFrame
  BY <1>4 DEF EmitFrame
<1>5. CASE RuntimeExits
  BY <1>5 DEF RuntimeExits
<1>6. ASSUME NEW c \in Clients, OpenStream(c) PROVE DialogAnswers'
  BY <1>6 DEF OpenStream
<1>7. ASSUME NEW c \in Clients, ReplayPending(c) PROVE DialogAnswers'
  BY <1>7 DEF ReplayPending, Backlog
<1>8. ASSUME NEW c \in Clients, HearLagged(c) PROVE DialogAnswers'
  BY <1>8 DEF HearLagged
<1>9. ASSUME NEW c \in Clients, Hear(c) PROVE DialogAnswers'
  BY <1>9 DEF Hear
<1>10. ASSUME NEW c \in Clients, NotifyRuntime(c) PROVE DialogAnswers'
  <2>1. answering[c].to \in Questions
    BY <1>10, Handed DEF NotifyRuntime
  <2>2. CASE UNCHANGED answers /\ Leave(c)
    BY <2>2 DEF Leave
  <2>3. CASE /\ answers' = [answers EXCEPT ![answering[c].to] = answers[answering[c].to] + 1]
             /\ answering' = [answering EXCEPT ![c].at = "tell"]
    <3>1. answers' \in [Questions -> Nat]
      <4>1. answers[answering[c].to] + 1 \in Nat
        BY <2>1
      <4> QED
        BY <2>1, <2>3, <4>1
    <3>2. answering'[c].to = answering[c].to /\ answering'[c].at = "tell"
      BY <2>3
    <3>3. answering' \in [Clients -> [at : {"idle", "notify", "tell", "over"}, to : Questions \cup {NoQuestion}]]
      BY <2>3
    <3>4. \A d \in Clients : d # c => answering'[d] = answering[d]
      BY <2>3
    <3> QED
      BY <1>10, <3>1, <3>2, <3>3, <3>4 DEF NotifyRuntime
  <2> QED
    BY <1>10, <2>2, <2>3 DEF NotifyRuntime
<1>11. ASSUME NEW c \in Clients, TellResolved(c) PROVE DialogAnswers'
  <2>1. Leave(c) /\ UNCHANGED answers
    BY <1>11 DEF TellResolved
  <2> QED
    BY <2>1 DEF Leave
<1>12. ASSUME NEW c \in Clients, DropApproval(c) PROVE DialogAnswers'
  <2>1. Leave(c) /\ UNCHANGED answers
    BY <1>12 DEF DropApproval
  <2> QED
    BY <2>1 DEF Leave
<1>13. CASE UNCHANGED dialogVars
  BY <1>13 DEF dialogVars
<1> QED
  BY <1>1, <1>2, <1>3, <1>4, <1>5, <1>6, <1>7, <1>8, <1>9, <1>10, <1>11,
     <1>12, <1>13, Zenon
  DEF DialogNext

LEMMA HeadInQueue ==
    ASSUME NEW S, NEW s \in Seq(S), s # <<>>
    PROVE  Head(s) \in S /\ InQueue(Head(s), s)
<1>1. Len(s) \in Nat /\ Len(s) > 0 /\ Head(s) = s[1] /\ Head(s) \in S
  BY EmptySeq, LenProperties, HeadTailProperties
<1> QED
  BY <1>1 DEF InQueue

LEMMA NotPendingKept ==
    ASSUME DialogTyped, NotPending, [DialogNext]_dialogVars
    PROVE  NotPending'
<1> USE DialogAssumption DEF NotPending, Leave, Take, Slip, NoSlip, dialogVars, DialogTyped,
        DialogLabels, DialogAnswers
<1>1. ASSUME NEW q \in Questions, AskUser(q) PROVE NotPending'
  BY <1>1 DEF AskUser
<1>2. ASSUME NEW q \in Questions, TellAll(q) PROVE NotPending'
  BY <1>2 DEF TellAll
<1>3. ASSUME NEW c \in Clients, NEW q \in Questions, Approve(c, q)
      PROVE  NotPending'
  BY <1>3 DEF Approve, Take
<1>4. CASE EmitFrame
  BY <1>4 DEF EmitFrame
<1>5. CASE RuntimeExits
  BY <1>5 DEF RuntimeExits
<1>6. ASSUME NEW c \in Clients, OpenStream(c) PROVE NotPending'
  BY <1>6 DEF OpenStream
<1>7. ASSUME NEW c \in Clients, ReplayPending(c) PROVE NotPending'
  BY <1>7 DEF ReplayPending, Backlog
<1>8. ASSUME NEW c \in Clients, HearLagged(c) PROVE NotPending'
  BY <1>8 DEF HearLagged
<1>9. ASSUME NEW c \in Clients, Hear(c) PROVE NotPending'
  BY <1>9 DEF Hear
<1>10. ASSUME NEW c \in Clients, NotifyRuntime(c) PROVE NotPending'
  BY <1>10 DEF NotifyRuntime, Leave
<1>11. ASSUME NEW c \in Clients, TellResolved(c) PROVE NotPending'
  BY <1>11 DEF TellResolved, Leave
<1>12. ASSUME NEW c \in Clients, DropApproval(c) PROVE NotPending'
  BY <1>12 DEF DropApproval, Leave
<1>13. CASE UNCHANGED dialogVars
  BY <1>13 DEF dialogVars
<1> QED
  BY <1>1, <1>2, <1>3, <1>4, <1>5, <1>6, <1>7, <1>8, <1>9, <1>10, <1>11,
     <1>12, <1>13, Zenon
  DEF DialogNext

LEMMA UnansweredKept ==
    ASSUME DialogTyped, NotPending, Unanswered, OneHand, InHand, [DialogNext]_dialogVars
    PROVE  Unanswered'
<1> USE DialogAssumption DEF NotPending, Unanswered, OneHand, InHand, Leave, Take, Slip, NoSlip,
        dialogVars, DialogTyped, DialogLabels, DialogAnswers
<1>1. ASSUME NEW q \in Questions, AskUser(q) PROVE Unanswered'
  BY <1>1 DEF AskUser
<1>2. ASSUME NEW q \in Questions, TellAll(q) PROVE Unanswered'
  BY <1>2 DEF TellAll
<1>3. ASSUME NEW c \in Clients, NEW q \in Questions, Approve(c, q)
      PROVE  Unanswered'
  BY <1>3 DEF Approve, Take
<1>4. CASE EmitFrame
  BY <1>4 DEF EmitFrame
<1>5. CASE RuntimeExits
  BY <1>5 DEF RuntimeExits
<1>6. ASSUME NEW c \in Clients, OpenStream(c) PROVE Unanswered'
  BY <1>6 DEF OpenStream
<1>7. ASSUME NEW c \in Clients, ReplayPending(c) PROVE Unanswered'
  BY <1>7 DEF ReplayPending, Backlog
<1>8. ASSUME NEW c \in Clients, HearLagged(c) PROVE Unanswered'
  BY <1>8 DEF HearLagged
<1>9. ASSUME NEW c \in Clients, Hear(c) PROVE Unanswered'
  BY <1>9 DEF Hear
<1>10. ASSUME NEW c \in Clients, NotifyRuntime(c) PROVE Unanswered'
  <2>1. UNCHANGED <<stage, pending>>
    BY <1>10 DEF NotifyRuntime
  <2>2. \A q \in Questions : q # answering[c].to => answers'[q] = answers[q]
    BY <1>10 DEF NotifyRuntime
  <2>3. \A d \in Clients : answering'[d].to = answering[d].to \/ answering'[d].to = NoQuestion
    BY <1>10 DEF NotifyRuntime
  <2> QED
    BY <2>1, <2>2, <2>3
<1>11. ASSUME NEW c \in Clients, TellResolved(c) PROVE Unanswered'
  BY <1>11 DEF TellResolved, Leave
<1>12. ASSUME NEW c \in Clients, DropApproval(c) PROVE Unanswered'
  BY <1>12 DEF DropApproval, Leave
<1>13. CASE UNCHANGED dialogVars
  BY <1>13 DEF dialogVars
<1> QED
  BY <1>1, <1>2, <1>3, <1>4, <1>5, <1>6, <1>7, <1>8, <1>9, <1>10, <1>11,
     <1>12, <1>13, Zenon
  DEF DialogNext

LEMMA InHandKept ==
    ASSUME DialogTyped, NotPending, Unanswered, InHand, OneHand, [DialogNext]_dialogVars
    PROVE  InHand'
<1> USE DialogAssumption DEF NotPending, Unanswered, InHand, OneHand, Leave, Take, Slip, NoSlip,
        dialogVars, DialogTyped, DialogLabels, DialogAnswers
<1>1. ASSUME NEW q \in Questions, AskUser(q) PROVE InHand'
  BY <1>1 DEF AskUser
<1>2. ASSUME NEW q \in Questions, TellAll(q) PROVE InHand'
  BY <1>2 DEF TellAll
<1>3. ASSUME NEW c \in Clients, NEW q \in Questions, Approve(c, q)
      PROVE  InHand'
  BY <1>3 DEF Approve, Take
<1>4. CASE EmitFrame
  BY <1>4 DEF EmitFrame
<1>5. CASE RuntimeExits
  BY <1>5 DEF RuntimeExits
<1>6. ASSUME NEW c \in Clients, OpenStream(c) PROVE InHand'
  BY <1>6 DEF OpenStream
<1>7. ASSUME NEW c \in Clients, ReplayPending(c) PROVE InHand'
  BY <1>7 DEF ReplayPending, Backlog
<1>8. ASSUME NEW c \in Clients, HearLagged(c) PROVE InHand'
  BY <1>8 DEF HearLagged
<1>9. ASSUME NEW c \in Clients, Hear(c) PROVE InHand'
  BY <1>9 DEF Hear
<1>10. ASSUME NEW c \in Clients, NotifyRuntime(c) PROVE InHand'
  BY <1>10 DEF NotifyRuntime, Leave
<1>11. ASSUME NEW c \in Clients, TellResolved(c) PROVE InHand'
  BY <1>11 DEF TellResolved, Leave
<1>12. ASSUME NEW c \in Clients, DropApproval(c) PROVE InHand'
  BY <1>12 DEF DropApproval, Leave
<1>13. CASE UNCHANGED dialogVars
  BY <1>13 DEF dialogVars
<1> QED
  BY <1>1, <1>2, <1>3, <1>4, <1>5, <1>6, <1>7, <1>8, <1>9, <1>10, <1>11,
     <1>12, <1>13, Zenon
  DEF DialogNext

LEMMA OneHandKept ==
    ASSUME DialogTyped, Unanswered, OneHand, [DialogNext]_dialogVars
    PROVE  OneHand'
<1> USE DialogAssumption DEF OneHand, Unanswered, Leave, Take, Slip, NoSlip, dialogVars,
        DialogTyped, DialogLabels, DialogAnswers
<1>1. ASSUME NEW q \in Questions, AskUser(q) PROVE OneHand'
  BY <1>1 DEF AskUser
<1>2. ASSUME NEW q \in Questions, TellAll(q) PROVE OneHand'
  BY <1>2 DEF TellAll
<1>3. ASSUME NEW c \in Clients, NEW q \in Questions, Approve(c, q)
      PROVE  OneHand'
  BY <1>3 DEF Approve, Take
<1>4. CASE EmitFrame
  BY <1>4 DEF EmitFrame
<1>5. CASE RuntimeExits
  BY <1>5 DEF RuntimeExits
<1>6. ASSUME NEW c \in Clients, OpenStream(c) PROVE OneHand'
  BY <1>6 DEF OpenStream
<1>7. ASSUME NEW c \in Clients, ReplayPending(c) PROVE OneHand'
  BY <1>7 DEF ReplayPending, Backlog
<1>8. ASSUME NEW c \in Clients, HearLagged(c) PROVE OneHand'
  BY <1>8 DEF HearLagged
<1>9. ASSUME NEW c \in Clients, Hear(c) PROVE OneHand'
  BY <1>9 DEF Hear
<1>10. ASSUME NEW c \in Clients, NotifyRuntime(c) PROVE OneHand'
  BY <1>10 DEF NotifyRuntime, Leave
<1>11. ASSUME NEW c \in Clients, TellResolved(c) PROVE OneHand'
  BY <1>11 DEF TellResolved, Leave
<1>12. ASSUME NEW c \in Clients, DropApproval(c) PROVE OneHand'
  BY <1>12 DEF DropApproval, Leave
<1>13. CASE UNCHANGED dialogVars
  BY <1>13 DEF dialogVars
<1> QED
  BY <1>1, <1>2, <1>3, <1>4, <1>5, <1>6, <1>7, <1>8, <1>9, <1>10, <1>11,
     <1>12, <1>13, Zenon
  DEF DialogNext

LEMMA OnceEachKept ==
    ASSUME DialogTyped, InHand, OnceEach, [DialogNext]_dialogVars
    PROVE  OnceEach'
<1> USE DialogAssumption DEF InHand, OnceEach, Leave, Take, Slip, NoSlip, dialogVars, DialogTyped,
        DialogLabels, DialogAnswers
<1>1. ASSUME NEW q \in Questions, AskUser(q) PROVE OnceEach'
  BY <1>1 DEF AskUser
<1>2. ASSUME NEW q \in Questions, TellAll(q) PROVE OnceEach'
  BY <1>2 DEF TellAll
<1>3. ASSUME NEW c \in Clients, NEW q \in Questions, Approve(c, q)
      PROVE  OnceEach'
  BY <1>3 DEF Approve, Take
<1>4. CASE EmitFrame
  BY <1>4 DEF EmitFrame
<1>5. CASE RuntimeExits
  BY <1>5 DEF RuntimeExits
<1>6. ASSUME NEW c \in Clients, OpenStream(c) PROVE OnceEach'
  BY <1>6 DEF OpenStream
<1>7. ASSUME NEW c \in Clients, ReplayPending(c) PROVE OnceEach'
  BY <1>7 DEF ReplayPending, Backlog
<1>8. ASSUME NEW c \in Clients, HearLagged(c) PROVE OnceEach'
  BY <1>8 DEF HearLagged
<1>9. ASSUME NEW c \in Clients, Hear(c) PROVE OnceEach'
  BY <1>9 DEF Hear
<1>10. ASSUME NEW c \in Clients, NotifyRuntime(c) PROVE OnceEach'
  BY <1>10 DEF NotifyRuntime, Leave
<1>11. ASSUME NEW c \in Clients, TellResolved(c) PROVE OnceEach'
  BY <1>11 DEF TellResolved, Leave
<1>12. ASSUME NEW c \in Clients, DropApproval(c) PROVE OnceEach'
  BY <1>12 DEF DropApproval, Leave
<1>13. CASE UNCHANGED dialogVars
  BY <1>13 DEF dialogVars
<1> QED
  BY <1>1, <1>2, <1>3, <1>4, <1>5, <1>6, <1>7, <1>8, <1>9, <1>10, <1>11,
     <1>12, <1>13, Zenon
  DEF DialogNext

LEMMA SomewhereKept ==
    ASSUME DialogTyped, InHand, OnceEach, Unanswered, Somewhere, [DialogNext]_dialogVars
    PROVE  Somewhere'
<1> USE DialogAssumption DEF InHand, OnceEach, Somewhere, Leave, Take, Slip, NoSlip, dialogVars,
        DialogTyped, DialogLabels, DialogAnswers
<1>1. ASSUME NEW q \in Questions, AskUser(q) PROVE Somewhere'
  BY <1>1 DEF AskUser
<1>2. ASSUME NEW q \in Questions, TellAll(q) PROVE Somewhere'
  BY <1>2 DEF TellAll
<1>3. ASSUME NEW c \in Clients, NEW q \in Questions, Approve(c, q)
      PROVE  Somewhere'
  BY <1>3 DEF Approve, Take
<1>4. CASE EmitFrame
  BY <1>4 DEF EmitFrame
<1>5. CASE RuntimeExits
  BY <1>5 DEF RuntimeExits
<1>6. ASSUME NEW c \in Clients, OpenStream(c) PROVE Somewhere'
  BY <1>6 DEF OpenStream
<1>7. ASSUME NEW c \in Clients, ReplayPending(c) PROVE Somewhere'
  BY <1>7 DEF ReplayPending, Backlog
<1>8. ASSUME NEW c \in Clients, HearLagged(c) PROVE Somewhere'
  BY <1>8 DEF HearLagged
<1>9. ASSUME NEW c \in Clients, Hear(c) PROVE Somewhere'
  BY <1>9 DEF Hear
<1>10. ASSUME NEW c \in Clients, NotifyRuntime(c) PROVE Somewhere'
  BY <1>10 DEF NotifyRuntime, Leave
<1>11. ASSUME NEW c \in Clients, TellResolved(c) PROVE Somewhere'
  BY <1>11 DEF TellResolved, Leave
<1>12. ASSUME NEW c \in Clients, DropApproval(c) PROVE Somewhere'
  BY <1>12 DEF DropApproval, Leave
<1>13. CASE UNCHANGED dialogVars
  BY <1>13 DEF dialogVars
<1> QED
  BY <1>1, <1>2, <1>3, <1>4, <1>5, <1>6, <1>7, <1>8, <1>9, <1>10, <1>11,
     <1>12, <1>13, Zenon
  DEF DialogNext

LEMMA ResolvedKept ==
    ASSUME DialogTyped, NotPending, Unanswered, InHand, ResolvedIsGone, [DialogNext]_dialogVars
    PROVE  ResolvedIsGone'
<1> USE DialogAssumption DEF ResolvedIsGone, NoSlip, dialogVars
<1>1. ASSUME NEW q \in Questions, AskUser(q) PROVE ResolvedIsGone'
  <2>1. /\ stage[q] = "no" /\ stage' = [stage EXCEPT ![q] = "kept"]
        /\ pending' = pending \cup {q} /\ UNCHANGED queue
    BY <1>1 DEF AskUser
  <2>2. \A q1 \in Questions : q1 # q => stage'[q1] = stage[q1]
    BY <2>1 DEF DialogTyped, DialogLabels
  <2> QED
    BY <2>1, <2>2 DEF ResolvedIsGone
<1>2. ASSUME NEW q \in Questions, TellAll(q) PROVE ResolvedIsGone'
  <2>1. Event("ask", q) \in DialogEvents
    BY <1>2, EventTypes DEF DialogTyped, DialogAnswers, TellAll
  <2>2. Broadcast(Event("ask", q)) /\ UNCHANGED pending /\ (\A q1 \in Questions : stage[q1] # "no" => stage'[q1] # "no")
    BY <1>2 DEF TellAll, DialogTyped, DialogLabels
  <2>3. \A c1 \in Clients : \A x : InQueue(x, queue'[c1]) => x = Event("ask", q) \/ InQueue(x, queue[c1])
    BY <2>1, <2>2, BroadcastFacts DEF DialogTyped
  <2> QED
    BY <2>2, <2>3 DEF ResolvedIsGone, Event
<1>3. ASSUME NEW c \in Clients, NEW q \in Questions, Approve(c, q) PROVE ResolvedIsGone'
  <2>1. pending' = pending \ {q} /\ UNCHANGED <<stage, queue>>
    BY <1>3 DEF Approve, Take
  <2> QED
    BY <2>1 DEF ResolvedIsGone
<1>4. CASE EmitFrame
  <2>1. Event("frame", NoQuestion) \in DialogEvents
    BY <1>4, EventTypes DEF DialogTyped, DialogAnswers, EmitFrame
  <2>2. Broadcast(Event("frame", NoQuestion)) /\ UNCHANGED pending /\ (\A q1 \in Questions : stage[q1] # "no" => stage'[q1] # "no")
    BY <1>4 DEF EmitFrame, DialogTyped, DialogLabels
  <2>3. \A c1 \in Clients : \A x : InQueue(x, queue'[c1]) => x = Event("frame", NoQuestion) \/ InQueue(x, queue[c1])
    BY <2>1, <2>2, BroadcastFacts DEF DialogTyped
  <2> QED
    BY <2>2, <2>3 DEF ResolvedIsGone, Event
<1>5. CASE RuntimeExits
  <2>1. Event("closed", NoQuestion) \in DialogEvents
    BY <1>5, EventTypes DEF DialogTyped, DialogAnswers, RuntimeExits
  <2>2. Broadcast(Event("closed", NoQuestion)) /\ UNCHANGED pending /\ (\A q1 \in Questions : stage[q1] # "no" => stage'[q1] # "no")
    BY <1>5 DEF RuntimeExits, DialogTyped, DialogLabels
  <2>3. \A c1 \in Clients : \A x : InQueue(x, queue'[c1]) => x = Event("closed", NoQuestion) \/ InQueue(x, queue[c1])
    BY <2>1, <2>2, BroadcastFacts DEF DialogTyped
  <2> QED
    BY <2>2, <2>3 DEF ResolvedIsGone, Event
<1>6. ASSUME NEW c \in Clients, OpenStream(c) PROVE ResolvedIsGone'
  BY <1>6 DEF OpenStream
<1>7. ASSUME NEW c \in Clients, ReplayPending(c) PROVE ResolvedIsGone'
  BY <1>7 DEF ReplayPending, Backlog
<1>8. ASSUME NEW c \in Clients, HearLagged(c) PROVE ResolvedIsGone'
  BY <1>8 DEF HearLagged
<1>9. ASSUME NEW c \in Clients, Hear(c) PROVE ResolvedIsGone'
  <2>1. queue[c] \in Seq(DialogEvents) /\ queue[c] # <<>> /\ UNCHANGED <<pending, stage>>
    BY <1>9 DEF Hear, DialogTyped, DialogQueues
  <2>2. /\ queue'[c] = Tail(queue[c]) /\ \A d \in Clients : d # c => queue'[d] = queue[d]
    BY <1>9 DEF Hear, DialogTyped, DialogQueues
  <2>3. \A d \in Clients : \A x : InQueue(x, queue'[d]) => InQueue(x, queue[d])
    BY <2>1, <2>2, QueueTail
  <2> QED
    BY <2>1, <2>3 DEF ResolvedIsGone
<1>10. ASSUME NEW c \in Clients, NotifyRuntime(c) PROVE ResolvedIsGone'
  BY <1>10 DEF NotifyRuntime, Leave
<1>11. ASSUME NEW c \in Clients, TellResolved(c) PROVE ResolvedIsGone'
  <2>1. Event("resolved", answering[c].to) \in DialogEvents
    BY <1>11, EventTypes DEF DialogTyped, DialogAnswers, TellResolved
  <2>2. Broadcast(Event("resolved", answering[c].to)) /\ UNCHANGED pending /\ (\A q1 \in Questions : stage[q1] # "no" => stage'[q1] # "no")
    BY <1>11 DEF TellResolved, DialogTyped, DialogLabels
  <2>3. \A c1 \in Clients : \A x : InQueue(x, queue'[c1]) => x = Event("resolved", answering[c].to) \/ InQueue(x, queue[c1])
    BY <2>1, <2>2, BroadcastFacts DEF DialogTyped
  <2>4. answering[c].to \notin pending /\ stage[answering[c].to] # "no"
    BY <1>11, Handed DEF TellResolved, Unanswered, InHand, DialogTyped, DialogAnswers
  <2> QED
    BY <2>2, <2>3, <2>4 DEF ResolvedIsGone, Event
<1>12. ASSUME NEW c \in Clients, DropApproval(c) PROVE ResolvedIsGone'
  BY <1>12 DEF DropApproval, Leave
<1>13. CASE UNCHANGED dialogVars
  BY <1>13 DEF dialogVars
<1> QED
  BY <1>1, <1>2, <1>3, <1>4, <1>5, <1>6, <1>7, <1>8, <1>9, <1>10, <1>11,
     <1>12, <1>13, Zenon
  DEF DialogNext

LEMMA AskedOfAllKept ==
    ASSUME DialogTyped, ResolvedIsGone, AskedOfAll, [DialogNext]_dialogVars
    PROVE  AskedOfAll'
<1> USE DialogAssumption DEF NoSlip, dialogVars
<1>1. ASSUME NEW q \in Questions, AskUser(q) PROVE AskedOfAll'
  <2> SUFFICES ASSUME NEW q1 \in pending', NEW d \in Clients, stage'[q1] = "told", watch'[d] = "on", behind'[d] = "no"
               PROVE  q1 \in shown'[d] \/ InQueue(Event("ask", q1), queue'[d])
    BY DEF AskedOfAll
  <2>1. q1 # q
    BY <1>1 DEF AskUser, DialogTyped, DialogLabels
  <2>2. stage'[q1] = stage[q1] /\ q1 \in pending /\ UNCHANGED <<queue, shown, watch, behind>>
    BY <1>1, <2>1 DEF AskUser, DialogTyped, DialogLabels
  <2> QED
    BY <2>2 DEF AskedOfAll
<1>2. ASSUME NEW q \in Questions, TellAll(q) PROVE AskedOfAll'
  <2> SUFFICES ASSUME NEW q1 \in pending', NEW d \in Clients, stage'[q1] = "told", watch'[d] = "on", behind'[d] = "no"
               PROVE  q1 \in shown'[d] \/ InQueue(Event("ask", q1), queue'[d])
    BY DEF AskedOfAll
  <2>1. Event("ask", q) \in DialogEvents
    BY <1>2, EventTypes DEF DialogTyped, DialogAnswers, TellAll
  <2>2. Broadcast(Event("ask", q)) /\ UNCHANGED <<pending, shown, watch>>
    BY <1>2 DEF TellAll
  <2>3. /\ behind[d] = "no" /\ \A x : InQueue(x, queue[d]) => InQueue(x, queue'[d])
        /\ Listens(d) => InQueue(Event("ask", q), queue'[d])
    BY <2>1, <2>2, BroadcastFacts DEF DialogTyped
  <2>4. CASE q1 = q
    BY <2>2, <2>3, <2>4 DEF Listens
  <2>5. CASE q1 # q
    <3>1. stage[q1] = "told"
      BY <1>2, <2>5 DEF TellAll, DialogTyped, DialogLabels
    <3> QED
      BY <2>2, <2>3, <3>1 DEF AskedOfAll
  <2> QED
    BY <2>4, <2>5
<1>3. ASSUME NEW c \in Clients, NEW q \in Questions, Approve(c, q) PROVE AskedOfAll'
  <2> SUFFICES ASSUME NEW q1 \in pending', NEW d \in Clients, stage'[q1] = "told", watch'[d] = "on", behind'[d] = "no"
               PROVE  q1 \in shown'[d] \/ InQueue(Event("ask", q1), queue'[d])
    BY DEF AskedOfAll
  <2>1. q1 \in pending /\ UNCHANGED <<stage, queue, shown, watch, behind>>
    BY <1>3 DEF Approve, Take
  <2> QED
    BY <2>1 DEF AskedOfAll
<1>4. CASE EmitFrame
  <2> SUFFICES ASSUME NEW q1 \in pending', NEW d \in Clients, stage'[q1] = "told", watch'[d] = "on", behind'[d] = "no"
               PROVE  q1 \in shown'[d] \/ InQueue(Event("ask", q1), queue'[d])
    BY DEF AskedOfAll
  <2>1. Event("frame", NoQuestion) \in DialogEvents
    BY <1>4, EventTypes DEF DialogTyped, DialogAnswers, EmitFrame
  <2>2. Broadcast(Event("frame", NoQuestion)) /\ UNCHANGED <<pending, shown, watch>>
    BY <1>4 DEF EmitFrame
  <2>3. /\ behind[d] = "no" /\ \A x : InQueue(x, queue[d]) => InQueue(x, queue'[d])
        /\ Listens(d) => InQueue(Event("frame", NoQuestion), queue'[d])
    BY <2>1, <2>2, BroadcastFacts DEF DialogTyped
  <2>4. UNCHANGED stage
    BY <1>4 DEF EmitFrame
  <2> QED
    BY <2>2, <2>3, <2>4 DEF AskedOfAll
<1>5. CASE RuntimeExits
  <2> SUFFICES ASSUME NEW q1 \in pending', NEW d \in Clients, stage'[q1] = "told", watch'[d] = "on", behind'[d] = "no"
               PROVE  q1 \in shown'[d] \/ InQueue(Event("ask", q1), queue'[d])
    BY DEF AskedOfAll
  <2>1. Event("closed", NoQuestion) \in DialogEvents
    BY <1>5, EventTypes DEF DialogTyped, DialogAnswers, RuntimeExits
  <2>2. Broadcast(Event("closed", NoQuestion)) /\ UNCHANGED <<pending, shown, watch>>
    BY <1>5 DEF RuntimeExits
  <2>3. /\ behind[d] = "no" /\ \A x : InQueue(x, queue[d]) => InQueue(x, queue'[d])
        /\ Listens(d) => InQueue(Event("closed", NoQuestion), queue'[d])
    BY <2>1, <2>2, BroadcastFacts DEF DialogTyped
  <2>4. UNCHANGED stage
    BY <1>5 DEF RuntimeExits
  <2> QED
    BY <2>2, <2>3, <2>4 DEF AskedOfAll
<1>6. ASSUME NEW c \in Clients, OpenStream(c) PROVE AskedOfAll'
  <2> SUFFICES ASSUME NEW q1 \in pending', NEW d \in Clients, stage'[q1] = "told", watch'[d] = "on", behind'[d] = "no"
               PROVE  q1 \in shown'[d] \/ InQueue(Event("ask", q1), queue'[d])
    BY DEF AskedOfAll
  <2>1. d # c /\ watch'[d] = watch[d]
    BY <1>6 DEF OpenStream, DialogTyped, DialogLabels
  <2>2. UNCHANGED <<stage, pending, queue, shown, behind>>
    BY <1>6 DEF OpenStream
  <2> QED
    BY <2>1, <2>2 DEF AskedOfAll
<1>7. ASSUME NEW c \in Clients, ReplayPending(c) PROVE AskedOfAll'
  <2> SUFFICES ASSUME NEW q1 \in pending', NEW d \in Clients, stage'[q1] = "told", watch'[d] = "on", behind'[d] = "no"
               PROVE  q1 \in shown'[d] \/ InQueue(Event("ask", q1), queue'[d])
    BY DEF AskedOfAll
  <2>1. UNCHANGED <<stage, pending, queue, behind>>
    BY <1>7 DEF ReplayPending
  <2>2. CASE d = c
    <3>1. shown'[c] = shown[c] \cup pending
      BY <1>7 DEF ReplayPending, Backlog, DialogTyped, DialogScreens
    <3> QED
      BY <2>1, <2>2, <3>1
  <2>3. CASE d # c
    <3>1. watch'[d] = watch[d] /\ shown'[d] = shown[d]
      BY <1>7, <2>3 DEF ReplayPending, DialogTyped, DialogScreens, DialogLabels
    <3> QED
      BY <2>1, <3>1 DEF AskedOfAll
  <2> QED
    BY <2>2, <2>3
<1>8. ASSUME NEW c \in Clients, HearLagged(c) PROVE AskedOfAll'
  <2> SUFFICES ASSUME NEW q1 \in pending', NEW d \in Clients, stage'[q1] = "told", watch'[d] = "on", behind'[d] = "no"
               PROVE  q1 \in shown'[d] \/ InQueue(Event("ask", q1), queue'[d])
    BY DEF AskedOfAll
  <2>1. d # c /\ behind'[d] = behind[d]
    BY <1>8 DEF HearLagged, DialogTyped, DialogLabels
  <2>2. UNCHANGED <<stage, pending, queue, shown, watch>>
    BY <1>8 DEF HearLagged
  <2> QED
    BY <2>1, <2>2 DEF AskedOfAll
<1>9. ASSUME NEW c \in Clients, Hear(c) PROVE AskedOfAll'
  <2> SUFFICES ASSUME NEW q1 \in pending', NEW d \in Clients, stage'[q1] = "told", watch'[d] = "on", behind'[d] = "no"
               PROVE  q1 \in shown'[d] \/ InQueue(Event("ask", q1), queue'[d])
    BY DEF AskedOfAll
  <2> DEFINE e == Head(queue[c])
  <2>1. UNCHANGED <<stage, pending, behind>>
    BY <1>9 DEF Hear
  <2>2. queue[c] \in Seq(DialogEvents) /\ queue[c] # <<>> /\ watch[c] = "on"
    BY <1>9 DEF Hear, DialogTyped, DialogQueues
  <2>3. CASE d # c
    <3>1. queue'[d] = queue[d]
      BY <1>9, <2>3 DEF Hear, DialogTyped, DialogQueues
    <3>2. watch'[d] = watch[d]
      BY <1>9, <2>3 DEF Hear, DialogTyped, DialogLabels
    <3>3. \/ \E S : shown' = [shown EXCEPT ![c] = S]
          \/ shown' = shown
      BY <1>9 DEF Hear
    <3>4. shown'[d] = shown[d]
      BY <2>3, <3>3 DEF DialogTyped, DialogScreens
    <3> QED
      BY <2>1, <3>1, <3>2, <3>4 DEF AskedOfAll
  <2>4. CASE d = c
    <3>1. queue'[c] = Tail(queue[c])
      BY <1>9 DEF Hear, DialogTyped, DialogQueues
    <3>2. q1 \in shown[c] \/ InQueue(Event("ask", q1), queue[c])
      BY <2>1, <2>2, <2>4 DEF AskedOfAll
    <3>3. e \in DialogEvents /\ InQueue(e, queue[c])
      BY <2>2, HeadInQueue
    <3>4. CASE e.kind = "ask"
      <4>1. shown' = [shown EXCEPT ![c] = shown[c] \cup {e.about}]
        BY <1>9, <3>4 DEF Hear
      <4>2. shown'[c] = shown[c] \cup {e.about}
        BY <4>1 DEF DialogTyped, DialogScreens
      <4>3. CASE e = Event("ask", q1)
        BY <2>4, <4>2, <4>3 DEF Event
      <4>4. CASE e # Event("ask", q1)
        BY <2>2, <2>4, <3>1, <3>2, <4>2, <4>4, QueueTail
      <4> QED
        BY <4>3, <4>4
    <3>5. CASE e.kind = "resolved"
      <4>1. shown' = [shown EXCEPT ![c] = shown[c] \ {e.about}]
        BY <1>9, <3>5 DEF Hear
      <4>2. shown'[c] = shown[c] \ {e.about}
        BY <4>1 DEF DialogTyped, DialogScreens
      <4>3. e.about \in Questions /\ e = Event("resolved", e.about)
        BY <3>3, <3>5 DEF DialogEvents, Event
      <4>4. q1 # e.about
        BY <2>1, <3>3, <4>3 DEF ResolvedIsGone
      <4>5. e # Event("ask", q1)
        BY <3>5 DEF Event
      <4> QED
        BY <2>2, <2>4, <3>1, <3>2, <4>2, <4>4, <4>5, QueueTail
    <3>6. CASE e.kind \notin {"ask", "resolved"}
      <4>1. shown' = shown
        BY <1>9, <3>6 DEF Hear
      <4>2. e # Event("ask", q1)
        BY <3>6 DEF Event
      <4> QED
        BY <2>2, <2>4, <3>1, <3>2, <4>1, <4>2, QueueTail
    <3> QED
      BY <3>4, <3>5, <3>6
  <2> QED
    BY <2>3, <2>4
<1>10. ASSUME NEW c \in Clients, NotifyRuntime(c) PROVE AskedOfAll'
  <2> SUFFICES ASSUME NEW q1 \in pending', NEW d \in Clients, stage'[q1] = "told", watch'[d] = "on", behind'[d] = "no"
               PROVE  q1 \in shown'[d] \/ InQueue(Event("ask", q1), queue'[d])
    BY DEF AskedOfAll
  <2>1. UNCHANGED <<stage, pending, queue, shown, watch, behind>>
    BY <1>10 DEF NotifyRuntime
  <2> QED
    BY <2>1 DEF AskedOfAll
<1>11. ASSUME NEW c \in Clients, TellResolved(c) PROVE AskedOfAll'
  <2> SUFFICES ASSUME NEW q1 \in pending', NEW d \in Clients, stage'[q1] = "told", watch'[d] = "on", behind'[d] = "no"
               PROVE  q1 \in shown'[d] \/ InQueue(Event("ask", q1), queue'[d])
    BY DEF AskedOfAll
  <2>1. Event("resolved", answering[c].to) \in DialogEvents
    BY <1>11, EventTypes DEF DialogTyped, DialogAnswers, TellResolved
  <2>2. Broadcast(Event("resolved", answering[c].to)) /\ UNCHANGED <<pending, shown, watch>>
    BY <1>11 DEF TellResolved
  <2>3. /\ behind[d] = "no" /\ \A x : InQueue(x, queue[d]) => InQueue(x, queue'[d])
        /\ Listens(d) => InQueue(Event("resolved", answering[c].to), queue'[d])
    BY <2>1, <2>2, BroadcastFacts DEF DialogTyped
  <2>4. UNCHANGED stage
    BY <1>11 DEF TellResolved
  <2> QED
    BY <2>2, <2>3, <2>4 DEF AskedOfAll
<1>12. ASSUME NEW c \in Clients, DropApproval(c) PROVE AskedOfAll'
  <2> SUFFICES ASSUME NEW q1 \in pending', NEW d \in Clients, stage'[q1] = "told", watch'[d] = "on", behind'[d] = "no"
               PROVE  q1 \in shown'[d] \/ InQueue(Event("ask", q1), queue'[d])
    BY DEF AskedOfAll
  <2>1. UNCHANGED <<stage, pending, queue, shown, watch, behind>>
    BY <1>12 DEF DropApproval
  <2> QED
    BY <2>1 DEF AskedOfAll
<1>13. CASE UNCHANGED dialogVars
  BY <1>13 DEF AskedOfAll
<1> QED
  BY <1>1, <1>2, <1>3, <1>4, <1>5, <1>6, <1>7, <1>8, <1>9, <1>10, <1>11,
     <1>12, <1>13, Zenon
  DEF DialogNext

DialogInv ==
    /\ DialogTyped /\ NotPending /\ Unanswered /\ InHand /\ OneHand /\ OnceEach
    /\ Somewhere /\ ResolvedIsGone /\ AskedOfAll

LEMMA DialogInvariant == DialogSpec => []DialogInv
<1>1. DialogInit => DialogInv
  <2> SUFFICES ASSUME DialogInit PROVE DialogInv
    OBVIOUS
  <2> USE DEF DialogInit, Idle
  <2>1. DialogLabels /\ DialogScreens
    BY DEF DialogLabels, DialogScreens
  <2>2. DialogCounts
    BY DialogAssumption DEF DialogCounts
  <2>3. DialogQueues
    <3>1. <<>> \in Seq(DialogEvents) /\ Len(<<>>) = 0
      BY EmptySeq
    <3> QED
      BY <3>1, DialogAssumption DEF DialogQueues
  <2>4. DialogAnswers
    BY DEF DialogAnswers
  <2>5. NotPending /\ Unanswered /\ InHand /\ OneHand /\ OnceEach /\ Somewhere
    BY DialogAssumption DEF NotPending, Unanswered, InHand, OneHand, OnceEach, Somewhere
  <2>6. ResolvedIsGone /\ AskedOfAll
    BY EmptySeq DEF ResolvedIsGone, AskedOfAll, InQueue
  <2> QED
    BY <2>1, <2>2, <2>3, <2>4, <2>5, <2>6 DEF DialogInv, DialogTyped
<1>2. ASSUME DialogInv, [DialogNext]_dialogVars PROVE DialogInv'
  <2> USE <1>2 DEF DialogInv
  <2>1. DialogTyped'
    <3>1. DialogLabels' /\ DialogCounts' /\ DialogScreens'
      BY DialogLabelsKept, DialogCountsKept, DialogScreensKept
    <3>2. DialogQueues' /\ DialogAnswers'
      BY DialogQueuesKept, DialogAnswersKept
    <3> QED
      BY <3>1, <3>2 DEF DialogTyped
  <2>2. NotPending' /\ Unanswered' /\ InHand'
    BY NotPendingKept, UnansweredKept, InHandKept
  <2>3. OneHand' /\ OnceEach' /\ Somewhere'
    BY OneHandKept, OnceEachKept, SomewhereKept
  <2>4. ResolvedIsGone' /\ AskedOfAll'
    BY ResolvedKept, AskedOfAllKept
  <2> QED
    BY <2>1, <2>2, <2>3, <2>4
<1> QED
  BY <1>1, <1>2, PTL DEF DialogSpec

(* What is pending, queued, shown and answered is what it should be.       *)
THEOREM DialogTypeCorrect == DialogSpec => []DialogTypeOK
<1>1. DialogInv => DialogTypeOK
  BY DEF DialogInv, DialogTyped, DialogLabels, DialogCounts, DialogScreens, DialogQueues, DialogAnswers,
     DialogTypeOK
<1> QED
  BY <1>1, DialogInvariant, PTL

(* With any number of clients that subscribe, answer, hang up and fall     *)
(* behind as they like, a question that waits is shown to all that were    *)
(* not told to resync, and it is answered once (resolve_approval).         *)
THEOREM QuestionsAreAnswered == DialogSpec => []AskedAndAnswered
<1>1. DialogInv => AskedAndAnswered
  <2> SUFFICES ASSUME DialogInv PROVE EveryoneIsAsked /\ AnsweredOnce
    BY DEF AskedAndAnswered
  <2>1. EveryoneIsAsked
    <3> SUFFICES ASSUME NEW q \in pending, NEW c \in Clients, stage[q] = "told", watch[c] = "on",
                        behind[c] = "no", q \notin shown[c]
                 PROVE  \E i \in DOMAIN queue[c] : queue[c][i] = Event("ask", q)
      BY DEF EveryoneIsAsked
    <3>1. InQueue(Event("ask", q), queue[c])
      BY DEF DialogInv, AskedOfAll
    <3>2. DOMAIN queue[c] = 1..Len(queue[c])
      BY LenProperties DEF DialogInv, DialogTyped, DialogQueues
    <3> QED
      BY <3>1, <3>2 DEF InQueue
  <2>2. AnsweredOnce
    BY DEF AnsweredOnce, DialogInv, OnceEach, Somewhere
  <2> QED
    BY <2>1, <2>2
<1> QED
  BY <1>1, DialogInvariant, PTL

=============================================================================
