------------------------------ MODULE Discovery ------------------------------
(****************************************************************************)
(* The rankings of the launcher (src/api/discovery, src/src/discovery):     *)
(* launches are reported by pages, and counted in Firestore or, when a write    *)
(* fails, in the memory of the server; lists are made of either, completed  *)
(* with curated ones and cached by the browser for a while.                 *)
(****************************************************************************)
EXTENDS Naturals, Sequences, FiniteSets, SequencesExt, FiniteSetsExt

CONSTANTS
  Page, None,
  Game,                     \* a set of numbers: in the order of their names
  CuratedTrending, CuratedTop,
  Limits,                   \* lengths asked for
  Window,                   \* days of the trending list
  DayLength, Ttl,           \* in ticks: a day, and how long a browser keeps a list
  MaxLaunches, MaxTime      \* bounds
DiscoveryAssumption ==
  /\ Game \subseteq Nat /\ Limits \subseteq Nat \ {0} /\ {Window, DayLength, Ttl} \subseteq Nat \ {0}
  /\ {CuratedTrending, CuratedTop} \subseteq Seq(Game)

VARIABLES
  now,
  heard,      \* the reports each day, as the server got them (a record for the properties)
  total, daily,             \* Firestore: discoveryGameAggregates, discoveryDailyLaunches
  memoryTotals, memoryDaily,
  asked,      \* the request of each page: when it was sent, and its answer, or None
  cache,      \* discoveryRankings in the browser's storage, or None
  shown       \* what each page ranks its games by, when it was loaded and whence, or None
vars == <<now, heard, total, daily, memoryTotals, memoryDaily, asked, cache, shown>>

Days == 0..(MaxTime \div DayLength)
Day(t) == t \div DayLength
Zero == [g \in Game |-> 0]
Counted(counts, day, g) == [counts EXCEPT ![day][g] = @ + 1]
Over(counts, days) == [g \in Game |-> SumFunction([d \in days |-> counts[d][g]])]
Items == [slug : Game, score : Nat]
Answer == [at : Nat, trending : Seq(Items), top : Seq(Items)]

\* Slip: one day too many.
RecentDaysWide(t) == {d \in Days : d <= Day(t) /\ Day(t) <= d + Window}

\* recentDayKeys
RecentDays(t) == {d \in Days : d <= Day(t) /\ Day(t) < d + Window}

\* rankEntries, rankedItem: by launches; ties by name, or backwards in Firestore's own order.
ByName == {r \in Game \X Game : r[1] < r[2]}
Backwards == {r \in Game \X Game : r[1] > r[2]}
Ranked(counts, limit, ties) ==
  LET order == SetToSortSeq({g \in Game : counts[g] > 0},
                 LAMBDA a, b : counts[a] > counts[b] \/ (counts[a] = counts[b] /\ <<a, b>> \in ties))
  IN  [i \in 1..Min({limit, Len(order)}) |-> [slug |-> order[i], score |-> counts[order[i]]]]

\* getCuratedRankings
Curated(slugs, limit) ==
  [i \in 1..Min({limit, Len(slugs)}) |-> [slug |-> slugs[i], score |-> limit - (i - 1)]]

\* Slip: a game ranked and curated is listed twice.
MergedTwice(primary, fallback, limit) ==
  LET list == primary \o fallback IN SubSeq(list, 1, Min({limit, Len(list)}))

\* mergeRankings
Merged(primary, fallback, limit) ==
  LET new  == SelectSeq(fallback, LAMBDA x : \A i \in 1..Len(primary) : primary[i].slug # x.slug)
      list == primary \o new
  IN  SubSeq(list, 1, Min({limit, Len(list)}))

List(trending, top, limit) ==
  [at |-> now, trending |-> Merged(trending, Curated(CuratedTrending, limit), limit),
   top |-> Merged(top, Curated(CuratedTop, limit), limit)]

\* getFirebaseTrending, getFirebaseTopPlayed
FirebaseTrending(limit) == Ranked(Over(daily, RecentDays(now)), limit, ByName)
FirebaseTop(limit) == Ranked(total, limit, Backwards)

\* getMemoryRankings
MemoryList(limit) ==
  List(Ranked(Over(memoryDaily, RecentDays(now)), limit, ByName), Ranked(memoryTotals, limit, ByName), limit)

\* getDiscoveryRankings: Firestore's, unless it has none or cannot be read.
FirebaseList(limit) == List(FirebaseTrending(limit), FirebaseTop(limit), limit)
Rankings(limit) ==
  {MemoryList(limit)} \cup {l \in {FirebaseList(limit)} : FirebaseTrending(limit) \o FirebaseTop(limit) # <<>>}

Init ==
  /\ now = 0 /\ heard = [d \in Days |-> Zero]
  /\ total = Zero /\ daily = [d \in Days |-> Zero]
  /\ memoryTotals = Zero /\ memoryDaily = [d \in Days |-> Zero]
  /\ asked = [p \in Page |-> None] /\ cache = None /\ shown = [p \in Page |-> None]

DiscoveryTypeOK ==
  /\ now \in 0..MaxTime /\ {total, memoryTotals} \subseteq [Game -> Nat]
  /\ {heard, daily, memoryDaily} \subseteq [Days -> [Game -> Nat]]
  /\ \A p \in Page : /\ asked[p] # None => asked[p].since \in Nat /\ {asked[p].answer} \ {None} \subseteq Answer
                     /\ shown[p] # None => shown[p].answer \in Answer /\ shown[p].at \in Nat /\ shown[p].cached \in BOOLEAN
  /\ cache # None => cache.answer \in Answer /\ cache.expires \in Nat

Tick ==
  /\ now < MaxTime /\ now' = now + 1
  /\ UNCHANGED <<heard, total, daily, memoryTotals, memoryDaily, asked, cache, shown>>

\* Slip: what Firestore has not taken in full is counted there again.
KeepsTwice(written, g) ==
  /\ total' = [total EXCEPT ![g] = @ + IF written = {"total", "daily"} THEN 1 ELSE 2]
  /\ daily' = Counted(daily, Day(now), g)

\* recordFirebaseLaunch: the two counters are written apart, and one may fail.
Keeps(written, g) ==
  /\ total' = IF "total" \in written THEN [total EXCEPT ![g] = @ + 1] ELSE total
  /\ daily' = IF "daily" \in written THEN Counted(daily, Day(now), g) ELSE daily

\* recordMemoryLaunch
Remembers(g) ==
  /\ memoryTotals' = [memoryTotals EXCEPT ![g] = @ + 1] /\ memoryDaily' = Counted(memoryDaily, Day(now), g)

\* sendDiscoveryLaunchEvent, which nobody waits for, and recordDiscoveryLaunch: whatever was
\* written, a failure is counted in memory.
Record(g) ==
  /\ SumFunction(Over(heard, Days)) < MaxLaunches /\ heard' = Counted(heard, Day(now), g)
  /\ \E written \in SUBSET {"total", "daily"} :
       /\ Keeps(written, g)
       /\ IF written = {"total", "daily"} THEN UNCHANGED <<memoryTotals, memoryDaily>> ELSE Remembers(g)
  /\ UNCHANGED <<now, asked, cache, shown>>

\* The server, a function that comes and goes, forgets what is in its memory.
Restart ==
  /\ memoryTotals' = Zero /\ memoryDaily' = [d \in Days |-> Zero]
  /\ UNCHANGED <<now, heard, total, daily, asked, cache, shown>>

Shows(p, list, cached) == shown' = [shown EXCEPT ![p] = [answer |-> list, at |-> now, cached |-> cached]]

\* getCachedDiscoveryRankings: a list that has not expired is shown, whatever its length.
Cached == cache # None /\ cache.expires > now
LoadCached(p) ==
  /\ asked[p] = None /\ Cached /\ Shows(p, cache.answer, TRUE)
  /\ UNCHANGED <<now, heard, total, daily, memoryTotals, memoryDaily, asked, cache>>

\* loadDiscoveryRankings asks the server, which answers at some time (handleDiscoveryRankings),
Ask(p) ==
  /\ asked[p] = None /\ ~Cached
  /\ \E limit \in Limits : asked' = [asked EXCEPT ![p] = [since |-> now, limit |-> limit, answer |-> None]]
  /\ UNCHANGED <<now, heard, total, daily, memoryTotals, memoryDaily, cache, shown>>
Answers(p) ==
  /\ asked[p] # None /\ asked[p].answer = None
  /\ \E list \in Rankings(asked[p].limit) : asked' = [asked EXCEPT ![p].answer = list]
  /\ UNCHANGED <<now, heard, total, daily, memoryTotals, memoryDaily, cache, shown>>

\* Slip: the list is kept for so long after it came.
ExpiresLate(r) == now + Ttl

Expires(r) == r.since + Ttl

\* and keeps the list for so long after it asked.
Loaded(p) ==
  /\ asked[p] # None /\ asked[p].answer # None /\ asked' = [asked EXCEPT ![p] = None]
  /\ cache' = [expires |-> Expires(asked[p]), answer |-> asked[p].answer] /\ Shows(p, asked[p].answer, FALSE)
  /\ UNCHANGED <<now, heard, total, daily, memoryTotals, memoryDaily>>

\* Without an answer the page keeps what it shows.
Failed(p) ==
  /\ asked[p] # None /\ asked' = [asked EXCEPT ![p] = None]
  /\ UNCHANGED <<now, heard, total, daily, memoryTotals, memoryDaily, cache, shown>>

Next ==
  \/ Tick \/ Restart
  \/ \E g \in Game : Record(g)
  \/ \E p \in Page : LoadCached(p) \/ Ask(p) \/ Answers(p) \/ Loaded(p) \/ Failed(p)

Spec == Init /\ [][Next]_vars

\* A list is games that were launched, the most launched first, and then games that are
\* curated, in that order; and no game is in it twice.
ListOf(items, counts, curated) ==
  /\ \A i, j \in 1..Len(items) : i # j => items[i].slug # items[j].slug
  /\ \E k \in 0..Len(items) :
       /\ \A i \in 1..k : items[i].score \in 1..counts[items[i].slug]
       /\ \A i \in 1..k : i < k => items[i].score >= items[i + 1].score
       /\ IsPrefix([i \in 1..(Len(items) - k) |-> items[k + i].slug],
                   SelectSeq(curated, LAMBDA g : \A i \in 1..k : items[i].slug # g))

\* Wherever Firestore fails, the server restarts or reports are lost, no game is ranked by
\* more launches than were reported, of all time or of the last days before the list was
\* made; and a list from the cache is younger than the cache's limit, however long its
\* answer took (recordDiscoveryLaunch, mergeRankings, loadDiscoveryRankings).
RankingsHonest ==
  \A p \in Page : shown[p] # None =>
    LET list == shown[p].answer
        recent == {d \in Days : d * DayLength <= list.at /\ list.at < (d + Window) * DayLength}
    IN  /\ ListOf(list.trending, Over(heard, recent), CuratedTrending)
        /\ ListOf(list.top, Over(heard, Days), CuratedTop)
        /\ shown[p].cached => shown[p].at < list.at + Ttl
=============================================================================
