--------------------------- MODULE ProgressProofs ---------------------------
(***************************************************************************)
(* Theorems about Progress, for any number of devices, pages, missions,    *)
(* challenges and items, and any rewards, prices and lengths of a day.     *)
(***************************************************************************)
EXTENDS Progress, FiniteSetTheorems, TLAPS

-----------------------------------------------------------------------------
(* The inductive invariants *)

Goals == Mission \cup Challenge
Goods == Item \cup Badges

Profiles ==
    [coins : Nat, items : SUBSET Goods, day : Int, week : Int, done : SUBSET Goals,
     task : {"none", "open", "done"}, class : [active : BOOLEAN, ends : Nat]]
Saves == [coins : Nat, items : SUBSET Goods]
Copies ==
    [device : Device, mem : Profiles, cloud : {"off", "pulled", "pushing", "on"},
     got : Saves \cup {None}, timer : BOOLEAN]
Pushes == [page : Page, data : Saves]

TypeInv ==
    /\ store \in [Device -> Profiles] /\ page \in [Page -> Copies \cup {None}]
    /\ saved \in Saves \cup {None} /\ push \in SUBSET Pushes
    /\ now \in 0 .. MaxTime /\ steps \in 0 .. MaxSteps /\ minted \in Nat
    /\ earned \in [Device -> SUBSET Goods] /\ paid \in [Device -> SUBSET (Goals \X Nat)]
    /\ twice \subseteq Device /\ crowded \subseteq Device

\* Copies on their way hold no more coins than were paid either.
CoinInv ==
    /\ CoinsEarned
    /\ \A p \in Page : page[p] # None /\ page[p].got # None => page[p].got.coins <= minted
    /\ \A m \in push : m.data.coins <= minted

\* A copy s that has all the goods, and remembers of the goals paid those of its day and
\* its week; none was paid later.
Bucket(g, s) == IF g \in Mission THEN s.day ELSE s.week
Keeps(s, goods, fees, time) ==
    /\ goods \subseteq s.items
    /\ s.day <= time \div Day /\ s.week <= time \div Week
    /\ \A f \in fees : /\ f[2] <= Bucket(f[1], s)
                       /\ f[2] = Bucket(f[1], s) => f[1] \in s.done

\* Of a device with one page at a time, its storage and the page's copy keep all.
KeepInv ==
    /\ \A d \in Device \ crowded : Keeps(store[d], earned[d], paid[d], now)
    /\ \A p \in Page : page[p] # None /\ page[p].device \notin crowded =>
           LET d == page[p].device IN Keeps(page[p].mem, earned[d], paid[d], now)
    /\ \A p, q \in Page : page[p] # None /\ page[q] # None /\ page[p].device = page[q].device /\ p # q
           => page[p].device \in crowded
    /\ twice \subseteq crowded

ProgressInv == TypeInv /\ CoinInv /\ KeepInv

-----------------------------------------------------------------------------
(* Days and weeks *)

LEMMA TimesMonotone ==
    ASSUME NEW m \in Nat, NEW a \in Nat, NEW b \in Nat, a <= b PROVE a * m <= b * m
<1>1. (b - a) * m \in Nat
    BY b - a \in Nat
<1>2. (b - a) * m = b * m - a * m
    OBVIOUS
<1>. QED
    BY <1>1, <1>2

LEMMA DivisionNat ==
    ASSUME NEW a \in Nat, NEW n \in Nat \ {0}
    PROVE  a \div n \in Nat /\ (a \div n) * n <= a /\ a < (a \div n + 1) * n
  OBVIOUS

LEMMA DivisionMonotone ==
    ASSUME NEW a \in Nat, NEW b \in Nat, NEW n \in Nat \ {0}, a <= b PROVE a \div n <= b \div n
<1>1. SUFFICES ASSUME b \div n + 1 <= a \div n PROVE FALSE
    BY DivisionNat
<1>2. (b \div n + 1) * n <= (a \div n) * n
    BY <1>1, TimesMonotone, DivisionNat
<1>. QED
    BY <1>2, DivisionNat

LEMMA KeyNat ==
    ASSUME ProgressAssumption, now \in Nat
    PROVE  /\ now \div Day \in Nat /\ now \div Week \in Nat
           /\ \A g \in Goals : Key(g) \in Nat
           /\ \A g \in Goals : Key(g) = IF g \in Mission THEN now \div Day ELSE now \div Week
  BY DivisionNat DEF ProgressAssumption, Key

-----------------------------------------------------------------------------
(* What the operators of the model return *)

LEMMA FreshType == Fresh \in Profiles
  BY DEF Fresh, Profiles

LEMMA EndedKeeps ==
    ASSUME NEW s \in Profiles
    PROVE  /\ Ended(s) \in Profiles /\ Ended(s).coins = s.coins /\ Ended(s).items = s.items
           /\ Ended(s).day = s.day /\ Ended(s).week = s.week /\ Ended(s).done = s.done
  BY DEF Ended, Profiles

LEMMA RolledType ==
    ASSUME ProgressAssumption, now \in Nat, NEW s \in Profiles
    PROVE  /\ Rolled(s) \in Profiles /\ Rolled(s).coins = s.coins /\ Rolled(s).items = s.items
           /\ Rolled(s).task = s.task
           /\ Rolled(s).day = now \div Day /\ Rolled(s).week = now \div Week
           /\ Rolled(s).done = {g \in s.done : IF g \in Mission THEN s.day = Key(g) ELSE s.week = Key(g)}
<1>. DEFINE kept == {g \in s.done : IF g \in Mission THEN s.day = Key(g) ELSE s.week = Key(g)}
<1>1. Rolled(s) = [s EXCEPT !.day = now \div Day, !.week = now \div Week, !.done = kept]
    BY DEF Rolled
<1>2. kept \in SUBSET Goals
    BY DEF Profiles
<1>3. now \div Day \in Int /\ now \div Week \in Int
    BY KeyNat
<1>. HIDE DEF kept
<1>4. Rolled(s) \in Profiles /\ Rolled(s).done = kept
    BY <1>1, <1>2, <1>3 DEF Profiles
<1>5. /\ Rolled(s).coins = s.coins /\ Rolled(s).items = s.items /\ Rolled(s).task = s.task
      /\ Rolled(s).day = now \div Day /\ Rolled(s).week = now \div Week
    BY <1>1 DEF Profiles
<1>. QED
    BY <1>4, <1>5 DEF kept

LEMMA NewFinite ==
    ASSUME ProgressAssumption, NEW s, NEW reached \in SUBSET Goals
    PROVE  New(s, reached) \subseteq reached /\ Cardinality(New(s, reached)) \in Nat
<1>1. New(s, reached) \subseteq reached
    BY DEF New
<1>2. IsFiniteSet(Goals)
    BY DEF ProgressAssumption, Goals
<1>3. IsFiniteSet(New(s, reached))
    BY <1>1, <1>2, FS_Subset
<1>. QED
    BY <1>1, <1>3, FS_CardinalityType

LEMMA ProductNat == ASSUME NEW a \in Nat, NEW b \in Nat PROVE a * b \in Nat
  OBVIOUS

LEMMA RecordedType ==
    ASSUME ProgressAssumption, now \in Nat, NEW s \in Profiles, NEW reached \in SUBSET Goals
    PROVE  /\ Recorded(s, reached) \in Profiles
           /\ Recorded(s, reached).coins - s.coins \in Nat
           /\ s.items \subseteq Recorded(s, reached).items
           /\ Recorded(s, reached).day = now \div Day /\ Recorded(s, reached).week = now \div Week
           /\ Recorded(s, reached).done = Rolled(s).done \cup reached
<1>. DEFINE r        == Rolled(s)
            done     == r.done \cup reached
            complete == /\ r.task = "open"
                        /\ Cardinality(done \cap Mission) >= DailyRequired
                        /\ Cardinality(done \cap Challenge) >= WeeklyRequired
            badges   == (IF New(s, reached) \cap Mission # {} THEN {"daily"} ELSE {})
                   \cup (IF Mission \subseteq done THEN {"daily sweep"} ELSE {})
                   \cup (IF New(s, reached) \cap Challenge # {} THEN {"weekly"} ELSE {})
                   \cup (IF Challenge \subseteq done THEN {"weekly sweep"} ELSE {})
                   \cup (IF complete THEN {"assignment"} ELSE {})
            task     == IF complete THEN "done" ELSE r.task
            pay      == Reward * Cardinality(New(s, reached))
<1>1. Recorded(s, reached) = [r EXCEPT !.done = done, !.items = @ \cup badges, !.coins = @ + pay,
                                       !.task = task]
    BY DEF Recorded
<1>2. r \in Profiles /\ r.coins = s.coins /\ r.items = s.items /\ r.day = now \div Day /\ r.week = now \div Week
    BY RolledType
<1>3. badges \subseteq Badges
    BY DEF Badges
<1>4. pay \in Nat
    BY NewFinite, ProductNat DEF ProgressAssumption
<1>5. done \in SUBSET Goals
    BY <1>2 DEF Profiles
<1>9. task \in {"none", "open", "done"}
    BY <1>2 DEF Profiles
<1>. HIDE DEF r, done, complete, badges, task, pay
<1>6. /\ Recorded(s, reached).coins = s.coins + pay
      /\ Recorded(s, reached).items = s.items \cup badges
      /\ Recorded(s, reached).day = now \div Day /\ Recorded(s, reached).week = now \div Week
      /\ Recorded(s, reached).done = done /\ Recorded(s, reached).task = task
      /\ Recorded(s, reached).class = r.class
      /\ Recorded(s, reached) = [coins |-> s.coins + pay, items |-> s.items \cup badges,
             day |-> now \div Day, week |-> now \div Week, done |-> done, task |-> task, class |-> r.class]
    BY <1>1, <1>2 DEF Profiles
<1>10. s.coins + pay \in Nat /\ s.items \cup badges \in SUBSET Goods /\ r.class \in [active : BOOLEAN, ends : Nat]
       /\ r.day \in Int /\ r.week \in Int
    BY <1>2, <1>3, <1>4 DEF Profiles, Goods
<1>11. Recorded(s, reached) \in Profiles
    BY <1>2, <1>5, <1>6, <1>9, <1>10 DEF Profiles
<1>7. s.coins \in Nat
    BY DEF Profiles
<1>8. done = Rolled(s).done \cup reached
    BY DEF done, r
<1>. QED
    BY <1>4, <1>6, <1>7, <1>8, <1>11

LEMMA MergedType ==
    ASSUME NEW s \in Profiles, NEW got \in Saves
    PROVE  /\ Merged(s, got) \in Profiles /\ s.items \subseteq Merged(s, got).items
           /\ Merged(s, got).coins = Larger(s.coins, got.coins)
           /\ Merged(s, got).day = s.day /\ Merged(s, got).week = s.week /\ Merged(s, got).done = s.done
<1>1. Larger(s.coins, got.coins) \in Nat
    BY DEF Larger, Profiles, Saves
<1>. QED
    BY <1>1 DEF Merged, Profiles, Saves

LEMMA SyncKeysType ==
    ASSUME NEW s \in Profiles PROVE SyncKeys(s) \in Saves /\ SyncKeys(s).coins = s.coins
  BY DEF SyncKeys, Profiles, Saves

-----------------------------------------------------------------------------
(* What a copy keeps *)

LEMMA KeepsGrowing ==
    ASSUME NEW s, NEW t, NEW goods, NEW more, NEW fees, NEW time, Keeps(s, goods, fees, time),
           s.items \subseteq t.items, more \subseteq t.items,
           t.day = s.day, t.week = s.week, t.done = s.done
    PROVE  Keeps(t, goods \cup more, fees, time)
  BY DEF Keeps, Bucket

LEMMA KeepsSame ==
    ASSUME NEW s, NEW t, NEW goods, NEW fees, NEW time, Keeps(s, goods, fees, time),
           s.items \subseteq t.items, t.day = s.day, t.week = s.week, t.done = s.done
    PROVE  Keeps(t, goods, fees, time)
  BY DEF Keeps, Bucket

\* A new day or week forgets only goals of an older one.
LEMMA KeepsRolled ==
    ASSUME ProgressAssumption, now \in Nat, NEW s \in Profiles, NEW goods,
           NEW fees \in SUBSET (Goals \X Nat), Keeps(s, goods, fees, now)
    PROVE  Keeps(Rolled(s), goods, fees, now)
<1>. DEFINE r == Rolled(s)
<1>1. /\ r.items = s.items /\ r.day = now \div Day /\ r.week = now \div Week
      /\ r.done = {g \in s.done : IF g \in Mission THEN s.day = Key(g) ELSE s.week = Key(g)}
    BY RolledType
<1>2. now \div Day \in Nat /\ now \div Week \in Nat /\ s.day \in Int /\ s.week \in Int
    BY KeyNat DEF Profiles
<1>. HIDE DEF r
<1>3. ASSUME NEW f \in fees PROVE f[2] <= Bucket(f[1], r) /\ (f[2] = Bucket(f[1], r) => f[1] \in r.done)
  <2>1. f[1] \in Goals /\ f[2] \in Nat
      OBVIOUS
  <2>2. f[2] <= Bucket(f[1], s) /\ (f[2] = Bucket(f[1], s) => f[1] \in s.done)
      BY DEF Keeps
  <2>3. s.day <= now \div Day /\ s.week <= now \div Week
      BY DEF Keeps
  <2>4. CASE f[1] \in Mission
    <3>1. Key(f[1]) = now \div Day
        BY <2>4 DEF Key
    <3>. QED
        BY <1>1, <1>2, <2>1, <2>2, <2>3, <2>4, <3>1 DEF Bucket
  <2>5. CASE f[1] \notin Mission
    <3>1. Key(f[1]) = now \div Week
        BY <2>5 DEF Key
    <3>. QED
        BY <1>1, <1>2, <2>1, <2>2, <2>3, <2>5, <3>1 DEF Bucket
  <2>. QED
      BY <2>4, <2>5
<1>. QED
    BY <1>1, <1>2, <1>3 DEF Keeps, r

\* What recordMissionProgress pays was not paid before by a copy that keeps all.
LEMMA KeepsRecorded ==
    ASSUME ProgressAssumption, now \in Nat, NEW s \in Profiles, NEW goods,
           NEW fees \in SUBSET (Goals \X Nat), Keeps(s, goods, fees, now),
           NEW reached \in SUBSET Goals, NEW t,
           Recorded(s, reached).items \subseteq t.items,
           t.day = Recorded(s, reached).day, t.week = Recorded(s, reached).week,
           t.done = Recorded(s, reached).done
    PROVE  LET paying == {<<g, Key(g)>> : g \in New(s, reached)}
           IN  /\ Keeps(t, goods \cup (t.items \ s.items), fees \cup paying, now)
               /\ paying \cap fees = {}
<1>. DEFINE r == Rolled(s)
            paying == {<<g, Key(g)>> : g \in New(s, reached)}
<1>1. Keeps(r, goods, fees, now)
    BY KeepsRolled
<1>2. /\ s.items \subseteq t.items /\ t.day = now \div Day /\ t.week = now \div Week
      /\ t.done = r.done \cup reached
    BY RecordedType
<1>3. r.day = now \div Day /\ r.week = now \div Week /\ r.items = s.items
    BY RolledType
<1>4. \A g : Bucket(g, t) = Key(g) /\ Bucket(g, r) = Key(g)
    BY <1>2, <1>3 DEF Bucket, Key
<1>5. New(s, reached) = reached \ r.done
    BY DEF New
<1>6. now \div Day \in Nat /\ now \div Week \in Nat /\ \A g \in Goals : Key(g) \in Nat
    BY KeyNat
<1>. HIDE DEF r
<1>7. \A f \in paying : f[1] \in reached \ r.done /\ f[2] = Key(f[1])
    BY <1>5
<1>8. paying \cap fees = {}
    BY <1>1, <1>4, <1>7 DEF Keeps
<1>. HIDE DEF paying
<1>9. goods \cup (t.items \ s.items) \subseteq t.items
    BY <1>2, <1>1, <1>3 DEF Keeps
<1>10. ASSUME NEW f \in fees \cup paying
       PROVE  f[2] <= Bucket(f[1], t) /\ (f[2] = Bucket(f[1], t) => f[1] \in t.done)
  <2>1. CASE f \in fees
      BY <1>1, <1>2, <1>4, <2>1 DEF Keeps
  <2>2. CASE f \in paying
    <3>1. f[1] \in reached /\ f[1] \in Goals /\ f[2] = Key(f[1])
        BY <1>7, <2>2
    <3>. QED
        BY <1>2, <1>4, <1>6, <3>1
  <2>. QED
      BY <2>1, <2>2
<1>11. Keeps(t, goods \cup (t.items \ s.items), fees \cup paying, now)
    BY <1>2, <1>6, <1>9, <1>10 DEF Keeps
<1>. QED
    BY <1>8, <1>11 DEF paying

LEMMA KeepsLater ==
    ASSUME ProgressAssumption, NEW s \in Profiles, NEW goods, NEW fees, NEW a \in Nat, NEW b \in Nat,
           a <= b, Keeps(s, goods, fees, a)
    PROVE  Keeps(s, goods, fees, b)
<1>1. a \div Day <= b \div Day /\ a \div Week <= b \div Week
    BY DivisionMonotone DEF ProgressAssumption
<1>2. a \div Day \in Nat /\ a \div Week \in Nat /\ b \div Day \in Nat /\ b \div Week \in Nat
    BY DivisionNat DEF ProgressAssumption
<1>3. s.day \in Int /\ s.week \in Int
    BY DEF Profiles
<1>. QED
    BY <1>1, <1>2, <1>3 DEF Keeps

-----------------------------------------------------------------------------
(* The steps *)

\* A step that writes all of a page's copy keeps the invariant, provided the new copy
\* holds no more coins than were paid and keeps what was earned.
LEMMA SaveKeeps ==
    ASSUME ProgressAssumption, ProgressInv, NEW p \in Page, NEW t \in Profiles, Save(p, t),
           minted' \in Nat, minted <= minted', t.coins <= minted',
           NEW goods \in SUBSET Goods, earned' = [earned EXCEPT ![page[p].device] = goods],
           NEW fees \in SUBSET (Goals \X Nat), paid' = [paid EXCEPT ![page[p].device] = fees],
           twice' \subseteq twice \cup {page[p].device},
           page[p].device \notin crowded => Keeps(t, goods, fees, now) /\ twice' = twice
    PROVE  ProgressInv'
<1>. DEFINE d == page[p].device
<1>1. page[p] \in Copies /\ d \in Device
    BY DEF ProgressInv, TypeInv, Save, Copies
<1>2. /\ store' = [store EXCEPT ![d] = t] /\ page' = [page EXCEPT ![p].mem = t]
      /\ steps' = steps + 1 /\ steps < MaxSteps /\ page[p] # None
      /\ saved' = saved /\ push' = push /\ now' = now /\ crowded' = crowded
    BY DEF Save, Cloud
<1>3. /\ page'[p] \in Copies /\ page'[p].device = d /\ page'[p].got = page[p].got /\ page'[p].mem = t
      /\ \A q \in Page : q # p => page'[q] = page[q]
    BY <1>1, <1>2 DEF ProgressInv, TypeInv, Copies
<1>4. TypeInv'
  <2>1. page' \in [Page -> Copies \cup {None}]
      BY <1>2, <1>3 DEF ProgressInv, TypeInv
  <2>2. steps' \in 0 .. MaxSteps
      BY <1>2 DEF ProgressInv, TypeInv, ProgressAssumption
  <2>3. store' \in [Device -> Profiles] /\ earned' \in [Device -> SUBSET Goods]
        /\ paid' \in [Device -> SUBSET (Goals \X Nat)] /\ twice' \subseteq Device
      BY <1>1, <1>2 DEF ProgressInv, TypeInv
  <2>. QED
      BY <1>2, <2>1, <2>2, <2>3 DEF ProgressInv, TypeInv
<1>5. CoinInv'
  <2>1. \A a \in Nat : a <= minted => a <= minted'
      BY DEF ProgressInv, TypeInv
  <2>2. ASSUME NEW e \in Device PROVE store'[e].coins <= minted'
    <3>1. store[e].coins \in Nat /\ store[e].coins <= minted
        BY DEF ProgressInv, TypeInv, CoinInv, CoinsEarned, Profiles
    <3>2. store'[e] = t \/ store'[e] = store[e]
        BY <1>2 DEF ProgressInv, TypeInv
    <3>. QED
        BY <2>1, <3>1, <3>2
  <2>3. ASSUME NEW q \in Page, page'[q] # None
        PROVE  page'[q].mem.coins <= minted' /\ (page'[q].got # None => page'[q].got.coins <= minted')
    <3>1. page[q] # None /\ page[q] \in Copies
        BY <1>2, <1>3, <2>3 DEF ProgressInv, TypeInv
    <3>2. /\ page[q].mem.coins \in Nat /\ page[q].mem.coins <= minted
          /\ page[q].got # None => page[q].got.coins \in Nat /\ page[q].got.coins <= minted
        BY <3>1 DEF ProgressInv, CoinInv, CoinsEarned, Copies, Profiles, Saves
    <3>. QED
        BY <1>3, <2>1, <3>2
  <2>4. saved' # None => saved'.coins <= minted'
      BY <1>2, <2>1 DEF ProgressInv, TypeInv, CoinInv, CoinsEarned, Saves
  <2>5. ASSUME NEW m \in push' PROVE m.data.coins <= minted'
    <3>1. m \in Pushes /\ m.data.coins <= minted
        BY <1>2 DEF ProgressInv, TypeInv, CoinInv
    <3>. QED
        BY <2>1, <3>1 DEF Pushes, Saves
  <2>. QED
      BY <2>2, <2>3, <2>4, <2>5 DEF CoinInv, CoinsEarned
<1>6. KeepInv'
  <2>1. ASSUME NEW e \in Device \ crowded' PROVE Keeps(store'[e], earned'[e], paid'[e], now')
    <3>1. CASE e = d
        BY <1>2, <3>1 DEF ProgressInv, TypeInv
    <3>2. CASE e # d
        BY <1>2, <3>2 DEF ProgressInv, TypeInv, KeepInv
    <3>. QED
        BY <3>1, <3>2
  <2>2. ASSUME NEW q \in Page, page'[q] # None, page'[q].device \notin crowded'
        PROVE  Keeps(page'[q].mem, earned'[page'[q].device], paid'[page'[q].device], now')
    <3>1. CASE q = p
        BY <1>1, <1>2, <1>3, <2>2, <3>1 DEF ProgressInv, TypeInv
    <3>2. CASE q # p
      <4>1. page'[q] = page[q] /\ page[q] # None
          BY <1>3, <2>2, <3>2
      <4>2. page[q].device # d /\ page[q].device \in Device
          BY <1>2, <2>2, <3>2, <4>1 DEF ProgressInv, TypeInv, KeepInv, Copies
      <4>. QED
          BY <1>2, <2>2, <4>1, <4>2 DEF ProgressInv, TypeInv, KeepInv
    <3>. QED
        BY <3>1, <3>2
  <2>3. ASSUME NEW a \in Page, NEW b \in Page, page'[a] # None, page'[b] # None,
               page'[a].device = page'[b].device, a # b
        PROVE  page'[a].device \in crowded'
    <3>1. page'[a].device = page[a].device /\ page'[b].device = page[b].device
          /\ page[a] # None /\ page[b] # None
        BY <1>2, <1>3, <2>3
    <3>. QED
        BY <1>2, <2>3, <3>1 DEF ProgressInv, KeepInv
  <2>4. twice' \subseteq crowded'
      BY <1>2 DEF ProgressInv, KeepInv
  <2>. QED
      BY <2>1, <2>2, <2>3, <2>4 DEF KeepInv
<1>. QED
    BY <1>4, <1>5, <1>6 DEF ProgressInv

\* The same for a step that earns and pays nothing.
LEMMA SaveAlone ==
    ASSUME ProgressAssumption, ProgressInv, NEW p \in Page, NEW t \in Profiles, Save(p, t),
           UNCHANGED Told, t.coins <= page[p].mem.coins,
           \A goods : \A fees \in SUBSET (Goals \X Nat) :
               Keeps(page[p].mem, goods, fees, now) => Keeps(t, goods, fees, now)
    PROVE  ProgressInv'
<1>. DEFINE d == page[p].device
<1>1. page[p] # None /\ page[p] \in Copies /\ d \in Device
    BY DEF ProgressInv, TypeInv, Save, Copies
<1>2. earned' = [earned EXCEPT ![d] = earned[d]] /\ paid' = [paid EXCEPT ![d] = paid[d]]
      /\ twice' = twice /\ minted' = minted /\ minted \in Nat
      /\ earned[d] \in SUBSET Goods /\ paid[d] \in SUBSET (Goals \X Nat)
    BY <1>1 DEF Told, ProgressInv, TypeInv
<1>3. t.coins <= minted'
  <2>1. t.coins \in Nat /\ page[p].mem.coins \in Nat
      BY <1>1 DEF Copies, Profiles
  <2>2. page[p].mem.coins <= minted
      BY <1>1 DEF ProgressInv, CoinInv, CoinsEarned
  <2>. QED
      BY <1>2, <2>1, <2>2
<1>4. d \notin crowded => Keeps(t, earned[d], paid[d], now)
    BY <1>1, <1>2 DEF ProgressInv, KeepInv
<1>. HIDE DEF d
<1>5. minted <= minted'
    BY <1>2
<1>. QED
    BY <1>1, <1>2, <1>3, <1>4, <1>5, SaveKeeps DEF d

LEMMA PageFacts ==
    ASSUME ProgressInv, NEW p \in Page, page[p] # None
    PROVE  /\ page[p] \in Copies /\ page[p].device \in Device /\ page[p].mem \in Profiles
           /\ store[page[p].device] \in Profiles
           /\ earned[page[p].device] \in SUBSET Goods
           /\ paid[page[p].device] \in SUBSET (Goals \X Nat)
           /\ page[p].mem.coins <= minted /\ store[page[p].device].coins <= minted
           /\ page[p].got # None => page[p].got \in Saves /\ page[p].got.coins <= minted
           /\ page[p].device \notin crowded =>
                  /\ Keeps(page[p].mem, earned[page[p].device], paid[page[p].device], now)
                  /\ Keeps(store[page[p].device], earned[page[p].device], paid[page[p].device], now)
<1>1. page[p] \in Copies
    BY DEF ProgressInv, TypeInv
<1>2. page[p].device \in Device /\ page[p].mem \in Profiles /\ page[p].got \in Saves \cup {None}
    BY <1>1 DEF Copies
<1>. QED
    BY <1>1, <1>2 DEF ProgressInv, TypeInv, CoinInv, CoinsEarned, KeepInv

LEMMA TouchStep ==
    ASSUME ProgressAssumption, ProgressInv, NEW p \in Page, Touch(p) PROVE ProgressInv'
<1>1. page[p] # None /\ Save(p, page[p].mem) /\ UNCHANGED Told
    BY DEF Touch
<1>2. page[p].mem \in Profiles
    BY <1>1, PageFacts
<1>3. page[p].mem.coins <= page[p].mem.coins
    BY <1>2 DEF Profiles
<1>. QED
    BY <1>1, <1>2, <1>3, SaveAlone

LEMMA ViewStep ==
    ASSUME ProgressAssumption, ProgressInv, NEW p \in Page, View(p) PROVE ProgressInv'
<1>. DEFINE s == page[p].mem
<1>1. page[p] # None /\ Save(p, Rolled(s)) /\ UNCHANGED Told
    BY DEF View
<1>2. s \in Profiles /\ now \in Nat
    BY <1>1, PageFacts DEF ProgressInv, TypeInv
<1>3. Rolled(s) \in Profiles /\ Rolled(s).coins = s.coins /\ s.coins \in Nat
    BY <1>2, RolledType DEF Profiles
<1>4. \A goods : \A fees \in SUBSET (Goals \X Nat) :
          Keeps(s, goods, fees, now) => Keeps(Rolled(s), goods, fees, now)
    BY <1>2, KeepsRolled
<1>5. Rolled(s).coins <= s.coins
    BY <1>3
<1>. QED
    BY <1>1, <1>3, <1>4, <1>5, SaveAlone

LEMMA AssignStep ==
    ASSUME ProgressAssumption, ProgressInv, NEW p \in Page, NEW task \in {"open", "none"}, Assign(p, task)
    PROVE  ProgressInv'
<1>. DEFINE s == page[p].mem
            t == [s EXCEPT !.task = task]
<1>1. page[p] # None /\ Save(p, t) /\ UNCHANGED Told
    BY DEF Assign
<1>2. s \in Profiles
    BY <1>1, PageFacts
<1>3. /\ t \in Profiles /\ t.coins = s.coins /\ s.coins \in Nat /\ t.items = s.items
      /\ t.day = s.day /\ t.week = s.week /\ t.done = s.done
    BY <1>2 DEF Profiles
<1>. HIDE DEF t
<1>4. \A goods : \A fees : Keeps(s, goods, fees, now) => Keeps(t, goods, fees, now)
    BY <1>3, KeepsSame
<1>5. t.coins <= s.coins
    BY <1>3
<1>. QED
    BY <1>1, <1>3, <1>4, <1>5, SaveAlone

LEMMA ClassStep ==
    ASSUME ProgressAssumption, ProgressInv, NEW p \in Page, Class(p) PROVE ProgressInv'
<1>. DEFINE s == page[p].mem
<1>1. page[p] # None /\ UNCHANGED Told
    BY DEF Class
<1>2. s \in Profiles /\ now \in Nat
    BY <1>1, PageFacts DEF ProgressInv, TypeInv
<1>3. PICK t \in {[s EXCEPT !.class = [active |-> TRUE, ends |-> now + 1]],
                  [s EXCEPT !.class = [active |-> FALSE, ends |-> now]],
                  Ended(s)} : Save(p, t)
    BY DEF Class
<1>4. /\ t \in Profiles /\ t.coins = s.coins /\ s.coins \in Nat /\ t.items = s.items
      /\ t.day = s.day /\ t.week = s.week /\ t.done = s.done
  <2>1. CASE t = Ended(s)
      BY <1>2, <2>1, EndedKeeps DEF Profiles
  <2>2. ASSUME NEW class \in [active : BOOLEAN, ends : Nat], t = [s EXCEPT !.class = class]
        PROVE  /\ t \in Profiles /\ t.coins = s.coins /\ s.coins \in Nat /\ t.items = s.items
               /\ t.day = s.day /\ t.week = s.week /\ t.done = s.done
      BY <1>2, <2>2 DEF Profiles
  <2>3. [active |-> TRUE, ends |-> now + 1] \in [active : BOOLEAN, ends : Nat]
        /\ [active |-> FALSE, ends |-> now] \in [active : BOOLEAN, ends : Nat]
      BY <1>2
  <2>. QED
      BY <1>3, <2>1, <2>2, <2>3
<1>5. \A goods : \A fees : Keeps(s, goods, fees, now) => Keeps(t, goods, fees, now)
    BY <1>4, KeepsSame
<1>6. t.coins <= s.coins
    BY <1>4
<1>. QED
    BY <1>1, <1>3, <1>4, <1>5, <1>6, SaveAlone

LEMMA PlayStep ==
    ASSUME ProgressAssumption, ProgressInv, NEW p \in Page, NEW reached \in SUBSET Goals,
           NEW items \in SUBSET Item, Play(p, reached, items)
    PROVE  ProgressInv'
<1>. DEFINE d == page[p].device
            s == page[p].mem
            r == Recorded(s, reached)
            t == [r EXCEPT !.items = @ \cup items]
            paying == {<<g, Key(g)>> : g \in New(s, reached)}
            goods == earned[d] \cup (t.items \ s.items)
            fees == paid[d] \cup paying
<1>1. /\ page[p] # None /\ Save(p, t)
      /\ earned' = [earned EXCEPT ![d] = goods] /\ paid' = [paid EXCEPT ![d] = fees]
      /\ twice' = IF paying \cap paid[d] # {} THEN twice \cup {d} ELSE twice
      /\ minted' = minted + t.coins - s.coins
    BY DEF Play
<1>2. /\ s \in Profiles /\ d \in Device /\ now \in Nat /\ s.coins <= minted /\ minted \in Nat
      /\ earned[d] \in SUBSET Goods /\ paid[d] \in SUBSET (Goals \X Nat)
      /\ d \notin crowded => Keeps(s, earned[d], paid[d], now)
    BY <1>1, PageFacts DEF ProgressInv, TypeInv
<1>3. r \in Profiles /\ r.coins - s.coins \in Nat
    BY <1>2, RecordedType
<1>. HIDE DEF r
<1>4. /\ t \in Profiles /\ t.coins = r.coins /\ r.items \subseteq t.items
      /\ t.day = r.day /\ t.week = r.week /\ t.done = r.done /\ t.items \in SUBSET Goods
      /\ t.coins \in Nat /\ s.coins \in Nat
    BY <1>2, <1>3 DEF Profiles, Goods
<1>. HIDE DEF t
<1>5. minted' \in Nat /\ minted <= minted' /\ t.coins <= minted'
    BY <1>1, <1>2, <1>3, <1>4
<1>6. goods \in SUBSET Goods
    BY <1>2, <1>4
<1>7. fees \in SUBSET (Goals \X Nat)
  <2>1. \A g \in New(s, reached) : g \in Goals /\ Key(g) \in Nat
      BY <1>2, KeyNat, NewFinite
  <2>. QED
      BY <1>2, <2>1
<1>8. d \notin crowded => Keeps(t, goods, fees, now) /\ paying \cap paid[d] = {}
  <2>1. /\ Recorded(s, reached).items \subseteq t.items /\ t.done = Recorded(s, reached).done
        /\ t.day = Recorded(s, reached).day /\ t.week = Recorded(s, reached).week
      BY <1>4 DEF r
  <2>2. ASSUME d \notin crowded PROVE Keeps(s, earned[d], paid[d], now)
      BY <1>2, <2>2
  <2>3. ASSUME Keeps(s, earned[d], paid[d], now)
        PROVE  Keeps(t, goods, fees, now) /\ paying \cap paid[d] = {}
      BY <1>2, <2>1, <2>3, KeepsRecorded
  <2>. QED
      BY <2>2, <2>3
<1>. HIDE DEF goods, fees, paying
<1>9. twice' \subseteq twice \cup {d} /\ (d \notin crowded => twice' = twice)
    BY <1>1, <1>8
<1>. QED
    BY <1>1, <1>4, <1>5, <1>6, <1>7, <1>8, <1>9, SaveKeeps

LEMMA BuyStep ==
    ASSUME ProgressAssumption, ProgressInv, NEW p \in Page, NEW x \in Item, Buy(p, x)
    PROVE  ProgressInv'
<1>. DEFINE d == page[p].device
            s == page[p].mem
            t == [s EXCEPT !.coins = @ - Price, !.items = @ \cup {x}]
            goods == earned[d] \cup {x}
<1>1. /\ page[p] # None /\ s.coins >= Price /\ Save(p, t)
      /\ earned' = [earned EXCEPT ![d] = goods] /\ paid' = paid /\ twice' = twice /\ minted' = minted
    BY DEF Buy
<1>2. /\ s \in Profiles /\ d \in Device /\ now \in Nat /\ s.coins <= minted /\ minted \in Nat
      /\ earned[d] \in SUBSET Goods /\ paid[d] \in SUBSET (Goals \X Nat)
      /\ d \notin crowded => Keeps(s, earned[d], paid[d], now)
    BY <1>1, PageFacts DEF ProgressInv, TypeInv
<1>3. s.coins \in Nat /\ Price \in Nat
    BY <1>2 DEF Profiles, ProgressAssumption
<1>4. s.coins - Price \in Nat
    BY <1>1, <1>3
<1>5. /\ t \in Profiles /\ t.coins = s.coins - Price /\ t.items = s.items \cup {x}
      /\ t.day = s.day /\ t.week = s.week /\ t.done = s.done
    BY <1>2, <1>4 DEF Profiles, Goods
<1>. HIDE DEF t
<1>6. d \notin crowded => Keeps(t, goods, paid[d], now)
    BY <1>2, <1>5, KeepsGrowing
<1>7. t.coins <= minted' /\ minted <= minted' /\ minted' \in Nat
    BY <1>1, <1>2, <1>3, <1>5
<1>8. goods \in SUBSET Goods
    BY <1>2 DEF Goods
<1>9. paid' = [paid EXCEPT ![d] = paid[d]] /\ twice' \subseteq twice \cup {d}
    BY <1>1, <1>2 DEF ProgressInv, TypeInv
<1>. HIDE DEF goods
<1>. QED
    BY <1>1, <1>2, <1>5, <1>6, <1>7, <1>8, <1>9, SaveKeeps, ZenonT(40)

\* A step of one page that pays nothing: the storage of its device may get more coins and
\* items, the page another copy c, and pushes may be sent.
LEMMA CopyKeeps ==
    ASSUME ProgressInv, NEW p \in Page, NEW d \in Device, NEW s \in Profiles, NEW c \in Copies \cup {None},
           store' = [store EXCEPT ![d] = s], page' = [page EXCEPT ![p] = c], saved' = saved,
           UNCHANGED <<now, steps, Told>>, crowded' \in SUBSET Device, crowded \subseteq crowded',
           push' \in SUBSET Pushes, \A m \in push' : m.data.coins <= minted,
           s.coins <= minted, store[d].items \subseteq s.items,
           s.day = store[d].day, s.week = store[d].week, s.done = store[d].done,
           c # None => /\ c.device = d /\ c.mem.coins <= minted
                       /\ c.got # None => c.got.coins <= minted
                       /\ d \notin crowded' => Keeps(c.mem, earned[d], paid[d], now)
                       /\ \A q \in Page : q # p /\ page[q] # None /\ page[q].device = d => d \in crowded'
    PROVE  ProgressInv'
<1>1. /\ \A e \in Device : e # d => store'[e] = store[e]
      /\ store'[d] = s
      /\ \A q \in Page : q # p => page'[q] = page[q]
      /\ page'[p] = c
      /\ earned' = earned /\ paid' = paid /\ twice' = twice /\ minted' = minted /\ now' = now
      /\ steps' = steps
    BY DEF ProgressInv, TypeInv, Told
<1>2. TypeInv'
  <2>1. store' \in [Device -> Profiles] /\ page' \in [Page -> Copies \cup {None}]
      BY DEF ProgressInv, TypeInv
  <2>. QED
      BY <1>1, <2>1 DEF ProgressInv, TypeInv
<1>3. CoinInv'
  <2>1. \A e \in Device : store'[e].coins <= minted'
      BY <1>1 DEF ProgressInv, CoinInv, CoinsEarned
  <2>2. \A q \in Page : page'[q] # None =>
            page'[q].mem.coins <= minted' /\ (page'[q].got # None => page'[q].got.coins <= minted')
      BY <1>1 DEF ProgressInv, CoinInv, CoinsEarned
  <2>3. saved' # None => saved'.coins <= minted'
      BY <1>1 DEF ProgressInv, CoinInv, CoinsEarned
  <2>. QED
      BY <1>1, <2>1, <2>2, <2>3 DEF CoinInv, CoinsEarned
<1>4. KeepInv'
  <2>1. ASSUME NEW e \in Device \ crowded' PROVE Keeps(store'[e], earned'[e], paid'[e], now')
    <3>1. Keeps(store[e], earned[e], paid[e], now)
        BY DEF ProgressInv, KeepInv
    <3>2. CASE e # d
        BY <1>1, <3>1, <3>2
    <3>3. CASE e = d
        BY <1>1, <3>1, <3>3, KeepsSame
    <3>. QED
        BY <3>2, <3>3
  <2>2. ASSUME NEW q \in Page, page'[q] # None, page'[q].device \notin crowded'
        PROVE  Keeps(page'[q].mem, earned'[page'[q].device], paid'[page'[q].device], now')
    <3>1. CASE q = p
        BY <1>1, <2>2, <3>1
    <3>2. CASE q # p
        BY <1>1, <2>2, <3>2 DEF ProgressInv, KeepInv
    <3>. QED
        BY <3>1, <3>2
  <2>3. ASSUME NEW a \in Page, NEW b \in Page, page'[a] # None, page'[b] # None,
               page'[a].device = page'[b].device, a # b
        PROVE  page'[a].device \in crowded'
    <3>1. CASE a # p /\ b # p
        BY <1>1, <2>3, <3>1 DEF ProgressInv, KeepInv
    <3>2. CASE a = p \/ b = p
        BY <1>1, <2>3, <3>2
    <3>. QED
        BY <3>1, <3>2
  <2>4. twice' \subseteq crowded'
      BY <1>1 DEF ProgressInv, KeepInv
  <2>. QED
      BY <2>1, <2>2, <2>3, <2>4 DEF KeepInv
<1>. QED
    BY <1>2, <1>3, <1>4 DEF ProgressInv

LEMMA OpenStep ==
    ASSUME ProgressInv, NEW p \in Page, NEW d \in Device, Open(p, d)
    PROVE  ProgressInv'
<1>. DEFINE s == Ended(store[d])
            c == [device |-> d, mem |-> s, cloud |-> "off", got |-> None, timer |-> FALSE]
<1>1. /\ page[p] = None /\ page' = [page EXCEPT ![p] = c] /\ store' = [store EXCEPT ![d] = s]
      /\ crowded' = IF \E q \in Page : page[q] # None /\ page[q].device = d
                      THEN crowded \cup {d} ELSE crowded
      /\ UNCHANGED <<now, steps, Told>> /\ saved' = saved /\ push' = push
    BY DEF Open, Cloud
<1>2. store[d] \in Profiles /\ store[d].coins <= minted
    BY DEF ProgressInv, TypeInv, CoinInv, CoinsEarned
<1>3. /\ s \in Profiles /\ s.coins = store[d].coins /\ s.items = store[d].items
      /\ s.day = store[d].day /\ s.week = store[d].week /\ s.done = store[d].done
    BY <1>2, EndedKeeps
<1>. HIDE DEF s
<1>4. c \in Copies
    BY <1>3 DEF Copies
<1>5. d \notin crowded => Keeps(s, earned[d], paid[d], now)
    BY <1>3, KeepsSame DEF ProgressInv, KeepInv
<1>6. crowded' \in SUBSET Device /\ crowded \subseteq crowded'
      /\ \A q \in Page : q # p /\ page[q] # None /\ page[q].device = d => d \in crowded'
    BY <1>1 DEF ProgressInv, TypeInv
<1>7. push' \in SUBSET Pushes /\ \A m \in push' : m.data.coins <= minted
    BY <1>1 DEF ProgressInv, TypeInv, CoinInv
<1>8. /\ c.device = d /\ c.mem = s /\ c.got = None
      /\ d \notin crowded' => Keeps(s, earned[d], paid[d], now)
    BY <1>5, <1>6
<1>. HIDE DEF c
<1>. QED
    BY <1>1, <1>2, <1>3, <1>4, <1>6, <1>7, <1>8, CopyKeeps

\* The facts a step of one page starts from when it leaves localStorage alone.
LEMMA PageKeeps ==
    ASSUME ProgressInv, NEW p \in Page, page[p] # None, NEW c \in Copies \cup {None},
           page' = [page EXCEPT ![p] = c], UNCHANGED <<store, saved, now, steps, Told, crowded>>,
           push' \in SUBSET Pushes, \A m \in push' : m.data.coins <= minted,
           c # None => /\ c.device = page[p].device
                       /\ \/ c.mem = page[p].mem
                          \/ c.mem = [page[p].mem EXCEPT !.coins = store[page[p].device].coins]
                       /\ c.got # None => c.got.coins <= minted
    PROVE  ProgressInv'
<1>. DEFINE d == page[p].device
            s == store[d]
<1>1. /\ d \in Device /\ s \in Profiles /\ s.coins <= minted
      /\ page[p].mem \in Profiles /\ page[p].mem.coins <= minted
      /\ d \notin crowded => Keeps(page[p].mem, earned[d], paid[d], now)
    BY PageFacts
<1>2. store' = [store EXCEPT ![d] = s]
    BY DEF ProgressInv, TypeInv
<1>3. \A q \in Page : q # p /\ page[q] # None /\ page[q].device = d => d \in crowded
    BY DEF ProgressInv, KeepInv
<1>4. /\ c # None => c.mem.coins <= minted
      /\ c # None /\ d \notin crowded => Keeps(c.mem, earned[d], paid[d], now)
  <2>1. CASE c = None \/ c.mem = page[p].mem
      BY <1>1, <2>1
  <2>2. CASE c # None /\ c.mem = [page[p].mem EXCEPT !.coins = store[d].coins]
    <3>1. /\ c.mem.coins = s.coins /\ c.mem.items = page[p].mem.items /\ c.mem.day = page[p].mem.day
          /\ c.mem.week = page[p].mem.week /\ c.mem.done = page[p].mem.done
        BY <1>1, <2>2 DEF Profiles
    <3>. QED
        BY <1>1, <3>1, KeepsSame
  <2>. QED
      BY <2>1, <2>2
<1>5. crowded' \in SUBSET Device /\ crowded' = crowded
    BY DEF ProgressInv, TypeInv
<1>. HIDE DEF d, s
<1>6. store[d].items \subseteq s.items /\ s.day = store[d].day /\ s.week = store[d].week
      /\ s.done = store[d].done /\ crowded \subseteq crowded'
    BY <1>5 DEF s
<1>7. c # None => c.device = d
    BY DEF d
<1>. QED
    BY <1>1, <1>2, <1>3, <1>4, <1>5, <1>6, <1>7, CopyKeeps, ZenonT(40)

LEMMA CloseStep ==
    ASSUME ProgressInv, NEW p \in Page, Close(p) PROVE ProgressInv'
<1>1. /\ page[p] # None /\ page' = [page EXCEPT ![p] = None]
      /\ UNCHANGED <<store, saved, now, steps, Told, crowded>> /\ push' = push
    BY DEF Close, Cloud
<1>2. push' \in SUBSET Pushes /\ \A m \in push' : m.data.coins <= minted
    BY <1>1 DEF ProgressInv, TypeInv, CoinInv
<1>. QED
    BY <1>1, <1>2, PageKeeps

LEMMA PullStep ==
    ASSUME ProgressInv, NEW p \in Page, Pull(p) PROVE ProgressInv'
<1>1. page[p] # None /\ UNCHANGED <<store, saved, now, steps, Told, crowded>> /\ push' = push
    BY DEF Pull, Cloud
<1>2. PICK got \in {saved, None} : page' = [page EXCEPT ![p].cloud = "pulled", ![p].got = got]
    BY DEF Pull
<1>. DEFINE c == [page[p] EXCEPT !.cloud = "pulled", !.got = got]
<1>3. page' = [page EXCEPT ![p] = c]
    BY <1>2
<1>4. page[p] \in Copies
    BY <1>1, PageFacts
<1>5. got \in Saves \cup {None} /\ (got # None => got.coins <= minted)
    BY DEF ProgressInv, TypeInv, CoinInv, CoinsEarned
<1>6. c \in Copies /\ c.device = page[p].device /\ c.mem = page[p].mem /\ c.got = got
    BY <1>4, <1>5 DEF Copies
<1>7. push' \in SUBSET Pushes /\ \A m \in push' : m.data.coins <= minted
    BY <1>1 DEF ProgressInv, TypeInv, CoinInv
<1>. HIDE DEF c
<1>. QED
    BY <1>1, <1>3, <1>5, <1>6, <1>7, PageKeeps

LEMMA SentKeeps ==
    ASSUME ProgressInv, NEW p \in Page, NEW s \in Profiles, s.coins <= minted, Sent(p, s)
    PROVE  push' \in SUBSET Pushes /\ \A m \in push' : m.data.coins <= minted
<1>1. SyncKeys(s) \in Saves /\ SyncKeys(s).coins = s.coins
    BY SyncKeysType
<1>2. [page |-> p, data |-> SyncKeys(s)] \in Pushes
    BY <1>1 DEF Pushes
<1>. QED
    BY <1>1, <1>2 DEF Sent, ProgressInv, TypeInv, CoinInv

LEMMA MergeStep ==
    ASSUME ProgressInv, NEW p \in Page, Merge(p) PROVE ProgressInv'
<1>. DEFINE d == page[p].device
            s == IF page[p].got = None THEN store[d] ELSE Merged(store[d], page[p].got)
            c == [page[p] EXCEPT !.cloud = "pushing", !.got = None]
<1>1. /\ page[p] # None /\ store' = [store EXCEPT ![d] = s] /\ Sent(p, s)
      /\ page' = [page EXCEPT ![p] = c] /\ saved' = saved
      /\ UNCHANGED <<now, steps, Told>> /\ crowded' = crowded
    BY DEF Merge
<1>2. /\ page[p] \in Copies /\ d \in Device /\ store[d] \in Profiles /\ store[d].coins <= minted
      /\ page[p].mem.coins <= minted
      /\ page[p].got # None => page[p].got \in Saves /\ page[p].got.coins <= minted
      /\ d \notin crowded => Keeps(page[p].mem, earned[d], paid[d], now)
    BY <1>1, PageFacts
<1>3. /\ s \in Profiles /\ s.coins <= minted /\ store[d].items \subseteq s.items
      /\ s.day = store[d].day /\ s.week = store[d].week /\ s.done = store[d].done
  <2>1. CASE page[p].got = None
      BY <1>2, <2>1
  <2>2. CASE page[p].got # None
      BY <1>2, <2>2, MergedType DEF Larger
  <2>. QED
      BY <2>1, <2>2
<1>. HIDE DEF s
<1>4. push' \in SUBSET Pushes /\ \A m \in push' : m.data.coins <= minted
    BY <1>1, <1>3, SentKeeps
<1>5. c \in Copies /\ c.device = d /\ c.mem = page[p].mem /\ c.got = None
    BY <1>2 DEF Copies
<1>6. crowded' \in SUBSET Device /\ crowded \subseteq crowded'
      /\ \A q \in Page : q # p /\ page[q] # None /\ page[q].device = d => d \in crowded'
    BY <1>1 DEF ProgressInv, TypeInv, KeepInv
<1>. HIDE DEF c, d
<1>. QED
    BY <1>1, <1>2, <1>3, <1>4, <1>5, <1>6, CopyKeeps

\* The launcher's copy takes the coins of localStorage.
LEMMA ReadyStep ==
    ASSUME ProgressInv, NEW p \in Page, Ready(p) PROVE ProgressInv'
<1>. DEFINE c == [page[p] EXCEPT !.cloud = "on", !.timer = TRUE,
                                 !.mem.coins = store[page[p].device].coins]
<1>1. /\ page[p] # None /\ page' = [page EXCEPT ![p] = c]
      /\ UNCHANGED <<store, saved, now, steps, Told, crowded>> /\ push' = push
    BY DEF Ready, Cloud
<1>2. page[p] \in Copies /\ store[page[p].device] \in Profiles
      /\ (page[p].got # None => page[p].got.coins <= minted)
    BY <1>1, PageFacts
<1>3. [page[p].mem EXCEPT !.coins = store[page[p].device].coins] \in Profiles
    BY <1>2 DEF Copies, Profiles
<1>4. /\ c \in Copies /\ c.device = page[p].device /\ c.got = page[p].got
      /\ c.mem = [page[p].mem EXCEPT !.coins = store[page[p].device].coins]
    BY <1>2, <1>3 DEF Copies
<1>5. push' \in SUBSET Pushes /\ \A m \in push' : m.data.coins <= minted
    BY <1>1 DEF ProgressInv, TypeInv, CoinInv
<1>. HIDE DEF c
<1>. QED
    BY <1>1, <1>2, <1>4, <1>5, PageKeeps

LEMMA ShownStep ==
    ASSUME ProgressInv, NEW p \in Page, Shown(p) PROVE ProgressInv'
<1>. DEFINE c == [page[p] EXCEPT !.mem.coins = store[page[p].device].coins]
<1>1. /\ page[p] # None /\ page' = [page EXCEPT ![p] = c]
      /\ UNCHANGED <<store, saved, now, steps, Told, crowded>> /\ push' = push
    BY DEF Shown, Cloud
<1>2. page[p] \in Copies /\ store[page[p].device] \in Profiles
      /\ (page[p].got # None => page[p].got.coins <= minted)
    BY <1>1, PageFacts
<1>3. [page[p].mem EXCEPT !.coins = store[page[p].device].coins] \in Profiles
    BY <1>2 DEF Copies, Profiles
<1>4. /\ c \in Copies /\ c.device = page[p].device /\ c.got = page[p].got
      /\ c.mem = [page[p].mem EXCEPT !.coins = store[page[p].device].coins]
    BY <1>2, <1>3 DEF Copies
<1>5. push' \in SUBSET Pushes /\ \A m \in push' : m.data.coins <= minted
    BY <1>1 DEF ProgressInv, TypeInv, CoinInv
<1>. HIDE DEF c
<1>. QED
    BY <1>1, <1>2, <1>4, <1>5, PageKeeps

LEMMA PushAgainStep ==
    ASSUME ProgressInv, NEW p \in Page, PushAgain(p) PROVE ProgressInv'
<1>1. /\ page[p] # None /\ Sent(p, store[page[p].device])
      /\ UNCHANGED <<store, saved, now, steps, Told, crowded>>
    BY DEF PushAgain
<1>2. /\ page[p] \in Copies /\ store[page[p].device] \in Profiles /\ store[page[p].device].coins <= minted
      /\ page[p].got # None => page[p].got.coins <= minted
    BY <1>1, PageFacts
<1>3. push' \in SUBSET Pushes /\ \A m \in push' : m.data.coins <= minted
    BY <1>1, <1>2, SentKeeps
<1>4. PICK c \in {page[p], [page[p] EXCEPT !.timer = FALSE]} : page' = [page EXCEPT ![p] = c]
    BY DEF PushAgain, ProgressInv, TypeInv
<1>5. c \in Copies /\ c.device = page[p].device /\ c.mem = page[p].mem /\ c.got = page[p].got
    BY <1>2 DEF Copies
<1>. QED
    BY <1>1, <1>2, <1>3, <1>4, <1>5, PageKeeps

LEMMA DeliverStep ==
    ASSUME ProgressInv, NEW m \in push, Deliver(m) PROVE ProgressInv'
<1>1. /\ push' = push \ {m} /\ saved' \in {saved, m.data}
      /\ store' = store /\ page' = page /\ now' = now /\ steps' = steps /\ crowded' = crowded
      /\ earned' = earned /\ paid' = paid /\ twice' = twice /\ minted' = minted
    BY DEF Deliver, Told
<1>2. m \in Pushes /\ m.data.coins <= minted
    BY DEF ProgressInv, TypeInv, CoinInv
<1>3. TypeInv'
    BY <1>1, <1>2 DEF ProgressInv, TypeInv, Pushes
<1>4. CoinInv'
    BY <1>1, <1>2 DEF ProgressInv, CoinInv, CoinsEarned
<1>5. KeepInv'
    BY <1>1 DEF ProgressInv, KeepInv
<1>. QED
    BY <1>3, <1>4, <1>5 DEF ProgressInv

\* A later day or week forgets nothing before the copy is looked at.
LEMMA TickStep ==
    ASSUME ProgressAssumption, ProgressInv, Tick PROVE ProgressInv'
<1>1. /\ now' = now + 1 /\ now < MaxTime /\ now \in Nat /\ MaxTime \in Nat
      /\ store' = store /\ page' = page /\ saved' = saved /\ push' = push /\ steps' = steps
      /\ crowded' = crowded /\ earned' = earned /\ paid' = paid /\ twice' = twice /\ minted' = minted
    BY DEF Tick, Told, Cloud, ProgressInv, TypeInv, ProgressAssumption
<1>2. now' \in 0 .. MaxTime /\ now' \in Nat /\ now <= now'
    BY <1>1
<1>3. TypeInv'
    BY <1>1, <1>2 DEF ProgressInv, TypeInv
<1>4. CoinInv'
    BY <1>1 DEF ProgressInv, CoinInv, CoinsEarned
<1>5. \A s \in Profiles : \A goods, fees : Keeps(s, goods, fees, now) => Keeps(s, goods, fees, now')
    BY <1>1, <1>2, KeepsLater
<1>6. KeepInv'
  <2>1. ASSUME NEW d \in Device \ crowded' PROVE Keeps(store'[d], earned'[d], paid'[d], now')
      BY <1>1, <1>5 DEF ProgressInv, TypeInv, KeepInv
  <2>2. ASSUME NEW q \in Page, page'[q] # None, page'[q].device \notin crowded'
        PROVE  Keeps(page'[q].mem, earned'[page'[q].device], paid'[page'[q].device], now')
    <3>1. page[q] # None /\ page[q].mem \in Profiles /\ page[q].device \notin crowded
        BY <1>1, <2>2, PageFacts
    <3>. QED
        BY <1>1, <1>5, <3>1, PageFacts
  <2>. QED
      BY <1>1, <2>1, <2>2 DEF ProgressInv, KeepInv
<1>. QED
    BY <1>3, <1>4, <1>6 DEF ProgressInv

LEMMA InitProgress ==
    ASSUME ProgressAssumption PROVE Init => ProgressInv
<1>. SUFFICES ASSUME Init PROVE ProgressInv
    OBVIOUS
<1>1. TypeInv
  <2>1. 0 \in 0 .. MaxTime /\ 0 \in 0 .. MaxSteps
      BY DEF ProgressAssumption
  <2>. QED
      BY <2>1, FreshType DEF Init, TypeInv
<1>2. CoinInv
    BY DEF Init, CoinInv, CoinsEarned, Fresh
<1>3. KeepInv
  <2>1. Fresh.day <= now \div Day /\ Fresh.week <= now \div Week
    <3>1. now \div Day \in Nat /\ now \div Week \in Nat
        BY KeyNat DEF Init
    <3>. QED
        BY <3>1 DEF Fresh
  <2>2. \A d \in Device : Keeps(store[d], earned[d], paid[d], now)
      BY <2>1 DEF Init, Keeps
  <2>. QED
      BY <2>2 DEF Init, KeepInv
<1>. QED
    BY <1>1, <1>2, <1>3 DEF ProgressInv

LEMMA StepProgress ==
    ASSUME ProgressAssumption, ProgressInv, [Next]_vars PROVE ProgressInv'
<1>1. CASE UNCHANGED vars
    BY <1>1 DEF vars, ProgressInv, TypeInv, CoinInv, CoinsEarned, KeepInv
<1>2. ASSUME NEW p \in Page, NEW d \in Device, Open(p, d) PROVE ProgressInv'
    BY <1>2, OpenStep
<1>3. ASSUME NEW p \in Page, Close(p) \/ Touch(p) \/ View(p) \/ Class(p) PROVE ProgressInv'
    BY <1>3, CloseStep, TouchStep, ViewStep, ClassStep
<1>4. ASSUME NEW p \in Page, NEW reached \in SUBSET (Mission \cup Challenge), NEW items \in SUBSET Item,
             Play(p, reached, items)
      PROVE  ProgressInv'
    BY <1>4, PlayStep DEF Goals
<1>5. ASSUME NEW p \in Page, NEW x \in Item, Buy(p, x) PROVE ProgressInv'
    BY <1>5, BuyStep
<1>6. ASSUME NEW p \in Page, NEW task \in {"open", "none"}, Assign(p, task) PROVE ProgressInv'
    BY <1>6, AssignStep
<1>7. ASSUME NEW p \in Page, Pull(p) \/ Merge(p) \/ Ready(p) \/ PushAgain(p) \/ Shown(p)
      PROVE  ProgressInv'
    BY <1>7, PullStep, MergeStep, ReadyStep, PushAgainStep, ShownStep
<1>8. ASSUME NEW m \in push, Deliver(m) PROVE ProgressInv'
    BY <1>8, DeliverStep
<1>9. CASE Tick
    BY <1>9, TickStep
<1>. QED
    BY <1>1, <1>2, <1>3, <1>4, <1>5, <1>6, <1>7, <1>8, <1>9 DEF Next

-----------------------------------------------------------------------------
(* Theorems *)

\* Whatever the pages of the devices, the merges and the pushes do at the same time, every
\* copy of a profile stays one that state.js can read.
THEOREM ProgressTypes == ASSUME ProgressAssumption PROVE Spec => []ProgressTypeOK
<1>1. Init => ProgressInv
    BY InitProgress
<1>2. ProgressInv /\ [Next]_vars => ProgressInv'
    BY StepProgress
<1>3. ProgressInv => ProgressTypeOK
    BY DEF ProgressInv, TypeInv, ProgressTypeOK, Profile, Profiles, Copies, Pushes, Saves, Goods, Goals
<1>. QED
    BY <1>1, <1>2, <1>3, PTL DEF Spec

\* However the pages of all the devices overlap and the saves of cloudsave.js are merged,
\* lost or reordered, no copy of the coins holds more than the goals paid: the larger of
\* two honest balances (mergeSnapshots) is one of them.
THEOREM CoinsAreEarned == ASSUME ProgressAssumption PROVE Spec => []CoinsEarned
<1>1. Init => ProgressInv
    BY InitProgress
<1>2. ProgressInv /\ [Next]_vars => ProgressInv'
    BY StepProgress
<1>3. ProgressInv => CoinsEarned
    BY DEF ProgressInv, CoinInv
<1>. QED
    BY <1>1, <1>2, <1>3, PTL DEF Spec

\* On a device with one page at a time, what a copy that is written back whole (state.js
\* save) can lose is nothing that was earned or bought there, and a mission or challenge is
\* paid once in its day or week, whatever the lengths of those are.
THEOREM EarningsAreKept == ASSUME ProgressAssumption PROVE Spec => []EarnedKept
<1>1. Init => ProgressInv
    BY InitProgress
<1>2. ProgressInv /\ [Next]_vars => ProgressInv'
    BY StepProgress
<1>3. ProgressInv => EarnedKept
    BY DEF ProgressInv, KeepInv, Keeps, EarnedKept
<1>. QED
    BY <1>1, <1>2, <1>3, PTL DEF Spec
=============================================================================
