------------------------------ MODULE Progress ------------------------------
(****************************************************************************)
(* A player's progress in the browser: coins, badges and items, daily       *)
(* missions, weekly challenges and the classroom assignment.                *)
(*                                                                          *)
(* src/core/state.js loads localStorage once, when a page is opened, into   *)
(* the page's own copy; every change afterwards writes the whole copy back  *)
(* in a microtask, so that a change and its write are one step.  The pages  *)
(* of a device share localStorage and never see each other's writes, except *)
(* that the launcher rereads the coins.  The launcher of a signed-in player *)
(* also pulls the save kept by /api/social, merges it into localStorage and *)
(* pushes localStorage (src/social/cloudsave.js); the server keeps the last *)
(* push.                                                                    *)
(****************************************************************************)
EXTENDS Integers, FiniteSets

CONSTANTS
  Device, Page, None,
  Launcher,           \* the pages that run the cloud save (index.html)
  Item,               \* badges, prizes and shop items a game or the shop gives
  Mission, Challenge, \* the day's missions, the week's challenges
  Reward, Price,      \* coins for a mission or challenge, coins of a shop item
  DailyRequired, WeeklyRequired, \* of the assignment bundle
  Day, Week,          \* the length of a day and of a week
  MaxTime, MaxSteps, MaxPushes   \* bounds: the clock, changes, pushes on their way

ProgressAssumption ==
  /\ None \notin Device \cup Page \cup Item /\ Launcher \subseteq Page
  /\ IsFiniteSet(Mission \cup Challenge)
  /\ {Reward, Price, DailyRequired, WeeklyRequired, MaxTime, MaxSteps, MaxPushes} \subseteq Nat
  /\ Day \in Nat \ {0} /\ Week \in Nat \ {0}

VARIABLES
  store,     \* localStorage of a device
  page,      \* a page: None, or its device, its copy and its cloud save
  saved,     \* the save the server keeps, or None
  push,      \* saves on their way to the server
  now, steps,
  earned,    \* what was earned or bought on each device
  paid,      \* the goals paid on each device, with their day or week
  twice,     \* devices that paid one of them twice
  minted,    \* coins paid on all the devices
  crowded    \* devices on which two pages were alive at one time
vars == <<store, page, saved, push, now, steps, earned, paid, twice, minted, crowded>>

Larger(a, b) == IF a < b THEN b ELSE a
Badges == {"daily", "daily sweep", "weekly", "weekly sweep", "assignment"}

\* toLocalDayKey, toLocalWeekKey
Key(g) == IF g \in Mission THEN now \div Day ELSE now \div Week

\* A profile nobody has played with; no bucket is today's.
Fresh == [coins |-> 0, items |-> {}, day |-> -1, week |-> -1, done |-> {},
          task |-> "none", class |-> [active |-> FALSE, ends |-> 0]]

Init ==
  /\ store = [d \in Device |-> Fresh]
  /\ page = [p \in Page |-> None]
  /\ saved = None /\ push = {} /\ now = 0 /\ steps = 0
  /\ earned = [d \in Device |-> {}] /\ paid = [d \in Device |-> {}]
  /\ twice = {} /\ minted = 0 /\ crowded = {}

Cloud == <<saved, push>>
Told == <<earned, paid, twice, minted>>

---------------------------------------------------------------------------
(* The copy of a page and its writes.                                       *)

\* A classroom session whose time is up is ended by whoever looks at it.
Ended(s) == IF s.class.active /\ s.class.ends <= now
              THEN [s EXCEPT !.class.active = FALSE] ELSE s

\* A page is opened: the copy is loaded, and stored where loading repaired it.
Open(p, d) ==
  /\ page[p] = None
  /\ LET s == Ended(store[d]) IN
     /\ page' = [page EXCEPT ![p] = [device |-> d, mem |-> s, cloud |-> "off",
                                     got |-> None, timer |-> FALSE]]
     /\ store' = [store EXCEPT ![d] = s]
  /\ crowded' = IF \E q \in Page : page[q] # None /\ page[q].device = d
                  THEN crowded \cup {d} ELSE crowded
  /\ UNCHANGED <<Cloud, now, steps, Told>>

Close(p) ==
  /\ page[p] # None
  /\ page' = [page EXCEPT ![p] = None]
  /\ UNCHANGED <<store, Cloud, now, steps, Told, crowded>>

\* The page's copy becomes s, and save() writes all of it.
Save(p, s) ==
  /\ page[p] # None /\ steps < MaxSteps /\ steps' = steps + 1
  /\ page' = [page EXCEPT ![p].mem = s]
  /\ store' = [store EXCEPT ![page[p].device] = s]
  /\ UNCHANGED <<Cloud, now, crowded>>

\* Opening a game, the profile's name, a cosmetic worn: nothing modelled changes,
\* and everything is written.
Touch(p) == /\ page[p] # None /\ store[page[p].device] # page[p].mem
            /\ Save(p, page[p].mem) /\ UNCHANGED Told

---------------------------------------------------------------------------
(* Missions, badges and the shop.                                           *)

\* ensureDailyMissions, ensureWeeklyChallenges: a new day or week starts empty.
Rolled(s) ==
  LET kept == {g \in s.done : IF g \in Mission THEN s.day = Key(g) ELSE s.week = Key(g)}
  IN [s EXCEPT !.day = now \div Day, !.week = now \div Week, !.done = kept]

\* The launcher lists the missions.
View(p) ==
  /\ page[p] # None /\ steps < MaxSteps /\ Rolled(page[p].mem) # page[p].mem
  /\ Save(p, Rolled(page[p].mem)) /\ UNCHANGED Told

\* Mutant: goals reached on the same day or in the same week are paid again.
NewAgain(s, reached) == reached

\* Goals of the copy s that are reached now for the first time.
New(s, reached) == reached \ Rolled(s).done

\* recordMissionProgress: the goals reached are paid once, and complete an assignment.
Recorded(s, reached) ==
  LET r == Rolled(s)
      done == r.done \cup reached
      complete == /\ r.task = "open"
                  /\ Cardinality(done \cap Mission) >= DailyRequired
                  /\ Cardinality(done \cap Challenge) >= WeeklyRequired
      badges == (IF New(s, reached) \cap Mission # {} THEN {"daily"} ELSE {})
           \cup (IF Mission \subseteq done THEN {"daily sweep"} ELSE {})
           \cup (IF New(s, reached) \cap Challenge # {} THEN {"weekly"} ELSE {})
           \cup (IF Challenge \subseteq done THEN {"weekly sweep"} ELSE {})
           \cup (IF complete THEN {"assignment"} ELSE {})
  IN [r EXCEPT !.done = done, !.items = @ \cup badges,
               !.coins = @ + Reward * Cardinality(New(s, reached)),
               !.task = IF complete THEN "done" ELSE @]

\* maybeUnlock: a game reports a result that reaches some goals and earns some items.
Play(p, reached, items) ==
  /\ page[p] # None /\ steps < MaxSteps
  /\ LET d == page[p].device
         s == page[p].mem
         t == [Recorded(s, reached) EXCEPT !.items = @ \cup items]
         fees == {<<g, Key(g)>> : g \in New(s, reached)}
     IN /\ t # s /\ Save(p, t)
        /\ earned' = [earned EXCEPT ![d] = @ \cup (t.items \ s.items)]
        /\ paid' = [paid EXCEPT ![d] = @ \cup fees]
        /\ twice' = IF fees \cap paid[d] # {} THEN twice \cup {d} ELSE twice
        /\ minted' = minted + t.coins - s.coins

\* Mutant: bought without looking at the coins.
BuyOnCredit(p, x) ==
  /\ page[p] # None /\ x \notin page[p].mem.items
  /\ Save(p, [page[p].mem EXCEPT !.coins = @ - Price, !.items = @ \cup {x}])
  /\ earned' = [earned EXCEPT ![page[p].device] = @ \cup {x}]
  /\ UNCHANGED <<paid, twice, minted>>

\* spendCoins and the shop's purchase.
Buy(p, x) ==
  /\ page[p] # None /\ x \notin page[p].mem.items /\ page[p].mem.coins >= Price
  /\ Save(p, [page[p].mem EXCEPT !.coins = @ - Price, !.items = @ \cup {x}])
  /\ earned' = [earned EXCEPT ![page[p].device] = @ \cup {x}]
  /\ UNCHANGED <<paid, twice, minted>>

\* setClassroomAssignment, with a bundle or with none.
Assign(p, task) ==
  /\ page[p] # None /\ task \in {"open", "none"} /\ page[p].mem.task # task
  /\ Save(p, [page[p].mem EXCEPT !.task = task]) /\ UNCHANGED Told

\* startClassroomSession, endClassroomSession, isClassroomSessionActive.
Class(p) ==
  /\ page[p] # None
  /\ LET s == page[p].mem IN
     \E t \in {[s EXCEPT !.class = [active |-> TRUE, ends |-> now + 1]],
               [s EXCEPT !.class = [active |-> FALSE, ends |-> now]],
               Ended(s)} : t # s /\ Save(p, t)
  /\ UNCHANGED Told

---------------------------------------------------------------------------
(* The cloud save of the launcher.                                          *)

SyncKeys(s) == [coins |-> s.coins, items |-> s.items]

\* initCloudSave: the session is known and the save is fetched, or is not.
Pull(p) ==
  /\ p \in Launcher /\ page[p] # None /\ page[p].cloud = "off"
  /\ \E got \in {saved, None} :
       page' = [page EXCEPT ![p].cloud = "pulled", ![p].got = got]
  /\ UNCHANGED <<store, Cloud, now, steps, Told, crowded>>

\* Mutant: the coins of the two sides are added.
MergedSum(s, got) ==
  [s EXCEPT !.coins = @ + got.coins, !.items = @ \cup got.items]

\* mergeSnapshots.
Merged(s, got) ==
  [s EXCEPT !.coins = Larger(@, got.coins), !.items = @ \cup got.items]

\* pushSnapshot: localStorage as it is, for the server to keep.
Sent(p, s) == push' = push \cup {[page |-> p, data |-> SyncKeys(s)]}

\* The merge goes into localStorage, not into the page's copy, and is pushed.
Merge(p) ==
  /\ page[p] # None /\ page[p].cloud = "pulled" /\ Cardinality(push) < MaxPushes
  /\ LET d == page[p].device
         s == IF page[p].got = None THEN store[d] ELSE Merged(store[d], page[p].got)
     IN store' = [store EXCEPT ![d] = s] /\ Sent(p, s)
  /\ page' = [page EXCEPT ![p].cloud = "pushing", ![p].got = None]
  /\ UNCHANGED <<saved, now, steps, Told, crowded>>

\* The push is answered: the launcher rereads the coins and sets a timer for another.
Ready(p) ==
  /\ page[p] # None /\ page[p].cloud = "pushing" /\ \A m \in push : m.page # p
  /\ page' = [page EXCEPT ![p].cloud = "on", ![p].timer = TRUE,
                          ![p].mem.coins = store[page[p].device].coins]
  /\ UNCHANGED <<store, Cloud, now, steps, Told, crowded>>

\* The timer fires, or the page is hidden.
PushAgain(p) ==
  /\ page[p] # None /\ page[p].cloud = "on" /\ Cardinality(push) < MaxPushes
  /\ Sent(p, store[page[p].device])
  /\ \/ page[p].timer /\ page' = [page EXCEPT ![p].timer = FALSE]
     \/ UNCHANGED page
  /\ UNCHANGED <<store, saved, now, steps, Told, crowded>>

\* The page is shown again from the back-forward cache: only the coins are reread.
Shown(p) ==
  /\ page[p] # None /\ page[p].mem.coins # store[page[p].device].coins
  /\ page' = [page EXCEPT ![p].mem.coins = store[page[p].device].coins]
  /\ UNCHANGED <<store, Cloud, now, steps, Told, crowded>>

\* handleSyncPush keeps what it is given; a push may be lost.
Deliver(m) ==
  /\ push' = push \ {m} /\ saved' \in {saved, m.data}
  /\ UNCHANGED <<store, page, now, steps, Told, crowded>>

Tick == /\ now < MaxTime /\ now' = now + 1
        /\ UNCHANGED <<store, page, Cloud, steps, Told, crowded>>

Next ==
  \/ \E p \in Page :
       \/ \E d \in Device : Open(p, d)
       \/ Close(p) \/ Touch(p) \/ View(p) \/ Class(p)
       \/ \E reached \in SUBSET (Mission \cup Challenge), items \in SUBSET Item :
            Play(p, reached, items)
       \/ \E x \in Item : Buy(p, x)
       \/ \E task \in {"open", "none"} : Assign(p, task)
       \/ Pull(p) \/ Merge(p) \/ Ready(p) \/ PushAgain(p) \/ Shown(p)
  \/ \E m \in push : Deliver(m)
  \/ Tick

Spec == Init /\ [][Next]_vars

---------------------------------------------------------------------------
Profile(s) == /\ s.coins \in Nat /\ s.items \subseteq Item \cup Badges
              /\ s.done \subseteq Mission \cup Challenge
              /\ s.task \in {"none", "open", "done"} /\ s.class.active \in BOOLEAN

(* Every variable holds what its comment says.                              *)
ProgressTypeOK ==
  /\ \A d \in Device : Profile(store[d]) /\ earned[d] \subseteq Item \cup Badges
  /\ \A p \in Page : page[p] # None => page[p].device \in Device /\ Profile(page[p].mem)
  /\ \A m \in push : m.page \in Page /\ m.data.coins \in Nat
  /\ now \in 0 .. MaxTime /\ steps \in 0 .. MaxSteps
  /\ twice \subseteq Device /\ crowded \subseteq Device /\ minted \in Nat

(* On a device that has one page at a time nothing earned or bought is lost *)
(* from localStorage, whatever the cloud save does meanwhile, and no        *)
(* mission or challenge is paid twice in its day or week (state.js loads    *)
(* once and writes everything).                                             *)
EarnedKept ==
  /\ \A d \in Device \ crowded : earned[d] \subseteq store[d].items
  /\ twice \subseteq crowded

(* However pages overlap and saves are merged, lost or reordered, no copy   *)
(* of the coins ever holds more than the goals of all devices have paid.    *)
CoinsEarned ==
  /\ \A d \in Device : store[d].coins <= minted
  /\ \A p \in Page : page[p] # None => page[p].mem.coins <= minted
  /\ saved # None => saved.coins <= minted

(* What the server keeps follows the player: a badge or an item in the save *)
(* stays in it, where no device has two pages.  The header of cloudsave.js  *)
(* says that progress follows across devices and that badges and items are  *)
(* united.                                                                  *)
ProgressFollows ==
  [][crowded' = {} /\ saved # None /\ saved' # None
       => saved.items \subseteq saved'.items]_vars
=============================================================================
