----------------------------- MODULE OregonTrail -----------------------------
(****************************************************************************)
(* The Oregon trail game (oregontrail/game.js): the store, the days on the  *)
(* trail with their food, miles, events and deaths, and the screens a       *)
(* player goes through.  What is drawn is which buttons there are to press; *)
(* those under an open event can still be reached with the keyboard.        *)
(****************************************************************************)
EXTENDS Integers, FiniteSets

CONSTANTS Member, Goal, Miles, MaxHealth, Hit, Meal, Money, Price, None, MaxDays  \* the last is a bound
OregonTrailAssumption ==
  /\ {Goal, MaxHealth, Hit, Meal, Money, Price, MaxDays} \subseteq Nat /\ Miles \subseteq Nat \ {0}
  /\ Price > 0 /\ MaxHealth > 0

VARIABLES
  screen, previous, event,  \* the current screen, the one under an event, whether one is shown
  outcome, day, distance, last,  \* last: the miles of the last day of travel
  health,     \* of each member of the party; at 0 a member is dead for good
  food, oxen, ammo, parts, money
supplies == <<food, oxen, ammo, parts, money>>
vars == <<screen, previous, event, outcome, day, distance, last, health, supplies>>

Living(h) == {m \in Member : h[m] > 0}
Less(n, by) == IF n > by THEN n - by ELSE 0
Capped(n, top) == IF n > top THEN top ELSE n

Init ==
  /\ screen = "start" /\ previous = "start" /\ event = FALSE /\ outcome = None
  /\ day = 0 /\ distance = 0 /\ last = 0 /\ health = [m \in Member |-> MaxHealth]
  /\ food = 0 /\ oxen = 0 /\ ammo = 0 /\ parts = 0 /\ money = Money

\* render: the screen that is drawn, which an event lies over.
Drawn == IF screen = "event" THEN previous ELSE screen
OffersJourney == Drawn = "start"
OffersSupplies == Drawn = "store"
OffersDays == Drawn = "trail"
OffersRestart == Drawn = "end"
OffersDismissal == event

\* showEvent, on the screen s.
ShowsEvent(s) ==
  /\ event' = TRUE /\ screen' = "event" /\ previous' = IF s = "event" THEN previous ELSE s

StartStore ==
  /\ OffersJourney /\ screen' = "store"
  /\ UNCHANGED <<previous, event, outcome, day, distance, last, health, supplies>>

\* resetPartyNames: five new travelers.
ResetParty ==
  /\ OffersJourney /\ health' = [m \in Member |-> MaxHealth]
  /\ UNCHANGED <<screen, previous, event, outcome, day, distance, last, supplies>>

ReturnMenu ==
  /\ OffersSupplies /\ screen' = "start" /\ previous' = "start" /\ event' = FALSE
  /\ UNCHANGED <<outcome, day, distance, last, health, supplies>>

\* purchaseSupply
Buy ==
  /\ OffersSupplies /\ money >= Price /\ money' = money - Price
  /\ \/ food' = food + Meal /\ UNCHANGED <<oxen, ammo, parts>>
     \/ oxen' = oxen + 1 /\ UNCHANGED <<food, ammo, parts>>
     \/ ammo' = ammo + 1 /\ UNCHANGED <<food, oxen, parts>>
     \/ parts' = parts + 1 /\ UNCHANGED <<food, oxen, ammo>>
  /\ UNCHANGED <<screen, previous, event, outcome, day, distance, last, health>>

\* leaveStore: a wagon without an ox stays where it is.
LeaveStore ==
  /\ OffersSupplies /\ UNCHANGED <<outcome, day, distance, last, health, supplies>>
  /\ IF oxen < 1 THEN ShowsEvent(screen)
     ELSE screen' = "trail" /\ previous' = "trail" /\ event' = event

\* Mutant: the arrival does not end the game when somebody has died that day.
EndsUnlessDeath(d, h) ==
  IF d >= Goal /\ Living(h) = Member THEN "win" ELSE IF Living(h) = {} THEN "loss" ELSE None

\* checkWinLoss: the distance is looked at before the party.
Ends(d, h) == IF d >= Goal THEN "win" ELSE IF Living(h) = {} THEN "loss" ELSE None

Settles(d, h) ==
  /\ distance' = d /\ health' = h /\ outcome' = Ends(d, h)

\* The screen once the day is over: the end, an event of the day, or the trail.
Shown(happened) ==
  IF outcome' # None THEN screen' = "end" /\ event' = FALSE /\ UNCHANGED previous
  ELSE IF happened THEN ShowsEvent("trail") ELSE UNCHANGED <<screen, previous, event>>

\* canTakeTrailAction
CanAct ==
  /\ OffersDays /\ screen = "trail" /\ outcome = None /\ Living(health) # {} /\ day < MaxDays

\* consumeFood: everybody who lives eats, and starves if there is not enough.  eats: the
\* rations; the rest is what the players have left.
Eaten(eats) == Less(food, Cardinality(Living(health)) * eats)
Starving(eats) == food < Cardinality(Living(health)) * eats
Fed(eats, h) ==
  \E hit \in [Member -> 1 .. Hit] :
    h = [m \in Member |-> IF Starving(eats) THEN Less(health[m], hit[m]) ELSE health[m]]
Hits(eats) == {h \in [Member -> 0 .. MaxHealth] : Fed(eats, h)}

\* The day after which everybody has died of hunger.
Dies(h) == Settles(distance, h) /\ Shown(FALSE)

\* rest: everybody recovers a little.
Rest(eats, h) ==
  /\ CanAct /\ day' = day + 1 /\ h \in Hits(eats) /\ food' = Eaten(eats)
  /\ UNCHANGED <<last, oxen, ammo, parts, money>>
  /\ IF Living(h) = {} THEN Dies(h)
     ELSE /\ Settles(distance, [m \in Member |-> IF h[m] = 0 THEN 0 ELSE Capped(h[m] + 1, MaxHealth)])
          /\ Shown(FALSE)

\* hunt
Hunt(eats, h) ==
  /\ CanAct /\ ammo > 0 /\ day' = day + 1 /\ h \in Hits(eats)
  /\ ammo' = ammo - 1 /\ Settles(distance, h) /\ Shown(FALSE)
  /\ UNCHANGED <<last, oxen, parts, money>>
  /\ \/ food' = Eaten(eats)
     \/ Living(h) # {} /\ food' = Eaten(eats) + Meal

\* What the random event of a day does, once d has been reached with the health h: a member
\* falls ill, or a wheel breaks.
Disease(d, h) ==
  /\ \E m \in Living(h), hit \in 1 .. Hit : Settles(d, [h EXCEPT ![m] = Less(@, hit)])
  /\ UNCHANGED parts

\* Mutant: the miles of the day are counted after its event.
BreakdownEarly(d, h) ==
  IF parts > 0 THEN parts' = parts - 1 /\ Settles(d, h)
               ELSE parts' = parts /\ Settles(Less(d, last), h)

Breakdown(d, h) ==
  IF parts > 0 THEN parts' = parts - 1 /\ Settles(d, h)
               ELSE parts' = parts /\ Settles(Less(d, last'), h)

\* calculateDailyProgress
Progress == IF oxen = 0 THEN {0} ELSE Miles

\* nextDay
NextDay(eats, h) ==
  /\ CanAct /\ day' = day + 1 /\ h \in Hits(eats) /\ UNCHANGED <<oxen, ammo, money>>
  /\ IF Living(h) = {} THEN Dies(h) /\ food' = Eaten(eats) /\ UNCHANGED <<last, parts>>
     ELSE \E miles \in Progress :
            LET reached == Capped(distance + miles, Goal)
            IN /\ last' = miles
               \* nothing happens; an illness or a broken wheel; thieves, or berries
               /\ \/ Settles(reached, h) /\ Shown(FALSE) /\ food' = Eaten(eats) /\ UNCHANGED parts
                  \/ /\ \/ (Disease(reached, h) \/ Breakdown(reached, h)) /\ food' = Eaten(eats)
                        \/ /\ Settles(reached, h) /\ UNCHANGED parts
                           /\ food' \in {Less(Eaten(eats), Meal), Eaten(eats) + Meal}
                     /\ Shown(TRUE)

\* dismissEvent, by its button or with Escape.
Dismiss ==
  /\ OffersDismissal /\ event' = FALSE
  /\ screen' = IF outcome # None THEN "end" ELSE previous
  /\ UNCHANGED <<previous, outcome, day, distance, last, health, supplies>>

Restart ==
  /\ OffersRestart /\ screen' = "start" /\ previous' = "start" /\ event' = FALSE /\ outcome' = None
  /\ day' = 0 /\ distance' = 0 /\ last' = 0 /\ health' = [m \in Member |-> MaxHealth]
  /\ food' = 0 /\ oxen' = 0 /\ ammo' = 0 /\ parts' = 0 /\ money' = Money

Next ==
  \/ StartStore \/ ResetParty \/ ReturnMenu \/ Buy \/ LeaveStore \/ Dismiss \/ Restart
  \/ \E eats \in 1 .. 2 : \E h \in Hits(eats) : NextDay(eats, h) \/ Rest(eats, h) \/ Hunt(eats, h)

Spec == Init /\ [][Next]_vars

---------------------------------------------------------------------------
OregonTrailTypeOK ==
  /\ screen \in {"start", "store", "trail", "event", "end"} /\ previous # "event"
  /\ health \in [Member -> 0 .. MaxHealth] /\ distance \in 0 .. Goal
  /\ {food, oxen, ammo, parts, money} \subseteq Nat

(* A journey is won at its goal and lost with nobody left before it; it is  *)
(* over then, and the end is shown until another begins, whatever was open  *)
(* on the screen.                                                           *)
EndsRightly ==
  /\ outcome = "win" => distance = Goal
  /\ outcome = "loss" => Living(health) = {} /\ distance < Goal
  /\ outcome # None <=> screen = "end"
  /\ screen = "trail" => Living(health) # {} /\ oxen > 0

(* No day sets the wagon back - unless it would have gone past its goal and *)
(* the wheel broke that day: the miles beyond the goal, which it never      *)
(* went, are taken back as well (of every step).                            *)
NoDayLost ==
  day' > day /\ distance' < distance => distance + last' > Goal

(* Whoever wins has brought somebody there.  Not so: when the last of the   *)
(* party falls ill and dies on the day of the arrival, it is a victory.     *)
WinnersLive == outcome = "win" => Living(health) # {}
=============================================================================
