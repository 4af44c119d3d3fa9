---------------------------- MODULE AudioAgarCues ----------------------------
(****************************************************************************)
(* What an Audio Agar player is told while playing (audioagar/game.js): the *)
(* scans of the arena with their advice, and the lock on a larger orb that  *)
(* comes close; and the player's mass in the preview, which the page plays  *)
(* by itself.  Distances are zones, and only the nearest larger orb counts. *)
(****************************************************************************)
EXTENDS Integers, FiniteSetsExt

CONSTANTS Orb, None, Start, Portions, MaxMass   \* MaxMass is a bound
AudioAgarCuesAssumption ==
  None \notin Orb /\ Start \in Nat /\ MaxMass \in Nat /\ Portions \subseteq Nat

VARIABLES
  sight,     \* the nearest larger orb and its zone, and what there is to eat
  lock,      \* lastThreatLock
  scan,      \* what the last scan has told
  due,       \* AUTO_SCAN_MS have passed since
  mass,      \* of the player's orb in the preview
  close      \* the orbs that have been close since there was none near
cueVars == <<sight, lock, scan, due, mass, close>>

\* "near" is within CRITICAL_THREAT_RADIUS, "mid" within 1.35 of it, "far" within
\* NEARBY_RADIUS and "beyond" within SCAN_RADIUS.
Sights == [threat : Orb, zone : {"near", "mid", "far", "beyond"}, prey : {"orb", "food", None}]
          \cup [threat : {None}, zone : {None}, prey : {"orb", "food", None}]
Critical(s) == s.zone = "near"

\* chooseGuide: away from danger, then to what is most worth eating.
chooseGuide(s) ==
  IF Critical(s) THEN "escape" ELSE IF s.prey = "orb" THEN "hunt"
  ELSE IF s.prey = "food" THEN "feed" ELSE "center"

\* buildTacticalScan
buildTacticalScan(s) ==
  [guide |-> chooseGuide(s),
   sonar |-> IF Critical(s) THEN "danger" ELSE IF s.threat # None THEN "threat"
             ELSE IF s.prey = "food" THEN "food" ELSE "quiet"]

Init ==
  /\ sight \in Sights /\ lock = None /\ due = TRUE /\ mass = Start /\ close = {}
  /\ scan = buildTacticalScan(sight)

\* performTacticalScan: one that is not forced waits until it is due.
performTacticalScan(s, force) ==
  IF force \/ due THEN scan' = buildTacticalScan(s) /\ due' = FALSE
  ELSE UNCHANGED <<scan, due>>

\* Mutant: the scan for a close orb waits its turn.
threatLockWaits(s) ==
  /\ lock' = IF Critical(s) THEN s.threat ELSE IF s.zone = "mid" THEN lock ELSE None
  /\ performTacticalScan(s, FALSE)

\* Mutant: an orb that goes away keeps the lock.
threatLockKept(s) ==
  /\ lock' = IF Critical(s) THEN s.threat ELSE lock
  /\ performTacticalScan(s, Critical(s) /\ lock # s.threat)

\* The lock of updateHudAndAccessibility: an orb that comes close is told of once, until the
\* nearest is well away again; otherwise there is a scan when one is due.
threatLock(s) ==
  /\ lock' = IF Critical(s) THEN s.threat ELSE IF s.zone = "mid" THEN lock ELSE None
  /\ performTacticalScan(s, Critical(s) /\ lock # s.threat)

\* A frame: the arena has moved on.
Frame(s, m) ==
  /\ sight' = s /\ mass' = m /\ threatLock(s)
  /\ close' = IF Critical(s) THEN close \cup {s.threat} ELSE IF s.zone = "mid" THEN close ELSE {}

\* eatPreviewPellets and resolvePreviewCells: the orb eats, or is eaten and begins again.
Eats == {mass + p : p \in {q \in Portions : mass + q <= MaxMass}}
Dies == {32}

\* Time passes.
Elapse == ~due /\ due' = TRUE /\ UNCHANGED <<sight, lock, scan, mass, close>>

\* The R key, and announceHelp.
Ask == performTacticalScan(sight, TRUE) /\ UNCHANGED <<sight, lock, mass, close>>

\* Mutant: an orb that is too small ejects as well.
ejectsSmall(m) == IF m > 14 THEN Max({12, m - 4}) ELSE m

\* applyPreviewAction
ejects(m) == IF m > 18 THEN Max({12, m - 4}) ELSE m

splits(m) == IF m > 36 THEN (m * 82) \div 100 ELSE m

Act == mass' \in {ejects(mass), splits(mass)} /\ UNCHANGED <<sight, lock, scan, due, close>>

Next ==
  \/ \E s \in Sights, m \in {mass} \cup Eats \cup Dies : Frame(s, m)
  \/ Elapse \/ Ask \/ Act

Spec == Init /\ [][Next]_cueVars

---------------------------------------------------------------------------
AudioAgarCuesTypeOK == sight \in Sights /\ lock \in Orb \cup {None} /\ mass \in Nat /\ due \in BOOLEAN

(* When a larger orb has come close, the player is advised at once to run,  *)
(* whatever the last scan said and however short ago it was - unless that   *)
(* very orb holds the lock, because the nearest has not been well away      *)
(* since it was close before (of every step).                               *)
EscapeFirst ==
  sight' # sight /\ Critical(sight') /\ lock # sight'.threat => scan'.guide = "escape"

(* Only an orb that has been close since there was last none near holds the *)
(* lock, so that each new approach is told of.                              *)
LockEarned == lock # None => lock \in close

(* Splitting and ejecting, in whatever order, leave the orb heavier than 14 *)
(* or what it started with.                                                 *)
MassKept == mass >= 14

(* A player with a larger orb close by has been advised to run.  Not so: an *)
(* orb that backs off a little and comes again finds its lock, and the last *)
(* advice may have been to hunt.                                            *)
Advised == Critical(sight) => scan.guide = "escape"
=============================================================================
