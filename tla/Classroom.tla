------------------------------ MODULE Classroom ------------------------------
(****************************************************************************)
(* Classroom mode (src/src/core/state.js): every page reads the classroom   *)
(* from the browser's storage when it is loaded, works on its own copy and  *)
(* writes all of it back, so a page that was opened earlier writes back     *)
(* what it read then.                                                       *)
(****************************************************************************)
EXTENDS Integers, Sequences, FiniteSets, Functions

CONSTANTS
  Page, Game, Bundle, None,
  Shortest, Longest,      \* limits of a session, in ticks (clampSessionDuration)
  Keeps,                  \* assignment completions a report keeps
  MaxChanges, MaxTime     \* bounds: changes in all, ticks
ClassroomAssumption ==
  /\ {Shortest, Longest, Keeps} \subseteq Nat \ {0} /\ Shortest <= Longest

VARIABLES
  now,
  stored,     \* "classroom" in the browser's storage
  page,       \* state.classroom of each page
  changes
vars == <<now, stored, page, changes>>

Nothing == [bundle |-> None, assignedAt |-> 0, completedAt |-> 0]
Entry == [bundle : Bundle, assignedAt : Nat, completedAt : Nat]
Fresh ==
  [enabled |-> FALSE, whitelist |-> {}, assignment |-> Nothing, completions |-> <<>>,
   total |-> 0, byGame |-> [g \in Game |-> 0], active |-> FALSE, startsAt |-> 0, endsAt |-> 0]

\* clampSessionDuration
Clamped(minutes) ==
  CASE minutes < Shortest -> Shortest [] minutes > Longest -> Longest
    [] minutes >= Shortest /\ minutes <= Longest -> minutes

\* normalizeSessionStats: games opened are sessions, even where the total does not say so.
Total(total, byGame) == IF total >= SumFunction(byGame) THEN total ELSE SumFunction(byGame)

\* normalizeAssignmentCompletions
Kept(entries) == IF Len(entries) <= Keeps THEN entries ELSE SubSeq(entries, Len(entries) - Keeps + 1, Len(entries))

\* normalizeClassroom
Normalized(c) ==
  [c EXCEPT !.total = Total(c.total, c.byGame), !.completions = Kept(@),
            !.assignment = IF @.bundle = None THEN Nothing ELSE @]

\* loadClassroom
Loaded(c) == [Normalized(c) EXCEPT !.active = @ /\ ~(c.endsAt > 0 /\ c.endsAt <= now)]

Init ==
  /\ now = 1 /\ stored = Fresh /\ page = [p \in Page |-> Fresh] /\ changes = 0

Classrooms == {stored} \cup {page[p] : p \in Page}
ClassroomTypeOK ==
  /\ now \in 1..MaxTime /\ changes \in 0..MaxChanges
  /\ \A c \in Classrooms :
       /\ {c.enabled, c.active} \subseteq BOOLEAN /\ c.whitelist \subseteq Game /\ c.completions \in Seq(Entry)
       /\ c.assignment \in Entry \cup {Nothing} /\ {c.total, c.startsAt, c.endsAt} \subseteq Nat /\ c.byGame \in [Game -> Nat]

Tick == now < MaxTime /\ now' = now + 1 /\ UNCHANGED <<stored, page, changes>>

\* A page is loaded, and what it read is written back.
Load(p) ==
  /\ page' = [page EXCEPT ![p] = Loaded(stored)] /\ stored' = Loaded(stored)
  /\ UNCHANGED <<now, changes>>

\* save, flushSave: the whole classroom, as this page has it.
Writes(p, c) == page' = [page EXCEPT ![p] = Normalized(c)] /\ stored' = Normalized(c)
Change(p, c) == changes < MaxChanges /\ changes' = changes + 1 /\ Writes(p, c) /\ UNCHANGED now

\* setClassroomConfig
Configure(p, enabled, whitelist) == Change(p, [page[p] EXCEPT !.enabled = enabled, !.whitelist = whitelist])

\* setClassroomAssignment, not twice in one millisecond.
Assign(p, b) ==
  /\ \A i \in 1..Len(page[p].completions) : page[p].completions[i].assignedAt < now
  /\ Change(p, [page[p] EXCEPT !.assignment = [bundle |-> b, assignedAt |-> IF b = None THEN 0 ELSE now, completedAt |-> 0]])

\* Slip: a bundle that was completed counts again.
OpenAlways(a, b) == a.bundle = b

Open(a, b) == a.bundle = b /\ a.completedAt = 0

\* recordClassroomAssignmentCompletion
Complete(p, b) ==
  LET a == page[p].assignment IN
  /\ Open(a, b)
  /\ Change(p, [page[p] EXCEPT !.assignment.completedAt = now,
                               !.completions = Kept(Append(@, [a EXCEPT !.completedAt = now]))])

\* startClassroomSession, endClassroomSession
Start(p, minutes) ==
  Change(p, [page[p] EXCEPT !.enabled = TRUE, !.active = TRUE, !.startsAt = now, !.endsAt = now + Clamped(minutes)])
End(p) == Change(p, [page[p] EXCEPT !.active = FALSE, !.endsAt = now])

\* isClassroomSessionActive: asking ends a session whose time has passed.
Active(c) == c.enabled /\ c.active /\ c.endsAt > now
Asked(c) == [c EXCEPT !.active = @ /\ ~(~Active(c) /\ c.endsAt > 0 /\ c.endsAt <= now)]

\* isGameLockedByClassroom
Locked(c, g) == Active(c) /\ c.whitelist # {} /\ g \notin c.whitelist

\* rememberRecent: a game that is not locked is opened, and counted.
Launch(p, g) ==
  LET c == Asked(page[p]) IN
  /\ ~Locked(page[p], g) /\ changes < MaxChanges /\ changes' = changes + 1
  /\ Writes(p, [c EXCEPT !.total = Total(c.total, c.byGame) + 1, !.byGame[g] = @ + 1])
  /\ UNCHANGED now

\* The launcher draws a game that is locked; where asking ended the session, that is saved.
Refuse(p, g) ==
  /\ Locked(page[p], g) \/ Asked(page[p]) # page[p]
  /\ page' = [page EXCEPT ![p] = Asked(@)] /\ stored' = IF Asked(page[p]) # page[p] THEN Asked(page[p]) ELSE stored
  /\ UNCHANGED <<now, changes>>

Next ==
  \/ Tick
  \/ \E p \in Page : Load(p) \/ End(p) \/ \E m \in {0, Longest + 1} : Start(p, m)
  \/ \E p \in Page, e \in BOOLEAN, w \in SUBSET Game : Configure(p, e, w)
  \/ \E p \in Page, b \in Bundle \cup {None} : Assign(p, b)
  \/ \E p \in Page, b \in Bundle : Complete(p, b)
  \/ \E p \in Page, g \in Game : Launch(p, g) \/ Refuse(p, g)

Spec == Init /\ [][Next]_vars

\* getClassroomReportSummary, whoever of the pages wrote last: an assignment is completed at
\* most once in a report, and not before it was given; there are as many sessions as games
\* opened by it; and a running session has one of the lengths allowed.
ReportHonest ==
  \A c \in Classrooms :
    /\ \A i, j \in 1..Len(c.completions) :
         /\ c.completions[i].assignedAt <= c.completions[i].completedAt
         /\ i # j => <<c.completions[i].bundle, c.completions[i].assignedAt>>
                       # <<c.completions[j].bundle, c.completions[j].assignedAt>>
    /\ c.total = SumFunction(c.byGame)
    /\ c.active => c.endsAt - c.startsAt \in Shortest..Longest
=============================================================================
