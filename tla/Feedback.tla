---------------------------- MODULE Feedback ----------------------------
(* Player feedback: the dialog that every game mounts (src/feedback), the   *)
(* functions behind /api/feedback, and the Linear project they mirror each  *)
(* submission into.  A record is always read whole and written whole, no    *)
(* request waits for another, and no background job repairs a record: what  *)
(* a fault or a race leaves behind stays until an administrator asks for    *)
(* another attempt.                                                         *)
EXTENDS Integers, FiniteSets

CONSTANTS Submission,   \* identifiers that createFeedbackSubmissionId can return
          Session,      \* the players' sessions, all behind one address
          Ip,           \* the rate bucket of that address
          Slot,         \* requests that can be in progress at one time
          None,
          Limit,        \* maxRequests of enforceFeedbackRateLimit
          MaxRequests,  \* bound on the requests an administrator makes
          MaxFaults     \* bound on the calls to the store or to Linear that fail

VARIABLES
  submission, \* the stored record of each submission, or None
  linear,     \* Linear: how many issues each submission has there, and how many
              \* baseline issues the game has
  cache,      \* this instance's copy of the baseline issues: has it the game's?
  count,      \* requests of each rate bucket in its current window
  req,        \* the request each slot is serving, or None
  dialog,     \* each session's dialog
  asked,      \* requests administrators have made
  faults,     \* calls that have failed
  accepted,   \* submissions of each bucket's current window that were let through
  raced,      \* submissions that two requests have handled at the same time
  crowded     \* two requests have been in progress at the same time

vars == <<submission, linear, cache, count, req, dialog, asked, faults, accepted,
          raced, crowded>>

Bucket == Session \cup {Ip}

\* What a new record holds, of what later steps read.
NewRecord == [sync |-> "pending", issue |-> FALSE, triage |-> "new", alert |-> "none"]

Records == [sync : {"pending", "synced", "failed"}, issue : BOOLEAN,
            triage : {"new", "triaged", "agent-ready"},
            alert : {"none", "pending", "failed"}]

Closed == [open |-> FALSE, sending |-> FALSE, timer |-> FALSE, sent |-> None]

NoPatch == [f \in {} |-> None]

\* What an administrator's form, the sync or an alert changes in a record.
Patches == {NoPatch, [triage |-> "triaged"], [triage |-> "agent-ready"],
            [alert |-> "pending"], [alert |-> "failed"], [sync |-> "pending"],
            [sync |-> "failed"], [sync |-> "synced", issue |-> TRUE]}

\* A request at its next step: the record it found or wrote last is its copy, the
\* one an update has read its base.
Requests ==
  [kind : {"submit", "update", "retry", "prepare", "brief", "provision"},
   pc : {"limit", "save", "find", "load", "store", "baseline", "create", "issue", "reply"},
   session : Session \cup {None}, sub : Submission \cup {None}, patch : Patches,
   copy : Records \cup {None}, base : Records \cup {None}]

FeedbackAssumption ==
  /\ IsFiniteSet(Submission) /\ IsFiniteSet(Slot)
  /\ None \notin Submission \cup Slot \cup Records \cup Requests /\ Ip \notin Session
  /\ {Limit, MaxRequests, MaxFaults} \subseteq Nat

Init ==
  /\ submission = [s \in Submission |-> None]
  /\ linear = [issues |-> [s \in Submission |-> 0], baseline |-> 0]
  /\ cache = "expired"
  /\ count = [b \in Bucket |-> 0]
  /\ req = [h \in Slot |-> None]
  /\ dialog = [p \in Session |-> Closed]
  /\ asked = 0 /\ faults = 0
  /\ accepted = [b \in Bucket |-> 0]
  /\ raced = {} /\ crowded = FALSE

---------------------------------------------------------------------------
(* The requests.                                                            *)

At(h, step) == req[h] # None /\ req[h].pc = step

Goto(h, step) == req' = [req EXCEPT ![h].pc = step]

\* A call to the store or to Linear fails.
Faulty == faults < MaxFaults /\ faults' = faults + 1

Others(h) == {g \in Slot \ {h} : req[g] # None}

Request(kind, pc, session, sub, patch) ==
  [kind |-> kind, pc |-> pc, session |-> session, sub |-> sub, patch |-> patch,
   copy |-> None, base |-> None]

Begin(h, r) ==
  /\ req[h] = None
  /\ req' = [req EXCEPT ![h] = r]
  /\ crowded' = (crowded \/ Others(h) # {})
  /\ raced' = raced \cup {s \in {r.sub} \cap Submission :
                             \E g \in Others(h) : req[g].sub = s}

\* The sync is over: prepare-agent-task comments on the issue and then marks the
\* record agent-ready, the others answer.
Settled(r) ==
  IF r.kind = "prepare"
  THEN [r EXCEPT !.kind = "brief", !.pc = "load", !.patch = [triage |-> "agent-ready"]]
  ELSE [r EXCEPT !.pc = "reply"]

\* Mutant: the record's issue is not looked at.
SyncedAgain(r) == [r EXCEPT !.pc = "baseline"]

\* ensureFeedbackSubmissionSynced leaves a record alone that has an issue or says
\* that it has; it looks at the copy in hand.
Synced(r) ==
  IF r.copy.issue \/ r.copy.sync = "synced" THEN Settled(r)
  ELSE [r EXCEPT !.pc = "baseline"]

\* sendFeedbackFailureAlert: one Slack message per kind of failure and cooldown,
\* noted in the record after it is sent.
AlertOf(r) == r.copy.sync
Alerted(r) ==
  IF r.copy.alert = AlertOf(r) THEN Settled(r)
  ELSE [r EXCEPT !.pc = "load", !.patch = [alert |-> AlertOf(r)]]

\* What a request does when its update is stored.
After(patch, r) ==
  CASE "alert" \in DOMAIN patch -> Settled(r)
    [] "sync" \in DOMAIN patch -> IF patch.sync = "synced" THEN Settled(r) ELSE Alerted(r)
    [] "triage" \in DOMAIN patch /\ r.kind = "retry" -> Synced(r)
    [] OTHER -> [r EXCEPT !.pc = "reply"]

\* The dialog's form is sent (its submit listener and submitFeedback).
Send(p, h) ==
  /\ dialog[p].open /\ ~dialog[p].sending
  /\ dialog' = [dialog EXCEPT ![p].sending = TRUE, ![p].sent = None]
  /\ Begin(h, Request("submit", "limit", p, None, NoPatch))
  /\ UNCHANGED <<submission, linear, cache, count, asked, faults, accepted>>

\* The answer reaches the dialog: an accepted form is cleared and a timer will
\* close the dialog, a refused one is kept and can be sent again.
Answer(h, ok) ==
  /\ req' = [req EXCEPT ![h] = None]
  /\ dialog' = IF req[h].kind # "submit" THEN dialog
               ELSE [dialog EXCEPT ![req[h].session].sending = FALSE,
                                   ![req[h].session].timer = (@ \/ ok),
                                   ![req[h].session].sent = IF ok THEN req[h].sub ELSE None]

\* Mutant: the request that reaches the limit is let through.
LimitedLate(h) ==
  LET mine == {req[h].session, Ip}
      over == \E b \in mine : count[b] > Limit
  IN  /\ At(h, "limit")
      /\ count' = [b \in Bucket |-> IF b \in mine /\ count[b] <= Limit
                                     THEN count[b] + 1 ELSE count[b]]
      /\ IF over THEN Answer(h, FALSE) /\ UNCHANGED accepted
         ELSE /\ Goto(h, "save") /\ UNCHANGED dialog
              /\ accepted' = [b \in Bucket |-> accepted[b] + IF b \in mine THEN 1 ELSE 0]
      /\ UNCHANGED <<submission, linear, cache, asked, faults, raced, crowded>>

\* One transaction per bucket counts the request; the highest count decides.  A
\* count past the limit is as good as any other.
Limited(h) ==
  LET mine == {req[h].session, Ip}
      over == \E b \in mine : count[b] + 1 > Limit
  IN  /\ At(h, "limit")
      /\ count' = [b \in Bucket |-> IF b \in mine /\ count[b] <= Limit
                                     THEN count[b] + 1 ELSE count[b]]
      /\ IF over THEN Answer(h, FALSE) /\ UNCHANGED accepted
         ELSE /\ Goto(h, "save") /\ UNCHANGED dialog
              /\ accepted' = [b \in Bucket |-> accepted[b] + IF b \in mine THEN 1 ELSE 0]
      /\ UNCHANGED <<submission, linear, cache, asked, faults, raced, crowded>>

\* The attachments and then the record are saved under a fresh identifier.
Save(h) ==
  /\ At(h, "save")
  /\ \E s \in Submission :
       /\ submission[s] = None
       /\ submission' = [submission EXCEPT ![s] = NewRecord]
       /\ req' = [req EXCEPT ![h] = Synced([@ EXCEPT !.sub = s, !.copy = NewRecord])]
       /\ raced' = raced \cup {t \in {s} : \E g \in Others(h) : req[g].sub = t}
  /\ UNCHANGED <<linear, cache, count, dialog, asked, faults, accepted, crowded>>

\* An administrator's request; retry says whether it asks for another attempt at
\* Linear.  The page sends the triage status it shows with either; "triaged" stands
\* for any, nothing reads it.
Manage(h, s, retry) ==
  /\ asked < MaxRequests /\ asked' = asked + 1
  /\ Begin(h, Request(IF retry THEN "retry" ELSE "update", "find", None, s,
                      [triage |-> "triaged"]))
  /\ UNCHANGED <<submission, linear, cache, count, dialog, faults, accepted>>

Prepare(h, s) ==
  /\ asked < MaxRequests /\ asked' = asked + 1
  /\ Begin(h, Request("prepare", "find", None, s, NoPatch))
  /\ UNCHANGED <<submission, linear, cache, count, dialog, faults, accepted>>

\* The provisioning script gives every game its labels and its baseline issue.
Provision(h) ==
  /\ asked < MaxRequests /\ asked' = asked + 1
  /\ Begin(h, Request("provision", "baseline", None, None, NoPatch))
  /\ UNCHANGED <<submission, linear, cache, count, dialog, faults, accepted>>

\* The record is read; without one the answer is 404.
Find(h) ==
  /\ At(h, "find")
  /\ IF submission[req[h].sub] = None THEN Answer(h, FALSE)
     ELSE /\ LET r == [req[h] EXCEPT !.copy = submission[req[h].sub]]
             IN  req' = [req EXCEPT ![h] =
                   IF r.kind = "prepare" THEN Synced(r) ELSE [r EXCEPT !.pc = "load"]]
          /\ UNCHANGED dialog
  /\ UNCHANGED <<submission, linear, cache, count, asked, faults, accepted, raced, crowded>>

\* A record with a patch spread over it.
Patched(record, patch) ==
  [f \in DOMAIN record |-> IF f \in DOMAIN patch THEN patch[f] ELSE record[f]]

\* updateFeedbackSubmission reads the record ...
Load(h) ==
  /\ At(h, "load")
  /\ req' = [req EXCEPT ![h] = [@ EXCEPT !.base = submission[req[h].sub], !.pc = "store"]]
  /\ UNCHANGED <<submission, linear, cache, count, dialog, asked, faults, accepted,
                 raced, crowded>>

\* ... and writes it back whole with the patch.
Store(h) ==
  LET r == req[h]
      saved == Patched(r.base, r.patch)
  IN  /\ At(h, "store")
      /\ submission' = [submission EXCEPT ![r.sub] = saved]
      /\ req' = [req EXCEPT ![h] = After(r.patch, [r EXCEPT !.patch = NoPatch,
                   !.base = None, !.copy = saved])]
      /\ UNCHANGED <<linear, cache, count, dialog, asked, faults, accepted, raced, crowded>>

---------------------------------------------------------------------------
(* ensureFeedbackSubmissionSynced and the calls to Linear under it.         *)

Onward(h) == Goto(h, IF req[h].kind = "provision" THEN "reply" ELSE "issue")

\* The labels, then the game's baseline issue, through a copy that is kept for
\* five minutes; a game without one gets one.
Baseline(h) ==
  LET known == IF cache = "expired" THEN linear.baseline > 0 ELSE cache = "has"
  IN  /\ At(h, "baseline")
      /\ cache' = IF known THEN "has" ELSE "lacks"
      /\ IF known THEN Onward(h) ELSE Goto(h, "create")
      /\ UNCHANGED <<submission, linear, count, dialog, asked, faults, accepted,
                     raced, crowded>>

\* Mutant: the new issue is not noted in the copy.
CreateBaselineUncached(h) ==
  /\ At(h, "create")
  /\ linear' = [linear EXCEPT !.baseline = @ + 1]
  /\ Onward(h)
  /\ UNCHANGED <<submission, cache, count, dialog, asked, faults, accepted, raced, crowded>>

CreateBaseline(h) ==
  /\ At(h, "create")
  /\ linear' = [linear EXCEPT !.baseline = @ + 1]
  /\ cache' = "has"
  /\ Onward(h)
  /\ UNCHANGED <<submission, count, dialog, asked, faults, accepted, raced, crowded>>

\* The baseline is best effort: a call that failed, or whose answer was lost, is
\* forgotten and the copy keeps saying that there is none.
BaselineLost(h) ==
  /\ At(h, "create") /\ Faulty
  /\ \E made \in {0, 1} : linear' = [linear EXCEPT !.baseline = @ + made]
  /\ Onward(h)
  /\ UNCHANGED <<submission, cache, count, dialog, asked, accepted, raced, crowded>>

CreateIssue(h) ==
  /\ At(h, "issue")
  /\ linear' = [linear EXCEPT !.issues[req[h].sub] = @ + 1]
  /\ req' = [req EXCEPT ![h] = [@ EXCEPT !.pc = "load",
                                  !.patch = [sync |-> "synced", issue |-> TRUE]]]
  /\ UNCHANGED <<submission, cache, count, dialog, asked, faults, accepted, raced, crowded>>

\* The labels or the issue could not be had, or the answer was lost: the failure
\* is recorded, as pending for a player and as failed for an administrator.
IssueLost(h) ==
  /\ req[h] # None /\ req[h].pc \in {"baseline", "issue"} /\ Faulty
  /\ req[h].kind # "provision"
  /\ \E made \in IF req[h].pc = "issue" THEN {0, 1} ELSE {0} :
       linear' = [linear EXCEPT !.issues[req[h].sub] = @ + made]
  /\ req' = [req EXCEPT ![h] = [@ EXCEPT !.pc = "load", !.patch =
               [sync |-> IF req[h].kind = "submit" THEN "pending" ELSE "failed"]]]
  /\ UNCHANGED <<submission, cache, count, dialog, asked, accepted, raced, crowded>>

Reply(h) ==
  /\ At(h, "reply") /\ Answer(h, TRUE)
  /\ UNCHANGED <<submission, linear, cache, count, asked, faults, accepted, raced, crowded>>

\* A store call throws, before or after the write.  The handler answers 500, except
\* that a failing alert is swallowed.  The result of the update in the try block is
\* returned and not awaited, so its failure is not the catch's.
Fails(h) ==
  LET r == req[h]
  IN  /\ r # None /\ Faulty
      /\ r.pc \in {"save", "find", "load", "store"} \/ (r.kind = "provision" /\ r.pc = "baseline")
      /\ \/ UNCHANGED submission
         \/ r.pc = "store" /\ submission' = [submission EXCEPT ![r.sub] = Patched(r.base, r.patch)]
      /\ IF "alert" \in DOMAIN r.patch
         THEN /\ req' = [req EXCEPT ![h] = Settled([@ EXCEPT !.patch = NoPatch])]
              /\ UNCHANGED dialog
         ELSE Answer(h, FALSE)
      /\ UNCHANGED <<linear, cache, count, asked, accepted, raced, crowded>>

---------------------------------------------------------------------------
(* The dialog (mountGameFeedback).                                          *)

Open(p) ==
  /\ ~dialog[p].open
  /\ dialog' = [dialog EXCEPT ![p].open = TRUE]
  /\ UNCHANGED <<submission, linear, cache, count, req, asked, faults, accepted,
                 raced, crowded>>

\* Cancel, a click beside the dialog, or Escape, which works while it is sending.
Close(p) ==
  /\ dialog[p].open
  /\ dialog' = [dialog EXCEPT ![p].open = FALSE]
  /\ UNCHANGED <<submission, linear, cache, count, req, asked, faults, accepted,
                 raced, crowded>>

\* 900 ms after an accepted form; the timer is not cleared when the dialog is
\* closed by hand, and closes one that has been opened again.
TimerFires(p) ==
  /\ dialog[p].timer
  /\ dialog' = [dialog EXCEPT ![p].timer = FALSE, ![p].open = FALSE]
  /\ UNCHANGED <<submission, linear, cache, count, req, asked, faults, accepted,
                 raced, crowded>>

---------------------------------------------------------------------------
(* Time: a rate window ends, the copy of the baselines gets old, an alert's *)
(* cooldown is over.                                                        *)

WindowEnds(b) ==
  /\ count[b] > 0
  /\ count' = [count EXCEPT ![b] = 0] /\ accepted' = [accepted EXCEPT ![b] = 0]
  /\ UNCHANGED <<submission, linear, cache, req, dialog, asked, faults, raced, crowded>>

CacheExpires ==
  /\ cache # "expired" /\ cache' = "expired"
  /\ UNCHANGED <<submission, linear, count, req, dialog, asked, faults, accepted,
                 raced, crowded>>

---------------------------------------------------------------------------
Step(h) ==
  \/ Limited(h) \/ Save(h) \/ Find(h) \/ Load(h) \/ Store(h)
  \/ Baseline(h) \/ CreateBaseline(h) \/ BaselineLost(h)
  \/ CreateIssue(h) \/ IssueLost(h) \/ Reply(h) \/ Fails(h)

Administer(h) ==
  \/ Provision(h)
  \/ \E s \in Submission :
       Prepare(h, s) \/ \E retry \in BOOLEAN : Manage(h, s, retry)

Player(p) ==
  Open(p) \/ Close(p) \/ TimerFires(p) \/ \E h \in Slot : Send(p, h)

Next ==
  \/ \E h \in Slot : Step(h) \/ Administer(h)
  \/ \E p \in Session : Player(p)
  \/ \E b \in Bucket : WindowEnds(b)
  \/ CacheExpires

Spec == Init /\ [][Next]_vars

---------------------------------------------------------------------------
(* Every variable holds what its comment says.                              *)
FeedbackTypeOK ==
  /\ submission \in [Submission -> Records \cup {None}]
  /\ linear.issues \in [Submission -> Nat] /\ linear.baseline \in Nat
  /\ cache \in {"expired", "has", "lacks"}
  /\ \A b \in Bucket : count[b] \in Nat /\ accepted[b] \in Nat
  /\ req \in [Slot -> Requests \cup {None}]
  /\ asked \in 0 .. MaxRequests /\ faults \in 0 .. MaxFaults
  /\ raced \subseteq Submission /\ crowded \in BOOLEAN

\* Issues of a submission that no record names: made and not stored yet.
Unstored(s) ==
  {h \in Slot : /\ req[h] # None /\ req[h].sub = s
                /\ req[h].pc \in {"load", "store"} /\ "issue" \in DOMAIN req[h].patch}

(* A submission has one Linear issue, and its record says so: beyond the    *)
(* one its record names and the one a request is about to store, Linear     *)
(* holds no more issues of it than calls have failed.  Only a submission    *)
(* that two requests handled at once is excepted: updates are read and      *)
(* written whole (_store.js updateFeedbackSubmission), and the check for an *)
(* issue is made on the copy in hand (_sync.js).                            *)
IssuesAccounted ==
  \A s \in Submission \ raced :
    linear.issues[s] <= faults + Cardinality(Unstored(s))
       + (IF submission[s] # None /\ submission[s].issue THEN 1 ELSE 0)

(* A game has one baseline issue, and one more for each call whose answer   *)
(* was lost, as long as no two requests overlapped: the check through the   *)
(* cached list and the creation are separate calls (_linear.js).            *)
BaselineAccounted == ~crowded => linear.baseline <= 1 + faults

(* No window lets more submissions of a session or of an address through    *)
(* than the limit, however the requests overlap, and a form that the dialog *)
(* reports as sent is in the store.                                         *)
SubmissionsKept ==
  /\ \A b \in Bucket : accepted[b] <= Limit
  /\ \A p \in Session : dialog[p].sent # None => submission[dialog[p].sent] # None
=============================================================================
