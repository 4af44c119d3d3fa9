--------------------------- MODULE FeedbackProofs ---------------------------
(***************************************************************************)
(* Theorems about Feedback, for any number of players, submissions and     *)
(* overlapping requests, any limit and any number of failing calls.        *)
(***************************************************************************)
EXTENDS Feedback, FiniteSetTheorems, TLAPS

-----------------------------------------------------------------------------
(* The inductive invariant *)

Dialogs ==
    [open : BOOLEAN, sending : BOOLEAN, timer : BOOLEAN, sent : Submission \cup {None}]

TypeInv ==
    /\ submission \in [Submission -> Records \cup {None}]
    /\ linear \in [issues : [Submission -> Nat], baseline : Nat]
    /\ cache \in {"expired", "has", "lacks"}
    /\ count \in [Bucket -> Nat] /\ accepted \in [Bucket -> Nat]
    /\ req \in [Slot -> Requests \cup {None}] /\ dialog \in [Session -> Dialogs]
    /\ asked \in 0 .. MaxRequests /\ faults \in 0 .. MaxFaults
    /\ raced \subseteq Submission /\ crowded \in BOOLEAN

\* What a request at a step has in hand, when the records are those of stored.
Early == {"limit", "save", "find"}
Shape(r, stored) ==
    /\ r \in Requests
    /\ r.kind = "submit" => r.session \in Session
    /\ r.pc \in {"limit", "save"} => r.kind = "submit"
    /\ r.kind = "provision" <=> r.pc \in {"baseline", "create", "reply"} /\ r.sub = None
    /\ r.pc = "find" => r.sub \in Submission /\ r.kind \in {"update", "retry", "prepare"}
                        /\ (r.kind # "prepare" => r.patch = [triage |-> "triaged"])
    /\ r.pc \notin Early /\ r.kind # "provision" =>
           r.sub \in Submission /\ stored[r.sub] # None /\ r.copy \in Records
    /\ r.pc = "store" => r.base \in Records
    /\ r.pc \in {"load", "store"} => r.patch # NoPatch
    /\ r.pc \in Early \/ r.kind = "provision" => "alert" \notin DOMAIN r.patch

\* What it may rely on as long as no other request handles the submission: the record it
\* read is the one stored, and where an issue is or was just made the record names none.
Owns(r, stored) ==
    /\ r.pc = "store" => r.base = stored[r.sub]
    /\ \/ r.pc \in {"baseline", "create", "issue"}
       \/ r.pc \in {"load", "store"} /\ "issue" \in DOMAIN r.patch
       => ~stored[r.sub].issue

ReqInv ==
    \A h \in Slot : req[h] # None =>
        /\ Shape(req[h], submission)
        /\ req[h].sub \in Submission \ raced => Owns(req[h], submission)

Apart ==
    \A g, h \in Slot : g # h /\ req[g] # None /\ req[h] # None =>
        /\ crowded
        /\ req[g].sub = req[h].sub /\ req[g].sub \in Submission => req[g].sub \in raced

\* The game's list says that there is no baseline issue only when each that there is, is
\* one whose answer was lost.
BaselineInv ==
    ~crowded => /\ linear.baseline <= 1 + faults
                /\ cache = "lacks" => linear.baseline <= faults
                /\ \A h \in Slot : At(h, "create") => linear.baseline <= faults

KeptInv ==
    /\ \A b \in Bucket : accepted[b] <= count[b] /\ accepted[b] <= Limit
    /\ \A p \in Session : dialog[p].sent # None => submission[dialog[p].sent] # None

FeedbackInv == TypeInv /\ ReqInv /\ Apart /\ IssuesAccounted /\ BaselineInv /\ KeptInv

-----------------------------------------------------------------------------
(* What the operators of the model return *)

\* What is known of a request that goes on with a record in hand.
Handled(r, stored) ==
    /\ r \in Requests /\ r.kind # "provision" /\ (r.kind = "submit" => r.session \in Session)
    /\ r.sub \in Submission /\ stored[r.sub] # None /\ r.copy \in Records

\* A request that holds an issue its record does not name yet; a record that names one.
Held(r, s) ==
    IF r # None /\ r.sub = s /\ r.pc \in {"load", "store"} /\ "issue" \in DOMAIN r.patch THEN 1 ELSE 0
Noted(record) == IF record # None /\ record.issue THEN 1 ELSE 0

LEMMA PatchShape ==
    ASSUME NEW patch \in Patches
    PROVE  /\ "issue" \in DOMAIN patch => patch = [sync |-> "synced", issue |-> TRUE]
           /\ "sync" \in DOMAIN patch => patch.sync \in {"pending", "synced", "failed"}
           /\ "alert" \in DOMAIN patch => patch.alert \in {"pending", "failed"} /\ "issue" \notin DOMAIN patch
           /\ "triage" \in DOMAIN patch => patch.triage \in {"triaged", "agent-ready"} /\ "issue" \notin DOMAIN patch
           /\ "sync" \in DOMAIN patch /\ patch.sync = "synced" => "issue" \in DOMAIN patch
           /\ DOMAIN patch \subseteq {"sync", "issue", "triage", "alert"}
  BY DEF Patches, NoPatch

\* A patched record is one, and names an issue if it did or if the patch does.
LEMMA SavedShape ==
    ASSUME NEW patch \in Patches, NEW base \in Records
    PROVE  /\ Patched(base, patch) \in Records
           /\ Patched(base, patch).issue = (base.issue \/ "issue" \in DOMAIN patch)
           /\ "sync" \in DOMAIN patch => Patched(base, patch).sync = patch.sync
<1>. DEFINE of(f) == IF f \in DOMAIN patch THEN patch[f] ELSE base[f]
<1>1. /\ "issue" \in DOMAIN patch => patch = [sync |-> "synced", issue |-> TRUE]
      /\ "sync" \in DOMAIN patch => patch["sync"] \in {"pending", "synced", "failed"}
      /\ "alert" \in DOMAIN patch => patch["alert"] \in {"pending", "failed"}
      /\ "triage" \in DOMAIN patch => patch["triage"] \in {"triaged", "agent-ready"}
      /\ DOMAIN patch \subseteq {"sync", "issue", "triage", "alert"}
    BY PatchShape
<1>2. /\ base["sync"] \in {"pending", "synced", "failed"} /\ base["issue"] \in BOOLEAN
      /\ base["triage"] \in {"new", "triaged", "agent-ready"} /\ base["alert"] \in {"none", "pending", "failed"}
    BY DEF Records
<1>3. DOMAIN base = {"sync", "issue", "triage", "alert"}
    BY DEF Records
<1>4. Patched(base, patch) = [f \in {"sync", "issue", "triage", "alert"} |-> of(f)]
    BY <1>3 DEF Patched
<1>5. "issue" \in DOMAIN patch => patch["issue"] = TRUE
    BY <1>1
<1>6. /\ of("sync") \in {"pending", "synced", "failed"} /\ of("issue") \in BOOLEAN
      /\ of("triage") \in {"new", "triaged", "agent-ready"} /\ of("alert") \in {"none", "pending", "failed"}
    BY <1>1, <1>2, <1>5
<1>7. of("issue") = (base["issue"] \/ "issue" \in DOMAIN patch)
    BY <1>2, <1>5
<1>8. "sync" \in DOMAIN patch => of("sync") = patch["sync"]
    OBVIOUS
<1>. HIDE DEF of
<1>9. Patched(base, patch) = [sync |-> of("sync"), issue |-> of("issue"), triage |-> of("triage"), alert |-> of("alert")]
    BY <1>4
<1>. QED
    BY <1>6, <1>7, <1>8, <1>9 DEF Records

LEMMA WithPc ==
    ASSUME NEW r \in Requests, NEW pc, pc \in {"limit", "save", "find", "load", "store", "baseline", "create", "issue", "reply"}
    PROVE  LET t == [r EXCEPT !.pc = pc]
           IN  /\ t \in Requests /\ t.pc = pc /\ t.kind = r.kind /\ t.session = r.session
               /\ t.sub = r.sub /\ t.patch = r.patch /\ t.copy = r.copy /\ t.base = r.base
  BY DEF Requests

LEMMA NoneIssue == NoPatch \in Patches /\ DOMAIN NoPatch = {}
  BY DEF Patches, NoPatch

\* The sync is over: the request has no issue in hand.
LEMMA SettledShape ==
    ASSUME FeedbackAssumption, NEW r, NEW stored, Handled(r, stored)
    PROVE  LET t == Settled(r)
           IN  /\ Shape(t, stored) /\ Owns(t, stored) /\ t.sub = r.sub /\ t.pc # "create"
               /\ \A s : Held(t, s) = 0
<1>. DEFINE t == Settled(r)
<1>1. CASE r.kind = "prepare"
  <2>. DEFINE patch == [triage |-> "agent-ready"]
  <2>1. t = [r EXCEPT !.kind = "brief", !.pc = "load", !.patch = patch]
      BY <1>1 DEF Settled
  <2>2. patch \in Patches /\ "issue" \notin DOMAIN patch /\ patch # NoPatch
      BY DEF Patches, NoPatch
  <2>. HIDE DEF patch
  <2>3. /\ t \in Requests /\ t.pc = "load" /\ t.kind = "brief" /\ t.sub = r.sub /\ t.patch = patch
        /\ t.copy = r.copy
      BY <2>1, <2>2 DEF Handled, Requests
  <2>. HIDE DEF t
  <2>. QED
      BY <2>2, <2>3 DEF Handled, Shape, Owns, Held, Early, t
<1>2. CASE r.kind # "prepare"
  <2>1. t = [r EXCEPT !.pc = "reply"]
      BY <1>2 DEF Settled
  <2>2. /\ t \in Requests /\ t.pc = "reply" /\ t.kind = r.kind /\ t.sub = r.sub /\ t.session = r.session
        /\ t.copy = r.copy
    <3>1. r \in Requests
        BY DEF Handled
    <3>. QED
        BY <2>1, <3>1, WithPc
  <2>. HIDE DEF t
  <2>3. r.sub # None
      BY DEF Handled, FeedbackAssumption
  <2>. QED
      BY <2>2, <2>3 DEF Handled, Shape, Owns, Held, Early, t
<1>. QED
    BY <1>1, <1>2

\* A record that names no issue is synced, one that does is left alone: it is enough that
\* the copy looked at is the record stored.
LEMMA SyncedShape ==
    ASSUME FeedbackAssumption, NEW r, NEW stored, Handled(r, stored)
    PROVE  LET t == Synced(r)
           IN  /\ Shape(t, stored) /\ t.sub = r.sub /\ t.pc # "create"
               /\ r.copy.issue = stored[r.sub].issue => Owns(t, stored)
               /\ \A s : Held(t, s) = 0
<1>. DEFINE t == Synced(r)
<1>1. CASE r.copy.issue \/ r.copy.sync = "synced"
    BY <1>1, SettledShape DEF Synced
<1>2. CASE ~(r.copy.issue \/ r.copy.sync = "synced")
  <2>1. t = [r EXCEPT !.pc = "baseline"]
      BY <1>2 DEF Synced
  <2>2. /\ t \in Requests /\ t.pc = "baseline" /\ t.kind = r.kind /\ t.sub = r.sub /\ t.session = r.session
        /\ t.copy = r.copy
    <3>1. r \in Requests
        BY DEF Handled
    <3>. QED
        BY <2>1, <3>1, WithPc
  <2>3. r.sub # None
      BY DEF Handled, FeedbackAssumption
  <2>. HIDE DEF t
  <2>4. Shape(t, stored) /\ \A s : Held(t, s) = 0
      BY <2>2, <2>3 DEF Handled, Shape, Held, Early
  <2>5. r.copy.issue = stored[r.sub].issue => Owns(t, stored)
      BY <1>2, <2>2 DEF Owns
  <2>. QED
      BY <2>2, <2>4, <2>5 DEF t
<1>. QED
    BY <1>1, <1>2

LEMMA AlertedShape ==
    ASSUME FeedbackAssumption, NEW r, NEW stored, Handled(r, stored), r.copy.sync \in {"pending", "failed"}
    PROVE  LET t == Alerted(r)
           IN  /\ Shape(t, stored) /\ Owns(t, stored) /\ t.sub = r.sub /\ t.pc # "create"
               /\ \A s : Held(t, s) = 0
<1>. DEFINE t == Alerted(r)
<1>1. CASE r.copy.alert = AlertOf(r)
    BY <1>1, SettledShape DEF Alerted
<1>2. CASE r.copy.alert # AlertOf(r)
  <2>. DEFINE patch == [alert |-> AlertOf(r)]
  <2>1. t = [r EXCEPT !.pc = "load", !.patch = patch]
      BY <1>2 DEF Alerted
  <2>2. patch \in Patches /\ "issue" \notin DOMAIN patch /\ patch # NoPatch
      BY DEF Patches, NoPatch, AlertOf
  <2>. HIDE DEF patch, t
  <2>3. /\ t \in Requests /\ t.pc = "load" /\ t.kind = r.kind /\ t.sub = r.sub /\ t.session = r.session
        /\ t.copy = r.copy /\ t.patch = patch
    <3>1. r \in Requests
        BY DEF Handled
    <3>. QED
        BY <2>1, <2>2, <3>1 DEF Requests
  <2>. QED
      BY <2>2, <2>3 DEF Handled, Shape, Owns, Held, Early, t
<1>. QED
    BY <1>1, <1>2

LEMMA AfterShape ==
    ASSUME FeedbackAssumption, NEW r, NEW stored, Handled(r, stored), NEW patch \in Patches,
           "sync" \in DOMAIN patch => r.copy.sync = patch.sync
    PROVE  LET t == After(patch, r)
           IN  /\ Shape(t, stored) /\ t.sub = r.sub /\ t.pc # "create"
               /\ r.copy.issue = stored[r.sub].issue => Owns(t, stored)
               /\ \A s : Held(t, s) = 0
<1>. DEFINE Good(t) == /\ Shape(t, stored) /\ t.sub = r.sub /\ t.pc # "create"
                       /\ r.copy.issue = stored[r.sub].issue => Owns(t, stored)
                       /\ \A s : Held(t, s) = 0
<1>1. Good(Settled(r)) /\ Good(Synced(r))
    BY SettledShape, SyncedShape
<1>2. ASSUME "sync" \in DOMAIN patch, patch.sync # "synced" PROVE Good(Alerted(r))
  <2>1. r.copy.sync \in {"pending", "failed"}
      BY <1>2, PatchShape
  <2>. QED
      BY <2>1, AlertedShape
<1>3. Good([r EXCEPT !.pc = "reply"])
  <2>. DEFINE t == [r EXCEPT !.pc = "reply"]
  <2>1. r \in Requests /\ r.sub # None
      BY DEF Handled, FeedbackAssumption
  <2>2. /\ t \in Requests /\ t.pc = "reply" /\ t.kind = r.kind /\ t.sub = r.sub /\ t.session = r.session
        /\ t.copy = r.copy
      BY <2>1, WithPc
  <2>. HIDE DEF t
  <2>3. Good(t)
      BY <2>1, <2>2 DEF Handled, Shape, Owns, Held, Early
  <2>. QED
      BY <2>3 DEF t
<1>. HIDE DEF Good
<1>4. Good(After(patch, r))
    BY <1>1, <1>2, <1>3 DEF After
<1>. QED
    BY <1>4 DEF Good

-----------------------------------------------------------------------------
(* The issues on their way *)

LEMMA HeldNat ==
    ASSUME NEW r, NEW s PROVE Held(r, s) \in {0, 1}
  BY DEF Held

LEMMA UnstoredStep ==
    ASSUME FeedbackAssumption, NEW h \in Slot, NEW r, req \in [Slot -> Requests \cup {None}],
           req' = [req EXCEPT ![h] = r], NEW s \in Submission
    PROVE  /\ Cardinality(Unstored(s)) \in Nat /\ Cardinality(Unstored(s)') \in Nat
           /\ Cardinality(Unstored(s)') + Held(req[h], s) = Cardinality(Unstored(s)) + Held(r, s)
<1>. DEFINE U == Unstored(s)
            V == Unstored(s)'
            W == U \ {h}
<1>1. req'[h] = r /\ \A g \in Slot : g # h => req'[g] = req[g]
    OBVIOUS
<1>2. U \subseteq Slot /\ V \subseteq Slot
    BY DEF Unstored
<1>3. \A g \in Slot : g # h => (g \in U <=> g \in V)
    BY <1>1 DEF Unstored
<1>4. (h \in U <=> Held(req[h], s) = 1) /\ (h \in V <=> Held(r, s) = 1)
    BY <1>1 DEF Unstored, Held
<1>. HIDE DEF U, V
<1>5. W = V \ {h} /\ IsFiniteSet(U) /\ IsFiniteSet(V) /\ IsFiniteSet(W)
    BY <1>2, <1>3, FS_Subset DEF FeedbackAssumption
<1>6. /\ Cardinality(U) \in Nat /\ Cardinality(V) \in Nat /\ Cardinality(W) \in Nat
      /\ Cardinality(W) = IF h \in U THEN Cardinality(U) - 1 ELSE Cardinality(U)
      /\ Cardinality(W) = IF h \in V THEN Cardinality(V) - 1 ELSE Cardinality(V)
    BY <1>5, FS_RemoveElement, FS_CardinalityType
<1>7. Cardinality(V) + Held(req[h], s) = Cardinality(U) + Held(r, s)
    BY <1>4, <1>6, HeldNat
<1>. QED
    BY <1>6, <1>7 DEF U, V

\* No step makes an issue of a submission that nothing accounts for.
LEMMA AccountKeeps ==
    ASSUME FeedbackAssumption, FeedbackInv, NEW h \in Slot, NEW r, req' = [req EXCEPT ![h] = r],
           raced \subseteq raced', faults \in Nat, faults' \in Nat,
           linear'.issues \in [Submission -> Nat],
           \A s \in Submission \ raced' :
               linear'.issues[s] + faults + Held(req[h], s) + Noted(submission[s])
                   <= linear.issues[s] + faults' + Held(r, s) + Noted(submission'[s])
    PROVE  IssuesAccounted'
<1>. SUFFICES ASSUME NEW s \in Submission \ raced'
              PROVE  linear'.issues[s] <= faults' + Cardinality(Unstored(s)') + Noted(submission'[s])
    BY DEF IssuesAccounted, Noted
<1>1. linear.issues[s] <= faults + Cardinality(Unstored(s)) + Noted(submission[s])
    BY DEF FeedbackInv, IssuesAccounted, Noted
<1>2. /\ Cardinality(Unstored(s)) \in Nat /\ Cardinality(Unstored(s)') \in Nat
      /\ Cardinality(Unstored(s)') + Held(req[h], s) = Cardinality(Unstored(s)) + Held(r, s)
    BY UnstoredStep DEF FeedbackInv, TypeInv
<1>3. /\ Held(r, s) \in {0, 1} /\ Held(req[h], s) \in {0, 1}
      /\ Noted(submission[s]) \in {0, 1} /\ Noted(submission'[s]) \in {0, 1}
      /\ linear.issues[s] \in Nat /\ linear'.issues[s] \in Nat
    BY HeldNat DEF Noted, FeedbackInv, TypeInv
<1>4. linear'.issues[s] + faults + Held(req[h], s) + Noted(submission[s])
          <= linear.issues[s] + faults' + Held(r, s) + Noted(submission'[s])
    OBVIOUS
<1>. QED
    BY <1>1, <1>2, <1>3, <1>4

-----------------------------------------------------------------------------
(* The parts of the invariant over a step of one request *)

\* A step of the request in slot h that leaves the other requests what they rely on.
LEMMA RequestKeeps ==
    ASSUME FeedbackInv, NEW h \in Slot, NEW r, req' = [req EXCEPT ![h] = r],
           r # None => Shape(r, submission'),
           r # None /\ r.sub \in Submission \ raced' => Owns(r, submission'),
           raced \subseteq raced', crowded => crowded',
           \A s \in Submission : submission[s] # None => submission'[s] # None,
           \A s \in Submission : \/ submission'[s] = submission[s]
                                 \/ \A g \in Others(h) : req[g].sub = s => s \in raced',
           r # None => \A g \in Others(h) :
               crowded' /\ (req[g].sub = r.sub /\ r.sub \in Submission => r.sub \in raced')
    PROVE  ReqInv' /\ Apart'
<1>1. req'[h] = r /\ \A g \in Slot : g # h => req'[g] = req[g]
    BY DEF FeedbackInv, TypeInv
<1>2. ASSUME NEW g \in Slot, req'[g] # None
      PROVE  /\ Shape(req'[g], submission')
             /\ req'[g].sub \in Submission \ raced' => Owns(req'[g], submission')
  <2>1. CASE g = h
      BY <1>1, <1>2, <2>1
  <2>2. CASE g # h
    <3>. DEFINE q == req[g]
    <3>1. req'[g] = q /\ q # None /\ g \in Others(h) /\ Shape(q, submission)
          /\ (q.sub \in Submission \ raced => Owns(q, submission))
        BY <1>1, <1>2, <2>2 DEF FeedbackInv, ReqInv, Others
    <3>. HIDE DEF q
    <3>2. Shape(q, submission')
        BY <3>1 DEF Shape
    <3>3. ASSUME q.sub \in Submission \ raced' PROVE Owns(q, submission')
      <4>1. submission'[q.sub] = submission[q.sub]
          BY <3>1, <3>3 DEF q
      <4>. QED
          BY <3>1, <3>3, <4>1 DEF Owns
    <3>. QED
        BY <3>1, <3>2, <3>3
  <2>. QED
      BY <2>1, <2>2
<1>3. ASSUME NEW a \in Slot, NEW b \in Slot, a # b, req'[a] # None, req'[b] # None
      PROVE  /\ crowded'
             /\ req'[a].sub = req'[b].sub /\ req'[a].sub \in Submission => req'[a].sub \in raced'
  <2>1. CASE a # h /\ b # h
      BY <1>1, <1>3, <2>1 DEF FeedbackInv, Apart
  <2>2. CASE a = h
      BY <1>1, <1>3, <2>2 DEF Others
  <2>3. CASE b = h
      BY <1>1, <1>3, <2>3 DEF Others
  <2>. QED
      BY <2>1, <2>2, <2>3
<1>. QED
    BY <1>2, <1>3 DEF ReqInv, Apart

\* The same for a request that goes on, or ends, and writes at most its own record.
LEMMA SameKeeps ==
    ASSUME FeedbackInv, NEW h \in Slot, req[h] # None, NEW r, req' = [req EXCEPT ![h] = r],
           UNCHANGED <<raced, crowded>>,
           r # None => r.sub = req[h].sub /\ Shape(r, submission'),
           r # None /\ r.sub \in Submission \ raced => Owns(r, submission'),
           \A s \in Submission : submission[s] # None => submission'[s] # None,
           \A s \in Submission : s # req[h].sub => submission'[s] = submission[s]
    PROVE  ReqInv' /\ Apart'
<1>1. \A g \in Others(h) : crowded /\ (req[g].sub = req[h].sub /\ req[h].sub \in Submission => req[h].sub \in raced)
    BY DEF FeedbackInv, Apart, Others
<1>2. \A s \in Submission : \/ submission'[s] = submission[s]
                            \/ \A g \in Others(h) : req[g].sub = s => s \in raced'
    BY <1>1
<1>. QED
    BY <1>1, <1>2, RequestKeeps

\* The baseline issues over a step that leaves them and the list alone.
LEMMA BaselineKeeps ==
    ASSUME FeedbackInv, NEW h \in Slot, NEW r, req' = [req EXCEPT ![h] = r],
           r # None => r.pc # "create", linear'.baseline = linear.baseline,
           faults \in Nat, faults' \in Nat, faults <= faults', cache' \in {cache, "expired"}, crowded => crowded'
    PROVE  BaselineInv'
<1>1. req'[h] = r /\ \A g \in Slot : g # h => req'[g] = req[g]
    BY DEF FeedbackInv, TypeInv
<1>2. linear.baseline \in Nat
    BY DEF FeedbackInv, TypeInv
<1>3. ~crowded' => ~crowded
    BY DEF FeedbackInv, TypeInv
<1>4. \A g \in Slot : At(g, "create")' => At(g, "create")
    BY <1>1 DEF At
<1>. QED
    BY <1>2, <1>3, <1>4 DEF FeedbackInv, BaselineInv

\* What was let through and what was reported sent over a step that counts nothing.
LEMMA KeptKeeps ==
    ASSUME FeedbackInv, UNCHANGED <<count, accepted>>,
           \A s \in Submission : submission[s] # None => submission'[s] # None,
           \A p \in Session : \/ dialog'[p].sent \in {dialog[p].sent, None}
                              \/ submission'[dialog'[p].sent] # None
    PROVE  KeptInv'
<1>1. \A p \in Session : dialog[p].sent \in Submission \cup {None}
    BY DEF FeedbackInv, TypeInv, Dialogs
<1>. QED
    BY <1>1 DEF FeedbackInv, KeptInv

LEMMA Bounds ==
    ASSUME FeedbackAssumption, FeedbackInv
    PROVE  /\ Limit \in Nat /\ MaxRequests \in Nat /\ MaxFaults \in Nat /\ faults \in Nat
           /\ IsFiniteSet(Slot) /\ None \notin Submission /\ None \notin Records /\ None \notin Requests
  BY DEF FeedbackAssumption, FeedbackInv, TypeInv

LEMMA Granted ==
    ASSUME FeedbackAssumption, FeedbackInv, Faulty
    PROVE  faults' = faults + 1 /\ faults' \in 0 .. MaxFaults /\ faults \in Nat
  BY DEF FeedbackAssumption, FeedbackInv, TypeInv, Faulty

LEMMA InHand ==
    ASSUME FeedbackInv, NEW h \in Slot, req[h] # None
    PROVE  /\ req[h] \in Requests /\ Shape(req[h], submission)
           /\ req[h].sub \in Submission \ raced => Owns(req[h], submission)
  BY DEF FeedbackInv, ReqInv, Shape

\* A step of the request in slot h that leaves the baseline issues and the limit alone.
LEMMA ServeKeeps ==
    ASSUME FeedbackAssumption, FeedbackInv, NEW h \in Slot, req[h] # None, NEW r,
           req' = [req EXCEPT ![h] = r], UNCHANGED <<cache, count, asked, accepted, raced, crowded>>,
           r # None => r.sub = req[h].sub /\ Shape(r, submission') /\ r.pc # "create",
           r # None /\ r.sub \in Submission \ raced => Owns(r, submission'),
           submission' \in [Submission -> Records \cup {None}],
           \A s \in Submission : submission[s] # None => submission'[s] # None,
           \A s \in Submission : s # req[h].sub => submission'[s] = submission[s],
           linear' \in [issues : [Submission -> Nat], baseline : Nat], linear'.baseline = linear.baseline,
           dialog' \in [Session -> Dialogs],
           \A p \in Session : \/ dialog'[p].sent \in {dialog[p].sent, None}
                              \/ submission'[dialog'[p].sent] # None,
           faults' \in 0 .. MaxFaults, faults <= faults',
           \A s \in Submission \ raced :
               linear'.issues[s] + faults + Held(req[h], s) + Noted(submission[s])
                   <= linear.issues[s] + faults' + Held(r, s) + Noted(submission'[s])
    PROVE  FeedbackInv'
<1>1. r \in Requests \cup {None} /\ MaxFaults \in Nat /\ faults \in Nat /\ faults' \in Nat
    BY Bounds DEF Shape
<1>2. TypeInv'
    BY <1>1 DEF FeedbackInv, TypeInv
<1>3. ReqInv' /\ Apart'
    BY SameKeeps
<1>4. IssuesAccounted'
  <2>1. linear'.issues \in [Submission -> Nat] /\ raced \subseteq raced'
      OBVIOUS
  <2>2. \A s \in Submission \ raced' :
            linear'.issues[s] + faults + Held(req[h], s) + Noted(submission[s])
                <= linear.issues[s] + faults' + Held(r, s) + Noted(submission'[s])
      OBVIOUS
  <2>. QED
      BY <1>1, <2>1, <2>2, AccountKeeps
<1>5. BaselineInv'
    BY <1>1, BaselineKeeps
<1>6. KeptInv'
    BY KeptKeeps
<1>. QED
    BY <1>2, <1>3, <1>4, <1>5, <1>6 DEF FeedbackInv

\* What reaches the dialog.
LEMMA AnswerFacts ==
    ASSUME FeedbackInv, NEW h \in Slot, req[h] # None, NEW ok \in BOOLEAN, Answer(h, ok),
           ok /\ req[h].kind = "submit" => req[h].sub \in Submission /\ submission'[req[h].sub] # None
    PROVE  /\ req' = [req EXCEPT ![h] = None] /\ dialog' \in [Session -> Dialogs]
           /\ \A p \in Session : \/ dialog'[p].sent \in {dialog[p].sent, None}
                                 \/ submission'[dialog'[p].sent] # None
<1>1. req' = [req EXCEPT ![h] = None]
    BY DEF Answer
<1>2. CASE req[h].kind # "submit"
    BY <1>1, <1>2 DEF Answer, FeedbackInv, TypeInv
<1>3. CASE req[h].kind = "submit"
  <2>. DEFINE p == req[h].session
              sent == IF ok THEN req[h].sub ELSE None
              d == [dialog[p] EXCEPT !.sending = FALSE, !.timer = (@ \/ ok), !.sent = sent]
  <2>1. p \in Session
      BY <1>3, InHand DEF Shape
  <2>2. dialog' = [dialog EXCEPT ![p] = d]
    <3>1. dialog' = [dialog EXCEPT ![p].sending = FALSE, ![p].timer = (@ \/ ok), ![p].sent = sent]
        BY <1>3 DEF Answer
    <3>. QED
        BY <2>1, <3>1 DEF FeedbackInv, TypeInv
  <2>3. dialog \in [Session -> Dialogs] /\ sent \in Submission \cup {None}
      BY <1>3 DEF FeedbackInv, TypeInv
  <2>. HIDE DEF sent
  <2>4. d \in Dialogs /\ d.sent = sent
      BY <2>1, <2>3 DEF Dialogs
  <2>. HIDE DEF d, p
  <2>5. dialog' \in [Session -> Dialogs] /\ dialog'[p] = d /\ \A q \in Session : q # p => dialog'[q] = dialog[q]
      BY <2>1, <2>2, <2>3, <2>4
  <2>6. sent = None \/ submission'[sent] # None
      BY <1>3 DEF sent
  <2>. QED
      BY <1>1, <2>4, <2>5, <2>6
<1>. QED
    BY <1>2, <1>3

-----------------------------------------------------------------------------
(* The steps *)

\* Nothing is made and nothing is stored.
LEMMA Idle ==
    ASSUME FeedbackAssumption, FeedbackInv, UNCHANGED <<submission, linear, faults>>, NEW q, NEW r,
           \A s : Held(q, s) = 0, \A s : Held(r, s) = 0
    PROVE  /\ submission' \in [Submission -> Records \cup {None}]
           /\ \A s \in Submission : submission[s] # None => submission'[s] # None
           /\ linear' \in [issues : [Submission -> Nat], baseline : Nat] /\ linear'.baseline = linear.baseline
           /\ faults' \in 0 .. MaxFaults /\ faults <= faults'
           /\ \A s \in Submission \ raced :
                  linear'.issues[s] + faults + Held(q, s) + Noted(submission[s])
                      <= linear.issues[s] + faults' + Held(r, s) + Noted(submission'[s])
<1>1. faults \in Nat /\ faults \in 0 .. MaxFaults
    BY Bounds DEF FeedbackInv, TypeInv
<1>2. \A s \in Submission : linear.issues[s] \in Nat /\ Noted(submission[s]) \in Nat
    BY DEF FeedbackInv, TypeInv, Noted
<1>. QED
    BY <1>1, <1>2 DEF FeedbackInv, TypeInv

LEMMA FindStep ==
    ASSUME FeedbackAssumption, FeedbackInv, NEW h \in Slot, Find(h) PROVE FeedbackInv'
<1>. DEFINE q == req[h]
            r == [q EXCEPT !.copy = submission[q.sub]]
            t == IF r.kind = "prepare" THEN Synced(r) ELSE [r EXCEPT !.pc = "load"]
<1>1. /\ q # None /\ q.pc = "find"
      /\ UNCHANGED <<submission, linear, cache, count, asked, faults, accepted, raced, crowded>>
    BY DEF Find, At
<1>2. /\ q \in Requests /\ q.sub \in Submission /\ q.kind \in {"update", "retry", "prepare"}
      /\ q.kind # "prepare" => q.patch = [triage |-> "triaged"]
    BY <1>1, InHand DEF Shape
<1>3. \A s : Held(q, s) = 0
    BY <1>1 DEF Held
<1>4. /\ submission \in [Submission -> Records \cup {None}] /\ dialog \in [Session -> Dialogs]
    BY DEF FeedbackInv, TypeInv
<1>5. CASE submission[q.sub] = None
  <2>1. Answer(h, FALSE)
      BY <1>5 DEF Find
  <2>2. /\ req' = [req EXCEPT ![h] = None] /\ dialog' \in [Session -> Dialogs]
        /\ \A p \in Session : \/ dialog'[p].sent \in {dialog[p].sent, None}
                              \/ submission'[dialog'[p].sent] # None
      BY <1>1, <2>1, AnswerFacts
  <2>3. \A s : Held(None, s) = 0
      BY DEF Held
  <2>. QED
      BY <1>1, <1>3, <2>2, <2>3, Idle, ServeKeeps, ZenonT(40)
<1>6. CASE submission[q.sub] # None
  <2>1. req' = [req EXCEPT ![h] = t] /\ dialog' = dialog
      BY <1>6 DEF Find
  <2>2. /\ r \in Requests /\ r.kind = q.kind /\ r.sub = q.sub /\ r.patch = q.patch
        /\ r.copy = submission[q.sub] /\ r.copy \in Records
      BY <1>2, <1>4, <1>6 DEF Requests
  <2>. HIDE DEF r
  <2>3. Handled(r, submission)
      BY <1>2, <1>6, <2>2 DEF Handled
  <2>4. Shape(t, submission) /\ Owns(t, submission) /\ t.sub = q.sub /\ t.pc # "create" /\ \A s : Held(t, s) = 0
    <3>1. CASE r.kind = "prepare"
        BY <2>2, <2>3, <3>1, SyncedShape
    <3>2. CASE r.kind # "prepare"
      <4>1. t = [r EXCEPT !.pc = "load"]
          BY <3>2
      <4>. HIDE DEF t
      <4>2. /\ t \in Requests /\ t.pc = "load" /\ t.kind = r.kind /\ t.sub = r.sub /\ t.copy = r.copy
            /\ t.patch = [triage |-> "triaged"]
          BY <1>2, <2>2, <3>2, <4>1 DEF Requests
      <4>3. t.patch # NoPatch /\ "issue" \notin DOMAIN t.patch
          BY <4>2 DEF NoPatch
      <4>. QED
          BY <1>2, <1>6, <2>2, <4>2, <4>3 DEF Shape, Owns, Held, Early
    <3>. QED
        BY <3>1, <3>2
  <2>. HIDE DEF t
  <2>. QED
      BY <1>1, <1>3, <1>4, <2>1, <2>4, Idle, ServeKeeps
<1>. QED
    BY <1>5, <1>6

LEMMA LoadStep ==
    ASSUME FeedbackAssumption, FeedbackInv, NEW h \in Slot, Load(h) PROVE FeedbackInv'
<1>. DEFINE q == req[h]
            r == [q EXCEPT !.base = submission[q.sub], !.pc = "store"]
<1>1. /\ q # None /\ q.pc = "load" /\ req' = [req EXCEPT ![h] = r]
      /\ UNCHANGED <<submission, linear, cache, count, dialog, asked, faults, accepted, raced, crowded>>
    BY DEF Load, At
<1>2. /\ q \in Requests /\ Shape(q, submission)
      /\ q.sub \in Submission \ raced => Owns(q, submission)
    BY <1>1, InHand
<1>3. /\ q.sub \in Submission /\ submission[q.sub] # None /\ q.copy \in Records /\ q.kind # "provision"
      /\ q.patch # NoPatch
    BY <1>1, <1>2 DEF Shape, Early
<1>4. submission \in [Submission -> Records \cup {None}] /\ dialog \in [Session -> Dialogs]
    BY DEF FeedbackInv, TypeInv
<1>5. /\ r \in Requests /\ r.pc = "store" /\ r.kind = q.kind /\ r.session = q.session /\ r.sub = q.sub
      /\ r.patch = q.patch /\ r.copy = q.copy /\ r.base = submission[q.sub] /\ r.base \in Records
    BY <1>2, <1>3, <1>4 DEF Requests
<1>. HIDE DEF r
<1>6. Shape(r, submission) /\ (r.sub \in Submission \ raced => Owns(r, submission))
    BY <1>1, <1>2, <1>3, <1>5 DEF Shape, Owns, Early
<1>8. \A s : Held(q, s) = Held(r, s) /\ Held(q, s) \in Nat
    BY <1>1, <1>5, Bounds DEF Held
<1>9. \A s \in Submission \ raced :
          linear'.issues[s] + faults + Held(q, s) + Noted(submission[s])
              <= linear.issues[s] + faults' + Held(r, s) + Noted(submission'[s])
  <2>1. \A s \in Submission : linear.issues[s] \in Nat /\ Noted(submission[s]) \in Nat
      BY DEF FeedbackInv, TypeInv, Noted
  <2>. QED
      BY <1>1, <1>8, <2>1, Bounds
<1>10. /\ submission' \in [Submission -> Records \cup {None}]
       /\ \A s \in Submission : submission[s] # None => submission'[s] # None
       /\ linear' \in [issues : [Submission -> Nat], baseline : Nat] /\ linear'.baseline = linear.baseline
       /\ faults' \in 0 .. MaxFaults /\ faults <= faults'
    BY <1>1, <1>4, Bounds DEF FeedbackInv, TypeInv
<1>. QED
    BY <1>1, <1>4, <1>5, <1>6, <1>9, <1>10, ServeKeeps

\* The record that is written is the one that was read, with the patch, and the issue of
\* the patch is from then on the record's.
LEMMA StoreStep ==
    ASSUME FeedbackAssumption, FeedbackInv, NEW h \in Slot, Store(h) PROVE FeedbackInv'
<1>. DEFINE q == req[h]
            saved == Patched(q.base, q.patch)
            u == [q EXCEPT !.patch = NoPatch, !.base = None, !.copy = saved]
            r == After(q.patch, u)
<1>1. /\ q # None /\ q.pc = "store" /\ req' = [req EXCEPT ![h] = r]
      /\ submission' = [submission EXCEPT ![q.sub] = saved]
      /\ UNCHANGED <<linear, cache, count, dialog, asked, faults, accepted, raced, crowded>>
    BY DEF Store, At
<1>2. /\ q \in Requests /\ Shape(q, submission)
      /\ q.sub \in Submission \ raced => Owns(q, submission)
    BY <1>1, InHand
<1>3. /\ q.sub \in Submission /\ submission[q.sub] # None /\ q.copy \in Records /\ q.kind # "provision"
      /\ q.patch \in Patches /\ q.base \in Records /\ (q.kind = "submit" => q.session \in Session)
    BY <1>1, <1>2 DEF Shape, Early, Requests
<1>4. submission \in [Submission -> Records \cup {None}] /\ dialog \in [Session -> Dialogs]
    BY DEF FeedbackInv, TypeInv
<1>5. /\ saved \in Records /\ saved.issue = (q.base.issue \/ "issue" \in DOMAIN q.patch)
      /\ "sync" \in DOMAIN q.patch => saved.sync = q.patch.sync
    BY <1>3, SavedShape
<1>. HIDE DEF saved
<1>6. /\ submission' \in [Submission -> Records \cup {None}] /\ submission'[q.sub] = saved
      /\ saved # None /\ saved.issue \in BOOLEAN
      /\ \A s \in Submission : s # q.sub => submission'[s] = submission[s]
    BY <1>1, <1>3, <1>4, <1>5, Bounds DEF Records
<1>7. /\ u \in Requests /\ u.kind = q.kind /\ u.session = q.session /\ u.sub = q.sub /\ u.copy = saved
    BY <1>2, <1>5, NoneIssue DEF Requests
<1>. HIDE DEF u
<1>8. Handled(u, submission')
    BY <1>3, <1>5, <1>6, <1>7 DEF Handled
<1>9. /\ Shape(r, submission') /\ r.sub = q.sub /\ r.pc # "create" /\ Owns(r, submission')
      /\ \A s : Held(r, s) = 0
    BY <1>3, <1>5, <1>6, <1>7, <1>8, AfterShape
<1>. HIDE DEF r
<1>10. \A s \in Submission \ raced : Held(q, s) + Noted(submission[s]) <= Noted(submission'[s])
  <2>. SUFFICES ASSUME NEW s \in Submission \ raced
                PROVE  Held(q, s) + Noted(submission[s]) <= Noted(submission'[s])
      OBVIOUS
  <2>1. CASE s # q.sub
      BY <1>4, <1>6, <2>1 DEF Held, Noted
  <2>2. CASE s = q.sub
    <3>1. q.base = submission[s] /\ ("issue" \in DOMAIN q.patch => ~submission[s].issue)
        BY <1>1, <1>2, <2>2 DEF Owns
    <3>2. submission[s] \in Records /\ submission'[s] = saved
        BY <1>3, <1>6, <2>2, <3>1
    <3>3. Noted(submission'[s]) = IF submission[s].issue \/ "issue" \in DOMAIN q.patch THEN 1 ELSE 0
        BY <1>5, <1>6, <3>1, <3>2 DEF Noted
    <3>4. Noted(submission[s]) = IF submission[s].issue THEN 1 ELSE 0
        BY <1>3, <2>2 DEF Noted
    <3>5. Held(q, s) = IF "issue" \in DOMAIN q.patch THEN 1 ELSE 0
        BY <1>1, <2>2 DEF Held
    <3>. QED
        BY <3>1, <3>3, <3>4, <3>5
  <2>. QED
      BY <2>1, <2>2
<1>11. \A s \in Submission \ raced :
           linear'.issues[s] + faults + Held(q, s) + Noted(submission[s])
               <= linear.issues[s] + faults' + Held(r, s) + Noted(submission'[s])
  <2>1. \A s \in Submission : linear.issues[s] \in Nat
      BY DEF FeedbackInv, TypeInv
  <2>2. \A s : Held(q, s) \in {0, 1} /\ Noted(submission[s]) \in {0, 1} /\ Noted(submission'[s]) \in {0, 1}
      BY HeldNat DEF Noted
  <2>. QED
      BY <1>1, <1>9, <1>10, <2>1, <2>2, Bounds
<1>12. /\ \A s \in Submission : submission[s] # None => submission'[s] # None
       /\ linear' \in [issues : [Submission -> Nat], baseline : Nat] /\ linear'.baseline = linear.baseline
       /\ faults' \in 0 .. MaxFaults /\ faults <= faults'
    BY <1>1, <1>6, Bounds DEF FeedbackInv, TypeInv
<1>. QED
    BY <1>1, <1>4, <1>6, <1>9, <1>11, <1>12, ServeKeeps

\* A request that goes on to note in the record what came of the call to Linear.
LEMMA NotedShape ==
    ASSUME FeedbackAssumption, NEW q \in Requests, NEW stored, Shape(q, stored), q.kind # "provision",
           q.pc \in {"baseline", "issue"}, NEW patch \in Patches, patch # NoPatch
    PROVE  LET r == [q EXCEPT !.pc = "load", !.patch = patch]
           IN  /\ Shape(r, stored) /\ r.sub = q.sub /\ r.pc = "load" /\ r.patch = patch
               /\ Owns(q, stored) => Owns(r, stored)
               /\ \A s : Held(q, s) = 0 /\ Held(r, s) \in {0, 1}
               /\ "issue" \in DOMAIN patch => Held(r, q.sub) = 1
<1>. DEFINE r == [q EXCEPT !.pc = "load", !.patch = patch]
<1>1. /\ r \in Requests /\ r.pc = "load" /\ r.kind = q.kind /\ r.session = q.session /\ r.sub = q.sub
      /\ r.copy = q.copy /\ r.patch = patch /\ r # None
    BY DEF Requests, FeedbackAssumption
<1>. HIDE DEF r
<1>2. Shape(r, stored)
    BY <1>1 DEF Shape, Early
<1>3. Owns(q, stored) => Owns(r, stored)
    BY <1>1 DEF Owns
<1>4. \A s : Held(q, s) = 0 /\ Held(r, s) \in {0, 1}
    BY HeldNat DEF Held
<1>5. "issue" \in DOMAIN patch => Held(r, q.sub) = 1
    BY <1>1 DEF Held
<1>. QED
    BY <1>1, <1>2, <1>3, <1>4, <1>5 DEF r

LEMMA CreateIssueStep ==
    ASSUME FeedbackAssumption, FeedbackInv, NEW h \in Slot, CreateIssue(h) PROVE FeedbackInv'
<1>. DEFINE q == req[h]
            patch == [sync |-> "synced", issue |-> TRUE]
            r == [q EXCEPT !.pc = "load", !.patch = patch]
<1>1. /\ q # None /\ q.pc = "issue" /\ req' = [req EXCEPT ![h] = r]
      /\ linear' = [linear EXCEPT !.issues[q.sub] = @ + 1]
      /\ UNCHANGED <<submission, cache, count, dialog, asked, faults, accepted, raced, crowded>>
    BY DEF CreateIssue, At
<1>2. /\ q \in Requests /\ Shape(q, submission)
      /\ q.sub \in Submission \ raced => Owns(q, submission)
    BY <1>1, InHand
<1>3. q.sub \in Submission /\ q.kind # "provision"
    BY <1>1, <1>2 DEF Shape, Early
<1>4. patch \in Patches /\ patch # NoPatch /\ "issue" \in DOMAIN patch
    BY DEF Patches, NoPatch
<1>. HIDE DEF patch
<1>5. /\ Shape(r, submission) /\ r.sub = q.sub /\ r.pc # "create"
      /\ Owns(q, submission) => Owns(r, submission)
      /\ \A s : Held(q, s) = 0 /\ Held(r, s) \in {0, 1}
      /\ Held(r, q.sub) = 1
    BY <1>1, <1>2, <1>3, <1>4, NotedShape
<1>. HIDE DEF r
<1>6. /\ linear' \in [issues : [Submission -> Nat], baseline : Nat] /\ linear'.baseline = linear.baseline
      /\ linear'.issues[q.sub] = linear.issues[q.sub] + 1
      /\ \A s \in Submission : s # q.sub => linear'.issues[s] = linear.issues[s]
    BY <1>1, <1>3 DEF FeedbackInv, TypeInv
<1>7. \A s \in Submission \ raced :
          linear'.issues[s] + faults + Held(q, s) + Noted(submission[s])
              <= linear.issues[s] + faults' + Held(r, s) + Noted(submission'[s])
  <2>1. \A s \in Submission : linear.issues[s] \in Nat /\ Noted(submission[s]) \in Nat
      BY DEF FeedbackInv, TypeInv, Noted
  <2>. QED
      BY <1>1, <1>5, <1>6, <2>1, Bounds
<1>8. /\ submission' \in [Submission -> Records \cup {None}] /\ dialog' \in [Session -> Dialogs]
      /\ faults' \in 0 .. MaxFaults /\ faults <= faults'
    BY <1>1, Bounds DEF FeedbackInv, TypeInv
<1>. QED
    BY <1>1, <1>2, <1>5, <1>6, <1>7, <1>8, ServeKeeps

LEMMA IssueLostStep ==
    ASSUME FeedbackAssumption, FeedbackInv, NEW h \in Slot, IssueLost(h) PROVE FeedbackInv'
<1>. DEFINE q == req[h]
            patch == [sync |-> IF q.kind = "submit" THEN "pending" ELSE "failed"]
            r == [q EXCEPT !.pc = "load", !.patch = patch]
<1>1. /\ q # None /\ q.pc \in {"baseline", "issue"} /\ q.kind # "provision" /\ Faulty
      /\ req' = [req EXCEPT ![h] = r]
      /\ UNCHANGED <<submission, cache, count, dialog, asked, accepted, raced, crowded>>
    BY DEF IssueLost
<1>9. PICK made \in {0, 1} : linear' = [linear EXCEPT !.issues[q.sub] = @ + made]
    BY DEF IssueLost
<1>2. /\ q \in Requests /\ Shape(q, submission)
      /\ q.sub \in Submission \ raced => Owns(q, submission)
    BY <1>1, InHand
<1>3. q.sub \in Submission
    BY <1>1, <1>2 DEF Shape, Early
<1>4. patch \in Patches /\ patch # NoPatch
    BY DEF Patches, NoPatch
<1>. HIDE DEF patch
<1>5. /\ Shape(r, submission) /\ r.sub = q.sub /\ r.pc # "create"
      /\ Owns(q, submission) => Owns(r, submission)
      /\ \A s : Held(q, s) = 0 /\ Held(r, s) \in {0, 1}
    BY <1>1, <1>2, <1>3, <1>4, NotedShape
<1>. HIDE DEF r
<1>6. /\ linear' \in [issues : [Submission -> Nat], baseline : Nat] /\ linear'.baseline = linear.baseline
      /\ \A s \in Submission : linear'.issues[s] \in Nat /\ linear'.issues[s] <= linear.issues[s] + 1
    BY <1>9, <1>3 DEF FeedbackInv, TypeInv
<1>10. faults' = faults + 1 /\ faults' \in 0 .. MaxFaults /\ faults \in Nat
    BY <1>1, Granted
<1>7. \A s \in Submission \ raced :
          linear'.issues[s] + faults + Held(q, s) + Noted(submission[s])
              <= linear.issues[s] + faults' + Held(r, s) + Noted(submission'[s])
  <2>1. \A s \in Submission : linear.issues[s] \in Nat /\ Noted(submission[s]) \in Nat
      BY DEF FeedbackInv, TypeInv, Noted
  <2>. QED
      BY <1>1, <1>5, <1>6, <1>10, <2>1
<1>8. /\ submission' \in [Submission -> Records \cup {None}] /\ dialog' \in [Session -> Dialogs]
      /\ faults <= faults'
    BY <1>1, <1>10 DEF FeedbackInv, TypeInv
<1>. QED
    BY <1>1, <1>2, <1>5, <1>6, <1>7, <1>8, <1>10, ServeKeeps

LEMMA ReplyStep ==
    ASSUME FeedbackAssumption, FeedbackInv, NEW h \in Slot, Reply(h) PROVE FeedbackInv'
<1>. DEFINE q == req[h]
<1>1. /\ q # None /\ q.pc = "reply" /\ Answer(h, TRUE)
      /\ UNCHANGED <<submission, linear, cache, count, asked, faults, accepted, raced, crowded>>
    BY DEF Reply, At
<1>2. q.kind = "submit" => q.sub \in Submission /\ submission'[q.sub] # None
    BY <1>1, InHand DEF Shape, Early
<1>3. /\ req' = [req EXCEPT ![h] = None] /\ dialog' \in [Session -> Dialogs]
      /\ \A p \in Session : \/ dialog'[p].sent \in {dialog[p].sent, None}
                            \/ submission'[dialog'[p].sent] # None
    BY <1>1, <1>2, AnswerFacts
<1>4. (\A s : Held(q, s) = 0) /\ \A s : Held(None, s) = 0
    BY <1>1 DEF Held
<1>. QED
    BY <1>1, <1>3, <1>4, Idle, ServeKeeps, ZenonT(40)

\* A store call that fails may have written; the issue of a patch that is lost is one the
\* fault accounts for.
LEMMA FailsStep ==
    ASSUME FeedbackAssumption, FeedbackInv, NEW h \in Slot, Fails(h) PROVE FeedbackInv'
<1>. DEFINE q == req[h]
            saved == Patched(q.base, q.patch)
            r == IF "alert" \in DOMAIN q.patch THEN Settled([q EXCEPT !.patch = NoPatch]) ELSE None
<1>1. /\ q # None /\ Faulty
      /\ q.pc \in {"save", "find", "load", "store"} \/ (q.kind = "provision" /\ q.pc = "baseline")
      /\ \/ submission' = submission
         \/ q.pc = "store" /\ submission' = [submission EXCEPT ![q.sub] = saved]
      /\ UNCHANGED <<linear, cache, count, asked, accepted, raced, crowded>>
    BY DEF Fails
<1>2. /\ q \in Requests /\ Shape(q, submission)
      /\ q.sub \in Submission \ raced => Owns(q, submission)
    BY <1>1, InHand
<1>3. submission \in [Submission -> Records \cup {None}] /\ dialog \in [Session -> Dialogs]
    BY DEF FeedbackInv, TypeInv
<1>4. faults' = faults + 1 /\ faults' \in 0 .. MaxFaults /\ faults \in Nat
    BY <1>1, Granted
<1>5. q.pc = "store" =>
          /\ q.sub \in Submission /\ saved \in Records /\ saved # None
          /\ saved.issue = (q.base.issue \/ "issue" \in DOMAIN q.patch)
  <2>. SUFFICES ASSUME q.pc = "store"
                PROVE  /\ q.sub \in Submission /\ saved \in Records /\ saved # None
                       /\ saved.issue = (q.base.issue \/ "issue" \in DOMAIN q.patch)
      OBVIOUS
  <2>1. q.sub \in Submission /\ q.base \in Records /\ q.patch \in Patches
      BY <1>2 DEF Shape, Early, Requests
  <2>. QED
      BY <2>1, SavedShape, Bounds
<1>. HIDE DEF saved
<1>6. /\ submission' \in [Submission -> Records \cup {None}]
      /\ \A s \in Submission : submission[s] # None => submission'[s] # None
      /\ \A s \in Submission : s # q.sub => submission'[s] = submission[s]
    BY <1>1, <1>3, <1>5
<1>7. /\ r # None => r.sub = q.sub /\ Shape(r, submission') /\ r.pc # "create" /\ Owns(r, submission')
      /\ \A s : Held(r, s) = 0
      /\ req' = [req EXCEPT ![h] = r] /\ dialog' \in [Session -> Dialogs]
      /\ \A p \in Session : \/ dialog'[p].sent \in {dialog[p].sent, None}
                            \/ submission'[dialog'[p].sent] # None
  <2>1. CASE "alert" \in DOMAIN q.patch
    <3>. DEFINE u == [q EXCEPT !.patch = NoPatch]
    <3>1. q.pc \in {"load", "store"} /\ q.kind # "provision"
        BY <1>1, <1>2, <2>1 DEF Shape, Early
    <3>2. /\ q.sub \in Submission /\ submission[q.sub] # None /\ q.copy \in Records
          /\ (q.kind = "submit" => q.session \in Session)
        BY <1>2, <3>1 DEF Shape, Early
    <3>3. /\ u \in Requests /\ u.kind = q.kind /\ u.session = q.session /\ u.sub = q.sub /\ u.copy = q.copy
        BY <1>2, NoneIssue DEF Requests
    <3>4. req' = [req EXCEPT ![h] = Settled(u)] /\ dialog' = dialog /\ r = Settled(u)
        BY <2>1 DEF Fails
    <3>. HIDE DEF u, r
    <3>5. Handled(u, submission')
        BY <1>6, <3>1, <3>2, <3>3 DEF Handled
    <3>6. /\ Shape(r, submission') /\ Owns(r, submission') /\ r.sub = q.sub /\ r.pc # "create"
          /\ \A s : Held(r, s) = 0
        BY <3>3, <3>4, <3>5, SettledShape
    <3>. QED
        BY <1>3, <3>4, <3>6
  <2>2. CASE "alert" \notin DOMAIN q.patch
    <3>1. Answer(h, FALSE) /\ r = None
        BY <2>2 DEF Fails
    <3>2. \A s : Held(r, s) = 0
        BY <3>1 DEF Held
    <3>. QED
        BY <1>1, <3>1, <3>2, AnswerFacts
  <2>. QED
      BY <2>1, <2>2
<1>. HIDE DEF r
<1>8. \A s \in Submission \ raced : Held(q, s) + Noted(submission[s]) <= 1 + Noted(submission'[s])
  <2>. SUFFICES ASSUME NEW s \in Submission \ raced
                PROVE  Held(q, s) + Noted(submission[s]) <= 1 + Noted(submission'[s])
      OBVIOUS
  <2>1. Held(q, s) \in {0, 1} /\ Noted(submission[s]) \in {0, 1} /\ Noted(submission'[s]) \in {0, 1}
      BY HeldNat DEF Noted
  <2>2. CASE submission'[s] = submission[s]
      BY <2>1, <2>2
  <2>3. CASE submission'[s] # submission[s]
    <3>1. q.pc = "store" /\ s = q.sub /\ submission'[s] = saved
        BY <1>1, <1>3, <1>6, <2>3
    <3>2. q.base = submission[s]
        BY <1>2, <3>1 DEF Owns
    <3>3. Noted(submission[s]) = 1 => Noted(submission'[s]) = 1
        BY <1>5, <3>1, <3>2 DEF Noted
    <3>. QED
        BY <2>1, <3>3
  <2>. QED
      BY <2>2, <2>3
<1>9. \A s \in Submission \ raced :
          linear'.issues[s] + faults + Held(q, s) + Noted(submission[s])
              <= linear.issues[s] + faults' + Held(r, s) + Noted(submission'[s])
  <2>1. \A s \in Submission : linear.issues[s] \in Nat
      BY DEF FeedbackInv, TypeInv
  <2>2. \A s : Held(q, s) \in {0, 1} /\ Noted(submission[s]) \in {0, 1} /\ Noted(submission'[s]) \in {0, 1}
      BY HeldNat DEF Noted
  <2>. QED
      BY <1>1, <1>4, <1>7, <1>8, <2>1, <2>2
<1>10. /\ linear' \in [issues : [Submission -> Nat], baseline : Nat] /\ linear'.baseline = linear.baseline
       /\ faults <= faults'
    BY <1>1, <1>4 DEF FeedbackInv, TypeInv
<1>. QED
    BY <1>1, <1>4, <1>6, <1>7, <1>9, <1>10, ServeKeeps

\* A request begins: the others of its submission race with it from now on.
LEMMA BeginKeeps ==
    ASSUME FeedbackAssumption, FeedbackInv, NEW h \in Slot, NEW r \in Requests, Begin(h, r),
           Shape(r, submission), r.pc \in Early \/ r.kind = "provision", r.pc # "create",
           UNCHANGED <<submission, linear, cache, count, faults, accepted>>,
           asked' \in 0 .. MaxRequests, dialog' \in [Session -> Dialogs],
           \A p \in Session : dialog'[p].sent \in {dialog[p].sent, None}
    PROVE  FeedbackInv'
<1>1. /\ req[h] = None /\ req' = [req EXCEPT ![h] = r]
      /\ crowded' = (crowded \/ Others(h) # {})
      /\ raced' = raced \cup {s \in {r.sub} \cap Submission : \E g \in Others(h) : req[g].sub = s}
    BY DEF Begin
<1>2. raced' \subseteq Submission /\ raced \subseteq raced' /\ crowded' \in BOOLEAN /\ (crowded => crowded')
    BY <1>1 DEF FeedbackInv, TypeInv
<1>3. TypeInv'
    BY <1>1, <1>2 DEF FeedbackInv, TypeInv
<1>4. r.sub \in Submission \ raced' => Owns(r, submission')
  <2>1. r.sub \in Submission => r.kind # "provision"
      BY Bounds DEF Shape
  <2>. QED
      BY <2>1 DEF Owns, Early
<1>5. ReqInv' /\ Apart'
  <2>1. \A g \in Others(h) : crowded' /\ (req[g].sub = r.sub /\ r.sub \in Submission => r.sub \in raced')
      BY <1>1
  <2>. QED
      BY <1>1, <1>2, <1>4, <2>1, RequestKeeps
<1>6. IssuesAccounted'
  <2>1. \A s : Held(req[h], s) = 0 /\ Held(r, s) \in {0, 1}
      BY <1>1, HeldNat DEF Held
  <2>2. \A s \in Submission : linear.issues[s] \in Nat /\ Noted(submission[s]) \in Nat
      BY DEF FeedbackInv, TypeInv, Noted
  <2>3. \A s \in Submission \ raced' :
            linear'.issues[s] + faults + Held(req[h], s) + Noted(submission[s])
                <= linear.issues[s] + faults' + Held(r, s) + Noted(submission'[s])
      BY <2>1, <2>2, Bounds
  <2>4. faults \in Nat /\ faults' \in Nat /\ linear'.issues \in [Submission -> Nat]
      BY Bounds DEF FeedbackInv, TypeInv
  <2>. QED
      BY <1>1, <1>2, <2>3, <2>4, AccountKeeps
<1>7. BaselineInv'
  <2>1. /\ linear'.baseline = linear.baseline /\ cache' \in {cache, "expired"}
        /\ faults \in Nat /\ faults' \in Nat /\ faults <= faults'
      BY Bounds
  <2>. QED
      BY <1>1, <1>2, <2>1, BaselineKeeps
<1>8. KeptInv'
    BY KeptKeeps
<1>. QED
    BY <1>3, <1>5, <1>6, <1>7, <1>8 DEF FeedbackInv

LEMMA RequestShape ==
    ASSUME FeedbackAssumption, NEW kind, NEW pc, NEW session \in Session \cup {None},
           NEW sub \in Submission \cup {None}, NEW patch \in {NoPatch, [triage |-> "triaged"]}, NEW stored,
           \/ kind = "submit" /\ pc = "limit" /\ session \in Session
           \/ kind \in {"update", "retry"} /\ pc = "find" /\ sub \in Submission /\ patch # NoPatch
           \/ kind = "prepare" /\ pc = "find" /\ sub \in Submission
           \/ kind = "provision" /\ pc = "baseline" /\ sub = None
    PROVE  LET r == Request(kind, pc, session, sub, patch)
           IN  /\ r \in Requests /\ Shape(r, stored) /\ r.pc # "create"
               /\ r.pc \in Early \/ r.kind = "provision"
<1>. DEFINE r == Request(kind, pc, session, sub, patch)
<1>1. /\ r.kind = kind /\ r.pc = pc /\ r.session = session /\ r.sub = sub /\ r.patch = patch
      /\ r.copy = None /\ r.base = None
    BY DEF Request
<1>2. patch \in Patches /\ "alert" \notin DOMAIN patch
    BY DEF Patches, NoPatch
<1>3. r \in Requests
    BY <1>2 DEF Request, Requests
<1>. HIDE DEF r
<1>4. sub \in Submission => sub # None
    BY DEF FeedbackAssumption
<1>5. Shape(r, stored)
    BY <1>1, <1>2, <1>3, <1>4 DEF Shape, Early
<1>. QED
    BY <1>1, <1>3, <1>5 DEF r, Early

LEMMA SendStep ==
    ASSUME FeedbackAssumption, FeedbackInv, NEW p \in Session, NEW h \in Slot, Send(p, h) PROVE FeedbackInv'
<1>. DEFINE r == Request("submit", "limit", p, None, NoPatch)
<1>1. /\ Begin(h, r) /\ dialog' = [dialog EXCEPT ![p].sending = TRUE, ![p].sent = None]
      /\ UNCHANGED <<submission, linear, cache, count, asked, faults, accepted>>
    BY DEF Send
<1>2. /\ r \in Requests /\ Shape(r, submission) /\ r.pc # "create" /\ (r.pc \in Early \/ r.kind = "provision")
    BY RequestShape
<1>. HIDE DEF r
<1>3. /\ asked' \in 0 .. MaxRequests /\ dialog' \in [Session -> Dialogs]
      /\ \A q \in Session : dialog'[q].sent \in {dialog[q].sent, None}
    BY <1>1, ZenonT(40) DEF FeedbackInv, TypeInv, Dialogs
<1>. QED
    BY <1>1, <1>2, <1>3, BeginKeeps

LEMMA AdministerStep ==
    ASSUME FeedbackAssumption, FeedbackInv, NEW h \in Slot, Administer(h) PROVE FeedbackInv'
<1>. DEFINE Begun(r) ==
          /\ Begin(h, r) /\ Shape(r, submission) /\ r.pc # "create" /\ (r.pc \in Early \/ r.kind = "provision")
          /\ asked < MaxRequests /\ asked' = asked + 1
          /\ UNCHANGED <<submission, linear, cache, count, dialog, faults, accepted>>
<1>1. PICK r \in Requests : Begun(r)
  <2>1. CASE Provision(h)
    <3>. DEFINE r == Request("provision", "baseline", None, None, NoPatch)
    <3>1. r \in Requests /\ Shape(r, submission) /\ r.pc # "create" /\ (r.pc \in Early \/ r.kind = "provision")
        BY RequestShape
    <3>. HIDE DEF r
    <3>. QED
        BY <2>1, <3>1 DEF Provision, r
  <2>2. ASSUME NEW s \in Submission, Prepare(h, s) PROVE \E r \in Requests : Begun(r)
    <3>. DEFINE r == Request("prepare", "find", None, s, NoPatch)
    <3>1. r \in Requests /\ Shape(r, submission) /\ r.pc # "create" /\ (r.pc \in Early \/ r.kind = "provision")
        BY RequestShape
    <3>. HIDE DEF r
    <3>. QED
        BY <2>2, <3>1 DEF Prepare, r
  <2>3. ASSUME NEW s \in Submission, NEW retry \in BOOLEAN, Manage(h, s, retry)
        PROVE  \E r \in Requests : Begun(r)
    <3>. DEFINE kind == IF retry THEN "retry" ELSE "update"
                r == Request(kind, "find", None, s, [triage |-> "triaged"])
    <3>1. [triage |-> "triaged"] # NoPatch /\ kind \in {"update", "retry"}
        BY DEF NoPatch
    <3>2. r \in Requests /\ Shape(r, submission) /\ r.pc # "create" /\ (r.pc \in Early \/ r.kind = "provision")
        BY <3>1, RequestShape
    <3>3. Begin(h, r)
        BY <2>3 DEF Manage
    <3>. HIDE DEF r
    <3>. QED
        BY <2>3, <3>2, <3>3 DEF Manage
  <2>. QED
      BY <2>1, <2>2, <2>3 DEF Administer
<1>2. asked' \in 0 .. MaxRequests
    BY <1>1, Bounds DEF FeedbackInv, TypeInv
<1>3. dialog' \in [Session -> Dialogs] /\ \A p \in Session : dialog'[p].sent \in {dialog[p].sent, None}
    BY <1>1 DEF FeedbackInv, TypeInv
<1>. QED
    BY <1>1, <1>2, <1>3, BeginKeeps

\* The limit: a request is let through when every count is below it, and is counted.
LEMMA LimitedStep ==
    ASSUME FeedbackAssumption, FeedbackInv, NEW h \in Slot, Limited(h) PROVE FeedbackInv'
<1>. DEFINE q == req[h]
            mine == {q.session, Ip}
            over == \E b \in mine : count[b] + 1 > Limit
            r == IF over THEN None ELSE [q EXCEPT !.pc = "save"]
<1>1. /\ q # None /\ q.pc = "limit"
      /\ count' = [b \in Bucket |-> IF b \in mine /\ count[b] <= Limit THEN count[b] + 1 ELSE count[b]]
      /\ UNCHANGED <<submission, linear, cache, asked, faults, raced, crowded>>
    BY DEF Limited, At
<1>2. q \in Requests /\ Shape(q, submission) /\ q.kind = "submit" /\ q.session \in Session
    BY <1>1, InHand DEF Shape
<1>3. req' = [req EXCEPT ![h] = r] /\ dialog' \in [Session -> Dialogs]
      /\ \A p \in Session : \/ dialog'[p].sent \in {dialog[p].sent, None}
                            \/ submission'[dialog'[p].sent] # None
  <2>1. CASE over
    <3>1. Answer(h, FALSE)
        BY <2>1 DEF Limited
    <3>. QED
        BY <1>1, <2>1, <3>1, AnswerFacts
  <2>2. CASE ~over
    <3>1. req' = [req EXCEPT ![h] = r] /\ dialog' = dialog
        BY <2>2 DEF Limited, Goto
    <3>. QED
        BY <3>1 DEF FeedbackInv, TypeInv
  <2>. QED
      BY <2>1, <2>2
<1>4. /\ r # None => r \in Requests /\ r.pc = "save" /\ r.sub = q.sub /\ Shape(r, submission) /\ Owns(r, submission)
      /\ \A s : Held(q, s) = 0 /\ Held(r, s) = 0
  <2>. DEFINE t == [q EXCEPT !.pc = "save"]
  <2>1. /\ t \in Requests /\ t.pc = "save" /\ t.kind = q.kind /\ t.session = q.session /\ t.sub = q.sub
        /\ t.patch = q.patch
      BY <1>2 DEF Requests
  <2>. HIDE DEF t
  <2>2. Shape(t, submission) /\ Owns(t, submission) /\ (\A s : Held(t, s) = 0)
      BY <1>1, <1>2, <2>1 DEF Shape, Owns, Held, Early
  <2>3. \A s : Held(q, s) = 0 /\ Held(None, s) = 0
      BY <1>1 DEF Held
  <2>. HIDE DEF over
  <2>. QED
      BY <2>1, <2>2, <2>3 DEF t
<1>5. accepted' = IF over THEN accepted
                  ELSE [b \in Bucket |-> accepted[b] + IF b \in mine THEN 1 ELSE 0]
    BY DEF Limited
<1>6. mine \subseteq Bucket /\ Limit \in Nat /\ faults \in Nat
    BY <1>2, Bounds DEF Bucket
<1>7. \A b \in Bucket : count[b] \in Nat /\ accepted[b] \in Nat /\ accepted[b] <= count[b] /\ accepted[b] <= Limit
    BY DEF FeedbackInv, TypeInv, KeptInv
<1>. HIDE DEF r, mine
<1>8. \A b \in Bucket : /\ count'[b] \in Nat /\ accepted'[b] \in Nat
                        /\ accepted'[b] <= count'[b] /\ accepted'[b] <= Limit
  <2>. SUFFICES ASSUME NEW b \in Bucket
                PROVE  /\ count'[b] \in Nat /\ accepted'[b] \in Nat
                       /\ accepted'[b] <= count'[b] /\ accepted'[b] <= Limit
      OBVIOUS
  <2>1. count'[b] = IF b \in mine /\ count[b] <= Limit THEN count[b] + 1 ELSE count[b]
      BY <1>1
  <2>2. CASE over
      BY <1>5, <1>6, <1>7, <2>1, <2>2
  <2>3. CASE ~over
    <3>1. accepted'[b] = accepted[b] + IF b \in mine THEN 1 ELSE 0
        BY <1>5, <2>3
    <3>2. b \in mine => ~(count[b] + 1 > Limit)
        BY <2>3
    <3>. QED
        BY <1>6, <1>7, <2>1, <3>1, <3>2
  <2>. QED
      BY <2>2, <2>3
<1>9. count' \in [Bucket -> Nat] /\ accepted' \in [Bucket -> Nat]
  <2>1. DOMAIN count' = Bucket /\ DOMAIN accepted' = Bucket
      BY <1>1, <1>5 DEF FeedbackInv, TypeInv
  <2>2. count' = [b \in Bucket |-> count'[b]] /\ accepted' = [b \in Bucket |-> accepted'[b]]
      BY <1>1, <1>5 DEF FeedbackInv, TypeInv
  <2>. QED
      BY <1>8, <2>2
<1>10. r \in Requests \cup {None}
    BY <1>4
<1>11. TypeInv'
    BY <1>1, <1>3, <1>9, <1>10 DEF FeedbackInv, TypeInv
<1>12. ReqInv' /\ Apart'
    BY <1>1, <1>3, <1>4, SameKeeps
<1>13. IssuesAccounted'
  <2>1. faults' \in Nat /\ linear'.issues \in [Submission -> Nat] /\ raced \subseteq raced'
      BY <1>1, <1>6 DEF FeedbackInv, TypeInv
  <2>. QED
      BY <1>1, <1>3, <1>4, <1>6, <2>1, Idle, AccountKeeps, ZenonT(40)
<1>14. BaselineInv'
  <2>1. /\ linear'.baseline = linear.baseline /\ cache' \in {cache, "expired"}
        /\ faults' \in Nat /\ faults <= faults' /\ (crowded => crowded')
      BY <1>1, <1>6
  <2>2. r # None => r.pc # "create"
      BY <1>4
  <2>. QED
      BY <1>3, <1>6, <2>1, <2>2, BaselineKeeps
<1>15. KeptInv'
  <2>1. \A p \in Session : dialog[p].sent \in Submission \cup {None}
      BY DEF FeedbackInv, TypeInv, Dialogs
  <2>. QED
      BY <1>1, <1>3, <1>8, <2>1 DEF FeedbackInv, KeptInv
<1>. QED
    BY <1>11, <1>12, <1>13, <1>14, <1>15 DEF FeedbackInv

\* A record is new: whoever asked for its identifier before races with it.
LEMMA SaveStep ==
    ASSUME FeedbackAssumption, FeedbackInv, NEW h \in Slot, Save(h) PROVE FeedbackInv'
<1>. DEFINE q == req[h]
<1>1. PICK s \in Submission :
          /\ submission[s] = None /\ submission' = [submission EXCEPT ![s] = NewRecord]
          /\ req' = [req EXCEPT ![h] = Synced([@ EXCEPT !.sub = s, !.copy = NewRecord])]
          /\ raced' = raced \cup {t \in {s} : \E g \in Others(h) : req[g].sub = t}
    BY DEF Save
<1>2. /\ q # None /\ q.pc = "save"
      /\ UNCHANGED <<linear, cache, count, dialog, asked, faults, accepted, crowded>>
    BY DEF Save, At
<1>. DEFINE u == [q EXCEPT !.sub = s, !.copy = NewRecord]
            r == Synced(u)
<1>3. q \in Requests /\ q.kind = "submit" /\ q.session \in Session
    BY <1>2, InHand DEF Shape
<1>4. NewRecord \in Records /\ NewRecord # None /\ ~NewRecord.issue
  <2>1. NewRecord \in Records /\ ~NewRecord.issue
      BY DEF NewRecord, Records
  <2>. QED
      BY <2>1, Bounds
<1>5. req' = [req EXCEPT ![h] = r] /\ submission \in [Submission -> Records \cup {None}]
    BY <1>1 DEF FeedbackInv, TypeInv
<1>6. /\ submission' \in [Submission -> Records \cup {None}] /\ submission'[s] = NewRecord
      /\ \A t \in Submission : t # s => submission'[t] = submission[t]
      /\ \A t \in Submission : submission[t] # None => submission'[t] # None
    BY <1>1, <1>4, <1>5
<1>7. /\ u \in Requests /\ u.kind = q.kind /\ u.session = q.session /\ u.sub = s /\ u.copy = NewRecord
    BY <1>3, <1>4 DEF Requests
<1>. HIDE DEF u
<1>8. Handled(u, submission')
    BY <1>3, <1>4, <1>6, <1>7 DEF Handled
<1>9. /\ Shape(r, submission') /\ r.sub = s /\ r.pc # "create" /\ Owns(r, submission')
      /\ \A t : Held(r, t) = 0
    BY <1>6, <1>7, <1>8, SyncedShape
<1>10. \A t : Held(q, t) = 0
    BY <1>2 DEF Held
<1>. HIDE DEF r
<1>11. raced' \subseteq Submission /\ raced \subseteq raced' /\ r \in Requests
    BY <1>1, <1>9 DEF FeedbackInv, TypeInv, Shape
<1>12. TypeInv'
    BY <1>2, <1>5, <1>6, <1>11 DEF FeedbackInv, TypeInv
<1>13. ReqInv' /\ Apart'
  <2>1. \A g \in Others(h) : crowded' /\ (req[g].sub = s => s \in raced')
      BY <1>1, <1>2 DEF FeedbackInv, Apart, Others
  <2>2. \A t \in Submission : \/ submission'[t] = submission[t]
                              \/ \A g \in Others(h) : req[g].sub = t => t \in raced'
      BY <1>6, <2>1
  <2>. QED
      BY <1>2, <1>5, <1>6, <1>9, <1>11, <2>1, <2>2, RequestKeeps
<1>14. IssuesAccounted'
  <2>1. \A t \in Submission : linear.issues[t] \in Nat /\ Noted(submission[t]) \in Nat
                              /\ Noted(submission'[t]) = Noted(submission[t])
    <3>1. Noted(submission'[s]) = 0 /\ Noted(submission[s]) = 0
        BY <1>1, <1>4, <1>6 DEF Noted
    <3>. QED
        BY <1>6, <3>1 DEF FeedbackInv, TypeInv, Noted
  <2>2. \A t \in Submission \ raced' :
            linear'.issues[t] + faults + Held(q, t) + Noted(submission[t])
                <= linear.issues[t] + faults' + Held(r, t) + Noted(submission'[t])
      BY <1>2, <1>9, <1>10, <2>1, Bounds
  <2>3. faults \in Nat /\ faults' \in Nat /\ linear'.issues \in [Submission -> Nat]
      BY <1>2, Bounds DEF FeedbackInv, TypeInv
  <2>. QED
      BY <1>5, <1>11, <2>2, <2>3, AccountKeeps
<1>15. BaselineInv'
  <2>1. /\ linear'.baseline = linear.baseline /\ cache' \in {cache, "expired"}
        /\ faults \in Nat /\ faults' \in Nat /\ faults <= faults' /\ (crowded => crowded')
      BY <1>2, Bounds
  <2>. QED
      BY <1>5, <1>9, <2>1, BaselineKeeps
<1>16. KeptInv'
    BY <1>2, <1>6, KeptKeeps
<1>. QED
    BY <1>12, <1>13, <1>14, <1>15, <1>16 DEF FeedbackInv

\* A request on its way through the labels and the baseline issue.
LEMMA SyncingKeeps ==
    ASSUME FeedbackAssumption, FeedbackInv, NEW h \in Slot, req[h] # None, req[h].pc \in {"baseline", "create"},
           NEW pc \in {"create", "issue", "reply"},
           IF req[h].kind = "provision" THEN pc # "issue" ELSE pc # "reply",
           req' = [req EXCEPT ![h].pc = pc], UNCHANGED <<submission, count, dialog, asked, accepted, raced, crowded>>,
           linear' \in [issues : [Submission -> Nat], baseline : Nat], linear'.issues = linear.issues,
           cache' \in {"expired", "has", "lacks"}, faults' \in 0 .. MaxFaults, faults <= faults'
    PROVE  TypeInv' /\ ReqInv' /\ Apart' /\ IssuesAccounted' /\ KeptInv'
<1>. DEFINE q == req[h]
            r == [q EXCEPT !.pc = pc]
<1>1. /\ q \in Requests /\ Shape(q, submission)
      /\ q.sub \in Submission \ raced => Owns(q, submission)
    BY InHand
<1>2. /\ r \in Requests /\ r.pc = pc /\ r.kind = q.kind /\ r.session = q.session /\ r.sub = q.sub
      /\ r.copy = q.copy /\ r.patch = q.patch
    BY <1>1 DEF Requests
<1>3. req' = [req EXCEPT ![h] = r]
    BY DEF FeedbackInv, TypeInv
<1>. HIDE DEF r
<1>4. Shape(r, submission)
    BY <1>1, <1>2 DEF Shape, Early
<1>5. r.sub \in Submission \ raced => Owns(r, submission)
    BY <1>1, <1>2 DEF Owns
<1>6. \A s : Held(q, s) = 0 /\ Held(r, s) = 0
    BY <1>2 DEF Held
<1>7. TypeInv'
    BY <1>2, <1>3 DEF FeedbackInv, TypeInv
<1>8. ReqInv' /\ Apart'
    BY <1>2, <1>3, <1>4, <1>5, SameKeeps
<1>9. IssuesAccounted'
  <2>1. \A s \in Submission : linear.issues[s] \in Nat /\ Noted(submission[s]) \in Nat
      BY DEF FeedbackInv, TypeInv, Noted
  <2>2. faults \in Nat /\ faults' \in Nat /\ linear'.issues \in [Submission -> Nat] /\ raced \subseteq raced'
      BY Bounds
  <2>3. \A s \in Submission \ raced' :
            linear'.issues[s] + faults + Held(q, s) + Noted(submission[s])
                <= linear.issues[s] + faults' + Held(r, s) + Noted(submission'[s])
      BY <1>6, <2>1, <2>2
  <2>. QED
      BY <1>3, <2>2, <2>3, AccountKeeps
<1>10. KeptInv'
    BY KeptKeeps
<1>. QED
    BY <1>7, <1>8, <1>9, <1>10

\* Without overlapping requests, the one that has found no baseline issue is the only one
\* that makes one.
LEMMA BaselineStep ==
    ASSUME FeedbackAssumption, FeedbackInv, NEW h \in Slot,
           Baseline(h) \/ CreateBaseline(h) \/ BaselineLost(h)
    PROVE  FeedbackInv'
<1>. DEFINE next == IF req[h].kind = "provision" THEN "reply" ELSE "issue"
<1>1. /\ linear.baseline \in Nat /\ faults \in Nat /\ linear \in [issues : [Submission -> Nat], baseline : Nat]
      /\ req \in [Slot -> Requests \cup {None}] /\ cache \in {"expired", "has", "lacks"}
      /\ MaxFaults \in Nat /\ faults \in 0 .. MaxFaults
    BY Bounds DEF FeedbackInv, TypeInv
<1>2. ~crowded => \A g \in Slot : g # h /\ req[h] # None => req[g] = None
    BY DEF FeedbackInv, Apart
<1>3. ~crowded => /\ linear.baseline <= 1 + faults
                  /\ cache = "lacks" => linear.baseline <= faults
                  /\ \A g \in Slot : At(g, "create") => linear.baseline <= faults
    BY DEF FeedbackInv, BaselineInv
<1>4. CASE Baseline(h)
  <2>. DEFINE known == IF cache = "expired" THEN linear.baseline > 0 ELSE cache = "has"
              pc == IF known THEN next ELSE "create"
  <2>1. /\ req[h] # None /\ req[h].pc = "baseline" /\ cache' = IF known THEN "has" ELSE "lacks"
        /\ req' = [req EXCEPT ![h].pc = pc]
        /\ UNCHANGED <<submission, linear, count, dialog, asked, faults, accepted, raced, crowded>>
      BY <1>4 DEF Baseline, At, Goto, Onward
  <2>2. /\ linear' \in [issues : [Submission -> Nat], baseline : Nat] /\ linear'.issues = linear.issues
        /\ faults' \in 0 .. MaxFaults /\ faults <= faults' /\ cache' \in {"expired", "has", "lacks"}
      BY <1>1, <2>1
  <2>3. pc \in {"create", "issue", "reply"} /\ IF req[h].kind = "provision" THEN pc # "issue" ELSE pc # "reply"
      OBVIOUS
  <2>. HIDE DEF pc
  <2>4. TypeInv' /\ ReqInv' /\ Apart' /\ IssuesAccounted' /\ KeptInv'
      BY <2>1, <2>2, <2>3, SyncingKeeps
  <2>5. BaselineInv'
    <3>. SUFFICES ASSUME ~crowded
                  PROVE  /\ linear.baseline <= 1 + faults
                         /\ cache' = "lacks" => linear.baseline <= faults
                         /\ \A g \in Slot : At(g, "create")' => linear.baseline <= faults
        BY <2>1 DEF BaselineInv
    <3>1. ~known => linear.baseline <= faults
        BY <1>1, <1>3
    <3>2. \A g \in Slot : At(g, "create")' => At(g, "create") \/ ~known
      <4>1. \A g \in Slot : g # h => req'[g] = req[g]
          BY <1>1, <2>1
      <4>2. At(h, "create")' => ~known
          BY <1>1, <2>1 DEF At, pc
      <4>. QED
          BY <4>1, <4>2 DEF At
    <3>. HIDE DEF known
    <3>. QED
        BY <1>3, <2>1, <3>1, <3>2
  <2>. QED
      BY <2>4, <2>5 DEF FeedbackInv
<1>5. ASSUME NEW made \in {0, 1}, NEW fault \in {0, 1}, fault = 1 \/ cache' = "has",
             At(h, "create"), linear' = [linear EXCEPT !.baseline = @ + made], faults' = faults + fault,
             faults' \in 0 .. MaxFaults, cache' \in {cache, "has"}, Onward(h),
             UNCHANGED <<submission, count, dialog, asked, accepted, raced, crowded>>
      PROVE  FeedbackInv'
  <2>1. req[h] # None /\ req[h].pc = "create" /\ req' = [req EXCEPT ![h].pc = next]
      BY <1>5 DEF At, Goto, Onward
  <2>2. /\ linear' \in [issues : [Submission -> Nat], baseline : Nat] /\ linear'.issues = linear.issues
        /\ linear'.baseline = linear.baseline + made
        /\ faults' \in 0 .. MaxFaults /\ faults <= faults' /\ cache' \in {"expired", "has", "lacks"}
      BY <1>1, <1>5
  <2>3. next \in {"issue", "reply"} /\ IF req[h].kind = "provision" THEN next # "issue" ELSE next # "reply"
      OBVIOUS
  <2>. HIDE DEF next
  <2>4. TypeInv' /\ ReqInv' /\ Apart' /\ IssuesAccounted' /\ KeptInv'
      BY <1>5, <2>1, <2>2, <2>3, SyncingKeeps
  <2>5. BaselineInv'
    <3>. SUFFICES ASSUME ~crowded
                  PROVE  /\ linear'.baseline <= 1 + faults'
                         /\ cache' = "lacks" => linear'.baseline <= faults'
                         /\ \A g \in Slot : At(g, "create")' => linear'.baseline <= faults'
        BY <1>5 DEF BaselineInv
    <3>1. linear.baseline <= faults
        BY <1>3, <1>5
    <3>2. linear'.baseline <= 1 + faults' /\ (cache' = "lacks" => linear'.baseline <= faults')
        BY <1>1, <1>5, <2>2, <3>1
    <3>3. \A g \in Slot : ~At(g, "create")'
        BY <1>1, <1>2, <2>1, <2>3 DEF At
    <3>. QED
        BY <3>2, <3>3
  <2>. QED
      BY <2>4, <2>5 DEF FeedbackInv
<1>6. CASE CreateBaseline(h)
  <2>1. faults' = faults + 0 /\ faults' \in 0 .. MaxFaults
      BY <1>1, <1>6 DEF CreateBaseline
  <2>. QED
      BY <1>5, <1>6, <2>1 DEF CreateBaseline
<1>7. CASE BaselineLost(h)
  <2>1. faults' = faults + 1 /\ faults' \in 0 .. MaxFaults
      BY <1>7, Granted DEF BaselineLost
  <2>2. PICK made \in {0, 1} : linear' = [linear EXCEPT !.baseline = @ + made]
      BY <1>7 DEF BaselineLost
  <2>. QED
      BY <1>5, <1>7, <2>1, <2>2 DEF BaselineLost
<1>. QED
    BY <1>4, <1>6, <1>7

\* The dialog opens and closes, a window ends, the copy of the list gets old.
LEMMA RestStep ==
    ASSUME FeedbackAssumption, FeedbackInv,
           \/ \E p \in Session : Open(p) \/ Close(p) \/ TimerFires(p)
           \/ \E b \in Bucket : WindowEnds(b)
           \/ CacheExpires
    PROVE  FeedbackInv'
<1>1. UNCHANGED <<submission, linear, req, asked, faults, raced, crowded>> /\ cache' \in {cache, "expired"}
    BY DEF Open, Close, TimerFires, WindowEnds, CacheExpires
<1>. DEFINE Told == /\ dialog' \in [Session -> Dialogs]
                    /\ \A p \in Session : dialog'[p].sent = dialog[p].sent
            Counted == /\ count' \in [Bucket -> Nat] /\ accepted' \in [Bucket -> Nat]
                       /\ \A b \in Bucket : accepted'[b] <= count'[b] /\ accepted'[b] <= Limit
<1>2. Told
  <2>1. ASSUME NEW p \in Session, Open(p) \/ Close(p) \/ TimerFires(p) PROVE Told
    <3>1. PICK timer \in BOOLEAN, open \in BOOLEAN :
              dialog' = [dialog EXCEPT ![p] = [dialog[p] EXCEPT !.timer = timer, !.open = open]]
      <4>1. dialog \in [Session -> Dialogs] /\ dialog[p].timer \in BOOLEAN /\ dialog[p].open \in BOOLEAN
          BY DEF FeedbackInv, TypeInv, Dialogs
      <4>2. CASE Open(p) \/ Close(p)
          BY <4>1, <4>2 DEF Open, Close, Dialogs
      <4>3. CASE TimerFires(p)
          BY <4>1, <4>3 DEF TimerFires, Dialogs
      <4>. QED
          BY <2>1, <4>2, <4>3
    <3>2. dialog \in [Session -> Dialogs]
        BY DEF FeedbackInv, TypeInv
    <3>. QED
        BY <3>1, <3>2 DEF Dialogs
  <2>2. ASSUME dialog' = dialog PROVE Told
      BY <2>2 DEF FeedbackInv, TypeInv
  <2>. QED
      BY <2>1, <2>2 DEF WindowEnds, CacheExpires
<1>3. Counted
  <2>1. /\ count \in [Bucket -> Nat] /\ accepted \in [Bucket -> Nat] /\ Limit \in Nat
        /\ \A b \in Bucket : accepted[b] <= count[b] /\ accepted[b] <= Limit
      BY Bounds DEF FeedbackInv, TypeInv, KeptInv
  <2>2. ASSUME NEW b \in Bucket, WindowEnds(b) PROVE Counted
      BY <2>1, <2>2 DEF WindowEnds
  <2>3. ASSUME count' = count, accepted' = accepted PROVE Counted
      BY <2>1, <2>3
  <2>. QED
      BY <2>2, <2>3 DEF Open, Close, TimerFires, CacheExpires
<1>4. TypeInv'
    BY <1>1, <1>2, <1>3 DEF FeedbackInv, TypeInv
<1>5. ReqInv' /\ Apart'
    BY <1>1 DEF FeedbackInv, ReqInv, Apart
<1>6. IssuesAccounted'
    BY <1>1 DEF FeedbackInv, IssuesAccounted, Unstored
<1>7. BaselineInv'
    BY <1>1 DEF FeedbackInv, BaselineInv, At
<1>8. KeptInv'
    BY <1>1, <1>2, <1>3 DEF FeedbackInv, KeptInv
<1>. QED
    BY <1>4, <1>5, <1>6, <1>7, <1>8 DEF FeedbackInv

LEMMA InitFeedback ==
    ASSUME FeedbackAssumption PROVE Init => FeedbackInv
<1>. SUFFICES ASSUME Init PROVE FeedbackInv
    OBVIOUS
<1>1. TypeInv
  <2>1. 0 \in 0 .. MaxRequests /\ 0 \in 0 .. MaxFaults
      BY DEF FeedbackAssumption
  <2>2. Closed \in Dialogs
      BY DEF Closed, Dialogs
  <2>. QED
      BY <2>1, <2>2 DEF Init, TypeInv
<1>2. ReqInv /\ Apart
    BY DEF Init, ReqInv, Apart
<1>3. IssuesAccounted
  <2>1. \A s \in Submission : Unstored(s) = {} /\ linear.issues[s] = 0 /\ submission[s] = None
      BY DEF Init, Unstored
  <2>. QED
      BY <2>1, FS_EmptySet, SMTT(30) DEF Init, IssuesAccounted
<1>4. BaselineInv
    BY DEF Init, BaselineInv, At
<1>5. KeptInv
  <2>1. 0 <= Limit
      BY DEF FeedbackAssumption
  <2>. QED
      BY <2>1 DEF Init, KeptInv, Closed
<1>. QED
    BY <1>1, <1>2, <1>3, <1>4, <1>5 DEF FeedbackInv

LEMMA StepFeedback ==
    ASSUME FeedbackAssumption, FeedbackInv, [Next]_vars PROVE FeedbackInv'
<1>1. CASE UNCHANGED vars
    BY <1>1 DEF vars, FeedbackInv, TypeInv, ReqInv, Apart, IssuesAccounted, Unstored, BaselineInv, At, KeptInv
<1>2. ASSUME NEW h \in Slot, Step(h) PROVE FeedbackInv'
    BY <1>2, LimitedStep, SaveStep, FindStep, LoadStep, StoreStep, BaselineStep, CreateIssueStep,
       IssueLostStep, ReplyStep, FailsStep DEF Step
<1>3. ASSUME NEW h \in Slot, Administer(h) PROVE FeedbackInv'
    BY <1>3, AdministerStep
<1>4. ASSUME NEW p \in Session, Player(p) PROVE FeedbackInv'
    BY <1>4, SendStep, RestStep DEF Player
<1>5. ASSUME NEW b \in Bucket, WindowEnds(b) PROVE FeedbackInv'
    BY <1>5, RestStep
<1>6. CASE CacheExpires
    BY <1>6, RestStep
<1>. QED
    BY <1>1, <1>2, <1>3, <1>4, <1>5, <1>6 DEF Next

-----------------------------------------------------------------------------
(* Theorems *)

\* Whatever the requests of players and administrators read and write at the same time, and
\* whichever calls fail, records and requests stay what _store.js can read: no update
\* writes a record that was never saved.
THEOREM FeedbackTypes == ASSUME FeedbackAssumption PROVE Spec => []FeedbackTypeOK
<1>1. Init => FeedbackInv
    BY InitFeedback
<1>2. FeedbackInv /\ [Next]_vars => FeedbackInv'
    BY StepFeedback
<1>3. FeedbackInv => FeedbackTypeOK
    BY DEF FeedbackInv, TypeInv, FeedbackTypeOK
<1>. QED
    BY <1>1, <1>2, <1>3, PTL DEF Spec

\* Linear holds no issue of a submission that neither its record, nor a request about to
\* store it, nor a failed call accounts for, unless two requests handled the submission at
\* once (ensureFeedbackSubmissionSynced, updateFeedbackSubmission).
THEOREM IssuesAreAccounted == ASSUME FeedbackAssumption PROVE Spec => []IssuesAccounted
<1>1. Init => FeedbackInv
    BY InitFeedback
<1>2. FeedbackInv /\ [Next]_vars => FeedbackInv'
    BY StepFeedback
<1>3. FeedbackInv => IssuesAccounted
    BY DEF FeedbackInv
<1>. QED
    BY <1>1, <1>2, <1>3, PTL DEF Spec

\* As long as no two requests overlap, a game has one baseline issue and one more for each
\* call whose answer was lost, however old the copy of the list is that
\* ensureBaselineIssueForGame looks at.
THEOREM BaselineIsAccounted == ASSUME FeedbackAssumption PROVE Spec => []BaselineAccounted
<1>1. Init => FeedbackInv
    BY InitFeedback
<1>2. FeedbackInv /\ [Next]_vars => FeedbackInv'
    BY StepFeedback
<1>3. FeedbackInv => BaselineAccounted
    BY DEF FeedbackInv, BaselineInv, BaselineAccounted
<1>. QED
    BY <1>1, <1>2, <1>3, PTL DEF Spec

\* However requests overlap, no window lets more submissions of a session or an address
\* through than the limit (enforceFeedbackRateLimit), and a form that the dialog reports
\* as sent is in the store.
THEOREM SubmissionsAreKept == ASSUME FeedbackAssumption PROVE Spec => []SubmissionsKept
<1>1. Init => FeedbackInv
    BY InitFeedback
<1>2. FeedbackInv /\ [Next]_vars => FeedbackInv'
    BY StepFeedback
<1>3. FeedbackInv => SubmissionsKept
    BY DEF FeedbackInv, KeptInv, SubmissionsKept
<1>. QED
    BY <1>1, <1>2, <1>3, PTL DEF Spec
=============================================================================
