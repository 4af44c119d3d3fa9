------------------------------ MODULE Outcomes ------------------------------
(****************************************************************************)
(* The outcomes of matches (src/api/telemetry, src/src/core/outcomes.js):   *)
(* every instance of the server limits the reports it takes and adds those  *)
(* to the day's aggregate of the game, in a transaction of Firestore that   *)
(* is tried again when another one was first.                               *)
(****************************************************************************)
EXTENDS Integers, Sequences, FiniteSets, SequencesExt

CONSTANTS
  Instance, None,
  Value, Low, High,        \* what a match may report of a metric, and the contract's range
  PerWindow, Window,       \* MAX_PER_WINDOW, WINDOW_MS
  MaxReports, MaxTime      \* bounds
OutcomesAssumption ==
  /\ Value \subseteq Int /\ {Low, High, PerWindow, Window} \subseteq Nat /\ Low <= High /\ Window > 0

VARIABLES
  now,
  bucket,     \* the aggregate of the day
  attempt,    \* the transaction of each instance: its outcome and what it read, or None
  limiter,    \* of each instance
  taken,      \* when each instance let a report pass (a record for the properties)
  committed,  \* the outcomes whose reports were answered 202 (a record for the properties)
  reports
vars == <<now, bucket, attempt, limiter, taken, committed, reports>>

Results == {"completed", "lost", "abandoned"}
Reported == [result : Results, value : Value]
Empty == [outcomes |-> 0, results |-> [r \in Results |-> 0], count |-> 0, sum |-> 0, min |-> None, max |-> None]

\* clampMetric: in the page, and again in the server.
Clamped(v) == CASE v < Low -> Low [] v > High -> High [] v >= Low /\ v <= High -> v

\* normalizeGameOutcome, normalizeOutcome
Normalized(o) == [o EXCEPT !.value = Clamped(Clamped(@))]

\* applyOutcome
Least(a, b) == IF a = None \/ b < a THEN b ELSE a
Most(a, b) == IF a = None \/ b > a THEN b ELSE a
Applied(b, o) ==
  [outcomes |-> b.outcomes + 1, results |-> [b.results EXCEPT ![o.result] = @ + 1],
   count |-> b.count + 1, sum |-> b.sum + o.value, min |-> Least(b.min, o.value), max |-> Most(b.max, o.value)]

Init ==
  /\ now = 0 /\ bucket = Empty /\ attempt = [i \in Instance |-> None]
  /\ limiter = [i \in Instance |-> [startedAt |-> 0, count |-> 0]] /\ taken = [i \in Instance |-> <<>>]
  /\ committed = <<>> /\ reports = 0

OutcomesTypeOK ==
  /\ now \in 0..MaxTime /\ {bucket.outcomes, bucket.count, bucket.sum} \subseteq Nat
  /\ {bucket.min, bucket.max} \ {None} \subseteq Low..High /\ committed \in Seq([result : Results, value : Low..High])
  /\ \A i \in Instance : limiter[i] \in [startedAt : Nat, count : Nat] /\ taken[i] \in Seq(Nat)
                         /\ attempt[i] # None => attempt[i].outcome \in [result : Results, value : Low..High]

Tick ==
  /\ now < MaxTime /\ now' = now + 1
  /\ UNCHANGED <<bucket, attempt, limiter, taken, committed, reports>>

\* acceptRate
Renewed(l) == IF now - l.startedAt >= Window THEN [startedAt |-> now, count |-> 1] ELSE [l EXCEPT !.count = @ + 1]

\* Slip: the report that reaches the limit passes once more.
PassesOneMore(l) == l.count <= PerWindow + 1

Passes(l) == l.count <= PerWindow

\* reportGameOutcome, handleTelemetryOutcome: a page reports to some instance.
Report(i, o) ==
  /\ attempt[i] = None /\ reports < MaxReports /\ reports' = reports + 1
  /\ limiter' = [limiter EXCEPT ![i] = Renewed(@)]
  /\ IF Passes(limiter'[i])
     THEN /\ attempt' = [attempt EXCEPT ![i] = [outcome |-> Normalized(o), read |-> bucket]]
          /\ taken' = [taken EXCEPT ![i] = Append(@, now)]
     ELSE UNCHANGED <<attempt, taken>>
  /\ UNCHANGED <<now, bucket, committed>>

\* Slip: without a transaction, what was read is what is added to.
SettlesBlind(i) == bucket' = Applied(attempt[i].read, attempt[i].outcome)

\* recordAggregateOutcome: only on what is there still.
Settles(i) == bucket = attempt[i].read /\ bucket' = Applied(bucket, attempt[i].outcome)

Commit(i) ==
  /\ attempt[i] # None /\ Settles(i) /\ committed' = Append(committed, attempt[i].outcome)
  /\ attempt' = [attempt EXCEPT ![i] = None] /\ UNCHANGED <<now, limiter, taken, reports>>

\* The transaction reads again, or fails in the end and nothing was counted.
Retry(i) ==
  /\ attempt[i] # None /\ bucket # attempt[i].read /\ attempt' = [attempt EXCEPT ![i].read = bucket]
  /\ UNCHANGED <<now, bucket, limiter, taken, committed, reports>>
Fails(i) ==
  /\ attempt[i] # None /\ attempt' = [attempt EXCEPT ![i] = None]
  /\ UNCHANGED <<now, bucket, limiter, taken, committed, reports>>

Next ==
  \/ Tick
  \/ \E i \in Instance : Commit(i) \/ Retry(i) \/ Fails(i)
  \/ \E i \in Instance, o \in Reported : Report(i, o)

Spec == Init /\ [][Next]_vars

\* Whichever instances took them, and however their transactions crossed, the aggregate is
\* that of the outcomes acknowledged, each once: their number, its split by result, the sum,
\* the least and the greatest of what they report; and the reports an instance let pass in
\* any one window's time are at most those of two windows, those of its own window at most
\* its limit (applyOutcome, recordAggregateOutcome, acceptRate).
AggregateOfAll ==
  /\ bucket.outcomes = Len(committed) /\ bucket.count = bucket.outcomes
  /\ \A r \in Results : bucket.results[r] = Cardinality({k \in 1..Len(committed) : committed[k].result = r})
  /\ bucket.sum = FoldLeft(LAMBDA sum, o : sum + o.value, 0, committed)
  /\ committed # <<>> => \A k \in 1..Len(committed) : bucket.min <= committed[k].value /\ committed[k].value <= bucket.max
  /\ \A i \in Instance :
       /\ \A t \in 0..MaxTime : Cardinality({k \in 1..Len(taken[i]) : taken[i][k] \in t..(t + Window - 1)}) <= 2 * PerWindow
       /\ Cardinality({k \in 1..Len(taken[i]) : taken[i][k] >= limiter[i].startedAt}) <= PerWindow
=============================================================================
