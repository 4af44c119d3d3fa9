------------------------------- MODULE Metrics -------------------------------
(****************************************************************************)
(* The events a browser counts for itself (src/src/core/metrics.js): a page *)
(* reads them from storage once, keeps its own list and writes all of it    *)
(* after each task in which it tracked something; the list is cut to the    *)
(* latest events, and summed up over the last days.                         *)
(****************************************************************************)
EXTENDS Integers, Sequences, FiniteSets, SequencesExt

CONSTANTS
  Page, Name, None,
  Most,                   \* MAX_METRIC_EVENTS
  Window,                 \* ticks a summary looks back
  MaxEvents, MaxTime      \* bounds
MetricsAssumption == {Most, Window, MaxEvents, MaxTime} \subseteq Nat \ {0}

VARIABLES
  now,
  stored,     \* "metrics" in the browser's storage
  memory,     \* memoryState of each page, or None
  queued,     \* saveQueued: the write at the end of the page's task
  tracked,    \* the events of each page since it last read or cleared (a record for the properties)
  last        \* events tracked in all
vars == <<now, stored, memory, queued, tracked, last>>

Event == [name : Name, ts : Nat, n : Nat]

\* Slip: the list is cut at the other end.
LatestFirst(events) == SubSeq(events, 1, IF Len(events) < Most THEN Len(events) ELSE Most)

\* slice(-MAX_METRIC_EVENTS)
Latest(events) == SubSeq(events, 1 + (IF Len(events) > Most THEN Len(events) - Most ELSE 0), Len(events))

\* getMetricsState
Current(p) == IF memory[p] = None THEN Latest(stored) ELSE memory[p]

\* summarizeKpiEvents
Recent(events) == SelectSeq(events, LAMBDA e : e.ts >= now - Window)
Counts(events) ==
  FoldLeft(LAMBDA counts, e : [counts EXCEPT ![e.name] = @ + 1], [x \in Name |-> 0], Recent(events))

Init ==
  /\ now = 0 /\ stored = <<>> /\ memory = [p \in Page |-> None] /\ queued = [p \in Page |-> FALSE]
  /\ tracked = [p \in Page |-> <<>>] /\ last = 0

Lists == {stored} \cup ({memory[p] : p \in Page} \ {None})
MetricsTypeOK ==
  /\ now \in 0..MaxTime /\ last \in 0..MaxEvents /\ \A l \in Lists : l \in Seq(Event) /\ Len(l) <= Most
  /\ \A p \in Page : queued[p] \in BOOLEAN /\ tracked[p] \in Seq(Event)

Tick == now < MaxTime /\ now' = now + 1 /\ UNCHANGED <<stored, memory, queued, tracked, last>>

\* A page is loaded, or loaded again; a write that was due is done by then.
Load(p) ==
  /\ ~queued[p] /\ memory' = [memory EXCEPT ![p] = None] /\ tracked' = [tracked EXCEPT ![p] = <<>>]
  /\ UNCHANGED <<now, stored, queued, last>>

\* getKpiDashboardSnapshot
Read(p) == memory[p] = None /\ memory' = [memory EXCEPT ![p] = Current(p)] /\ UNCHANGED <<now, stored, queued, tracked, last>>

\* trackKpiEvent
Track(p, name) ==
  LET e == [name |-> name, ts |-> now, n |-> last + 1] IN
  /\ last < MaxEvents /\ last' = last + 1 /\ memory' = [memory EXCEPT ![p] = Latest(Append(Current(p), e))]
  /\ queued' = [queued EXCEPT ![p] = TRUE] /\ tracked' = [tracked EXCEPT ![p] = Append(@, e)]
  /\ UNCHANGED <<now, stored>>

\* flushMetricsSave: at the end of the task, if there is still something to write.
Flush(p) ==
  /\ queued[p] /\ queued' = [queued EXCEPT ![p] = FALSE] /\ stored' = IF memory[p] = None THEN stored ELSE memory[p]
  /\ UNCHANGED <<now, memory, tracked, last>>

\* clearMetricsState
Clear(p) ==
  /\ memory' = [memory EXCEPT ![p] = None] /\ stored' = <<>> /\ tracked' = [tracked EXCEPT ![p] = <<>>]
  /\ UNCHANGED <<now, queued, last>>

Next ==
  \/ Tick
  \/ \E p \in Page : Load(p) \/ Read(p) \/ Flush(p) \/ Clear(p)
  \/ \E p \in Page, name \in Name : Track(p, name)

Spec == Init /\ [][Next]_vars

\* However the pages take turns, the list of a page holds the events it tracked since it was
\* loaded or cleared, the latest of them and in their order, and no event is counted twice;
\* its summary counts what happened in the last days, and with nothing left to write, what
\* another page reads is a list some page had (trackKpiEvent, summarizeKpiEvents).
EventsCounted ==
  /\ \A l \in Lists : \A i, j \in 1..Len(l) : i # j => l[i].n # l[j].n
  /\ \A p \in Page : memory[p] # None =>
       /\ IsSuffix(Latest(tracked[p]), memory[p]) \/ IsSuffix(memory[p], tracked[p])
       /\ \A name \in Name :
            Counts(memory[p])[name] =
              Cardinality({i \in 1..Len(memory[p]) : memory[p][i].name = name /\ memory[p][i].ts + Window >= now})
=============================================================================
