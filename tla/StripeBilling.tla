---------------------------- MODULE StripeBilling ----------------------------
(***************************************************************************)
(* Subscriptions and what the site stores of them.                          *)
(*                                                                          *)
(* Stripe owns the truth: the subscriptions of its customers.  The site     *)
(* keeps one billing profile per user and an index from customer to user    *)
(* (api/stripe/_store.js) and copies Stripe's listing into the profile from *)
(* four places that run at the same time: the webhook, the status request   *)
(* of a page, an administrator's reconcile and the nightly job.  Every save *)
(* is a read of the profile followed by a write of the whole of it, so a    *)
(* handler can put back what another has just replaced.                     *)
(*                                                                          *)
(* A request is one element of Slot (or JobSlot for the nightly job) and    *)
(* each of its steps ends where the code awaits.                            *)
(***************************************************************************)
EXTENDS Naturals, Sequences, FiniteSets, SequencesExt

CONSTANTS
    User,          \* accounts of the site
    Customer,      \* customer records Stripe can make
    Slot,          \* requests the site can be serving at once
    JobSlot,       \* the request of the nightly job that is being served
    None,
    Grace,         \* STRIPE_PAST_DUE_GRACE_DAYS
    PeriodEnd,     \* current_period_end of a listed subscription, 0 if it carries none
    MaxTime, MaxEvents, MaxCheckouts, MaxRequests, MaxFaults   \* bounds of the instance

ASSUME BillingAssumption ==
    /\ None \notin User \cup Customer
    /\ JobSlot \notin Slot
    /\ {Grace, PeriodEnd, MaxTime, MaxEvents, MaxCheckouts, MaxRequests, MaxFaults} \subseteq Nat
    /\ MaxTime # 0

VARIABLES
    now,       \* the clock
    subs,      \* Stripe: the statuses of each customer's subscriptions
    events,    \* Stripe: the events, in the order of their creation
    sessions,  \* Stripe: the checkout sessions
    acked,     \* Stripe: the events the site has answered with 200
    profile,   \* site: the stored profile of each user
    index,     \* site: the user of each customer
    marked,    \* site: the events marked as processed, with the customerBound of the answer
    req,       \* site: the requests being served
    batch,     \* nightly job: the users it has still to reconcile
    seen,      \* history: the newest listing of a customer that was stored
    spent,     \* requests of pages and administrators so far
    faults     \* failed awaits so far

stripe == <<subs, events, sessions>>
stored == <<profile, index>>
vars == <<now, stripe, acked, stored, marked, req, batch, seen, spent, faults>>

AllSlots == Slot \cup {JobSlot}
EventTypes == {"checkout", "failed", "paid", "deleted", "updated"}
NoStatus == ""
Statuses == {NoStatus, "active", "past_due", "canceled"}

NoBill == [status |-> NoStatus, premium |-> FALSE, failedAt |-> 0, grace |-> 0]
NewProfile == [cust |-> None, bill |-> NoBill]
Free == [kind |-> "none", pc |-> "free", user |-> None, cust |-> None, ev |-> 0, chk |-> 0,
         prof |-> NewProfile, new |-> NoBill, whole |-> FALSE, base |-> NewProfile,
         then |-> "done", ver |-> 0]

Bills == [status : Statuses, premium : BOOLEAN, failedAt : Nat, grace : Nat]
Profiles == [cust : Customer \cup {None}, bill : Bills]

-----------------------------------------------------------------------------
(* What a listing of subscriptions says                                     *)

Larger(a, b) == IF a >= b THEN a ELSE b

Rank == [s \in Statuses |-> CASE s = "active" -> 7 [] s = "past_due" -> 5
                              [] s = "canceled" -> 1 [] OTHER -> 0]

\* The end of the grace of a subscription: only past_due has one; a grace that
\* still runs is kept, else it is counted from the failure that is on record,
\* else from the end of the period, else from now.
DeriveGrace(s, bill) ==
    CASE s # "past_due"     -> 0
      [] bill.grace > now   -> bill.grace
      [] bill.failedAt > 0  -> bill.failedAt + Grace
      [] PeriodEnd > 0      -> PeriodEnd + Grace
      [] OTHER              -> now + Grace

Entitled(s, grace) == s = "active" \/ (s = "past_due" /\ grace > now)

\* The summary of a listing: entitled when some subscription is, the rest from
\* the subscription of the highest rank.
Summary(list, bill) ==
    LET primary == CHOOSE s \in ToSet(list) : \A o \in ToSet(list) : Rank[o] <= Rank[s]
    IN  IF list = <<>>
        THEN [NoBill EXCEPT !.failedAt = bill.failedAt]
        ELSE [status   |-> primary,
              premium  |-> \E s \in ToSet(list) : Entitled(s, DeriveGrace(s, bill)),
              failedAt |-> bill.failedAt,
              grace    |-> DeriveGrace(primary, bill)]

\* What an event adds to the summary.  named: the invoice names its
\* subscription by a string.  The entitlement is not computed again.
ApplyEvent(sum, ev, bill, named) ==
    LET failedAt == IF sum.failedAt > 0 THEN sum.failedAt ELSE bill.failedAt
        grace    == IF sum.grace > 0 THEN sum.grace ELSE bill.grace
    IN  CASE ev.type = "failed" ->
               [sum EXCEPT !.failedAt = ev.at,
                           !.grace = IF sum.status = "past_due" \/ named
                                     THEN Larger(grace, ev.at + Grace) ELSE grace]
          [] ev.type \in {"paid", "deleted"} ->
               [sum EXCEPT !.failedAt = 0, !.grace = 0]
          [] OTHER ->
               [sum EXCEPT !.failedAt = IF sum.status = "active" THEN 0 ELSE failedAt,
                           !.grace = IF sum.status = "past_due" THEN grace ELSE 0]

-----------------------------------------------------------------------------
Init ==
    /\ now = 1
    /\ subs = [c \in Customer |-> <<>>]
    /\ events = <<>> /\ sessions = <<>> /\ acked = {}
    /\ profile = [u \in User |-> NewProfile]
    /\ index = [c \in Customer |-> None]
    /\ marked = <<>>
    /\ req = [h \in AllSlots |-> Free]
    /\ batch = {}
    /\ seen = [c \in Customer |-> 0]
    /\ spent = 0 /\ faults = 0

(* Stripe                                                                    *)

Emit(c, type) ==
    /\ Len(events) < MaxEvents
    /\ events' = Append(events, [cust |-> c, type |-> type, at |-> now])
    /\ marked' = Append(marked, "no")

\* A checkout session is paid: by the customer it names, or by a new one.
Pay(n) ==
    /\ ~sessions[n].paid
    /\ \E c \in Customer :
         /\ IF sessions[n].cust # None THEN c = sessions[n].cust ELSE subs[c] = <<>>
         /\ subs' = [subs EXCEPT ![c] = Append(@, "active")]
         /\ sessions' = [sessions EXCEPT ![n].cust = c, ![n].paid = TRUE]
         /\ Emit(c, "checkout")
    /\ UNCHANGED <<now, acked, stored, req, batch, seen, spent, faults>>

\* An invoice fails or is paid, a subscription is ended or edited.
Change(c, i, type) ==
    /\ subs[c][i] # "canceled"
    /\ subs' = [subs EXCEPT ![c][i] = CASE type = "failed"  -> "past_due"
                                        [] type = "paid"    -> "active"
                                        [] type = "deleted" -> "canceled"
                                        [] OTHER            -> @]
    /\ Emit(c, type)
    /\ UNCHANGED <<now, sessions, acked, stored, req, batch, seen, spent, faults>>

Tick == now < MaxTime /\ now' = now + 1
        /\ UNCHANGED <<stripe, acked, stored, marked, req, batch, seen, spent, faults>>

-----------------------------------------------------------------------------
(* Steps every handler is made of                                            *)

Continue(h, r) == req' = [req EXCEPT ![h] = IF r.pc = "done" THEN Free ELSE r]

\* The start of a save: the patch is the customer, and the billing state too
\* when it is whole; then is where the handler goes on after the write.
Saving(r, whole, then) == [r EXCEPT !.pc = "load", !.whole = whole, !.then = then]

Load(h) ==
    /\ req[h].pc = "load"
    /\ Continue(h, [req[h] EXCEPT !.pc = "store",
                       !.base = IF req[h].whole THEN NewProfile ELSE profile[req[h].user]])
    /\ UNCHANGED <<now, stripe, acked, stored, marked, batch, seen, spent, faults>>

\* Mutant: The patch is stored by itself.
MergedBare(r) == [cust |-> r.cust, bill |-> IF r.whole THEN r.new ELSE [status |-> NoStatus]]

\* The write puts back every field the patch does not carry as it was loaded.
Merged(r) == [cust |-> r.cust, bill |-> IF r.whole THEN r.new ELSE r.base.bill]

Store(h) ==
    LET r == req[h] IN
    /\ r.pc = "store"
    /\ profile' = [profile EXCEPT ![r.user] = Merged(r)]
    /\ index' = IF r.cust = None THEN index ELSE [index EXCEPT ![r.cust] = r.user]
    /\ seen' = IF r.whole THEN [seen EXCEPT ![r.cust] = Larger(@, r.ver)] ELSE seen
    /\ Continue(h, CASE r.then = "snapshot" -> Saving([r EXCEPT !.base = NewProfile], TRUE, "done")
                     [] r.then = "rebind"   -> Saving(r, FALSE, "done")
                     [] r.then = "portal"   -> Saving(r, FALSE, "done")
                     [] OTHER               -> [r EXCEPT !.pc = r.then, !.base = NewProfile, !.new = NoBill,
                                                      !.ver = 0])
    /\ UNCHANGED <<now, stripe, acked, marked, batch, spent, faults>>

\* Mutant: A webhook that could not store goes on and marks the event.
FaultSwallowed(h) ==
    /\ req[h].pc # "free" /\ faults < MaxFaults
    /\ faults' = faults + 1
    /\ Continue(h, IF req[h].kind = "webhook" /\ req[h].user # None
                   THEN [req[h] EXCEPT !.pc = "mark"] ELSE Free)
    /\ UNCHANGED <<now, stripe, acked, stored, marked, batch, seen, spent>>

\* Any await can throw or the function can be killed: what was written stays.
Fault(h) ==
    /\ req[h].pc # "free" /\ faults < MaxFaults
    /\ faults' = faults + 1
    /\ Continue(h, Free)
    /\ UNCHANGED <<now, stripe, acked, stored, marked, batch, seen, spent>>

-----------------------------------------------------------------------------
(* The webhook                                                               *)

\* A delivery: a processed event is answered at once, another is looked into.
Deliver(h, e) ==
    /\ req[h].pc = "free" /\ e \notin acked
    /\ LET ev == events[e]
           r == [Free EXCEPT !.kind = "webhook", !.ev = e, !.cust = ev.cust]
       IN  IF marked[e] # "no"
           THEN acked' = acked \cup {e} /\ UNCHANGED req
           ELSE /\ UNCHANGED acked
                /\ Continue(h, IF ev.type = "checkout"
                       THEN LET u == (CHOOSE n \in DOMAIN sessions :
                                        sessions[n].cust = ev.cust /\ sessions[n].paid)
                            IN  Saving([r EXCEPT !.user = sessions[u].user], FALSE, "profile")
                       ELSE [r EXCEPT !.pc = "lookup"])
    /\ UNCHANGED <<now, stripe, stored, marked, batch, seen, spent, faults>>

\* The user of the customer; without one there is nothing to apply.
Lookup(h) ==
    LET r == req[h] IN
    /\ r.pc = "lookup"
    /\ Continue(h, IF index[r.cust] # None
                   THEN [r EXCEPT !.user = index[r.cust],
                                  !.pc = IF r.kind = "webhook" THEN "profile" ELSE "list"]
                   ELSE [r EXCEPT !.pc = IF r.kind = "webhook" THEN "mark" ELSE "done"])
    /\ UNCHANGED <<now, stripe, acked, stored, marked, batch, seen, spent, faults>>

ReadProfile(h) ==
    /\ req[h].pc = "profile"
    /\ Continue(h, [req[h] EXCEPT !.pc = "list", !.prof = profile[req[h].user]])
    /\ UNCHANGED <<now, stripe, acked, stored, marked, batch, seen, spent, faults>>

\* The listing at Stripe becomes the billing state to store.  The reconcile
\* binds the customer first and ends here when it is a dry run.
List(h) ==
    LET r   == req[h]
        sum == Summary(subs[r.cust], r.prof.bill)
        got == [r EXCEPT !.ver = Len(events), !.prof = NewProfile]
    IN
    /\ r.pc = "list"
    /\ \/ /\ r.kind = "webhook"
          /\ \E named \in BOOLEAN :
               Continue(h, Saving([got EXCEPT !.new = ApplyEvent(sum, events[r.ev], r.prof.bill, named)],
                                  TRUE, "mark"))
       \/ r.kind = "status" /\ Continue(h, Saving([got EXCEPT !.new = sum], TRUE, "done"))
       \/ r.kind = "reconcile" /\ Continue(h, Saving([got EXCEPT !.new = sum], FALSE, "snapshot"))
       \/ r.kind = "reconcile" /\ h # JobSlot /\ Continue(h, Free)
    /\ UNCHANGED <<now, stripe, acked, stored, marked, batch, seen, spent, faults>>

\* The family account is provisioned, the e-mail of the event sent, and then the
\* event marked.
Mark(h) ==
    LET r == req[h] IN
    /\ r.pc = "mark"
    /\ marked' = [marked EXCEPT ![r.ev] = IF r.user = None THEN "unbound" ELSE "bound"]
    /\ Continue(h, [Free EXCEPT !.kind = "webhook", !.pc = "reply", !.ev = r.ev])
    /\ UNCHANGED <<now, stripe, acked, stored, batch, seen, spent, faults>>

\* The event is forwarded (a failure of that is ignored) and answered with 200.
Reply(h) ==
    /\ req[h].pc = "reply"
    /\ acked' = acked \cup {req[h].ev}
    /\ Continue(h, Free)
    /\ UNCHANGED <<now, stripe, stored, marked, batch, seen, spent, faults>>

-----------------------------------------------------------------------------
(* Requests of pages and of administrators                                   *)

Spend == spent < MaxRequests /\ spent' = spent + 1

\* A page asks for the status, with the checkout session it returns from (n)
\* or without one (0): the profile is read.
StartStatus(h, u, n) ==
    LET r == [Free EXCEPT !.kind = "status", !.user = u, !.prof = profile[u],
                          !.cust = profile[u].cust, !.chk = n] IN
    /\ req[h].pc = "free" /\ Spend
    /\ n # 0 => sessions[n].user = u
    /\ n # 0 \/ r.cust # None
    /\ Continue(h, [r EXCEPT !.pc = IF n = 0 THEN "list" ELSE "retrieve"])
    /\ UNCHANGED <<now, stripe, acked, stored, marked, batch, seen, faults>>

\* The portal: for the customer that is stored, else for that of the session.
StartPortal(h, u, n) ==
    LET r == [Free EXCEPT !.kind = "portal", !.user = u, !.cust = profile[u].cust, !.chk = n] IN
    /\ req[h].pc = "free" /\ Spend
    /\ n # 0 => sessions[n].user = u
    /\ n # 0 \/ r.cust # None
    /\ Continue(h, IF r.cust = None THEN [r EXCEPT !.pc = "retrieve"] ELSE Saving(r, FALSE, "done"))
    /\ UNCHANGED <<now, stripe, acked, stored, marked, batch, seen, faults>>

\* The session as Stripe has it: its customer, once it is paid, is bound.
Retrieve(h) ==
    LET r == req[h]
        c == IF sessions[r.chk].cust # None THEN sessions[r.chk].cust ELSE r.cust IN
    /\ r.pc = "retrieve"
    /\ Continue(h, IF c = None THEN [r EXCEPT !.pc = "done"]
                   ELSE Saving([r EXCEPT !.cust = c], FALSE,
                               IF r.kind = "portal" THEN "portal" ELSE "list"))
    /\ UNCHANGED <<now, stripe, acked, stored, marked, batch, seen, spent, faults>>

\* A checkout is opened at Stripe for the customer that was read, and the
\* profile saved with that customer, or with none, and then bound to it.
StartCheckout(h, u) ==
    /\ req[h].pc = "free" /\ Spend
    /\ Len(sessions) + Cardinality({s \in Slot : req[s].pc = "create"}) < MaxCheckouts
    /\ Continue(h, [Free EXCEPT !.kind = "checkout", !.user = u, !.pc = "create",
                                !.cust = profile[u].cust])
    /\ UNCHANGED <<now, stripe, acked, stored, marked, batch, seen, faults>>

CreateCheckout(h) ==
    LET r == req[h] IN
    /\ r.pc = "create"
    /\ sessions' = Append(sessions, [user |-> r.user, cust |-> r.cust, paid |-> FALSE])
    /\ Continue(h, Saving(r, FALSE, IF r.cust = None THEN "done" ELSE "rebind"))
    /\ UNCHANGED <<now, subs, events, acked, stored, marked, batch, seen, spent, faults>>

\* An administrator reconciles a user, or a customer whose profile is not read.
StartReconcile(h, u) ==
    /\ req[h].pc = "free" /\ profile[u].cust # None
    /\ Continue(h, [Free EXCEPT !.kind = "reconcile", !.user = u, !.pc = "list",
                                !.prof = profile[u], !.cust = profile[u].cust])
    /\ UNCHANGED <<now, stripe, acked, stored, marked, seen, faults>>

ReconcileUser(h, u) == h \in Slot /\ Spend /\ StartReconcile(h, u) /\ UNCHANGED batch

ReconcileCustomer(h, c) ==
    /\ req[h].pc = "free" /\ Spend
    /\ Continue(h, [Free EXCEPT !.kind = "reconcile", !.cust = c, !.pc = "lookup"])
    /\ UNCHANGED <<now, stripe, acked, stored, marked, batch, seen, faults>>

(* The nightly job: every user with a customer, one after the other          *)

\* Mutant: The job looks only after those whose subscription is active.
NightlyStartsActive ==
    /\ batch = {} /\ req[JobSlot].pc = "free"
    /\ batch' = {u \in User : profile[u].cust # None /\ profile[u].bill.status = "active"}
    /\ batch' # {}
    /\ UNCHANGED <<now, stripe, acked, stored, marked, req, seen, spent, faults>>

NightlyStarts ==
    /\ batch = {} /\ req[JobSlot].pc = "free"
    /\ batch' = {u \in User : profile[u].cust # None}
    /\ batch' # {}
    /\ UNCHANGED <<now, stripe, acked, stored, marked, req, seen, spent, faults>>

NightlyCalls(u) ==
    /\ u \in batch /\ batch' = batch \ {u}
    /\ IF profile[u].cust # None THEN StartReconcile(JobSlot, u)
       ELSE UNCHANGED <<now, stripe, acked, stored, marked, req, seen, faults>>
    /\ UNCHANGED spent

-----------------------------------------------------------------------------
Step(h) ==
    \/ Load(h) \/ Store(h) \/ Lookup(h) \/ ReadProfile(h) \/ List(h)
    \/ Mark(h) \/ Reply(h) \/ Retrieve(h) \/ CreateCheckout(h)

Start(h) ==
    \/ \E e \in DOMAIN events : Deliver(h, e)
    \/ \E u \in User, n \in {0} \cup DOMAIN sessions : StartStatus(h, u, n) \/ StartPortal(h, u, n)
    \/ \E u \in User : StartCheckout(h, u) \/ ReconcileUser(h, u)
    \/ \E c \in Customer : ReconcileCustomer(h, c)

Stripe ==
    \/ \E n \in DOMAIN sessions : Pay(n)
    \/ \E c \in Customer : \E i \in DOMAIN subs[c] :
         \E type \in EventTypes \ {"checkout"} : Change(c, i, type)

Nightly == NightlyStarts \/ \E u \in User : NightlyCalls(u)

Next ==
    \/ Stripe \/ Tick \/ Nightly
    \/ \E h \in Slot : Start(h)
    \/ \E h \in AllSlots : Step(h) \/ Fault(h)

\* Requests are served, Stripe delivers until it gets a 200, the job runs every
\* night and time passes.  Nothing is assumed of pages, customers and faults.
Fairness ==
    /\ \A h \in AllSlots : WF_vars(Step(h))
    /\ \A e \in 1 .. MaxEvents : WF_vars(\E h \in Slot : e \in DOMAIN events /\ Deliver(h, e))
    /\ WF_vars(Nightly)
    /\ WF_vars(Tick)

Spec == Init /\ [][Next]_vars /\ Fairness

-----------------------------------------------------------------------------
BillingTypeOK ==
    /\ now \in 1 .. MaxTime
    /\ subs \in [Customer -> Seq(Statuses)]
    /\ events \in Seq([cust : Customer, type : EventTypes, at : Nat])
    /\ marked \in Seq({"no", "bound", "unbound"}) /\ Len(marked) = Len(events)
    /\ sessions \in Seq([user : User, cust : Customer \cup {None}, paid : BOOLEAN])
    /\ acked \subseteq DOMAIN events
    /\ profile \in [User -> Profiles]
    /\ index \in [Customer -> User \cup {None}]
    /\ batch \subseteq User
    /\ seen \in [Customer -> 0 .. MaxEvents]
    /\ \A h \in AllSlots : req[h].base \in Profiles /\ req[h].new \in Bills

\* An event that is marked will never be looked at again.  So when it is marked
\* a listing made after it has been stored for its customer; or there was no
\* user to store it for, and then the user is either still unknown or known
\* through a checkout of that customer, whose own event is still to be
\* processed, or an equally new listing has been stored since.
MarkedIsApplied ==
    \A e \in DOMAIN marked :
       LET c == events[e].cust IN
       marked[e] # "no" =>
          \/ seen[c] >= e
          \/ /\ marked[e] = "unbound"
             /\ \E k \in DOMAIN marked : events[k].cust = c /\ events[k].type = "checkout"
                                         /\ marked[k] = "no"

\* The requests in flight may disagree with Stripe and overwrite each other,
\* but once Stripe and the clock have stopped the nightly job makes every
\* profile with a customer agree with Stripe's listing for good.
Agrees(u) ==
    LET p == profile[u] IN
    p.cust # None =>
       /\ p.bill.status = Summary(subs[p.cust], p.bill).status
       /\ p.bill.premium = \E s \in ToSet(subs[p.cust]) : Entitled(s, p.bill.grace)
MirrorsStripe == <>[](\A u \in User : Agrees(u))

=============================================================================
