------------------------ MODULE StripeBillingProofs -------------------------
(***************************************************************************)
(* Theorems about StripeBilling, for any number of users, customers and    *)
(* requests served at once, and any length of grace and period.            *)
(***************************************************************************)
EXTENDS StripeBilling, SequenceTheorems, TLAPS

-----------------------------------------------------------------------------
(* The inductive invariants *)

Reqs ==
    [kind : {"none", "webhook", "status", "portal", "checkout", "reconcile"},
     pc : {"free", "load", "store", "lookup", "profile", "list", "mark", "reply", "retrieve", "create"},
     user : User \cup {None}, cust : Customer \cup {None}, ev : Nat, chk : Nat,
     prof : Profiles, new : Bills, whole : BOOLEAN, base : Profiles,
     then : {"done", "profile", "list", "mark", "snapshot", "rebind", "portal"}, ver : Nat]

\* What a handler knows at each of its steps, of the events evs and the sessions ses.
RequestOK(r, evs, ses) ==
    /\ r \in Reqs
    /\ r.ver <= Len(evs)
    /\ r.kind = "webhook" => r.ev \in DOMAIN evs
    /\ r.kind = "webhook" /\ r.pc # "reply" => r.cust = evs[r.ev].cust
    /\ r.pc \in {"load", "store", "profile", "list", "create", "retrieve"} => r.user \in User
    /\ r.pc \in {"list", "lookup"} => r.cust \in Customer
    /\ r.pc \in {"load", "store"} =>
           /\ r.whole \/ r.then \in {"list", "snapshot"} => r.cust \in Customer
           /\ r.then = "profile" => r.kind = "webhook" /\ ~r.whole
           /\ r.then = "mark" => r.kind = "webhook" /\ r.whole
           /\ r.kind = "webhook" => r.then \in {"profile", "mark"}
           /\ r.then \in {"list", "snapshot"} => ~r.whole
    /\ r.pc \in {"profile", "mark", "reply"} => r.kind = "webhook"
    /\ r.pc = "lookup" => r.kind \in {"webhook", "reconcile"} /\ r.user = None
    /\ r.pc = "retrieve" => r.chk \in DOMAIN ses /\ r.kind \in {"status", "portal"}
    /\ r.pc = "create" => r.kind = "checkout"
    /\ r.pc = "free" => r.kind = "none"

TypeInv ==
    /\ BillingTypeOK
    /\ Len(events) <= MaxEvents
    /\ req \in [AllSlots -> Reqs]
    /\ \A h \in AllSlots : RequestOK(req[h], events, sessions)

\* A customer has no subscription and no event before a checkout of it, which the user of
\* a session has paid.
CheckedOut(c) == \E k \in DOMAIN events : events[k].cust = c /\ events[k].type = "checkout"

OriginInv ==
    /\ \A c \in Customer : subs[c] # <<>> => CheckedOut(c)
    /\ \A e \in DOMAIN events : CheckedOut(events[e].cust)
    /\ \A e \in DOMAIN events : events[e].type = "checkout" =>
           \E n \in DOMAIN sessions : sessions[n].cust = events[e].cust /\ sessions[n].paid

\* The webhook of event e, in slot h, up to its answer.
Webhook(h, e) == req[h].kind = "webhook" /\ req[h].ev = e /\ req[h].pc # "reply"
Rewrites(h) == req[h].pc \in {"load", "store"} /\ req[h].whole

\* A checkout's webhook binds the customer first, and the customer stays bound.
BoundInv ==
    \A e \in DOMAIN events : events[e].type = "checkout" =>
        /\ marked[e] # "no" => marked[e] = "bound" /\ index[events[e].cust] # None
        /\ \A h \in AllSlots : Webhook(h, e) =>
               /\ req[h].user # None
               /\ req[h].pc \in {"profile", "list", "mark"} \/ Rewrites(h) => index[events[e].cust] # None

\* What a webhook stores was listed after its event was made.
FreshInv ==
    \A e \in DOMAIN events, h \in AllSlots : Webhook(h, e) =>
        /\ Rewrites(h) => e <= req[h].ver
        /\ req[h].pc = "mark" /\ req[h].user # None => e <= seen[events[e].cust]

\* An event that found no user: what its customer's checkout will store, or has stored, was
\* listed after it.
Unbound(e) ==
    marked[e] = "unbound" \/ \E h \in AllSlots : Webhook(h, e) /\ req[h].pc = "mark" /\ req[h].user = None

WillApply(k, e) ==
    /\ events[k].cust = events[e].cust /\ events[k].type = "checkout" /\ marked[k] = "no"
    /\ \A h \in AllSlots : Webhook(h, k) => /\ Rewrites(h) => e <= req[h].ver
                                            /\ req[h].pc = "mark" => e <= seen[events[e].cust]

AppliedInv ==
    \A e \in DOMAIN events :
        /\ marked[e] = "bound" => e <= seen[events[e].cust]
        /\ Unbound(e) => e <= seen[events[e].cust] \/ \E k \in DOMAIN events : WillApply(k, e)

ApplyInv == TypeInv /\ OriginInv /\ BoundInv /\ FreshInv /\ AppliedInv

-----------------------------------------------------------------------------
(* What the operators of the model return *)

LEMMA DeriveGraceType ==
    ASSUME now \in Nat, NEW s, NEW bill \in Bills
    PROVE  DeriveGrace(s, bill) \in Nat
  BY BillingAssumption DEF DeriveGrace, Bills

\* A listing that is not empty has a subscription of the highest rank.
LEMMA HighestRank ==
    ASSUME NEW S \in SUBSET Statuses, S # {}
    PROVE  \E s \in S : \A o \in S : Rank[o] <= Rank[s]
<1>1. Rank["active"] = 7 /\ Rank["past_due"] = 5 /\ Rank["canceled"] = 1 /\ Rank[NoStatus] = 0
  <2>1. {"active", "past_due", "canceled", NoStatus} \subseteq Statuses
      BY DEF Statuses
  <2>2. NoStatus # "active" /\ NoStatus # "past_due" /\ NoStatus # "canceled"
      BY Zenon DEF NoStatus
  <2>. QED
      BY <2>1, <2>2 DEF Rank
<1>2. \A o \in S : o \in {"active", "past_due", "canceled", NoStatus}
    BY DEF Statuses
<1>3. CASE "active" \in S
  <2>1. \A o \in S : Rank[o] <= Rank["active"]
      BY <1>1, <1>2
  <2>. QED
      BY <1>3, <2>1
<1>4. CASE "active" \notin S /\ "past_due" \in S
  <2>1. \A o \in S : Rank[o] <= Rank["past_due"]
      BY <1>1, <1>2, <1>4
  <2>. QED
      BY <1>4, <2>1
<1>5. CASE "active" \notin S /\ "past_due" \notin S /\ "canceled" \in S
  <2>1. \A o \in S : Rank[o] <= Rank["canceled"]
      BY <1>1, <1>2, <1>5
  <2>. QED
      BY <1>5, <2>1
<1>6. CASE "active" \notin S /\ "past_due" \notin S /\ "canceled" \notin S
  <2>1. \A o \in S : o = NoStatus
      BY <1>2, <1>6
  <2>2. \A o \in S : Rank[o] <= Rank[NoStatus]
      BY <1>1, <2>1
  <2>. QED
      BY <2>1, <2>2
<1>. QED
    BY <1>3, <1>4, <1>5, <1>6

LEMMA SummaryType ==
    ASSUME now \in Nat, NEW list \in Seq(Statuses), NEW bill \in Bills
    PROVE  Summary(list, bill) \in Bills
<1>. DEFINE S == ToSet(list)
            primary == CHOOSE s \in S : \A o \in S : Rank[o] <= Rank[s]
<1>1. CASE list = <<>>
  <2>1. Summary(list, bill) = [NoBill EXCEPT !.failedAt = bill.failedAt]
      BY <1>1 DEF Summary
  <2>2. bill.failedAt \in Nat
      BY DEF Bills
  <2>3. Summary(list, bill) = [status |-> NoStatus, premium |-> FALSE, failedAt |-> bill.failedAt, grace |-> 0]
      BY <2>1 DEF NoBill
  <2>. QED
      BY <2>2, <2>3 DEF Bills, Statuses
<1>2. CASE list # <<>>
  <2>1. S \in SUBSET Statuses /\ S # {}
      BY <1>2, SMTT(30) DEF ToSet
  <2>2. primary \in S
      BY <2>1, HighestRank
  <2>3. primary \in Statuses /\ DeriveGrace(primary, bill) \in Nat /\ bill.failedAt \in Nat
      BY <2>1, <2>2, DeriveGraceType DEF Bills
  <2>4. Summary(list, bill) =
            [status   |-> primary,
             premium  |-> \E s \in S : Entitled(s, DeriveGrace(s, bill)),
             failedAt |-> bill.failedAt,
             grace    |-> DeriveGrace(primary, bill)]
      BY <1>2, Zenon DEF Summary
  <2>5. (\E s \in S : Entitled(s, DeriveGrace(s, bill))) \in BOOLEAN
      BY Zenon
  <2>. HIDE DEF primary
  <2>. QED
      BY <2>3, <2>4, <2>5 DEF Bills
<1>. QED
    BY <1>1, <1>2

LEMMA ApplyEventType ==
    ASSUME NEW sum \in Bills, NEW bill \in Bills, NEW ev, ev.at \in Nat, NEW named
    PROVE  ApplyEvent(sum, ev, bill, named) \in Bills
<1>. DEFINE failedAt == IF sum.failedAt > 0 THEN sum.failedAt ELSE bill.failedAt
            grace    == IF sum.grace > 0 THEN sum.grace ELSE bill.grace
<1>1. failedAt \in Nat /\ grace \in Nat
    BY DEF Bills
<1>2. Larger(grace, ev.at + Grace) \in Nat
    BY <1>1, BillingAssumption DEF Larger
<1>3. \A f, g \in Nat : [sum EXCEPT !.failedAt = f, !.grace = g] \in Bills
    BY DEF Bills
<1>. HIDE DEF failedAt, grace
<1>4. CASE ev.type = "failed"
  <2>1. \E g \in Nat : ApplyEvent(sum, ev, bill, named) = [sum EXCEPT !.failedAt = ev.at, !.grace = g]
      BY <1>1, <1>2, <1>4 DEF ApplyEvent, failedAt, grace
  <2>. QED
      BY <1>3, <2>1
<1>5. CASE ev.type \in {"paid", "deleted"}
  <2>1. ApplyEvent(sum, ev, bill, named) = [sum EXCEPT !.failedAt = 0, !.grace = 0]
      BY <1>5 DEF ApplyEvent
  <2>2. [sum EXCEPT !.failedAt = 0, !.grace = 0] \in Bills
      BY DEF Bills
  <2>. QED
      BY <2>1, <2>2
<1>6. CASE ev.type \notin {"failed", "paid", "deleted"}
  <2>1. \E f \in Nat : \E g \in Nat : ApplyEvent(sum, ev, bill, named) = [sum EXCEPT !.failedAt = f, !.grace = g]
    <3>1. ApplyEvent(sum, ev, bill, named) =
               [sum EXCEPT !.failedAt = IF sum.status = "active" THEN 0 ELSE failedAt,
                           !.grace = IF sum.status = "past_due" THEN grace ELSE 0]
        BY <1>6 DEF ApplyEvent, failedAt, grace
    <3>. QED
        BY <1>1, <3>1
  <2>. QED
      BY <1>3, <2>1
<1>. QED
    BY <1>4, <1>5, <1>6

LEMMA FreeOK ==
    ASSUME NEW evs, NEW ses, Len(evs) \in Nat
    PROVE  RequestOK(Free, evs, ses) /\ NewProfile \in Profiles /\ NoBill \in Bills
<1>1. NoBill \in Bills
    BY DEF NoBill, Bills, Statuses
<1>2. NewProfile \in Profiles
    BY <1>1 DEF NewProfile, Profiles
<1>3. Free \in Reqs
    BY <1>1, <1>2 DEF Free, Reqs
<1>. QED
    BY <1>1, <1>2, <1>3 DEF Free, RequestOK

-----------------------------------------------------------------------------
(* Requests *)

Thens == {"done", "profile", "list", "mark", "snapshot", "rebind", "portal"}

LEMMA SavingFields ==
    ASSUME NEW r \in Reqs, NEW whole \in BOOLEAN, NEW then \in Thens
    PROVE  LET s == Saving(r, whole, then) IN
           /\ s \in Reqs /\ s.pc = "load" /\ s.whole = whole /\ s.then = then
           /\ s.kind = r.kind /\ s.user = r.user /\ s.cust = r.cust /\ s.ev = r.ev /\ s.chk = r.chk
           /\ s.new = r.new /\ s.ver = r.ver /\ s.prof = r.prof /\ s.base = r.base
<1>. DEFINE s == Saving(r, whole, then)
<1>1. /\ s.pc = "load" /\ s.whole = whole /\ s.then = then
      /\ s.kind = r.kind /\ s.user = r.user /\ s.cust = r.cust /\ s.ev = r.ev /\ s.chk = r.chk
      /\ s.new = r.new /\ s.ver = r.ver /\ s.prof = r.prof /\ s.base = r.base
    BY DEF Saving, Reqs
<1>2. s \in Reqs
    BY DEF Saving, Reqs, Thens
<1>. QED
    BY <1>1, <1>2

\* Requests see Stripe's lists grow, and nothing they have seen change.
Grows(s, t) == DOMAIN s \subseteq DOMAIN t /\ \A i \in DOMAIN s : t[i] = s[i]

LEMMA RequestGrows ==
    ASSUME NEW r, NEW evs, NEW ses, NEW evs2, NEW ses2, RequestOK(r, evs, ses),
           Len(evs) \in Nat, Len(evs2) \in Nat, Len(evs) <= Len(evs2),
           Grows(evs, evs2), DOMAIN ses \subseteq DOMAIN ses2
    PROVE  RequestOK(r, evs2, ses2)
<1>1. r \in Reqs /\ r.ver \in Nat
    BY DEF RequestOK, Reqs
<1>. QED
    BY <1>1 DEF RequestOK, Grows

\* A handler's step leaves the other requests alone.
LEMMA Continues ==
    ASSUME req \in [AllSlots -> Reqs], \A h \in AllSlots : RequestOK(req[h], events, sessions),
           NEW h \in AllSlots, NEW r, Continue(h, r), r.pc = "done" \/ RequestOK(r, events, sessions),
           Len(events) \in Nat
    PROVE  /\ req' \in [AllSlots -> Reqs]
           /\ \A x \in AllSlots : RequestOK(req'[x], events, sessions)
           /\ \A x \in AllSlots : req'[x] = IF x # h THEN req[x] ELSE IF r.pc = "done" THEN Free ELSE r
<1>1. \A x \in AllSlots : req'[x] = IF x # h THEN req[x] ELSE IF r.pc = "done" THEN Free ELSE r
    BY DEF Continue
<1>2. RequestOK(Free, events, sessions)
    BY FreeOK
<1>3. \A x \in AllSlots : RequestOK(req'[x], events, sessions)
    BY <1>1, <1>2
<1>4. \A x \in AllSlots : req'[x] \in Reqs
    BY <1>3 DEF RequestOK
<1>5. req' \in [AllSlots -> Reqs]
    BY <1>4 DEF Continue
<1>. QED
    BY <1>1, <1>3, <1>5

LEMMA Typed ==
    ASSUME TypeInv
    PROVE  /\ now \in Nat /\ Len(events) \in Nat /\ Len(events) <= MaxEvents /\ MaxEvents \in Nat
           /\ profile \in [User -> Profiles] /\ index \in [Customer -> User \cup {None}]
           /\ subs \in [Customer -> Seq(Statuses)] /\ seen \in [Customer -> 0 .. MaxEvents]
           /\ None \notin User /\ None \notin Customer
           /\ req \in [AllSlots -> Reqs] /\ \A h \in AllSlots : RequestOK(req[h], events, sessions)
<1>1. None \notin User /\ None \notin Customer /\ MaxEvents \in Nat /\ MaxTime \in Nat
    BY BillingAssumption
<1>2. /\ now \in 1 .. MaxTime /\ events \in Seq([cust : Customer, type : EventTypes, at : Nat])
      /\ Len(events) <= MaxEvents
      /\ profile \in [User -> Profiles] /\ index \in [Customer -> User \cup {None}]
      /\ subs \in [Customer -> Seq(Statuses)] /\ seen \in [Customer -> 0 .. MaxEvents]
      /\ req \in [AllSlots -> Reqs] /\ \A h \in AllSlots : RequestOK(req[h], events, sessions)
    BY Zenon DEF TypeInv, BillingTypeOK
<1>3. Len(events) \in Nat /\ now \in Nat
    BY <1>1, <1>2
<1>. QED
    BY <1>1, <1>2, <1>3

LEMMA Listed ==
    ASSUME TypeInv
    PROVE  /\ DOMAIN marked = 1 .. Len(events) /\ DOMAIN events = 1 .. Len(events)
           /\ \A e \in DOMAIN events : /\ events[e].cust \in Customer /\ events[e].at \in Nat
                                       /\ events[e].type \in EventTypes
                                       /\ marked[e] \in {"no", "bound", "unbound"}
           /\ \A n \in DOMAIN sessions : /\ sessions[n].user \in User
                                         /\ sessions[n].cust \in Customer \cup {None}
                                         /\ sessions[n].paid \in BOOLEAN
<1>. DEFINE E == [cust : Customer, type : EventTypes, at : Nat]
            M == {"no", "bound", "unbound"}
            S == [user : User, cust : Customer \cup {None}, paid : BOOLEAN]
<1>1. events \in Seq(E) /\ marked \in Seq(M) /\ Len(marked) = Len(events) /\ sessions \in Seq(S)
    BY Zenon DEF TypeInv, BillingTypeOK
<1>. HIDE DEF E, M, S
<1>2. DOMAIN marked = 1 .. Len(events) /\ DOMAIN events = 1 .. Len(events)
    BY <1>1
<1>3. \A e \in DOMAIN events : events[e] \in E /\ marked[e] \in M
    BY <1>1
<1>4. \A n \in DOMAIN sessions : sessions[n] \in S
    BY <1>1
<1>. QED
    BY <1>2, <1>3, <1>4 DEF E, M, S

\* What stays of a request while it goes on.
Same(r, s) == s.kind = r.kind /\ s.ev = r.ev /\ s.user = r.user /\ s.cust = r.cust

LEMMA LoadRequest ==
    ASSUME TypeInv, NEW h \in AllSlots, Load(h)
    PROVE  \E s : /\ Continue(h, s) /\ RequestOK(s, events, sessions) /\ Same(req[h], s)
                  /\ s.pc = "store" /\ s.whole = req[h].whole /\ s.ver = req[h].ver
<1>. DEFINE r == req[h]
            base == IF r.whole THEN NewProfile ELSE profile[r.user]
            s == [r EXCEPT !.pc = "store", !.base = base]
<1>1. r.pc = "load" /\ Continue(h, s)
    BY DEF Load
<1>2. r \in Reqs /\ RequestOK(r, events, sessions) /\ r.user \in User
    BY <1>1, Typed DEF RequestOK
<1>3. base \in Profiles
    BY <1>2, Typed, FreeOK
<1>. HIDE DEF base
<1>4. /\ s \in Reqs /\ Same(r, s) /\ s.pc = "store"
      /\ s.whole = r.whole /\ s.then = r.then /\ s.ver = r.ver /\ s.chk = r.chk
    BY <1>2, <1>3 DEF Reqs, Same
<1>. HIDE DEF s
<1>5. RequestOK(s, events, sessions)
    BY <1>1, <1>2, <1>4 DEF RequestOK, Same
<1>. QED
    BY <1>1, <1>4, <1>5

\* The step of a handler that goes on with the request s.
Goes(h, s) == Continue(h, s) /\ (s.pc = "done" \/ RequestOK(s, events, sessions))

\* Where a handler goes on after a write.
AfterStore(r) ==
    CASE r.then = "snapshot" -> Saving([r EXCEPT !.base = NewProfile], TRUE, "done")
      [] r.then = "rebind"   -> Saving(r, FALSE, "done")
      [] r.then = "portal"   -> Saving(r, FALSE, "done")
      [] OTHER               -> [r EXCEPT !.pc = r.then, !.base = NewProfile, !.new = NoBill, !.ver = 0]

LEMMA StoreRequest ==
    ASSUME TypeInv, NEW h \in AllSlots, req[h].pc = "store", Continue(h, AfterStore(req[h]))
    PROVE  \E s : /\ Goes(h, s)
                  /\ s.pc # "done" /\ s.kind = "webhook" =>
                         /\ Same(req[h], s) /\ req[h].user \in User
                         /\ s.pc = IF req[h].whole THEN "mark" ELSE "profile"
<1>. DEFINE r == req[h]
            s == AfterStore(r)
<1>1. r \in Reqs /\ RequestOK(r, events, sessions) /\ r.user \in User /\ r.then \in Thens
      /\ NewProfile \in Profiles /\ NoBill \in Bills /\ Len(events) \in Nat
    BY Typed, FreeOK DEF RequestOK, Reqs, Thens
<1>2. CASE r.then = "snapshot"
  <2>. DEFINE q == [r EXCEPT !.base = NewProfile]
  <2>1. q \in Reqs /\ Same(r, q) /\ q.ver = r.ver
      BY <1>1 DEF Reqs, Same
  <2>2. s = Saving(q, TRUE, "done")
      BY <1>2 DEF AfterStore
  <2>. HIDE DEF q, s
  <2>3. s \in Reqs /\ Same(q, s) /\ s.ver = q.ver /\ s.pc = "load" /\ s.whole /\ s.then = "done"
    <3>1. TRUE \in BOOLEAN /\ "done" \in Thens
        BY DEF Thens
    <3>. QED
        BY <2>1, <2>2, <3>1, SavingFields DEF Same
  <2>4. RequestOK(s, events, sessions) /\ s.kind # "webhook"
      BY <1>1, <1>2, <2>1, <2>3 DEF RequestOK, Same
  <2>5. Continue(h, s)
      BY DEF s
  <2>. QED
      BY <2>4, <2>5 DEF Goes
<1>3. CASE r.then \in {"rebind", "portal"}
  <2>2. s = Saving(r, FALSE, "done")
      BY <1>3 DEF AfterStore
  <2>. HIDE DEF s
  <2>3. s \in Reqs /\ Same(r, s) /\ s.ver = r.ver /\ s.pc = "load" /\ ~s.whole /\ s.then = "done"
    <3>1. FALSE \in BOOLEAN /\ "done" \in Thens
        BY DEF Thens
    <3>. QED
        BY <1>1, <2>2, <3>1, SavingFields DEF Same
  <2>4. RequestOK(s, events, sessions) /\ s.kind # "webhook"
      BY <1>1, <1>3, <2>3 DEF RequestOK, Same
  <2>5. Continue(h, s)
      BY DEF s
  <2>. QED
      BY <2>4, <2>5 DEF Goes
<1>4. CASE r.then \in {"done", "profile", "list", "mark"}
  <2>2. s = [r EXCEPT !.pc = r.then, !.base = NewProfile, !.new = NoBill, !.ver = 0]
      BY <1>4 DEF AfterStore
  <2>. HIDE DEF s
  <2>5. Continue(h, s)
      BY DEF s
  <2>3. s.pc = r.then
      BY <1>1, <2>2 DEF Reqs
  <2>6. CASE r.then = "done"
      BY <2>3, <2>5, <2>6 DEF Goes
  <2>7. CASE r.then # "done"
    <3>1. s \in Reqs /\ Same(r, s) /\ s.ver = 0
        BY <1>1, <1>4, <2>2, <2>7 DEF Reqs, Same
    <3>2. RequestOK(s, events, sessions)
        BY <1>1, <1>4, <2>3, <2>7, <3>1 DEF RequestOK, Same
    <3>3. s.kind = "webhook" => s.pc = IF r.whole THEN "mark" ELSE "profile"
        BY <1>1, <1>4, <2>3, <2>7, <3>1 DEF RequestOK, Same
    <3>. QED
        BY <1>1, <2>5, <3>1, <3>2, <3>3 DEF Goes
  <2>. QED
      BY <2>6, <2>7
<1>. QED
    BY <1>1, <1>2, <1>3, <1>4 DEF Thens

LEMMA FreeFields ==
    /\ Free.user = None /\ Free.cust = None /\ Free.ver = 0 /\ Free.whole = FALSE
    /\ Free.kind = "none" /\ Free.pc = "free" /\ Free.ev = 0 /\ Free.chk = 0 /\ Free.then = "done"
    /\ Free \in Reqs
<1>1. NoBill \in Bills
    BY DEF NoBill, Bills, Statuses
<1>2. NewProfile \in Profiles
    BY <1>1 DEF NewProfile, Profiles
<1>. QED
    BY <1>1, <1>2 DEF Free, Reqs

LEMMA DeliverRequest ==
    ASSUME TypeInv, OriginInv, NEW h \in AllSlots, NEW e \in DOMAIN events, Deliver(h, e)
    PROVE  \/ UNCHANGED req
           \/ \E s : /\ Goes(h, s) /\ s.kind = "webhook" /\ s.ev = e /\ marked[e] = "no" /\ ~s.whole
                     /\ IF events[e].type = "checkout" THEN s.pc = "load" /\ s.user \in User
                                                       ELSE s.pc = "lookup" /\ s.user = None
<1>. DEFINE ev == events[e]
            r == [Free EXCEPT !.kind = "webhook", !.ev = e, !.cust = ev.cust]
<1>1. ev.cust \in Customer /\ e \in Nat /\ Len(events) \in Nat
    BY Listed, Typed
<1>2. /\ r \in Reqs /\ r.kind = "webhook" /\ r.ev = e /\ r.cust = ev.cust
      /\ r.user = None /\ ~r.whole /\ r.ver = 0
    BY <1>1, FreeFields DEF Reqs
<1>3. CASE marked[e] # "no"
    BY <1>3 DEF Deliver
<1>4. CASE marked[e] = "no" /\ ev.type = "checkout"
  <2>. DEFINE u == CHOOSE n \in DOMAIN sessions : sessions[n].cust = ev.cust /\ sessions[n].paid
              q == [r EXCEPT !.user = sessions[u].user]
              s == Saving(q, FALSE, "profile")
  <2>1. u \in DOMAIN sessions
      BY <1>4 DEF OriginInv
  <2>. HIDE DEF u
  <2>2. sessions[u].user \in User
      BY <2>1, Listed
  <2>. HIDE DEF r
  <2>3. /\ q \in Reqs /\ q.kind = "webhook" /\ q.ev = e /\ q.cust = ev.cust
        /\ q.user \in User /\ q.ver = 0
      BY <1>2, <2>2 DEF Reqs
  <2>4. Continue(h, s)
      BY <1>4 DEF Deliver, u, r
  <2>. HIDE DEF q
  <2>5. /\ s \in Reqs /\ s.pc = "load" /\ s.whole = FALSE /\ s.then = "profile"
        /\ s.kind = "webhook" /\ s.user = q.user /\ s.cust = ev.cust /\ s.ev = e /\ s.ver = 0
    <3>1. FALSE \in BOOLEAN /\ "profile" \in Thens
        BY DEF Thens
    <3>. QED
        BY <2>3, <3>1, SavingFields
  <2>. HIDE DEF s
  <2>6. RequestOK(s, events, sessions)
      BY <1>1, <2>3, <2>5 DEF RequestOK
  <2>. QED
      BY <1>4, <2>3, <2>4, <2>5, <2>6 DEF Goes
<1>5. CASE marked[e] = "no" /\ ev.type # "checkout"
  <2>. DEFINE s == [r EXCEPT !.pc = "lookup"]
  <2>1. Continue(h, s)
      BY <1>5 DEF Deliver
  <2>. HIDE DEF r
  <2>2. /\ s \in Reqs /\ s.pc = "lookup" /\ s.whole = FALSE
        /\ s.kind = "webhook" /\ s.user = None /\ s.cust = ev.cust /\ s.ev = e /\ s.ver = 0
      BY <1>2 DEF Reqs
  <2>. HIDE DEF s
  <2>3. RequestOK(s, events, sessions)
      BY <1>1, <2>2 DEF RequestOK
  <2>. QED
      BY <1>5, <2>1, <2>2, <2>3 DEF Goes
<1>. QED
    BY <1>3, <1>4, <1>5

LEMMA LookupRequest ==
    ASSUME TypeInv, NEW h \in AllSlots, Lookup(h)
    PROVE  \E s : /\ Goes(h, s) /\ s.kind = req[h].kind /\ s.ev = req[h].ev /\ s.cust = req[h].cust
                  /\ s.kind = "webhook" /\ s.pc # "done" =>
                         IF index[s.cust] # None THEN s.pc = "profile" /\ s.user = index[s.cust]
                                                 ELSE s.pc = "mark" /\ s.user = None
<1>. DEFINE r == req[h]
<1>1. /\ r \in Reqs /\ RequestOK(r, events, sessions) /\ r.pc = "lookup" /\ r.user = None
      /\ r.cust \in Customer /\ index[r.cust] \in User \cup {None} /\ r.kind \in {"webhook", "reconcile"}
    BY Typed DEF Lookup, RequestOK
<1>2. CASE index[r.cust] # None
  <2>. DEFINE u == index[r.cust]
              pc == IF r.kind = "webhook" THEN "profile" ELSE "list"
              s == [r EXCEPT !.user = u, !.pc = pc]
  <2>1. Continue(h, s)
      BY <1>2 DEF Lookup
  <2>2. u \in User /\ pc \in {"profile", "list"} /\ (pc = "profile" => r.kind = "webhook")
        /\ (r.kind = "webhook" => pc = "profile")
      BY <1>1, <1>2
  <2>. HIDE DEF pc, u
  <2>3. /\ s \in Reqs /\ s.pc = pc /\ s.user = u
        /\ s.kind = r.kind /\ s.cust = r.cust /\ s.ev = r.ev /\ s.ver = r.ver
      BY <1>1, <2>2 DEF Reqs
  <2>. HIDE DEF s
  <2>4. RequestOK(s, events, sessions)
      BY <1>1, <2>2, <2>3 DEF RequestOK
  <2>. QED
      BY <1>2, <2>1, <2>2, <2>3, <2>4 DEF Goes, u
<1>3. CASE index[r.cust] = None
  <2>. DEFINE pc == IF r.kind = "webhook" THEN "mark" ELSE "done"
              s == [r EXCEPT !.pc = pc]
  <2>1. Continue(h, s)
      BY <1>3 DEF Lookup
  <2>2. (pc = "done" /\ r.kind # "webhook") \/ (pc = "mark" /\ r.kind = "webhook")
      BY <1>1
  <2>. HIDE DEF pc
  <2>3. s.pc = pc /\ s.user = None /\ s.kind = r.kind /\ s.cust = r.cust /\ s.ev = r.ev /\ s.ver = r.ver
      BY <1>1 DEF Reqs
  <2>4. s.pc = "done" \/ RequestOK(s, events, sessions)
    <3>1. CASE pc = "done"
        BY <2>3, <3>1
    <3>2. CASE pc = "mark" /\ r.kind = "webhook"
      <4>1. s \in Reqs
          BY <1>1, <3>2 DEF Reqs
      <4>. HIDE DEF s
      <4>. QED
          BY <1>1, <2>3, <3>2, <4>1 DEF RequestOK
    <3>. QED
        BY <2>2, <3>1, <3>2
  <2>. HIDE DEF s
  <2>. QED
      BY <1>3, <2>1, <2>2, <2>3, <2>4 DEF Goes
<1>. QED
    BY <1>2, <1>3

LEMMA ReadProfileRequest ==
    ASSUME TypeInv, NEW h \in AllSlots, ReadProfile(h)
    PROVE  \E s : Goes(h, s) /\ Same(req[h], s) /\ s.pc = "list"
<1>. DEFINE r == req[h]
            p == profile[r.user]
            s == [r EXCEPT !.pc = "list", !.prof = p]
<1>1. r \in Reqs /\ RequestOK(r, events, sessions) /\ r.kind = "webhook" /\ r.pc = "profile" /\ r.user \in User
    BY Typed DEF ReadProfile, RequestOK
<1>2. Continue(h, s)
    BY DEF ReadProfile
<1>3. p \in Profiles /\ r.cust \in Customer
    BY <1>1, Typed, Listed DEF RequestOK
<1>. HIDE DEF p
<1>4. s \in Reqs /\ Same(r, s) /\ s.pc = "list" /\ s.ver = r.ver
    BY <1>1, <1>3 DEF Reqs, Same
<1>. HIDE DEF s
<1>5. RequestOK(s, events, sessions)
    BY <1>1, <1>3, <1>4 DEF RequestOK, Same
<1>. QED
    BY <1>2, <1>4, <1>5 DEF Goes

LEMMA ListRequest ==
    ASSUME TypeInv, NEW h \in AllSlots, List(h)
    PROVE  \E s : /\ Goes(h, s)
                  /\ s.pc # "done" /\ s.kind = "webhook" =>
                         Same(req[h], s) /\ s.pc = "load" /\ s.whole /\ s.ver = Len(events)
<1>. DEFINE r == req[h]
            sum == Summary(subs[r.cust], r.prof.bill)
            got == [r EXCEPT !.ver = Len(events), !.prof = NewProfile]
<1>1. /\ r \in Reqs /\ RequestOK(r, events, sessions) /\ r.pc = "list"
      /\ r.user \in User /\ r.cust \in Customer /\ subs[r.cust] \in Seq(Statuses)
      /\ NewProfile \in Profiles /\ Len(events) \in Nat /\ now \in Nat
  <2>1. r.pc = "list"
      BY Zenon DEF List
  <2>2. /\ r \in Reqs /\ RequestOK(r, events, sessions)
        /\ NewProfile \in Profiles /\ Len(events) \in Nat /\ now \in Nat
      BY Typed, FreeOK
  <2>3. r.user \in User /\ r.cust \in Customer
      BY <2>1, <2>2 DEF RequestOK
  <2>. QED
      BY <2>1, <2>2, <2>3, Typed
<1>2. r.prof.bill \in Bills
    BY <1>1 DEF Reqs, Profiles
<1>3. sum \in Bills
    BY <1>1, <1>2, SummaryType
<1>4. got \in Reqs /\ Same(r, got) /\ got.ver = Len(events)
    BY <1>1 DEF Reqs, Same
<1>5. \A b \in Bills, whole \in BOOLEAN, then \in Thens :
          LET s == Saving([got EXCEPT !.new = b], whole, then) IN
          s \in Reqs /\ Same(r, s) /\ s.pc = "load" /\ s.whole = whole /\ s.then = then /\ s.ver = Len(events)
  <2>. HIDE DEF got
  <2>. SUFFICES ASSUME NEW b \in Bills, NEW whole \in BOOLEAN, NEW then \in Thens
                PROVE  LET s == Saving([got EXCEPT !.new = b], whole, then) IN
                       /\ s \in Reqs /\ Same(r, s) /\ s.pc = "load" /\ s.whole = whole
                       /\ s.then = then /\ s.ver = Len(events)
      OBVIOUS
  <2>. DEFINE q == [got EXCEPT !.new = b]
  <2>1. q \in Reqs /\ Same(r, q) /\ q.ver = Len(events)
      BY <1>4 DEF Reqs, Same
  <2>. HIDE DEF q
  <2>2. LET s == Saving(q, whole, then) IN
        s \in Reqs /\ Same(q, s) /\ s.pc = "load" /\ s.whole = whole /\ s.then = then /\ s.ver = q.ver
      BY <2>1, SavingFields DEF Same
  <2>. QED
      BY <2>1, <2>2 DEF Same, q
<1>6. CASE r.kind = "webhook" /\ \E named \in BOOLEAN :
               Continue(h, Saving([got EXCEPT !.new = ApplyEvent(sum, events[r.ev], r.prof.bill, named)],
                                  TRUE, "mark"))
  <2>1. PICK named \in BOOLEAN :
               Continue(h, Saving([got EXCEPT !.new = ApplyEvent(sum, events[r.ev], r.prof.bill, named)],
                                  TRUE, "mark"))
      BY <1>6, Zenon
  <2>. DEFINE b == ApplyEvent(sum, events[r.ev], r.prof.bill, named)
              s == Saving([got EXCEPT !.new = b], TRUE, "mark")
  <2>2. r.ev \in DOMAIN events
      BY <1>1, <1>6 DEF RequestOK
  <2>3. b \in Bills
    <3>1. events[r.ev].at \in Nat
        BY <2>2, Listed
    <3>. HIDE DEF sum, got
    <3>. QED
        BY <1>2, <1>3, <3>1, ApplyEventType
  <2>4. Continue(h, s)
      BY <2>1
  <2>. HIDE DEF b
  <2>5. s \in Reqs /\ Same(r, s) /\ s.pc = "load" /\ s.whole = TRUE /\ s.then = "mark" /\ s.ver = Len(events)
    <3>1. TRUE \in BOOLEAN /\ "mark" \in Thens
        BY DEF Thens
    <3>. HIDE DEF got
    <3>. QED
        BY <1>5, <2>3, <3>1
  <2>. HIDE DEF s
  <2>6. RequestOK(s, events, sessions)
      BY <1>1, <1>6, <2>5 DEF RequestOK, Same
  <2>. QED
      BY <2>4, <2>5, <2>6 DEF Goes
<1>7. ASSUME NEW whole \in BOOLEAN, NEW then \in Thens,
             \/ r.kind = "status" /\ whole = TRUE /\ then = "done"
             \/ r.kind = "reconcile" /\ whole = FALSE /\ then = "snapshot",
             Continue(h, Saving([got EXCEPT !.new = sum], whole, then))
      PROVE  \E s : Goes(h, s) /\ s.kind # "webhook"
  <2>. DEFINE s == Saving([got EXCEPT !.new = sum], whole, then)
  <2>1. Continue(h, s)
      BY <1>7
  <2>2. s \in Reqs /\ Same(r, s) /\ s.pc = "load" /\ s.whole = whole /\ s.then = then /\ s.ver = Len(events)
    <3>. HIDE DEF got, sum
    <3>. QED
        BY <1>3, <1>5, <1>7
  <2>. HIDE DEF s
  <2>3. RequestOK(s, events, sessions) /\ s.kind # "webhook"
      BY <1>1, <1>7, <2>2 DEF RequestOK, Same
  <2>. QED
      BY <2>1, <2>3 DEF Goes
<1>8. CASE Continue(h, Free)
    BY <1>8, <1>1, FreeOK, FreeFields DEF Goes
<1>9. \/ r.kind = "webhook" /\ \E named \in BOOLEAN :
               Continue(h, Saving([got EXCEPT !.new = ApplyEvent(sum, events[r.ev], r.prof.bill, named)],
                                  TRUE, "mark"))
      \/ r.kind = "status" /\ Continue(h, Saving([got EXCEPT !.new = sum], TRUE, "done"))
      \/ r.kind = "reconcile" /\ Continue(h, Saving([got EXCEPT !.new = sum], FALSE, "snapshot"))
      \/ Continue(h, Free)
    BY Zenon DEF List
<1>10. TRUE \in BOOLEAN /\ FALSE \in BOOLEAN /\ "done" \in Thens /\ "snapshot" \in Thens
    BY DEF Thens
<1>11. CASE r.kind = "status" /\ Continue(h, Saving([got EXCEPT !.new = sum], TRUE, "done"))
  <2>. HIDE DEF got, sum
  <2>1. \E s : Goes(h, s) /\ s.kind # "webhook"
      BY <1>7, <1>10, <1>11
  <2>. QED
      BY <2>1
<1>12. CASE r.kind = "reconcile" /\ Continue(h, Saving([got EXCEPT !.new = sum], FALSE, "snapshot"))
  <2>. HIDE DEF got, sum
  <2>1. \E s : Goes(h, s) /\ s.kind # "webhook"
      BY <1>7, <1>10, <1>12
  <2>. QED
      BY <2>1
<1>. HIDE DEF got, sum
<1>. QED
    BY <1>6, <1>8, <1>9, <1>11, <1>12

LEMMA MarkRequest ==
    ASSUME TypeInv, NEW h \in AllSlots, Mark(h)
    PROVE  \E s : Goes(h, s) /\ s.kind = "webhook" /\ s.pc = "reply" /\ s.ev = req[h].ev
<1>. DEFINE r == req[h]
            s == [Free EXCEPT !.kind = "webhook", !.pc = "reply", !.ev = r.ev]
<1>1. r \in Reqs /\ RequestOK(r, events, sessions) /\ r.pc = "mark" /\ r.kind = "webhook" /\ Len(events) \in Nat
    BY Typed DEF Mark, RequestOK
<1>2. r.ev \in Nat /\ r.ev \in DOMAIN events
    BY <1>1 DEF Reqs, RequestOK
<1>3. s \in Reqs /\ s.kind = "webhook" /\ s.pc = "reply" /\ s.ev = r.ev /\ s.ver = 0
    BY <1>2, FreeFields DEF Reqs
<1>4. Continue(h, s)
    BY DEF Mark
<1>. HIDE DEF s
<1>5. RequestOK(s, events, sessions)
    BY <1>1, <1>2, <1>3 DEF RequestOK
<1>. QED
    BY <1>3, <1>4, <1>5 DEF Goes

\* The requests of pages and administrators are none of the webhook's.
LEMMA RetrieveRequest ==
    ASSUME TypeInv, NEW h \in AllSlots, Retrieve(h)
    PROVE  \E s : Goes(h, s) /\ s.kind # "webhook"
<1>. DEFINE r == req[h]
            c == IF sessions[r.chk].cust # None THEN sessions[r.chk].cust ELSE r.cust
<1>1. /\ r \in Reqs /\ RequestOK(r, events, sessions) /\ r.pc = "retrieve" /\ r.user \in User
      /\ r.chk \in DOMAIN sessions /\ r.kind \in {"status", "portal"} /\ Len(events) \in Nat
    BY Typed DEF Retrieve, RequestOK
<1>2. c \in Customer \cup {None} /\ None \notin Customer
    BY <1>1, Typed, Listed DEF Reqs
<1>3. CASE c = None
  <2>. DEFINE s == [r EXCEPT !.pc = "done"]
  <2>1. Continue(h, s)
      BY <1>3 DEF Retrieve
  <2>2. s.pc = "done" /\ s.kind = r.kind
      BY <1>1 DEF Reqs
  <2>. QED
      BY <1>1, <2>1, <2>2 DEF Goes
<1>4. CASE c # None
  <2>. DEFINE q == [r EXCEPT !.cust = c]
              then == IF r.kind = "portal" THEN "portal" ELSE "list"
              s == Saving(q, FALSE, then)
  <2>1. Continue(h, s)
      BY <1>4 DEF Retrieve
  <2>2. then \in Thens /\ then \in {"portal", "list"}
      BY DEF Thens
  <2>. HIDE DEF c, then
  <2>3. q \in Reqs /\ q.cust = c /\ q.kind = r.kind /\ q.user = r.user /\ q.ver = r.ver /\ q.chk = r.chk
      BY <1>1, <1>2, <1>4 DEF Reqs
  <2>. HIDE DEF q
  <2>4. FALSE \in BOOLEAN
      OBVIOUS
  <2>5. s \in Reqs /\ s.pc = "load" /\ s.whole = FALSE /\ s.then = then
        /\ s.kind = r.kind /\ s.cust = c /\ s.user = r.user /\ s.ver = r.ver
      BY <2>2, <2>3, <2>4, SavingFields
  <2>. HIDE DEF s
  <2>6. RequestOK(s, events, sessions)
      BY <1>1, <1>2, <1>4, <2>2, <2>5 DEF RequestOK
  <2>. QED
      BY <1>1, <2>1, <2>5, <2>6 DEF Goes
<1>. QED
    BY <1>3, <1>4

LEMMA CreateRequest ==
    ASSUME TypeInv, NEW h \in AllSlots, CreateCheckout(h)
    PROVE  \E s : Goes(h, s) /\ s.kind # "webhook"
<1>. DEFINE r == req[h]
            then == IF r.cust = None THEN "done" ELSE "rebind"
            s == Saving(r, FALSE, then)
<1>1. /\ r \in Reqs /\ RequestOK(r, events, sessions) /\ r.pc = "create" /\ r.user \in User
      /\ r.kind = "checkout"
    BY Typed DEF CreateCheckout, RequestOK
<1>2. Continue(h, s)
    BY DEF CreateCheckout
<1>3. then \in Thens /\ then \in {"done", "rebind"} /\ FALSE \in BOOLEAN
    BY DEF Thens
<1>. HIDE DEF then
<1>4. s \in Reqs /\ s.pc = "load" /\ s.whole = FALSE /\ s.then = then
      /\ s.kind = r.kind /\ s.user = r.user /\ s.ver = r.ver
    BY <1>1, <1>3, SavingFields
<1>. HIDE DEF s
<1>5. RequestOK(s, events, sessions)
    BY <1>1, <1>3, <1>4 DEF RequestOK
<1>. QED
    BY <1>1, <1>2, <1>4, <1>5 DEF Goes

LEMMA StatusRequest ==
    ASSUME TypeInv, NEW h \in AllSlots, NEW u \in User, NEW n \in {0} \cup DOMAIN sessions, StartStatus(h, u, n)
    PROVE  \E s : Goes(h, s) /\ s.kind # "webhook"
<1>. DEFINE p == profile[u]
            r == [Free EXCEPT !.kind = "status", !.user = u, !.prof = p, !.cust = p.cust, !.chk = n]
            pc == IF n = 0 THEN "list" ELSE "retrieve"
            s == [r EXCEPT !.pc = pc]
<1>1. p \in Profiles /\ None \notin Customer /\ Len(events) \in Nat
    BY Typed
<1>2. p.cust \in Customer \cup {None} /\ n \in Nat /\ r.cust = p.cust
  <2>1. r.cust = p.cust
      BY DEF Free
  <2>. QED
      BY <1>1, <2>1, Typed DEF Profiles, TypeInv, BillingTypeOK
<1>3. n # 0 \/ p.cust # None
    BY <1>2 DEF StartStatus
<1>4. Continue(h, s)
    BY DEF StartStatus
<1>5. (pc = "list" /\ n = 0) \/ (pc = "retrieve" /\ n \in DOMAIN sessions)
    OBVIOUS
<1>. HIDE DEF p
<1>6. r \in Reqs /\ r.kind = "status" /\ r.user = u /\ r.cust = p.cust /\ r.chk = n /\ r.ver = 0
    BY <1>1, <1>2, FreeFields DEF Reqs
<1>. HIDE DEF r, pc
<1>7. s \in Reqs /\ s.pc = pc /\ s.kind = "status" /\ s.user = u /\ s.cust = p.cust /\ s.chk = n /\ s.ver = 0
    BY <1>5, <1>6 DEF Reqs
<1>. HIDE DEF s
<1>8. RequestOK(s, events, sessions)
    BY <1>1, <1>2, <1>3, <1>5, <1>7 DEF RequestOK
<1>. QED
    BY <1>4, <1>7, <1>8 DEF Goes

LEMMA PortalRequest ==
    ASSUME TypeInv, NEW h \in AllSlots, NEW u \in User, NEW n \in {0} \cup DOMAIN sessions, StartPortal(h, u, n)
    PROVE  \E s : Goes(h, s) /\ s.kind # "webhook"
<1>. DEFINE c == profile[u].cust
            r == [Free EXCEPT !.kind = "portal", !.user = u, !.cust = c, !.chk = n]
            s == IF c = None THEN [r EXCEPT !.pc = "retrieve"] ELSE Saving(r, FALSE, "done")
<1>1. c \in Customer \cup {None} /\ None \notin Customer /\ Len(events) \in Nat
    BY Typed DEF Profiles
<1>2. n \in Nat
    BY Typed DEF TypeInv, BillingTypeOK
<1>3. r.cust = c
    BY DEF Free
<1>4. n # 0 \/ c # None
    BY <1>3 DEF StartPortal
<1>5. Continue(h, s)
    BY <1>3 DEF StartPortal
<1>. HIDE DEF c
<1>6. r \in Reqs /\ r.kind = "portal" /\ r.user = u /\ r.cust = c /\ r.chk = n /\ r.ver = 0
    BY <1>1, <1>2, FreeFields DEF Reqs
<1>. HIDE DEF r
<1>7. CASE c = None
  <2>1. s \in Reqs /\ s.pc = "retrieve" /\ s.kind = "portal" /\ s.user = u /\ s.chk = n /\ s.ver = 0
      BY <1>6, <1>7 DEF Reqs
  <2>. HIDE DEF s
  <2>2. RequestOK(s, events, sessions)
      BY <1>1, <1>4, <1>7, <2>1 DEF RequestOK
  <2>. QED
      BY <1>5, <2>1, <2>2 DEF Goes
<1>8. CASE c # None
  <2>1. FALSE \in BOOLEAN /\ "done" \in Thens
      BY DEF Thens
  <2>2. s = Saving(r, FALSE, "done")
      BY <1>8
  <2>. HIDE DEF s
  <2>3. s \in Reqs /\ s.pc = "load" /\ s.whole = FALSE /\ s.then = "done" /\ s.kind = "portal" /\ s.user = u /\ s.ver = 0
      BY <1>6, <2>1, <2>2, SavingFields
  <2>4. RequestOK(s, events, sessions)
      BY <1>1, <2>3 DEF RequestOK
  <2>. QED
      BY <1>5, <2>3, <2>4 DEF Goes
<1>. QED
    BY <1>7, <1>8

LEMMA CheckoutRequest ==
    ASSUME TypeInv, NEW h \in AllSlots, NEW u \in User, StartCheckout(h, u)
    PROVE  \E s : Goes(h, s) /\ s.kind # "webhook"
<1>. DEFINE c == profile[u].cust
            s == [Free EXCEPT !.kind = "checkout", !.user = u, !.pc = "create", !.cust = c]
<1>1. c \in Customer \cup {None} /\ Len(events) \in Nat
    BY Typed DEF Profiles
<1>2. Continue(h, s)
    BY DEF StartCheckout
<1>. HIDE DEF c
<1>3. s \in Reqs /\ s.kind = "checkout" /\ s.user = u /\ s.pc = "create" /\ s.ver = 0
    BY <1>1, FreeFields DEF Reqs
<1>. HIDE DEF s
<1>4. RequestOK(s, events, sessions)
    BY <1>1, <1>3 DEF RequestOK
<1>. QED
    BY <1>2, <1>3, <1>4 DEF Goes

LEMMA ReconcileRequest ==
    ASSUME TypeInv, NEW h \in AllSlots, NEW u \in User, StartReconcile(h, u)
    PROVE  \E s : Goes(h, s) /\ s.kind # "webhook"
<1>. DEFINE p == profile[u]
            s == [Free EXCEPT !.kind = "reconcile", !.user = u, !.pc = "list", !.prof = p, !.cust = p.cust]
<1>1. p \in Profiles /\ Len(events) \in Nat
    BY Typed
<1>2. p.cust \in Customer
    BY <1>1 DEF StartReconcile, Profiles
<1>3. Continue(h, s)
    BY DEF StartReconcile
<1>. HIDE DEF p
<1>4. s \in Reqs /\ s.kind = "reconcile" /\ s.user = u /\ s.pc = "list" /\ s.cust = p.cust /\ s.ver = 0
    BY <1>1, <1>2, FreeFields DEF Reqs
<1>. HIDE DEF s
<1>5. RequestOK(s, events, sessions)
    BY <1>1, <1>2, <1>4 DEF RequestOK
<1>. QED
    BY <1>3, <1>4, <1>5 DEF Goes

LEMMA CustomerRequest ==
    ASSUME TypeInv, NEW h \in AllSlots, NEW c \in Customer, ReconcileCustomer(h, c)
    PROVE  \E s : Goes(h, s) /\ s.kind # "webhook"
<1>. DEFINE s == [Free EXCEPT !.kind = "reconcile", !.cust = c, !.pc = "lookup"]
<1>1. Continue(h, s) /\ Len(events) \in Nat
    BY Typed DEF ReconcileCustomer
<1>2. s \in Reqs /\ s.kind = "reconcile" /\ s.user = None /\ s.pc = "lookup" /\ s.cust = c /\ s.ver = 0
    BY FreeFields DEF Reqs
<1>. HIDE DEF s
<1>3. RequestOK(s, events, sessions)
    BY <1>1, <1>2 DEF RequestOK
<1>. QED
    BY <1>1, <1>2, <1>3 DEF Goes

LEMMA FreedRequest ==
    ASSUME TypeInv, NEW h \in AllSlots, Continue(h, Free)
    PROVE  \E s : Goes(h, s) /\ s.kind # "webhook"
  BY FreeOK, FreeFields, Typed DEF Goes

-----------------------------------------------------------------------------
(* Type correctness *)

LEMMA Progress ==
    ASSUME TypeInv, NEW h \in AllSlots, NEW s, Goes(h, s)
    PROVE  /\ req' \in [AllSlots -> Reqs]
           /\ \A x \in AllSlots : RequestOK(req'[x], events, sessions)
           /\ \A x \in AllSlots : req'[x] = IF x # h THEN req[x] ELSE IF s.pc = "done" THEN Free ELSE s
  BY Typed, Continues DEF Goes

\* The conjuncts of the type invariant after a step, whose requests fit the lists before it.
LEMMA TypedAgain ==
    ASSUME TypeInv,
           now' \in 1 .. MaxTime, subs' \in [Customer -> Seq(Statuses)],
           events' \in Seq([cust : Customer, type : EventTypes, at : Nat]), Len(events') <= MaxEvents,
           Grows(events, events'), DOMAIN sessions \subseteq DOMAIN sessions',
           marked' \in Seq({"no", "bound", "unbound"}), Len(marked') = Len(events'),
           sessions' \in Seq([user : User, cust : Customer \cup {None}, paid : BOOLEAN]),
           acked' \subseteq DOMAIN events', profile' \in [User -> Profiles],
           index' \in [Customer -> User \cup {None}], batch' \subseteq User,
           seen' \in [Customer -> 0 .. MaxEvents],
           req' \in [AllSlots -> Reqs], \A x \in AllSlots : RequestOK(req'[x], events, sessions)
    PROVE  TypeInv'
<1>1. Len(events) \in Nat /\ Len(events') \in Nat /\ DOMAIN events = 1 .. Len(events)
      /\ DOMAIN events' = 1 .. Len(events')
    BY Typed, Listed
<1>2. Len(events) <= Len(events')
  <2>1. CASE Len(events) = 0
      BY <1>1, <2>1
  <2>2. CASE Len(events) # 0
    <3>1. Len(events) \in DOMAIN events
        BY <1>1, <2>2
    <3>2. Len(events) \in DOMAIN events'
        BY <3>1 DEF Grows
    <3>. QED
        BY <1>1, <3>2
  <2>. QED
      BY <2>1, <2>2
<1>3. \A x \in AllSlots : RequestOK(req'[x], events', sessions')
    BY <1>1, <1>2, RequestGrows
<1>4. \A x \in AllSlots : req'[x].base \in Profiles /\ req'[x].new \in Bills
  <2>1. \A x \in AllSlots : req'[x] \in Reqs
      BY DEF RequestOK
  <2>. QED
      BY <2>1 DEF Reqs
<1>5. BillingTypeOK'
    BY <1>4, Zenon DEF BillingTypeOK
<1>. QED
    BY <1>3, <1>5, Zenon DEF TypeInv

LEMMA TypesNow ==
    ASSUME TypeInv
    PROVE  /\ now \in 1 .. MaxTime /\ subs \in [Customer -> Seq(Statuses)]
           /\ events \in Seq([cust : Customer, type : EventTypes, at : Nat]) /\ Len(events) <= MaxEvents
           /\ Grows(events, events)
           /\ marked \in Seq({"no", "bound", "unbound"}) /\ Len(marked) = Len(events)
           /\ sessions \in Seq([user : User, cust : Customer \cup {None}, paid : BOOLEAN])
           /\ acked \subseteq DOMAIN events /\ profile \in [User -> Profiles]
           /\ index \in [Customer -> User \cup {None}] /\ batch \subseteq User
           /\ seen \in [Customer -> 0 .. MaxEvents]
           /\ req \in [AllSlots -> Reqs] /\ \A x \in AllSlots : RequestOK(req[x], events, sessions)
<1>1. Grows(events, events)
    BY DEF Grows
<1>. QED
    BY <1>1, Zenon DEF TypeInv, BillingTypeOK

\* Most steps change the requests, and what Stripe has been answered or the job has to do.
LEMMA RequestTypes ==
    ASSUME TypeInv, NEW h \in AllSlots, NEW s, Goes(h, s),
           UNCHANGED <<now, stripe, stored, marked, seen>>,
           acked' \subseteq DOMAIN events, batch' \subseteq User
    PROVE  TypeInv'
<1>1. req' \in [AllSlots -> Reqs] /\ \A x \in AllSlots : RequestOK(req'[x], events, sessions)
    BY Progress
<1>2. /\ now' = now /\ subs' = subs /\ events' = events /\ sessions' = sessions /\ marked' = marked
      /\ profile' = profile /\ index' = index /\ seen' = seen
    BY DEF stripe, stored
<1>. QED
    BY <1>1, <1>2, TypesNow, TypedAgain

\* A write never loses the user of a customer, nor an earlier listing.
LEMMA StoreEffects ==
    ASSUME TypeInv, NEW h \in AllSlots, Store(h)
    PROVE  /\ req[h].pc = "store" /\ Continue(h, AfterStore(req[h]))
           /\ profile' \in [User -> Profiles] /\ index' \in [Customer -> User \cup {None}]
           /\ seen' \in [Customer -> 0 .. MaxEvents]
           /\ \A c \in Customer : index[c] # None => index'[c] # None
           /\ \A c \in Customer : seen[c] <= seen'[c]
           /\ req[h].cust # None => index'[req[h].cust] # None
           /\ req[h].whole => req[h].ver <= seen'[req[h].cust]
<1>. DEFINE r == req[h]
<1>1. /\ r.pc = "store" /\ Continue(h, AfterStore(r))
      /\ profile' = [profile EXCEPT ![r.user] = Merged(r)]
      /\ index' = IF r.cust = None THEN index ELSE [index EXCEPT ![r.cust] = r.user]
      /\ seen' = IF r.whole THEN [seen EXCEPT ![r.cust] = Larger(@, r.ver)] ELSE seen
    BY Zenon DEF Store, AfterStore
<1>2. /\ r \in Reqs /\ RequestOK(r, events, sessions) /\ Len(events) <= MaxEvents /\ Len(events) \in Nat
      /\ profile \in [User -> Profiles] /\ index \in [Customer -> User \cup {None}]
      /\ seen \in [Customer -> 0 .. MaxEvents] /\ None \notin User /\ None \notin Customer /\ MaxEvents \in Nat
    BY Typed
<1>3. r.user \in User /\ r.cust \in Customer \cup {None} /\ r.ver \in Nat /\ r.ver <= MaxEvents
      /\ (r.whole => r.cust \in Customer)
    BY <1>1, <1>2 DEF RequestOK, Reqs
<1>4. Merged(r) \in Profiles
    BY <1>2 DEF Merged, Reqs, Profiles
<1>. HIDE DEF r
<1>5. profile' \in [User -> Profiles]
    BY <1>1, <1>2, <1>4
<1>6. /\ index' \in [Customer -> User \cup {None}] /\ (r.cust # None => index'[r.cust] # None)
      /\ \A c \in Customer : index[c] # None => index'[c] # None
    BY <1>1, <1>2, <1>3
<1>7. \A c \in Customer : Larger(seen[c], r.ver) \in 0 .. MaxEvents /\ seen[c] <= Larger(seen[c], r.ver)
                          /\ r.ver <= Larger(seen[c], r.ver)
    BY <1>2, <1>3 DEF Larger
<1>8. /\ seen' \in [Customer -> 0 .. MaxEvents] /\ (r.whole => r.ver <= seen'[r.cust])
      /\ \A c \in Customer : seen[c] <= seen'[c]
  <2>1. CASE r.whole
    <3>1. /\ seen' = [seen EXCEPT ![r.cust] = Larger(seen[r.cust], r.ver)] /\ r.cust \in Customer
          /\ Larger(seen[r.cust], r.ver) \in 0 .. MaxEvents
        BY <1>1, <1>3, <1>7, <2>1
    <3>2. seen' \in [Customer -> 0 .. MaxEvents]
        BY <1>2, <3>1
    <3>3. \A c \in Customer : seen'[c] = IF c = r.cust THEN Larger(seen[c], r.ver) ELSE seen[c]
        BY <1>2, <3>1
    <3>4. \A c \in Customer : seen[c] <= seen[c]
        BY <1>2
    <3>. QED
        BY <1>7, <3>1, <3>2, <3>3, <3>4
  <2>2. CASE ~r.whole
    <3>1. seen' = seen
        BY <1>1, <2>2
    <3>2. \A c \in Customer : seen[c] <= seen[c]
        BY <1>2
    <3>. QED
        BY <1>2, <2>2, <3>1, <3>2
  <2>. QED
      BY <2>1, <2>2
<1>. QED
    BY <1>1, <1>5, <1>6, <1>8 DEF r

LEMMA StoreTypes ==
    ASSUME TypeInv, NEW h \in AllSlots, Store(h)
    PROVE  TypeInv'
<1>1. /\ req[h].pc = "store" /\ Continue(h, AfterStore(req[h]))
      /\ profile' \in [User -> Profiles] /\ index' \in [Customer -> User \cup {None}]
      /\ seen' \in [Customer -> 0 .. MaxEvents]
    BY StoreEffects
<1>2. PICK s : Goes(h, s)
    BY <1>1, StoreRequest
<1>3. req' \in [AllSlots -> Reqs] /\ \A x \in AllSlots : RequestOK(req'[x], events, sessions)
    BY <1>2, Progress
<1>4. /\ now' = now /\ subs' = subs /\ events' = events /\ sessions' = sessions /\ marked' = marked
      /\ acked' = acked /\ batch' = batch
    BY DEF Store, stripe
<1>. QED
    BY <1>1, <1>3, <1>4, TypesNow, TypedAgain

\* What an event of Stripe adds.
LEMMA EmitTypes ==
    ASSUME TypeInv, NEW c \in Customer, NEW type \in EventTypes, Emit(c, type)
    PROVE  /\ events' \in Seq([cust : Customer, type : EventTypes, at : Nat]) /\ Len(events') <= MaxEvents
           /\ Len(events') = Len(events) + 1 /\ Grows(events, events')
           /\ marked' \in Seq({"no", "bound", "unbound"}) /\ Len(marked') = Len(events')
           /\ \A e \in DOMAIN events : events'[e] = events[e] /\ marked'[e] = marked[e]
           /\ LET n == Len(events') IN
              n \notin DOMAIN events /\ events'[n].cust = c /\ events'[n].type = type /\ marked'[n] = "no"
           /\ acked \subseteq DOMAIN events'
<1>. DEFINE E == [cust : Customer, type : EventTypes, at : Nat]
            M == {"no", "bound", "unbound"}
            ev == [cust |-> c, type |-> type, at |-> now]
<1>1. /\ events \in Seq(E) /\ marked \in Seq(M) /\ Len(marked) = Len(events) /\ acked \subseteq DOMAIN events
    BY TypesNow
<1>2. /\ Len(events) < MaxEvents /\ events' = Append(events, ev) /\ marked' = Append(marked, "no")
    BY DEF Emit
<1>3. ev \in E /\ ev.cust = c /\ ev.type = type /\ "no" \in M /\ Len(events) \in Nat /\ MaxEvents \in Nat
    BY Typed
<1>. HIDE DEF E, M, ev
<1>4. /\ events' \in Seq(E) /\ marked' \in Seq(M)
      /\ Len(events') = Len(events) + 1 /\ Len(marked') = Len(events) + 1
    BY <1>1, <1>2, <1>3
<1>5. \A e \in DOMAIN events : events'[e] = events[e] /\ marked'[e] = marked[e]
    BY <1>1, <1>2, <1>3
<1>6. events'[Len(events) + 1] = ev /\ marked'[Len(events) + 1] = "no"
    BY <1>1, <1>2, <1>3
<1>7. DOMAIN events = 1 .. Len(events) /\ DOMAIN events' = 1 .. Len(events')
    BY <1>1, <1>4
<1>8. Grows(events, events') /\ acked \subseteq DOMAIN events' /\ Len(events) + 1 \notin DOMAIN events
    BY <1>1, <1>3, <1>4, <1>5, <1>7 DEF Grows
<1>9. Len(events') <= MaxEvents
    BY <1>2, <1>3, <1>4
<1>. QED
    BY <1>3, <1>4, <1>5, <1>6, <1>8, <1>9 DEF E, M

LEMMA StatusChanges ==
    ASSUME NEW list \in Seq(Statuses), NEW s \in Statuses
    PROVE  /\ Append(list, s) \in Seq(Statuses)
           /\ \A i \in DOMAIN list : [list EXCEPT ![i] = s] \in Seq(Statuses)
<1>1. \A i \in DOMAIN list : [list EXCEPT ![i] = s] \in Seq(Statuses)
  <2>1. list \in [1 .. Len(list) -> Statuses] /\ Len(list) \in Nat /\ DOMAIN list = 1 .. Len(list)
      OBVIOUS
  <2>2. \A i \in DOMAIN list : [list EXCEPT ![i] = s] \in [1 .. Len(list) -> Statuses]
      BY <2>1
  <2>. QED
      BY <2>1, <2>2, SeqDef
<1>. QED
    BY <1>1

\* A paid session names its customer, and what was paid stays as it was.
LEMMA PayEffects ==
    ASSUME TypeInv, NEW n \in DOMAIN sessions, Pay(n)
    PROVE  \E c \in Customer :
             /\ Emit(c, "checkout")
             /\ subs' \in [Customer -> Seq(Statuses)] /\ \A d \in Customer : d # c => subs'[d] = subs[d]
             /\ sessions' \in Seq([user : User, cust : Customer \cup {None}, paid : BOOLEAN])
             /\ DOMAIN sessions' = DOMAIN sessions /\ sessions'[n].cust = c /\ sessions'[n].paid
             /\ \A m \in DOMAIN sessions : sessions[m].paid => sessions'[m] = sessions[m]
<1>. DEFINE S == [user : User, cust : Customer \cup {None}, paid : BOOLEAN]
<1>1. PICK c \in Customer : /\ subs' = [subs EXCEPT ![c] = Append(@, "active")]
                            /\ sessions' = [sessions EXCEPT ![n].cust = c, ![n].paid = TRUE]
                            /\ Emit(c, "checkout") /\ ~sessions[n].paid
    BY Zenon DEF Pay
<1>2. /\ subs \in [Customer -> Seq(Statuses)] /\ sessions \in Seq(S) /\ "active" \in Statuses
    BY TypesNow DEF Statuses
<1>3. subs' = [subs EXCEPT ![c] = Append(subs[c], "active")] /\ Append(subs[c], "active") \in Seq(Statuses)
    BY <1>1, <1>2, StatusChanges
<1>4. subs' \in [Customer -> Seq(Statuses)] /\ \A d \in Customer : d # c => subs'[d] = subs[d]
    BY <1>2, <1>3
<1>5. /\ Len(sessions) \in Nat /\ DOMAIN sessions = 1 .. Len(sessions)
      /\ sessions \in [1 .. Len(sessions) -> S]
  <2>. HIDE DEF S
  <2>. QED
      BY <1>2
<1>6. sessions[n] \in S
    BY <1>5
<1>. DEFINE s == [sessions[n] EXCEPT !.cust = c, !.paid = TRUE]
<1>7. s \in S /\ s.cust = c /\ s.paid
    BY <1>6
<1>8. sessions' = [sessions EXCEPT ![n] = s]
    BY <1>1, <1>5
<1>. HIDE DEF S, s
<1>9. sessions' \in [1 .. Len(sessions) -> S] /\ DOMAIN sessions' = DOMAIN sessions /\ sessions'[n] = s
    BY <1>5, <1>7, <1>8
<1>10. sessions' \in Seq(S)
    BY <1>5, <1>9, SeqDef
<1>11. \A m \in DOMAIN sessions : sessions[m].paid => sessions'[m] = sessions[m]
    BY <1>1, <1>5, <1>8
<1>. QED
    BY <1>1, <1>4, <1>7, <1>9, <1>10, <1>11 DEF S

LEMMA PayTypes ==
    ASSUME TypeInv, NEW n \in DOMAIN sessions, Pay(n)
    PROVE  TypeInv'
<1>1. PICK c \in Customer :
             /\ Emit(c, "checkout") /\ subs' \in [Customer -> Seq(Statuses)]
             /\ sessions' \in Seq([user : User, cust : Customer \cup {None}, paid : BOOLEAN])
             /\ DOMAIN sessions' = DOMAIN sessions
    BY PayEffects
<1>2. "checkout" \in EventTypes
    BY DEF EventTypes
<1>3. /\ events' \in Seq([cust : Customer, type : EventTypes, at : Nat]) /\ Len(events') <= MaxEvents
      /\ Grows(events, events')
      /\ marked' \in Seq({"no", "bound", "unbound"}) /\ Len(marked') = Len(events')
      /\ acked \subseteq DOMAIN events'
    BY <1>1, <1>2, EmitTypes
<1>4. /\ now' = now /\ acked' = acked /\ profile' = profile /\ index' = index /\ req' = req
      /\ batch' = batch /\ seen' = seen
    BY DEF Pay, stored
<1>5. acked' \subseteq DOMAIN events' /\ DOMAIN sessions \subseteq DOMAIN sessions'
    BY <1>1, <1>3, <1>4
<1>. QED
    BY <1>1, <1>3, <1>4, <1>5, TypesNow, TypedAgain

LEMMA ChangeEffects ==
    ASSUME TypeInv, NEW c \in Customer, NEW i \in DOMAIN subs[c], NEW type, Change(c, i, type)
    PROVE  /\ subs' \in [Customer -> Seq(Statuses)]
           /\ subs[c] # <<>> /\ \A d \in Customer : d # c => subs'[d] = subs[d]
<1>. DEFINE s == CASE type = "failed"  -> "past_due"
                   [] type = "paid"    -> "active"
                   [] type = "deleted" -> "canceled"
                   [] OTHER            -> subs[c][i]
<1>1. subs \in [Customer -> Seq(Statuses)] /\ subs[c] \in Seq(Statuses)
    BY TypesNow
<1>2. subs' = [subs EXCEPT ![c] = [subs[c] EXCEPT ![i] = s]]
    BY <1>1 DEF Change
<1>3. subs[c][i] \in Statuses /\ subs[c] # <<>>
    BY <1>1
<1>4. s \in Statuses
    BY <1>3 DEF Statuses
<1>. HIDE DEF s
<1>5. [subs[c] EXCEPT ![i] = s] \in Seq(Statuses)
    BY <1>1, <1>4, StatusChanges
<1>. QED
    BY <1>1, <1>2, <1>3, <1>5

LEMMA ChangeTypes ==
    ASSUME TypeInv, NEW c \in Customer, NEW i \in DOMAIN subs[c], NEW type \in EventTypes, Change(c, i, type)
    PROVE  TypeInv'
<1>1. subs' \in [Customer -> Seq(Statuses)]
    BY ChangeEffects
<1>2. /\ now' = now /\ sessions' = sessions /\ acked' = acked /\ profile' = profile /\ index' = index
      /\ req' = req /\ batch' = batch /\ seen' = seen /\ Emit(c, type)
    BY DEF Change, stored
<1>3. /\ events' \in Seq([cust : Customer, type : EventTypes, at : Nat]) /\ Len(events') <= MaxEvents
      /\ Grows(events, events')
      /\ marked' \in Seq({"no", "bound", "unbound"}) /\ Len(marked') = Len(events')
      /\ acked \subseteq DOMAIN events'
    BY <1>2, EmitTypes
<1>4. acked' \subseteq DOMAIN events' /\ DOMAIN sessions \subseteq DOMAIN sessions'
    BY <1>2, <1>3
<1>. QED
    BY <1>1, <1>2, <1>3, <1>4, TypesNow, TypedAgain

LEMMA CreateTypes ==
    ASSUME TypeInv, NEW h \in AllSlots, CreateCheckout(h)
    PROVE  /\ TypeInv'
           /\ DOMAIN sessions \subseteq DOMAIN sessions'
           /\ \A m \in DOMAIN sessions : sessions'[m] = sessions[m]
<1>. DEFINE S == [user : User, cust : Customer \cup {None}, paid : BOOLEAN]
            r == req[h]
            t == [user |-> r.user, cust |-> r.cust, paid |-> FALSE]
<1>1. PICK s : Goes(h, s)
    BY CreateRequest
<1>2. req' \in [AllSlots -> Reqs] /\ \A x \in AllSlots : RequestOK(req'[x], events, sessions)
    BY <1>1, Progress
<1>3. r.pc = "create" /\ r \in Reqs /\ RequestOK(r, events, sessions) /\ sessions' = Append(sessions, t)
    BY TypesNow DEF CreateCheckout
<1>4. t \in S
    BY <1>3 DEF RequestOK, Reqs
<1>5. sessions \in Seq(S)
    BY TypesNow
<1>. HIDE DEF S, t
<1>6. /\ sessions' \in Seq(S) /\ DOMAIN sessions \subseteq DOMAIN sessions'
      /\ \A m \in DOMAIN sessions : sessions'[m] = sessions[m]
    BY <1>3, <1>4, <1>5
<1>7. /\ now' = now /\ subs' = subs /\ events' = events /\ marked' = marked /\ acked' = acked
      /\ profile' = profile /\ index' = index /\ batch' = batch /\ seen' = seen
    BY DEF CreateCheckout, stored
<1>8. TypeInv'
    BY <1>2, <1>6, <1>7, TypesNow, TypedAgain DEF S
<1>. QED
    BY <1>6, <1>8

LEMMA MarkTypes ==
    ASSUME TypeInv, NEW h \in AllSlots, Mark(h)
    PROVE  /\ TypeInv'
           /\ req[h].kind = "webhook" /\ req[h].ev \in DOMAIN events
           /\ \A e \in DOMAIN events :
                marked'[e] = IF e # req[h].ev THEN marked[e]
                             ELSE IF req[h].user = None THEN "unbound" ELSE "bound"
<1>. DEFINE M == {"no", "bound", "unbound"}
            r == req[h]
            m == IF r.user = None THEN "unbound" ELSE "bound"
<1>1. PICK s : Goes(h, s)
    BY MarkRequest
<1>2. req' \in [AllSlots -> Reqs] /\ \A x \in AllSlots : RequestOK(req'[x], events, sessions)
    BY <1>1, Progress
<1>3. r.pc = "mark" /\ RequestOK(r, events, sessions) /\ marked' = [marked EXCEPT ![r.ev] = m]
    BY TypesNow DEF Mark
<1>4. r.kind = "webhook" /\ r.ev \in DOMAIN events
    BY <1>3 DEF RequestOK
<1>5. marked \in Seq(M) /\ m \in M /\ Len(marked) = Len(events) /\ Len(events) \in Nat
      /\ DOMAIN events = 1 .. Len(events)
    BY TypesNow, Typed, Listed
<1>. HIDE DEF M, m, r
<1>6. /\ marked' \in [1 .. Len(marked) -> M]
      /\ \A e \in DOMAIN events : marked'[e] = IF e # r.ev THEN marked[e] ELSE m
    BY <1>3, <1>4, <1>5
<1>7. marked' \in Seq(M) /\ Len(marked') = Len(events)
  <2>1. marked' \in Seq(M)
      BY <1>5, <1>6, SeqDef
  <2>2. DOMAIN marked' = 1 .. Len(events)
      BY <1>5, <1>6
  <2>. QED
      BY <1>5, <2>1, <2>2
<1>8. /\ now' = now /\ subs' = subs /\ events' = events /\ sessions' = sessions /\ acked' = acked
      /\ profile' = profile /\ index' = index /\ batch' = batch /\ seen' = seen
    BY DEF Mark, stripe, stored
<1>9. TypeInv'
    BY <1>2, <1>7, <1>8, TypesNow, TypedAgain DEF M
<1>. QED
    BY <1>4, <1>6, <1>9 DEF r, m

\* The steps that are none of Stripe's nor of a webhook that goes on.
Apart ==
    \/ Tick \/ Nightly
    \/ \E h \in Slot :
         \/ \E u \in User, n \in {0} \cup DOMAIN sessions : StartStatus(h, u, n) \/ StartPortal(h, u, n)
         \/ \E u \in User : StartCheckout(h, u) \/ ReconcileUser(h, u)
         \/ \E c \in Customer : ReconcileCustomer(h, c)
    \/ \E h \in AllSlots : Reply(h) \/ Retrieve(h) \/ Fault(h)

\* The steps that a request of a webhook, or another, goes on with.
Onward(h) == Load(h) \/ Store(h) \/ Lookup(h) \/ ReadProfile(h) \/ List(h) \/ Mark(h) \/ CreateCheckout(h)

LEMMA NextCases ==
    ASSUME Next
    PROVE  \/ \E n \in DOMAIN sessions : Pay(n)
           \/ \E c \in Customer : \E i \in DOMAIN subs[c] :
                \E type \in EventTypes \ {"checkout"} : Change(c, i, type)
           \/ Apart
           \/ \E h \in AllSlots : \E e \in DOMAIN events : Deliver(h, e)
           \/ \E h \in AllSlots : Onward(h)
<1>1. CASE \E h \in Slot : Start(h)
  <2>1. Slot \subseteq AllSlots
      BY DEF AllSlots
  <2>. QED
      BY <1>1, <2>1, Zenon DEF Start, Apart
<1>2. CASE \E h \in AllSlots : Step(h) \/ Fault(h)
    BY <1>2, Zenon DEF Step, Onward, Apart
<1>3. CASE Stripe
    BY <1>3, Zenon DEF Stripe
<1>4. CASE Tick \/ Nightly
    BY <1>4, Zenon DEF Apart
<1>. QED
    BY <1>1, <1>2, <1>3, <1>4, Zenon DEF Next

LEMMA ApartSteps ==
    ASSUME TypeInv, Apart
    PROVE  /\ UNCHANGED <<stripe, stored, marked, seen>>
           /\ now' \in 1 .. MaxTime /\ acked' \subseteq DOMAIN events /\ batch' \subseteq User
           /\ \/ UNCHANGED req
              \/ \E h \in AllSlots : \E s : Goes(h, s) /\ s.kind # "webhook"
<1>1. now \in 1 .. MaxTime /\ acked \subseteq DOMAIN events /\ batch \subseteq User /\ MaxTime \in Nat
    BY TypesNow, BillingAssumption
<1>2. CASE Tick
    BY <1>1, <1>2 DEF Tick
<1>3. CASE NightlyStarts
    BY <1>1, <1>3 DEF NightlyStarts
<1>4. CASE \E u \in User : NightlyCalls(u)
  <2>1. PICK u \in User : NightlyCalls(u)
      BY <1>4
  <2>2. JobSlot \in AllSlots
      BY DEF AllSlots
  <2>3. batch' = batch \ {u} /\ UNCHANGED <<now, stripe, acked, stored, marked, seen>>
      BY <2>1 DEF NightlyCalls, StartReconcile
  <2>4. StartReconcile(JobSlot, u) \/ UNCHANGED req
      BY <2>1 DEF NightlyCalls
  <2>. QED
      BY <1>1, <2>2, <2>3, <2>4, ReconcileRequest
<1>5. ASSUME NEW h \in Slot,
             \/ \E u \in User, n \in {0} \cup DOMAIN sessions : StartStatus(h, u, n) \/ StartPortal(h, u, n)
             \/ \E u \in User : StartCheckout(h, u) \/ ReconcileUser(h, u)
             \/ \E c \in Customer : ReconcileCustomer(h, c)
      PROVE  /\ UNCHANGED <<now, stripe, stored, marked, seen, acked, batch>>
             /\ \E x \in AllSlots : \E s : Goes(x, s) /\ s.kind # "webhook"
  <2>1. h \in AllSlots
      BY DEF AllSlots
  <2>2. ASSUME NEW u \in User, NEW n \in {0} \cup DOMAIN sessions, StartStatus(h, u, n)
        PROVE  UNCHANGED <<now, stripe, stored, marked, seen, acked, batch>> /\ \E s : Goes(h, s) /\ s.kind # "webhook"
    <3>1. \E s : Goes(h, s) /\ s.kind # "webhook"
        BY <2>1, <2>2, StatusRequest
    <3>. QED
        BY <2>2, <3>1, Zenon DEF StartStatus
  <2>3. ASSUME NEW u \in User, NEW n \in {0} \cup DOMAIN sessions, StartPortal(h, u, n)
        PROVE  UNCHANGED <<now, stripe, stored, marked, seen, acked, batch>> /\ \E s : Goes(h, s) /\ s.kind # "webhook"
    <3>1. \E s : Goes(h, s) /\ s.kind # "webhook"
        BY <2>1, <2>3, PortalRequest
    <3>. QED
        BY <2>3, <3>1, Zenon DEF StartPortal
  <2>4. ASSUME NEW u \in User, StartCheckout(h, u)
        PROVE  UNCHANGED <<now, stripe, stored, marked, seen, acked, batch>> /\ \E s : Goes(h, s) /\ s.kind # "webhook"
    <3>1. \E s : Goes(h, s) /\ s.kind # "webhook"
        BY <2>1, <2>4, CheckoutRequest
    <3>. QED
        BY <2>4, <3>1, Zenon DEF StartCheckout
  <2>5. ASSUME NEW u \in User, ReconcileUser(h, u)
        PROVE  UNCHANGED <<now, stripe, stored, marked, seen, acked, batch>> /\ \E s : Goes(h, s) /\ s.kind # "webhook"
    <3>1. StartReconcile(h, u) /\ UNCHANGED batch
        BY <2>5 DEF ReconcileUser
    <3>2. \E s : Goes(h, s) /\ s.kind # "webhook"
        BY <2>1, <3>1, ReconcileRequest
    <3>. QED
        BY <3>1, <3>2, Zenon DEF StartReconcile
  <2>6. ASSUME NEW c \in Customer, ReconcileCustomer(h, c)
        PROVE  UNCHANGED <<now, stripe, stored, marked, seen, acked, batch>> /\ \E s : Goes(h, s) /\ s.kind # "webhook"
    <3>1. \E s : Goes(h, s) /\ s.kind # "webhook"
        BY <2>1, <2>6, CustomerRequest
    <3>. QED
        BY <2>6, <3>1, Zenon DEF ReconcileCustomer
  <2>. QED
      BY <1>5, <2>1, <2>2, <2>3, <2>4, <2>5, <2>6, Zenon
<1>6. CASE \E h \in AllSlots : Reply(h)
  <2>1. PICK h \in AllSlots : Reply(h)
      BY <1>6
  <2>2. RequestOK(req[h], events, sessions) /\ req[h].pc = "reply" /\ acked' = acked \cup {req[h].ev}
        /\ Continue(h, Free)
      BY <2>1, TypesNow DEF Reply
  <2>3. req[h].ev \in DOMAIN events
      BY <2>2 DEF RequestOK
  <2>4. UNCHANGED <<now, stripe, stored, marked, seen, batch>>
      BY <2>1, Zenon DEF Reply
  <2>. QED
      BY <1>1, <2>2, <2>3, <2>4, FreedRequest
<1>7. CASE \E h \in AllSlots : Retrieve(h)
  <2>1. PICK h \in AllSlots : Retrieve(h)
      BY <1>7
  <2>2. UNCHANGED <<now, stripe, stored, marked, seen, acked, batch>>
      BY <2>1, Zenon DEF Retrieve
  <2>. QED
      BY <1>1, <2>1, <2>2, RetrieveRequest
<1>8. CASE \E h \in AllSlots : Fault(h)
  <2>1. PICK h \in AllSlots : Fault(h)
      BY <1>8
  <2>2. UNCHANGED <<now, stripe, stored, marked, seen, acked, batch>> /\ Continue(h, Free)
      BY <2>1, Zenon DEF Fault
  <2>. QED
      BY <1>1, <2>2, FreedRequest
<1>9. CASE \E h \in Slot :
             \/ \E u \in User, n \in {0} \cup DOMAIN sessions : StartStatus(h, u, n) \/ StartPortal(h, u, n)
             \/ \E u \in User : StartCheckout(h, u) \/ ReconcileUser(h, u)
             \/ \E c \in Customer : ReconcileCustomer(h, c)
  <2>1. /\ UNCHANGED <<now, stripe, stored, marked, seen, acked, batch>>
        /\ \E x \in AllSlots : \E s : Goes(x, s) /\ s.kind # "webhook"
      BY <1>5, <1>9, Zenon
  <2>. QED
      BY <1>1, <2>1
<1>. QED
    BY <1>2, <1>3, <1>4, <1>6, <1>7, <1>8, <1>9, Zenon DEF Apart, Nightly

LEMMA ApartTypes ==
    ASSUME TypeInv, Apart
    PROVE  TypeInv'
<1>1. req' \in [AllSlots -> Reqs] /\ \A x \in AllSlots : RequestOK(req'[x], events, sessions)
  <2>1. CASE UNCHANGED req
      BY <2>1, TypesNow
  <2>2. CASE \E h \in AllSlots : \E s : Goes(h, s)
      BY <2>2, Progress
  <2>. QED
      BY <2>1, <2>2, ApartSteps
<1>2. /\ now' \in 1 .. MaxTime /\ acked' \subseteq DOMAIN events /\ batch' \subseteq User
      /\ subs' = subs /\ events' = events /\ sessions' = sessions /\ marked' = marked
      /\ profile' = profile /\ index' = index /\ seen' = seen
    BY ApartSteps DEF stripe, stored
<1>. QED
    BY <1>1, <1>2, TypesNow, TypedAgain

LEMMA OnwardTypes ==
    ASSUME TypeInv, NEW h \in AllSlots, Onward(h)
    PROVE  TypeInv'
<1>1. acked \subseteq DOMAIN events /\ batch \subseteq User
    BY TypesNow
<1>2. CASE Load(h)
  <2>1. UNCHANGED <<now, stripe, stored, marked, seen, acked, batch>>
      BY <1>2, Zenon DEF Load
  <2>2. \E s : Goes(h, s)
      BY <1>2, LoadRequest DEF Goes
  <2>. QED
      BY <1>1, <2>1, <2>2, RequestTypes
<1>3. CASE Lookup(h)
  <2>1. UNCHANGED <<now, stripe, stored, marked, seen, acked, batch>>
      BY <1>3, Zenon DEF Lookup
  <2>. QED
      BY <1>1, <1>3, <2>1, LookupRequest, RequestTypes
<1>4. CASE ReadProfile(h)
  <2>1. UNCHANGED <<now, stripe, stored, marked, seen, acked, batch>>
      BY <1>4, Zenon DEF ReadProfile
  <2>. QED
      BY <1>1, <1>4, <2>1, ReadProfileRequest, RequestTypes
<1>5. CASE List(h)
  <2>1. UNCHANGED <<now, stripe, stored, marked, seen, acked, batch>>
      BY <1>5, Zenon DEF List
  <2>. QED
      BY <1>1, <1>5, <2>1, ListRequest, RequestTypes
<1>. QED
    BY <1>2, <1>3, <1>4, <1>5, StoreTypes, MarkTypes, CreateTypes, Zenon DEF Onward

LEMMA DeliverTypes ==
    ASSUME TypeInv, OriginInv, NEW h \in AllSlots, NEW e \in DOMAIN events, Deliver(h, e)
    PROVE  TypeInv' /\ UNCHANGED <<now, stripe, stored, marked, seen, batch>>
<1>1. UNCHANGED <<now, stripe, stored, marked, seen, batch>>
    BY Zenon DEF Deliver
<1>2. acked' \subseteq DOMAIN events /\ batch' \subseteq User
  <2>1. acked \subseteq DOMAIN events /\ batch \subseteq User
      BY TypesNow
  <2>2. acked' = acked \/ acked' = acked \cup {e}
      BY DEF Deliver
  <2>. QED
      BY <1>1, <2>1, <2>2
<1>3. CASE UNCHANGED req
  <2>1. /\ now' = now /\ subs' = subs /\ events' = events /\ sessions' = sessions /\ marked' = marked
        /\ profile' = profile /\ index' = index /\ seen' = seen /\ req' = req
      BY <1>1, <1>3 DEF stripe, stored
  <2>. QED
      BY <1>1, <1>2, <2>1, TypesNow, TypedAgain
<1>4. CASE \E s : Goes(h, s)
    BY <1>1, <1>2, <1>4, RequestTypes
<1>. QED
    BY <1>3, <1>4, DeliverRequest

LEMMA StepTypes ==
    ASSUME TypeInv, OriginInv, Next
    PROVE  TypeInv'
<1>1. \A c \in Customer : \A i \in DOMAIN subs[c] : \A type \in EventTypes \ {"checkout"} :
          Change(c, i, type) => TypeInv'
    BY ChangeTypes
<1>. QED
    BY <1>1, NextCases, PayTypes, ApartTypes, DeliverTypes, OnwardTypes

LEMMA InitTypes ==
    ASSUME Init
    PROVE  TypeInv
<1>1. 1 \in 1 .. MaxTime /\ MaxEvents \in Nat
    BY BillingAssumption
<1>2. NewProfile \in Profiles /\ NoBill \in Bills /\ Free \in Reqs
  <2>1. Len(<<>>) \in Nat
      OBVIOUS
  <2>. QED
      BY <2>1, FreeOK, FreeFields
<1>3. /\ now = 1 /\ events = <<>> /\ sessions = <<>> /\ marked = <<>> /\ acked = {} /\ batch = {}
      /\ subs = [c \in Customer |-> <<>>] /\ profile = [u \in User |-> NewProfile]
      /\ index = [c \in Customer |-> None] /\ seen = [c \in Customer |-> 0]
      /\ req = [h \in AllSlots |-> Free]
    BY DEF Init
<1>4. \A h \in AllSlots : RequestOK(req[h], events, sessions) /\ req[h] \in Reqs
  <2>1. Len(events) \in Nat
      BY <1>3
  <2>2. RequestOK(Free, events, sessions)
      BY <2>1, FreeOK
  <2>. QED
      BY <1>2, <1>3, <2>2
<1>5. \A h \in AllSlots : req[h].base \in Profiles /\ req[h].new \in Bills
    BY <1>4 DEF Reqs
<1>6. now \in 1 .. MaxTime /\ acked \subseteq DOMAIN events /\ batch \subseteq User
      /\ Len(marked) = Len(events) /\ Len(events) <= MaxEvents
    BY <1>1, <1>3
<1>7. /\ events \in Seq([cust : Customer, type : EventTypes, at : Nat])
      /\ marked \in Seq({"no", "bound", "unbound"})
      /\ sessions \in Seq([user : User, cust : Customer \cup {None}, paid : BOOLEAN])
    BY <1>3
<1>8. /\ subs \in [Customer -> Seq(Statuses)] /\ profile \in [User -> Profiles]
      /\ index \in [Customer -> User \cup {None}] /\ seen \in [Customer -> 0 .. MaxEvents]
      /\ req \in [AllSlots -> Reqs]
  <2>1. <<>> \in Seq(Statuses) /\ 0 \in 0 .. MaxEvents
      BY <1>1
  <2>. QED
      BY <1>2, <1>3, <2>1
<1>9. BillingTypeOK
    BY <1>5, <1>6, <1>7, <1>8, Zenon DEF BillingTypeOK
<1>. QED
    BY <1>4, <1>6, <1>8, <1>9, Zenon DEF TypeInv

-----------------------------------------------------------------------------
(* Where events come from *)

\* An event is added for a customer who has checked out.
LEMMA EmitOrigin ==
    ASSUME TypeInv, OriginInv, NEW c \in Customer, NEW type \in EventTypes, Emit(c, type),
           subs' \in [Customer -> Seq(Statuses)], \A d \in Customer : d # c => subs'[d] = subs[d],
           type = "checkout" \/ subs[c] # <<>>,
           DOMAIN sessions \subseteq DOMAIN sessions',
           \A m \in DOMAIN sessions : sessions[m].paid => sessions'[m] = sessions[m],
           type = "checkout" => \E n \in DOMAIN sessions' : sessions'[n].cust = c /\ sessions'[n].paid
    PROVE  OriginInv'
<1>. DEFINE n == Len(events')
<1>1. /\ n \in DOMAIN events' /\ DOMAIN events' = DOMAIN events \cup {n} /\ n \notin DOMAIN events
      /\ events'[n].cust = c /\ events'[n].type = type
      /\ \A e \in DOMAIN events : events'[e] = events[e]
  <2>1. /\ events' \in Seq([cust : Customer, type : EventTypes, at : Nat])
        /\ n = Len(events) + 1 /\ n \notin DOMAIN events
        /\ events'[n].cust = c /\ events'[n].type = type
        /\ \A e \in DOMAIN events : events'[e] = events[e]
      BY EmitTypes
  <2>2. DOMAIN events' = 1 .. n /\ DOMAIN events = 1 .. Len(events) /\ Len(events) \in Nat
      BY <2>1, Typed, Listed
  <2>. HIDE DEF n
  <2>. QED
      BY <2>1, <2>2
<1>. HIDE DEF n
<1>2. \A d \in Customer : CheckedOut(d) => CheckedOut(d)'
    BY <1>1 DEF CheckedOut
<1>3. CheckedOut(c)'
  <2>1. CASE type = "checkout"
      BY <1>1, <2>1 DEF CheckedOut
  <2>2. CASE subs[c] # <<>>
      BY <1>2, <2>2 DEF OriginInv
  <2>. QED
      BY <2>1, <2>2
<1>4. \A d \in Customer : subs'[d] # <<>> => CheckedOut(d)'
    BY <1>2, <1>3 DEF OriginInv
<1>5. (\A e \in DOMAIN events : CheckedOut(events[e].cust))'
  <2>1. \A e \in DOMAIN events : CheckedOut(events[e].cust) /\ events[e].cust \in Customer
      BY Listed DEF OriginInv
  <2>2. \A e \in DOMAIN events' : \E d \in Customer : d = events'[e].cust /\ CheckedOut(d)'
      BY <1>1, <1>2, <1>3, <2>1
  <2>. QED
      BY <2>2, SMTT(30) DEF CheckedOut
<1>6. \A e \in DOMAIN events' : events'[e].type = "checkout" =>
          \E m \in DOMAIN sessions' : sessions'[m].cust = events'[e].cust /\ sessions'[m].paid
    BY <1>1 DEF OriginInv
<1>. QED
    BY <1>4, <1>5, <1>6 DEF OriginInv

\* Only Stripe adds subscriptions and events, and the site no more than sessions that are not paid.
LEMMA SiteOrigin ==
    ASSUME OriginInv, UNCHANGED <<subs, events>>, DOMAIN sessions \subseteq DOMAIN sessions',
           \A m \in DOMAIN sessions : sessions'[m] = sessions[m]
    PROVE  OriginInv'
<1>1. subs' = subs /\ events' = events
    OBVIOUS
<1>2. \A d : CheckedOut(d) => CheckedOut(d)'
    BY <1>1 DEF CheckedOut
<1>3. \A e \in DOMAIN events : events[e].type = "checkout" =>
          \E n \in DOMAIN sessions' : sessions'[n].cust = events[e].cust /\ sessions'[n].paid
    BY DEF OriginInv
<1>. QED
    BY <1>1, <1>2, <1>3 DEF OriginInv

LEMMA OnwardOrigin ==
    ASSUME TypeInv, OriginInv, NEW h \in AllSlots, Onward(h)
    PROVE  OriginInv' /\ UNCHANGED events
<1>1. CASE CreateCheckout(h)
  <2>1. UNCHANGED <<subs, events>>
      BY <1>1, Zenon DEF CreateCheckout
  <2>. QED
      BY <1>1, <2>1, CreateTypes, SiteOrigin
<1>2. CASE UNCHANGED stripe
  <2>1. subs' = subs /\ events' = events /\ sessions' = sessions
      BY <1>2 DEF stripe
  <2>. QED
      BY <2>1, SiteOrigin
<1>3. CreateCheckout(h) \/ UNCHANGED stripe
    BY Zenon DEF Onward, Load, Store, Lookup, ReadProfile, List, Mark
<1>. QED
    BY <1>1, <1>2, <1>3

LEMMA StepOrigin ==
    ASSUME TypeInv, OriginInv, Next
    PROVE  OriginInv'
<1>1. ASSUME NEW n \in DOMAIN sessions, Pay(n)
      PROVE  OriginInv'
  <2>1. PICK c \in Customer :
             /\ Emit(c, "checkout")
             /\ subs' \in [Customer -> Seq(Statuses)] /\ \A d \in Customer : d # c => subs'[d] = subs[d]
             /\ DOMAIN sessions' = DOMAIN sessions /\ sessions'[n].cust = c /\ sessions'[n].paid
             /\ \A m \in DOMAIN sessions : sessions[m].paid => sessions'[m] = sessions[m]
      BY <1>1, PayEffects
  <2>2. "checkout" \in EventTypes
      BY DEF EventTypes
  <2>. QED
      BY <2>1, <2>2, EmitOrigin
<1>2. ASSUME NEW c \in Customer, NEW i \in DOMAIN subs[c], NEW type \in EventTypes \ {"checkout"},
             Change(c, i, type)
      PROVE  OriginInv'
  <2>1. /\ subs' \in [Customer -> Seq(Statuses)]
        /\ subs[c] # <<>> /\ \A d \in Customer : d # c => subs'[d] = subs[d]
      BY <1>2, ChangeEffects
  <2>2. Emit(c, type) /\ sessions' = sessions /\ type # "checkout"
      BY <1>2 DEF Change
  <2>. QED
      BY <2>1, <2>2, EmitOrigin
<1>3. CASE UNCHANGED stripe
  <2>1. subs' = subs /\ events' = events /\ sessions' = sessions
      BY <1>3 DEF stripe
  <2>. QED
      BY <2>1, SiteOrigin
<1>4. Apart => UNCHANGED stripe
    BY ApartSteps
<1>5. \A h \in AllSlots : \A e \in DOMAIN events : Deliver(h, e) => UNCHANGED stripe
    BY DeliverTypes
<1>6. CASE \E c \in Customer : \E i \in DOMAIN subs[c] :
                \E type \in EventTypes \ {"checkout"} : Change(c, i, type)
    BY <1>2, <1>6
<1>. QED
    BY <1>1, <1>3, <1>4, <1>5, <1>6, NextCases, OnwardOrigin

LEMMA TypesUnchanged ==
    ASSUME TypeInv, OriginInv, UNCHANGED vars
    PROVE  TypeInv' /\ OriginInv'
<1>1. /\ now' = now /\ subs' = subs /\ events' = events /\ sessions' = sessions /\ marked' = marked
      /\ acked' = acked /\ profile' = profile /\ index' = index /\ seen' = seen /\ req' = req
      /\ batch' = batch
    BY DEF vars, stripe, stored
<1>2. TypeInv'
    BY <1>1, TypesNow, TypedAgain
<1>. QED
    BY <1>1, <1>2, SiteOrigin

\* Every variable keeps its type: a request is only read where a handler has set it,
\* whatever the requests before it have stored, and a profile always holds a bill.
THEOREM BillingTypes == Spec => []BillingTypeOK
<1>1. Init => TypeInv /\ OriginInv
  <2>1. Init => OriginInv
      BY DEF Init, OriginInv
  <2>. QED
      BY <2>1, InitTypes
<1>2. TypeInv /\ OriginInv /\ [Next]_vars => (TypeInv /\ OriginInv)'
    BY StepTypes, StepOrigin, TypesUnchanged
<1>3. TypeInv => BillingTypeOK
    BY DEF TypeInv
<1>. QED
    BY <1>1, <1>2, <1>3, PTL DEF Spec

-----------------------------------------------------------------------------
(* Marked events are applied *)

\* What ApplyInv says of webhooks and marks.
Marks == BoundInv /\ FreshInv /\ AppliedInv

\* What a webhook's request must be like for its event to be applied once it is marked, when
\* the index and the history are idx and sn: s is what the request of h becomes in the step.
HookOK(h, s, idx, sn) ==
    LET c == events[s.ev].cust
        rewrites == s.pc \in {"load", "store"} /\ s.whole
    IN
    s.kind = "webhook" /\ s.pc \notin {"done", "reply"} =>
      /\ s.ev \in DOMAIN events
      /\ rewrites => \/ s.ver = Len(events)
                     \/ Webhook(h, s.ev) /\ Rewrites(h) /\ s.ver = req[h].ver
      /\ s.pc = "mark" => \/ Webhook(h, s.ev) /\ Rewrites(h) /\ s.user # None /\ req[h].ver <= sn[c]
                          \/ s.user = None /\ (s.ev <= sn[c] \/ \E k \in DOMAIN events : WillApply(k, s.ev))
      /\ events[s.ev].type = "checkout" =>
             s.user # None /\ (s.pc \in {"profile", "list", "mark"} \/ rewrites => idx[c] # None)

\* A step of one request, after which its webhook, if it is one's, is in order.
LEMMA Advance ==
    ASSUME TypeInv, Marks, NEW h \in AllSlots, NEW s, Goes(h, s), UNCHANGED <<events, marked>>,
           seen' \in [Customer -> 0 .. MaxEvents],
           \A c \in Customer : index[c] # None => index'[c] # None,
           \A c \in Customer : seen[c] <= seen'[c],
           HookOK(h, s, index', seen')
    PROVE  Marks'
<1>1. events' = events /\ marked' = marked
    OBVIOUS
<1>2. \A x \in AllSlots : req'[x] = IF x # h THEN req[x] ELSE IF s.pc = "done" THEN Free ELSE s
    BY Progress
<1>3. /\ \A x \in AllSlots : x # h => req'[x] = req[x]
      /\ req'[h].kind = "webhook" => req'[h] = s /\ s.pc # "done" /\ s.kind = "webhook"
    BY <1>2, FreeFields
<1>4. /\ DOMAIN events = 1 .. Len(events) /\ Len(events) \in Nat
      /\ \A e \in DOMAIN events : e \in Nat /\ e <= Len(events)
      /\ \A e \in DOMAIN events : events[e].cust \in Customer
      /\ \A e \in DOMAIN events : seen[events[e].cust] \in Nat /\ seen'[events[e].cust] \in Nat
                                  /\ seen[events[e].cust] <= seen'[events[e].cust]
      /\ req[h].ver \in Nat
  <2>1. DOMAIN events = 1 .. Len(events) /\ Len(events) \in Nat /\ MaxEvents \in Nat
        /\ seen \in [Customer -> 0 .. MaxEvents] /\ \A e \in DOMAIN events : events[e].cust \in Customer
      BY Typed, Listed
  <2>2. req[h].ver \in Nat
      BY Typed DEF Reqs
  <2>. QED
      BY <2>1, <2>2
<1>5. BoundInv'
  <2>. SUFFICES ASSUME NEW e \in DOMAIN events, events[e].type = "checkout"
                PROVE  /\ marked[e] # "no" => marked[e] = "bound" /\ index'[events[e].cust] # None
                       /\ \A x \in AllSlots : Webhook(x, e)' =>
                            /\ req'[x].user # None
                            /\ req'[x].pc \in {"profile", "list", "mark"} \/ Rewrites(x)' => index'[events[e].cust] # None
      BY <1>1 DEF BoundInv
  <2>1. marked[e] # "no" => marked[e] = "bound" /\ index'[events[e].cust] # None
      BY <1>4 DEF Marks, BoundInv
  <2>2. ASSUME NEW x \in AllSlots, x # h, Webhook(x, e)'
        PROVE  /\ req'[x].user # None
               /\ req'[x].pc \in {"profile", "list", "mark"} \/ Rewrites(x)' => index'[events[e].cust] # None
    <3>1. Webhook(x, e) /\ req'[x] = req[x] /\ (Rewrites(x)' => Rewrites(x))
        BY <1>3, <2>2 DEF Webhook, Rewrites
    <3>. QED
        BY <1>4, <3>1 DEF Marks, BoundInv
  <2>3. ASSUME Webhook(h, e)'
        PROVE  /\ req'[h].user # None
               /\ req'[h].pc \in {"profile", "list", "mark"} \/ Rewrites(h)' => index'[events[e].cust] # None
      BY <1>3, <2>3 DEF Webhook, Rewrites, HookOK
  <2>. QED
      BY <2>1, <2>2, <2>3
<1>6. FreshInv'
  <2>. SUFFICES ASSUME NEW e \in DOMAIN events, NEW x \in AllSlots, Webhook(x, e)'
                PROVE  /\ Rewrites(x)' => e <= req'[x].ver
                       /\ req'[x].pc = "mark" /\ req'[x].user # None => e <= seen'[events[e].cust]
      BY <1>1 DEF FreshInv
  <2>1. CASE x # h
    <3>1. Webhook(x, e) /\ req'[x] = req[x] /\ (Rewrites(x)' => Rewrites(x))
        BY <1>3, <2>1 DEF Webhook, Rewrites
    <3>. QED
        BY <1>4, <3>1 DEF Marks, FreshInv
  <2>2. CASE x = h
    <3>1. req'[h] = s /\ s.kind = "webhook" /\ s.pc \notin {"done", "reply"} /\ s.ev = e
        BY <1>3, <2>2 DEF Webhook
    <3>2. Rewrites(h)' => e <= s.ver
        BY <1>4, <3>1 DEF Rewrites, HookOK, Marks, FreshInv
    <3>3. s.pc = "mark" /\ s.user # None => e <= seen'[events[e].cust]
      <4>1. CASE s.pc = "mark" /\ s.user # None
        <5>1. Webhook(h, e) /\ Rewrites(h) /\ req[h].ver <= seen'[events[e].cust]
            BY <3>1, <4>1 DEF HookOK
        <5>2. e <= req[h].ver
            BY <5>1 DEF Marks, FreshInv
        <5>. QED
            BY <1>4, <5>1, <5>2
      <4>. QED
          BY <4>1
    <3>. QED
        BY <2>2, <3>1, <3>2, <3>3
  <2>. QED
      BY <2>1, <2>2
<1>7. \A k, e \in DOMAIN events : WillApply(k, e) => WillApply(k, e)'
  <2>. SUFFICES ASSUME NEW k \in DOMAIN events, NEW e \in DOMAIN events, WillApply(k, e)
                PROVE  WillApply(k, e)'
      OBVIOUS
  <2>1. events'[k].cust = events'[e].cust /\ events'[k].type = "checkout" /\ marked'[k] = "no"
        /\ events[k].cust = events[e].cust /\ events[k].type = "checkout"
      BY <1>1 DEF WillApply
  <2>2. ASSUME NEW x \in AllSlots, x # h, Webhook(x, k)'
        PROVE  /\ Rewrites(x)' => e <= req'[x].ver
               /\ req'[x].pc = "mark" => e <= seen'[events[e].cust]
    <3>1. Webhook(x, k) /\ req'[x] = req[x] /\ (Rewrites(x)' => Rewrites(x))
        BY <1>3, <2>2 DEF Webhook, Rewrites
    <3>. QED
        BY <1>4, <3>1 DEF WillApply
  <2>3. ASSUME Webhook(h, k)'
        PROVE  /\ Rewrites(h)' => e <= req'[h].ver
               /\ req'[h].pc = "mark" => e <= seen'[events[e].cust]
    <3>1. req'[h] = s /\ s.kind = "webhook" /\ s.pc \notin {"done", "reply"} /\ s.ev = k
        BY <1>3, <2>3 DEF Webhook
    <3>2. Rewrites(h)' => e <= s.ver
        BY <1>4, <3>1 DEF Rewrites, HookOK, WillApply
    <3>3. s.pc = "mark" => e <= seen'[events[e].cust]
      <4>1. CASE s.pc = "mark"
        <5>1. Webhook(h, k) /\ Rewrites(h) /\ req[h].ver <= seen'[events[k].cust]
            BY <2>1, <3>1, <4>1 DEF HookOK
        <5>2. e <= req[h].ver
            BY <5>1 DEF WillApply
        <5>. QED
            BY <1>4, <2>1, <5>1, <5>2
      <4>. QED
          BY <4>1
    <3>. QED
        BY <3>1, <3>2, <3>3
  <2>4. \A x \in AllSlots : Webhook(x, k)' => /\ Rewrites(x)' => e <= req'[x].ver
                                              /\ req'[x].pc = "mark" => e <= seen'[events'[e].cust]
      BY <1>1, <2>2, <2>3
  <2>. QED
      BY <2>1, <2>4 DEF WillApply
<1>8. AppliedInv'
  <2>. SUFFICES ASSUME NEW e \in DOMAIN events
                PROVE  /\ marked[e] = "bound" => e <= seen'[events[e].cust]
                       /\ Unbound(e)' => e <= seen'[events[e].cust] \/ \E k \in DOMAIN events : WillApply(k, e)'
      BY <1>1 DEF AppliedInv
  <2>1. marked[e] = "bound" => e <= seen'[events[e].cust]
      BY <1>4 DEF Marks, AppliedInv
  <2>2. ASSUME Unbound(e)'
        PROVE  e <= seen'[events[e].cust] \/ \E k \in DOMAIN events : WillApply(k, e)
    <3>1. CASE Unbound(e)
        BY <1>4, <3>1 DEF Marks, AppliedInv
    <3>2. CASE ~Unbound(e)
      <4>1. PICK x \in AllSlots : Webhook(x, e)' /\ req'[x].pc = "mark" /\ req'[x].user = None
          BY <1>1, <2>2, <3>2 DEF Unbound
      <4>2. x = h
          BY <1>3, <3>2, <4>1 DEF Unbound, Webhook
      <4>3. req'[h] = s /\ s.kind = "webhook" /\ s.ev = e /\ s.pc = "mark" /\ s.user = None
          BY <1>3, <4>1, <4>2 DEF Webhook
      <4>. QED
          BY <4>3 DEF HookOK
    <3>. QED
        BY <3>1, <3>2
  <2>. QED
      BY <1>7, <2>1, <2>2
<1>. QED
    BY <1>5, <1>6, <1>8 DEF Marks

\* The facts a webhook's request brings to its step.
LEMMA HookFacts ==
    ASSUME TypeInv, NEW h \in AllSlots, req[h].kind = "webhook", req[h].pc # "reply"
    PROVE  /\ Webhook(h, req[h].ev) /\ req[h].ev \in DOMAIN events /\ RequestOK(req[h], events, sessions)
           /\ req[h].cust = events[req[h].ev].cust /\ req[h].cust \in Customer /\ req[h].cust # None
<1>1. RequestOK(req[h], events, sessions) /\ None \notin Customer
    BY Typed
<1>2. req[h].ev \in DOMAIN events /\ req[h].cust = events[req[h].ev].cust
    BY <1>1 DEF RequestOK
<1>. QED
    BY <1>1, <1>2, Listed DEF Webhook

LEMMA SeenStays ==
    ASSUME TypeInv
    PROVE  seen \in [Customer -> 0 .. MaxEvents] /\ \A c \in Customer : seen[c] <= seen[c]
<1>1. seen \in [Customer -> 0 .. MaxEvents] /\ MaxEvents \in Nat
    BY Typed
<1>. QED
    BY <1>1

\* A step that stores and marks nothing.
LEMMA QuietAdvance ==
    ASSUME TypeInv, Marks, NEW h \in AllSlots, NEW s, Goes(h, s),
           events' = events, marked' = marked, index' = index, seen' = seen,
           HookOK(h, s, index, seen)
    PROVE  Marks'
  BY SeenStays, Advance

LEMMA DeliverMarks ==
    ASSUME TypeInv, OriginInv, Marks, NEW h \in AllSlots, NEW e \in DOMAIN events, Deliver(h, e)
    PROVE  Marks'
<1>1. events' = events /\ marked' = marked /\ index' = index /\ seen' = seen
    BY DeliverTypes DEF stripe, stored
<1>2. CASE UNCHANGED req
    BY <1>1, <1>2 DEF Marks, BoundInv, FreshInv, AppliedInv, Unbound, WillApply, Webhook, Rewrites
<1>3. CASE \E s : /\ Goes(h, s) /\ s.kind = "webhook" /\ s.ev = e /\ marked[e] = "no" /\ ~s.whole
                  /\ IF events[e].type = "checkout" THEN s.pc = "load" /\ s.user \in User
                                                    ELSE s.pc = "lookup" /\ s.user = None
  <2>1. PICK s : /\ Goes(h, s) /\ s.kind = "webhook" /\ s.ev = e /\ ~s.whole
                 /\ IF events[e].type = "checkout" THEN s.pc = "load" /\ s.user \in User
                                                   ELSE s.pc = "lookup" /\ s.user = None
      BY <1>3
  <2>2. HookOK(h, s, index, seen)
      BY <2>1, Typed DEF HookOK
  <2>. QED
      BY <1>1, <2>1, <2>2, QuietAdvance
<1>. QED
    BY <1>2, <1>3, DeliverRequest

LEMMA LoadMarks ==
    ASSUME TypeInv, Marks, NEW h \in AllSlots, Load(h)
    PROVE  Marks'
<1>1. events' = events /\ marked' = marked /\ index' = index /\ seen' = seen /\ req[h].pc = "load"
    BY DEF Load, stripe, stored
<1>2. PICK s : /\ Continue(h, s) /\ RequestOK(s, events, sessions) /\ Same(req[h], s)
               /\ s.pc = "store" /\ s.whole = req[h].whole /\ s.ver = req[h].ver
    BY LoadRequest
<1>3. HookOK(h, s, index, seen)
  <2>1. CASE s.kind = "webhook"
    <3>1. Webhook(h, s.ev) /\ s.ev \in DOMAIN events
        BY <1>1, <1>2, <2>1, HookFacts DEF Same
    <3>2. events[s.ev].type = "checkout" =>
             s.user # None /\ (s.whole => index[events[s.ev].cust] # None)
        BY <1>1, <1>2, <3>1 DEF Marks, BoundInv, Rewrites, Same
    <3>. QED
        BY <1>1, <1>2, <3>1, <3>2 DEF HookOK, Rewrites
  <2>. QED
      BY <2>1 DEF HookOK
<1>4. Goes(h, s)
    BY <1>2 DEF Goes
<1>. QED
    BY <1>1, <1>3, <1>4, QuietAdvance

LEMMA ReadProfileMarks ==
    ASSUME TypeInv, Marks, NEW h \in AllSlots, ReadProfile(h)
    PROVE  Marks'
<1>1. events' = events /\ marked' = marked /\ index' = index /\ seen' = seen /\ req[h].pc = "profile"
    BY DEF ReadProfile, stripe, stored
<1>2. PICK s : Goes(h, s) /\ Same(req[h], s) /\ s.pc = "list"
    BY ReadProfileRequest
<1>3. HookOK(h, s, index, seen)
  <2>1. CASE s.kind = "webhook"
    <3>1. Webhook(h, s.ev) /\ s.ev \in DOMAIN events
        BY <1>1, <1>2, <2>1, HookFacts DEF Same
    <3>2. events[s.ev].type = "checkout" => s.user # None /\ index[events[s.ev].cust] # None
        BY <1>1, <1>2, <3>1 DEF Marks, BoundInv, Same
    <3>. QED
        BY <1>2, <3>1, <3>2 DEF HookOK
  <2>. QED
      BY <2>1 DEF HookOK
<1>. QED
    BY <1>1, <1>2, <1>3, QuietAdvance

LEMMA ListMarks ==
    ASSUME TypeInv, Marks, NEW h \in AllSlots, List(h)
    PROVE  Marks'
<1>1. events' = events /\ marked' = marked /\ index' = index /\ seen' = seen /\ req[h].pc = "list"
    BY Zenon DEF List, stripe, stored
<1>2. PICK s : /\ Goes(h, s)
               /\ s.pc # "done" /\ s.kind = "webhook" =>
                      Same(req[h], s) /\ s.pc = "load" /\ s.whole /\ s.ver = Len(events)
    BY ListRequest
<1>3. HookOK(h, s, index, seen)
  <2>1. CASE s.kind = "webhook" /\ s.pc # "done"
    <3>1. Webhook(h, s.ev) /\ s.ev \in DOMAIN events
        BY <1>1, <1>2, <2>1, HookFacts DEF Same
    <3>2. events[s.ev].type = "checkout" => s.user # None /\ index[events[s.ev].cust] # None
        BY <1>1, <1>2, <2>1, <3>1 DEF Marks, BoundInv, Same
    <3>. QED
        BY <1>2, <2>1, <3>1, <3>2 DEF HookOK
  <2>. QED
      BY <2>1 DEF HookOK
<1>. QED
    BY <1>1, <1>2, <1>3, QuietAdvance

\* An event that finds no user is not a checkout; and the checkout of its customer, without
\* which it would not be, has not stored yet what it will list.
LEMMA LookupMarks ==
    ASSUME TypeInv, OriginInv, Marks, NEW h \in AllSlots, Lookup(h)
    PROVE  Marks'
<1>1. events' = events /\ marked' = marked /\ index' = index /\ seen' = seen /\ req[h].pc = "lookup"
    BY Zenon DEF Lookup, stripe, stored
<1>2. PICK s : /\ Goes(h, s) /\ s.kind = req[h].kind /\ s.ev = req[h].ev /\ s.cust = req[h].cust
               /\ s.kind = "webhook" /\ s.pc # "done" =>
                      IF index[s.cust] # None THEN s.pc = "profile" /\ s.user = index[s.cust]
                                              ELSE s.pc = "mark" /\ s.user = None
    BY LookupRequest
<1>3. HookOK(h, s, index, seen)
  <2>1. CASE s.kind = "webhook" /\ s.pc # "done"
    <3>1. /\ Webhook(h, s.ev) /\ s.ev \in DOMAIN events /\ s.cust = events[s.ev].cust
          /\ s.cust \in Customer /\ req[h].user = None
        BY <1>1, <1>2, <2>1, HookFacts DEF RequestOK
    <3>2. events[s.ev].type # "checkout"
        BY <3>1 DEF Marks, BoundInv
    <3>3. CASE index[s.cust] # None
        BY <1>2, <2>1, <3>1, <3>2, <3>3 DEF HookOK
    <3>4. CASE index[s.cust] = None
      <4>1. PICK k \in DOMAIN events : events[k].cust = s.cust /\ events[k].type = "checkout"
          BY <3>1 DEF OriginInv, CheckedOut
      <4>2. marked[k] = "no"
          BY <3>4, <4>1 DEF Marks, BoundInv
      <4>3. \A x \in AllSlots : Webhook(x, k) => ~Rewrites(x) /\ req[x].pc # "mark"
          BY <3>4, <4>1 DEF Marks, BoundInv
      <4>4. WillApply(k, s.ev)
          BY <3>1, <4>1, <4>2, <4>3 DEF WillApply
      <4>. QED
          BY <1>2, <2>1, <3>1, <3>2, <3>4, <4>4 DEF HookOK
    <3>. QED
        BY <3>3, <3>4
  <2>. QED
      BY <2>1 DEF HookOK
<1>. QED
    BY <1>1, <1>2, <1>3, QuietAdvance

LEMMA StoreMarks ==
    ASSUME TypeInv, Marks, NEW h \in AllSlots, Store(h)
    PROVE  Marks'
<1>1. events' = events /\ marked' = marked
    BY Zenon DEF Store, stripe
<1>2. /\ req[h].pc = "store" /\ Continue(h, AfterStore(req[h]))
      /\ seen' \in [Customer -> 0 .. MaxEvents]
      /\ \A c \in Customer : index[c] # None => index'[c] # None
      /\ \A c \in Customer : seen[c] <= seen'[c]
      /\ req[h].cust # None => index'[req[h].cust] # None
      /\ req[h].whole => req[h].ver <= seen'[req[h].cust]
    BY StoreEffects
<1>3. PICK s : /\ Goes(h, s)
               /\ s.pc # "done" /\ s.kind = "webhook" =>
                      /\ Same(req[h], s) /\ req[h].user \in User
                      /\ s.pc = IF req[h].whole THEN "mark" ELSE "profile"
    BY <1>2, StoreRequest
<1>4. HookOK(h, s, index', seen')
  <2>1. CASE s.kind = "webhook" /\ s.pc # "done"
    <3>1. /\ Webhook(h, s.ev) /\ s.ev \in DOMAIN events /\ req[h].cust = events[s.ev].cust
          /\ req[h].cust # None /\ s.user # None
        BY <1>2, <1>3, <2>1, HookFacts, Typed DEF Same
    <3>2. index'[events[s.ev].cust] # None
        BY <1>2, <3>1
    <3>3. s.pc = "mark" => Rewrites(h) /\ req[h].ver <= seen'[events[s.ev].cust]
        BY <1>2, <1>3, <2>1, <3>1 DEF Rewrites
    <3>4. s.pc \in {"mark", "profile"}
        BY <1>3, <2>1
    <3>. QED
        BY <3>1, <3>2, <3>3, <3>4 DEF HookOK
  <2>. QED
      BY <2>1 DEF HookOK
<1>. QED
    BY <1>1, <1>2, <1>3, <1>4, Advance

LEMMA MarkMarks ==
    ASSUME TypeInv, Marks, NEW h \in AllSlots, Mark(h)
    PROVE  Marks'
<1>. DEFINE r == req[h]
<1>1. /\ events' = events /\ index' = index /\ seen' = seen /\ r.pc = "mark"
    BY Zenon DEF Mark, stripe, stored
<1>2. /\ r.kind = "webhook" /\ r.ev \in DOMAIN events
      /\ \A e \in DOMAIN events :
           marked'[e] = IF e # r.ev THEN marked[e] ELSE IF r.user = None THEN "unbound" ELSE "bound"
    BY MarkTypes
<1>3. PICK s : Goes(h, s) /\ s.kind = "webhook" /\ s.pc = "reply"
    BY MarkRequest
<1>4. \A x \in AllSlots : /\ x # h => req'[x] = req[x]
                          /\ x = h => req'[x].pc = "reply"
    BY <1>3, Progress
<1>5. \A x \in AllSlots, e \in DOMAIN events : Webhook(x, e)' =>
          /\ Webhook(x, e) /\ req'[x] = req[x] /\ (Rewrites(x)' => Rewrites(x))
    BY <1>4 DEF Webhook, Rewrites
<1>6. Webhook(h, r.ev)
    BY <1>1, <1>2 DEF Webhook
<1>. HIDE DEF r
<1>7. BoundInv'
  <2>. SUFFICES ASSUME NEW e \in DOMAIN events, events[e].type = "checkout"
                PROVE  /\ marked'[e] # "no" => marked'[e] = "bound" /\ index[events[e].cust] # None
                       /\ \A x \in AllSlots : Webhook(x, e)' =>
                            /\ req'[x].user # None
                            /\ req'[x].pc \in {"profile", "list", "mark"} \/ Rewrites(x)' => index[events[e].cust] # None
      BY <1>1 DEF BoundInv
  <2>1. marked'[e] # "no" => marked'[e] = "bound" /\ index[events[e].cust] # None
      BY <1>1, <1>2, <1>6 DEF Marks, BoundInv, r
  <2>2. ASSUME NEW x \in AllSlots, Webhook(x, e)'
        PROVE  /\ req'[x].user # None
               /\ req'[x].pc \in {"profile", "list", "mark"} \/ Rewrites(x)' => index[events[e].cust] # None
      BY <1>5, <2>2 DEF Marks, BoundInv
  <2>. QED
      BY <2>1, <2>2
<1>8. FreshInv'
    BY <1>1, <1>5 DEF Marks, FreshInv
<1>9. \A e \in DOMAIN events : Unbound(e)' => Unbound(e)
  <2>. SUFFICES ASSUME NEW e \in DOMAIN events, Unbound(e)'
                PROVE  Unbound(e)
      OBVIOUS
  <2>1. CASE marked'[e] = "unbound"
      BY <1>1, <1>2, <1>6, <2>1 DEF Unbound, r
  <2>2. CASE \E x \in AllSlots : Webhook(x, e)' /\ req'[x].pc = "mark" /\ req'[x].user = None
      BY <1>5, <2>2 DEF Unbound
  <2>. QED
      BY <2>1, <2>2 DEF Unbound
<1>10. \A k, e \in DOMAIN events : WillApply(k, e) => e <= seen[events[e].cust] \/ WillApply(k, e)'
  <2>. SUFFICES ASSUME NEW k \in DOMAIN events, NEW e \in DOMAIN events, WillApply(k, e)
                PROVE  e <= seen[events[e].cust] \/ WillApply(k, e)'
      OBVIOUS
  <2>1. CASE k = r.ev
      BY <1>1, <1>6, <2>1 DEF WillApply, r
  <2>2. CASE k # r.ev
    <3>1. events'[k].cust = events'[e].cust /\ events'[k].type = "checkout" /\ marked'[k] = "no"
        BY <1>1, <1>2, <2>2 DEF WillApply
    <3>2. \A x \in AllSlots : Webhook(x, k)' => /\ Rewrites(x)' => e <= req'[x].ver
                                                /\ req'[x].pc = "mark" => e <= seen'[events'[e].cust]
        BY <1>1, <1>5 DEF WillApply
    <3>. QED
        BY <3>1, <3>2 DEF WillApply
  <2>. QED
      BY <2>1, <2>2
<1>11. AppliedInv'
  <2>. SUFFICES ASSUME NEW e \in DOMAIN events
                PROVE  /\ marked'[e] = "bound" => e <= seen[events[e].cust]
                       /\ Unbound(e)' => e <= seen[events[e].cust] \/ \E k \in DOMAIN events : WillApply(k, e)'
      BY <1>1 DEF AppliedInv
  <2>1. marked'[e] = "bound" => e <= seen[events[e].cust]
    <3>1. CASE e # r.ev
        BY <1>2, <3>1 DEF Marks, AppliedInv
    <3>2. CASE e = r.ev
        BY <1>1, <1>2, <1>6, <3>2 DEF Marks, FreshInv, r
    <3>. QED
        BY <3>1, <3>2
  <2>. QED
      BY <1>9, <1>10, <2>1 DEF Marks, AppliedInv
<1>. QED
    BY <1>7, <1>8, <1>11 DEF Marks

\* An event that has just been made is not marked, and no request is for it.
LEMMA EmitMarks ==
    ASSUME TypeInv, Marks, NEW c \in Customer, NEW type \in EventTypes, Emit(c, type),
           UNCHANGED <<stored, req, seen>>
    PROVE  Marks'
<1>. DEFINE n == Len(events')
<1>1. index' = index /\ req' = req /\ seen' = seen
    BY DEF stored
<1>2. /\ DOMAIN events' = DOMAIN events \cup {n} /\ n \notin DOMAIN events /\ marked'[n] = "no"
      /\ \A e \in DOMAIN events : events'[e] = events[e] /\ marked'[e] = marked[e]
  <2>1. /\ events' \in Seq([cust : Customer, type : EventTypes, at : Nat])
        /\ n = Len(events) + 1 /\ n \notin DOMAIN events /\ marked'[n] = "no"
        /\ \A e \in DOMAIN events : events'[e] = events[e] /\ marked'[e] = marked[e]
      BY EmitTypes
  <2>2. DOMAIN events' = 1 .. n /\ DOMAIN events = 1 .. Len(events) /\ Len(events) \in Nat
      BY <2>1, Typed, Listed
  <2>. HIDE DEF n
  <2>. QED
      BY <2>1, <2>2
<1>. HIDE DEF n
<1>3. \A x \in AllSlots : ~Webhook(x, n)
  <2>1. \A x \in AllSlots : req[x].kind = "webhook" => req[x].ev \in DOMAIN events
      BY Typed DEF RequestOK
  <2>. QED
      BY <1>2, <2>1 DEF Webhook
<1>4. \A x \in AllSlots, e \in DOMAIN events' : /\ Webhook(x, e)' = Webhook(x, e)
                                                /\ Rewrites(x)' = Rewrites(x)
    BY <1>1 DEF Webhook, Rewrites
<1>5. BoundInv'
    BY <1>1, <1>2, <1>3, <1>4 DEF Marks, BoundInv
<1>6. FreshInv'
    BY <1>1, <1>2, <1>3, <1>4 DEF Marks, FreshInv
<1>7. \A k, e \in DOMAIN events : WillApply(k, e) => WillApply(k, e)'
    BY <1>1, <1>2, <1>4 DEF WillApply
<1>8. \A e \in DOMAIN events' : Unbound(e)' => e \in DOMAIN events /\ Unbound(e)
    BY <1>1, <1>2, <1>3, <1>4 DEF Unbound
<1>9. AppliedInv'
  <2>. SUFFICES ASSUME NEW e \in DOMAIN events'
                PROVE  /\ marked'[e] = "bound" => e <= seen[events'[e].cust]
                       /\ Unbound(e)' => e <= seen[events'[e].cust] \/ \E k \in DOMAIN events' : WillApply(k, e)'
      BY <1>1 DEF AppliedInv
  <2>1. marked'[e] = "bound" => e <= seen[events'[e].cust]
      BY <1>2 DEF Marks, AppliedInv
  <2>2. Unbound(e)' => e <= seen[events'[e].cust] \/ \E k \in DOMAIN events' : WillApply(k, e)'
      BY <1>2, <1>7, <1>8 DEF Marks, AppliedInv
  <2>. QED
      BY <2>1, <2>2
<1>. QED
    BY <1>5, <1>6, <1>9 DEF Marks

\* The other handlers store nothing a webhook relies on but in Store.
LEMMA ApartMarks ==
    ASSUME TypeInv, Marks, Apart
    PROVE  Marks'
<1>1. events' = events /\ marked' = marked /\ index' = index /\ seen' = seen
    BY ApartSteps DEF stripe, stored
<1>2. CASE UNCHANGED req
    BY <1>1, <1>2 DEF Marks, BoundInv, FreshInv, AppliedInv, Unbound, WillApply, Webhook, Rewrites
<1>3. CASE \E h \in AllSlots : \E s : Goes(h, s) /\ s.kind # "webhook"
  <2>1. PICK h \in AllSlots : \E s : Goes(h, s) /\ s.kind # "webhook"
      BY <1>3
  <2>2. PICK s : Goes(h, s) /\ s.kind # "webhook"
      BY <2>1
  <2>3. HookOK(h, s, index, seen)
      BY <2>2 DEF HookOK
  <2>. QED
      BY <1>1, <2>2, <2>3, QuietAdvance
<1>. QED
    BY <1>2, <1>3, ApartSteps

LEMMA CreateMarks ==
    ASSUME TypeInv, Marks, NEW h \in AllSlots, CreateCheckout(h)
    PROVE  Marks'
<1>1. events' = events /\ marked' = marked /\ index' = index /\ seen' = seen
    BY Zenon DEF CreateCheckout, stored
<1>2. PICK s : Goes(h, s) /\ s.kind # "webhook"
    BY CreateRequest
<1>3. HookOK(h, s, index, seen)
    BY <1>2 DEF HookOK
<1>. QED
    BY <1>1, <1>2, <1>3, QuietAdvance

LEMMA StepMarks ==
    ASSUME TypeInv, OriginInv, Marks, Next
    PROVE  Marks'
<1>1. ASSUME NEW n \in DOMAIN sessions, Pay(n)
      PROVE  Marks'
  <2>1. PICK c \in Customer : Emit(c, "checkout")
      BY <1>1, PayEffects
  <2>2. UNCHANGED <<stored, req, seen>> /\ "checkout" \in EventTypes
      BY <1>1 DEF Pay, EventTypes
  <2>. QED
      BY <2>1, <2>2, EmitMarks
<1>2. ASSUME NEW c \in Customer, NEW i \in DOMAIN subs[c], NEW type \in EventTypes \ {"checkout"},
             Change(c, i, type)
      PROVE  Marks'
  <2>1. Emit(c, type) /\ UNCHANGED <<stored, req, seen>>
      BY <1>2 DEF Change
  <2>. QED
      BY <2>1, EmitMarks
<1>3. ASSUME NEW h \in AllSlots, Onward(h)
      PROVE  Marks'
    BY <1>3, LoadMarks, StoreMarks, LookupMarks, ReadProfileMarks, ListMarks, MarkMarks, CreateMarks, Zenon DEF Onward
<1>4. CASE \E c \in Customer : \E i \in DOMAIN subs[c] :
                \E type \in EventTypes \ {"checkout"} : Change(c, i, type)
    BY <1>2, <1>4
<1>5. CASE \E h \in AllSlots : \E e \in DOMAIN events : Deliver(h, e)
    BY <1>5, DeliverMarks
<1>. QED
    BY <1>1, <1>3, <1>4, <1>5, NextCases, ApartMarks

\* An event that is marked, and so never looked at again, has been applied: a listing made
\* after it is stored for its customer; or there was no user, and then the checkout that makes
\* the user known is still to be processed.  It holds of every interleaving of webhooks,
\* status requests, reconciles and the nightly job, with a fault at any await.
THEOREM MarkedEventsAreApplied == Spec => []MarkedIsApplied
<1>1. Init => ApplyInv
  <2>1. Init => OriginInv
      BY DEF Init, OriginInv
  <2>2. Init => BoundInv /\ FreshInv /\ AppliedInv
      BY DEF Init, BoundInv, FreshInv, AppliedInv
  <2>. QED
      BY <2>1, <2>2, InitTypes DEF ApplyInv
<1>2. ApplyInv /\ [Next]_vars => ApplyInv'
  <2>1. ASSUME ApplyInv, Next
        PROVE  ApplyInv'
    <3>1. TypeInv /\ OriginInv /\ Marks
        BY <2>1 DEF ApplyInv, Marks
    <3>2. TypeInv' /\ OriginInv' /\ Marks'
        BY <2>1, <3>1, StepTypes, StepOrigin, StepMarks
    <3>. QED
        BY <3>2 DEF ApplyInv, Marks
  <2>2. ASSUME ApplyInv, UNCHANGED vars
        PROVE  ApplyInv'
    <3>1. TypeInv' /\ OriginInv'
        BY <2>2, TypesUnchanged DEF ApplyInv
    <3>2. events' = events /\ marked' = marked /\ index' = index /\ seen' = seen /\ req' = req
        BY <2>2 DEF vars, stripe, stored
    <3>3. BoundInv' /\ FreshInv' /\ AppliedInv'
        BY <2>2, <3>2 DEF ApplyInv, BoundInv, FreshInv, AppliedInv, Unbound, WillApply, Webhook, Rewrites
    <3>. QED
        BY <3>1, <3>3 DEF ApplyInv
  <2>. QED
      BY <2>1, <2>2
<1>3. ApplyInv => MarkedIsApplied
  <2>. SUFFICES ASSUME ApplyInv, NEW e \in DOMAIN marked, marked[e] # "no"
                PROVE  \/ seen[events[e].cust] >= e
                       \/ /\ marked[e] = "unbound"
                          /\ \E k \in DOMAIN marked : /\ events[k].cust = events[e].cust
                                                      /\ events[k].type = "checkout" /\ marked[k] = "no"
      BY DEF MarkedIsApplied
  <2>1. TypeInv /\ AppliedInv
      BY DEF ApplyInv
  <2>2. e \in DOMAIN events /\ DOMAIN marked = DOMAIN events /\ marked[e] \in {"no", "bound", "unbound"}
        /\ e \in Nat /\ events[e].cust \in Customer
      BY <2>1, Listed
  <2>3. seen[events[e].cust] \in Nat
      BY <2>1, <2>2, Typed
  <2>4. CASE marked[e] = "bound"
      BY <2>1, <2>2, <2>3, <2>4 DEF AppliedInv
  <2>5. CASE marked[e] = "unbound"
    <3>1. e <= seen[events[e].cust] \/ \E k \in DOMAIN events : WillApply(k, e)
        BY <2>1, <2>2, <2>5 DEF AppliedInv, Unbound
    <3>. QED
        BY <2>2, <2>3, <2>5, <3>1 DEF WillApply
  <2>. QED
      BY <2>2, <2>4, <2>5
<1>. QED
    BY <1>1, <1>2, <1>3, PTL DEF Spec

=============================================================================
