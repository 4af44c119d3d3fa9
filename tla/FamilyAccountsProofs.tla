------------------------ MODULE FamilyAccountsProofs ------------------------
(***************************************************************************)
(* Theorems about FamilyAccounts, for any number of users, accounts,       *)
(* invites, seats and requests served at once.                             *)
(***************************************************************************)
EXTENDS FamilyAccounts, FiniteSetTheorems, TLAPS

-----------------------------------------------------------------------------
(* The inductive invariants *)

InviteStates == {"none", "pending", "accepted", "revoked", "expired"}
Patches == [owner : User \cup {None}, members : SUBSET User, status : {"active", "inactive", NoStatus}]

Reqs ==
    [kind : Kinds \cup {"none", "remove-end"},
     pc : {"free", "paid", "save", "profile", "find", "ensure", "load", "store", "sync", "clear", "list",
           "expire", "seats", "mail", "mailed", "read", "revoked", "expired", "accept", "seat",
           "accepted", "owner", "drop", "dropped"},
     user : User \cup {None}, own : BOOLEAN, id : Account \cup {None}, snap : Accounts,
     patch : Patches, base : Accounts, inv : Invite \cup {None}, who : User \cup {None},
     state : InviteStates, todo : SUBSET (User \cup Invite),
     then : {"done", "sync", "clear", "accepted", "dropped"}]

\* A request that is about to write an account, and one that knows the account it is about.
Writing == {"load", "store"}
Located == {"load", "store", "sync", "clear", "list", "expire", "seats", "read", "seat", "accepted", "owner",
            "drop", "dropped"}

\* What a handler knows at each of its steps, of the invites inv.
RequestOK(r, inv) ==
    /\ r \in Reqs
    /\ r.pc = "free" => r.kind = "none" /\ r.id = None
    /\ r.kind = "none" => r.pc = "free"
    /\ r.kind = "lookup" => r.pc \in {"list", "expire"}
    /\ r.kind \notin {"none", "lookup"} => r.user \in User
    /\ r.kind \in {"invite", "remove", "remove-end"} => r.who \in User
    /\ r.pc \in Located => r.id \in Account
    /\ r.pc \in {"drop", "dropped"} => r.kind = "remove"
    /\ r.pc = "seats" => r.kind = "invite"
    /\ r.pc = "read" => r.kind \in {"revoke", "resend"}
    /\ r.pc \in {"accept", "seat", "accepted", "owner"} => r.kind = "accept"
    /\ r.kind \in {"revoke", "resend", "accept"} \/ r.pc \in {"mail", "mailed", "revoked", "expired"} =>
           r.inv \in Invite /\ inv[r.inv].state # "none"
    /\ r.pc = "mailed" => r.state # "none"
    /\ r.pc \in {"sync", "clear"} => r.todo \subseteq User
    /\ r.pc = "expire" => r.todo \subseteq Invite /\ \A i \in r.todo : inv[i].state # "none"
    /\ r.pc \in Writing => /\ r.then # "done"
                           /\ r.then = "accepted" => r.kind = "accept"
                           /\ r.then = "dropped" => r.kind = "remove"
    /\ r.pc \in {"accepted", "owner"} => r.snap.owner \in User

TypeInv ==
    /\ FamilyTypeOK
    /\ req \in [Slot -> Reqs]
    /\ \A h \in Slot : RequestOK(req[h], invite)

\* The users a family account was made for or has invited.
Earned(a) == {u \in User : u = creator[a] \/ \E i \in InvitesOf(a) : invite[i].who = u}

\* A list of members with its owner: theirs by right, and, as long as the account is its
\* creator's, with the creator and within the seats.
Fair(a, owner, members) ==
    /\ owner \in members /\ members \subseteq Earned(a)
    /\ a \notin taken => owner = creator[a] /\ Cardinality(members) <= SeatLimit

\* The patch of a request that will write over an account that has been written before.
PatchFair(r) ==
    /\ r.patch.members # {} =>
           /\ r.patch.members \subseteq Earned(r.id)
           /\ r.id \notin taken => creator[r.id] \in r.patch.members /\ Cardinality(r.patch.members) <= SeatLimit
    /\ r.patch.owner \in r.patch.members \cup {None}
    /\ r.pc = "store" => Fair(r.id, r.base.owner, r.base.members)

\* The patch of the first write of an account.
FirstWrite(r) ==
    /\ r.patch.owner = r.user /\ r.patch.members = {r.user} /\ r.user \in User
    /\ r.pc = "store" => r.base = NoAccount

RequestApt(r) ==
    /\ r.pc \notin Writing /\ r.id # None => creator[r.id] # None
    /\ r.pc = "seat" => r.user \in Earned(r.id)
    /\ r.pc \in Writing => IF creator[r.id] = None THEN FirstWrite(r) ELSE PatchFair(r)

\* Nobody else knows of an account before its first write.
Alone(h, r) ==
    r.pc \in Writing /\ creator[r.id] = None => \A g \in Slot : g # h => req[g].id # r.id

RequestFair(h) == RequestApt(req[h]) /\ Alone(h, req[h])

AccountFair(a) ==
    IF creator[a] = None THEN account[a] = NoAccount
                         ELSE Fair(a, account[a].owner, account[a].members)

InviteFair(i) ==
    IF invite[i].state = "none" THEN invite[i].of = None
    ELSE invite[i].of \in Account /\ creator[invite[i].of] # None /\ invite[i].who \in User

FairInv ==
    /\ \A a \in Account : AccountFair(a)
    /\ \A i \in Invite : InviteFair(i)
    /\ \A u \in User : link[u] # None => creator[link[u]] # None
    /\ \A h \in Slot : RequestFair(h)

FamilyInv == TypeInv /\ FairInv

-----------------------------------------------------------------------------
(* What the operators of the model return *)

LEMMA Constants ==
    ASSUME FamilyAssumption
    PROVE  /\ None \notin User /\ None \notin Account /\ None \notin Invite
           /\ Account \in SUBSET Nat /\ IsFiniteSet(User) /\ SeatLimit \in Nat /\ SeatLimit >= 1
<1>1. None \notin User \cup Account \cup Invite
    BY Zenon DEF FamilyAssumption
<1>2. Account \subseteq Nat
    BY Zenon DEF FamilyAssumption
<1>3. IsFiniteSet(User)
    BY Zenon DEF FamilyAssumption
<1>4. SeatLimit \in Nat \ {0}
    BY Zenon DEF FamilyAssumption
<1>. QED
    BY <1>1, <1>2, <1>3, <1>4

LEMMA Smallest ==
    ASSUME NEW S \in SUBSET Nat, S # {}
    PROVE  \E a \in S : \A b \in S : a <= b
<1>1. \E a \in S : \A b \in S : ~(<<b, a>> \in OpToRel(<, Nat))
    BY WFMin, NatLessThanWellFounded
<1>2. PICK a \in S : \A b \in S : ~(<<b, a>> \in OpToRel(<, Nat))
    BY <1>1
<1>3. \A b \in S : ~(b < a)
    BY <1>2 DEF OpToRel
<1>. QED
    BY <1>3

\* A query answers an account the user is a member of.
LEMMA FoundForMember ==
    ASSUME FamilyAssumption, NEW u, FoundFor(u) # None
    PROVE  FoundFor(u) \in Account /\ u \in account[FoundFor(u)].members
<1>. DEFINE mine == {a \in Account : u \in account[a].members}
<1>1. mine # {}
    BY DEF FoundFor
<1>2. mine \in SUBSET Nat
    BY Constants
<1>3. \E a \in mine : \A b \in mine : a <= b
    BY <1>1, <1>2, Smallest
<1>4. FoundFor(u) = CHOOSE a \in mine : \A b \in mine : a <= b
    BY <1>1 DEF FoundFor
<1>5. FoundFor(u) \in mine
    BY <1>3, <1>4
<1>. QED
    BY <1>5

LEMMA NormalizedType ==
    ASSUME NEW base \in Accounts, NEW patch \in Patches
    PROVE  /\ Normalized(base, patch) \in Accounts
           /\ patch.owner # None \/ base.owner # None =>
                  Normalized(base, patch).owner \in Normalized(base, patch).members
<1>. DEFINE owner == IF patch.owner = None THEN base.owner ELSE patch.owner
            status == IF patch.status = NoStatus THEN base.status ELSE patch.status
            members == (IF patch.members = {} THEN base.members ELSE patch.members) \cup ({owner} \ {None})
<1>1. owner \in User \cup {None} /\ (patch.owner # None \/ base.owner # None => owner # None)
    BY DEF Accounts, Patches
<1>2. status \in {"active", "inactive"}
    BY DEF Accounts, Patches
<1>3. members \in SUBSET User
    BY <1>1 DEF Accounts, Patches
<1>4. Normalized(base, patch) = [owner |-> owner, members |-> members, status |-> status]
    BY DEF Normalized
<1>5. owner # None => owner \in members
    OBVIOUS
<1>. HIDE DEF owner, status, members
<1>. QED
    BY <1>1, <1>2, <1>3, <1>4, <1>5 DEF Accounts

LEMMA FreeOK ==
    ASSUME NEW inv
    PROVE  /\ Free \in Reqs /\ RequestOK(Free, inv) /\ RequestApt(Free) /\ Free.pc = "free" /\ Free.id = None
           /\ NoAccount \in Accounts /\ Keep \in Patches
<1>1. NoAccount \in Accounts
    BY DEF NoAccount, Accounts
<1>2. Keep \in Patches
    BY DEF Keep, Patches
<1>3. Free \in Reqs /\ Free.pc = "free" /\ Free.id = None /\ Free.kind = "none"
    BY <1>1, <1>2 DEF Free, Reqs, InviteStates, Kinds
<1>. HIDE DEF Free
<1>4. RequestOK(Free, inv)
    BY <1>3 DEF RequestOK, Located, Writing, Kinds
<1>. QED
    BY <1>1, <1>2, <1>3, <1>4 DEF RequestApt, Writing

Thens == {"sync", "clear", "accepted", "dropped"}

LEMMA SavingFields ==
    ASSUME NEW r \in Reqs, NEW id \in Account, NEW patch \in Patches, NEW then \in Thens
    PROVE  LET s == Saving(r, id, patch, then) IN
           /\ s \in Reqs /\ s.pc = "load" /\ s.id = id /\ s.patch = patch /\ s.then = then
           /\ s.kind = r.kind /\ s.user = r.user /\ s.who = r.who /\ s.inv = r.inv /\ s.snap = r.snap
           /\ s.todo = r.todo /\ s.state = r.state
<1>. DEFINE s == Saving(r, id, patch, then)
<1>1. /\ s.pc = "load" /\ s.id = id /\ s.patch = patch /\ s.then = then
      /\ s.kind = r.kind /\ s.user = r.user /\ s.who = r.who /\ s.inv = r.inv /\ s.snap = r.snap
      /\ s.todo = r.todo /\ s.state = r.state
    BY DEF Saving, Reqs
<1>2. s \in Reqs
    BY DEF Saving, Reqs, Thens
<1>. QED
    BY <1>1, <1>2

-----------------------------------------------------------------------------
(* What a step keeps *)

\* An account is made once, and an invite stays that of its account for its user.
Widens ==
    /\ creator' \in [Account -> User \cup {None}]
    /\ \A a \in Account : creator[a] # None => creator'[a] = creator[a]
    /\ taken \subseteq taken'
    /\ \A i \in Invite : invite[i].state # "none" =>
           /\ invite'[i].state # "none"
           /\ invite'[i].of = invite[i].of /\ invite'[i].who = invite[i].who

LEMMA RequestStays ==
    ASSUME Widens, NEW r, RequestOK(r, invite)
    PROVE  RequestOK(r, invite')
  BY DEF Widens, RequestOK

LEMMA EarnedStays ==
    ASSUME FamilyAssumption, FairInv, Widens, NEW a \in Account, creator[a] # None
    PROVE  Earned(a) \subseteq Earned(a)'
<1>1. \A i \in InvitesOf(a) : i \in InvitesOf(a)' /\ invite'[i].who = invite[i].who
    BY Constants DEF InvitesOf, FairInv, InviteFair, Widens
<1>. QED
    BY <1>1 DEF Earned, Widens

LEMMA FairStays ==
    ASSUME FamilyAssumption, FairInv, Widens, NEW a \in Account, creator[a] # None,
           NEW owner, NEW members, Fair(a, owner, members)
    PROVE  Fair(a, owner, members)'
  BY EarnedStays DEF Fair, Widens

LEMMA AptStays ==
    ASSUME FamilyAssumption, FairInv, Widens, NEW r, NEW inv, RequestOK(r, inv), RequestApt(r),
           r.pc \in Writing /\ creator[r.id] = None => creator'[r.id] = None
    PROVE  RequestApt(r)'
<1>1. r \in Reqs /\ r.id \in Account \cup {None} /\ (r.pc \in Writing => r.id \in Account)
    BY DEF RequestOK, Reqs, Writing, Located
<1>2. CASE r.pc \notin Writing
  <2>1. r.id # None => creator'[r.id] = creator[r.id] /\ creator[r.id] # None
      BY <1>1, <1>2 DEF RequestApt, Widens
  <2>2. r.pc = "seat" => r.id \in Account
      BY DEF RequestOK, Located
  <2>3. r.pc = "seat" => r.user \in Earned(r.id)'
      BY <1>2, <2>2, Constants, EarnedStays DEF RequestApt
  <2>. QED
      BY <1>2, <2>1, <2>3 DEF RequestApt
<1>3. CASE r.pc \in Writing /\ creator[r.id] = None
    BY <1>3 DEF RequestApt, FirstWrite, Writing
<1>4. CASE r.pc \in Writing /\ creator[r.id] # None
  <2>1. r.id \in Account /\ PatchFair(r) /\ creator'[r.id] = creator[r.id] /\ creator'[r.id] # None
      BY <1>1, <1>4 DEF RequestApt, Widens
  <2>2. Earned(r.id) \subseteq Earned(r.id)' /\ (r.id \notin taken' => r.id \notin taken)
      BY <1>4, <2>1, EarnedStays DEF Widens
  <2>3. r.pc = "store" => Fair(r.id, r.base.owner, r.base.members)'
    <3>. SUFFICES ASSUME r.pc = "store"
                  PROVE  Fair(r.id, r.base.owner, r.base.members)'
        OBVIOUS
    <3>1. Fair(r.id, r.base.owner, r.base.members)
        BY <2>1 DEF PatchFair
    <3>. QED
        BY <1>4, <2>1, <3>1, FairStays
  <2>4. PatchFair(r)'
      BY <2>1, <2>2, <2>3 DEF PatchFair
  <2>. QED
      BY <1>4, <2>1, <2>4 DEF RequestApt, Writing
<1>. QED
    BY <1>2, <1>3, <1>4

\* The step of a handler that goes on with the request s.
Goes(h, s) ==
    Continue(h, s) /\ (s.pc = "done" \/ (RequestOK(s, invite) /\ RequestApt(s) /\ Alone(h, s)))

LEMMA Typed ==
    ASSUME TypeInv
    PROVE  /\ account \in [Account -> Accounts] /\ invite \in [Invite -> Invites]
           /\ premium \in [User -> BOOLEAN] /\ link \in [User -> Account \cup {None}] /\ paid \subseteq User
           /\ creator \in [Account -> User \cup {None}] /\ taken \subseteq Account
           /\ req \in [Slot -> Reqs] /\ \A h \in Slot : RequestOK(req[h], invite)
  BY Zenon DEF TypeInv, FamilyTypeOK

\* The requests after a step of the handler h.
LEMMA Progress ==
    ASSUME FamilyInv, NEW h \in Slot, NEW s, Goes(h, s)
    PROVE  /\ req' \in [Slot -> Reqs]
           /\ \A g \in Slot : g # h => req'[g] = req[g]
           /\ RequestOK(req'[h], invite) /\ RequestApt(req'[h]) /\ Alone(h, req'[h])
<1>. DEFINE n == IF s.pc = "done" THEN Free ELSE s
<1>1. req \in [Slot -> Reqs]
    BY Typed DEF FamilyInv
<1>2. req' = [req EXCEPT ![h] = n]
    BY DEF Goes, Continue
<1>3. RequestOK(n, invite) /\ RequestApt(n) /\ Alone(h, n)
  <2>1. RequestOK(Free, invite) /\ RequestApt(Free) /\ Alone(h, Free)
      BY FreeOK DEF Alone, Writing
  <2>. QED
      BY <2>1 DEF Goes
<1>4. n \in Reqs
    BY <1>3 DEF RequestOK
<1>. HIDE DEF n
<1>5. req'[h] = n
    BY <1>1, <1>2
<1>. QED
    BY <1>1, <1>2, <1>3, <1>4, <1>5

\* Most steps change requests and leave the accounts alone; h is the slot that changes.
LEMMA Advance ==
    ASSUME FamilyAssumption, FamilyInv, Widens, NEW h,
           account' = account, creator' = creator, taken' = taken,
           invite' \in [Invite -> Invites], premium' \in [User -> BOOLEAN], paid' \subseteq User,
           link' \in [User -> Account \cup {None}],
           \A i \in Invite : InviteFair(i)',
           \A u \in User : link'[u] # None => creator[link'[u]] # None,
           req' \in [Slot -> Reqs], \A g \in Slot : g # h => req'[g] = req[g],
           h \in Slot => RequestOK(req'[h], invite') /\ RequestApt(req'[h]) /\ Alone(h, req'[h])
    PROVE  FamilyInv'
<1>1. /\ req \in [Slot -> Reqs] /\ account \in [Account -> Accounts]
      /\ creator \in [Account -> User \cup {None}] /\ taken \subseteq Account
      /\ \A g \in Slot : RequestOK(req[g], invite)
    BY Typed DEF FamilyInv
<1>2. FairInv /\ \A g \in Slot : RequestApt(req[g]) /\ Alone(g, req[g])
    BY DEF FamilyInv, FairInv, RequestFair
<1>3. \A g \in Slot : RequestOK(req'[g], invite')
    BY <1>1, RequestStays
<1>4. FamilyTypeOK'
    BY <1>1, Zenon DEF FamilyTypeOK
<1>5. TypeInv'
    BY <1>3, <1>4, Zenon DEF TypeInv
<1>6. ASSUME NEW a \in Account
      PROVE  AccountFair(a)'
  <2>1. AccountFair(a)
      BY <1>2 DEF FairInv
  <2>2. creator[a] # None => Fair(a, account[a].owner, account[a].members)'
      BY <1>2, <2>1, FairStays DEF AccountFair
  <2>. QED
      BY <2>1, <2>2 DEF AccountFair
<1>7. ASSUME NEW g \in Slot
      PROVE  RequestFair(g)'
  <2>. DEFINE n == req'[g]
  <2>1. RequestOK(n, invite') /\ RequestApt(n) /\ Alone(g, n)
      BY <1>2, <1>3
  <2>2. PICK r : r = n
      OBVIOUS
  <2>3. RequestApt(r)'
      BY <1>2, <2>1, <2>2, AptStays
  <2>4. ASSUME n.pc \in Writing, creator[n.id] = None, NEW x \in Slot, x # g
        PROVE  req'[x].id # n.id
    <3>1. n.id \in Account /\ req[x].id # n.id
        BY <2>1, <2>4 DEF Alone, RequestOK, Writing, Located
    <3>2. CASE x # h
        BY <3>1, <3>2
    <3>3. CASE x = h
      <4>1. g # h /\ n = req[g] /\ h \in Slot
          BY <2>4, <3>3
      <4>2. RequestOK(req'[h], invite') /\ RequestApt(req'[h]) /\ Alone(h, req'[h])
          BY <4>1
      <4>3. CASE req'[h].pc \notin Writing
          BY <2>4, <3>1, <3>3, <4>2, <4>3, Constants DEF RequestApt
      <4>4. CASE req'[h].pc \in Writing
          BY <2>4, <3>1, <3>3, <4>1, <4>2, <4>4 DEF Alone
      <4>. QED
          BY <4>3, <4>4
    <3>. QED
        BY <3>2, <3>3
  <2>5. Alone(g, r)'
      BY <2>2, <2>4 DEF Alone
  <2>. QED
      BY <2>2, <2>3, <2>5 DEF RequestFair
<1>8. FairInv'
    BY <1>6, <1>7, Zenon DEF FairInv
<1>. QED
    BY <1>5, <1>8 DEF FamilyInv

-----------------------------------------------------------------------------
(* The requests *)

LEMMA RequestFacts ==
    ASSUME FamilyInv, NEW h \in Slot
    PROVE  LET r == req[h] IN
           /\ r \in Reqs /\ RequestOK(r, invite) /\ RequestApt(r) /\ Alone(h, r)
           /\ r.pc \notin Writing => r.id = None \/ creator[r.id] # None
  BY Typed, Zenon DEF FamilyInv, FairInv, RequestFair, RequestApt

\* A handler that is not about to write needs to know an account that has been made, if any.
LEMMA Onward ==
    ASSUME NEW h \in Slot, NEW s, Continue(h, s),
           \/ s.pc = "done"
           \/ /\ RequestOK(s, invite) /\ s.pc \notin Writing \cup {"seat"}
              /\ s.id = None \/ creator[s.id] # None
    PROVE  Goes(h, s)
  BY DEF Goes, RequestApt, Alone

LEMMA Freed ==
    ASSUME NEW h \in Slot, Continue(h, Free)
    PROVE  Goes(h, Free)
  BY FreeOK DEF Goes, Alone, Writing

LEMMA LoadRequest ==
    ASSUME FamilyAssumption, FamilyInv, NEW h \in Slot, Load(h)
    PROVE  \E s : Goes(h, s)
<1>. DEFINE r == req[h]
            base == account[r.id]
            s == [r EXCEPT !.pc = "store", !.base = base]
<1>1. r.pc = "load" /\ Continue(h, s)
    BY DEF Load
<1>2. r \in Reqs /\ RequestOK(r, invite) /\ RequestApt(r) /\ Alone(h, r) /\ r.id \in Account
    BY <1>1, RequestFacts DEF RequestOK, Located
<1>3. base \in Accounts /\ AccountFair(r.id)
    BY <1>2, Typed, Zenon DEF FamilyInv, FairInv
<1>4. /\ s \in Reqs /\ s.pc = "store" /\ s.base = base /\ s.id = r.id /\ s.patch = r.patch /\ s.user = r.user
      /\ s.kind = r.kind /\ s.who = r.who /\ s.inv = r.inv /\ s.then = r.then
  <2>. HIDE DEF base
  <2>. QED
      BY <1>2, <1>3 DEF Reqs
<1>. HIDE DEF s
<1>5. RequestOK(s, invite)
    BY <1>1, <1>2, <1>4 DEF RequestOK, Located, Writing
<1>6. RequestApt(s)
  <2>1. CASE creator[r.id] = None
    <3>1. FirstWrite(r) /\ base = NoAccount
        BY <1>1, <1>2, <1>3, <2>1 DEF RequestApt, AccountFair, Writing
    <3>2. FirstWrite(s)
        BY <1>4, <3>1 DEF FirstWrite
    <3>. QED
        BY <1>4, <2>1, <3>2 DEF RequestApt, Writing
  <2>2. CASE creator[r.id] # None
    <3>1. PatchFair(r) /\ Fair(r.id, base.owner, base.members)
        BY <1>1, <1>2, <1>3, <2>2 DEF RequestApt, AccountFair, Writing
    <3>. HIDE DEF base, r
    <3>2. PatchFair(s)
        BY <1>4, <3>1 DEF PatchFair
    <3>. QED
        BY <1>4, <2>2, <3>2 DEF RequestApt, Writing
  <2>. QED
      BY <2>1, <2>2
<1>7. Alone(h, s)
    BY <1>1, <1>2, <1>4 DEF Alone, Writing
<1>. QED
    BY <1>1, <1>5, <1>6, <1>7 DEF Goes

LEMMA ReadProfileRequest ==
    ASSUME FamilyInv, NEW h \in Slot, ReadProfile(h)
    PROVE  \E s : Goes(h, s)
<1>. DEFINE r == req[h]
            own == premium[r.user]
            pc == IF r.kind = "invite" /\ ~premium[r.user] THEN "done" ELSE "find"
            s == [r EXCEPT !.own = own, !.pc = pc]
<1>1. r.pc = "profile" /\ Continue(h, s)
    BY DEF ReadProfile
<1>2. r \in Reqs /\ RequestOK(r, invite) /\ r.kind \notin {"none", "lookup"} /\ r.user \in User
    BY <1>1, RequestFacts DEF RequestOK
<1>3. r.id = None \/ creator[r.id] # None
    BY <1>1, RequestFacts DEF Writing
<1>4. own \in BOOLEAN /\ pc \in {"done", "find"}
    BY <1>2, Typed DEF FamilyInv
<1>. HIDE DEF own, pc
<1>5. CASE pc = "done"
  <2>1. s.pc = "done"
      BY <1>2, <1>5 DEF Reqs
  <2>. QED
      BY <1>1, <2>1, Onward
<1>6. CASE pc = "find"
  <2>1. /\ s \in Reqs /\ s.pc = "find" /\ s.id = r.id /\ s.kind = r.kind /\ s.user = r.user
        /\ s.who = r.who /\ s.inv = r.inv
    <3>. HIDE DEF r
    <3>. DEFINE q == [r EXCEPT !.own = own]
    <3>1. s.pc = "find" /\ s.id = r.id /\ s.kind = r.kind /\ s.user = r.user /\ s.who = r.who /\ s.inv = r.inv
        BY <1>2, <1>6 DEF Reqs
    <3>2. q \in Reqs /\ s = [q EXCEPT !.pc = pc]
        BY <1>2, <1>4 DEF Reqs
    <3>. HIDE DEF q, s
    <3>. QED
        BY <1>6, <3>1, <3>2 DEF Reqs
  <2>. HIDE DEF s
  <2>2. RequestOK(s, invite)
      BY <1>1, <1>2, <2>1 DEF RequestOK, Located, Writing
  <2>. QED
      BY <1>1, <1>3, <2>1, <2>2, Onward DEF Writing
<1>. QED
    BY <1>4, <1>5, <1>6

\* An account that has been written was made for somebody and keeps the rules.
LEMMA WrittenAccount ==
    ASSUME FamilyInv, NEW a \in Account, account[a] # NoAccount
    PROVE  creator[a] # None /\ Fair(a, account[a].owner, account[a].members)
  BY DEF FamilyInv, FairInv, AccountFair

LEMMA FoundAccount ==
    ASSUME FamilyAssumption, FamilyInv, NEW u, FoundFor(u) # None
    PROVE  LET a == FoundFor(u) IN
           /\ a \in Account /\ u \in account[a].members /\ creator[a] # None
           /\ Fair(a, account[a].owner, account[a].members)
<1>1. FoundFor(u) \in Account /\ u \in account[FoundFor(u)].members
    BY FoundForMember
<1>2. account[FoundFor(u)] # NoAccount
    BY <1>1 DEF NoAccount
<1>. QED
    BY <1>1, <1>2, WrittenAccount

LEMMA FindRequest ==
    ASSUME FamilyAssumption, FamilyInv, NEW h \in Slot, Find(h)
    PROVE  \E s : Goes(h, s)
<1>. DEFINE r == req[h]
            a == FoundFor(r.user)
            mine == a # None /\ account[a].owner = r.user
            patch == [Keep EXCEPT !.status = "inactive"]
<1>1. /\ r.pc = "find"
      /\ \/ Continue(h, [r EXCEPT !.pc = "ensure"])
         \/ mine /\ Continue(h, Saving(r, a, patch, "clear"))
         \/ Continue(h, [r EXCEPT !.pc = "done"])
    BY DEF Find
<1>2. r \in Reqs /\ RequestOK(r, invite) /\ (r.id = None \/ creator[r.id] # None)
    BY <1>1, RequestFacts DEF Writing
<1>3. CASE Continue(h, [r EXCEPT !.pc = "ensure"])
  <2>. DEFINE s == [r EXCEPT !.pc = "ensure"]
  <2>1. /\ s \in Reqs /\ s.pc = "ensure" /\ s.id = r.id /\ s.kind = r.kind /\ s.user = r.user
        /\ s.who = r.who /\ s.inv = r.inv
      BY <1>2 DEF Reqs
  <2>. HIDE DEF s
  <2>2. RequestOK(s, invite)
      BY <1>1, <1>2, <2>1 DEF RequestOK, Located, Writing
  <2>. QED
      BY <1>2, <1>3, <2>1, <2>2, Onward DEF Writing, s
<1>4. CASE mine /\ Continue(h, Saving(r, a, patch, "clear"))
  <2>. DEFINE s == Saving(r, a, patch, "clear")
  <2>1. a \in Account /\ creator[a] # None
      BY <1>4, FoundAccount
  <2>2. patch \in Patches /\ patch.owner = None /\ patch.members = {}
      BY DEF Keep, Patches
  <2>3. "clear" \in Thens
      BY DEF Thens
  <2>. HIDE DEF a, patch
  <2>4. /\ s \in Reqs /\ s.pc = "load" /\ s.id = a /\ s.patch = patch /\ s.then = "clear"
        /\ s.kind = r.kind /\ s.user = r.user /\ s.who = r.who /\ s.inv = r.inv
      BY <1>2, <2>1, <2>2, <2>3, SavingFields
  <2>. HIDE DEF s
  <2>5. RequestOK(s, invite)
      BY <1>1, <1>2, <2>1, <2>4 DEF RequestOK, Located, Writing
  <2>6. RequestApt(s) /\ Alone(h, s)
      BY <2>1, <2>2, <2>4 DEF RequestApt, PatchFair, Alone, Writing
  <2>. QED
      BY <1>4, <2>5, <2>6 DEF Goes, s
<1>5. CASE Continue(h, [r EXCEPT !.pc = "done"])
  <2>1. [r EXCEPT !.pc = "done"].pc = "done"
      BY <1>2 DEF Reqs
  <2>. QED
      BY <1>5, <2>1, Onward
<1>. QED
    BY <1>1, <1>3, <1>4, <1>5

LEMMA EnsureRequest ==
    ASSUME FamilyAssumption, FamilyInv, NEW h \in Slot, Ensure(h)
    PROVE  \E s : Goes(h, s)
<1>. DEFINE r == req[h]
            a == FoundFor(r.user)
            patch(id) == [owner |-> r.user, status |-> "active", members |-> {r.user} \cup account[id].members]
<1>1. PICK id \in Account :
        /\ r.pc = "ensure"
        /\ IF a = None THEN account[id] = NoAccount /\ \A g \in Slot : req[g].id # id ELSE id = a
        /\ Continue(h, Saving(r, id, patch(id), "sync"))
    BY Zenon DEF Ensure
<1>. DEFINE s == Saving(r, id, patch(id), "sync")
<1>2. r \in Reqs /\ RequestOK(r, invite) /\ r.user \in User /\ r.kind \notin {"none", "lookup"}
    BY <1>1, RequestFacts DEF RequestOK
<1>3. account[id] \in Accounts /\ account[id].members \subseteq User
    BY Typed DEF FamilyInv, Accounts
<1>4. patch(id) \in Patches /\ patch(id).owner = r.user /\ patch(id).members = {r.user} \cup account[id].members
    BY <1>2, <1>3 DEF Patches
<1>5. "sync" \in Thens
    BY DEF Thens
<1>6. CASE a = None
  <2>1. account[id].members = {} /\ creator[id] = None /\ \A g \in Slot : req[g].id # id
    <3>1. account[id] = NoAccount /\ \A g \in Slot : req[g].id # id
        BY <1>1, <1>6
    <3>2. account[id].members = {}
        BY <3>1 DEF NoAccount
    <3>3. creator[id] # None => account[id].owner \in account[id].members
        BY DEF FamilyInv, FairInv, AccountFair, Fair
    <3>. QED
        BY <3>1, <3>2, <3>3
  <2>. HIDE DEF patch
  <2>2. /\ s \in Reqs /\ s.pc = "load" /\ s.id = id /\ s.patch = patch(id) /\ s.then = "sync"
        /\ s.kind = r.kind /\ s.user = r.user /\ s.who = r.who /\ s.inv = r.inv
      BY <1>2, <1>4, <1>5, SavingFields
  <2>. HIDE DEF s
  <2>3. RequestOK(s, invite)
      BY <1>1, <1>2, <2>2 DEF RequestOK, Located, Writing
  <2>4. FirstWrite(s)
      BY <1>2, <1>4, <2>1, <2>2 DEF FirstWrite
  <2>5. RequestApt(s) /\ Alone(h, s)
      BY <2>1, <2>2, <2>4 DEF RequestApt, Alone, Writing
  <2>. QED
      BY <1>1, <2>3, <2>5 DEF Goes, s
<1>7. CASE a # None
  <2>1. /\ r.user \in account[id].members /\ creator[id] # None
        /\ Fair(id, account[id].owner, account[id].members)
      BY <1>1, <1>7, FoundAccount
  <2>2. patch(id).members = account[id].members
      BY <1>4, <2>1
  <2>. HIDE DEF patch
  <2>3. /\ s \in Reqs /\ s.pc = "load" /\ s.id = id /\ s.patch = patch(id) /\ s.then = "sync"
        /\ s.kind = r.kind /\ s.user = r.user /\ s.who = r.who /\ s.inv = r.inv
      BY <1>2, <1>4, <1>5, SavingFields
  <2>. HIDE DEF s
  <2>4. RequestOK(s, invite)
      BY <1>1, <1>2, <2>3 DEF RequestOK, Located, Writing
  <2>5. PatchFair(s)
      BY <1>4, <2>1, <2>2, <2>3 DEF PatchFair, Fair
  <2>6. RequestApt(s) /\ Alone(h, s)
      BY <2>1, <2>3, <2>5 DEF RequestApt, Alone, Writing
  <2>. QED
      BY <1>1, <2>4, <2>6 DEF Goes, s
<1>. QED
    BY <1>6, <1>7

LEMMA SyncRequest ==
    ASSUME FamilyInv, NEW h \in Slot, Sync(h)
    PROVE  \E s : Goes(h, s)
<1>. DEFINE r == req[h]
            pc == CASE r.kind \in {"billing", "remove-end"} -> "done"
                    [] r.kind = "accept" -> "profile"
                    [] OTHER -> "list"
            kind == IF r.kind = "accept" THEN "summary" ELSE r.kind
<1>1. r.pc = "sync"
    BY DEF Sync
<1>2. /\ r \in Reqs /\ RequestOK(r, invite) /\ r.id \in Account /\ r.todo \subseteq User
      /\ r.kind \notin {"none", "lookup"} /\ (r.id = None \/ creator[r.id] # None)
    BY <1>1, RequestFacts DEF RequestOK, Located, Writing
<1>3. \/ \E m \in r.todo : Continue(h, [r EXCEPT !.todo = @ \ {m}])
      \/ Continue(h, [r EXCEPT !.pc = pc, !.kind = IF r.kind = "accept" THEN "summary" ELSE @])
    BY Zenon DEF Sync
<1>4. CASE \E m \in r.todo : Continue(h, [r EXCEPT !.todo = @ \ {m}])
  <2>1. PICK m \in r.todo : Continue(h, [r EXCEPT !.todo = r.todo \ {m}])
      BY <1>4
  <2>. DEFINE s == [r EXCEPT !.todo = r.todo \ {m}]
  <2>2. /\ s \in Reqs /\ s.pc = r.pc /\ s.id = r.id /\ s.kind = r.kind /\ s.user = r.user
        /\ s.who = r.who /\ s.inv = r.inv /\ s.todo \subseteq r.todo
      BY <1>2 DEF Reqs
  <2>. HIDE DEF s
  <2>3. RequestOK(s, invite)
      BY <1>1, <1>2, <2>2 DEF RequestOK, Located, Writing
  <2>4. Goes(h, s)
      BY <1>1, <1>2, <2>1, <2>2, <2>3, Onward DEF Writing, s
  <2>. QED
      BY <2>4
<1>5. CASE Continue(h, [r EXCEPT !.pc = pc, !.kind = IF r.kind = "accept" THEN "summary" ELSE @])
  <2>. DEFINE s == [r EXCEPT !.pc = pc, !.kind = kind]
  <2>1. Continue(h, s)
      BY <1>5
  <2>2. \/ pc = "done"
        \/ pc = "profile" /\ r.kind = "accept" /\ kind = "summary"
        \/ pc = "list" /\ kind = r.kind /\ r.kind \notin {"billing", "remove-end", "accept"}
      OBVIOUS
  <2>3. kind \in Kinds \cup {"none", "remove-end"}
      BY <1>2 DEF Reqs, Kinds
  <2>. HIDE DEF pc, kind
  <2>4. s.pc = pc /\ s.id = r.id
      BY <1>2 DEF Reqs
  <2>5. pc = "done" \/ RequestOK(s, invite)
    <3>. SUFFICES ASSUME pc # "done"
                  PROVE  RequestOK(s, invite)
        OBVIOUS
    <3>1. /\ s \in Reqs /\ s.pc = pc /\ s.id = r.id /\ s.kind = kind /\ s.user = r.user
          /\ s.who = r.who /\ s.inv = r.inv
        BY <1>2, <2>2, <2>3 DEF Reqs
    <3>. HIDE DEF s
    <3>. QED
        BY <1>1, <1>2, <2>2, <3>1 DEF RequestOK, Located, Writing, Kinds
  <2>6. Goes(h, s)
    <3>. HIDE DEF s
    <3>. QED
        BY <1>2, <2>1, <2>2, <2>4, <2>5, Onward DEF Writing
  <2>. QED
      BY <2>6
<1>. QED
    BY <1>3, <1>4, <1>5

LEMMA ClearRequest ==
    ASSUME FamilyInv, NEW h \in Slot, Clear(h)
    PROVE  \E s : Goes(h, s)
<1>. DEFINE r == req[h]
            pc == IF r.kind = "billing" THEN "done" ELSE "list"
<1>1. r.pc = "clear"
    BY DEF Clear
<1>2. /\ r \in Reqs /\ RequestOK(r, invite) /\ r.id \in Account /\ r.todo \subseteq User
      /\ r.kind \notin {"none", "lookup"} /\ (r.id = None \/ creator[r.id] # None)
    BY <1>1, RequestFacts DEF RequestOK, Located, Writing
<1>3. \/ \E m \in r.todo : Continue(h, [r EXCEPT !.todo = @ \ {m}])
      \/ Continue(h, [r EXCEPT !.pc = pc])
    BY Zenon DEF Clear
<1>4. CASE \E m \in r.todo : Continue(h, [r EXCEPT !.todo = @ \ {m}])
  <2>1. PICK m \in r.todo : Continue(h, [r EXCEPT !.todo = r.todo \ {m}])
      BY <1>4
  <2>. DEFINE s == [r EXCEPT !.todo = r.todo \ {m}]
  <2>2. /\ s \in Reqs /\ s.pc = r.pc /\ s.id = r.id /\ s.kind = r.kind /\ s.user = r.user
        /\ s.who = r.who /\ s.inv = r.inv /\ s.todo \subseteq r.todo
      BY <1>2 DEF Reqs
  <2>. HIDE DEF s
  <2>3. RequestOK(s, invite)
      BY <1>1, <1>2, <2>2 DEF RequestOK, Located, Writing
  <2>4. Goes(h, s)
      BY <1>1, <1>2, <2>1, <2>2, <2>3, Onward DEF Writing, s
  <2>. QED
      BY <2>4
<1>5. CASE Continue(h, [r EXCEPT !.pc = pc])
  <2>. DEFINE s == [r EXCEPT !.pc = pc]
  <2>1. Continue(h, s) /\ pc \in {"done", "list"}
      BY <1>5
  <2>. HIDE DEF pc
  <2>2. s.pc = pc /\ s.id = r.id
      BY <1>2 DEF Reqs
  <2>3. pc = "done" \/ RequestOK(s, invite)
    <3>. SUFFICES ASSUME pc = "list"
                  PROVE  RequestOK(s, invite)
        BY <2>1
    <3>1. /\ s \in Reqs /\ s.pc = "list" /\ s.id = r.id /\ s.kind = r.kind /\ s.user = r.user
          /\ s.who = r.who /\ s.inv = r.inv
        BY <1>2 DEF Reqs
    <3>. HIDE DEF s
    <3>. QED
        BY <1>1, <1>2, <3>1 DEF RequestOK, Located, Writing
  <2>. HIDE DEF s
  <2>4. Goes(h, s)
      BY <1>2, <2>1, <2>2, <2>3, Onward DEF Writing
  <2>. QED
      BY <2>4
<1>. QED
    BY <1>3, <1>4, <1>5

LEMMA ListRequest ==
    ASSUME FamilyInv, NEW h \in Slot, ListInvites(h)
    PROVE  \E s : Goes(h, s)
<1>. DEFINE r == req[h]
            over == {i \in InvitesOf(r.id) : invite[i].state = "pending" /\ invite[i].due}
            s == [r EXCEPT !.pc = "expire", !.todo = over]
<1>1. r.pc = "list" /\ Continue(h, s)
    BY DEF ListInvites
<1>2. r \in Reqs /\ RequestOK(r, invite) /\ (r.id = None \/ creator[r.id] # None)
    BY <1>1, RequestFacts DEF Writing
<1>3. over \subseteq Invite /\ \A i \in over : invite[i].state # "none"
    BY DEF InvitesOf
<1>. HIDE DEF over
<1>4. /\ s \in Reqs /\ s.pc = "expire" /\ s.id = r.id /\ s.kind = r.kind /\ s.user = r.user
      /\ s.who = r.who /\ s.inv = r.inv /\ s.todo = over
    BY <1>2, <1>3 DEF Reqs
<1>. HIDE DEF s
<1>5. RequestOK(s, invite)
    BY <1>1, <1>2, <1>3, <1>4 DEF RequestOK, Located, Writing
<1>6. Goes(h, s)
    BY <1>1, <1>2, <1>4, <1>5, Onward DEF Writing
<1>. QED
    BY <1>6

LEMMA ExpireRequest ==
    ASSUME FamilyInv, NEW h \in Slot, Expire(h)
    PROVE  \E s : Goes(h, s)
<1>. DEFINE r == req[h]
            pc == CASE r.kind = "invite" -> "seats"
                    [] r.kind = "remove" -> "drop"
                    [] r.kind \in {"revoke", "resend"} -> "read"
                    [] OTHER -> "done"
<1>1. r.pc = "expire"
    BY DEF Expire
<1>2. /\ r \in Reqs /\ RequestOK(r, invite) /\ r.id \in Account /\ (r.id = None \/ creator[r.id] # None)
      /\ r.todo \subseteq Invite /\ \A i \in r.todo : invite[i].state # "none"
    BY <1>1, RequestFacts DEF RequestOK, Located, Writing
<1>3. \/ \E i \in r.todo : Continue(h, [r EXCEPT !.todo = @ \ {i}])
      \/ Continue(h, [r EXCEPT !.pc = pc])
    BY Zenon DEF Expire
<1>4. CASE \E i \in r.todo : Continue(h, [r EXCEPT !.todo = @ \ {i}])
  <2>1. PICK i \in r.todo : Continue(h, [r EXCEPT !.todo = r.todo \ {i}])
      BY <1>4
  <2>. DEFINE s == [r EXCEPT !.todo = r.todo \ {i}]
  <2>2. /\ s \in Reqs /\ s.pc = r.pc /\ s.id = r.id /\ s.kind = r.kind /\ s.user = r.user
        /\ s.who = r.who /\ s.inv = r.inv /\ s.todo \subseteq r.todo
      BY <1>2 DEF Reqs
  <2>. HIDE DEF s
  <2>3. RequestOK(s, invite)
      BY <1>1, <1>2, <2>2 DEF RequestOK, Located, Writing
  <2>4. Goes(h, s)
      BY <1>1, <1>2, <2>1, <2>2, <2>3, Onward DEF Writing, s
  <2>. QED
      BY <2>4
<1>5. CASE Continue(h, [r EXCEPT !.pc = pc])
  <2>. DEFINE s == [r EXCEPT !.pc = pc]
  <2>1. Continue(h, s)
      BY <1>5
  <2>2. \/ pc = "done"
        \/ pc = "seats" /\ r.kind = "invite"
        \/ pc = "drop" /\ r.kind = "remove"
        \/ pc = "read" /\ r.kind \in {"revoke", "resend"}
      OBVIOUS
  <2>. HIDE DEF pc
  <2>3. s.pc = pc /\ s.id = r.id
      BY <1>2 DEF Reqs
  <2>4. pc = "done" \/ RequestOK(s, invite)
    <3>. SUFFICES ASSUME pc # "done"
                  PROVE  RequestOK(s, invite)
        OBVIOUS
    <3>1. /\ s \in Reqs /\ s.pc = pc /\ s.id = r.id /\ s.kind = r.kind /\ s.user = r.user
          /\ s.who = r.who /\ s.inv = r.inv
        BY <1>2, <2>2 DEF Reqs
    <3>. HIDE DEF s
    <3>. QED
        BY <1>1, <1>2, <2>2, <3>1 DEF RequestOK, Located, Writing
  <2>. HIDE DEF s
  <2>5. Goes(h, s)
      BY <1>2, <2>1, <2>2, <2>3, <2>4, Onward DEF Writing
  <2>. QED
      BY <2>5
<1>. QED
    BY <1>3, <1>4, <1>5

\* The invite of a request that has one was made by an account that has been written.
LEMMA InviteFacts ==
    ASSUME FamilyInv, NEW i \in Invite, invite[i].state # "none"
    PROVE  LET a == invite[i].of IN
           /\ a \in Account /\ creator[a] # None /\ invite[i].who \in User /\ invite[i].who \in Earned(a)
           /\ account[a] \in Accounts /\ account[a].owner \in User /\ account[a].members \subseteq User
           /\ Fair(a, account[a].owner, account[a].members)
<1>. DEFINE a == invite[i].of
<1>1. a \in Account /\ creator[a] # None /\ invite[i].who \in User
    BY DEF FamilyInv, FairInv, InviteFair
<1>2. invite[i].who \in Earned(a)
    BY <1>1 DEF Earned, InvitesOf
<1>3. Fair(a, account[a].owner, account[a].members)
    BY <1>1 DEF FamilyInv, FairInv, AccountFair
<1>4. account[a] \in Accounts
    BY <1>1, Typed DEF FamilyInv
<1>5. account[a].members \subseteq User /\ account[a].owner \in account[a].members
    BY <1>3, <1>4 DEF Fair, Accounts
<1>. QED
    BY <1>1, <1>2, <1>3, <1>4, <1>5

\* An account that a request has read.
LEMMA ReadAccount ==
    ASSUME FamilyInv, NEW a \in Account, creator[a] # None
    PROVE  /\ account[a] \in Accounts /\ account[a].owner \in User /\ account[a].members \subseteq User
           /\ Fair(a, account[a].owner, account[a].members)
<1>1. Fair(a, account[a].owner, account[a].members)
    BY DEF FamilyInv, FairInv, AccountFair
<1>2. account[a] \in Accounts
    BY Typed DEF FamilyInv
<1>. QED
    BY <1>1, <1>2 DEF Fair, Accounts

LEMMA LoadMailedRequest ==
    ASSUME FamilyInv, NEW h \in Slot, LoadMailed(h)
    PROVE  \E s : Goes(h, s)
<1>. DEFINE r == req[h]
            state == invite[r.inv].state
            s == [r EXCEPT !.pc = "mailed", !.state = state]
<1>1. r.pc = "mail" /\ Continue(h, s)
    BY DEF LoadMailed
<1>2. /\ r \in Reqs /\ RequestOK(r, invite) /\ (r.id = None \/ creator[r.id] # None)
      /\ r.inv \in Invite /\ state # "none"
    BY <1>1, RequestFacts DEF RequestOK, Writing
<1>3. state \in InviteStates
    BY <1>2, Typed DEF FamilyInv, Invites, InviteStates
<1>. HIDE DEF state
<1>4. /\ s \in Reqs /\ s.pc = "mailed" /\ s.id = r.id /\ s.kind = r.kind /\ s.user = r.user
      /\ s.who = r.who /\ s.inv = r.inv /\ s.state = state
    BY <1>2, <1>3 DEF Reqs
<1>. HIDE DEF s
<1>5. RequestOK(s, invite)
    BY <1>1, <1>2, <1>4 DEF RequestOK, Located, Writing
<1>6. Goes(h, s)
    BY <1>1, <1>2, <1>4, <1>5, Onward DEF Writing
<1>. QED
    BY <1>6

LEMMA StoreMailedRequest ==
    ASSUME FamilyInv, NEW h \in Slot, StoreMailed(h)
    PROVE  \E s : Goes(h, s)
<1>. DEFINE r == req[h]
            s == [Free EXCEPT !.kind = "summary", !.pc = "profile", !.user = r.user]
<1>1. r.pc = "mailed" /\ (Continue(h, Free) \/ (r.kind = "invite" /\ Continue(h, s)))
    BY Zenon DEF StoreMailed
<1>2. CASE r.kind = "invite" /\ Continue(h, s)
  <2>1. r.user \in User
      BY <1>1, <1>2, RequestFacts DEF RequestOK
  <2>2. Free \in Reqs /\ Free.id = None
      BY FreeOK
  <2>. HIDE DEF Free
  <2>3. s \in Reqs /\ s.pc = "profile" /\ s.kind = "summary" /\ s.user = r.user /\ s.id = None
    <3>. HIDE DEF r
    <3>1. "summary" \in Kinds
        BY DEF Kinds
    <3>2. s.pc = "profile" /\ s.kind = "summary" /\ s.user = r.user /\ s.id = None
        BY <2>2 DEF Reqs
    <3>. QED
        BY <2>1, <2>2, <3>1, <3>2 DEF Reqs
  <2>. HIDE DEF s
  <2>4. RequestOK(s, invite)
      BY <2>1, <2>3 DEF RequestOK, Located, Writing
  <2>5. Goes(h, s)
      BY <1>2, <2>3, <2>4, Onward DEF Writing
  <2>. QED
      BY <2>5
<1>. QED
    BY <1>1, <1>2, Freed

LEMMA ReadInviteRequest ==
    ASSUME FamilyInv, NEW h \in Slot, ReadInvite(h)
    PROVE  \E s : Goes(h, s)
<1>. DEFINE r == req[h]
            pc == CASE invite[r.inv].of # r.id \/ invite[r.inv].state # "pending" -> "done"
                    [] r.kind = "revoke"  -> "revoked"
                    [] invite[r.inv].due  -> "expired"
                    [] OTHER              -> "mail"
            s == [r EXCEPT !.pc = pc]
<1>1. r.pc = "read" /\ Continue(h, s)
    BY DEF ReadInvite
<1>2. /\ r \in Reqs /\ RequestOK(r, invite) /\ (r.id = None \/ creator[r.id] # None)
      /\ r.kind \in {"revoke", "resend"}
    BY <1>1, RequestFacts DEF RequestOK, Writing
<1>3. pc \in {"done", "revoked", "expired", "mail"}
    OBVIOUS
<1>. HIDE DEF pc
<1>4. s.pc = pc /\ s.id = r.id
    BY <1>2 DEF Reqs
<1>5. pc = "done" \/ RequestOK(s, invite)
  <2>. SUFFICES ASSUME pc # "done"
                PROVE  RequestOK(s, invite)
      OBVIOUS
  <2>1. /\ s \in Reqs /\ s.pc = pc /\ s.id = r.id /\ s.kind = r.kind /\ s.user = r.user
        /\ s.who = r.who /\ s.inv = r.inv
      BY <1>2, <1>3 DEF Reqs
  <2>. HIDE DEF s
  <2>. QED
      BY <1>1, <1>2, <1>3, <2>1 DEF RequestOK, Located, Writing
<1>. HIDE DEF s
<1>6. Goes(h, s)
    BY <1>1, <1>2, <1>3, <1>4, <1>5, Onward DEF Writing
<1>. QED
    BY <1>6

LEMMA AcceptRequest ==
    ASSUME FamilyInv, NEW h \in Slot, AcceptReads(h)
    PROVE  \E s : Goes(h, s)
<1>. DEFINE r == req[h]
            i == invite[r.inv]
            owned == [r EXCEPT !.pc = "owner", !.id = i.of, !.snap = account[i.of]]
            over == [r EXCEPT !.pc = "expired"]
            seat == [r EXCEPT !.pc = "seat", !.id = i.of]
<1>1. /\ r.pc = "accept"
      /\ \/ Continue(h, owned)
         \/ Continue(h, over)
         \/ i.who = r.user /\ Continue(h, seat)
         \/ Continue(h, Free)
    BY DEF AcceptReads
<1>2. /\ r \in Reqs /\ RequestOK(r, invite) /\ (r.id = None \/ creator[r.id] # None)
      /\ r.kind = "accept" /\ r.inv \in Invite /\ i.state # "none"
    BY <1>1, RequestFacts DEF RequestOK, Writing
<1>3. /\ i.of \in Account /\ creator[i.of] # None /\ i.who \in Earned(i.of)
      /\ account[i.of] \in Accounts /\ account[i.of].owner \in User
    BY <1>2, InviteFacts
<1>. HIDE DEF i
<1>4. CASE Continue(h, owned)
  <2>1. /\ owned \in Reqs /\ owned.pc = "owner" /\ owned.id = i.of /\ owned.kind = r.kind
        /\ owned.user = r.user /\ owned.who = r.who /\ owned.inv = r.inv /\ owned.snap = account[i.of]
      BY <1>2, <1>3 DEF Reqs
  <2>. HIDE DEF owned
  <2>2. RequestOK(owned, invite)
      BY <1>1, <1>2, <1>3, <2>1 DEF RequestOK, Located, Writing
  <2>3. Goes(h, owned)
      BY <1>3, <1>4, <2>1, <2>2, Onward DEF Writing
  <2>. QED
      BY <2>3
<1>5. CASE Continue(h, over)
  <2>1. /\ over \in Reqs /\ over.pc = "expired" /\ over.id = r.id /\ over.kind = r.kind
        /\ over.user = r.user /\ over.who = r.who /\ over.inv = r.inv
      BY <1>2 DEF Reqs
  <2>. HIDE DEF over
  <2>2. RequestOK(over, invite)
      BY <1>1, <1>2, <2>1 DEF RequestOK, Located, Writing
  <2>3. Goes(h, over)
      BY <1>2, <1>5, <2>1, <2>2, Onward DEF Writing
  <2>. QED
      BY <2>3
<1>6. CASE i.who = r.user /\ Continue(h, seat)
  <2>1. /\ seat \in Reqs /\ seat.pc = "seat" /\ seat.id = i.of /\ seat.kind = r.kind
        /\ seat.user = r.user /\ seat.who = r.who /\ seat.inv = r.inv
      BY <1>2, <1>3 DEF Reqs
  <2>. HIDE DEF seat
  <2>2. RequestOK(seat, invite)
      BY <1>1, <1>2, <1>3, <2>1 DEF RequestOK, Located, Writing
  <2>3. RequestApt(seat) /\ Alone(h, seat)
      BY <1>3, <1>6, <2>1 DEF RequestApt, Alone, Writing
  <2>4. Goes(h, seat)
      BY <1>6, <2>2, <2>3 DEF Goes
  <2>. QED
      BY <2>4
<1>. QED
    BY <1>1, <1>4, <1>5, <1>6, Freed

\* A list of members stays within the seats when one is added to a list that has a seat left.
LEMMA SeatLeft ==
    ASSUME FamilyAssumption, NEW members \in SUBSET User, NEW u, Cardinality(members) <= SeatLimit,
           u \in members \/ ~(Cardinality(members) >= SeatLimit)
    PROVE  Cardinality(members \cup {u}) <= SeatLimit
<1>1. IsFiniteSet(members) /\ Cardinality(members) \in Nat /\ SeatLimit \in Nat
    BY Constants, FS_Subset, FS_CardinalityType
<1>2. Cardinality(members \cup {u}) = IF u \in members THEN Cardinality(members) ELSE Cardinality(members) + 1
    BY <1>1, FS_AddElement
<1>. QED
    BY <1>1, <1>2

LEMMA TakeSeatRequest ==
    ASSUME FamilyAssumption, FamilyInv, NEW h \in Slot, TakeSeat(h)
    PROVE  \E s : Goes(h, s)
<1>. DEFINE r == req[h]
            members == account[r.id].members
            patch == [Keep EXCEPT !.members = members \cup {r.user}]
            s == Saving(r, r.id, patch, "accepted")
            full == r.user \notin members /\ Cardinality(members) >= SeatLimit
<1>1. r.pc = "seat" /\ (Continue(h, Free) \/ (~full /\ Continue(h, s)))
    BY Zenon DEF TakeSeat
<1>2. CASE ~full /\ Continue(h, s)
  <2>1. /\ r \in Reqs /\ RequestOK(r, invite) /\ r.id \in Account /\ creator[r.id] # None
        /\ r.kind = "accept" /\ r.user \in User /\ r.user \in Earned(r.id)
    <3>1. /\ r \in Reqs /\ RequestOK(r, invite) /\ RequestApt(r) /\ (r.id = None \/ creator[r.id] # None)
        BY <1>1, RequestFacts DEF Writing
    <3>2. r.id \in Account /\ r.kind = "accept" /\ r.user \in User
        BY <1>1, <3>1 DEF RequestOK, Located
    <3>. QED
        BY <1>1, <3>1, <3>2, Constants DEF RequestApt
  <2>2. members \subseteq User /\ Fair(r.id, account[r.id].owner, members)
      BY <2>1, ReadAccount
  <2>3. members \cup {r.user} \subseteq Earned(r.id)
      BY <2>1, <2>2 DEF Fair
  <2>4. r.id \notin taken =>
            creator[r.id] \in members \cup {r.user} /\ Cardinality(members \cup {r.user}) <= SeatLimit
      BY <1>2, <2>2, SeatLeft DEF Fair
  <2>5. patch \in Patches /\ patch.owner = None /\ patch.members = members \cup {r.user}
      BY <2>1, <2>2 DEF Patches, Keep
  <2>6. "accepted" \in Thens
      BY DEF Thens
  <2>. HIDE DEF patch, members
  <2>7. /\ s \in Reqs /\ s.pc = "load" /\ s.id = r.id /\ s.patch = patch /\ s.then = "accepted"
        /\ s.kind = r.kind /\ s.user = r.user /\ s.who = r.who /\ s.inv = r.inv
      BY <2>1, <2>5, <2>6, SavingFields
  <2>. HIDE DEF s
  <2>8. RequestOK(s, invite)
      BY <1>1, <2>1, <2>7 DEF RequestOK, Located, Writing
  <2>9. PatchFair(s)
      BY <2>3, <2>4, <2>5, <2>7 DEF PatchFair
  <2>10. RequestApt(s) /\ Alone(h, s)
      BY <2>1, <2>7, <2>9 DEF RequestApt, Alone, Writing
  <2>11. Goes(h, s)
      BY <1>2, <2>8, <2>10 DEF Goes
  <2>. QED
      BY <2>11
<1>. QED
    BY <1>1, <1>2, Freed

LEMMA AcceptedRequest ==
    ASSUME FamilyInv, NEW h \in Slot, Accepted(h)
    PROVE  \E s : Goes(h, s)
<1>. DEFINE r == req[h]
            s == [r EXCEPT !.pc = "owner"]
<1>1. r.pc = "accepted" /\ Continue(h, s)
    BY DEF Accepted
<1>2. r \in Reqs /\ RequestOK(r, invite) /\ (r.id = None \/ creator[r.id] # None)
    BY <1>1, RequestFacts DEF Writing
<1>3. /\ s \in Reqs /\ s.pc = "owner" /\ s.id = r.id /\ s.kind = r.kind /\ s.user = r.user
      /\ s.who = r.who /\ s.inv = r.inv /\ s.snap = r.snap
    BY <1>2 DEF Reqs
<1>. HIDE DEF s
<1>4. RequestOK(s, invite)
    BY <1>1, <1>2, <1>3 DEF RequestOK, Located, Writing
<1>5. Goes(h, s)
    BY <1>1, <1>2, <1>3, <1>4, Onward DEF Writing
<1>. QED
    BY <1>5

LEMMA ReadOwnerRequest ==
    ASSUME FamilyInv, NEW h \in Slot, ReadOwner(h)
    PROVE  \E s : Goes(h, s)
<1>. DEFINE r == req[h]
            own == premium[r.snap.owner]
            s == [r EXCEPT !.pc = "sync", !.own = own, !.todo = r.snap.members]
<1>1. r.pc = "owner" /\ Continue(h, s)
    BY DEF ReadOwner
<1>2. /\ r \in Reqs /\ RequestOK(r, invite) /\ (r.id = None \/ creator[r.id] # None)
      /\ r.kind = "accept" /\ r.snap.owner \in User
    BY <1>1, RequestFacts DEF RequestOK, Writing
<1>3. own \in BOOLEAN /\ r.snap.members \subseteq User
    BY <1>2, Typed DEF FamilyInv, Reqs, Accounts
<1>. HIDE DEF own
<1>4. /\ s \in Reqs /\ s.pc = "sync" /\ s.id = r.id /\ s.kind = r.kind /\ s.user = r.user
      /\ s.who = r.who /\ s.inv = r.inv /\ s.todo = r.snap.members
  <2>. HIDE DEF r
  <2>1. /\ s.pc = "sync" /\ s.id = r.id /\ s.kind = r.kind /\ s.user = r.user
        /\ s.who = r.who /\ s.inv = r.inv /\ s.todo = r.snap.members
      BY <1>2 DEF Reqs
  <2>. QED
      BY <1>2, <1>3, <2>1 DEF Reqs
<1>. HIDE DEF s
<1>5. RequestOK(s, invite)
    BY <1>1, <1>2, <1>3, <1>4 DEF RequestOK, Located, Writing
<1>6. Goes(h, s)
    BY <1>2, <1>1, <1>4, <1>5, Onward DEF Writing
<1>. QED
    BY <1>6

LEMMA DropRequest ==
    ASSUME FamilyAssumption, FamilyInv, NEW h \in Slot, Drop(h)
    PROVE  \E s : Goes(h, s)
<1>. DEFINE r == req[h]
            a == account[r.id]
            rest == a.members \ {r.who}
            patch == [Keep EXCEPT !.members = rest]
            s == Saving(r, r.id, patch, "dropped")
            gone == [r EXCEPT !.pc = "dropped", !.snap = a]
<1>1. /\ r.pc = "drop"
      /\ \/ Continue(h, Free)
         \/ Continue(h, gone)
         \/ r.who # a.owner /\ Continue(h, s)
    BY DEF Drop
<1>2. /\ r \in Reqs /\ RequestOK(r, invite) /\ r.id \in Account /\ creator[r.id] # None
      /\ r.kind = "remove" /\ r.user \in User /\ r.who \in User
  <2>1. r \in Reqs /\ RequestOK(r, invite) /\ (r.id = None \/ creator[r.id] # None)
      BY <1>1, RequestFacts DEF Writing
  <2>2. r.id \in Account /\ r.kind = "remove" /\ r.user \in User /\ r.who \in User
      BY <1>1, <2>1 DEF RequestOK, Located
  <2>. QED
      BY <2>1, <2>2, Constants
<1>3. a \in Accounts /\ a.members \subseteq User /\ Fair(r.id, a.owner, a.members)
    BY <1>2, ReadAccount
<1>. HIDE DEF a
<1>4. CASE Continue(h, gone)
  <2>1. /\ gone \in Reqs /\ gone.pc = "dropped" /\ gone.id = r.id /\ gone.kind = r.kind
        /\ gone.user = r.user /\ gone.who = r.who /\ gone.inv = r.inv
      BY <1>2, <1>3 DEF Reqs
  <2>. HIDE DEF gone
  <2>2. RequestOK(gone, invite)
      BY <1>1, <1>2, <2>1 DEF RequestOK, Located, Writing
  <2>3. Goes(h, gone)
      BY <1>2, <1>4, <2>1, <2>2, Onward DEF Writing
  <2>. QED
      BY <2>3
<1>5. CASE r.who # a.owner /\ Continue(h, s)
  <2>1. rest \subseteq Earned(r.id)
      BY <1>3 DEF Fair
  <2>2. r.id \notin taken => creator[r.id] \in rest /\ Cardinality(rest) <= SeatLimit
    <3>1. /\ IsFiniteSet(a.members) /\ rest \in SUBSET a.members /\ SeatLimit \in Nat
          /\ Cardinality(a.members) \in Nat
        BY <1>3, Constants, FS_Subset, FS_CardinalityType
    <3>2. Cardinality(rest) \in Nat /\ Cardinality(rest) <= Cardinality(a.members)
        BY <3>1, FS_Subset, FS_CardinalityType
    <3>. QED
        BY <1>3, <1>5, <3>1, <3>2 DEF Fair
  <2>3. patch \in Patches /\ patch.owner = None /\ patch.members = rest
      BY <1>3 DEF Patches, Keep
  <2>4. "dropped" \in Thens
      BY DEF Thens
  <2>. HIDE DEF patch, rest
  <2>5. /\ s \in Reqs /\ s.pc = "load" /\ s.id = r.id /\ s.patch = patch /\ s.then = "dropped"
        /\ s.kind = r.kind /\ s.user = r.user /\ s.who = r.who /\ s.inv = r.inv
      BY <1>2, <2>3, <2>4, SavingFields
  <2>. HIDE DEF s
  <2>6. RequestOK(s, invite)
      BY <1>1, <1>2, <2>5 DEF RequestOK, Located, Writing
  <2>7. PatchFair(s)
      BY <2>1, <2>2, <2>3, <2>5 DEF PatchFair
  <2>8. RequestApt(s) /\ Alone(h, s)
      BY <1>2, <2>5, <2>7 DEF RequestApt, Alone, Writing
  <2>9. Goes(h, s)
      BY <1>5, <2>6, <2>8 DEF Goes
  <2>. QED
      BY <2>9
<1>. QED
    BY <1>1, <1>4, <1>5, Freed

LEMMA DroppedRequest ==
    ASSUME FamilyInv, NEW h \in Slot, Dropped(h)
    PROVE  \E s : Goes(h, s)
<1>. DEFINE r == req[h]
            own == premium[r.user]
            s == [r EXCEPT !.kind = "remove-end", !.pc = "sync", !.own = own, !.todo = r.snap.members]
<1>1. r.pc = "dropped" /\ Continue(h, s)
    BY DEF Dropped
<1>2. /\ r \in Reqs /\ RequestOK(r, invite) /\ (r.id = None \/ creator[r.id] # None)
      /\ r.kind = "remove" /\ r.user \in User
    BY <1>1, RequestFacts DEF RequestOK, Writing
<1>3. own \in BOOLEAN /\ r.snap.members \subseteq User
    BY <1>2, Typed DEF FamilyInv, Reqs, Accounts
<1>. HIDE DEF own
<1>4. /\ s \in Reqs /\ s.pc = "sync" /\ s.id = r.id /\ s.kind = "remove-end" /\ s.user = r.user
      /\ s.who = r.who /\ s.inv = r.inv /\ s.todo = r.snap.members
    BY <1>2, <1>3 DEF Reqs
<1>. HIDE DEF s
<1>5. RequestOK(s, invite)
    BY <1>1, <1>2, <1>3, <1>4 DEF RequestOK, Located, Writing
<1>6. Goes(h, s)
    BY <1>2, <1>1, <1>4, <1>5, Onward DEF Writing
<1>. QED
    BY <1>6

LEMMA ListPaidRequest ==
    ASSUME FamilyInv, NEW h \in Slot, ListPaid(h)
    PROVE  \E s : Goes(h, s)
<1>. DEFINE r == req[h]
            own == r.user \in paid
            s == [r EXCEPT !.pc = "save", !.own = own]
<1>1. r.pc = "paid" /\ Continue(h, s)
    BY DEF ListPaid
<1>2. r \in Reqs /\ RequestOK(r, invite) /\ (r.id = None \/ creator[r.id] # None)
    BY <1>1, RequestFacts DEF Writing
<1>3. own \in BOOLEAN
    OBVIOUS
<1>. HIDE DEF own
<1>4. /\ s \in Reqs /\ s.pc = "save" /\ s.id = r.id /\ s.kind = r.kind /\ s.user = r.user
      /\ s.who = r.who /\ s.inv = r.inv
  <2>. HIDE DEF r
  <2>. DEFINE q == [r EXCEPT !.pc = "save"]
  <2>1. s.pc = "save" /\ s.id = r.id /\ s.kind = r.kind /\ s.user = r.user /\ s.who = r.who /\ s.inv = r.inv
      BY <1>2 DEF Reqs
  <2>2. q \in Reqs /\ s = [q EXCEPT !.own = own]
      BY <1>2 DEF Reqs
  <2>. HIDE DEF q, s
  <2>. QED
      BY <1>3, <2>1, <2>2 DEF Reqs
<1>. HIDE DEF s
<1>5. RequestOK(s, invite)
    BY <1>1, <1>2, <1>4 DEF RequestOK, Located, Writing
<1>6. Goes(h, s)
    BY <1>1, <1>2, <1>4, <1>5, Onward DEF Writing
<1>. QED
    BY <1>6

LEMMA SaveBillingRequest ==
    ASSUME FamilyInv, NEW h \in Slot, SaveBilling(h)
    PROVE  /\ \E s : Goes(h, s)
           /\ req[h].user \in User /\ req[h].own \in BOOLEAN /\ req[h].id \in Account \cup {None}
           /\ req[h].id # None => creator[req[h].id] # None
<1>. DEFINE r == req[h]
            s == [r EXCEPT !.pc = "find", !.id = None]
<1>1. r.pc = "save" /\ Continue(h, s)
    BY DEF SaveBilling
<1>2. /\ r \in Reqs /\ RequestOK(r, invite) /\ (r.id = None \/ creator[r.id] # None)
      /\ r.user \in User
    BY <1>1, RequestFacts DEF RequestOK, Writing
<1>3. /\ s \in Reqs /\ s.pc = "find" /\ s.id = None /\ s.kind = r.kind /\ s.user = r.user
      /\ s.who = r.who /\ s.inv = r.inv
    BY <1>2 DEF Reqs
<1>. HIDE DEF s
<1>4. RequestOK(s, invite)
    BY <1>1, <1>2, <1>3 DEF RequestOK, Located, Writing
<1>5. Goes(h, s)
    BY <1>1, <1>3, <1>4, Onward DEF Writing
<1>. QED
    BY <1>2, <1>5 DEF Reqs

\* A seat is offered by using an invite again or by a new one.
LEMMA OfferSeatRequest ==
    ASSUME FamilyAssumption, FamilyInv, NEW h \in Slot, OfferSeat(h)
    PROVE  \/ invite' = invite /\ \E s : Goes(h, s)
           \/ \E i \in Invite :
                /\ invite[i].state = "none" /\ req[h].who \in User
                /\ req[h].id \in Account /\ creator[req[h].id] # None
                /\ invite' = [invite EXCEPT ![i] = [state |-> "pending", of |-> req[h].id,
                                                    who |-> req[h].who, due |-> FALSE]]
                /\ \E s : Continue(h, s) /\ RequestOK(s, invite') /\ RequestApt(s) /\ Alone(h, s)
<1>. DEFINE r == req[h]
            mail(i) == [r EXCEPT !.pc = "mail", !.inv = i]
            new == [state |-> "pending", of |-> r.id, who |-> r.who, due |-> FALSE]
<1>1. /\ r.pc = "seats"
      /\ \/ Continue(h, Free) /\ invite' = invite
         \/ /\ \E i \in InvitesOf(r.id) : Pending(i) /\ Continue(h, mail(i))
            /\ invite' = invite
         \/ \E i \in Invite : /\ invite[i].state = "none"
                              /\ invite' = [invite EXCEPT ![i] = new]
                              /\ Continue(h, mail(i))
    BY DEF OfferSeat
<1>2. /\ r \in Reqs /\ RequestOK(r, invite) /\ r.id \in Account /\ creator[r.id] # None
      /\ r.kind = "invite" /\ r.user \in User /\ r.who \in User
  <2>1. r \in Reqs /\ RequestOK(r, invite) /\ (r.id = None \/ creator[r.id] # None)
      BY <1>1, RequestFacts DEF Writing
  <2>2. r.id \in Account /\ r.kind = "invite" /\ r.user \in User /\ r.who \in User
      BY <1>1, <2>1 DEF RequestOK, Located
  <2>. QED
      BY <2>1, <2>2, Constants
<1>3. ASSUME NEW i \in Invite, NEW inv, inv[i].state # "none"
      PROVE  RequestOK(mail(i), inv) /\ RequestApt(mail(i)) /\ Alone(h, mail(i)) /\ mail(i).pc = "mail"
             /\ mail(i).id = r.id
  <2>. DEFINE s == mail(i)
  <2>1. /\ s \in Reqs /\ s.pc = "mail" /\ s.id = r.id /\ s.kind = r.kind /\ s.user = r.user
        /\ s.who = r.who /\ s.inv = i
      BY <1>2 DEF Reqs
  <2>. HIDE DEF s, mail
  <2>2. RequestOK(s, inv)
      BY <1>2, <1>3, <2>1 DEF RequestOK, Located, Writing
  <2>3. RequestApt(s) /\ Alone(h, s)
      BY <1>2, <2>1 DEF RequestApt, Alone, Writing
  <2>. QED
      BY <2>1, <2>2, <2>3 DEF s
<1>4. CASE Continue(h, Free) /\ invite' = invite
    BY <1>4, Freed
<1>5. CASE /\ \E i \in InvitesOf(r.id) : Pending(i) /\ Continue(h, mail(i))
           /\ invite' = invite
  <2>1. PICK i \in InvitesOf(r.id) : Pending(i) /\ Continue(h, mail(i))
      BY <1>5
  <2>2. i \in Invite /\ invite[i].state # "none"
      BY <2>1 DEF InvitesOf, Pending
  <2>. HIDE DEF mail
  <2>3. Goes(h, mail(i))
      BY <1>3, <2>1, <2>2 DEF Goes
  <2>. QED
      BY <1>5, <2>3
<1>6. CASE \E i \in Invite : /\ invite[i].state = "none"
                             /\ invite' = [invite EXCEPT ![i] = new]
                             /\ Continue(h, mail(i))
  <2>1. PICK i \in Invite : /\ invite[i].state = "none"
                            /\ invite' = [invite EXCEPT ![i] = new]
                            /\ Continue(h, mail(i))
      BY <1>6
  <2>2. new.state # "none"
      OBVIOUS
  <2>3. invite'[i] = new
      BY <2>1, Typed DEF FamilyInv
  <2>. HIDE DEF mail, new
  <2>4. RequestOK(mail(i), invite') /\ RequestApt(mail(i)) /\ Alone(h, mail(i))
      BY <1>3, <2>2, <2>3
  <2>. QED
      BY <1>2, <2>1, <2>4 DEF new
<1>. QED
    BY <1>1, <1>4, <1>5, <1>6

LEMMA BeginFacts ==
    ASSUME NEW h, NEW r, Begin(h, r)
    PROVE  Continue(h, r) /\ UNCHANGED <<stored, paid, creator, taken, plans>>
  BY Zenon DEF Begin

\* A request begins with what its caller says, and the account of its profile or of the list.
LEMMA StartRequest ==
    ASSUME FamilyInv, NEW h \in Slot, Start(h)
    PROVE  (\E s : Goes(h, s)) /\ UNCHANGED <<stored, paid, creator, taken, plans>>
<1>1. Free \in Reqs /\ Free.id = None /\ Free.pc = "free" /\ NoAccount \in Accounts /\ Keep \in Patches
    BY FreeOK
<1>5. /\ "billing" \in Kinds /\ "lookup" \in Kinds /\ "summary" \in Kinds /\ "invite" \in Kinds
      /\ "accept" \in Kinds /\ "remove" \in Kinds /\ "revoke" \in Kinds /\ "resend" \in Kinds
    BY DEF Kinds
<1>. HIDE DEF Free
<1>2. ASSUME NEW u \in User, Billing(h, u)
      PROVE  (\E s : Goes(h, s)) /\ UNCHANGED <<stored, paid, creator, taken, plans>>
  <2>. DEFINE id == link[u]
              s == [Free EXCEPT !.kind = "billing", !.pc = "paid", !.user = u, !.id = id]
  <2>1. Continue(h, s) /\ UNCHANGED <<stored, paid, creator, taken, plans>>
      BY <1>2, BeginFacts DEF Billing
  <2>2. id \in Account \cup {None} /\ (id = None \/ creator[id] # None)
      BY Typed DEF FamilyInv, FairInv
  <2>. HIDE DEF id
  <2>3. s.kind = "billing" /\ s.pc = "paid" /\ s.user = u /\ s.id = id
      BY <1>1 DEF Reqs
  <2>4. s \in Reqs
      BY <1>1, <1>5, <2>2 DEF Free, Reqs, InviteStates
  <2>. HIDE DEF s
  <2>5. RequestOK(s, invite)
      BY <2>3, <2>4 DEF RequestOK, Located, Writing
  <2>6. Goes(h, s)
      BY <2>1, <2>2, <2>3, <2>5, Onward DEF Writing
  <2>. QED
      BY <2>1, <2>6
<1>3. ASSUME NEW s \in Reqs, s.id = None, s.user \in User, Begin(h, s),
             s.kind \in {"summary", "invite", "accept", "remove", "revoke", "resend"},
             s.pc \in {"profile", "accept"}, s.pc = "accept" <=> s.kind = "accept",
             s.kind \in {"invite", "remove"} => s.who \in User,
             s.kind \in {"accept", "revoke", "resend"} => s.inv \in Invite /\ invite[s.inv].state # "none"
      PROVE  (\E n : Goes(h, n)) /\ UNCHANGED <<stored, paid, creator, taken, plans>>
  <2>1. Continue(h, s) /\ UNCHANGED <<stored, paid, creator, taken, plans>>
      BY <1>3, BeginFacts
  <2>2. RequestOK(s, invite)
      BY <1>3 DEF RequestOK, Located, Writing
  <2>3. Goes(h, s)
      BY <1>3, <2>1, <2>2, Onward DEF Writing
  <2>. QED
      BY <2>1, <2>3
<1>4. ASSUME NEW a \in Account, Lookup(h, a)
      PROVE  (\E s : Goes(h, s)) /\ UNCHANGED <<stored, paid, creator, taken, plans>>
  <2>. DEFINE s == [Free EXCEPT !.kind = "lookup", !.pc = "list", !.id = a]
  <2>1. Continue(h, s) /\ UNCHANGED <<stored, paid, creator, taken, plans>> /\ account[a] # NoAccount
    <3>1. Begin(h, s) /\ account[a] # NoAccount
        BY <1>4, Zenon DEF Lookup
    <3>. QED
        BY <3>1, BeginFacts
  <2>2. creator[a] # None
      BY <2>1, WrittenAccount
  <2>3. s.kind = "lookup" /\ s.pc = "list" /\ s.id = a
      BY <1>1 DEF Reqs
  <2>4. s \in Reqs
      BY <1>1, <1>5 DEF Free, Reqs, InviteStates
  <2>. HIDE DEF s
  <2>5. RequestOK(s, invite)
      BY <2>3, <2>4 DEF RequestOK, Located, Writing
  <2>6. Goes(h, s)
      BY <2>1, <2>2, <2>3, <2>5, Onward DEF Writing
  <2>. QED
      BY <2>1, <2>6
<1>7. ASSUME NEW u \in User, Summary(h, u)
      PROVE  (\E s : Goes(h, s)) /\ UNCHANGED <<stored, paid, creator, taken, plans>>
  <2>. DEFINE s == [Free EXCEPT !.kind = "summary", !.pc = "profile", !.user = u]
  <2>1. Begin(h, s)
      BY <1>7, Zenon DEF Summary
  <2>2. s.id = None /\ s.kind = "summary" /\ s.pc = "profile" /\ s.user = u
      BY <1>1 DEF Reqs
  <2>3. s \in Reqs
      BY <1>1, <1>5 DEF Free, Reqs, InviteStates
  <2>. HIDE DEF s
  <2>. QED
      BY <1>3, <2>1, <2>2, <2>3
<1>8. ASSUME NEW u \in User, NEW w \in User, InviteUser(h, u, w)
      PROVE  (\E s : Goes(h, s)) /\ UNCHANGED <<stored, paid, creator, taken, plans>>
  <2>. DEFINE s == [Free EXCEPT !.kind = "invite", !.pc = "profile", !.user = u, !.who = w]
  <2>1. Begin(h, s)
      BY <1>8, Zenon DEF InviteUser
  <2>2. s.id = None /\ s.kind = "invite" /\ s.pc = "profile" /\ s.user = u /\ s.who = w
      BY <1>1 DEF Reqs
  <2>3. s \in Reqs
      BY <1>1, <1>5 DEF Free, Reqs, InviteStates
  <2>. HIDE DEF s
  <2>. QED
      BY <1>3, <2>1, <2>2, <2>3
<1>9. ASSUME NEW u \in User, NEW w \in User, Remove(h, u, w)
      PROVE  (\E s : Goes(h, s)) /\ UNCHANGED <<stored, paid, creator, taken, plans>>
  <2>. DEFINE s == [Free EXCEPT !.kind = "remove", !.pc = "profile", !.user = u, !.who = w]
  <2>1. Begin(h, s)
      BY <1>9, Zenon DEF Remove
  <2>2. s.id = None /\ s.kind = "remove" /\ s.pc = "profile" /\ s.user = u /\ s.who = w
      BY <1>1 DEF Reqs
  <2>3. s \in Reqs
      BY <1>1, <1>5 DEF Free, Reqs, InviteStates
  <2>. HIDE DEF s
  <2>. QED
      BY <1>3, <2>1, <2>2, <2>3
<1>10. ASSUME NEW u \in User, NEW i \in Invite, Accept(h, u, i)
      PROVE  (\E s : Goes(h, s)) /\ UNCHANGED <<stored, paid, creator, taken, plans>>
  <2>. DEFINE s == [Free EXCEPT !.kind = "accept", !.pc = "accept", !.user = u, !.inv = i]
  <2>1. Begin(h, s) /\ invite[i].state # "none"
      BY <1>10, Zenon DEF Accept
  <2>2. s.id = None /\ s.kind = "accept" /\ s.pc = "accept" /\ s.user = u /\ s.inv = i
      BY <1>1 DEF Reqs
  <2>3. s \in Reqs
      BY <1>1, <1>5 DEF Free, Reqs, InviteStates
  <2>. HIDE DEF s
  <2>. QED
      BY <1>3, <2>1, <2>2, <2>3
<1>11. ASSUME NEW u \in User, NEW i \in Invite, NEW kind \in {"revoke", "resend"}, Close(h, u, i, kind)
      PROVE  (\E s : Goes(h, s)) /\ UNCHANGED <<stored, paid, creator, taken, plans>>
  <2>. DEFINE s == [Free EXCEPT !.kind = kind, !.pc = "profile", !.user = u, !.inv = i]
  <2>1. Begin(h, s) /\ invite[i].state # "none"
      BY <1>11, Zenon DEF Close
  <2>2. s.id = None /\ s.kind = kind /\ s.pc = "profile" /\ s.user = u /\ s.inv = i
      BY <1>1 DEF Reqs
  <2>3. s \in Reqs
    <3>. DEFINE q == [Free EXCEPT !.pc = "profile", !.user = u, !.inv = i]
    <3>1. q \in Reqs
        BY <1>1, <1>5 DEF Free, Reqs, InviteStates
    <3>2. s = [q EXCEPT !.kind = kind] /\ kind \in Kinds
        BY DEF Free, Kinds
    <3>. HIDE DEF q, s
    <3>. QED
        BY <3>1, <3>2 DEF Reqs
  <2>. HIDE DEF s
  <2>. QED
      BY <1>3, <2>1, <2>2, <2>3
<1>. QED
    BY <1>2, <1>4, <1>7, <1>8, <1>9, <1>10, <1>11, Zenon DEF Start

-----------------------------------------------------------------------------
(* The write of an account *)

LEMMA StoreEffects ==
    ASSUME FamilyAssumption, FamilyInv, NEW h \in Slot, Store(h)
    PROVE  LET a == req[h].id
               next == Normalized(req[h].base, req[h].patch)
           IN  /\ a \in Account /\ next \in Accounts /\ next.owner \in User
               /\ account' = [account EXCEPT ![a] = next]
               /\ creator' = [creator EXCEPT ![a] = IF creator[a] = None THEN next.owner ELSE creator[a]]
               /\ taken' = IF creator[a] \in {None, next.owner} THEN taken ELSE taken \cup {a}
               /\ creator[a] = None => next.members = {next.owner}
               /\ creator[a] # None =>
                      /\ next.owner \in next.members /\ next.members \subseteq Earned(a)
                      /\ a \notin taken' => /\ next.owner = creator[a]
                                            /\ Cardinality(next.members) <= SeatLimit
<1>. DEFINE r == req[h]
            a == r.id
            p == r.patch
            b == r.base
            next == Normalized(b, p)
            owner == IF p.owner = None THEN b.owner ELSE p.owner
            listed == IF p.members = {} THEN b.members ELSE p.members
<1>1. /\ r.pc = "store" /\ account' = [account EXCEPT ![a] = next]
      /\ creator' = [creator EXCEPT ![a] = IF creator[a] = None THEN next.owner ELSE creator[a]]
      /\ taken' = IF creator[a] \in {None, next.owner} THEN taken ELSE taken \cup {a}
    BY Zenon DEF Store
<1>2. /\ r \in Reqs /\ RequestOK(r, invite) /\ RequestApt(r) /\ a \in Account
    BY <1>1, RequestFacts DEF RequestOK, Located
<1>3. b \in Accounts /\ p \in Patches /\ next \in Accounts
    BY <1>2, NormalizedType DEF Reqs
<1>4. next.owner = owner /\ next.members = listed \cup ({owner} \ {None})
    BY DEF Normalized
<1>. HIDE DEF next
<1>5. CASE creator[a] = None
  <2>1. p.owner = r.user /\ p.members = {r.user} /\ r.user \in User
      BY <1>1, <1>2, <1>5 DEF RequestApt, FirstWrite, Writing
  <2>2. next.owner = r.user /\ next.members = {r.user}
      BY <1>4, <2>1, Constants
  <2>. QED
      BY <1>1, <1>2, <1>3, <1>5, <2>1, <2>2 DEF next
<1>6. CASE creator[a] # None
  <2>1. /\ p.members # {} =>
               /\ p.members \subseteq Earned(a)
               /\ a \notin taken => creator[a] \in p.members /\ Cardinality(p.members) <= SeatLimit
        /\ p.owner \in p.members \cup {None}
        /\ b.owner \in b.members /\ b.members \subseteq Earned(a)
        /\ a \notin taken => b.owner = creator[a] /\ Cardinality(b.members) <= SeatLimit
      BY <1>1, <1>2, <1>6 DEF RequestApt, PatchFair, Fair, Writing
  <2>2. owner \in User /\ owner \in Earned(a) /\ listed \subseteq Earned(a)
      BY <2>1, <1>3, Constants DEF Accounts, Earned
  <2>3. next.owner \in next.members /\ next.members = listed \cup {owner} /\ next.members \subseteq Earned(a)
      BY <1>4, <2>2, Constants
  <2>4. ASSUME a \notin taken'
        PROVE  next.owner = creator[a] /\ Cardinality(next.members) <= SeatLimit
    <3>1. a \notin taken /\ owner = creator[a]
        BY <1>1, <1>4, <1>6, <2>4
    <3>2. owner \in listed /\ Cardinality(listed) <= SeatLimit
        BY <2>1, <3>1
    <3>3. next.members = listed
        BY <2>3, <3>2
    <3>. QED
        BY <1>4, <3>1, <3>2, <3>3
  <2>. QED
      BY <1>1, <1>2, <1>3, <1>4, <1>6, <2>2, <2>3, <2>4 DEF next
<1>. QED
    BY <1>5, <1>6

LEMMA StoreRequest ==
    ASSUME FamilyAssumption, FamilyInv, NEW h \in Slot, Store(h)
    PROVE  /\ RequestOK(req'[h], invite) /\ req'[h].id = req[h].id /\ req'[h].pc \notin Writing \cup {"seat"}
           /\ req' \in [Slot -> Reqs] /\ \A g \in Slot : g # h => req'[g] = req[g]
<1>. DEFINE r == req[h]
            next == Normalized(r.base, r.patch)
            todo == CASE r.then = "sync"  -> next.members
                      [] r.then = "clear" -> next.members \ {next.owner}
                      [] OTHER            -> {}
            s == [r EXCEPT !.pc = r.then, !.snap = next, !.patch = Keep, !.base = NoAccount, !.todo = todo]
<1>1. r.pc = "store" /\ Continue(h, s)
    BY Zenon DEF Store
<1>2. /\ r \in Reqs /\ RequestOK(r, invite) /\ r.id \in Account /\ r.then \in Thens
      /\ r.then = "accepted" => r.kind = "accept"
      /\ r.then = "dropped" => r.kind = "remove"
  <2>1. r \in Reqs /\ RequestOK(r, invite)
      BY RequestFacts
  <2>. QED
      BY <1>1, <2>1 DEF RequestOK, Located, Writing, Thens, Reqs
<1>3. next \in Accounts /\ next.owner \in User
    BY StoreEffects
<1>4. NoAccount \in Accounts /\ Keep \in Patches /\ req \in [Slot -> Reqs]
    BY FreeOK, Typed DEF FamilyInv
<1>. HIDE DEF next
<1>5. next.members \subseteq User
    BY <1>3 DEF Accounts
<1>6. todo \subseteq User
    BY <1>5
<1>. HIDE DEF todo
<1>7. /\ s.pc = r.then /\ s.id = r.id /\ s.kind = r.kind /\ s.user = r.user
      /\ s.who = r.who /\ s.inv = r.inv /\ s.snap = next /\ s.todo = todo
    BY <1>2 DEF Reqs
<1>8. s \in Reqs
  <2>. HIDE DEF r
  <2>. DEFINE p == [r EXCEPT !.pc = r.then]
              q == [p EXCEPT !.snap = next]
              b == [q EXCEPT !.patch = Keep, !.base = NoAccount]
  <2>1. s = [b EXCEPT !.todo = todo]
      BY <1>2 DEF Reqs
  <2>. HIDE DEF q
  <2>2. q \in Reqs
    <3>1. p \in Reqs
        BY <1>2 DEF Reqs, Thens
    <3>. HIDE DEF p
    <3>. QED
        BY <1>3, <3>1 DEF Reqs, q
  <2>3. b \in Reqs
      BY <1>4, <2>2 DEF Reqs
  <2>. HIDE DEF b, s
  <2>. QED
      BY <1>6, <2>1, <2>3 DEF Reqs
<1>. HIDE DEF s
<1>9. RequestOK(s, invite)
    BY <1>1, <1>2, <1>3, <1>6, <1>7, <1>8 DEF RequestOK, Located, Writing, Thens
<1>10. s.pc \notin {"done", "seat"} \cup Writing
    BY <1>2, <1>7 DEF Thens, Writing
<1>11. req' = [req EXCEPT ![h] = s]
    BY <1>1, <1>10 DEF Continue
<1>. QED
    BY <1>4, <1>7, <1>8, <1>9, <1>10, <1>11

LEMMA StoreKeeps ==
    ASSUME FamilyAssumption, FamilyInv, NEW h \in Slot, Store(h)
    PROVE  FamilyInv'
<1>0. PICK a, next : a = req[h].id /\ next = Normalized(req[h].base, req[h].patch)
    OBVIOUS
<1>1. /\ a \in Account /\ next \in Accounts /\ next.owner \in User
      /\ account' = [account EXCEPT ![a] = next]
      /\ creator' = [creator EXCEPT ![a] = IF creator[a] = None THEN next.owner ELSE creator[a]]
      /\ taken' = IF creator[a] \in {None, next.owner} THEN taken ELSE taken \cup {a}
      /\ creator[a] = None => next.members = {next.owner}
      /\ creator[a] # None =>
             /\ next.owner \in next.members /\ next.members \subseteq Earned(a)
             /\ a \notin taken' => next.owner = creator[a] /\ Cardinality(next.members) <= SeatLimit
    BY <1>0, StoreEffects
<1>2. UNCHANGED <<invite, premium, link, paid>> /\ req[h].pc = "store"
    BY Zenon DEF Store
<1>3. /\ RequestOK(req'[h], invite) /\ req'[h].id = a /\ req'[h].pc \notin Writing \cup {"seat"}
      /\ req' \in [Slot -> Reqs] /\ \A g \in Slot : g # h => req'[g] = req[g]
    BY <1>0, StoreRequest
<1>4. /\ account \in [Account -> Accounts] /\ invite \in [Invite -> Invites]
      /\ premium \in [User -> BOOLEAN] /\ link \in [User -> Account \cup {None}] /\ paid \subseteq User
      /\ creator \in [Account -> User \cup {None}] /\ taken \subseteq Account
      /\ req \in [Slot -> Reqs] /\ \A g \in Slot : RequestOK(req[g], invite)
    BY Typed DEF FamilyInv
<1>5. FairInv /\ None \notin User /\ SeatLimit >= 1
    BY Constants DEF FamilyInv
<1>6. /\ creator' \in [Account -> User \cup {None}] /\ creator'[a] # None
      /\ \A b \in Account : b # a => creator'[b] = creator[b]
      /\ \A b \in Account : creator[b] # None => creator'[b] = creator[b]
      /\ taken \subseteq taken' /\ taken' \subseteq Account
    BY <1>1, <1>4, <1>5
<1>7. Widens
    BY <1>2, <1>6 DEF Widens
<1>8. account' \in [Account -> Accounts]
    BY <1>1, <1>4
<1>9. TypeInv'
  <2>1. FamilyTypeOK'
      BY <1>2, <1>4, <1>6, <1>8 DEF FamilyTypeOK
  <2>2. \A g \in Slot : RequestOK(req'[g], invite')
      BY <1>2, <1>3, <1>4
  <2>. QED
      BY <1>3, <2>1, <2>2, Zenon DEF TypeInv
<1>10. Fair(a, next.owner, next.members)'
  <2>1. CASE creator[a] = None
    <3>1. creator'[a] = next.owner /\ next.members = {next.owner}
        BY <1>1, <1>4, <2>1
    <3>2. Cardinality({next.owner}) = 1
        BY FS_Singleton
    <3>3. next.owner \in Earned(a)'
        BY <1>1, <3>1 DEF Earned
    <3>4. Cardinality(next.members) <= SeatLimit
        BY <1>5, <3>1, <3>2
    <3>. QED
        BY <3>1, <3>3, <3>4 DEF Fair
  <2>2. CASE creator[a] # None
    <3>1. Earned(a) \subseteq Earned(a)'
        BY <1>1, <1>5, <1>7, <2>2, EarnedStays
    <3>. QED
        BY <1>1, <1>6, <2>2, <3>1 DEF Fair
  <2>. QED
      BY <2>1, <2>2
<1>11. ASSUME NEW b \in Account
       PROVE  AccountFair(b)'
  <2>1. CASE b = a
    <3>1. account'[b] = next
        BY <1>1, <1>4, <2>1
    <3>. QED
        BY <1>6, <1>10, <2>1, <3>1 DEF AccountFair
  <2>2. CASE b # a
    <3>1. account'[b] = account[b] /\ creator'[b] = creator[b]
        BY <1>1, <1>4, <1>6, <2>2
    <3>2. AccountFair(b)
        BY <1>5 DEF FairInv
    <3>3. creator[b] # None => Fair(b, account[b].owner, account[b].members)'
        BY <1>5, <1>7, <3>1, <3>2, FairStays DEF AccountFair
    <3>. QED
        BY <3>1, <3>2, <3>3 DEF AccountFair
  <2>. QED
      BY <2>1, <2>2
<1>12. \A i \in Invite : InviteFair(i)'
    BY <1>2, <1>5, <1>6 DEF FairInv, InviteFair
<1>13. \A u \in User : link'[u] # None => creator'[link'[u]] # None
    BY <1>2, <1>4, <1>5, <1>6 DEF FairInv
<1>14. ASSUME NEW g \in Slot
       PROVE  RequestFair(g)'
  <2>1. CASE g = h
    <3>1. RequestApt(req[g])'
        BY <1>3, <1>6, <2>1 DEF RequestApt
    <3>. QED
        BY <1>3, <2>1, <3>1 DEF RequestFair, Alone
  <2>2. CASE g # h
    <3>1. req'[g] = req[g] /\ RequestOK(req[g], invite) /\ RequestApt(req[g]) /\ Alone(g, req[g])
        BY <1>3, <1>4, <1>5, <2>2 DEF FairInv, RequestFair
    <3>2. PICK r : r = req[g]
        OBVIOUS
    <3>3. ASSUME r.pc \in Writing, creator[r.id] = None
          PROVE  r.id \in Account /\ r.id # a /\ \A x \in Slot : x # g => req[x].id # r.id
        BY <1>0, <2>2, <3>1, <3>2, <3>3 DEF Alone, RequestOK, Located, Writing
    <3>4. r.pc \in Writing /\ creator[r.id] = None => creator'[r.id] = None
        BY <1>6, <3>3
    <3>5. RequestApt(r)'
        BY <1>5, <1>7, <3>1, <3>2, <3>4, AptStays
    <3>6. \A x \in Slot : req'[x].id = req[x].id
        BY <1>0, <1>3
    <3>7. ASSUME r.pc \in Writing, creator'[r.id] = None
          PROVE  creator[r.id] = None
      <4>1. r.id \in Account
          BY <3>1, <3>2, <3>7 DEF RequestOK, Located, Writing
      <4>. QED
          BY <1>6, <3>7, <4>1
    <3>8. Alone(g, r)'
        BY <3>3, <3>6, <3>7 DEF Alone
    <3>. QED
        BY <3>1, <3>2, <3>5, <3>8 DEF RequestFair
  <2>. QED
      BY <2>1, <2>2
<1>15. FairInv'
    BY <1>11, <1>12, <1>13, <1>14, Zenon DEF FairInv
<1>. QED
    BY <1>9, <1>15 DEF FamilyInv

-----------------------------------------------------------------------------
(* Every step *)

\* The invites keep their account and user, and those that are there stay.
InvitesKept ==
    /\ invite' \in [Invite -> Invites]
    /\ \A i \in Invite : /\ invite'[i].of = invite[i].of /\ invite'[i].who = invite[i].who
                         /\ invite'[i].state = "none" <=> invite[i].state = "none"

LEMMA QuietKeeps ==
    ASSUME FamilyAssumption, FamilyInv, InvitesKept, NEW h \in Slot, \E s : Goes(h, s),
           UNCHANGED <<account, creator, taken>>,
           premium' \in [User -> BOOLEAN], paid' \subseteq User, link' \in [User -> Account \cup {None}],
           \A u \in User : link'[u] # None => creator[link'[u]] # None
    PROVE  FamilyInv'
<1>1. Widens
    BY Typed DEF Widens, InvitesKept, FamilyInv
<1>2. \A i \in Invite : InviteFair(i)'
    BY DEF FamilyInv, FairInv, InviteFair, InvitesKept
<1>3. PICK s : Goes(h, s)
    OBVIOUS
<1>4. /\ req' \in [Slot -> Reqs] /\ \A g \in Slot : g # h => req'[g] = req[g]
      /\ RequestOK(req'[h], invite) /\ RequestApt(req'[h]) /\ Alone(h, req'[h])
    BY <1>3, Progress
<1>5. RequestOK(req'[h], invite')
    BY <1>1, <1>4, RequestStays
<1>. QED
    BY <1>1, <1>2, <1>4, <1>5, Advance DEF InvitesKept

\* What a step that leaves the profiles or the invites alone leaves alone.
LEMMA Stays ==
    ASSUME FamilyInv
    PROVE  /\ premium \in [User -> BOOLEAN] /\ paid \subseteq User /\ link \in [User -> Account \cup {None}]
           /\ \A u \in User : link[u] # None => creator[link[u]] # None
           /\ invite' = invite => InvitesKept
  BY Typed DEF FamilyInv, FairInv, InvitesKept

\* A step that writes the status of an invite that is there.
LEMMA StatusWritten ==
    ASSUME FamilyInv, NEW i \in Invite, invite[i].state # "none",
           NEW state \in InviteStates \ {"none"}, invite' = [invite EXCEPT ![i].state = state]
    PROVE  InvitesKept
<1>1. invite \in [Invite -> Invites]
    BY Typed DEF FamilyInv
<1>2. invite' = [invite EXCEPT ![i] = [invite[i] EXCEPT !.state = state]]
    OBVIOUS
<1>3. /\ [invite[i] EXCEPT !.state = state] \in Invites
      /\ [invite[i] EXCEPT !.state = state].of = invite[i].of
      /\ [invite[i] EXCEPT !.state = state].who = invite[i].who
      /\ [invite[i] EXCEPT !.state = state].state = state
    BY <1>1 DEF Invites, InviteStates
<1>4. invite' \in [Invite -> Invites] /\ \A j \in Invite : j # i => invite'[j] = invite[j]
    BY <1>1, <1>2, <1>3
<1>5. invite'[i] = [invite[i] EXCEPT !.state = state]
    BY <1>1, <1>2
<1>. QED
    BY <1>3, <1>4, <1>5 DEF InvitesKept

LEMMA ReadsKeep ==
    ASSUME FamilyAssumption, FamilyInv, NEW h \in Slot,
           \/ Load(h) \/ ReadProfile(h) \/ Find(h) \/ Ensure(h) \/ ListInvites(h) \/ LoadMailed(h)
           \/ ReadInvite(h) \/ AcceptReads(h) \/ TakeSeat(h) \/ ReadOwner(h) \/ Drop(h) \/ ListPaid(h)
           \/ Start(h) \/ Dies(h)
    PROVE  FamilyInv'
<1>1. \E s : Goes(h, s)
    BY LoadRequest, ReadProfileRequest, FindRequest, EnsureRequest, ListRequest, LoadMailedRequest,
       ReadInviteRequest, AcceptRequest, TakeSeatRequest, ReadOwnerRequest, DropRequest, ListPaidRequest,
       StartRequest, Freed, Zenon DEF Dies
<1>2. UNCHANGED <<stored, paid, creator, taken>>
  <2>1. CASE Start(h)
      BY <2>1, StartRequest, Zenon
  <2>2. CASE \/ Load(h) \/ ReadProfile(h) \/ Find(h) \/ Ensure(h) \/ ListInvites(h) \/ LoadMailed(h)
             \/ ReadInvite(h) \/ AcceptReads(h) \/ TakeSeat(h) \/ ReadOwner(h) \/ Drop(h) \/ ListPaid(h)
             \/ Dies(h)
      BY <2>2, Zenon DEF Load, ReadProfile, Find, Ensure, ListInvites, LoadMailed, ReadInvite, AcceptReads,
                         TakeSeat, ReadOwner, Drop, ListPaid, Dies
  <2>. QED
      BY <2>1, <2>2
<1>3. UNCHANGED <<account, invite, premium, link, paid, creator, taken>>
    BY <1>2 DEF stored
<1>4. InvitesKept
    BY <1>3, Stays
<1>. QED
    BY <1>1, <1>3, <1>4, Stays, QuietKeeps

\* The profile of a user is written with an account that has been made.
LEMMA ProfileWritten ==
    ASSUME FamilyInv, NEW u \in User, NEW own \in BOOLEAN, NEW id \in Account \cup {None},
           id # None => creator[id] # None,
           premium' = [premium EXCEPT ![u] = own], link' = [link EXCEPT ![u] = id]
    PROVE  /\ premium' \in [User -> BOOLEAN] /\ link' \in [User -> Account \cup {None}]
           /\ \A v \in User : link'[v] # None => creator[link'[v]] # None
<1>1. /\ premium \in [User -> BOOLEAN] /\ link \in [User -> Account \cup {None}]
      /\ \A v \in User : link[v] # None => creator[link[v]] # None
    BY Stays
<1>. QED
    BY <1>1

LEMMA ProfilesKeep ==
    ASSUME FamilyAssumption, FamilyInv, NEW h \in Slot,
           Sync(h) \/ Clear(h) \/ Dropped(h) \/ SaveBilling(h)
    PROVE  FamilyInv'
<1>. DEFINE r == req[h]
<1>1. UNCHANGED <<account, invite, paid, creator, taken>>
    BY Zenon DEF Sync, Clear, Dropped, SaveBilling
<1>2. \E s : Goes(h, s)
    BY SyncRequest, ClearRequest, DroppedRequest, SaveBillingRequest
<1>3. /\ r \in Reqs /\ RequestOK(r, invite) /\ (r.pc \notin Writing => r.id = None \/ creator[r.id] # None)
    BY RequestFacts
<1>4. r.id \in Account \cup {None} /\ r.own \in BOOLEAN /\ FALSE \in BOOLEAN
    BY <1>3 DEF Reqs
<1>5. ASSUME premium' = premium, link' = link
      PROVE  FamilyInv'
    BY <1>1, <1>2, <1>5, Stays, QuietKeeps
<1>6. ASSUME NEW u \in User, NEW own \in BOOLEAN, NEW id \in Account \cup {None},
             id # None => creator[id] # None,
             premium' = [premium EXCEPT ![u] = own], link' = [link EXCEPT ![u] = id]
      PROVE  FamilyInv'
  <2>1. /\ premium' \in [User -> BOOLEAN] /\ link' \in [User -> Account \cup {None}]
        /\ \A v \in User : link'[v] # None => creator[link'[v]] # None
      BY <1>6, ProfileWritten
  <2>. QED
      BY <1>1, <1>2, <2>1, Stays, QuietKeeps
<1>7. CASE Sync(h)
  <2>1. r.pc = "sync" /\ r.todo \subseteq User /\ (r.id # None => creator[r.id] # None)
      BY <1>3, <1>7 DEF Sync, RequestOK, Writing
  <2>2. \/ premium' = premium /\ link' = link
        \/ \E m \in r.todo : premium' = [premium EXCEPT ![m] = r.own] /\ link' = [link EXCEPT ![m] = r.id]
      BY <1>7, Zenon DEF Sync
  <2>. QED
      BY <1>4, <1>5, <1>6, <2>1, <2>2
<1>8. CASE Clear(h)
  <2>1. /\ r.pc = "clear" /\ r.todo \subseteq User /\ r.user \in User
        /\ r.id # None => creator[r.id] # None
      BY <1>3, <1>8 DEF Clear, RequestOK, Writing
  <2>2. \/ link' = [link EXCEPT ![r.user] = r.id] /\ premium' = premium
        \/ \E m \in r.todo : premium' = [premium EXCEPT ![m] = FALSE] /\ link' = [link EXCEPT ![m] = None]
      BY <1>8, Zenon DEF Clear
  <2>3. CASE link' = [link EXCEPT ![r.user] = r.id] /\ premium' = premium
    <3>1. premium' = [premium EXCEPT ![r.user] = premium[r.user]] /\ premium[r.user] \in BOOLEAN
        BY <2>1, <2>3, Stays
    <3>. QED
        BY <1>4, <1>6, <2>1, <2>3, <3>1
  <2>. QED
      BY <1>4, <1>6, <2>1, <2>2, <2>3
<1>9. CASE Dropped(h)
  <2>1. r.pc = "dropped" /\ r.who \in User
      BY <1>3, <1>9 DEF Dropped, RequestOK
  <2>2. premium' = [premium EXCEPT ![r.who] = FALSE] /\ link' = [link EXCEPT ![r.who] = None]
      BY <1>9, Zenon DEF Dropped
  <2>. QED
      BY <1>4, <1>6, <2>1, <2>2
<1>10. CASE SaveBilling(h)
  <2>1. r.user \in User /\ (r.id # None => creator[r.id] # None)
      BY <1>10, SaveBillingRequest
  <2>2. premium' = [premium EXCEPT ![r.user] = r.own] /\ link' = [link EXCEPT ![r.user] = r.id]
      BY <1>10, Zenon DEF SaveBilling
  <2>. QED
      BY <1>4, <1>6, <2>1, <2>2
<1>. QED
    BY <1>7, <1>8, <1>9, <1>10

LEMMA InvitesKeep ==
    ASSUME FamilyAssumption, FamilyInv, NEW h \in Slot,
           Expire(h) \/ StoreMailed(h) \/ CloseInvite(h) \/ Accepted(h)
    PROVE  FamilyInv'
<1>. DEFINE r == req[h]
<1>1. UNCHANGED <<account, premium, link, paid, creator, taken>>
    BY Zenon DEF Expire, StoreMailed, CloseInvite, Accepted
<1>2. \E s : Goes(h, s)
  <2>1. CloseInvite(h) => Continue(h, Free)
      BY Zenon DEF CloseInvite
  <2>. QED
      BY <2>1, ExpireRequest, StoreMailedRequest, AcceptedRequest, Freed
<1>3. r \in Reqs /\ RequestOK(r, invite) /\ r.state \in InviteStates
    BY RequestFacts DEF Reqs
<1>4. "expired" \in InviteStates \ {"none"} /\ "revoked" \in InviteStates \ {"none"}
      /\ "accepted" \in InviteStates \ {"none"}
    BY DEF InviteStates
<1>5. InvitesKept
  <2>1. CASE Expire(h)
    <3>1. r.pc = "expire" /\ r.todo \subseteq Invite /\ \A i \in r.todo : invite[i].state # "none"
        BY <1>3, <2>1 DEF Expire, RequestOK
    <3>2. invite' = invite \/ \E i \in r.todo : invite' = [invite EXCEPT ![i].state = "expired"]
        BY <2>1, Zenon DEF Expire
    <3>. QED
        BY <1>4, <3>1, <3>2, Stays, StatusWritten
  <2>2. CASE StoreMailed(h)
    <3>1. r.inv \in Invite /\ invite[r.inv].state # "none" /\ r.state # "none"
        BY <1>3, <2>2 DEF StoreMailed, RequestOK
    <3>2. invite' = [invite EXCEPT ![r.inv].state = r.state]
        BY <2>2, Zenon DEF StoreMailed
    <3>. QED
        BY <1>3, <3>1, <3>2, StatusWritten
  <2>3. CASE CloseInvite(h)
    <3>1. r.inv \in Invite /\ invite[r.inv].state # "none" /\ r.pc \in {"revoked", "expired"}
        BY <1>3, <2>3 DEF CloseInvite, RequestOK
    <3>2. invite' = [invite EXCEPT ![r.inv].state = r.pc]
        BY <2>3, Zenon DEF CloseInvite
    <3>. QED
        BY <1>4, <3>1, <3>2, StatusWritten
  <2>4. CASE Accepted(h)
    <3>1. r.inv \in Invite /\ invite[r.inv].state # "none"
        BY <1>3, <2>4 DEF Accepted, RequestOK
    <3>2. invite' = [invite EXCEPT ![r.inv].state = "accepted"]
        BY <2>4, Zenon DEF Accepted
    <3>. QED
        BY <1>4, <3>1, <3>2, StatusWritten
  <2>. QED
      BY <2>1, <2>2, <2>3, <2>4
<1>. QED
    BY <1>1, <1>2, <1>5, Stays, QuietKeeps

LEMMA OfferKeeps ==
    ASSUME FamilyAssumption, FamilyInv, NEW h \in Slot, OfferSeat(h)
    PROVE  FamilyInv'
<1>1. UNCHANGED <<account, premium, link, paid, creator, taken>>
    BY Zenon DEF OfferSeat
<1>2. CASE invite' = invite /\ \E s : Goes(h, s)
    BY <1>1, <1>2, Stays, QuietKeeps
<1>3. ASSUME NEW i \in Invite, invite[i].state = "none", req[h].who \in User,
             req[h].id \in Account, creator[req[h].id] # None,
             invite' = [invite EXCEPT ![i] = [state |-> "pending", of |-> req[h].id,
                                              who |-> req[h].who, due |-> FALSE]],
             \E s : Continue(h, s) /\ RequestOK(s, invite') /\ RequestApt(s) /\ Alone(h, s)
      PROVE  FamilyInv'
  <2>. DEFINE new == [state |-> "pending", of |-> req[h].id, who |-> req[h].who, due |-> FALSE]
  <2>1. new \in Invites /\ new.state # "none" /\ new.of = req[h].id /\ new.who = req[h].who
      BY <1>3 DEF Invites
  <2>2. invite \in [Invite -> Invites] /\ req \in [Slot -> Reqs] /\ creator \in [Account -> User \cup {None}]
      BY Typed DEF FamilyInv
  <2>3. invite' \in [Invite -> Invites] /\ invite'[i] = new /\ \A j \in Invite : j # i => invite'[j] = invite[j]
    <3>. HIDE DEF new
    <3>. QED
        BY <1>3, <2>1, <2>2 DEF new
  <2>. HIDE DEF new
  <2>4. Widens
      BY <1>1, <1>3, <2>2, <2>3 DEF Widens
  <2>5. \A j \in Invite : InviteFair(j)'
      BY <1>1, <1>3, <2>1, <2>3 DEF FamilyInv, FairInv, InviteFair
  <2>6. PICK s : Continue(h, s) /\ RequestOK(s, invite') /\ RequestApt(s) /\ Alone(h, s)
      BY <1>3
  <2>7. PICK n : /\ n = IF s.pc = "done" THEN Free ELSE s
                 /\ req' = [req EXCEPT ![h] = n]
      BY <2>6 DEF Continue
  <2>8. RequestOK(n, invite') /\ RequestApt(n) /\ Alone(h, n)
    <3>1. RequestOK(Free, invite') /\ RequestApt(Free) /\ Alone(h, Free)
        BY FreeOK DEF Alone, Writing
    <3>. QED
        BY <2>6, <2>7, <3>1
  <2>9. n \in Reqs
      BY <2>8 DEF RequestOK
  <2>10. req' \in [Slot -> Reqs] /\ req'[h] = n /\ \A g \in Slot : g # h => req'[g] = req[g]
      BY <2>2, <2>7, <2>9
  <2>. QED
      BY <1>1, <2>3, <2>4, <2>5, <2>8, <2>10, Stays, Advance
<1>. QED
    BY <1>2, <1>3, OfferSeatRequest

\* Time passes over an invite, and a plan begins or ends.
LEMMA OutsideKeeps ==
    ASSUME FamilyAssumption, FamilyInv,
           (\E i \in Invite : Lapse(i)) \/ (\E u \in Payer : PlanChanges(u))
    PROVE  FamilyInv'
<1>1. /\ \A i \in Invite : InviteFair(i)
      /\ \A h \in Slot : RequestOK(req[h], invite) /\ RequestApt(req[h]) /\ Alone(h, req[h])
      /\ req \in [Slot -> Reqs] /\ creator \in [Account -> User \cup {None}] /\ invite \in [Invite -> Invites]
    BY Typed, RequestFacts DEF FamilyInv, FairInv
<1>2. UNCHANGED <<account, premium, link, req, creator, taken>>
    BY Zenon DEF Lapse, PlanChanges, stored
<1>3. InvitesKept /\ paid' \subseteq User
  <2>1. ASSUME NEW i \in Invite, Lapse(i)
        PROVE  InvitesKept /\ paid' \subseteq User
    <3>. DEFINE new == [invite[i] EXCEPT !.due = TRUE]
    <3>1. invite' = [invite EXCEPT ![i] = new] /\ paid' = paid
        BY <2>1 DEF Lapse
    <3>2. new \in Invites /\ new.of = invite[i].of /\ new.who = invite[i].who /\ new.state = invite[i].state
        BY <1>1 DEF Invites
    <3>. HIDE DEF new
    <3>3. invite' \in [Invite -> Invites] /\ invite'[i] = new
          /\ \A j \in Invite : j # i => invite'[j] = invite[j]
        BY <1>1, <3>1, <3>2
    <3>. QED
        BY <3>1, <3>2, <3>3, Stays DEF InvitesKept
  <2>2. ASSUME NEW u \in Payer, PlanChanges(u)
        PROVE  InvitesKept /\ paid' \subseteq User
    <3>1. u \in User
        BY Zenon DEF FamilyAssumption
    <3>2. invite' = invite /\ paid' \subseteq paid \cup {u}
        BY <2>2 DEF PlanChanges, stored
    <3>. QED
        BY <3>1, <3>2, Stays
  <2>. QED
      BY <2>1, <2>2
<1>4. Widens
    BY <1>1, <1>2, <1>3 DEF Widens, InvitesKept
<1>5. \A i \in Invite : InviteFair(i)'
    BY <1>1, <1>2, <1>3 DEF InviteFair, InvitesKept
<1>6. \A h \in Slot : RequestOK(req[h], invite')
    BY <1>1, <1>4, RequestStays
<1>7. invite' \in [Invite -> Invites]
    BY <1>3 DEF InvitesKept
<1>8. PICK h : TRUE
    OBVIOUS
<1>. QED
    BY <1>1, <1>2, <1>3, <1>4, <1>5, <1>6, <1>7, Stays, Advance

LEMMA InitFamily ==
    ASSUME FamilyAssumption, Init
    PROVE  FamilyInv
<1>1. Free \in Reqs /\ NoAccount \in Accounts
    BY FreeOK
<1>2. NoInvite \in Invites /\ NoInvite.state = "none" /\ NoInvite.of = None
    BY DEF NoInvite, Invites
<1>. HIDE DEF Free, NoAccount, NoInvite
<1>3. /\ account = [a \in Account |-> NoAccount] /\ invite = [i \in Invite |-> NoInvite]
      /\ premium = [u \in User |-> FALSE] /\ link = [u \in User |-> None] /\ paid = {}
      /\ req = [h \in Slot |-> Free] /\ creator = [a \in Account |-> None] /\ taken = {}
    BY Zenon DEF Init
<1>4. FamilyTypeOK
    BY <1>1, <1>2, <1>3 DEF FamilyTypeOK
<1>5. req \in [Slot -> Reqs] /\ \A h \in Slot : RequestOK(req[h], invite)
    BY <1>1, <1>3, FreeOK
<1>6. TypeInv
    BY <1>4, <1>5 DEF TypeInv
<1>7. \A h \in Slot : RequestFair(h)
  <2>1. \A h \in Slot : RequestApt(req[h]) /\ req[h].pc = "free"
      BY <1>3, FreeOK
  <2>. QED
      BY <2>1 DEF RequestFair, Alone, Writing
<1>8. \A a \in Account : AccountFair(a)
    BY <1>3 DEF AccountFair
<1>9. \A i \in Invite : InviteFair(i)
    BY <1>2, <1>3 DEF InviteFair
<1>10. \A u \in User : link[u] # None => creator[link[u]] # None
    BY <1>3
<1>. QED
    BY <1>6, <1>7, <1>8, <1>9, <1>10 DEF FamilyInv, FairInv

\* The same when one account exists and nobody but its owner u is in it.
LEMMA ProvisionedFamily ==
    ASSUME FamilyAssumption, NEW u \in User, NEW a \in Account,
           account = [b \in Account |-> IF b = a THEN [owner |-> u, members |-> {u}, status |-> "active"]
                                                ELSE NoAccount],
           creator = [b \in Account |-> IF b = a THEN u ELSE None],
           link = [v \in User |-> IF v = u THEN a ELSE None],
           invite = [i \in Invite |-> NoInvite], req = [h \in Slot |-> Free],
           premium \in [User -> BOOLEAN], paid \subseteq User, taken = {}
    PROVE  FamilyInv
<1>1. Free \in Reqs /\ NoAccount \in Accounts
    BY FreeOK
<1>2. NoInvite \in Invites /\ NoInvite.state = "none" /\ NoInvite.of = None
    BY DEF NoInvite, Invites
<1>. DEFINE single == [owner |-> u, members |-> {u}, status |-> "active"]
<1>3. single \in Accounts /\ single.owner = u /\ single.members = {u}
    BY DEF Accounts
<1>4. account = [b \in Account |-> IF b = a THEN single ELSE NoAccount]
    OBVIOUS
<1>. HIDE DEF Free, NoAccount, NoInvite, single
<1>5. account \in [Account -> Accounts]
    BY <1>1, <1>3, <1>4
<1>6. invite \in [Invite -> Invites] /\ link \in [User -> Account \cup {None}] /\ creator \in [Account -> User \cup {None}]
    BY <1>2
<1>7. FamilyTypeOK
    BY <1>5, <1>6 DEF FamilyTypeOK
<1>8. req \in [Slot -> Reqs] /\ \A h \in Slot : RequestOK(req[h], invite)
    BY <1>1, FreeOK
<1>9. TypeInv
    BY <1>7, <1>8 DEF TypeInv
<1>10. \A h \in Slot : RequestFair(h)
  <2>1. \A h \in Slot : RequestApt(req[h]) /\ req[h].pc = "free"
      BY FreeOK
  <2>. QED
      BY <2>1 DEF RequestFair, Alone, Writing
<1>11. Fair(a, u, {u})
  <2>1. u \in Earned(a) /\ creator[a] = u
      BY DEF Earned
  <2>2. Cardinality({u}) = 1 /\ SeatLimit \in Nat \ {0}
      BY FS_Singleton DEF FamilyAssumption
  <2>. QED
      BY <2>1, <2>2 DEF Fair
<1>12. u # None
    BY DEF FamilyAssumption
<1>13. \A b \in Account : AccountFair(b)
    BY <1>3, <1>11, <1>12, <1>4 DEF AccountFair
<1>14. \A i \in Invite : InviteFair(i)
    BY <1>2 DEF InviteFair
<1>15. \A v \in User : link[v] # None => creator[link[v]] # None
    BY <1>12
<1>. QED
    BY <1>9, <1>10, <1>13, <1>14, <1>15 DEF FamilyInv, FairInv

LEMMA StepFamily ==
    ASSUME FamilyAssumption, FamilyInv, [Next]_vars
    PROVE  FamilyInv'
<1>1. CASE Next
  <2>1. ASSUME NEW h \in Slot, Start(h) \/ Dies(h)
        PROVE  FamilyInv'
      BY <2>1, ReadsKeep
  <2>2. ASSUME NEW h \in Slot, Step(h)
        PROVE  FamilyInv'
    <3>1. \/ Store(h) \/ OfferSeat(h)
          \/ Expire(h) \/ StoreMailed(h) \/ CloseInvite(h) \/ Accepted(h)
          \/ Sync(h) \/ Clear(h) \/ Dropped(h) \/ SaveBilling(h)
          \/ Load(h) \/ ReadProfile(h) \/ Find(h) \/ Ensure(h) \/ ListInvites(h) \/ LoadMailed(h)
          \/ ReadInvite(h) \/ AcceptReads(h) \/ TakeSeat(h) \/ ReadOwner(h) \/ Drop(h) \/ ListPaid(h)
        BY <2>2, Zenon DEF Step
    <3>. QED
        BY <3>1, StoreKeeps, OfferKeeps, InvitesKeep, ProfilesKeep, ReadsKeep
  <2>. QED
      BY <1>1, <2>1, <2>2, OutsideKeeps, Zenon DEF Next
<1>2. CASE UNCHANGED vars
  <2>1. UNCHANGED <<account, invite, premium, link, paid, req, creator, taken>>
      BY <1>2, Zenon DEF vars, stored
  <2>2. InvitesKept
      BY <2>1, Stays
  <2>3. Widens
      BY <2>1, Typed DEF Widens, FamilyInv
  <2>4. PICK h : TRUE
      OBVIOUS
  <2>5. /\ \A i \in Invite : InviteFair(i)
        /\ \A g \in Slot : RequestOK(req[g], invite) /\ RequestApt(req[g]) /\ Alone(g, req[g])
        /\ req \in [Slot -> Reqs]
      BY Typed, RequestFacts DEF FamilyInv, FairInv
  <2>6. \A i \in Invite : InviteFair(i)'
      BY <2>1, <2>5 DEF InviteFair
  <2>. QED
      BY <2>1, <2>2, <2>3, <2>5, <2>6, Stays, Advance DEF InvitesKept
<1>. QED
    BY <1>1, <1>2

LEMMA FairSeats ==
    ASSUME FamilyAssumption, FamilyInv
    PROVE  SeatsEarned
<1>. SUFFICES ASSUME NEW a \in Account
              PROVE  /\ a \notin taken => Cardinality(account[a].members) <= SeatLimit
                     /\ \A u \in account[a].members :
                          u = creator[a] \/ \E i \in InvitesOf(a) : invite[i].who = u
    BY DEF SeatsEarned
<1>1. CASE creator[a] = None
  <2>1. account[a].members = {}
      BY <1>1 DEF FamilyInv, FairInv, AccountFair, NoAccount
  <2>2. Cardinality({}) = 0 /\ SeatLimit >= 1
      BY FS_EmptySet, Constants
  <2>. QED
      BY <2>1, <2>2, Constants
<1>2. CASE creator[a] # None
  <2>1. Fair(a, account[a].owner, account[a].members)
      BY <1>2 DEF FamilyInv, FairInv, AccountFair
  <2>. QED
      BY <2>1 DEF Fair, Earned
<1>. QED
    BY <1>1, <1>2

-----------------------------------------------------------------------------
(* Theorems *)

\* Whatever the requests of owners, members and webhooks do to the documents at the same
\* time, accounts, invites and profiles stay what _family-store.js can read.
THEOREM FamilyTypes == ASSUME FamilyAssumption PROVE Spec => []FamilyTypeOK
<1>1. Init => FamilyInv
    BY InitFamily
<1>2. FamilyInv /\ [Next]_vars => FamilyInv'
    BY StepFamily
<1>3. FamilyInv => FamilyTypeOK
    BY DEF FamilyInv, TypeInv
<1>. QED
    BY <1>1, <1>2, <1>3, PTL DEF Spec

\* The members of a family account, written over each other by any number of requests, are
\* those it was made for or has invited, and as long as it keeps its owner they fit its
\* seats (saveFamilyAccount, acceptFamilyInvite).
THEOREM SeatsAreEarned == ASSUME FamilyAssumption PROVE Spec => []SeatsEarned
<1>1. Init => FamilyInv
    BY InitFamily
<1>2. FamilyInv /\ [Next]_vars => FamilyInv'
    BY StepFamily
<1>3. FamilyInv => SeatsEarned
    BY FairSeats
<1>. QED
    BY <1>1, <1>2, <1>3, PTL DEF Spec

=============================================================================
