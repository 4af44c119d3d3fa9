---------------------------- MODULE FamilyAccounts ----------------------------
(***************************************************************************)
(* Family accounts: an owner who pays, the members invited by e-mail and    *)
(* the family access in everybody's billing profile                         *)
(* (api/stripe/_family-store.js and the family handlers of _handlers.js).   *)
(*                                                                          *)
(* Accounts and invites are documents saved by reading them and writing     *)
(* them whole.  Almost every request of an owner begins by provisioning the *)
(* account, which writes the member list it has read a moment before, so    *)
(* requests of the owner, of members and of the payment webhook meet in the *)
(* same documents.  Each step of a request ends where the code awaits.      *)
(***************************************************************************)
EXTENDS Naturals, FiniteSets, FiniteSetsExt

CONSTANTS
    User,        \* users, each with one e-mail address
    Account,     \* ids of family accounts; a query for one answers the smallest
    Invite,      \* ids of invites
    Slot,        \* requests being served at once
    None,
    SeatLimit,   \* seats of a family plan
    MaxRequests, MaxOf,     \* bounds: requests, and those of each kind
    MaxPlans, Payer         \* bounds: starts and ends of paid plans, and their users

Kinds == {"billing", "summary", "invite", "accept", "remove", "revoke", "resend", "lookup"}

FamilyAssumption ==
    /\ None \notin User \cup Account \cup Invite
    /\ Account \subseteq Nat /\ IsFiniteSet(User)
    /\ Payer \subseteq User
    /\ MaxOf \in [Kinds -> Nat]
    /\ SeatLimit \in Nat \ {0} /\ MaxRequests \in Nat /\ MaxPlans \in Nat

VARIABLES
    account,   \* the stored accounts
    invite,    \* the stored invites, and whether their seven days are over
    premium,   \* the family access in each user's profile
    link,      \* the family account in each user's profile
    paid,      \* Stripe: who has a family subscription
    req,       \* the requests being served
    creator,   \* history: who an account was made for
    taken,     \* history: the accounts that have changed their owner
    spent, plans

stored == <<account, invite, premium, link>>
vars == <<stored, paid, req, creator, taken, spent, plans>>

\* A patch without a status.
NoStatus == ""
NoAccount == [owner |-> None, members |-> {}, status |-> "inactive"]
NoInvite  == [state |-> "none", of |-> None, who |-> None, due |-> FALSE]
Keep      == [owner |-> None, members |-> {}, status |-> NoStatus]
Free == [kind |-> "none", pc |-> "free", user |-> None, own |-> FALSE, id |-> None,
         snap |-> NoAccount, patch |-> Keep, base |-> NoAccount, inv |-> None,
         who |-> None, state |-> "none", todo |-> {}, then |-> "done"]

Accounts == [owner : User \cup {None}, members : SUBSET User, status : {"active", "inactive"}]
Invites  == [state : {"none", "pending", "accepted", "revoked", "expired"},
             of : Account \cup {None}, who : User \cup {None}, due : BOOLEAN]

Init ==
    /\ account = [a \in Account |-> NoAccount]
    /\ invite = [i \in Invite |-> NoInvite]
    /\ premium = [u \in User |-> FALSE]
    /\ link = [u \in User |-> None]
    /\ paid = {}
    /\ req = [h \in Slot |-> Free]
    /\ creator = [a \in Account |-> None]
    /\ taken = {}
    /\ spent = [k \in Kinds |-> 0] /\ plans = 0

-----------------------------------------------------------------------------
\* The account a user is a member of: the first the query finds.
FoundFor(u) ==
    LET mine == {a \in Account : u \in account[a].members}
    IN  IF mine = {} THEN None ELSE CHOOSE a \in mine : \A b \in mine : a <= b

\* Mutant: the patch's status is written even when it has none.
NormalizedLoose(base, patch) ==
    LET owner == IF patch.owner = None THEN base.owner ELSE patch.owner
    IN  [owner   |-> owner,
         members |-> (IF patch.members = {} THEN base.members ELSE patch.members)
                       \cup ({owner} \ {None}),
         status  |-> patch.status]

\* An account as it is written: the patch over what was loaded, and the owner
\* always among the members.
Normalized(base, patch) ==
    LET owner == IF patch.owner = None THEN base.owner ELSE patch.owner
    IN  [owner   |-> owner,
         members |-> (IF patch.members = {} THEN base.members ELSE patch.members)
                       \cup ({owner} \ {None}),
         status  |-> IF patch.status = NoStatus THEN base.status ELSE patch.status]

Pending(i) == invite[i].state = "pending" /\ ~invite[i].due
InvitesOf(a) == {i \in Invite : invite[i].of = a}

Continue(h, r) == req' = [req EXCEPT ![h] = IF r.pc = "done" THEN Free ELSE r]

\* saveFamilyAccount: load the document, then write the patch over it.
Saving(r, id, patch, then) ==
    [r EXCEPT !.pc = "load", !.id = id, !.patch = patch, !.then = then]

Load(h) ==
    LET r == req[h] IN
    /\ r.pc = "load"
    /\ Continue(h, [r EXCEPT !.pc = "store", !.base = account[r.id]])
    /\ UNCHANGED <<stored, paid, creator, taken, spent, plans>>

\* After the write the handler goes on with the account it has written.
Store(h) ==
    LET r    == req[h]
        next == Normalized(r.base, r.patch)
    IN
    /\ r.pc = "store"
    /\ account' = [account EXCEPT ![r.id] = next]
    /\ creator' = [creator EXCEPT ![r.id] = IF @ = None THEN next.owner ELSE @]
    /\ taken' = IF creator[r.id] \in {None, next.owner} THEN taken ELSE taken \cup {r.id}
    /\ Continue(h, [r EXCEPT !.pc = r.then, !.snap = next, !.patch = Keep, !.base = NoAccount,
                             !.todo = CASE r.then = "sync"  -> next.members
                                        [] r.then = "clear" -> next.members \ {next.owner}
                                        [] OTHER            -> {}])
    /\ UNCHANGED <<invite, premium, link, paid, spent, plans>>

-----------------------------------------------------------------------------
(* Provisioning                                                              *)

\* The caller's own profile.  An invitation needs a family plan at once.
ReadProfile(h) ==
    LET r == req[h] IN
    /\ r.pc = "profile"
    /\ Continue(h, [r EXCEPT !.own = premium[r.user],
                             !.pc = IF r.kind = "invite" /\ ~premium[r.user] THEN "done" ELSE "find"])
    /\ UNCHANGED <<stored, paid, creator, taken, spent, plans>>

\* A member of somebody else's account is left alone.  Who pays gets an account
\* or has the own one renewed; who does not has the own one closed.
Find(h) ==
    LET r == req[h]
        a == FoundFor(r.user)
        mine == a # None /\ account[a].owner = r.user
    IN
    /\ r.pc = "find"
    /\ Continue(h,
         CASE r.own /\ (a = None \/ mine) -> [r EXCEPT !.pc = "ensure"]
           [] ~r.own /\ mine -> Saving(r, a, [Keep EXCEPT !.status = "inactive"], "clear")
           [] OTHER -> [r EXCEPT !.pc = "done"])
    /\ UNCHANGED <<stored, paid, creator, taken, spent, plans>>

\* ensureFamilyAccountForOwner looks for the account once more and writes the
\* caller as its owner with the members found; or makes one under a new id.
Ensure(h) ==
    LET r == req[h]
        a == FoundFor(r.user)
    IN
    /\ r.pc = "ensure"
    /\ \E id \in Account :
         /\ IF a = None THEN account[id] = NoAccount /\ \A g \in Slot : req[g].id # id
            ELSE id = a
         /\ Continue(h, Saving(r, id, [owner |-> r.user, status |-> "active",
                                       members |-> {r.user} \cup account[id].members], "sync"))
    /\ UNCHANGED <<stored, paid, creator, taken, spent, plans>>

\* The profile of every member of the account gets the access of the owner.
Sync(h) ==
    LET r == req[h] IN
    /\ r.pc = "sync"
    /\ \/ \E m \in r.todo :
            /\ premium' = [premium EXCEPT ![m] = r.own]
            /\ link' = [link EXCEPT ![m] = r.id]
            /\ Continue(h, [r EXCEPT !.todo = @ \ {m}])
       \/ /\ r.todo = {}
          /\ Continue(h, [r EXCEPT !.pc = CASE r.kind \in {"billing", "remove-end"} -> "done"
                                            [] r.kind = "accept" -> "profile"
                                            [] OTHER -> "list",
                                   !.kind = IF r.kind = "accept" THEN "summary" ELSE @])
          /\ UNCHANGED <<premium, link>>
    /\ UNCHANGED <<account, invite, paid, creator, taken, spent, plans>>

\* A closed account: the other members lose the access, the owner keeps the link.
Clear(h) ==
    LET r == req[h] IN
    /\ r.pc = "clear"
    /\ \/ \E m \in r.todo :
            /\ premium' = [premium EXCEPT ![m] = FALSE]
            /\ link' = [link EXCEPT ![m] = None]
            /\ Continue(h, [r EXCEPT !.todo = @ \ {m}])
       \/ /\ r.todo = {}
          /\ link' = [link EXCEPT ![r.user] = r.id]
          /\ Continue(h, [r EXCEPT !.pc = IF r.kind = "billing" THEN "done" ELSE "list"])
          /\ UNCHANGED premium
    /\ UNCHANGED <<account, invite, paid, creator, taken, spent, plans>>

-----------------------------------------------------------------------------
(* Invites                                                                   *)

\* The invites of the account are listed; those that are over are to be saved
\* as expired, whatever they have become in between.
ListInvites(h) ==
    LET r == req[h] IN
    /\ r.pc = "list"
    /\ Continue(h, [r EXCEPT !.pc = "expire",
                             !.todo = {i \in InvitesOf(r.id) : invite[i].state = "pending" /\ invite[i].due}])
    /\ UNCHANGED <<stored, paid, creator, taken, spent, plans>>

Expire(h) ==
    LET r == req[h] IN
    /\ r.pc = "expire"
    /\ \/ \E i \in r.todo :
            /\ invite' = [invite EXCEPT ![i].state = "expired"]
            /\ Continue(h, [r EXCEPT !.todo = @ \ {i}])
       \/ /\ r.todo = {}
          /\ Continue(h, [r EXCEPT !.pc = CASE r.kind = "invite" -> "seats"
                                            [] r.kind = "remove" -> "drop"
                                            [] r.kind \in {"revoke", "resend"} -> "read"
                                            [] OTHER -> "done"])
          /\ UNCHANGED invite
    /\ UNCHANGED <<account, premium, link, paid, creator, taken, spent, plans>>

\* The owner invites an address: not one of a member; a pending invite to it is
\* used again; else the members and the pending invites must leave a seat.  The
\* members are those the account was provisioned with.
OfferSeat(h) ==
    LET r == req[h]
        open == {i \in InvitesOf(r.id) : Pending(i)}
        again == {i \in open : invite[i].who = r.who}
    IN
    /\ r.pc = "seats"
    /\ \/ /\ r.who \in r.snap.members \/ r.who = r.user
             \/ (again = {} /\ Cardinality(r.snap.members) + Cardinality(open) >= SeatLimit)
          /\ Continue(h, Free) /\ UNCHANGED invite
       \/ /\ r.who \notin r.snap.members \cup {r.user}
          /\ \E i \in again : Continue(h, [r EXCEPT !.pc = "mail", !.inv = i])
          /\ UNCHANGED invite
       \/ /\ r.who \notin r.snap.members \cup {r.user} /\ again = {}
          /\ Cardinality(r.snap.members) + Cardinality(open) < SeatLimit
          /\ \E i \in Invite :
               /\ invite[i].state = "none"
               /\ invite' = [invite EXCEPT ![i] = [state |-> "pending", of |-> r.id,
                                                   who |-> r.who, due |-> FALSE]]
               /\ Continue(h, [r EXCEPT !.pc = "mail", !.inv = i])
    /\ UNCHANGED <<account, premium, link, paid, creator, taken, spent, plans>>

\* The mail is sent and its record's id saved in the invite: the whole invite is
\* loaded and written again, its status with it.
LoadMailed(h) ==
    LET r == req[h] IN
    /\ r.pc = "mail"
    /\ Continue(h, [r EXCEPT !.pc = "mailed", !.state = invite[r.inv].state])
    /\ UNCHANGED <<stored, paid, creator, taken, spent, plans>>

StoreMailed(h) ==
    LET r == req[h] IN
    /\ r.pc = "mailed"
    /\ invite' = [invite EXCEPT ![r.inv].state = r.state]
    /\ Continue(h, IF r.kind = "invite"
                   THEN [Free EXCEPT !.kind = "summary", !.pc = "profile", !.user = r.user]
                   ELSE Free)
    /\ UNCHANGED <<account, premium, link, paid, creator, taken, spent, plans>>

\* Resending and revoking want an invite of this account that is pending.
ReadInvite(h) ==
    LET r == req[h] IN
    /\ r.pc = "read"
    /\ Continue(h, [r EXCEPT !.pc =
          CASE invite[r.inv].of # r.id \/ invite[r.inv].state # "pending" -> "done"
            [] r.kind = "revoke"  -> "revoked"
            [] invite[r.inv].due  -> "expired"
            [] OTHER              -> "mail"])
    /\ UNCHANGED <<stored, paid, creator, taken, spent, plans>>

\* The status that was decided on is written.
CloseInvite(h) ==
    LET r == req[h] IN
    /\ r.pc \in {"revoked", "expired"}
    /\ invite' = [invite EXCEPT ![r.inv].state = r.pc]
    /\ Continue(h, Free)
    /\ UNCHANGED <<account, premium, link, paid, creator, taken, spent, plans>>

-----------------------------------------------------------------------------
(* Members come and go                                                       *)

\* Mutant: whoever knows a pending invite takes it.
AcceptAnyone(h) ==
    LET r == req[h] IN
    /\ r.pc = "accept"
    /\ Continue(h, IF invite[r.inv].state = "pending"
                    THEN [r EXCEPT !.pc = "seat", !.id = invite[r.inv].of] ELSE Free)
    /\ UNCHANGED <<stored, paid, creator, taken, spent, plans>>

\* The invite is read: one this user has accepted goes on to the profiles, a
\* pending one for this user's address to the account.
AcceptReads(h) ==
    LET r == req[h]
        i == invite[r.inv]
    IN
    /\ r.pc = "accept"
    /\ Continue(h,
         CASE i.state = "accepted" /\ i.who = r.user ->
                [r EXCEPT !.pc = "owner", !.id = i.of, !.snap = account[i.of]]
           [] i.state = "pending" /\ i.due -> [r EXCEPT !.pc = "expired"]
           [] i.state = "pending" /\ ~i.due /\ i.who = r.user ->
                [r EXCEPT !.pc = "seat", !.id = i.of]
           [] OTHER -> Free)
    /\ UNCHANGED <<stored, paid, creator, taken, spent, plans>>

\* The account is read: a new member needs a seat.
TakeSeat(h) ==
    LET r == req[h]
        members == account[r.id].members
    IN
    /\ r.pc = "seat"
    /\ Continue(h, IF r.user \notin members /\ Cardinality(members) >= SeatLimit
                   THEN Free
                   ELSE Saving(r, r.id, [Keep EXCEPT !.members = members \cup {r.user}], "accepted"))
    /\ UNCHANGED <<stored, paid, creator, taken, spent, plans>>

Accepted(h) ==
    LET r == req[h] IN
    /\ r.pc = "accepted"
    /\ invite' = [invite EXCEPT ![r.inv].state = "accepted"]
    /\ Continue(h, [r EXCEPT !.pc = "owner"])
    /\ UNCHANGED <<account, premium, link, paid, creator, taken, spent, plans>>

\* The owner's profile decides the access the members are given.
ReadOwner(h) ==
    LET r == req[h] IN
    /\ r.pc = "owner"
    /\ Continue(h, [r EXCEPT !.pc = "sync", !.own = premium[r.snap.owner], !.todo = r.snap.members])
    /\ UNCHANGED <<stored, paid, creator, taken, spent, plans>>

\* removeFamilyMember: the account is read again and written without the member.
Drop(h) ==
    LET r == req[h]
        a == account[r.id]
    IN
    /\ r.pc = "drop"
    /\ Continue(h, CASE r.who = a.owner      -> Free
                     [] r.who \notin a.members -> [r EXCEPT !.pc = "dropped", !.snap = a]
                     [] OTHER -> Saving(r, r.id, [Keep EXCEPT !.members = a.members \ {r.who}],
                                        "dropped"))
    /\ UNCHANGED <<stored, paid, creator, taken, spent, plans>>

\* The access of the removed user is cleared while the owner's profile is read.
Dropped(h) ==
    LET r == req[h] IN
    /\ r.pc = "dropped"
    /\ premium' = [premium EXCEPT ![r.who] = FALSE]
    /\ link' = [link EXCEPT ![r.who] = None]
    /\ Continue(h, [r EXCEPT !.kind = "remove-end", !.pc = "sync", !.own = premium[r.user],
                             !.todo = r.snap.members])
    /\ UNCHANGED <<account, invite, paid, creator, taken, spent, plans>>

\* A payment webhook or a status request: the profile as it was read, the
\* subscription as Stripe lists it, then the save and the provisioning.
ListPaid(h) ==
    LET r == req[h] IN
    /\ r.pc = "paid"
    /\ Continue(h, [r EXCEPT !.pc = "save", !.own = r.user \in paid])
    /\ UNCHANGED <<stored, paid, creator, taken, spent, plans>>

SaveBilling(h) ==
    LET r == req[h] IN
    /\ r.pc = "save"
    /\ premium' = [premium EXCEPT ![r.user] = r.own]
    /\ link' = [link EXCEPT ![r.user] = r.id]
    /\ Continue(h, [r EXCEPT !.pc = "find", !.id = None])
    /\ UNCHANGED <<account, invite, paid, creator, taken, spent, plans>>

-----------------------------------------------------------------------------
(* Requests                                                                  *)

Begin(h, r) ==
    /\ req[h].pc = "free"
    /\ spent[r.kind] < MaxOf[r.kind] /\ MapThenSumSet(LAMBDA k : spent[k], Kinds) < MaxRequests
    /\ spent' = [spent EXCEPT ![r.kind] = @ + 1]
    /\ Continue(h, r)
    /\ UNCHANGED <<stored, paid, creator, taken, plans>>

Billing(h, u) == Begin(h, [Free EXCEPT !.kind = "billing", !.pc = "paid", !.user = u, !.id = link[u]])
Summary(h, u) == Begin(h, [Free EXCEPT !.kind = "summary", !.pc = "profile", !.user = u])
InviteUser(h, u, w) ==
    Begin(h, [Free EXCEPT !.kind = "invite", !.pc = "profile", !.user = u, !.who = w])
Accept(h, u, i) ==
    invite[i].state # "none"
    /\ Begin(h, [Free EXCEPT !.kind = "accept", !.pc = "accept", !.user = u, !.inv = i])
Remove(h, u, w) ==
    Begin(h, [Free EXCEPT !.kind = "remove", !.pc = "profile", !.user = u, !.who = w])
Close(h, u, i, kind) ==
    invite[i].state # "none"
    /\ Begin(h, [Free EXCEPT !.kind = kind, !.pc = "profile", !.user = u, !.inv = i])
Lookup(h, a) ==
    account[a] # NoAccount
    /\ Begin(h, [Free EXCEPT !.kind = "lookup", !.pc = "list", !.id = a])

\* Outside: seven days pass over an invite, a plan is bought or ends, and a
\* request dies between two awaits.
Lapse(i) ==
    /\ Pending(i) /\ invite' = [invite EXCEPT ![i].due = TRUE]
    /\ UNCHANGED <<account, premium, link, paid, req, creator, taken, spent, plans>>

PlanChanges(u) ==
    /\ plans < MaxPlans /\ plans' = plans + 1
    /\ paid' = IF u \in paid THEN paid \ {u} ELSE paid \cup {u}
    /\ UNCHANGED <<stored, req, creator, taken, spent>>

Dies(h) ==
    /\ req[h].pc # "free" /\ Continue(h, Free)
    /\ UNCHANGED <<stored, paid, creator, taken, spent, plans>>

Start(h) ==
    \/ \E u \in User : Billing(h, u) \/ Summary(h, u)
    \/ \E u, w \in User : InviteUser(h, u, w) \/ Remove(h, u, w)
    \/ \E u \in User, i \in Invite : Accept(h, u, i) \/ Close(h, u, i, "revoke") \/ Close(h, u, i, "resend")
    \/ \E a \in Account : Lookup(h, a)

Step(h) ==
    \/ Load(h) \/ Store(h) \/ ReadProfile(h) \/ Find(h) \/ Ensure(h) \/ Sync(h) \/ Clear(h)
    \/ ListInvites(h) \/ Expire(h) \/ OfferSeat(h) \/ LoadMailed(h) \/ StoreMailed(h)
    \/ ReadInvite(h) \/ CloseInvite(h) \/ AcceptReads(h) \/ TakeSeat(h) \/ Accepted(h)
    \/ ReadOwner(h) \/ Drop(h) \/ Dropped(h) \/ ListPaid(h) \/ SaveBilling(h)

Next ==
    \/ \E h \in Slot : Start(h) \/ Step(h) \/ Dies(h)
    \/ \E i \in Invite : Lapse(i)
    \/ \E u \in Payer : PlanChanges(u)

Spec == Init /\ [][Next]_vars

-----------------------------------------------------------------------------
FamilyTypeOK ==
    /\ account \in [Account -> Accounts]
    /\ invite \in [Invite -> Invites]
    /\ premium \in [User -> BOOLEAN]
    /\ link \in [User -> Account \cup {None}]
    /\ paid \subseteq User
    /\ creator \in [Account -> User \cup {None}] /\ taken \subseteq Account

\* The members of an account, written by owners, members and webhooks at the
\* same time and over each other, are never more than its seats, and each is the
\* one it was made for or was invited to this very account.  An account whose
\* owner has changed is excepted from the first part: a member whose payment is
\* processed while the membership is written is made its owner (see Ensure), and
\* a list of members read before that is then written with the new owner added.
SeatsEarned ==
    \A a \in Account :
       /\ a \notin taken => Cardinality(account[a].members) <= SeatLimit
       /\ \A u \in account[a].members :
            u = creator[a] \/ \E i \in InvitesOf(a) : invite[i].who = u
=============================================================================
