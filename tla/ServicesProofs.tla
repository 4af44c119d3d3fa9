---------------------------- MODULE ServicesProofs -----------------------------
(***************************************************************************)
(* Theorems about the parts of MCServices, for any pages, slots, players,  *)
(* submissions and accounts, and any bounds.  A part is proved by its own  *)
(* inductive invariant and says nothing in the other parts.                *)
(***************************************************************************)
EXTENDS MCServices, FiniteSetTheorems, TLAPS

-----------------------------------------------------------------------------
(* Sessions: AuthClient under its own names *)

jar == x1
cookie == x2
guests == x3
user == x4
left == x5
sdk == x6
redirect == x7
cached == x8
revision == x9
shown == x10
calls == x11
loads == x13
Auth == INSTANCE AuthClient WITH made <- x12

Stops == Auth!Places \cup {"result"}
Calls == [at : Stops, observed : Nat, answer : Auth!Session, isNew : BOOLEAN]

\* What is known of a call on its way: without cookies nobody answers with the account, and
\* what Firebase's word is awaited for is a guest's session.
CallFair(k, rev, keeps) ==
    /\ k.observed <= rev
    /\ k.at \in {"session", "firebase", "logout"} => k.answer # None
    /\ k.at = "firebase" \/ ~keeps => k.answer # Google

CallsFair(f, rev, keeps) ==
    f \in [Auth!Flow -> Calls] /\ \A c \in Auth!Flow : CallFair(f[c], rev, keeps)

\* The page's side and the cookie; the revision is 0 until a session has been cached.
PageFair ==
    /\ {jar, user, left, sdk} \subseteq BOOLEAN /\ guests \in Nat
    /\ {cookie, cached, shown} \subseteq Auth!Session
    /\ redirect \in {"unasked", "asking", "empty", "account"} /\ revision \in Nat
    /\ cached = None => revision = 0
    /\ ~jar => cookie # Google /\ cached # Google /\ redirect # "account"

AuthInv == PageFair /\ CallsFair(calls, revision, jar)

AuthPart == part = "session" => AuthInv

\* The module and its instance in MCServices are the same formulas.
LEMMA SameSession ==
    /\ A!Init <=> Auth!Init
    /\ A!Next <=> Auth!Next
    /\ A!SignOutStands <=> Auth!SignOutStands
    /\ A!AuthClientAssumption => Auth!AuthClientAssumption
  BY DEF
         A!Init, A!Next, A!SignOutStands, A!AuthClientAssumption, A!Flow, A!Idle, A!Fetch, A!Resume,
         A!Read, A!Ready, A!SignIn, A!Popup, A!SignOut, A!SignedOut, A!Login, A!ReadBack, A!Fails,
         A!Result, A!Load, A!Returns, A!Ends, A!ReadsSession, A!Kept, A!Superseded, A!Emits,
         A!Retained, A!ensureSession, Auth!Init, Auth!Next, Auth!SignOutStands,
         Auth!AuthClientAssumption, Auth!Flow, Auth!Idle, Auth!Fetch, Auth!Resume, Auth!Read,
         Auth!Ready, Auth!SignIn, Auth!Popup, Auth!SignOut, Auth!SignedOut, Auth!Login,
         Auth!ReadBack, Auth!Fails, Auth!Result, Auth!Load, Auth!Returns, Auth!Ends,
         Auth!ReadsSession, Auth!Kept, Auth!Superseded, Auth!Emits, Auth!Retained,
         Auth!ensureSession,
         jar, cookie, guests, user, left, sdk, redirect, cached, revision, shown, calls, loads

\* A call at another place, and one with an answer on its way.
Placed(k, at) == [k EXCEPT !.at = at]
Asked(k, at, answer, isNew) == [k EXCEPT !.at = at, !.answer = answer, !.isNew = isNew]

LEMMA PlacedShape ==
    ASSUME NEW k \in Calls, NEW at \in Stops
    PROVE  /\ Placed(k, at) \in Calls /\ Placed(k, at).at = at
           /\ Placed(k, at).observed = k.observed /\ Placed(k, at).answer = k.answer
  BY DEF Calls, Placed

LEMMA AskedShape ==
    ASSUME NEW k \in Calls, NEW at \in Stops, NEW answer \in Auth!Session, NEW isNew \in BOOLEAN
    PROVE  /\ Asked(k, at, answer, isNew) \in Calls /\ Asked(k, at, answer, isNew).at = at
           /\ Asked(k, at, answer, isNew).observed = k.observed /\ Asked(k, at, answer, isNew).answer = answer
  BY DEF Calls, Asked

\* A call that begins at a place where it waits for no session.
Begun(at, seen) == [Auth!Idle EXCEPT !.at = at, !.observed = seen]

LEMMA BegunFair ==
    ASSUME Auth!AuthClientAssumption, NEW rev \in Nat, NEW seen \in Nat, seen <= rev, NEW keeps,
           NEW at \in {"idle", "redirect", "popup", "login"}
    PROVE  /\ Auth!Idle \in Calls /\ CallFair(Auth!Idle, rev, keeps)
           /\ Begun(at, seen) \in Calls /\ CallFair(Begun(at, seen), rev, keeps)
<1>1. {"idle", at} \subseteq Stops /\ None \in Auth!Session /\ None # Google
    BY DEF Stops, Auth!Places, Auth!Session, Auth!AuthClientAssumption
<1>2. Auth!Idle \in Calls /\ CallFair(Auth!Idle, rev, keeps)
    BY <1>1 DEF Auth!Idle, Calls, CallFair
<1>3. Begun(at, seen) \in Calls /\ Begun(at, seen).at = at /\ Begun(at, seen).observed = seen
      /\ Begun(at, seen).answer = None
    BY <1>1 DEF Begun, Auth!Idle, Calls
<1>. QED
    BY <1>1, <1>2, <1>3 DEF CallFair

\* One call goes on as k while the revision grows, and the others stay.
LEMMA CallMoves ==
    ASSUME NEW f, NEW rev \in Nat, NEW keeps, CallsFair(f, rev, keeps),
           NEW c \in Auth!Flow, NEW k \in Calls, NEW new \in Nat, rev <= new, CallFair(k, new, keeps)
    PROVE  CallsFair([f EXCEPT ![c] = k], new, keeps)
<1>. DEFINE g == [f EXCEPT ![c] = k]
<1>1. f \in [Auth!Flow -> Calls] /\ g \in [Auth!Flow -> Calls]
    BY DEF CallsFair
<1>2. ASSUME NEW d \in Auth!Flow PROVE CallFair(g[d], new, keeps)
  <2>1. CASE d = c
      BY <1>1, <2>1
  <2>2. CASE d # c
    <3>1. g[d] = f[d] /\ CallFair(f[d], rev, keeps) /\ f[d].observed \in Nat
        BY <1>1, <2>2 DEF CallsFair, Calls
    <3>. QED
        BY <3>1 DEF CallFair
  <2>. QED
      BY <2>1, <2>2
<1>. QED
    BY <1>1, <1>2 DEF CallsFair

\* The call c ends, or goes on to a place where it waits for no session.
LEMMA CallGoes ==
    ASSUME AuthInv, Auth!AuthClientAssumption, NEW c \in Auth!Flow, NEW new \in Nat, revision <= new,
           NEW at \in {"redirect", "popup", "login", "result"}
    PROVE  /\ CallsFair([calls EXCEPT ![c] = Auth!Idle], new, jar)
           /\ CallsFair([calls EXCEPT ![c].at = at], new, jar)
<1>1. calls \in [Auth!Flow -> Calls] /\ calls[c] \in Calls /\ CallFair(calls[c], revision, jar) /\ revision \in Nat
    BY DEF AuthInv, CallsFair, PageFair
<1>2. Auth!Idle \in Calls /\ CallFair(Auth!Idle, new, jar)
    BY BegunFair
<1>3. at \in Stops /\ None \in Auth!Session /\ FALSE \in BOOLEAN
    BY DEF Stops, Auth!Places, Auth!Session
<1>4. Placed(calls[c], at) \in Calls /\ Placed(calls[c], at).at = at
      /\ Placed(calls[c], at).observed = calls[c].observed /\ Placed(calls[c], at).answer = calls[c].answer
    BY <1>1, <1>3, PlacedShape
<1>5. CallFair(Placed(calls[c], at), new, jar)
    BY <1>1, <1>4 DEF CallFair, Calls
<1>6. [calls EXCEPT ![c].at = at] = [calls EXCEPT ![c] = Placed(calls[c], at)]
    BY <1>1 DEF Placed
<1>. QED
    BY <1>1, <1>2, <1>4, <1>5, <1>6, CallMoves DEF AuthInv

\* A call whose answer is a guest's session waits for Firebase.
LEMMA CallAwaits ==
    ASSUME AuthInv, NEW c \in Auth!Flow, calls[c].at = "session", calls[c].answer # Google
    PROVE  CallsFair([calls EXCEPT ![c].at = "firebase"], revision, jar)
<1>. DEFINE k == Placed(calls[c], "firebase")
<1>1. /\ calls \in [Auth!Flow -> Calls] /\ calls[c] \in Calls /\ CallFair(calls[c], revision, jar)
      /\ revision \in Nat /\ revision <= revision
    BY DEF AuthInv, CallsFair, PageFair
<1>2. k \in Calls /\ k.at = "firebase" /\ k.observed = calls[c].observed /\ k.answer = calls[c].answer
    BY <1>1, PlacedShape DEF Stops, Auth!Places
<1>3. [calls EXCEPT ![c].at = "firebase"] = [calls EXCEPT ![c] = k]
    BY <1>1 DEF Placed
<1>. HIDE DEF k
<1>4. CallFair(k, revision, jar)
    BY <1>1, <1>2 DEF CallFair
<1>. QED
    BY <1>1, <1>2, <1>3, <1>4, CallMoves DEF AuthInv

\* The session that a request reads with the cookie held.
LEMMA SessionReadFair ==
    ASSUME AuthInv, Auth!AuthClientAssumption, NEW c \in Auth!Flow, NEW at \in {"session", "readback"},
           NEW held \in Auth!Session, ~jar => held # Google, Auth!ReadsSession(c, at, held)
    PROVE  guests' \in Nat /\ CallsFair(calls', revision, jar)
<1>. DEFINE isNew  == held = None
            answer == Auth!ensureSession(held)
            k      == Asked(calls[c], at, answer, isNew)
<1>1. /\ calls \in [Auth!Flow -> Calls] /\ calls[c] \in Calls /\ CallFair(calls[c], revision, jar)
      /\ guests \in Nat /\ revision \in Nat /\ revision <= revision
    BY DEF AuthInv, CallsFair, PageFair
<1>2. answer \in Auth!Session /\ answer # None /\ (~jar => answer # Google)
    BY <1>1 DEF Auth!ensureSession, Auth!Session, Auth!AuthClientAssumption
<1>3. guests' \in Nat /\ calls' = [calls EXCEPT ![c].at = at, ![c].answer = answer, ![c].isNew = isNew]
    BY <1>1 DEF Auth!ReadsSession
<1>4. at \in Stops /\ isNew \in BOOLEAN
    BY DEF Stops, Auth!Places
<1>. HIDE DEF answer, isNew
<1>5. k \in Calls /\ k.at = at /\ k.observed = calls[c].observed /\ k.answer = answer
    BY <1>1, <1>2, <1>4, AskedShape
<1>6. calls' = [calls EXCEPT ![c] = k]
    BY <1>1, <1>3 DEF Asked
<1>. HIDE DEF k
<1>7. CallFair(k, revision, jar)
    BY <1>1, <1>2, <1>5 DEF CallFair
<1>8. CallsFair([calls EXCEPT ![c] = k], revision, jar)
    BY <1>1, <1>5, <1>7, CallMoves DEF AuthInv
<1>. QED
    BY <1>3, <1>6, <1>8

\* What a call whose answer has come hands over: a session, and without cookies not the account.
LEMMA AnswerFair ==
    ASSUME AuthInv, NEW c \in Auth!Flow
    PROVE  /\ calls[c].answer \in Auth!Session /\ Auth!Kept(c) \in Auth!Session
           /\ ~jar => calls[c].answer # Google /\ Auth!Kept(c) # Google
           /\ calls[c].at \in {"session", "firebase", "logout"} => calls[c].answer # None
           /\ calls[c].at = "firebase" => calls[c].answer # Google
           /\ calls[c].observed \in Nat /\ calls[c].observed <= revision
<1>1. calls[c] \in Calls /\ CallFair(calls[c], revision, jar)
    BY DEF AuthInv, CallsFair
<1>. QED
    BY <1>1 DEF AuthInv, PageFair, Calls, CallFair, Auth!Kept

\* The steps of a call that reads the session or waits for Firebase.
LEMMA ReadsMove ==
    ASSUME Auth!AuthClientAssumption, AuthInv, NEW c \in Call,
           Auth!Fetch(c) \/ Auth!Resume(c) \/ Auth!Read(c) \/ Auth!Ready(c)
    PROVE  AuthInv' /\ Auth!SignOutStands
<1>1. /\ c \in Auth!Flow /\ revision \in Nat /\ revision <= revision /\ Redirect \in Auth!Flow /\ c # Redirect
      /\ PageFair /\ CallsFair(calls, revision, jar)
      /\ cookie \in Auth!Session /\ (~jar => cookie # Google) /\ Google # None
    BY DEF AuthInv, PageFair, Auth!Flow, Auth!AuthClientAssumption
<1>2. CASE Auth!Fetch(c)
  <2>. DEFINE b    == Begun("redirect", revision)
              f    == [calls EXCEPT ![c] = b]
              stop == IF redirect = "unasked" THEN "result" ELSE calls[Redirect].at
  <2>1. calls' = [calls EXCEPT ![c] = b, ![Redirect].at = stop]
      BY <1>2 DEF Auth!Fetch, Begun
  <2>2. b \in Calls /\ CallFair(b, revision, jar)
      BY <1>1, BegunFair
  <2>. HIDE DEF b
  <2>3. CallsFair(f, revision, jar) /\ f \in [Auth!Flow -> Calls] /\ f[Redirect] = calls[Redirect]
      BY <1>1, <2>2, CallMoves DEF CallsFair
  <2>4. calls' = [f EXCEPT ![Redirect].at = stop]
      BY <2>1
  <2>. HIDE DEF f
  <2>5. stop \in Stops /\ (stop # "result" => stop = f[Redirect].at)
      BY <1>1, <2>3 DEF Calls, Stops
  <2>. HIDE DEF stop
  <2>6. calls' = [f EXCEPT ![Redirect] = Placed(f[Redirect], stop)]
      BY <1>1, <2>3, <2>4 DEF Placed
  <2>7. Placed(f[Redirect], stop) \in Calls /\ CallFair(Placed(f[Redirect], stop), revision, jar)
    <3>1. f[Redirect] \in Calls /\ CallFair(f[Redirect], revision, jar)
        BY <1>1, <2>3 DEF CallsFair
    <3>2. /\ Placed(f[Redirect], stop) \in Calls /\ Placed(f[Redirect], stop).at = stop
          /\ Placed(f[Redirect], stop).observed = f[Redirect].observed
          /\ Placed(f[Redirect], stop).answer = f[Redirect].answer
        BY <2>5, <3>1, PlacedShape
    <3>. QED
        BY <2>5, <3>1, <3>2 DEF CallFair
  <2>8. CallsFair(calls', revision, jar)
      BY <1>1, <2>3, <2>6, <2>7, CallMoves
  <2>. QED
      BY <1>1, <1>2, <2>8 DEF Auth!Fetch, AuthInv, PageFair, Auth!SignOutStands
<1>3. CASE Auth!Resume(c)
  <2>1. CASE calls' = [calls EXCEPT ![c] = Auth!Idle] /\ UNCHANGED guests
    <3>1. CallsFair(calls', revision, jar)
        BY <1>1, <2>1, CallGoes
    <3>. QED
        BY <1>1, <1>3, <2>1, <3>1
           DEF Auth!Resume, Auth!Returns, Auth!ReadsSession, Auth!Session, AuthInv, PageFair, Auth!SignOutStands
  <2>2. CASE Auth!ReadsSession(c, "session", cookie) /\ UNCHANGED <<cached, revision, shown>>
    <3>1. guests' \in Nat /\ CallsFair(calls', revision, jar)
        BY <1>1, <2>2, SessionReadFair
    <3>. QED
        BY <1>1, <1>3, <2>2, <3>1 DEF Auth!Resume, AuthInv, PageFair, Auth!SignOutStands
  <2>. QED
      BY <1>3, <2>1, <2>2 DEF Auth!Resume, Auth!Ends
<1>4. CASE Auth!Read(c)
  <2>1. CASE calls' = [calls EXCEPT ![c] = Auth!Idle]
    <3>1. CallsFair(calls', revision, jar)
        BY <1>1, <2>1, CallGoes
    <3>2. AuthInv'
        BY <1>1, <1>4, <3>1, AnswerFair DEF Auth!Read, Auth!Returns, Auth!Emits, AuthInv, PageFair
    <3>3. calls[c].at = "session" /\ calls'[c].at = "idle"
        BY <1>1, <1>4, <2>1 DEF Auth!Read, Auth!Idle, CallsFair
    <3>. QED
        BY <1>1, <1>4, <3>2, <3>3, AnswerFair
           DEF Auth!Read, Auth!Superseded, Auth!Returns, Auth!Emits, PageFair, Auth!SignOutStands
  <2>2. CASE ~Auth!Superseded(c) /\ calls[c].answer # Google /\ calls' = [calls EXCEPT ![c].at = "firebase"]
             /\ UNCHANGED <<cached, revision, shown>>
    <3>1. CallsFair(calls', revision, jar)
        BY <1>1, <1>4, <2>2, CallAwaits DEF Auth!Read
    <3>. QED
        BY <1>1, <1>4, <2>2, <3>1, AnswerFair DEF Auth!Read, AuthInv, PageFair, Auth!SignOutStands
  <2>. QED
      BY <1>4, <2>1, <2>2 DEF Auth!Read, Auth!Ends
<1>5. CASE Auth!Ready(c)
  <2>1. CASE calls' = [calls EXCEPT ![c].at = "login"] /\ UNCHANGED <<cached, revision, shown>>
    <3>1. CallsFair(calls', revision, jar)
        BY <1>1, <2>1, CallGoes
    <3>. QED
        BY <1>1, <1>5, <2>1, <3>1 DEF Auth!Ready, AuthInv, PageFair, Auth!SignOutStands
  <2>2. CASE calls' = [calls EXCEPT ![c] = Auth!Idle] /\ Auth!Emits(calls[c].answer, FALSE)
    <3>1. CallsFair(calls', revision, jar)
        BY <1>1, <2>2, CallGoes
    <3>. QED
        BY <1>1, <1>5, <2>2, <3>1, AnswerFair DEF Auth!Ready, Auth!Emits, AuthInv, PageFair, Auth!SignOutStands
  <2>. QED
      BY <1>5, <2>1, <2>2 DEF Auth!Ready, Auth!Ends
<1>. QED
    BY <1>2, <1>3, <1>4, <1>5

\* The steps of a sign-in.
LEMMA SignInMoves ==
    ASSUME Auth!AuthClientAssumption, AuthInv, NEW c \in Auth!Flow,
           Auth!SignIn(c) \/ Auth!Popup(c) \/ Auth!Login(c) \/ Auth!ReadBack(c) \/ Auth!Fails(c)
    PROVE  AuthInv' /\ Auth!SignOutStands
<1>1. /\ revision \in Nat /\ revision <= revision /\ revision + 1 \in Nat /\ revision <= revision + 1
      /\ PageFair /\ CallsFair(calls, revision, jar) /\ cookie \in Auth!Session /\ Google \in Auth!Session
      /\ Google # None
    BY DEF AuthInv, PageFair, Auth!Session, Auth!AuthClientAssumption
<1>2. CASE Auth!SignIn(c)
  <2>1. [Auth!Idle EXCEPT !.at = "popup"] = Placed(Auth!Idle, "popup")
      BY DEF Placed
  <2>2. Placed(Auth!Idle, "popup") \in Calls /\ CallFair(Placed(Auth!Idle, "popup"), revision, jar)
    <3>1. Auth!Idle \in Calls /\ "popup" \in Stops
        BY <1>1, BegunFair DEF Stops, Auth!Places
    <3>2. Auth!Idle.answer = None /\ Auth!Idle.observed = 0
        BY DEF Auth!Idle
    <3>. QED
        BY <1>1, <3>1, <3>2, PlacedShape DEF CallFair
  <2>3. CallsFair(calls', revision, jar)
      BY <1>1, <1>2, <2>1, <2>2, CallMoves DEF Auth!SignIn
  <2>. QED
      BY <1>1, <1>2, <2>3 DEF Auth!SignIn, AuthInv, PageFair, Auth!SignOutStands
<1>3. CASE Auth!Popup(c)
  <2>1. calls' = [calls EXCEPT ![c].at = "login"] \/ calls' = [calls EXCEPT ![c] = Auth!Idle]
      BY <1>3 DEF Auth!Popup, Auth!Ends
  <2>2. CallsFair(calls', revision, jar)
      BY <1>1, <2>1, CallGoes
  <2>. QED
      BY <1>1, <1>3, <2>2 DEF Auth!Popup, AuthInv, PageFair, Auth!SignOutStands
<1>4. CASE Auth!Login(c)
  <2>. DEFINE held == IF jar THEN Google ELSE cookie
  <2>1. held \in Auth!Session /\ (~jar => held # Google)
      BY <1>1 DEF PageFair
  <2>2. Auth!ReadsSession(c, "readback", held) /\ cookie' = held
      BY <1>4 DEF Auth!Login
  <2>. HIDE DEF held
  <2>3. guests' \in Nat /\ CallsFair(calls', revision, jar)
      BY <2>1, <2>2, SessionReadFair
  <2>. QED
      BY <1>1, <1>4, <2>1, <2>2, <2>3 DEF Auth!Login, AuthInv, PageFair, Auth!SignOutStands
<1>5. CASE Auth!ReadBack(c)
  <2>1. CallsFair([calls EXCEPT ![c] = Auth!Idle], revision, jar)
        /\ CallsFair([calls EXCEPT ![c] = Auth!Idle], revision + 1, jar)
      BY <1>1, CallGoes
  <2>2. calls' = [calls EXCEPT ![c] = Auth!Idle]
      BY <1>5 DEF Auth!ReadBack, Auth!Ends
  <2>3. jar' = jar /\ (revision' = revision \/ revision' = revision + 1)
      BY <1>5 DEF Auth!ReadBack, Auth!Emits
  <2>. QED
      BY <1>1, <1>5, <2>1, <2>2, <2>3, AnswerFair
         DEF Auth!ReadBack, Auth!Retained, Auth!Emits, AuthInv, PageFair, Auth!SignOutStands
<1>6. CASE Auth!Fails(c)
  <2>1. CallsFair(calls', revision, jar)
      BY <1>1, <1>6, CallGoes DEF Auth!Fails, Auth!Ends
  <2>. QED
      BY <1>1, <1>6, <2>1 DEF Auth!Fails, AuthInv, PageFair, Auth!SignOutStands
<1>. QED
    BY <1>2, <1>3, <1>4, <1>5, <1>6

\* The steps of a sign-out, the result of a sign-in that left the page, and a load.
LEMMA PageMoves ==
    ASSUME Auth!AuthClientAssumption, AuthInv,
           \/ \E c \in Call : Auth!SignOut(c) \/ Auth!SignedOut(c)
           \/ Auth!Result \/ Auth!Load
    PROVE  AuthInv' /\ Auth!SignOutStands
<1>1. /\ revision \in Nat /\ revision <= revision /\ revision + 1 \in Nat /\ revision <= revision + 1
      /\ PageFair /\ CallsFair(calls, revision, jar) /\ None \in Auth!Session /\ Google # None
      /\ Redirect \in Auth!Flow /\ Call \subseteq Auth!Flow /\ guests + 1 \in Nat
    BY DEF AuthInv, PageFair, Auth!Session, Auth!Flow, Auth!AuthClientAssumption
<1>2. ASSUME NEW c \in Call, Auth!SignOut(c) PROVE AuthInv' /\ Auth!SignOutStands
  <2>. DEFINE k == [Auth!Idle EXCEPT !.at = "logout", !.answer = guests + 1, !.isNew = TRUE]
  <2>1. guests + 1 \in Auth!Session /\ guests + 1 # None /\ guests + 1 # Google
      BY <1>1 DEF Auth!Session, Auth!AuthClientAssumption
  <2>2. k = Asked(Auth!Idle, "logout", guests + 1, TRUE)
      BY DEF Asked
  <2>3. Auth!Idle \in Calls /\ Auth!Idle.observed = 0 /\ "logout" \in Stops
      BY <1>1 DEF Auth!Idle, Calls, Stops, Auth!Places
  <2>. HIDE DEF k
  <2>4. k \in Calls /\ k.at = "logout" /\ k.observed = Auth!Idle.observed /\ k.answer = guests + 1
    <3>1. ASSUME NEW isNew \in BOOLEAN
          PROVE  LET a == Asked(Auth!Idle, "logout", guests + 1, isNew)
                 IN  a \in Calls /\ a.at = "logout" /\ a.observed = Auth!Idle.observed /\ a.answer = guests + 1
        BY <2>1, <2>3, AskedShape
    <3>. QED
        BY <2>2, <3>1, Zenon
  <2>5. CallFair(k, revision, jar)
      BY <1>1, <2>1, <2>3, <2>4 DEF CallFair
  <2>6. CallsFair(calls', revision, jar)
      BY <1>1, <1>2, <2>4, <2>5, CallMoves DEF Auth!SignOut, k
  <2>. QED
      BY <1>1, <1>2, <2>6 DEF Auth!SignOut, AuthInv, PageFair, Auth!SignOutStands
<1>3. ASSUME NEW c \in Call, Auth!SignedOut(c) PROVE AuthInv' /\ Auth!SignOutStands
  <2>1. CallsFair(calls', revision', jar)
      BY <1>1, <1>3, CallGoes DEF Auth!SignedOut, Auth!Ends, Auth!Emits
  <2>. QED
      BY <1>1, <1>3, <2>1, AnswerFair DEF Auth!SignedOut, Auth!Emits, AuthInv, PageFair, Auth!SignOutStands
<1>4. CASE Auth!Result
  <2>1. CASE calls' = [calls EXCEPT ![Redirect] = [Auth!Idle EXCEPT !.at = "login"]]
    <3>1. [Auth!Idle EXCEPT !.at = "login"] = Placed(Auth!Idle, "login")
        BY DEF Placed
    <3>2. Placed(Auth!Idle, "login") \in Calls /\ CallFair(Placed(Auth!Idle, "login"), revision, jar)
      <4>1. Auth!Idle \in Calls /\ "login" \in Stops
          BY <1>1, BegunFair DEF Stops, Auth!Places
      <4>2. Auth!Idle.answer = None /\ Auth!Idle.observed = 0
          BY DEF Auth!Idle
      <4>. QED
          BY <1>1, <4>1, <4>2, PlacedShape DEF CallFair
    <3>3. CallsFair(calls', revision, jar)
        BY <1>1, <2>1, <3>1, <3>2, CallMoves
    <3>. QED
        BY <1>1, <1>4, <3>3 DEF Auth!Result, AuthInv, PageFair, Auth!SignOutStands
  <2>2. CASE calls' = [calls EXCEPT ![Redirect] = Auth!Idle]
    <3>1. CallsFair(calls', revision, jar)
        BY <1>1, <2>2, CallGoes
    <3>. QED
        BY <1>1, <1>4, <3>1 DEF Auth!Result, AuthInv, PageFair, Auth!SignOutStands
  <2>. QED
      BY <1>4, <2>1, <2>2 DEF Auth!Result, Auth!Ends
<1>5. CASE Auth!Load
  <2>1. Auth!Idle \in Calls /\ CallFair(Auth!Idle, 0, jar)
      BY <1>1 DEF Auth!Idle, Calls, CallFair, Stops, Auth!Places
  <2>2. CallsFair(calls', 0, jar)
      BY <1>5, <2>1 DEF Auth!Load, CallsFair
  <2>. QED
      BY <1>1, <1>5, <2>2 DEF Auth!Load, AuthInv, PageFair, Auth!SignOutStands
<1>. QED
    BY <1>2, <1>3, <1>4, <1>5

LEMMA AuthBegins == Init => AuthPart
<1>1. ASSUME Init, part = "session" PROVE AuthInv
  <2>1. Auth!Init /\ Auth!AuthClientAssumption
      BY <1>1, SameSession, ServicesAssumption DEF Init, ServicesAssumption
  <2>2. Auth!Idle \in Calls /\ CallFair(Auth!Idle, 0, jar)
      BY <2>1, BegunFair
  <2>3. CallsFair(calls, revision, jar)
      BY <2>1, <2>2 DEF Auth!Init, CallsFair
  <2>. QED
      BY <2>1, <2>3 DEF Auth!Init, AuthInv, PageFair, Auth!Session, Auth!AuthClientAssumption
<1>. QED
    BY <1>1 DEF AuthPart

LEMMA AuthMoves ==
    ASSUME AuthPart, Next, part = "session"
    PROVE  AuthInv' /\ Auth!SignOutStands
<1>1. AuthInv /\ Auth!Next /\ Auth!AuthClientAssumption
    BY SameSession, ServicesAssumption DEF AuthPart, Next, ServicesAssumption
<1>2. Call \subseteq Auth!Flow
    BY DEF Auth!Flow
<1>. QED
    BY <1>1, <1>2, ReadsMove, SignInMoves, PageMoves DEF Auth!Next

LEMMA AuthStays == AuthPart /\ [Next]_vars => AuthPart'
<1>1. ASSUME AuthPart, Next PROVE AuthPart'
    BY <1>1, AuthMoves DEF AuthPart, Next
<1>2. ASSUME AuthPart, UNCHANGED vars PROVE AuthPart'
    BY <1>2 DEF vars, AuthPart, AuthInv, PageFair, CallsFair,
                jar, cookie, guests, user, left, sdk, redirect, cached, revision, shown, calls
<1>. QED
    BY <1>1, <1>2

-----------------------------------------------------------------------------
(* The account panel: AccountWidget under its own names *)

account == x1
owner == x2
active == x3
enabled == x4
config == x5
first == x6
session == x7
family == x8
token == x9
panel == x10
cards == x11
tools == x12
manage == x13
signing == x14
locked == x15
requests == x16
switches == x17
Panel == INSTANCE AccountWidget WITH MaxRequests <- MaxAnswers

PanelPart == part = "panel" => Panel!OwnFamilyOnly

LEMMA SamePanel ==
    /\ W!Init <=> Panel!Init
    /\ W!Next <=> Panel!Next
    /\ W!OwnFamilyOnly <=> Panel!OwnFamilyOnly
  BY DEF
         W!Init, W!Next, W!OwnFamilyOnly, W!SessionRead, W!Mounted, W!Primary, W!Status, W!Answered,
         W!SignOut, W!SignedOut, W!Rejected, W!Elsewhere, W!InviteOrAccept, W!ManageMember,
         W!FamilyAnswers, W!FamilyFails, W!Signed, W!Announced, W!Renders, W!Asks, W!Serves,
         W!DrawsFamily, W!Reads, W!Manage, W!Panel, W!Cards, W!Tools, W!Owns, Panel!Init,
         Panel!Next, Panel!OwnFamilyOnly, Panel!SessionRead, Panel!Mounted, Panel!Primary,
         Panel!Status, Panel!Answered, Panel!SignOut, Panel!SignedOut, Panel!Rejected,
         Panel!Elsewhere, Panel!InviteOrAccept, Panel!ManageMember, Panel!FamilyAnswers,
         Panel!FamilyFails, Panel!Signed, Panel!Announced, Panel!Renders, Panel!Asks, Panel!Serves,
         Panel!DrawsFamily, Panel!Reads, Panel!Manage, Panel!Panel, Panel!Cards, Panel!Tools,
         Panel!Owns,
         W!Cardinality, Panel!Cardinality,
         account, owner, active, enabled, config, first, session, family, token, panel, cards, tools,
         manage, signing, locked, requests, switches

\* Whatever is drawn for s with the family f, whoever f was read for, is as it should be.
LEMMA DrawnOwn ==
    ASSUME NEW s, NEW f, NEW invited,
           session' = s, cards' = Panel!Cards(s, f), tools' = Panel!Tools(s, f, invited)
    PROVE  Panel!OwnFamilyOnly'
  BY DEF Panel!Cards, Panel!Tools, Panel!Owns, Panel!OwnFamilyOnly, Panel!Signed

LEMMA PanelMoves ==
    ASSUME Panel!OwnFamilyOnly, Panel!Next
    PROVE  Panel!OwnFamilyOnly'
<1>1. ASSUME NEW s, NEW f, Panel!Renders(s, f)
      PROVE  Panel!OwnFamilyOnly'
    BY <1>1, DrawnOwn DEF Panel!Renders, Panel!DrawsFamily
<1>2. CASE UNCHANGED <<session, cards, tools>>
    BY <1>2 DEF Panel!OwnFamilyOnly, Panel!Signed
<1>3. CASE Panel!FamilyAnswers
  <2>1. session' = session /\ cards' = Panel!Cards(session, family') /\ tools' = Panel!Tools(session, family', token')
      BY <1>3 DEF Panel!FamilyAnswers, Panel!DrawsFamily
  <2>. QED
      BY <2>1, DrawnOwn
<1>4. CASE Panel!SessionRead \/ Panel!Status \/ Panel!Elsewhere
    BY <1>1, <1>4 DEF Panel!SessionRead, Panel!Status, Panel!Elsewhere, Panel!Announced
<1>5. CASE Panel!Mounted \/ Panel!Answered \/ Panel!SignedOut \/ Panel!Rejected
    BY <1>1, <1>5 DEF Panel!Mounted, Panel!Answered, Panel!SignedOut, Panel!Rejected
<1>6. CASE Panel!Primary \/ Panel!SignOut \/ Panel!InviteOrAccept \/ Panel!ManageMember \/ Panel!FamilyFails
    BY <1>2, <1>6 DEF Panel!Primary, Panel!SignOut, Panel!InviteOrAccept, Panel!ManageMember, Panel!FamilyFails
<1>. QED
    BY <1>3, <1>4, <1>5, <1>6, Zenon DEF Panel!Next

LEMMA PanelBegins == Init => PanelPart
<1>1. ASSUME Init, part = "panel" PROVE Panel!OwnFamilyOnly
    BY <1>1, SamePanel DEF Init, Panel!Init, Panel!OwnFamilyOnly
<1>. QED
    BY <1>1 DEF PanelPart

LEMMA PanelSteps ==
    ASSUME PanelPart, Next, part = "panel"
    PROVE  Panel!OwnFamilyOnly'
  BY SamePanel, PanelMoves DEF PanelPart, Next

LEMMA PanelStays == PanelPart /\ [Next]_vars => PanelPart'
<1>1. ASSUME PanelPart, Next PROVE PanelPart'
    BY <1>1, PanelSteps DEF PanelPart, Next
<1>2. ASSUME PanelPart, UNCHANGED vars PROVE PanelPart'
    BY <1>2 DEF vars, PanelPart, Panel!OwnFamilyOnly, Panel!Signed, session, cards, tools
<1>. QED
    BY <1>1, <1>2

\* A browser without cookies is never told that it is signed in, a reading of the session that
\* began before a sign-out does not undo it, and the panel shows a guest no family and offers
\* only its owner what an owner may do (src/auth/client.js, src/auth/embed.js).
THEOREM SessionsStand == Spec => SessionStands
<1>. DEFINE Inv  == AuthPart /\ PanelPart
            Step == /\ part = "session" => A!AccountRetained' /\ A!SignOutStands
                    /\ part = "panel" => W!OwnFamilyOnly'
<1>1. Init => Inv
    BY AuthBegins, PanelBegins
<1>2. Inv /\ [Next]_vars => Inv'
    BY AuthStays, PanelStays
<1>3. Inv /\ [Next]_vars => [Step]_vars
  <2>1. ASSUME Inv, Next, part = "session" PROVE A!AccountRetained' /\ A!SignOutStands
    <3>1. AuthInv' /\ Auth!SignOutStands
        BY <2>1, AuthMoves
    <3>. QED
        BY <3>1, SameSession DEF AuthInv, PageFair, A!AccountRetained, jar, cached
  <2>2. ASSUME Inv, Next, part = "panel" PROVE W!OwnFamilyOnly'
      BY <2>2, PanelSteps DEF W!OwnFamilyOnly, W!Signed, Panel!OwnFamilyOnly, Panel!Signed, session, cards, tools
  <2>. QED
      BY <2>1, <2>2
<1>. QED
    BY <1>1, <1>2, <1>3, PTL DEF Spec, SessionStands

-----------------------------------------------------------------------------
(* Social under its own names, with a room for n players *)

me == x1
joining == x2
known == x3
used == x4
board == x5
challenge == x6
room == x7
call == x8
now == x9
restarts == x11
best == x12
raced == x13
Race(n) == INSTANCE Social WITH
  Id <- Item, MaxPlayers <- n, MaxCalls <- Posts[n], MaxRestarts <- Restarts[n], made <- x10

\* The module and its instances in MCServices are the same formulas.
LEMMA SameRace ==
    /\ S!Init <=> Race(2)!Init
    /\ S!Next <=> Race(2)!Next
    /\ S!RoomHonest <=> Race(2)!RoomHonest
    /\ S!RoomForward <=> Race(2)!RoomForward
    /\ S!SocialAssumption => Race(2)!SocialAssumption
  BY DEF
         S!Init, S!Next, S!RoomHonest, S!RoomForward, S!SocialAssumption, S!Step, S!Use, S!Tick,
         S!Restart, S!Rank, S!Rooms, S!Identify, S!Register, S!RegisterFails, S!Refused,
         S!SubmitScore, S!ReadChallenge, S!RecordAttempt, S!CreateChallenge, S!ToRoom, S!ReadRoom,
         S!SaveRoom, S!Lost, S!Routes, S!Begin, S!At, S!Statuses, S!Goto, S!Waiting, S!Larger,
         S!Holding, S!End, S!Allowed, S!Changed, S!In, S!Seat, S!Finished, S!Joined, S!Scored,
         S!IsFiniteSet, S!Cardinality, Race!Init, Race!Next, Race!RoomHonest, Race!RoomForward,
         Race!SocialAssumption, Race!Step, Race!Use, Race!Tick, Race!Restart, Race!Rank,
         Race!Rooms, Race!Identify, Race!Register, Race!RegisterFails, Race!Refused,
         Race!SubmitScore, Race!ReadChallenge, Race!RecordAttempt, Race!CreateChallenge,
         Race!ToRoom, Race!ReadRoom, Race!SaveRoom, Race!Lost, Race!Routes, Race!Begin, Race!At,
         Race!Statuses, Race!Goto, Race!Waiting, Race!Larger, Race!Holding, Race!End, Race!Allowed,
         Race!Changed, Race!In, Race!Seat, Race!Finished, Race!Joined, Race!Scored,
         Race!IsFiniteSet, Race!Cardinality, me, joining, known, used, board, challenge, room,
         call, now, restarts, best, raced

LEMMA SameFull ==
    /\ S1!Init <=> Race(1)!Init
    /\ S1!Next <=> Race(1)!Next
    /\ S1!RoomHonest <=> Race(1)!RoomHonest
    /\ S1!RoomForward <=> Race(1)!RoomForward
    /\ S1!SocialAssumption => Race(1)!SocialAssumption
  BY DEF
         S1!Init, S1!Next, S1!RoomHonest, S1!RoomForward, S1!SocialAssumption, S1!Step, S1!Use,
         S1!Tick, S1!Restart, S1!Rank, S1!Rooms, S1!Identify, S1!Register, S1!RegisterFails,
         S1!Refused, S1!SubmitScore, S1!ReadChallenge, S1!RecordAttempt, S1!CreateChallenge,
         S1!ToRoom, S1!ReadRoom, S1!SaveRoom, S1!Lost, S1!Routes, S1!Begin, S1!At, S1!Statuses,
         S1!Goto, S1!Waiting, S1!Larger, S1!Holding, S1!End, S1!Allowed, S1!Changed, S1!In,
         S1!Seat, S1!Finished, S1!Joined, S1!Scored, S1!IsFiniteSet, S1!Cardinality, Race!Init,
         Race!Next, Race!RoomHonest, Race!RoomForward, Race!SocialAssumption, Race!Step, Race!Use,
         Race!Tick, Race!Restart, Race!Rank, Race!Rooms, Race!Identify, Race!Register,
         Race!RegisterFails, Race!Refused, Race!SubmitScore, Race!ReadChallenge,
         Race!RecordAttempt, Race!CreateChallenge, Race!ToRoom, Race!ReadRoom, Race!SaveRoom,
         Race!Lost, Race!Routes, Race!Begin, Race!At, Race!Statuses, Race!Goto, Race!Waiting,
         Race!Larger, Race!Holding, Race!End, Race!Allowed, Race!Changed, Race!In, Race!Seat,
         Race!Finished, Race!Joined, Race!Scored, Race!IsFiniteSet, Race!Cardinality, me, joining,
         known, used, board, challenge, room, call, now, restarts, best, raced

Places == {"identify", "register", "wait", "send", "attempt", "record", "room", "save"}
Challenges == [target : Nat, attempts : Nat, beaten : Nat]
Seats == [score : Nat, finished : BOOLEAN]
Players == UNION {[P -> Seats] : P \in SUBSET Item}
Rooms == [status : {"lobby", "racing", "finished"}, host : Item, endsAt : Nat, players : Players]
Posted == [page : Page, route : Race(1)!Routes, score : Nat, id : Item \cup Slot \cup {None}, retried : BOOLEAN,
           read : {None} \cup Challenges \cup Rooms, pc : Places]

\* What holds of every room that is kept or on its way, where b is the best score of each player.
RoomOK(n, r, b) ==
    /\ r \in Rooms /\ r.host \in DOMAIN r.players
    /\ Cardinality(DOMAIN r.players) <= n
    /\ \A i \in DOMAIN r.players : r.players[i].score <= b[i]

\* What a call may do with the room it has read.
Grants(n, c) ==
    /\ c.route = "room-join" => c.id \in DOMAIN c.read.players \/ Cardinality(DOMAIN c.read.players) < n
    /\ c.route = "room-start" => c.read.status = "lobby"
    /\ c.route \notin {"room-join", "room-start", "room-state"} => c.id \in DOMAIN c.read.players

\* What is known of a call on its way.
PostFair(n, c, b) ==
    /\ c.pc \in {"send", "attempt", "record", "room", "save"} /\ c.route # "room-state" => c.id \in Item
    /\ c.pc \in {"attempt", "record"} => c.route = "score-submit"
    /\ c.pc = "record" => c.read \in Challenges
    /\ c.pc \in {"room", "save"} => c.route # "challenge-create"
    /\ c.pc = "save" => IF c.route = "room-create" THEN c.read = None ELSE RoomOK(n, c.read, b) /\ Grants(n, c)

PostsFair(n, f, b) ==
    /\ f \in [Slot -> Posted \cup {None}]
    /\ \A h \in Slot : f[h] # None => PostFair(n, f[h], b)

\* What the calls are about to write was made from the room r.
Fresh(f, r) == \A h \in Slot : f[h] # None /\ f[h].pc = "save" => f[h].read = r

\* The score that the room shows for i.
Shown(r, i) == IF r # None /\ i \in DOMAIN r.players THEN r.players[i].score ELSE 0

RaceInv(n) ==
    /\ me \in [Page -> Item \cup {None}] /\ joining \in [Page -> Slot \cup {None}]
    /\ challenge \in Challenges \cup {None} /\ best \in [Item -> Nat] /\ now \in Nat
    /\ PostsFair(n, call, best)
    /\ room # None => RoomOK(n, room, best)
    /\ ~raced => Fresh(call, room) /\ \A i \in Item : best[i] = Shown(room, i)

RacePart ==
    /\ part = "social" => RaceInv(2)
    /\ part = "full" => RaceInv(1)

LEMMA Ranks == ASSUME NEW n
               PROVE  Race(n)!Rank("lobby") = 1 /\ Race(n)!Rank("racing") = 2 /\ Race(n)!Rank("finished") = 3
  BY DEF Race!Rank, Race!Statuses

\* A call whose pc and, perhaps, whose id or read are new.
Put(k, step) == [k EXCEPT !.pc = step]
Named(k, i, step) == [k EXCEPT !.id = i, !.pc = step]
Having(k, what, step) == [k EXCEPT !.read = what, !.pc = step]
Again(k, step) == [k EXCEPT !.retried = TRUE, !.pc = step]

LEMMA PutShape ==
    ASSUME NEW k \in Posted, NEW step \in Places
    PROVE  /\ Put(k, step) \in Posted /\ Put(k, step).pc = step /\ Put(k, step).route = k.route
           /\ Put(k, step).id = k.id /\ Put(k, step).read = k.read
           /\ Again(k, step) \in Posted /\ Again(k, step).pc = step
  BY DEF Posted, Put, Again

LEMMA NamedShape ==
    ASSUME NEW k \in Posted, NEW step \in Places, NEW i \in Item \cup Slot \cup {None}
    PROVE  Named(k, i, step) \in Posted /\ Named(k, i, step).pc = step /\ Named(k, i, step).id = i
  BY DEF Posted, Named

LEMMA HavingShape ==
    ASSUME NEW k \in Posted, NEW step \in Places, NEW what \in {None} \cup Challenges \cup Rooms
    PROVE  /\ Having(k, what, step) \in Posted /\ Having(k, what, step).pc = step
           /\ Having(k, what, step).route = k.route /\ Having(k, what, step).id = k.id
           /\ Having(k, what, step).read = what
  BY DEF Posted, Having

LEMMA Seated ==
    ASSUME NEW p
    PROVE  p \in Players <=> DOMAIN p \subseteq Item /\ p \in [DOMAIN p -> Seats]
<1>1. ASSUME p \in Players PROVE DOMAIN p \subseteq Item /\ p \in [DOMAIN p -> Seats]
  <2>1. PICK P \in SUBSET Item : p \in [P -> Seats]
      BY <1>1 DEF Players
  <2>. QED
      BY <2>1
<1>2. ASSUME DOMAIN p \subseteq Item, p \in [DOMAIN p -> Seats] PROVE p \in Players
    BY <1>2 DEF Players
<1>. QED
    BY <1>1, <1>2

\* A room with other players, and with another status and end.
Peopled(r, p) == [r EXCEPT !.players = p]
Turned(r, s, t) == [r EXCEPT !.status = s, !.endsAt = t]

RoomIs(q, players, host, status, endsAt) ==
    q \in Rooms /\ q.players = players /\ q.host = host /\ q.status = status /\ q.endsAt = endsAt

LEMMA PeopledRoom ==
    ASSUME NEW r \in Rooms, NEW p \in Players
    PROVE  RoomIs(Peopled(r, p), p, r.host, r.status, r.endsAt)
  BY DEF Rooms, Peopled, RoomIs

LEMMA TurnedRoom ==
    ASSUME NEW r \in Rooms, NEW s \in {"lobby", "racing", "finished"}, NEW t \in Nat
    PROVE  RoomIs(Turned(r, s, t), r.players, r.host, s, t)
  BY DEF Rooms, Turned, RoomIs

\* A call goes on as k, which has not read a room another than the one there is.
LEMMA PostMoves ==
    ASSUME NEW n, NEW f, NEW b, PostsFair(n, f, b), NEW h \in Slot, NEW k \in Posted \cup {None},
           k # None => PostFair(n, k, b)
    PROVE  /\ PostsFair(n, [f EXCEPT ![h] = k], b)
           /\ \A r : Fresh(f, r) /\ (k # None /\ k.pc = "save" => k.read = r) => Fresh([f EXCEPT ![h] = k], r)
  BY DEF PostsFair, Fresh

\* Scores only rise, so what was fair stays fair.
LEMMA RoomStays ==
    ASSUME NEW n, NEW r, NEW b \in [Item -> Nat], NEW new \in [Item -> Nat], RoomOK(n, r, b),
           \A i \in Item : b[i] <= new[i]
    PROVE  RoomOK(n, r, new)
<1>1. DOMAIN r.players \subseteq Item /\ r.players \in [DOMAIN r.players -> Seats]
    BY Seated DEF RoomOK, Rooms
<1>2. ASSUME NEW i \in DOMAIN r.players PROVE r.players[i].score <= new[i]
  <2>1. r.players[i].score \in Nat /\ b[i] \in Nat /\ new[i] \in Nat /\ r.players[i].score <= b[i] /\ b[i] <= new[i]
      BY <1>1 DEF RoomOK, Seats
  <2>. QED
      BY <2>1
<1>. QED
    BY <1>2 DEF RoomOK

LEMMA PostsStay ==
    ASSUME NEW n, NEW f, NEW b \in [Item -> Nat], NEW new \in [Item -> Nat], PostsFair(n, f, b),
           \A i \in Item : b[i] <= new[i]
    PROVE  PostsFair(n, f, new)
<1>1. ASSUME NEW h \in Slot, f[h] # None PROVE PostFair(n, f[h], new)
  <2>1. PostFair(n, f[h], b)
      BY <1>1 DEF PostsFair
  <2>2. RoomOK(n, f[h].read, b) => RoomOK(n, f[h].read, new)
      BY RoomStays
  <2>. QED
      BY <2>1, <2>2 DEF PostFair
<1>. QED
    BY <1>1 DEF PostsFair

\* While the room stays as it is, its race does not go back.
LEMMA RoomRests ==
    ASSUME NEW n, RaceInv(n), room' = room
    PROVE  Race(n)!RoomForward
<1>1. room # None => Race(n)!Rank(room.status) \in Nat
    BY Ranks DEF RaceInv, RoomOK, Rooms
<1>. QED
    BY <1>1 DEF Race!RoomForward

\* A step of one call that leaves the room and its scores alone.
LEMMA PostStep ==
    ASSUME NEW n, RaceInv(n), NEW h \in Slot, NEW k \in Posted \cup {None},
           k # None => PostFair(n, k, best) /\ (k.pc = "save" => k.read = room),
           call' = [call EXCEPT ![h] = k], UNCHANGED <<room, now, best, raced>>,
           me' \in [Page -> Item \cup {None}], joining' \in [Page -> Slot \cup {None}],
           challenge' \in Challenges \cup {None}
    PROVE  RaceInv(n)' /\ Race(n)!RoomForward
<1>1. PostsFair(n, call, best)
    BY DEF RaceInv
<1>2. PostsFair(n, call', best)
    BY <1>1, PostMoves
<1>3. ~raced => Fresh(call', room)
    BY <1>1, PostMoves DEF RaceInv
<1>. QED
    BY <1>2, <1>3, RoomRests DEF RaceInv

\* What the call h is, and its pc.
LEMMA AtCall ==
    ASSUME NEW n, RaceInv(n), NEW h \in Slot, call[h] # None
    PROVE  call[h] \in Posted /\ PostFair(n, call[h], best) /\ call[h].page \in Page
           /\ None \in {None} \cup Challenges \cup Rooms
  BY DEF RaceInv, PostsFair, Posted

LEMMA EndStep ==
    ASSUME NEW n, RaceInv(n), NEW h \in Slot,
           call' = [call EXCEPT ![h] = None], UNCHANGED <<room, now, best, raced>>,
           me' \in [Page -> Item \cup {None}], joining' \in [Page -> Slot \cup {None}],
           challenge' \in Challenges \cup {None}
    PROVE  RaceInv(n)' /\ Race(n)!RoomForward
  BY PostStep

\* Going on to a place with nothing new in hand.
LEMMA GotoStep ==
    ASSUME NEW n, RaceInv(n), NEW h \in Slot, call[h] # None, NEW step \in Places \ {"save"},
           call' = [call EXCEPT ![h].pc = step], UNCHANGED <<room, now, best, raced>>,
           me' \in [Page -> Item \cup {None}], joining' \in [Page -> Slot \cup {None}],
           challenge' \in Challenges \cup {None},
           step \in {"send", "attempt", "record", "room"} /\ call[h].route # "room-state" => call[h].id \in Item,
           step \in {"attempt", "record"} => call[h].route = "score-submit",
           step # "record", step = "room" => call[h].route # "challenge-create"
    PROVE  RaceInv(n)' /\ Race(n)!RoomForward
<1>1. call[h] \in Posted /\ call \in [Slot -> Posted \cup {None}]
    BY AtCall DEF RaceInv, PostsFair
<1>. DEFINE k == Put(call[h], step)
<1>2. call[h].id \in Item \cup Slot \cup {None} /\ call[h].read \in {None} \cup Challenges \cup Rooms
    BY <1>1 DEF Posted
<1>3. k \in Posted /\ k.pc = step /\ k.route = call[h].route /\ k.id = call[h].id /\ k.read = call[h].read
    BY <1>1, <1>2, PutShape
<1>4. call' = [call EXCEPT ![h] = k]
    BY <1>1 DEF Put
<1>. HIDE DEF k
<1>5. PostFair(n, k, best) /\ k.pc # "save"
    BY <1>3 DEF PostFair
<1>. QED
    BY <1>3, <1>4, <1>5, PostStep

\* The steps of a call in the page.
LEMMA PageCalls ==
    ASSUME NEW n, Race(n)!SocialAssumption, RaceInv(n), NEW h \in Slot, NEW p \in Page,
           \/ Race(n)!Use(p, h) \/ Race(n)!Identify(h) \/ Race(n)!Register(h) \/ Race(n)!RegisterFails(h)
           \/ Race(n)!Refused(h)
    PROVE  RaceInv(n)' /\ Race(n)!RoomForward
<1>1. me \in [Page -> Item \cup {None}] /\ joining \in [Page -> Slot \cup {None}] /\ challenge \in Challenges \cup {None}
      /\ call \in [Slot -> Posted \cup {None}] /\ PostsFair(n, call, best)
    BY DEF RaceInv, PostsFair
<1>2. ASSUME NEW route \in Race(n)!Routes, NEW score \in Nat, Race(n)!Begin(p, h, route, score)
      PROVE  RaceInv(n)' /\ Race(n)!RoomForward
  <2>. DEFINE k == [page |-> p, route |-> route, score |-> score, id |-> None, retried |-> FALSE, read |-> None,
                    pc |-> IF route = "room-state" THEN "room" ELSE "identify"]
  <2>1. k \in Posted
      BY DEF Posted, Places, Race!Routes
  <2>2. PostFair(n, k, best) /\ k.pc # "save"
      BY DEF PostFair
  <2>3. call' = [call EXCEPT ![h] = k]
      BY <1>2 DEF Race!Begin
  <2>. HIDE DEF k
  <2>. QED
      BY <1>1, <1>2, <2>1, <2>2, <2>3, PostStep DEF Race!Begin
<1>3. CASE Race(n)!Use(p, h)
  <2>1. 0 .. MaxScore \subseteq Nat /\ {0} \subseteq Nat
      OBVIOUS
  <2>. QED
      BY <1>2, <1>3, <2>1 DEF Race!Use
<1>4. CASE Race(n)!Identify(h)
  <2>. DEFINE page == call[h].page
  <2>1. call[h] # None /\ page \in Page /\ call[h] \in Posted
      BY <1>4, AtCall DEF Race!Identify, Race!At
  <2>2. CASE me[page] # None
    <3>. DEFINE k == Named(call[h], me[page], "send")
    <3>1. me[page] \in Item /\ "send" \in Places
        BY <1>1, <2>1, <2>2 DEF Places
    <3>2. k \in Posted /\ k.pc = "send" /\ k.id = me[page]
        BY <2>1, <3>1, NamedShape
    <3>3. call' = [call EXCEPT ![h] = k]
        BY <1>1, <1>4, <2>2 DEF Race!Identify, Named
    <3>. HIDE DEF k
    <3>4. PostFair(n, k, best) /\ k.pc # "save"
        BY <3>1, <3>2 DEF PostFair
    <3>. QED
        BY <1>1, <1>4, <2>2, <3>2, <3>3, <3>4, PostStep DEF Race!Identify
  <2>3. CASE me[page] = None /\ joining[page] = None
    <3>1. call' = [call EXCEPT ![h].pc = "register"] /\ joining' \in [Page -> Slot \cup {None}]
        BY <1>1, <1>4, <2>1, <2>3 DEF Race!Identify, Race!Goto
    <3>2. "register" \in Places \ {"save"}
        BY DEF Places
    <3>. QED
        BY <1>1, <1>4, <2>1, <3>1, <3>2, GotoStep DEF Race!Identify
  <2>4. CASE me[page] = None /\ joining[page] # None
    <3>. DEFINE k == Named(call[h], joining[page], "wait")
    <3>1. joining[page] \in Item \cup Slot \cup {None} /\ "wait" \in Places
        BY <1>1, <2>1 DEF Places
    <3>2. k \in Posted /\ k.pc = "wait"
        BY <2>1, <3>1, NamedShape
    <3>3. call' = [call EXCEPT ![h] = k]
        BY <1>1, <1>4, <2>4 DEF Race!Identify, Named
    <3>. HIDE DEF k
    <3>4. PostFair(n, k, best) /\ k.pc # "save"
        BY <3>2 DEF PostFair
    <3>. QED
        BY <1>1, <1>4, <2>4, <3>2, <3>3, <3>4, PostStep DEF Race!Identify
  <2>. QED
      BY <2>2, <2>3, <2>4
<1>5. CASE Race(n)!Register(h)
  <2>. DEFINE page == call[h].page
  <2>1. PICK i \in Item : /\ me' = [me EXCEPT ![page] = i]
                          /\ call' = [g \in Slot |-> IF g \in {h} \cup Race(n)!Waiting(h)
                                                     THEN [call[g] EXCEPT !.id = i, !.pc = "send"]
                                                     ELSE call[g]]
      BY <1>5 DEF Race!Register
  <2>2. joining' = [joining EXCEPT ![page] = None] /\ UNCHANGED <<challenge, room, now, best, raced>>
      BY <1>5 DEF Race!Register
  <2>3. ASSUME NEW g \in Slot
        PROVE  /\ call'[g] \in Posted \cup {None} /\ (call'[g] # None => PostFair(n, call'[g], best))
               /\ call'[g] # None /\ call'[g].pc = "save" => call'[g] = call[g]
    <3>1. CASE g \in {h} \cup Race(n)!Waiting(h)
      <4>. DEFINE k == Named(call[g], i, "send")
      <4>1. call[g] # None /\ call[g] \in Posted /\ "send" \in Places
          BY <1>1, <1>5, <3>1 DEF Race!Register, Race!Waiting, Race!At, Places
      <4>2. k \in Posted /\ k.pc = "send" /\ k.id = i
          BY <4>1, NamedShape
      <4>3. call'[g] = k
          BY <2>1, <3>1 DEF Named
      <4>. HIDE DEF k
      <4>. QED
          BY <4>2, <4>3 DEF PostFair
    <3>2. CASE g \notin {h} \cup Race(n)!Waiting(h)
        BY <1>1, <2>1, <3>2 DEF PostsFair
    <3>. QED
        BY <3>1, <3>2
  <2>4. PostsFair(n, call', best) /\ (~raced => Fresh(call', room))
    <3>1. call' \in [Slot -> Posted \cup {None}]
        BY <2>1, <2>3
    <3>. QED
        BY <2>3, <3>1 DEF PostsFair, Fresh, RaceInv
  <2>. QED
      BY <1>1, <2>1, <2>2, <2>4, RoomRests DEF RaceInv
<1>6. CASE Race(n)!RegisterFails(h)
  <2>1. call' = [g \in Slot |-> IF g \in {h} \cup Race(n)!Waiting(h) THEN None ELSE call[g]]
        /\ joining' = [joining EXCEPT ![call[h].page] = None] /\ UNCHANGED <<me, challenge, room, now, best, raced>>
      BY <1>6 DEF Race!RegisterFails
  <2>2. PostsFair(n, call', best) /\ (~raced => Fresh(call', room))
      BY <1>1, <2>1 DEF PostsFair, Fresh, RaceInv
  <2>. QED
      BY <1>1, <2>1, <2>2, RoomRests DEF RaceInv
<1>7. CASE Race(n)!Refused(h)
  <2>1. call[h] # None /\ call[h] \in Posted /\ UNCHANGED <<challenge, room, now, best, raced>>
      BY <1>7, AtCall DEF Race!Refused, Race!At
  <2>2. CASE call' = [call EXCEPT ![h] = None] /\ UNCHANGED <<me, joining>>
      BY <1>1, <2>1, <2>2, EndStep
  <2>3. CASE /\ call' = [call EXCEPT ![h].retried = TRUE, ![h].pc = "identify"]
             /\ me' = [me EXCEPT ![call[h].page] = None] /\ joining' = [joining EXCEPT ![call[h].page] = None]
    <3>. DEFINE k == Again(call[h], "identify")
    <3>1. k \in Posted /\ k.pc = "identify"
        BY <2>1, PutShape DEF Places
    <3>2. call' = [call EXCEPT ![h] = k]
        BY <1>1, <2>3 DEF Again
    <3>. HIDE DEF k
    <3>3. PostFair(n, k, best) /\ k.pc # "save"
        BY <3>1 DEF PostFair
    <3>4. me' \in [Page -> Item \cup {None}] /\ joining' \in [Page -> Slot \cup {None}]
        BY <1>1, <2>3
    <3>. QED
        BY <1>1, <2>1, <3>1, <3>2, <3>3, <3>4, PostStep
  <2>. QED
      BY <1>7, <2>2, <2>3 DEF Race!Refused
<1>. QED
    BY <1>3, <1>4, <1>5, <1>6, <1>7

\* The steps of a call in the server that do not write the room.
LEMMA ServerCalls ==
    ASSUME NEW n, Race(n)!SocialAssumption, RaceInv(n), NEW h \in Slot,
           \/ Race(n)!SubmitScore(h) \/ Race(n)!ReadChallenge(h) \/ Race(n)!RecordAttempt(h)
           \/ Race(n)!CreateChallenge(h) \/ Race(n)!ToRoom(h) \/ Race(n)!ReadRoom(h) \/ Race(n)!Lost(h)
    PROVE  RaceInv(n)' /\ Race(n)!RoomForward
<1>1. /\ me \in [Page -> Item \cup {None}] /\ joining \in [Page -> Slot \cup {None}]
      /\ challenge \in Challenges \cup {None} /\ call \in [Slot -> Posted \cup {None}]
    BY DEF RaceInv, PostsFair
<1>2. call[h] # None /\ call[h] \in Posted /\ PostFair(n, call[h], best) /\ UNCHANGED <<me, joining, room, now, best>>
    BY AtCall DEF Race!SubmitScore, Race!ReadChallenge, Race!RecordAttempt, Race!CreateChallenge, Race!ToRoom,
                  Race!ReadRoom, Race!Lost, Race!At
<1>3. {"attempt", "record", "room", "save"} \subseteq Places
    BY DEF Places
<1>4. CASE Race(n)!SubmitScore(h)
  <2>1. call[h].id \in Item /\ call' = [call EXCEPT ![h].pc = "attempt"]
      BY <1>2, <1>4 DEF Race!SubmitScore, Race!At, Race!Goto, PostFair
  <2>. QED
      BY <1>1, <1>2, <1>3, <1>4, <2>1, GotoStep DEF Race!SubmitScore
<1>5. CASE Race(n)!ReadChallenge(h)
  <2>1. call[h].pc = "attempt" /\ call[h].route = "score-submit" /\ call[h].id \in Item
      BY <1>2, <1>5 DEF Race!ReadChallenge, Race!At, PostFair
  <2>2. /\ UNCHANGED <<challenge, raced>> /\ challenge' \in Challenges \cup {None}
        /\ me' \in [Page -> Item \cup {None}] /\ joining' \in [Page -> Slot \cup {None}]
      BY <1>1, <1>2, <1>5 DEF Race!ReadChallenge
  <2>3. CASE call' = [call EXCEPT ![h].pc = "room"]
    <3>1. "room" \in Places \ {"save"} /\ call[h].route # "challenge-create"
        BY <1>3, <2>1
    <3>. QED
        BY <1>2, <2>1, <2>2, <2>3, <3>1, GotoStep
  <2>4. CASE challenge # None /\ call' = [call EXCEPT ![h].read = challenge, ![h].pc = "record"]
    <3>. DEFINE k == Having(call[h], challenge, "record")
    <3>1. k \in Posted /\ k.pc = "record" /\ k.route = call[h].route /\ k.id = call[h].id /\ k.read = challenge
        BY <1>1, <1>2, <1>3, HavingShape
    <3>2. call' = [call EXCEPT ![h] = k]
        BY <1>1, <2>4 DEF Having
    <3>. HIDE DEF k
    <3>3. PostFair(n, k, best) /\ k.pc # "save"
        BY <1>1, <2>1, <2>4, <3>1 DEF PostFair
    <3>. QED
        BY <1>2, <2>2, <3>1, <3>2, <3>3, PostStep
  <2>. QED
      BY <1>5, <2>3, <2>4 DEF Race!ReadChallenge, Race!Goto
<1>6. CASE Race(n)!RecordAttempt(h)
  <2>. DEFINE c == call[h]
              k == Put(c, "room")
  <2>1. c.pc = "record" /\ c.route = "score-submit" /\ c.id \in Item /\ c.read \in Challenges
      BY <1>2, <1>6 DEF Race!RecordAttempt, Race!At, PostFair
  <2>2. challenge' \in Challenges
    <3>. DEFINE r == c.read
                more == IF c.score > r.target THEN r.beaten + 1 ELSE r.beaten
    <3>1. r.attempts + 1 \in Nat /\ more \in Nat
        BY <2>1 DEF Challenges
    <3>2. challenge' = [r EXCEPT !.attempts = r.attempts + 1, !.beaten = more]
        BY <1>6, <2>1 DEF Race!RecordAttempt, Challenges
    <3>. HIDE DEF more
    <3>. QED
        BY <2>1, <3>1, <3>2 DEF Challenges
  <2>3. k \in Posted /\ k.pc = "room" /\ k.route = c.route /\ k.id = c.id
      BY <1>2, <1>3, PutShape
  <2>4. call' = [call EXCEPT ![h] = k]
      BY <1>1, <1>6 DEF Race!RecordAttempt, Race!Goto, Put
  <2>. HIDE DEF k
  <2>5. PostFair(n, k, best) /\ k.pc # "save"
      BY <2>1, <2>3 DEF PostFair
  <2>6. PostsFair(n, call', best) /\ (~raced => Fresh(call', room))
      BY <2>3, <2>4, <2>5, PostMoves DEF RaceInv
  <2>7. ~raced' => ~raced
      BY <1>6 DEF Race!RecordAttempt
  <2>. QED
      BY <1>2, <2>2, <2>6, <2>7, RoomRests DEF RaceInv
<1>7. CASE Race(n)!CreateChallenge(h)
  <2>1. challenge' \in Challenges
      BY <1>2, <1>7 DEF Race!CreateChallenge, Challenges, Posted
  <2>. QED
      BY <1>1, <1>2, <1>7, <2>1, EndStep DEF Race!CreateChallenge, Race!End
<1>8. CASE Race(n)!ToRoom(h)
  <2>1. call[h].id \in Item /\ call[h].route # "challenge-create" /\ call' = [call EXCEPT ![h].pc = "room"]
      BY <1>2, <1>8 DEF Race!ToRoom, Race!At, Race!Goto, PostFair
  <2>. QED
      BY <1>1, <1>2, <1>3, <1>8, <2>1, GotoStep DEF Race!ToRoom
<1>9. CASE Race(n)!ReadRoom(h)
  <2>1. CASE Race(n)!Allowed(call[h], room) /\ call' = [call EXCEPT ![h].read = room, ![h].pc = "save"]
    <3>. DEFINE c == call[h]
                k == Having(c, room, "save")
    <3>1. room \in {None} \cup Challenges \cup Rooms /\ (room # None => RoomOK(n, room, best))
        BY DEF RaceInv, RoomOK
    <3>2. k \in Posted /\ k.pc = "save" /\ k.route = c.route /\ k.id = c.id /\ k.read = room
        BY <1>2, <1>3, <3>1, HavingShape
    <3>3. call' = [call EXCEPT ![h] = k]
        BY <1>1, <2>1 DEF Having
    <3>. HIDE DEF k
    <3>4. c.pc = "room" /\ (c.route # "room-state" => c.id \in Item) /\ c.route # "challenge-create"
        BY <1>2, <1>9 DEF Race!ReadRoom, Race!At, PostFair
    <3>5. IF c.route = "room-create" THEN room = None ELSE room # None /\ Grants(n, k)
        BY <2>1, <3>2 DEF Race!Allowed, Race!In, Grants, Race!Cardinality, Cardinality
    <3>6. PostFair(n, k, best)
        BY <3>1, <3>2, <3>4, <3>5 DEF PostFair
    <3>. QED
        BY <1>1, <1>2, <1>9, <3>2, <3>3, <3>6, PostStep DEF Race!ReadRoom
  <2>2. CASE call' = [call EXCEPT ![h] = None]
      BY <1>1, <1>2, <1>9, <2>2, EndStep DEF Race!ReadRoom
  <2>. QED
      BY <1>9, <2>1, <2>2 DEF Race!ReadRoom, Race!End
<1>10. CASE Race(n)!Lost(h)
    BY <1>1, <1>2, <1>10, EndStep DEF Race!Lost, Race!End
<1>. QED
    BY <1>4, <1>5, <1>6, <1>7, <1>8, <1>9, <1>10

LEMMA FinishedRoom ==
    ASSUME NEW n, NEW r \in Rooms
    PROVE  LET q == Race(n)!Finished(r)
           IN  /\ q \in Rooms /\ q.players = r.players /\ q.host = r.host /\ q.endsAt = r.endsAt
               /\ Race(n)!Rank(q.status) >= Race(n)!Rank(r.status)
<1>1. r.status \in {"lobby", "racing", "finished"} /\ r.players \in Players /\ r.endsAt \in Nat
    BY DEF Rooms
<1>2. [r EXCEPT !.status = "finished"] = Turned(r, "finished", r.endsAt)
    BY DEF Rooms, Turned
<1>3. RoomIs([r EXCEPT !.status = "finished"], r.players, r.host, "finished", r.endsAt)
    BY <1>1, <1>2, TurnedRoom
<1>. QED
    BY <1>1, <1>3, Ranks DEF Race!Finished, RoomIs

\* The players q are p and, if it was not among them, id.
Adds(q, p, id) ==
    /\ q \in Players /\ DOMAIN q = DOMAIN p \cup {id}
    /\ \A i \in DOMAIN q : q[i].score = IF i \in DOMAIN p THEN p[i].score ELSE 0

LEMMA JoinedPlayers ==
    ASSUME NEW n, NEW p \in Players, NEW id \in Item
    PROVE  Adds(Race(n)!Joined(p, id), p, id)
<1>. DEFINE q == Race(n)!Joined(p, id)
<1>1. DOMAIN p \subseteq Item /\ p \in [DOMAIN p -> Seats]
    BY Seated
<1>2. DOMAIN q = DOMAIN p \cup {id} /\ q \in [DOMAIN q -> Seats]
    BY <1>1 DEF Race!Joined, Race!Seat, Seats
<1>3. q \in Players
    BY <1>1, <1>2, Seated
<1>. QED
    BY <1>2, <1>3 DEF Race!Joined, Race!Seat, Adds

LEMMA ScoredPlayers ==
    ASSUME NEW n, NEW p \in Players, NEW c \in Posted, c.id \in DOMAIN p
    PROVE  LET q == Race(n)!Scored(p, c)
           IN  /\ q \in Players /\ DOMAIN q = DOMAIN p
               /\ \A i \in DOMAIN q : q[i].score = IF i = c.id THEN Race(n)!Larger(p[i].score, c.score) ELSE p[i].score
<1>. DEFINE q == Race(n)!Scored(p, c)
<1>1. DOMAIN p \subseteq Item /\ p \in [DOMAIN p -> Seats]
    BY Seated
<1>2. c.score \in Nat /\ p[c.id].score \in Nat /\ p[c.id].finished \in BOOLEAN
    BY <1>1 DEF Posted, Seats
<1>3. Race(n)!Larger(p[c.id].score, c.score) \in Nat /\ (p[c.id].finished \/ c.route = "score-submit") \in BOOLEAN
    BY <1>2 DEF Race!Larger
<1>4. q = [p EXCEPT ![c.id] = [score |-> Race(n)!Larger(p[c.id].score, c.score),
                               finished |-> p[c.id].finished \/ c.route = "score-submit"]]
    BY DEF Race!Scored
<1>5. DOMAIN q = DOMAIN p /\ q \in [DOMAIN p -> Seats]
    BY <1>1, <1>3, <1>4 DEF Seats
<1>6. q \in Players
    BY <1>1, <1>5, Seated
<1>. QED
    BY <1>1, <1>4, <1>5, <1>6

\* What becomes of the room r when q is written and the best scores b become new.
Writes(n, r, q, b, new) ==
    /\ RoomOK(n, q, new)
    /\ r # None => /\ Race(n)!Rank(q.status) >= Race(n)!Rank(r.status)
                   /\ DOMAIN r.players \subseteq DOMAIN q.players
                   /\ r.status # "lobby" => q.endsAt = r.endsAt
    /\ \A i \in Item : b[i] = Shown(r, i) => new[i] = Shown(q, i)

LEMMA CreateWrites ==
    ASSUME NEW n, Race(n)!SocialAssumption, NEW c \in Posted, c.route = "room-create", c.id \in Item, c.read = None,
           NEW b \in [Item -> Nat]
    PROVE  Writes(n, c.read, Race(n)!Changed(c), b, b)
<1>. DEFINE p == [i \in {c.id} |-> Race(n)!Seat]
            q == Race(n)!Changed(c)
<1>1. DOMAIN p = {c.id} /\ p \in [DOMAIN p -> Seats] /\ p[c.id].score = 0
    BY DEF Seats, Race!Seat
<1>2. p \in Players
    BY <1>1, Seated
<1>3. q = [status |-> "lobby", host |-> c.id, endsAt |-> 0, players |-> p]
    BY DEF Race!Changed
<1>. HIDE DEF p
<1>4. q \in Rooms /\ q.host = c.id /\ q.players = p
    BY <1>2, <1>3 DEF Rooms
<1>5. n \in Nat /\ 1 <= n /\ q # None
    BY <1>4 DEF Race!SocialAssumption, Race!Rooms, Rooms, Players, Seats
<1>6. Cardinality({c.id}) = 1
    BY FS_Singleton
<1>. QED
    BY <1>1, <1>4, <1>5, <1>6 DEF Writes, RoomOK, Shown

LEMMA JoinWrites ==
    ASSUME NEW n, Race(n)!SocialAssumption, NEW c \in Posted, c.route = "room-join", c.id \in Item,
           NEW b \in [Item -> Nat], RoomOK(n, c.read, b), Grants(n, c)
    PROVE  Writes(n, c.read, Race(n)!Changed(c), b, b)
<1>. DEFINE r == c.read
            p == Race(n)!Joined(r.players, c.id)
            s == Peopled(r, p)
            q == Race(n)!Finished(s)
<1>1. r \in Rooms /\ r.players \in Players /\ r.status \in {"lobby", "racing", "finished"} /\ r.endsAt \in Nat
    BY DEF RoomOK, Rooms
<1>2. Adds(p, r.players, c.id)
    BY <1>1, JoinedPlayers
<1>3. Race(n)!Changed(c) = q
    BY DEF Race!Changed, Peopled
<1>. HIDE DEF p
<1>4. RoomIs(s, p, r.host, r.status, r.endsAt)
    BY <1>1, <1>2, PeopledRoom DEF Adds
<1>. HIDE DEF s
<1>5. /\ q \in Rooms /\ q.players = p /\ q.host = r.host /\ q.endsAt = r.endsAt
      /\ Race(n)!Rank(q.status) >= Race(n)!Rank(r.status)
    BY <1>4, FinishedRoom DEF RoomIs
<1>6. n \in Nat /\ IsFiniteSet(Item) /\ q # None /\ r # None
    BY <1>1, <1>5 DEF Race!SocialAssumption, Race!Rooms, Rooms, Players, Seats, Race!IsFiniteSet, IsFiniteSet
<1>7. Cardinality(DOMAIN p) <= n
  <2>1. IsFiniteSet(DOMAIN r.players) /\ Cardinality(DOMAIN r.players) \in Nat
      BY <1>1, <1>6, Seated, FS_Subset, FS_CardinalityType
  <2>2. Cardinality(DOMAIN p) = IF c.id \in DOMAIN r.players THEN Cardinality(DOMAIN r.players)
                                ELSE Cardinality(DOMAIN r.players) + 1
      BY <1>2, <2>1, FS_AddElement DEF Adds
  <2>. QED
      BY <1>6, <2>1, <2>2 DEF RoomOK, Grants
<1>8. \A i \in DOMAIN p : p[i].score <= b[i]
  <2>1. DOMAIN p \subseteq Item /\ p \in [DOMAIN p -> Seats]
      BY <1>2, Seated DEF Adds
  <2>. QED
      BY <1>2, <2>1 DEF RoomOK, Adds
<1>9. \A i \in Item : Shown(r, i) = Shown(q, i)
    BY <1>2, <1>5, <1>6 DEF Shown, Adds
<1>. HIDE DEF q
<1>. QED
    BY <1>2, <1>3, <1>5, <1>6, <1>7, <1>8, <1>9 DEF Writes, RoomOK, Adds

LEMMA TurnWrites ==
    ASSUME NEW n, Race(n)!SocialAssumption, NEW c \in Posted, c.route \in {"room-start", "room-state"}, now \in Nat,
           NEW b \in [Item -> Nat], RoomOK(n, c.read, b), Grants(n, c)
    PROVE  Writes(n, c.read, Race(n)!Changed(c), b, b)
<1>. DEFINE r == c.read
            q == Race(n)!Changed(c)
<1>1. r \in Rooms /\ r.players \in Players /\ now + 1 \in Nat
    BY DEF RoomOK, Rooms
<1>2. /\ q \in Rooms /\ q.players = r.players /\ q.host = r.host /\ (r.status # "lobby" => q.endsAt = r.endsAt)
      /\ Race(n)!Rank(q.status) >= Race(n)!Rank(r.status)
  <2>1. CASE c.route = "room-start"
    <3>1. q = Turned(r, "racing", now + 1) /\ r.status = "lobby"
        BY <2>1 DEF Race!Changed, Turned, Grants
    <3>2. RoomIs(q, r.players, r.host, "racing", now + 1)
        BY <1>1, <3>1, TurnedRoom
    <3>. QED
        BY <3>1, <3>2, Ranks DEF RoomIs
  <2>2. CASE c.route = "room-state"
    <3>1. q = Race(n)!Finished(r)
        BY <2>2 DEF Race!Changed
    <3>. QED
        BY <1>1, <3>1, FinishedRoom
  <2>. QED
      BY <2>1, <2>2
<1>3. q # None /\ r # None
    BY <1>1, <1>2 DEF Race!SocialAssumption, Race!Rooms, Rooms, Players, Seats
<1>. HIDE DEF q
<1>4. Writes(n, r, q, b, b)
    BY <1>2, <1>3 DEF Writes, RoomOK, Shown
<1>. QED
    BY <1>4 DEF q

LEMMA ScoreWrites ==
    ASSUME NEW n, Race(n)!SocialAssumption, NEW c \in Posted, c.route \in {"room-score", "score-submit"},
           NEW b \in [Item -> Nat], RoomOK(n, c.read, b), Grants(n, c)
    PROVE  /\ c.id \in Item
           /\ Writes(n, c.read, Race(n)!Changed(c), b, [b EXCEPT ![c.id] = Race(n)!Larger(b[c.id], c.score)])
<1>. DEFINE r == c.read
            p == Race(n)!Scored(r.players, c)
            s == Peopled(r, p)
            q == Race(n)!Finished(s)
            new == [b EXCEPT ![c.id] = Race(n)!Larger(b[c.id], c.score)]
<1>1. r \in Rooms /\ r.players \in Players /\ r.status \in {"lobby", "racing", "finished"} /\ r.endsAt \in Nat
    BY DEF RoomOK, Rooms
<1>2. c.id \in DOMAIN r.players /\ DOMAIN r.players \subseteq Item /\ r.players \in [DOMAIN r.players -> Seats]
    BY <1>1, Seated DEF Grants
<1>3. /\ p \in Players /\ DOMAIN p = DOMAIN r.players
      /\ \A i \in DOMAIN p :
            p[i].score = IF i = c.id THEN Race(n)!Larger(r.players[i].score, c.score) ELSE r.players[i].score
    BY <1>1, <1>2, ScoredPlayers
<1>4. Race(n)!Changed(c) = q
    BY DEF Race!Changed, Peopled
<1>. HIDE DEF p
<1>5. RoomIs(s, p, r.host, r.status, r.endsAt)
    BY <1>1, <1>3, PeopledRoom
<1>. HIDE DEF s
<1>6. /\ q \in Rooms /\ q.players = p /\ q.host = r.host /\ q.endsAt = r.endsAt
      /\ Race(n)!Rank(q.status) >= Race(n)!Rank(r.status)
    BY <1>5, FinishedRoom DEF RoomIs
<1>7. q # None /\ r # None
    BY <1>1, <1>6 DEF Race!SocialAssumption, Race!Rooms, Rooms, Players, Seats
<1>8. c.score \in Nat /\ \A i \in DOMAIN p : r.players[i].score \in Nat /\ b[i] \in Nat /\ r.players[i].score <= b[i]
    BY <1>2, <1>3 DEF Posted, RoomOK, Seats
<1>9. \A i \in DOMAIN p : p[i].score <= new[i]
    BY <1>2, <1>3, <1>8 DEF Race!Larger
<1>10. \A i \in Item : b[i] = Shown(r, i) => new[i] = Shown(q, i)
    BY <1>2, <1>3, <1>6, <1>7 DEF Shown
<1>. HIDE DEF q, new
<1>11. Writes(n, r, q, b, new)
    BY <1>3, <1>6, <1>7, <1>9, <1>10 DEF Writes, RoomOK
<1>. QED
    BY <1>2, <1>4, <1>11 DEF new

\* A call writes the room it has read.
LEMMA RoomWritten ==
    ASSUME NEW n, Race(n)!SocialAssumption, RaceInv(n), NEW h \in Slot, Race(n)!SaveRoom(h)
    PROVE  RaceInv(n)' /\ Race(n)!RoomForward
<1>. DEFINE c == call[h]
<1>1. /\ c # None /\ c.pc = "save" /\ room' = Race(n)!Changed(c) /\ call' = [call EXCEPT ![h] = None]
      /\ UNCHANGED <<me, joining, challenge, now>>
    BY DEF Race!SaveRoom, Race!At, Race!End
<1>2. c \in Posted /\ PostFair(n, c, best) /\ best \in [Item -> Nat] /\ now \in Nat /\ PostsFair(n, call, best)
    BY <1>1, AtCall DEF RaceInv
<1>3. Writes(n, c.read, room', best, best') /\ best' \in [Item -> Nat] /\ \A i \in Item : best[i] <= best'[i]
  <2>1. CASE c.route \in {"room-score", "score-submit"}
    <3>1. best' = [best EXCEPT ![c.id] = Race(n)!Larger(best[c.id], c.score)]
        BY <2>1 DEF Race!SaveRoom
    <3>2. RoomOK(n, c.read, best) /\ Grants(n, c)
        BY <1>1, <1>2, <2>1 DEF PostFair
    <3>3. c.id \in Item /\ Writes(n, c.read, room', best, best')
        BY <1>1, <1>2, <2>1, <3>1, <3>2, ScoreWrites
    <3>4. c.score \in Nat
        BY <1>2 DEF Posted
    <3>. QED
        BY <1>2, <3>1, <3>3, <3>4 DEF Race!Larger
  <2>2. CASE c.route \notin {"room-score", "score-submit"}
    <3>1. best' = best /\ \A i \in Item : best[i] <= best'[i]
        BY <1>2, <2>2 DEF Race!SaveRoom
    <3>2. c.route \in {"room-create", "room-join", "room-start", "room-state"}
        BY <1>1, <1>2, <2>2 DEF Posted, PostFair, Race!Routes
    <3>3. Writes(n, c.read, room', best, best)
      <4>1. CASE c.route = "room-create"
          BY <1>1, <1>2, <4>1, CreateWrites DEF PostFair
      <4>2. CASE c.route = "room-join"
          BY <1>1, <1>2, <4>2, JoinWrites DEF PostFair
      <4>3. CASE c.route \in {"room-start", "room-state"}
          BY <1>1, <1>2, <4>3, TurnWrites DEF PostFair
      <4>. QED
          BY <3>2, <4>1, <4>2, <4>3
    <3>. QED
        BY <1>2, <3>1, <3>3
  <2>. QED
      BY <2>1, <2>2
<1>4. PostsFair(n, call', best')
    BY <1>1, <1>2, <1>3, PostMoves, PostsStay
<1>5. ~raced' => c.read = room /\ Fresh(call', room') /\ \A i \in Item : best'[i] = Shown(room', i)
  <2>. SUFFICES ASSUME ~raced' PROVE c.read = room /\ Fresh(call', room') /\ \A i \in Item : best'[i] = Shown(room', i)
      OBVIOUS
  <2>1. ~raced /\ \A g \in Slot \ {h} : ~Race(n)!At(g, "save")
      BY DEF Race!SaveRoom, Race!Holding
  <2>2. c.read = room /\ \A i \in Item : best[i] = Shown(room, i)
      BY <1>1, <2>1 DEF RaceInv, Fresh
  <2>3. call \in [Slot -> Posted \cup {None}]
      BY <1>2 DEF PostsFair
  <2>4. Fresh(call', room')
      BY <1>1, <2>1, <2>3 DEF Fresh, Race!At
  <2>. QED
      BY <1>3, <2>2, <2>4 DEF Writes
<1>6. RaceInv(n)'
    BY <1>1, <1>3, <1>4, <1>5 DEF RaceInv, Writes
<1>7. Race(n)!RoomForward
    BY <1>3, <1>5 DEF Race!RoomForward, Writes
<1>. QED
    BY <1>6, <1>7

LEMMA RaceMoves ==
    ASSUME NEW n, Race(n)!SocialAssumption, RaceInv(n), Race(n)!Next
    PROVE  RaceInv(n)' /\ Race(n)!RoomForward
<1>1. /\ me \in [Page -> Item \cup {None}] /\ joining \in [Page -> Slot \cup {None}]
      /\ challenge \in Challenges \cup {None} /\ call \in [Slot -> Posted \cup {None}]
      /\ PostsFair(n, call, best) /\ now \in Nat
    BY DEF RaceInv, PostsFair
<1>2. ASSUME NEW h \in Slot, Race(n)!Step(h) PROVE RaceInv(n)' /\ Race(n)!RoomForward
  <2>1. CASE Race(n)!SaveRoom(h)
      BY <2>1, RoomWritten
  <2>2. CASE \/ Race(n)!SubmitScore(h) \/ Race(n)!ReadChallenge(h) \/ Race(n)!RecordAttempt(h)
             \/ Race(n)!CreateChallenge(h) \/ Race(n)!ToRoom(h) \/ Race(n)!ReadRoom(h) \/ Race(n)!Lost(h)
      BY <2>2, ServerCalls
  <2>3. CASE Race(n)!Identify(h) \/ Race(n)!Register(h) \/ Race(n)!RegisterFails(h) \/ Race(n)!Refused(h)
    <3>1. call[h].page \in Page
        BY <2>3, AtCall DEF Race!Identify, Race!Register, Race!RegisterFails, Race!Refused, Race!At
    <3>. QED
        BY <2>3, <3>1, PageCalls
  <2>. QED
      BY <1>2, <2>1, <2>2, <2>3 DEF Race!Step
<1>3. ASSUME NEW h \in Slot, NEW p \in Page, Race(n)!Use(p, h) PROVE RaceInv(n)' /\ Race(n)!RoomForward
    BY <1>3, PageCalls
<1>4. CASE Race(n)!Tick
  <2>1. now' \in Nat /\ UNCHANGED <<me, joining, challenge, room, call, best, raced>>
      BY <1>1, <1>4 DEF Race!Tick
  <2>. QED
      BY <1>1, <2>1, RoomRests DEF RaceInv
<1>5. CASE Race(n)!Restart
  <2>1. /\ challenge' = None /\ room' = None /\ best' = [i \in Item |-> 0] /\ UNCHANGED <<me, joining, now, raced>>
        /\ call' = [h \in Slot |-> IF \E step \in {"attempt", "record", "room", "save"} : Race(n)!At(h, step)
                                   THEN None ELSE call[h]]
      BY <1>5 DEF Race!Restart
  <2>2. ASSUME NEW h \in Slot, call'[h] # None
        PROVE  call'[h] = call[h] /\ call[h].pc # "save" /\ PostFair(n, call'[h], best')
    <3>1. call'[h] = call[h] /\ call[h].pc # "save"
        BY <2>1, <2>2 DEF Race!At
    <3>. QED
        BY <1>1, <2>2, <3>1 DEF PostsFair, PostFair
  <2>3. call' \in [Slot -> Posted \cup {None}]
      BY <1>1, <2>1
  <2>. QED
      BY <1>1, <2>1, <2>2, <2>3 DEF RaceInv, PostsFair, Fresh, Shown, Race!RoomForward
<1>. QED
    BY <1>2, <1>3, <1>4, <1>5 DEF Race!Next

\* What the invariant says of the room.
LEMMA RaceHonest ==
    ASSUME NEW n, RaceInv(n)
    PROVE  Race(n)!RoomHonest
<1>. SUFFICES ASSUME room # None PROVE Race(n)!RoomHonest
    BY DEF Race!RoomHonest
<1>1. RoomOK(n, room, best) /\ DOMAIN room.players \subseteq Item
    BY Seated DEF RaceInv, RoomOK, Rooms
<1>2. Race(n)!Cardinality(DOMAIN room.players) = Cardinality(DOMAIN room.players)
    BY DEF Race!Cardinality, Cardinality
<1>3. ~raced => \A i \in DOMAIN room.players : room.players[i].score = best[i]
    BY <1>1 DEF RaceInv, Shown
<1>. QED
    BY <1>1, <1>2, <1>3 DEF RoomOK, Race!RoomHonest

LEMMA RaceStarts == ASSUME NEW n, Race(n)!Init PROVE RaceInv(n)
  BY DEF Race!Init, RaceInv, PostsFair, Fresh, Shown

LEMMA RaceRests ==
    ASSUME NEW n, RaceInv(n), UNCHANGED vars
    PROVE  RaceInv(n)'
  BY DEF vars, RaceInv, me, joining, challenge, room, call, now, best, raced

LEMMA RaceBegins == Init => RacePart
<1>1. ASSUME Init, part = "social" PROVE RaceInv(2)
  <2>1. S!Init
      BY <1>1, Zenon DEF Init
  <2>. QED
      BY <2>1, SameRace, RaceStarts
<1>2. ASSUME Init, part = "full" PROVE RaceInv(1)
  <2>1. S1!Init
      BY <1>2, Zenon DEF Init
  <2>. QED
      BY <2>1, SameFull, RaceStarts
<1>. QED
    BY <1>1, <1>2 DEF RacePart

LEMMA RaceSteps ==
    ASSUME RacePart, Next
    PROVE  /\ part = "social" => RaceInv(2)' /\ S!RoomForward
           /\ part = "full" => RaceInv(1)' /\ S1!RoomForward
<1>1. CASE part = "social"
  <2>1. RaceInv(2) /\ S!Next /\ S!SocialAssumption
      BY <1>1, ServicesAssumption DEF RacePart, Next, ServicesAssumption
  <2>2. Race(2)!Next /\ Race(2)!SocialAssumption
      BY <2>1, SameRace
  <2>3. RaceInv(2)' /\ Race(2)!RoomForward
      BY <2>1, <2>2, RaceMoves
  <2>. QED
      BY <1>1, <2>3, SameRace
<1>2. CASE part = "full"
  <2>1. RaceInv(1) /\ S1!Next /\ S1!SocialAssumption
      BY <1>2, ServicesAssumption DEF RacePart, Next, ServicesAssumption
  <2>2. Race(1)!Next /\ Race(1)!SocialAssumption
      BY <2>1, SameFull
  <2>3. RaceInv(1)' /\ Race(1)!RoomForward
      BY <2>1, <2>2, RaceMoves
  <2>. QED
      BY <1>2, <2>3, SameFull
<1>. QED
    BY <1>1, <1>2

LEMMA RaceStays == RacePart /\ [Next]_vars => RacePart'
<1>1. ASSUME RacePart, Next PROVE RacePart'
    BY <1>1, RaceSteps DEF RacePart, Next
<1>2. ASSUME RacePart, UNCHANGED vars PROVE RacePart'
  <2>1. part' = part
      BY <1>2 DEF vars
  <2>. QED
      BY <1>2, <2>1, RaceRests DEF RacePart
<1>. QED
    BY <1>1, <1>2

LEMMA PartsHonest == (RaceInv(2) => S!RoomHonest) /\ (RaceInv(1) => S1!RoomHonest)
  BY RaceHonest, SameRace, SameFull

\* However joining, starting and scoring overlap, are lost or meet a restart, a room holds no
\* more players than it may and no score that nobody posted; and while no two calls have
\* written it at one time it shows the best scores and its race does not go back (api/social.js).
THEOREM RoomsAreFair == Spec => RoomFair
<1>1. Init => RacePart
    BY RaceBegins
<1>2. RacePart /\ [Next]_vars => RacePart'
    BY RaceStays
<1>3. RacePart /\ [Next]_vars =>
        [/\ part = "social" => S!RoomHonest' /\ S!RoomForward
         /\ part = "full" => S1!RoomHonest' /\ S1!RoomForward]_vars
  <2>1. ASSUME RacePart, Next
        PROVE  /\ part = "social" => S!RoomHonest' /\ S!RoomForward
               /\ part = "full" => S1!RoomHonest' /\ S1!RoomForward
    <3>1. (RaceInv(2)' => S!RoomHonest') /\ (RaceInv(1)' => S1!RoomHonest')
        BY PartsHonest, PTL
    <3>. QED
        BY <2>1, <3>1, RaceSteps
  <2>. QED
      BY <2>1
<1>. QED
    BY <1>1, <1>2, <1>3, PTL DEF Spec, RoomFair

-----------------------------------------------------------------------------
(* Feedback: the invariant of FeedbackProofs *)

Forms == INSTANCE FeedbackProofs WITH
  submission <- x1, linear <- x2, cache <- x3, count <- x4, req <- x5,
  dialog <- x6, asked <- x7, faults <- x8, accepted <- x9, raced <- x10,
  crowded <- x11, Submission <- Item, Session <- Sessions, MaxRequests <- MaxForms

\* The theorems are about the same formulas as MCServices.
LEMMA SameForms ==
    /\ F!Init <=> Forms!Init
    /\ F!Next <=> Forms!Next
    /\ F!IssuesAccounted /\ F!BaselineAccounted /\ F!SubmissionsKept
         <=> Forms!IssuesAccounted /\ Forms!BaselineAccounted /\ Forms!SubmissionsKept
    /\ F!FeedbackAssumption => Forms!FeedbackAssumption
  BY DEF
         F!Init, F!Next, F!IssuesAccounted, F!BaselineAccounted, F!SubmissionsKept,
         F!FeedbackAssumption, F!Bucket, F!Closed, F!Step, F!Administer, F!Player, F!WindowEnds,
         F!CacheExpires, F!Unstored, F!Records, F!Requests, F!Limited, F!Save, F!Find, F!Load,
         F!Store, F!Baseline, F!CreateBaseline, F!BaselineLost, F!CreateIssue, F!IssueLost, F!Reply,
         F!Fails, F!Provision, F!Prepare, F!Manage, F!Open, F!Close, F!TimerFires, F!Send,
         F!Patches, F!At, F!Answer, F!Goto, F!NewRecord, F!Synced, F!Others, F!Patched, F!After,
         F!NoPatch, F!Onward, F!Faulty, F!Settled, F!Begin, F!Request, F!Alerted, F!AlertOf,
         F!Cardinality, F!IsFiniteSet, Forms!Init, Forms!Next, Forms!IssuesAccounted,
         Forms!BaselineAccounted, Forms!SubmissionsKept, Forms!FeedbackAssumption, Forms!Bucket,
         Forms!Closed, Forms!Step, Forms!Administer, Forms!Player, Forms!WindowEnds,
         Forms!CacheExpires, Forms!Unstored, Forms!Records, Forms!Requests, Forms!Limited,
         Forms!Save, Forms!Find, Forms!Load, Forms!Store, Forms!Baseline, Forms!CreateBaseline,
         Forms!BaselineLost, Forms!CreateIssue, Forms!IssueLost, Forms!Reply, Forms!Fails,
         Forms!Provision, Forms!Prepare, Forms!Manage, Forms!Open, Forms!Close, Forms!TimerFires,
         Forms!Send, Forms!Patches, Forms!At, Forms!Answer, Forms!Goto, Forms!NewRecord,
         Forms!Synced, Forms!Others, Forms!Patched, Forms!After, Forms!NoPatch, Forms!Onward,
         Forms!Faulty, Forms!Settled, Forms!Begin, Forms!Request, Forms!Alerted, Forms!AlertOf,
         Forms!Cardinality, Forms!IsFiniteSet

FeedbackPart == part = "feedback" => Forms!FeedbackInv

LEMMA FeedbackBegins == Init => FeedbackPart
<1>1. ASSUME Init, part = "feedback" PROVE Forms!FeedbackInv
  <2>1. F!Init
      BY <1>1, Zenon DEF Init
  <2>. QED
      BY <2>1, SameForms, ServicesAssumption, Forms!InitFeedback DEF ServicesAssumption
<1>. QED
    BY <1>1 DEF FeedbackPart

LEMMA FeedbackStays == FeedbackPart /\ [Next]_vars => FeedbackPart'
<1>1. ASSUME FeedbackPart, [Next]_vars, part' = "feedback" PROVE Forms!FeedbackInv'
  <2>1. part = "feedback" /\ (F!Next \/ UNCHANGED Forms!vars)
      BY <1>1 DEF Next, vars, Forms!vars
  <2>. QED
      BY <1>1, <2>1, SameForms, ServicesAssumption, Forms!StepFeedback DEF ServicesAssumption, FeedbackPart
<1>. QED
    BY <1>1 DEF FeedbackPart

\* However players, administrators and retries overlap and whichever calls fail, Linear holds
\* one issue per submission and one for the game, no window lets more submissions through
\* than its limit, and what the dialog reports sent is stored (api/feedback).
THEOREM FeedbackIsAccounted == Spec => []FeedbackAccounted
<1>1. FeedbackPart => FeedbackAccounted
  <2>1. Forms!FeedbackInv => Forms!IssuesAccounted /\ Forms!BaselineAccounted /\ Forms!SubmissionsKept
      BY DEF Forms!FeedbackInv, Forms!BaselineInv, Forms!BaselineAccounted, Forms!KeptInv, Forms!SubmissionsKept
  <2>. QED
      BY <2>1, SameForms DEF FeedbackPart, FeedbackAccounted
<1>. QED
    BY <1>1, FeedbackBegins, FeedbackStays, PTL DEF Spec

-----------------------------------------------------------------------------
(* Family accounts: the invariant of FamilyAccountsProofs, of each instance *)

Grown == INSTANCE FamilyAccountsProofs WITH
  account <- x1, invite <- x2, premium <- x3, link <- x4, paid <- x5, req <- x6,
  creator <- x7, taken <- x8, spent <- x9, plans <- x10, User <- {1} \cup Item,
  Account <- {1}, Invite <- {1, 2}, SeatLimit <- 2, MaxRequests <- 5,
  MaxPlans <- 1, Payer <- {1}, MaxOf <- Growing
Lone == INSTANCE FamilyAccountsProofs WITH
  account <- x1, invite <- x2, premium <- x3, link <- x4, paid <- x5, req <- x6,
  creator <- x7, taken <- x8, spent <- x9, plans <- x10, User <- {1, 2},
  Account <- {1}, Invite <- {1}, SeatLimit <- 2, MaxRequests <- 4,
  MaxPlans <- 1, Payer <- {1}, MaxOf <- OneEach

Paid == INSTANCE FamilyAccountsProofs WITH
  account <- x1, invite <- x2, premium <- x3, link <- x4, paid <- x5, req <- x6,
  creator <- x7, taken <- x8, spent <- x9, plans <- x10, User <- Item,
  Account <- {1}, Invite <- {1}, SeatLimit <- 2, MaxRequests <- 4,
  MaxPlans <- 2, Payer <- Item, MaxOf <- TwoPayers

\* The theorems are about the same formulas as MCServices.
LEMMA SameGrown ==
    /\ G!Init <=> Grown!Init
    /\ G!Next <=> Grown!Next
    /\ G!SeatsEarned <=> Grown!SeatsEarned
    /\ G!FamilyAssumption => Grown!FamilyAssumption
    /\ G!NoInvite = Grown!NoInvite /\ G!Free = Grown!Free
  BY DEF
         G!Init, G!Next, G!SeatsEarned, G!FamilyAssumption, G!NoInvite, G!Free, G!NoAccount,
         G!Kinds, G!Start, G!Step, G!Dies, G!Lapse, G!PlanChanges, G!InvitesOf, G!Keep, G!Billing,
         G!Summary, G!InviteUser, G!Remove, G!Accept, G!Close, G!Lookup, G!Load, G!Store,
         G!ReadProfile, G!Find, G!Ensure, G!Sync, G!Clear, G!ListInvites, G!Expire, G!OfferSeat,
         G!LoadMailed, G!StoreMailed, G!ReadInvite, G!CloseInvite, G!AcceptReads, G!TakeSeat,
         G!Accepted, G!ReadOwner, G!Drop, G!Dropped, G!ListPaid, G!SaveBilling, G!Continue,
         G!stored, G!Pending, G!NoStatus, G!Begin, G!Normalized, G!FoundFor, G!Saving, Grown!Init,
         Grown!Next, Grown!SeatsEarned, Grown!FamilyAssumption, Grown!NoInvite, Grown!Free,
         Grown!NoAccount, Grown!Kinds, Grown!Start, Grown!Step, Grown!Dies, Grown!Lapse,
         Grown!PlanChanges, Grown!InvitesOf, Grown!Keep, Grown!Billing, Grown!Summary,
         Grown!InviteUser, Grown!Remove, Grown!Accept, Grown!Close, Grown!Lookup, Grown!Load,
         Grown!Store, Grown!ReadProfile, Grown!Find, Grown!Ensure, Grown!Sync, Grown!Clear,
         Grown!ListInvites, Grown!Expire, Grown!OfferSeat, Grown!LoadMailed, Grown!StoreMailed,
         Grown!ReadInvite, Grown!CloseInvite, Grown!AcceptReads, Grown!TakeSeat, Grown!Accepted,
         Grown!ReadOwner, Grown!Drop, Grown!Dropped, Grown!ListPaid, Grown!SaveBilling,
         Grown!Continue, Grown!stored, Grown!Pending, Grown!NoStatus, Grown!Begin, Grown!Normalized,
         Grown!FoundFor, Grown!Saving, G!Cardinality, G!IsFiniteSet, G!MapThenSumSet,
         G!MapThenFoldSet, Grown!Cardinality, Grown!IsFiniteSet, Grown!MapThenSumSet,
         Grown!MapThenFoldSet

LEMMA SameLone ==
    /\ G1!Init <=> Lone!Init
    /\ G1!Next <=> Lone!Next
    /\ G1!SeatsEarned <=> Lone!SeatsEarned
    /\ G1!FamilyAssumption => Lone!FamilyAssumption
    /\ G1!NoInvite = Lone!NoInvite /\ G1!Free = Lone!Free
  BY DEF
         G1!Init, G1!Next, G1!SeatsEarned, G1!FamilyAssumption, G1!NoInvite, G1!Free, G1!NoAccount,
         G1!Kinds, G1!Start, G1!Step, G1!Dies, G1!Lapse, G1!PlanChanges, G1!InvitesOf, G1!Keep,
         G1!Billing, G1!Summary, G1!InviteUser, G1!Remove, G1!Accept, G1!Close, G1!Lookup, G1!Load,
         G1!Store, G1!ReadProfile, G1!Find, G1!Ensure, G1!Sync, G1!Clear, G1!ListInvites, G1!Expire,
         G1!OfferSeat, G1!LoadMailed, G1!StoreMailed, G1!ReadInvite, G1!CloseInvite, G1!AcceptReads,
         G1!TakeSeat, G1!Accepted, G1!ReadOwner, G1!Drop, G1!Dropped, G1!ListPaid, G1!SaveBilling,
         G1!Continue, G1!stored, G1!Pending, G1!NoStatus, G1!Begin, G1!Normalized, G1!FoundFor,
         G1!Saving, Lone!Init, Lone!Next, Lone!SeatsEarned, Lone!FamilyAssumption, Lone!NoInvite,
         Lone!Free, Lone!NoAccount, Lone!Kinds, Lone!Start, Lone!Step, Lone!Dies, Lone!Lapse,
         Lone!PlanChanges, Lone!InvitesOf, Lone!Keep, Lone!Billing, Lone!Summary, Lone!InviteUser,
         Lone!Remove, Lone!Accept, Lone!Close, Lone!Lookup, Lone!Load, Lone!Store, Lone!ReadProfile,
         Lone!Find, Lone!Ensure, Lone!Sync, Lone!Clear, Lone!ListInvites, Lone!Expire,
         Lone!OfferSeat, Lone!LoadMailed, Lone!StoreMailed, Lone!ReadInvite, Lone!CloseInvite,
         Lone!AcceptReads, Lone!TakeSeat, Lone!Accepted, Lone!ReadOwner, Lone!Drop, Lone!Dropped,
         Lone!ListPaid, Lone!SaveBilling, Lone!Continue, Lone!stored, Lone!Pending, Lone!NoStatus,
         Lone!Begin, Lone!Normalized, Lone!FoundFor, Lone!Saving, G1!Cardinality, G1!IsFiniteSet,
         G1!MapThenSumSet, G1!MapThenFoldSet, Lone!Cardinality, Lone!IsFiniteSet,
         Lone!MapThenSumSet, Lone!MapThenFoldSet

LEMMA SamePaid ==
    /\ G2!Init <=> Paid!Init
    /\ G2!Next <=> Paid!Next
    /\ G2!SeatsEarned <=> Paid!SeatsEarned
    /\ G2!FamilyAssumption => Paid!FamilyAssumption
    /\ G2!NoInvite = Paid!NoInvite /\ G2!Free = Paid!Free
  BY DEF
         G2!Init, G2!Next, G2!SeatsEarned, G2!FamilyAssumption, G2!NoInvite, G2!Free, G2!NoAccount,
         G2!Kinds, G2!Start, G2!Step, G2!Dies, G2!Lapse, G2!PlanChanges, G2!InvitesOf, G2!Keep,
         G2!Billing, G2!Summary, G2!InviteUser, G2!Remove, G2!Accept, G2!Close, G2!Lookup, G2!Load,
         G2!Store, G2!ReadProfile, G2!Find, G2!Ensure, G2!Sync, G2!Clear, G2!ListInvites, G2!Expire,
         G2!OfferSeat, G2!LoadMailed, G2!StoreMailed, G2!ReadInvite, G2!CloseInvite, G2!AcceptReads,
         G2!TakeSeat, G2!Accepted, G2!ReadOwner, G2!Drop, G2!Dropped, G2!ListPaid, G2!SaveBilling,
         G2!Continue, G2!stored, G2!Pending, G2!NoStatus, G2!Begin, G2!Normalized, G2!FoundFor,
         G2!Saving, Paid!Init, Paid!Next, Paid!SeatsEarned, Paid!FamilyAssumption, Paid!NoInvite,
         Paid!Free, Paid!NoAccount, Paid!Kinds, Paid!Start, Paid!Step, Paid!Dies, Paid!Lapse,
         Paid!PlanChanges, Paid!InvitesOf, Paid!Keep, Paid!Billing, Paid!Summary, Paid!InviteUser,
         Paid!Remove, Paid!Accept, Paid!Close, Paid!Lookup, Paid!Load, Paid!Store, Paid!ReadProfile,
         Paid!Find, Paid!Ensure, Paid!Sync, Paid!Clear, Paid!ListInvites, Paid!Expire,
         Paid!OfferSeat, Paid!LoadMailed, Paid!StoreMailed, Paid!ReadInvite, Paid!CloseInvite,
         Paid!AcceptReads, Paid!TakeSeat, Paid!Accepted, Paid!ReadOwner, Paid!Drop, Paid!Dropped,
         Paid!ListPaid, Paid!SaveBilling, Paid!Continue, Paid!stored, Paid!Pending, Paid!NoStatus,
         Paid!Begin, Paid!Normalized, Paid!FoundFor, Paid!Saving, G2!Cardinality, G2!IsFiniteSet,
         G2!MapThenSumSet, G2!MapThenFoldSet, Paid!Cardinality, Paid!IsFiniteSet,
         Paid!MapThenSumSet, Paid!MapThenFoldSet

FamilyPart ==
    /\ part = "family" => Grown!FamilyInv
    /\ part = "owners" => Paid!FamilyInv
    /\ part = "member" => Lone!FamilyInv

\* The account that has been provisioned is one that FamilyAccountsProofs begins with.
LEMMA ProvisionedStarts == Provisioned => Grown!FamilyInv
<1>. SUFFICES ASSUME Provisioned PROVE Grown!FamilyInv
    OBVIOUS
<1>1. /\ x1 = [b \in {1} |-> IF b = 1 THEN [owner |-> 1, members |-> {1}, status |-> "active"] ELSE Grown!NoAccount]
      /\ x7 = [b \in {1} |-> IF b = 1 THEN 1 ELSE None]
    BY DEF Provisioned
<1>2. /\ x4 = [v \in {1} \cup Item |-> IF v = 1 THEN 1 ELSE None] /\ x2 = [i \in {1, 2} |-> Grown!NoInvite]
      /\ x6 = [h \in Slot |-> Grown!Free]
      /\ x3 \in [{1} \cup Item -> BOOLEAN] /\ x5 \subseteq {1} \cup Item /\ x8 = {}
    BY SameGrown DEF Provisioned
<1>3. Grown!FamilyAssumption
    BY SameGrown, ServicesAssumption DEF ServicesAssumption
<1>. QED
    BY <1>1, <1>2, <1>3, Grown!ProvisionedFamily

LEMMA FamilyBegins == Init => FamilyPart
<1>1. ASSUME Init, part = "family" PROVE Grown!FamilyInv
  <2>1. Provisioned
      BY <1>1, Zenon DEF Init
  <2>. QED
      BY <2>1, ProvisionedStarts
<1>2. ASSUME Init, part = "owners" PROVE Paid!FamilyInv
  <2>1. G2!Init
      BY <1>2, Zenon DEF Init
  <2>. QED
      BY <2>1, SamePaid, ServicesAssumption, Paid!InitFamily DEF ServicesAssumption
<1>3. ASSUME Init, part = "member" PROVE Lone!FamilyInv
  <2>1. G1!Init
      BY <1>3, Zenon DEF Init
  <2>. QED
      BY <2>1, SameLone, ServicesAssumption, Lone!InitFamily DEF ServicesAssumption
<1>. QED
    BY <1>1, <1>2, <1>3 DEF FamilyPart

LEMMA FamilyStays == FamilyPart /\ [Next]_vars => FamilyPart'
<1>1. ASSUME FamilyPart, [Next]_vars, part' = "family" PROVE Grown!FamilyInv'
  <2>1. part = "family" /\ (G!Next \/ UNCHANGED Grown!vars)
      BY <1>1 DEF Next, vars, Grown!vars, Grown!stored
  <2>. QED
      BY <1>1, <2>1, SameGrown, ServicesAssumption, Grown!StepFamily DEF ServicesAssumption, FamilyPart
<1>2. ASSUME FamilyPart, [Next]_vars, part' = "owners" PROVE Paid!FamilyInv'
  <2>1. part = "owners" /\ (G2!Next \/ UNCHANGED Paid!vars)
      BY <1>2 DEF Next, vars, Paid!vars, Paid!stored
  <2>. QED
      BY <1>2, <2>1, SamePaid, ServicesAssumption, Paid!StepFamily DEF ServicesAssumption, FamilyPart
<1>3. ASSUME FamilyPart, [Next]_vars, part' = "member" PROVE Lone!FamilyInv'
  <2>1. part = "member" /\ (G1!Next \/ UNCHANGED Lone!vars)
      BY <1>3 DEF Next, vars, Lone!vars, Lone!stored
  <2>. QED
      BY <1>3, <2>1, SameLone, ServicesAssumption, Lone!StepFamily DEF ServicesAssumption, FamilyPart
<1>. QED
    BY <1>1, <1>2, <1>3 DEF FamilyPart

\* Whatever requests of owners, members and webhooks overlap, the members of a family fit its
\* seats while it keeps its owner, and each was invited to this account or was there when it
\* was made (api/stripe/_family-store.js).
THEOREM FamilySeatsAreEarned == Spec => []SeatsEarned
<1>1. FamilyPart => SeatsEarned
    BY SameGrown, SameLone, SamePaid, ServicesAssumption, Grown!FairSeats, Lone!FairSeats, Paid!FairSeats
       DEF ServicesAssumption, FamilyPart, SeatsEarned
<1>. QED
    BY <1>1, FamilyBegins, FamilyStays, PTL DEF Spec

=============================================================================
