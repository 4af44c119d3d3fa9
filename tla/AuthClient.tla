----------------------------- MODULE AuthClient ------------------------------
(****************************************************************************)
(* Signing in and out: the page's copy of the session (src/auth/client.js)  *)
(* and the session cookie the server sets (api/auth/_handlers.js,           *)
(* _session.js).  The server keeps nothing: the cookie is the session, so   *)
(* an answer is decided by the cookie its request carried, and the cookie   *)
(* it sets is stored when it arrives.  Several parts of a page read the     *)
(* session while another signs in or out.  Guests are numbered in the order *)
(* the server makes them.                                                   *)
(****************************************************************************)
EXTENDS Naturals

CONSTANTS
  Call,             \* the calls that may be under way at once
  Redirect,         \* the one that finishes a sign-in that left the page
  Google, None,     \* the account; no session yet
  MaxCalls, MaxLoads  \* bounds: calls made, times the page is loaded
AuthClientAssumption ==
  /\ Redirect \notin Call /\ Google # None /\ {Google, None} \cap Nat = {}
  /\ {MaxCalls, MaxLoads} \subseteq Nat

VARIABLES
  jar,        \* whether the browser keeps the site's cookies
  cookie,     \* the session in it, or None
  guests,     \* guest sessions made
  user,       \* Firebase knows the user in this browser
  left,       \* the page was left to sign in and the result is not read yet
  sdk,        \* Firebase is loaded in the page
  redirect,   \* redirectResultPromise: "unasked", "asking", "empty" or "account"
  cached, revision,  \* cachedSession, sessionRevision
  shown,      \* the session the account panel was given last
  calls,      \* where each call is, the revision it began at, the answer on its way
  made, loads
vars == <<jar, cookie, guests, user, left, sdk, redirect, cached, revision, shown, calls, made, loads>>

Flow == Call \cup {Redirect}
Session == {None, Google} \cup Nat
Idle == [at |-> "idle", observed |-> 0, answer |-> None, isNew |-> FALSE]
Places == {"idle", "redirect", "session", "firebase", "popup", "login", "readback", "logout"}

Init ==
  /\ jar \in BOOLEAN /\ cookie = None /\ guests = 0 /\ user = FALSE /\ left = FALSE
  /\ sdk = FALSE /\ redirect = "unasked" /\ cached = None /\ revision = 0 /\ shown = None
  /\ calls = [c \in Flow |-> Idle] /\ made = 0 /\ loads = 1

AuthClientTypeOK ==
  /\ {jar, user, left, sdk} \subseteq BOOLEAN /\ guests \in Nat
  /\ {cookie, cached, shown} \subseteq Session
  /\ redirect \in {"unasked", "asking", "empty", "account"} /\ revision \in Nat
  /\ calls \in [Flow -> [at : Places \cup {"result"}, observed : Nat, answer : Session, isNew : BOOLEAN]]

\* handleSession, ensureSession: the cookie's session, or a new guest.
ensureSession(held) == IF held = None THEN guests + 1 ELSE held

\* readServerSession, sent with the cookie held: the call c waits at its answer.
ReadsSession(c, at, held) ==
  /\ calls' = [calls EXCEPT ![c].at = at, ![c].answer = ensureSession(held), ![c].isNew = held = None]
  /\ guests' = IF held = None THEN guests + 1 ELSE guests

\* createSession, serializeCookie: the cookie once c's answer has come.
Kept(c) == IF jar /\ calls[c].isNew THEN calls[c].answer ELSE cookie

Ends(c) == calls' = [calls EXCEPT ![c] = Idle]

\* emitSession
Emits(session, authoritative) ==
  /\ cached' = session /\ shown' = session
  /\ revision' = IF authoritative THEN revision + 1 ELSE revision

\* What a superseded read returns: the session cached since.
Returns(session) == shown' = session /\ UNCHANGED <<cached, revision>>

\* fetchAuthSession, forced or with nothing fresh in the cache (a fresh session is
\* returned and nothing changes), to its await of finalizeRedirectSignIn.
Fetch(c) ==
  /\ calls[c].at = "idle" /\ made < MaxCalls /\ made' = made + 1
  /\ calls' = [calls EXCEPT ![c] = [Idle EXCEPT !.at = "redirect", !.observed = revision],
                            ![Redirect].at = IF redirect = "unasked" THEN "result" ELSE @]
  /\ redirect' = IF redirect = "unasked" THEN "asking" ELSE redirect
  /\ UNCHANGED <<jar, cookie, guests, user, left, sdk, cached, revision, shown, loads>>

\* finalizeRedirectSignIn: the result of the sign-in that left the page, if there is
\* one and Firebase can be loaded.  Either way the promise is kept.
Result ==
  /\ calls[Redirect].at = "result"
  /\ \/ /\ left /\ left' = FALSE /\ user' = TRUE /\ sdk' = TRUE
        /\ calls' = [calls EXCEPT ![Redirect] = [Idle EXCEPT !.at = "login"]]
        /\ UNCHANGED redirect
     \/ /\ ~left /\ sdk' = TRUE /\ redirect' = "empty" /\ Ends(Redirect)
        /\ UNCHANGED <<left, user>>
     \/ /\ ~sdk /\ redirect' = "empty" /\ Ends(Redirect) /\ UNCHANGED <<left, user, sdk>>
  /\ UNCHANGED <<jar, cookie, guests, cached, revision, shown, made, loads>>

\* The rest of fetchAuthSession, to its request.
Resume(c) ==
  /\ calls[c].at = "redirect" /\ redirect \in {"empty", "account"}
  /\ \/ redirect = "account" /\ Returns(Google) /\ Ends(c) /\ UNCHANGED guests
     \/ /\ redirect = "empty" /\ revision # calls[c].observed /\ cached # None
        /\ Returns(cached) /\ Ends(c) /\ UNCHANGED guests
     \/ /\ redirect = "empty" /\ (revision = calls[c].observed \/ cached = None)
        /\ ReadsSession(c, "session", cookie) /\ UNCHANGED <<cached, revision, shown>>
  /\ UNCHANGED <<jar, cookie, user, left, sdk, redirect, made, loads>>

\* Mutant: the session read is believed whatever has happened meanwhile.
SupersededNever(c) == FALSE

Superseded(c) == revision # calls[c].observed /\ cached # None

\* fetchAuthSession, once the server has answered.
Read(c) ==
  /\ calls[c].at = "session" /\ cookie' = Kept(c)
  /\ \/ Superseded(c) /\ Returns(cached) /\ Ends(c)
     \/ /\ ~Superseded(c) /\ calls[c].answer = Google /\ Emits(Google, FALSE) /\ Ends(c)
     \/ /\ ~Superseded(c) /\ calls[c].answer # Google
        /\ calls' = [calls EXCEPT ![c].at = "firebase"] /\ UNCHANGED <<cached, revision, shown>>
  /\ UNCHANGED <<jar, guests, user, left, sdk, redirect, made, loads>>

\* fetchAuthSession, once Firebase has said whether it knows the user, or could not load.
Ready(c) ==
  /\ calls[c].at = "firebase"
  /\ \/ /\ user /\ sdk' = TRUE /\ calls' = [calls EXCEPT ![c].at = "login"]
        /\ UNCHANGED <<cached, revision, shown>>
     \/ /\ \/ ~user /\ sdk' = TRUE
           \/ ~sdk /\ UNCHANGED sdk
        /\ Emits(calls[c].answer, FALSE) /\ Ends(c)
  /\ UNCHANGED <<jar, cookie, guests, user, left, redirect, made, loads>>

\* exchangeFirebaseUser, handleGoogleLogin: the account's cookie comes back and the
\* session is read again.
Login(c) ==
  /\ calls[c].at = "login"
  /\ LET held == IF jar THEN Google ELSE cookie
     IN  cookie' = held /\ ReadsSession(c, "readback", held)
  /\ UNCHANGED <<jar, user, left, sdk, redirect, cached, revision, shown, made, loads>>

\* Mutant: the account is announced without looking whether the browser kept it.
RetainedAlways(c) == TRUE

Retained(c) == calls[c].answer = Google

\* exchangeFirebaseUser, once the session has been read back.
ReadBack(c) ==
  /\ calls[c].at = "readback" /\ cookie' = Kept(c) /\ Ends(c)
  /\ \/ Retained(c) /\ Emits(Google, TRUE)
        /\ redirect' = IF c = Redirect THEN "account" ELSE redirect
     \/ ~Retained(c) /\ UNCHANGED <<cached, revision, shown>>
        /\ redirect' = IF c = Redirect THEN "empty" ELSE redirect
  /\ UNCHANGED <<jar, guests, user, left, sdk, made, loads>>

\* signInWithGoogle, to the pop-up.
SignIn(c) ==
  /\ calls[c].at = "idle" /\ made < MaxCalls /\ made' = made + 1 /\ sdk' = TRUE
  /\ calls' = [calls EXCEPT ![c] = [Idle EXCEPT !.at = "popup"]]
  /\ UNCHANGED <<jar, cookie, guests, user, left, redirect, cached, revision, shown, loads>>

\* The pop-up answers or is closed.
Popup(c) ==
  /\ calls[c].at = "popup"
  /\ \/ user' = TRUE /\ calls' = [calls EXCEPT ![c].at = "login"]
     \/ Ends(c) /\ UNCHANGED user
  /\ UNCHANGED <<jar, cookie, guests, left, sdk, redirect, cached, revision, shown, made, loads>>

\* The page is loaded again, or left for the provider's because the pop-up is blocked
\* (shouldUseRedirectFallback): what it had under way is lost.
Load ==
  /\ loads < MaxLoads /\ loads' = loads + 1
  /\ \/ \E c \in Call : calls[c].at = "popup" /\ left' = TRUE
     \/ UNCHANGED left
  /\ calls' = [c \in Flow |-> Idle] /\ sdk' = FALSE /\ redirect' = "unasked"
  /\ cached' = None /\ revision' = 0 /\ shown' = None
  /\ UNCHANGED <<jar, cookie, guests, user, made>>

\* signOutFromApp, to its request; Firebase may be out of reach, and the app's own
\* session is closed all the same.
SignOut(c) ==
  /\ calls[c].at = "idle" /\ cached = Google /\ made < MaxCalls /\ made' = made + 1
  /\ \/ user' = FALSE /\ sdk' = TRUE
     \/ UNCHANGED <<user, sdk>>
  /\ guests' = guests + 1
  /\ calls' = [calls EXCEPT ![c] = [Idle EXCEPT !.at = "logout", !.answer = guests + 1, !.isNew = TRUE]]
  /\ UNCHANGED <<jar, cookie, left, redirect, cached, revision, shown, loads>>

\* handleLogout: clearSession, createSession; the page forgets the account.
SignedOut(c) ==
  /\ calls[c].at = "logout" /\ cookie' = Kept(c) /\ Ends(c) /\ Emits(calls[c].answer, TRUE)
  /\ UNCHANGED <<jar, guests, user, left, sdk, redirect, made, loads>>

\* A request is lost: the call is rejected.
Fails(c) ==
  /\ calls[c].at \in {"session", "login", "readback", "logout"} /\ Ends(c)
  /\ redirect' = IF c = Redirect THEN "empty" ELSE redirect
  /\ UNCHANGED <<jar, cookie, guests, user, left, sdk, cached, revision, shown, made, loads>>

Next ==
  \/ \E c \in Call : Fetch(c)
  \/ \E c \in Call : Resume(c)
  \/ \E c \in Call : Read(c)
  \/ \E c \in Call : Ready(c)
  \/ \E c \in Call : SignIn(c)
  \/ \E c \in Call : Popup(c)
  \/ \E c \in Call : SignOut(c)
  \/ \E c \in Call : SignedOut(c)
  \/ \E c \in Flow : Login(c)
  \/ \E c \in Flow : ReadBack(c)
  \/ \E c \in Flow : Fails(c)
  \/ Result
  \/ Load

Spec == Init /\ [][Next]_vars

\* A browser that does not keep the site's cookies is never told that it is signed in
\* (exchangeFirebaseUser; tests/auth-client.integration.test.mjs:87).
AccountRetained == ~jar => cached # Google

\* Once the user has signed out, a reading of the session that began before does not
\* sign the page in again: only one begun since, or a sign-in, does (of every step).
SignOutStands ==
  (cached # Google /\ cached' = Google /\ revision' = revision) =>
     \E c \in Call : /\ calls[c].at = "session" /\ calls'[c].at = "idle"
                     /\ calls[c].observed = revision

\* Not so: what the panel is given is the session cached.  A sign-in that came back by
\* redirect is returned to every later call, after a sign-out too.
PanelShowsCached == calls = [c \in Flow |-> Idle] => shown = cached
\* Not so: when nothing is under way the page and its cookie agree.
CookieAgrees == jar /\ calls = [c \in Flow |-> Idle] /\ cached # None => (cached = Google <=> cookie = Google)
=============================================================================
