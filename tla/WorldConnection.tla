--------------------------- MODULE WorldConnection ---------------------------
(****************************************************************************)
(* The connection of a club world page (clubpenguin-world/public/client.js):*)
(* one socket, the timer of the next attempt, switching to another server,  *)
(* and the health checks that run while a socket is open.  Closing a socket *)
(* ends it later: its close event comes when the page may have another one. *)
(****************************************************************************)
EXTENDS Integers, FiniteSets

CONSTANTS Sock, Server, Local, None, MaxSwitches, MaxChecks  \* the last two are bounds
WorldConnectionAssumption ==
  Local \in Server /\ None \notin Server \cup Sock /\ {MaxSwitches, MaxChecks} \subseteq Nat

VARIABLES
  socket,     \* each socket: where it leads and how far it is
  ws,         \* the socket the page uses, or None
  connected, catalog,  \* the page is connected, and has the phrases of its room
  endpoint,   \* the server the player named, or None
  active,     \* the server the last socket was made for
  timer, awaiting,     \* another attempt is scheduled; a server must be named first
  suppress,   \* suppressNextCloseReconnect
  monitor, checks, seq,  \* the interval, the checks under way and the number of the last one
  health,     \* what is shown of the server, and which server it was asked of
  default,    \* the server of a page whose player named none
  switches
vars == <<socket, ws, connected, catalog, endpoint, active, timer, awaiting, suppress, monitor,
          checks, seq, health, default, switches>>

Unused == [to |-> None, at |-> "unused"]
currentWsUrl == IF endpoint = None THEN default ELSE endpoint
Living(s) == socket[s].at \in {"connecting", "open"}

\* What connectSocket sets: the page has a new socket, on its way to the server `to`.
connectSocket(to, sockets) ==
  \E s \in {t \in Sock : sockets[t].at = "unused"} :
    /\ socket' = [sockets EXCEPT ![s] = [to |-> to, at |-> "connecting"]]
    /\ ws' = s /\ active' = to /\ catalog' = FALSE

Shows(what) == health' = [shown |-> what, of |-> active']

\* The page is loaded with the stored server, or with one of its address.
Init ==
  /\ default \in Server /\ endpoint \in Server \cup {None}
  /\ \E s \in Sock : ws = s /\ socket = [t \in Sock |->
        IF t = s THEN [to |-> currentWsUrl, at |-> "connecting"] ELSE Unused]
  /\ active = currentWsUrl /\ connected = FALSE /\ catalog = FALSE
  /\ timer = FALSE /\ awaiting = FALSE /\ suppress = FALSE
  /\ monitor = FALSE /\ checks = {} /\ seq = 0 /\ switches = 0
  /\ health = [shown |-> "socket", of |-> currentWsUrl]

\* A check is started: the ones before it no longer count.
Checks ==
  /\ seq' = seq + 1 /\ checks' = checks \cup {[n |-> seq + 1, of |-> active']}
  /\ health' = [shown |-> "checking", of |-> active']

\* The open event.  A socket the page has replaced is left alone.
Opens(s) ==
  /\ socket[s].at = "connecting" /\ seq < MaxChecks
  /\ socket' = [socket EXCEPT ![s].at = "open"]
  /\ UNCHANGED <<ws, catalog, endpoint, active, timer, suppress, default, switches>>
  /\ IF s # ws THEN UNCHANGED <<connected, awaiting, monitor, checks, seq, health>>
     ELSE connected' = TRUE /\ awaiting' = FALSE /\ monitor' = TRUE /\ Checks

\* The world of the page's room arrives, and with it the phrases it may say.
WorldInit(s) ==
  /\ socket[s].at = "open" /\ s = ws /\ ~catalog /\ catalog' = TRUE
  /\ UNCHANGED <<socket, ws, connected, endpoint, active, timer, awaiting, suppress, monitor, checks,
                 seq, health, default, switches>>

\* Mutant: every page whose socket never opened asks for a server.
GivesUpAlways(s) == socket[s].at # "open"

\* Without a server of its own, a page whose socket never opened asks for one.
GivesUp(s) == socket[s].at # "open" /\ endpoint = None /\ currentWsUrl = Local

\* Mutant: a page whose socket never opened does not try again.
TriesOpenedAgain(s) == ~suppress /\ socket[s].at = "open"

\* The next attempt is scheduled: a hosted server may still be starting.
TriesAgain(s) == ~suppress /\ ~GivesUp(s)

\* The close event of the page's socket, and of one it has replaced.
Closes(s) ==
  /\ Living(s) \/ socket[s].at = "closing"
  /\ socket' = [socket EXCEPT ![s].at = "closed"]
  /\ UNCHANGED <<catalog, endpoint, active, checks, seq, default, switches>>
  /\ IF s # ws THEN UNCHANGED <<ws, connected, timer, awaiting, suppress, monitor, health>>
     ELSE /\ ws' = None /\ connected' = FALSE /\ monitor' = FALSE
          /\ suppress' = FALSE
          /\ awaiting' = (awaiting \/ (~suppress /\ GivesUp(s)))
          /\ timer' = (timer \/ TriesAgain(s))
          /\ Shows(IF suppress THEN "switching" ELSE IF GivesUp(s) THEN "none" ELSE "disconnected")

\* The error event, which a close event follows.
Fails(s) ==
  /\ Living(s) /\ s = ws /\ active' = active /\ Shows("error")
  /\ UNCHANGED <<socket, ws, connected, catalog, endpoint, timer, awaiting, suppress, monitor, checks,
                 seq, default, switches>>

\* The timer of the next attempt.
Retries ==
  /\ timer /\ timer' = FALSE
  /\ IF ws # None
     THEN UNCHANGED <<socket, ws, active, catalog, health>>
     ELSE connectSocket(currentWsUrl, socket) /\ Shows("socket")
  /\ UNCHANGED <<connected, endpoint, awaiting, suppress, monitor, checks, seq, default, switches>>

\* Mutant: the socket in use is left open.
forceReconnectKeeping(to) ==
  /\ timer' = FALSE /\ awaiting' = FALSE /\ monitor' = FALSE /\ connected' = FALSE
  /\ suppress' = (suppress \/ ws # None)
  /\ connectSocket(to, socket)
  /\ Shows("socket")

\* forceReconnectSocket: the socket in use is closed, the next one takes its place.
forceReconnectSocket(to) ==
  /\ timer' = FALSE /\ awaiting' = FALSE /\ monitor' = FALSE /\ connected' = FALSE
  /\ suppress' = (suppress \/ ws # None)
  /\ connectSocket(to, IF ws = None THEN socket ELSE [socket EXCEPT ![ws].at = "closing"])
  /\ Shows("socket")

\* switchServerEndpoint: another server is named, or none.
switchServerEndpoint(to) ==
  /\ switches < MaxSwitches /\ switches' = switches + 1
  /\ endpoint' = to
  /\ forceReconnectSocket(IF to = None THEN default ELSE to)
  /\ UNCHANGED <<checks, seq, default>>

Interval ==
  /\ monitor /\ seq < MaxChecks /\ active' = active /\ Checks
  /\ UNCHANGED <<socket, ws, connected, catalog, endpoint, timer, awaiting, suppress, monitor, default,
                 switches>>

\* Mutant: the answer of any check is shown.
AnswersLate(c) ==
  /\ checks' = checks \ {c} /\ \E what \in {"healthy", "unreachable"} : health' = [shown |-> what, of |-> c.of]
  /\ UNCHANGED <<socket, ws, connected, catalog, endpoint, active, timer, awaiting, suppress, monitor,
                 seq, default, switches>>

\* A check is answered, or times out; an answer counts if no check was started since.
Answers(c) ==
  /\ checks' = checks \ {c}
  /\ IF c.n # seq THEN UNCHANGED health
     ELSE \E what \in {"healthy", "unreachable"} : health' = [shown |-> what, of |-> c.of]
  /\ UNCHANGED <<socket, ws, connected, catalog, endpoint, active, timer, awaiting, suppress, monitor,
                 seq, default, switches>>

Next ==
  \/ \E s \in Sock : Opens(s) \/ WorldInit(s) \/ Closes(s) \/ Fails(s)
  \/ Retries \/ Interval
  \/ \E to \in Server \cup {None} : switchServerEndpoint(to)
  \/ \E c \in checks : Answers(c)

Spec == Init /\ [][Next]_vars

---------------------------------------------------------------------------
WorldConnectionTypeOK ==
  /\ ws \in Sock \cup {None} /\ endpoint \in Server \cup {None} /\ active \in Server
  /\ {connected, catalog, timer, awaiting, suppress, monitor} \subseteq BOOLEAN
  /\ \A s \in Sock : socket[s].at \in {"unused", "connecting", "open", "closing", "closed"}

(* A page has one penguin in the world: no socket but the one it uses is    *)
(* still being opened or open, however often the player has switched.       *)
OneSocket == \A s \in Sock : Living(s) => s = ws

(* The result of a health check that is shown to a connected player is of   *)
(* the server the player is on, whatever checks of an earlier server are    *)
(* still answered.                                                          *)
HealthOfServer ==
  connected /\ health.shown \in {"healthy", "unreachable"} => health.of = socket[ws].to

(* A page that waits for the player to name a server has none to try: it    *)
(* was to use the local default one.                                        *)
AwaitsWithReason == awaiting => ws = None /\ endpoint = None /\ default = Local

\* Nothing will ever connect the page again unless its player does something.
Stranded == ws = None /\ ~timer /\ ~awaiting

(* As long as the server has not been switched, a page that has lost its    *)
(* socket tries again, or asks for a server.                                *)
KeepsTrying == switches = 0 => ~Stranded

(* A page that has lost its socket always tries again or asks for a server. *)
(* It does not: forceReconnectSocket means the next close event to be that  *)
(* of the socket it closes, but the page no longer uses that socket, and    *)
(* what is kept quiet is the loss of the new one.                           *)
WorldReconnects == ~Stranded
=============================================================================
