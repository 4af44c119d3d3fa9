----------------------------- MODULE PartyClient -----------------------------
(****************************************************************************)
(* The connection of a party page: src/net/multiplayerClient.js under       *)
(* party/app.js, and what the server (v2-server/party.go) answers.          *)
(*                                                                          *)
(* A page joins over a socket and is given a seat and a token; it keeps the *)
(* token, and every later socket of the page shows it.  A connection that   *)
(* loses its socket sets a timer and opens another; inputs made meanwhile   *)
(* are kept, up to a limit.  The browser notices that a socket is lost long *)
(* before the server does, which waits for its pings to be answered.  A     *)
(* host's page keeps the seat of the room itself.                           *)
(****************************************************************************)
EXTENDS Integers, FiniteSets, Sequences, SequencesExt

CONSTANTS
  Page, Host,    \* the pages, and those that host (Host \subseteq Page)
  Sock, Token,   \* sockets and tokens that can be made
  None,
  Limit,         \* inputs kept without a socket (32)
  MaxInputs, MaxJoins  \* bounds: inputs of a page, connections of a page

PartyClientAssumption ==
  /\ Host \subseteq Page /\ None \notin Sock \cup Token
  /\ {Limit, MaxInputs, MaxJoins} \subseteq Nat

VARIABLES
  page,     \* the page: its connection, its socket, its token, its inputs
  stored,   \* the token each page has in the browser's storage, or None
  net,      \* each socket, with the messages on their way, or None
  seat,     \* the seats the server knows, by token, or None
  blocked,  \* tokens of players sent away
  asked,    \* joins each page has begun without a token
  lost,     \* of its sockets that had sent such a join, those lost before the answer
  applied   \* the inputs of each page that took effect, as <<connection, number>>
vars == <<page, stored, net, seat, blocked, asked, lost, applied>>
server == <<seat, blocked, applied>>

\* A page that has joined nothing yet.
Landing == [gen |-> 0, role |-> "none", closed |-> TRUE, sock |-> None, timer |-> FALSE,
            token |-> None, seq |-> 0, pending |-> <<>>, view |-> "landing"]

Init ==
  /\ page = [p \in Page |-> Landing] /\ stored = [p \in Page |-> None]
  /\ net = [s \in Sock |-> None] /\ seat = [t \in Token |-> None] /\ blocked = {}
  /\ asked = [p \in Page |-> 0] /\ lost = [p \in Page |-> 0]
  /\ applied = [p \in Page |-> <<>>]

Roles(p) == IF p \in Host THEN {"host"} ELSE {"player", "audience"}
Seated(p) == {t \in Token : seat[t] # None /\ seat[t].page = p}
Made(s) == net[s] # None
Alive(s) == Made(s) /\ net[s].client # "gone"

---------------------------------------------------------------------------
(* The connection.                                                          *)

\* connectSocket makes a socket.
NewSocket(p) == [page |-> p, client |-> "connecting", server |-> "up", up |-> <<>>, down |-> <<>>,
                 late |-> FALSE, waits |-> FALSE]

\* The sockets when the page lets go of its socket: what it had sent arrives.
Let(s) == IF s = None THEN net ELSE [net EXCEPT ![s].client = "gone", ![s].down = <<>>, ![s].waits = FALSE]

\* The page's socket has sent a join without a token, and no answer has been heard.
Unanswered(p) == page[p].sock # None /\ net[page[p].sock].waits

\* joinParty, connectSessionScreen: the old connection is disconnected and another
\* made; t is the token it shows.
JoinWith(p, role, t, s) ==
  /\ page[p].gen < MaxJoins /\ ~Made(s)
  /\ page' = [page EXCEPT ![p] = [Landing EXCEPT !.gen = page[p].gen + 1, !.role = role,
                !.closed = FALSE, !.sock = s, !.token = t, !.view = "landing"]]
  /\ net' = [Let(page[p].sock) EXCEPT ![s] = NewSocket(p)]
  /\ asked' = IF t = None THEN [asked EXCEPT ![p] = @ + 1] ELSE asked
  /\ lost' = IF Unanswered(p) THEN [lost EXCEPT ![p] = @ + 1] ELSE lost

\* The form is sent; it shows no token.
Submit(p, role, s) ==
  /\ page[p].view = "landing" /\ role \in Roles(p) /\ JoinWith(p, role, None, s)
  /\ UNCHANGED <<stored, server>>

\* A page that is loaded finds a token: a host's for its room, a player's, and not the
\* one of a member of the audience.
Finds(p) ==
  stored[p] # None /\ (p \in Host \/ seat[stored[p]] = None \/ seat[stored[p]].role = "player")

\* The page is loaded again; with a token in its storage it joins by itself.
Reload(p, s) ==
  /\ page[p].gen > 0
  /\ IF Finds(p)
     THEN JoinWith(p, IF p \in Host THEN "host" ELSE "player", stored[p], s)
     ELSE /\ page' = [page EXCEPT ![p] = [Landing EXCEPT !.gen = page[p].gen]]
          /\ net' = Let(page[p].sock)
          /\ lost' = IF Unanswered(p) THEN [lost EXCEPT ![p] = @ + 1] ELSE lost
          /\ UNCHANGED asked
  /\ UNCHANGED <<stored, server>>

Join(p) == [type |-> "join", role |-> page[p].role, token |-> page[p].token]
Inputs(p) == [i \in 1 .. Len(page[p].pending) |->
                [type |-> "input", gen |-> page[p].gen, seq |-> page[p].pending[i]]]

\* Mutant: the inputs that were kept are sent, and kept.
OpensAgain(s) ==
  /\ Made(s) /\ net[s].client = "connecting"
  /\ LET p == net[s].page IN
     net' = [net EXCEPT ![s].client = "open", ![s].up = <<Join(p)>> \o Inputs(p),
                            ![s].waits = page[p].token = None]
  /\ UNCHANGED <<page, stored, server, asked, lost>>

\* The socket opens: the join is sent, and then the inputs that were kept.
Opens(s) ==
  /\ Made(s) /\ net[s].client = "connecting"
  /\ LET p == net[s].page IN
     /\ net' = [net EXCEPT ![s].client = "open", ![s].up = <<Join(p)>> \o Inputs(p),
                            ![s].waits = page[p].token = None]
     /\ page' = [page EXCEPT ![p].pending = <<>>]
  /\ UNCHANGED <<stored, server, asked, lost>>

\* Mutant: nothing is done about a socket that is lost.
GoneQuietly(p) == [page EXCEPT ![p].sock = None]

\* The close event: another attempt is put on the timer.
Gone(p) == [page EXCEPT ![p].sock = None, ![p].timer = TRUE]

\* The socket does not open in time, or the network is lost; what was sent may have
\* arrived, what comes back has not.
Lose(s) ==
  /\ Alive(s)
  /\ LET p == net[s].page IN
     /\ page' = Gone(p)
     /\ lost' = IF Unanswered(p) THEN [lost EXCEPT ![p] = @ + 1] ELSE lost
  /\ \E arrived \in {<<>>, net[s].up} :
       net' = [net EXCEPT ![s].client = "gone", ![s].down = <<>>, ![s].up = arrived,
                           ![s].waits = FALSE]
  /\ UNCHANGED <<stored, server, asked>>

\* The timer fires: a new socket of the same connection.
Again(p, s) ==
  /\ page[p].timer /\ ~Made(s)
  /\ page' = [page EXCEPT ![p].timer = FALSE, ![p].sock = s]
  /\ net' = [net EXCEPT ![s] = NewSocket(p)]
  /\ UNCHANGED <<stored, server, asked, lost>>

\* sendInput: sent, or kept; of more than the limit the oldest is dropped.
Input(p) ==
  /\ page[p].view = "controller" /\ ~page[p].closed /\ page[p].seq < MaxInputs
  /\ LET n == page[p].seq + 1
         s == page[p].sock
         open == s # None /\ net[s].client = "open"
         kept == Append(page[p].pending, n)
     IN IF open
        THEN /\ page' = [page EXCEPT ![p].seq = n]
             /\ net' = [net EXCEPT ![s].up = Append(@, [type |-> "input", gen |-> page[p].gen,
                                                        seq |-> n])]
        ELSE /\ page' = [page EXCEPT ![p].seq = n,
                           ![p].pending = IF Len(kept) > Limit THEN Tail(kept) ELSE kept]
             /\ UNCHANGED net
  /\ UNCHANGED <<stored, server, asked, lost>>

---------------------------------------------------------------------------
(* The server: handlePartyJoin, applyInput, kick, removeClient.             *)

Answer(s, m) == net' = [net EXCEPT ![s].up = Tail(@), ![s].down = IF net[s].client = "gone"
                                                          THEN <<>> ELSE Append(@, m)]
Error(code) == [type |-> "error", code |-> code, token |-> None]
Welcome(t) == [type |-> "welcome", code |-> "", token |-> t]

\* A seat is taken by another socket, its last one can do nothing any more; and a
\* socket that the page has left may be late to do so.
Take(t, s, m) ==
  /\ seat' = [seat EXCEPT ![t].sock = s, ![t].last = 0]
  /\ net' = [net EXCEPT ![s].up = Tail(@), ![s].late = net[s].client = "gone",
                        ![s].down = IF net[s].client = "gone" THEN <<>> ELSE Append(@, m)]

\* attachHost, attachPlayer, attachAudience.
ServeJoin(s) ==
  LET m == Head(net[s].up)
      t == m.token
  IN  /\ Made(s) /\ net[s].server = "up" /\ net[s].up # <<>> /\ m.type = "join"
      /\ \/ /\ t = None
            /\ \/ \E u \in {x \in Token \ blocked : seat[x] = None} :
                    /\ seat' = [seat EXCEPT ![u] = [page |-> net[s].page, role |-> m.role,
                                                    sock |-> s, last |-> 0]]
                    /\ Answer(s, Welcome(u))
               \/ Answer(s, Error("refused")) /\ UNCHANGED seat
         \/ /\ t # None /\ t \in blocked
            /\ Answer(s, Error("removed_from_room")) /\ UNCHANGED seat
         \/ /\ t # None /\ t \notin blocked /\ seat[t] = None
            /\ Answer(s, Error("invalid_token")) /\ UNCHANGED seat
         \/ /\ t # None /\ seat[t] # None
            /\ IF m.role = "host" /\ seat[t].sock \notin {None, s}
               THEN Answer(s, Error("host_exists")) /\ UNCHANGED seat
               ELSE Take(t, s, Welcome(t))
      /\ UNCHANGED <<page, stored, blocked, asked, lost, applied>>

\* An input counts when its socket holds the seat and its number is new.
ServeInput(s) ==
  LET m == Head(net[s].up)
      mine == {t \in Token : seat[t] # None /\ seat[t].sock = s}
  IN  /\ Made(s) /\ net[s].server = "up" /\ net[s].up # <<>> /\ m.type = "input"
      /\ IF \E t \in mine : m.seq > seat[t].last
         THEN /\ seat' = [t \in Token |-> IF t \in mine THEN [seat[t] EXCEPT !.last = m.seq] ELSE seat[t]]
              /\ applied' = [applied EXCEPT ![net[s].page] = Append(@, <<m.gen, m.seq>>)]
         ELSE UNCHANGED <<seat, applied>>
      /\ net' = [net EXCEPT ![s].up = Tail(@)]
      /\ UNCHANGED <<page, stored, blocked, asked, lost>>

\* The server notices that the other side is gone.
Notice(s) ==
  /\ Made(s) /\ net[s].client = "gone" /\ net[s].server = "up" /\ net[s].up = <<>>
  /\ net' = [net EXCEPT ![s].server = "gone"]
  /\ seat' = [t \in Token |-> IF seat[t] # None /\ seat[t].sock = s
                              THEN [seat[t] EXCEPT !.sock = None] ELSE seat[t]]
  /\ UNCHANGED <<page, stored, blocked, asked, lost, applied>>

\* The host sends a player away.
Kick(t) ==
  /\ seat[t] # None /\ seat[t].role = "player"
  /\ blocked' = blocked \cup {t} /\ seat' = [seat EXCEPT ![t] = None]
  /\ LET s == seat[t].sock IN
     net' = IF s # None /\ net[s].client # "gone"
            THEN [net EXCEPT ![s].down = Append(@, Error("removed_from_room"))] ELSE net
  /\ UNCHANGED <<page, stored, asked, lost, applied>>

\* The server starts again from a snapshot that is older than the seat.
Forget(t) ==
  /\ seat[t] # None /\ seat[t].role # "host"
  /\ seat' = [x \in Token |-> IF x = t \/ seat[x] = None THEN None ELSE [seat[x] EXCEPT !.sock = None]]
  /\ net' = [s \in Sock |-> IF Made(s) THEN [net[s] EXCEPT !.client = "gone", !.server = "gone",
                                             !.up = <<>>, !.down = <<>>, !.waits = FALSE] ELSE None]
  /\ page' = [p \in Page |-> IF page[p].sock # None
                             THEN [page[p] EXCEPT !.sock = None, !.timer = TRUE] ELSE page[p]]
  /\ lost' = [p \in Page |-> lost[p] + (IF Unanswered(p) THEN 1 ELSE 0)]
  /\ UNCHANGED <<stored, blocked, asked, applied>>

---------------------------------------------------------------------------
(* The page hears from the server: handleMessage and handleEvent.           *)

Hears(s, type) == Alive(s) /\ net[s].down # <<>> /\ Head(net[s].down).type = type
Heard(s) == [net EXCEPT ![s].down = Tail(@), ![s].waits = FALSE]

\* Mutant: the connection does not keep the token it is given.
WelcomedBriefly(s) ==
  /\ Hears(s, "welcome")
  /\ LET p == net[s].page IN
     /\ page' = [page EXCEPT ![p].view = "controller"]
     /\ stored' = [stored EXCEPT ![p] = Head(net[s].down).token]
  /\ net' = Heard(s) /\ UNCHANGED <<server, asked, lost>>

\* A welcome: the token is kept, by the connection and in the storage.
Welcomed(s) ==
  /\ Hears(s, "welcome")
  /\ LET p == net[s].page
         t == Head(net[s].down).token IN
     /\ page' = [page EXCEPT ![p].token = t, ![p].view = "controller"]
     /\ stored' = [stored EXCEPT ![p] = t]
  /\ net' = Heard(s) /\ UNCHANGED <<server, asked, lost>>

\* The connection is closed for good.
Disconnected(p, view) == [page EXCEPT ![p].closed = TRUE, ![p].sock = None,
                                      ![p].timer = FALSE, ![p].view = view]

\* removed_from_room: the token is forgotten and the connection closed.
Removed(s) ==
  /\ Hears(s, "error") /\ Head(net[s].down).code = "removed_from_room"
  /\ LET p == net[s].page IN
     /\ page' = Disconnected(p, "removed") /\ stored' = [stored EXCEPT ![p] = None]
  /\ net' = Let(s) /\ UNCHANGED <<server, asked, lost>>

\* invalid_player_token: the token is forgotten and the page joins anew, as a player,
\* if a name has been typed; a host's page only forgets, an audience's shows the error.
Invalid(s, other) ==
  /\ Hears(s, "error") /\ Head(net[s].down).code = "invalid_token"
  /\ LET p == net[s].page IN
     CASE page[p].role = "player" ->
            /\ stored' = [stored EXCEPT ![p] = None]
            /\ \/ JoinWith(p, "player", None, other)
               \/ /\ page' = Disconnected(p, page[p].view) /\ net' = Let(s)
                  /\ UNCHANGED <<asked, lost>>
       [] OTHER -> /\ stored' = IF page[p].role = "host" THEN [stored EXCEPT ![p] = None] ELSE stored
                   /\ page' = [page EXCEPT ![p].view = "refused"]
                   /\ net' = Heard(s) /\ UNCHANGED <<asked, lost>>
  /\ UNCHANGED server

\* Any other error is shown.
Refused(s) ==
  /\ Hears(s, "error") /\ Head(net[s].down).code \in {"refused", "host_exists"}
  /\ page' = IF Head(net[s].down).code = "refused"
             THEN [page EXCEPT ![net[s].page].view = "refused"] ELSE page
  /\ net' = Heard(s) /\ UNCHANGED <<stored, server, asked, lost>>

\* The leave button.
Leave(p) ==
  /\ page[p].view = "controller" /\ p \notin Host
  /\ page' = Disconnected(p, "landing") /\ net' = Let(page[p].sock)
  /\ stored' = [stored EXCEPT ![p] = None]
  /\ lost' = IF Unanswered(p) THEN [lost EXCEPT ![p] = @ + 1] ELSE lost
  /\ UNCHANGED <<server, asked>>

Next ==
  \/ \E p \in Page : \/ Input(p) \/ Leave(p)
                     \/ \E s \in Sock : Again(p, s) \/ Reload(p, s)
                     \/ \E s \in Sock, role \in Roles(p) : Submit(p, role, s)
  \/ \E s \in Sock : \/ Opens(s) \/ Lose(s) \/ ServeJoin(s) \/ ServeInput(s) \/ Notice(s)
                     \/ Welcomed(s) \/ Removed(s) \/ Refused(s)
                     \/ \E other \in Sock : Invalid(s, other)
  \/ \E t \in Token : Kick(t) \/ Forget(t)

Spec == Init /\ [][Next]_vars

---------------------------------------------------------------------------
(* Every variable holds what its comment says.                              *)
PartyClientTypeOK ==
  /\ \A p \in Page : /\ page[p].sock \in Sock \cup {None} /\ page[p].token \in Token \cup {None}
                     /\ Len(page[p].pending) <= Limit /\ page[p].gen \in 0 .. MaxJoins
                     /\ page[p].sock # None => net[page[p].sock].page = p
                     /\ stored[p] \in Token \cup {None}
  /\ \A t \in Token : seat[t] # None => seat[t].page \in Page /\ seat[t].sock \in Sock \cup {None}
  /\ blocked \subseteq Token

(* A page takes no more seats than it asked for, but for joins whose answer *)
(* was lost with the socket: a reconnection, a reload and a retry find the  *)
(* seat again (multiplayerClient.js keeps the token of the welcome).        *)
SeatsAccounted ==
  \A p \in Page : Cardinality(Seated(p)) <= asked[p] + lost[p]

\* The page's socket is open and nothing is on its way.
Quiet(p) == LET s == page[p].sock IN
  s # None /\ net[s].client = "open" /\ net[s].up = <<>> /\ net[s].down = <<>>

\* A socket that the page had left was late to join.
Late(p) == \E s \in Sock : Made(s) /\ net[s].page = p /\ net[s].late

(* A connection that nobody closed is never left without a socket and a     *)
(* timer, and when nothing is on its way a player or a member of the        *)
(* audience that was not refused holds its seat - unless a socket the page  *)
(* had left was late to join, and took the seat from the one it has.        *)
NeverStuck ==
  \A p \in Page : page[p].gen > 0 /\ ~page[p].closed =>
    /\ page[p].sock # None \/ page[p].timer
    /\ Quiet(p) /\ p \notin Host /\ page[p].view \in {"landing", "controller"} =>
         Late(p) \/ \E t \in Token : seat[t] # None /\ seat[t].sock = page[p].sock

(* However sockets are lost and found again, no input of a connection takes *)
(* effect twice, and they do so in the order they were made - unless a      *)
(* socket the page had left was late.                                       *)
InputsInOrder ==
  \A p \in Page : \A i, j \in 1 .. Len(applied[p]) :
    i < j /\ applied[p][i][1] = applied[p][j][1] =>
      /\ applied[p][i][2] # applied[p][j][2]
      /\ Late(p) \/ applied[p][i][2] < applied[p][j][2]

(* A host whose socket is open, with nothing on its way and no other socket *)
(* of the room alive, holds its room.  v2-server/README.md: "if the host    *)
(* does not reconnect within 60 seconds the server marks the room ended";   *)
(* here it has reconnected.                                                 *)
HostSeated ==
  \A p \in Host : Quiet(p) /\ page[p].token # None /\ page[p].view = "controller"
                  /\ (\A s \in Sock \ {page[p].sock} : Made(s) => net[s].server = "gone")
    => \E t \in Token : seat[t] # None /\ seat[t].sock = page[p].sock
=============================================================================
