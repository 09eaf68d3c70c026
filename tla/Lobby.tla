------------------------------- MODULE Lobby -------------------------------
(***************************************************************************)
(* The lobby server and its clients together: clients that connect, join,  *)
(* leave, crash and connect again under the same identity while the server *)
(* is in the middle of a turn of its loop.                                 *)
(***************************************************************************)
EXTENDS LobbyServer, LobbyClient

vars == <<wire, serverVars, clientVars>>

Init == WireInit /\ ServerInit /\ ClientInit

ServerStep(c) ==
    \/ Receive(c) /\ UNCHANGED clientVars
    \/ Notice(c) /\ UNCHANGED clientVars
    \/ HelloTimeout(c) /\ UNCHANGED clientVars
    \/ CloseConnection(c) /\ UNCHANGED clientVars

ClientStep(c) ==
    \/ Connect(c) /\ UNCHANGED serverVars
    \/ ReceiveKeys(c) /\ UNCHANGED serverVars
    \/ ReceiveWelcome(c) /\ UNCHANGED serverVars
    \/ ReceiveInfo(c) /\ UNCHANGED serverVars
    \/ ReceiveAnswer(c) /\ UNCHANGED serverVars
    \/ ReceiveMember(c) /\ UNCHANGED serverVars
    \/ ReceiveLeft(c) /\ UNCHANGED serverVars
    \/ ReceiveMessage(c) /\ UNCHANGED serverVars
    \/ ReceiveServerMessage(c) /\ UNCHANGED serverVars
    \/ ReceiveGoodbye(c) /\ UNCHANGED serverVars
    \/ Lost(c) /\ UNCHANGED serverVars
    \/ SendLobby(c) /\ UNCHANGED serverVars
    \/ Stop(c) /\ UNCHANGED serverVars

Next ==
    \/ HostSend /\ UNCHANGED clientVars
    \/ Poll /\ UNCHANGED clientVars
    \/ Flushes /\ UNCHANGED clientVars
    \/ AcceptConnections /\ UNCHANGED clientVars
    \/ \E c \in Connections : ServerStep(c) \/ ClientStep(c)

Spec == Init /\ [][Next]_vars

\* The server's loop goes on unless it waits in poll with nothing to do, clients
\* read, and so their sockets take output; no client has to connect, stop or
\* time out. (The first is weak fairness of the loop, whose steps are enabled
\* unless it is idle; the second of reading, which a client does finitely often.)
Readers == {c \in Connections : CanProgress(c)}
Fairness ==
    /\ []<>(phase = "poll" /\ Idle) \/ []<><<TRUE>>_serverVars
    /\ []<>(Readers = {})
    /\ \A c \in Slow : []<>~Pending(c)

FairSpec == Spec /\ Fairness

-----------------------------------------------------------------------------
(* Properties.                                                             *)

Messages ==
    {Plain(k) : k \in {"hello", "identity", "keys", "welcome", "query", "send", "goodbye"}}
    \cup {About("info", e) : e \in BOOLEAN}
    \cup {About("refused", w) : w \in {"exists", "missing", "password"}}
    \cup {About(k, p) : k \in {"create", "join"}, p \in Passwords}
    \cup {About(k, i) : k \in {"member joined", "member left", "message"}, i \in Identities}
    \cup {About("server message", l) : l \in 1 .. Cardinality(Connections)}
    \cup [kind : {"joined"}, members : Seq(Identities), lobby : 1 .. Cardinality(Connections)]

\* Every variable keeps its type; a lobby is created at most once a connection.
TypeOK ==
    /\ link \in [Connections -> {"none", "open", "client closed", "server closed"}]
    /\ \A c \in Connections : \A m \in Range(toServer[c]) \cup Range(toClient[c])
            \cup Range(connections[c].output) : m \in Messages
    /\ phase \in {"poll", "receive", "close"}
    /\ todo \subseteq Connections
    /\ \A c \in Connections :
        /\ connections[c].stage \in {"none", "hello", "identity", "ready"}
        /\ connections[c].closing \in BOOLEAN /\ connections[c].dead \in BOOLEAN
        /\ connections[c].lobby \in 0 .. lastLobby
    /\ lobby.id \in 0 .. lastLobby /\ lobby.members \in Seq(Connections)
    /\ lastLobby \in 0 .. Cardinality(Connections)
    /\ outgoing \in Seq(1 .. lastLobby)
    /\ state \in [Connections -> {"off", "joined", "ended"} \cup Waits]
    /\ attempt \in [Connections -> 0 .. Attempts]
    /\ peers \in [Connections -> Seq(Identities)]
    /\ joinedLobby \in [Connections -> 0 .. lastLobby]

\* What a client will know once it has read everything the server has sent or
\* queued for it.
Coming(c) == toClient[c] \o connections[c].output
Learn(known, message) ==
    CASE message.kind = "joined" -> message.members
      [] message.kind = "member joined" -> Append(known, message.what)
      [] message.kind = "member left" -> Filter(known, LAMBDA id : id # message.what)
      [] OTHER -> known
Rosters(known, news) ==
    LET after[i \in 0..Len(news)] == IF i = 0 THEN known ELSE Learn(after[i - 1], news[i])
    IN  after
View(c) == Rosters(peers[c], Coming(c))[Len(Coming(c))]

\* Whatever joins, evictions, overflows and closes happen in one turn, the
\* messages under way to a member add up to exactly the other members of the
\* lobby, each once.
RosterAgrees ==
    \A c \in Range(lobby.members) :
        ~Silent(connections[c]) /\ link[c] = "open" =>
            /\ IsInjective(View(c))
            /\ Range(View(c)) = {IdentityOf[d] : d \in Range(lobby.members) \ {c}}

\* A lobby and its members' connections point at each other, no connection that
\* has left the table is a member, and an identity is a member once and speaks
\* through one connection at a time, although an evicted one outlives its
\* eviction.
MembersSound ==
    /\ TypeOK
    /\ IsInjective(Roster(lobby.members))
    /\ \A c \in Connections :
        connections[c].lobby # 0 <=> c \in Range(lobby.members)
    /\ \A c \in Range(lobby.members) :
        connections[c].lobby = lobby.id /\ connections[c].stage = "ready"
    /\ \A c, d \in Connections :
        c # d /\ IdentityOf[c] = IdentityOf[d]
            /\ connections[c].stage = "ready" /\ connections[d].stage = "ready" =>
            Silent(connections[c]) \/ Silent(connections[d])

\* The events the host reads tell the same story: lobbies open before they have
\* members, members join and leave once, and a lobby closes when it is empty.
HostHearsMembership ==
    /\ heard.consistent
    /\ heard.open = IF lobby.members = <<>> THEN {} ELSE {lobby.id}
    /\ heard.members = {<<lobby.id, IdentityOf[c]>> : c \in Range(lobby.members)}

\* No client is thrown out by its own checks, for a duplicate member, itself or
\* a message it does not expect; and a relayed message reaches a member after the
\* news of its sender and before the news of its leaving, so that none is dropped
\* as unsigned.
NothingRejected == ~broken /\ ~dropped

\* A message the host queued for a lobby is not delivered to the members of a
\* later lobby of the same name.
HostMessagesStay ==
    \A c \in {d \in Connections : link[d] = "open"} :
        LET entered == {joinedLobby[c]}
                \cup {m.lobby : m \in {n \in Range(Coming(c)) : n.kind = "joined"}}
        IN  \A m \in Range(Coming(c)) : m.kind = "server message" => m.what \in entered

\* What the host, the members and the newcomers are told adds up: nobody hears of a
\* membership twice or too late, and no message goes to the wrong lobby.
NewsSound == HostHearsMembership /\ NothingRejected /\ HostMessagesStay

\* A client that connects joins or learns why it cannot, without the help of a
\* timeout: neither side waits for a message the other will not send.
JoinEnds == \A c \in Connections : state[c] \in Waits ~> state[c] \notin Waits

\* A member that vanished is taken out of the lobby.
VanishedLeave ==
    \A c \in Connections :
        connections[c].lobby # 0 /\ link[c] = "client closed" ~> connections[c].lobby = 0

\* Joins end, and so do memberships.
LobbySettles == JoinEnds /\ VanishedLeave

=============================================================================
