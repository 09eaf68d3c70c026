---------------------------- MODULE LobbyServer ----------------------------
(***************************************************************************)
(* The lobby server (src/client/src/network/lobby_server.cpp): one thread  *)
(* that polls its connections. A turn of its loop sends what the host      *)
(* queued, handles the input of each connection, flushes their output,     *)
(* closes the dead ones and accepts new ones. A connection is dead when    *)
(* its socket fails and closing when it has been told goodbye; both remain *)
(* in the table, and may remain members, until the end of a turn, and one  *)
(* that dies while others are closed perhaps until the end of the next.    *)
(***************************************************************************)
EXTENDS LobbyWire

CONSTANTS
    MaxPendingOutput,   \* gMaxPendingOutput, in messages
    Slow                \* bound: connections whose sockets may refuse output

ASSUME ServerAssumption == MaxPendingOutput \in Nat

VARIABLES
    phase,              \* where the loop is: "poll", "receive" or "close"
    todo,               \* connections the loop has still to visit, to receive or to close
    connections,        \* the accepted connections
    lobby,              \* the lobby of the one name, if members is not empty
    lastLobby,          \* nextLobbyId
    outgoing,           \* host: lobby ids of the queued messages
    heard               \* history: what the events pushed to the host say

serverVars == <<phase, todo, connections, lobby, lastLobby, outgoing, heard>>

NoConnection == [stage |-> "none", lobby |-> 0, closing |-> FALSE, dead |-> FALSE,
                 output |-> <<>>]
NoLobby == [id |-> 0, password |-> 0, members |-> <<>>]

ServerInit ==
    /\ phase = "poll"
    /\ todo = {}
    /\ connections = [c \in Connections |-> NoConnection]
    /\ lobby = NoLobby
    /\ lastLobby = 0
    /\ outgoing = <<>>
    /\ heard = [open |-> {}, members |-> {}, consistent |-> TRUE]

-----------------------------------------------------------------------------
(* The handlers compute a new server: s has the fields connections, lobby, *)
(* lastLobby and heard.                                                    *)

Server == [connections |-> connections, lobby |-> lobby, lastLobby |-> lastLobby,
           heard |-> heard]

Become(s) ==
    /\ connections' = s.connections
    /\ lobby' = s.lobby
    /\ lastLobby' = s.lastLobby
    /\ heard' = s.heard

\* Connection::Send says nothing more to a connection that is ending, and ends
\* one that does not read what it is sent.
Silent(connection) == connection.dead \/ connection.closing
SentLossy(connection, message) ==
    IF Silent(connection) \/ Len(connection.output) > MaxPendingOutput THEN connection
    ELSE [connection EXCEPT !.output = Append(@, message)]
Sent(connection, message) ==
    IF Silent(connection) THEN connection
    ELSE IF Len(connection.output) > MaxPendingOutput THEN [connection EXCEPT !.dead = TRUE]
    ELSE [connection EXCEPT !.output = Append(@, message)]

\* The connections of a set are sent the same message.
SendAll(s, cs, message) ==
    [s EXCEPT !.connections = [d \in Connections |->
        IF d \in cs THEN Sent(s.connections[d], message) ELSE s.connections[d]]]
Send(s, c, message) == SendAll(s, {c}, message)

Close(s, c) == [s EXCEPT !.connections[c].closing = TRUE]
Goodbye(s, c) == Close(Send(s, c, Plain("goodbye")), c)

\* Push_Event, as the host reads it: the lobbies that are open and who is in
\* them; an event that contradicts the earlier ones makes it inconsistent.
Hears(s, open, members, plausible) ==
    [s EXCEPT !.heard = [open |-> open, members |-> members,
                         consistent |-> s.heard.consistent /\ plausible]]
Opened(s, l) ==
    Hears(s, s.heard.open \cup {l}, s.heard.members, l \notin s.heard.open)
MemberJoined(s, l, id) ==
    Hears(s, s.heard.open, s.heard.members \cup {<<l, id>>},
          l \in s.heard.open /\ <<l, id>> \notin s.heard.members)
MemberLeft(s, l, id) ==
    Hears(s, s.heard.open, s.heard.members \ {<<l, id>>}, <<l, id>> \in s.heard.members)
Closed(s, l) ==
    Hears(s, s.heard.open \ {l}, s.heard.members,
          l \in s.heard.open /\ \A m \in s.heard.members : m[1] # l)

\* Enter_Lobby sends the newcomer the list of those before it, tells them, and
\* then makes it a member.
TellJoined(s, cs, c) == SendAll(s, Range(cs), About("member joined", IdentityOf[c]))
Roster(cs) == [i \in DOMAIN cs |-> IdentityOf[cs[i]]]
EnterLobby(s, c) ==
    LET old == s.lobby.members
        listed == Send(s, c, [kind |-> "joined", members |-> Roster(old), lobby |-> s.lobby.id])
        told == TellJoined(listed, old, c)
        entered == [told EXCEPT !.lobby.members = Append(old, c),
                                !.connections[c].lobby = s.lobby.id]
    IN  MemberJoined(entered, s.lobby.id, IdentityOf[c])

\* Leave_Lobby tells those who remain, or erases the lobby of the last member.
Emptied(s, l) == [Closed(s, l) EXCEPT !.lobby = NoLobby]
LeaveLobby(s, c) ==
    IF s.connections[c].lobby = 0 THEN s
    ELSE LET l == s.lobby.id
             rest == Filter(s.lobby.members, LAMBDA d : d # c)
             out == MemberLeft([s EXCEPT !.connections[c].lobby = 0, !.lobby.members = rest],
                               l, IdentityOf[c])
         IN  IF rest # <<>> THEN SendAll(out, Range(rest), About("member left", IdentityOf[c]))
             ELSE Emptied(out, l)

-----------------------------------------------------------------------------
(* One message of a connection.                                            *)

HandleHello(s, c) ==
    Send([s EXCEPT !.connections[c].stage = "identity"], c, Plain("keys"))

\* Handle_Identity ends the other connections of the same identity. Each
\* client makes its signing key for the connection, so that no two share one.
SameIdentity(s, c, d) ==
    /\ d # c
    /\ s.connections[d].stage = "ready"
    /\ ~s.connections[d].dead
    /\ IdentityOf[d] = IdentityOf[c]
Evict(s, d) == LeaveLobby(Goodbye(s, d), d)
Evictions(s, ds) ==
    LET after[i \in 0..Len(ds)] == IF i = 0 THEN s ELSE Evict(after[i - 1], ds[i]) IN after
HandleIdentity(s, c) ==
    LET others == SetToSeq({d \in Connections : SameIdentity(s, c, d)})
        alone == Evictions(s, others)[Len(others)]
    IN  Send([alone EXCEPT !.connections[c].stage = "ready"], c, Plain("welcome"))

Exists(s) == s.lobby.members # <<>>

HandleQueryFound(s, c) == IF Exists(s) THEN Send(s, c, About("info", TRUE)) ELSE s
HandleQuery(s, c) == Send(s, c, About("info", Exists(s)))

HandleCreate(s, c, password) ==
    IF Exists(s) THEN Send(s, c, About("refused", "exists"))
    ELSE LET l == s.lastLobby + 1
             created == [s EXCEPT !.lastLobby = l,
                                  !.lobby = [id |-> l, password |-> password, members |-> <<>>]]
         IN  EnterLobby(Opened(created, l), c)

HandleJoin(s, c, password) ==
    IF ~Exists(s) THEN Send(s, c, About("refused", "missing"))
    ELSE IF password = s.lobby.password THEN EnterLobby(s, c)
    ELSE Close(Send(s, c, About("refused", "password")), c)

\* Handle_Ready relays a message to the other members.
HandleSend(s, c) ==
    SendAll(s, Range(s.lobby.members) \ {c}, About("message", IdentityOf[c]))

\* Handle_Input stops at a goodbye and drops what follows; a request out of
\* place is answered with one.
HandleMessage(s, c, message) ==
    LET stage == s.connections[c].stage
        outside == s.connections[c].lobby = 0
        kind == message.kind
    IN  IF Silent(s.connections[c]) THEN s
        ELSE CASE stage = "hello" -> HandleHello(s, c)
               [] stage = "identity" -> HandleIdentity(s, c)
               [] kind = "query" /\ stage = "ready" /\ outside -> HandleQuery(s, c)
               [] kind = "create" /\ stage = "ready" /\ outside -> HandleCreate(s, c, message.what)
               [] kind = "join" /\ stage = "ready" /\ outside -> HandleJoin(s, c, message.what)
               [] kind = "send" /\ stage = "ready" /\ ~outside -> HandleSend(s, c)
               [] OTHER -> Goodbye(s, c)
Handlings(s, c, q) ==
    LET after[i \in 0..Len(q)] == IF i = 0 THEN s ELSE HandleMessage(after[i - 1], c, q[i])
    IN  after
HandleInput(s, c) == Handlings(s, c, toServer[c])[Len(toServer[c])]

-----------------------------------------------------------------------------
(* The loop.                                                               *)

\* Lobby_Server::Send, on the host's thread.
HostSend ==
    /\ Speak
    /\ \E l \in heard.open : outgoing' = Append(outgoing, l)
    /\ UNCHANGED <<link, toServer, toClient, quits, phase, todo, connections, lobby, lastLobby, heard>>

\* Send_Outgoing skips a message whose lobby has closed; then the loop polls. A
\* turn in which no socket is ready and nothing is queued changes nothing.
AddressedByName(l, s) == s.lobby.members
Addressed(l, s) == IF l = s.lobby.id THEN s.lobby.members ELSE <<>>
Readable(c) ==
    /\ connections[c].stage # "none"
    /\ toServer[c] # <<>> \/ link[c] = "client closed"
Pending(c) == ~connections[c].dead /\ connections[c].output # <<>>
Waiting(c) == link[c] \in {"open", "client closed"} /\ connections[c].stage = "none"
Unproven(c) == connections[c].stage \in {"hello", "identity"}
Idle ==
    /\ outgoing = <<>>
    /\ \A c \in Connections :
          ~Readable(c) /\ ~Pending(c) /\ ~Waiting(c) /\ ~Unproven(c) /\ ~connections[c].dead
Relay(s, l) == SendAll(s, Range(Addressed(l, s)), About("server message", l))
Relays(s, ls) ==
    LET after[i \in 0..Len(ls)] == IF i = 0 THEN s ELSE Relay(after[i - 1], ls[i]) IN after
Poll ==
    /\ phase = "poll"
    /\ ~Idle
    /\ Become(Relays(Server, outgoing)[Len(outgoing)])
    /\ outgoing' = <<>>
    /\ phase' = "receive"
    /\ todo' = {c \in Connections : Readable(c)}
    /\ UNCHANGED wire

\* The receive loop visits c.
Visit(c) ==
    /\ phase = "receive"
    /\ c \in todo
    /\ todo' = todo \ {c}

\* All that has arrived is handled, unless an earlier handler ended c.
Receive(c) ==
    /\ Visit(c)
    /\ IF connections[c].dead
       THEN UNCHANGED <<connections, lobby, lastLobby, heard, toServer>>
       ELSE /\ toServer[c] # <<>>
            /\ Become(HandleInput(Server, c))
            /\ toServer' = [toServer EXCEPT ![c] = <<>>]
    /\ UNCHANGED <<phase, outgoing, link, toClient, said, quits>>

Dies(c) ==
    /\ ~connections[c].dead
    /\ connections' = [connections EXCEPT ![c].dead = TRUE]
    /\ UNCHANGED <<link, toServer, toClient, said, phase, lobby, lastLobby, outgoing, heard>>

\* Reading finds the connection closed; what had arrived may be lost with it.
Notice(c) == Visit(c) /\ link[c] = "client closed" /\ Dies(c) /\ UNCHANGED quits

\* gHelloTimeout: a connection that has not proved its identity in time.
HelloTimeout(c) == phase = "receive" /\ Unproven(c) /\ Quit /\ UNCHANGED todo /\ Dies(c)

\* The sockets in taken take all of their output, those in failed report that
\* the client is gone, which a socket need not do at once; a connection that was
\* told goodbye dies when it has been sent everything.
Flush(taken, failed) ==
    /\ phase = "receive"
    /\ todo = {}
    /\ phase' = "close"
    /\ LET empty == taken \cup {c \in Connections : connections[c].output = <<>>}
           reached == {c \in taken : link[c] = "open"}
           flushed == [c \in Connections |->
                [connections[c] EXCEPT
                    !.output = IF c \in taken THEN <<>> ELSE @,
                    !.dead = @ \/ c \in failed \/ (c \in empty /\ connections[c].closing)]]
       IN  /\ connections' = flushed
           /\ todo' = {c \in Connections : flushed[c].dead}
           /\ toClient' = [c \in Connections |->
                IF c \in reached THEN toClient[c] \o connections[c].output ELSE toClient[c]]
    /\ UNCHANGED <<link, toServer, said, quits, lobby, lastLobby, outgoing, heard>>

Flushes ==
    LET pending == {c \in Connections : Pending(c)}
    IN  \E late \in SUBSET (pending \cap Slow) :
        \E failed \in SUBSET {c \in pending \ late : link[c] # "open"} :
            Flush((pending \ late) \ failed, failed)

\* Close_Connection takes a dead connection out of its lobby and the table. The
\* loop goes through the table once: it meets those that were dead before it, and
\* one that dies of the news of another's leaving only if it comes later.
RemovedOnly(s, c) == [s EXCEPT !.connections[c] = NoConnection]
Removed(s, c) == [LeaveLobby(s, c) EXCEPT !.connections[c] = NoConnection]
CloseConnection(c) ==
    /\ phase = "close"
    /\ connections[c].dead
    /\ Become(Removed(Server, c))
    /\ link' = [link EXCEPT ![c] = "server closed"]
    /\ toServer' = [toServer EXCEPT ![c] = <<>>]
    /\ todo' = todo \ {c}
    /\ UNCHANGED <<phase, outgoing, toClient, said, quits>>

\* Accept_Connections ends the turn.
AcceptConnections ==
    /\ phase = "close"
    /\ todo = {}
    /\ phase' = "poll"
    /\ connections' = [c \in Connections |->
            IF Waiting(c) THEN [NoConnection EXCEPT !.stage = "hello"] ELSE connections[c]]
    /\ UNCHANGED <<wire, todo, lobby, lastLobby, outgoing, heard>>

=============================================================================
