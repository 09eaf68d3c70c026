---------------------------- MODULE LobbyClient ----------------------------
(***************************************************************************)
(* The lobby client (src/client/src/network/lobby_client.cpp): one thread  *)
(* that connects, proves its identity, finds or creates the lobby in at    *)
(* most three attempts and then keeps the list of its peers from what the  *)
(* server sends. Each connection is one run of that thread; a game that    *)
(* connects again is another connection of the same identity.              *)
(***************************************************************************)
EXTENDS LobbyWire

CONSTANT Attempts               \* how often Join_Lobby asks

ASSUME ClientAssumption == Attempts \in Nat \ {0}

VARIABLES
    state,              \* what a client awaits, "joined" or "ended"
    attempt,            \* attempts of Join_Lobby begun
    peers,              \* the peers it knows
    joinedLobby,        \* history: the lobby it is in
    broken,             \* history: a client failed on a message it did not expect
    dropped             \* history: a relayed message had an unknown sender

clientVars == <<state, attempt, peers, joinedLobby, broken, dropped>>

Waits == {"keys", "welcome", "info", "created", "listed"}

ClientInit ==
    /\ state = [c \in Connections |-> "off"]
    /\ attempt = [c \in Connections |-> 0]
    /\ peers = [c \in Connections |-> <<>>]
    /\ joinedLobby = [c \in Connections |-> 0]
    /\ broken = FALSE
    /\ dropped = FALSE

-----------------------------------------------------------------------------

Running(c) == state[c] \in Waits \cup {"joined"}

\* The first message from the server while c awaits it.
Awaits(c, awaits) == state[c] = awaits /\ toClient[c] # <<>>
Message(c) == Head(toClient[c])
Kind(c) == Message(c).kind

\* Main closes the socket and forgets the peers, whether the client failed or
\* was stopped. A failure is broken protocol unless the server said goodbye.
End(c) ==
    /\ state' = [state EXCEPT ![c] = "ended"]
    /\ peers' = [peers EXCEPT ![c] = <<>>]
    /\ link' = [link EXCEPT ![c] = IF @ = "open" THEN "client closed" ELSE @]
    /\ toClient' = [toClient EXCEPT ![c] = <<>>]
    /\ attempt' = [attempt EXCEPT ![c] = 0]
    /\ joinedLobby' = [joinedLobby EXCEPT ![c] = 0]
    /\ UNCHANGED <<toServer, said, dropped>>

Fail(c) == End(c) /\ UNCHANGED <<quits, broken>>

\* What every step of a client does with a message that has no place in its
\* state.
Unexpected(c) == End(c) /\ broken' = (broken \/ Kind(c) # "goodbye") /\ UNCHANGED quits

\* Send_All fails when the server has closed the connection.
Say(c, message) ==
    toServer' = IF link[c] = "open" THEN [toServer EXCEPT ![c] = Append(@, message)]
                ELSE toServer

\* The message at the front has been read and c goes on to wait for another.
Reply(c, message, awaits) ==
    /\ toClient' = [toClient EXCEPT ![c] = Tail(@)]
    /\ Say(c, message)
    /\ state' = [state EXCEPT ![c] = awaits]
    /\ UNCHANGED <<link, said, peers, joinedLobby, quits, broken, dropped>>

\* Socket::Connect and the client's hello.
Connect(c) ==
    /\ state[c] = "off"
    /\ link' = [link EXCEPT ![c] = "open"]
    /\ toServer' = [toServer EXCEPT ![c] = <<Plain("hello")>>]
    /\ state' = [state EXCEPT ![c] = "keys"]
    /\ UNCHANGED <<toClient, said, attempt, peers, joinedLobby, quits, broken, dropped>>

\* Connect answers the server's keys with the proof of identity, and its
\* welcome with the first query.
ReceiveKeys(c) ==
    /\ Awaits(c, "keys")
    /\ IF Kind(c) = "keys"
       THEN Reply(c, Plain("identity"), "welcome") /\ UNCHANGED attempt
       ELSE Unexpected(c)

AskAgain(c) == attempt[c] < Attempts
Ask(c) == Reply(c, Plain("query"), "info") /\ attempt' = [attempt EXCEPT ![c] = @ + 1]

ReceiveWelcome(c) ==
    /\ Awaits(c, "welcome")
    /\ IF Kind(c) = "welcome" THEN Ask(c) ELSE Unexpected(c)

\* Join_Lobby creates the lobby if the answer said it did not exist.
ReceiveInfo(c) ==
    /\ Awaits(c, "info")
    /\ IF Kind(c) = "info"
       THEN /\ IF Message(c).what
               THEN Reply(c, About("join", PasswordOf[c]), "listed")
               ELSE Reply(c, About("create", PasswordOf[c]), "created")
            /\ UNCHANGED attempt
       ELSE Unexpected(c)

\* Add_Peer refuses itself and whom it knows.
AddPeer(c, known, id) ==
    IF id = IdentityOf[c] \/ id \in Range(known) THEN <<>> ELSE Append(known, id)
Acceptable(c, ids) == IsInjective(ids) /\ IdentityOf[c] \notin Range(ids)

\* Somebody else created the lobby first, or the last member left it, since the
\* answer to the query: it asks again.
Answered(c) ==
    LET message == Message(c)
    IN  CASE message.kind = "joined" /\ Acceptable(c, message.members) ->
              /\ state' = [state EXCEPT ![c] = "joined"]
              /\ peers' = [peers EXCEPT ![c] = message.members]
              /\ joinedLobby' = [joinedLobby EXCEPT ![c] = message.lobby]
              /\ toClient' = [toClient EXCEPT ![c] = Tail(@)]
              /\ UNCHANGED <<link, toServer, said, attempt, quits, broken, dropped>>
         [] message.kind = "refused" /\ message.what # "password" ->
              IF AskAgain(c) THEN Ask(c) ELSE Fail(c)
         [] message.kind = "refused" /\ message.what = "password" -> Fail(c)
         [] OTHER -> Unexpected(c)

ReceiveAnswer(c) == (Awaits(c, "created") \/ Awaits(c, "listed")) /\ Answered(c)

-----------------------------------------------------------------------------
(* Pump: a client that has joined.                                         *)

Handled(c) ==
    /\ toClient' = [toClient EXCEPT ![c] = Tail(@)]
    /\ UNCHANGED <<link, toServer, said, state, attempt, joinedLobby, quits, broken>>

\* Handle_Message.
ReceiveMember(c) ==
    /\ Awaits(c, "joined")
    /\ Kind(c) = "member joined"
    /\ LET added == AddPeer(c, peers[c], Message(c).what)
       IN  IF added = <<>> THEN Unexpected(c)
           ELSE Handled(c) /\ peers' = [peers EXCEPT ![c] = added] /\ UNCHANGED dropped

ReceiveLeft(c) ==
    /\ Awaits(c, "joined")
    /\ Kind(c) = "member left"
    /\ peers' = [peers EXCEPT ![c] = Filter(@, LAMBDA id : id # Message(c).what)]
    /\ Handled(c)
    /\ UNCHANGED dropped

\* A relayed message is signed by its sender; the client drops one whose sender
\* is not a peer.
ReceiveMessage(c) ==
    /\ Awaits(c, "joined")
    /\ Kind(c) = "message"
    /\ dropped' = (dropped \/ Message(c).what \notin Range(peers[c]) \cup {IdentityOf[c]})
    /\ Handled(c)
    /\ UNCHANGED peers

ReceiveServerMessage(c) ==
    /\ Awaits(c, "joined")
    /\ Kind(c) = "server message"
    /\ Handled(c)
    /\ UNCHANGED <<peers, dropped>>

ReceiveGoodbye(c) ==
    /\ Awaits(c, "joined")
    /\ Kind(c) \notin {"member joined", "member left", "message", "server message"}
    /\ Unexpected(c)

\* Queue_Outgoing.
SendLobby(c) ==
    /\ state[c] = "joined"
    /\ Speak
    /\ Say(c, Plain("send"))
    /\ UNCHANGED <<link, toClient, state, attempt, peers, joinedLobby, quits, broken, dropped>>

\* The server closed the connection; unread data may be lost with it.
Lost(c) ==
    /\ Running(c)
    /\ link[c] = "server closed"
    /\ Fail(c)

\* gReplyTimeout while it awaits an answer, and ~Lobby_Client at any time.
Stop(c) ==
    /\ Running(c)
    /\ Quit
    /\ End(c)
    /\ UNCHANGED broken

\* Any of the steps above but Connect, SendLobby and Stop.
CanProgress(c) == Running(c) /\ (toClient[c] # <<>> \/ link[c] = "server closed")

=============================================================================
