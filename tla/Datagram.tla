------------------------------ MODULE Datagram ------------------------------
(***************************************************************************)
(* The datagrams of one client at the lobby server: Datagram_Channel of    *)
(* client/src/network/datagram.cpp between Lobby_Client::Send_Datagram and *)
(* Lobby_Server::Handle_Datagrams.  The network loses, duplicates and      *)
(* reorders; the address of the client changes as its NAT pleases; a new   *)
(* connection has keys of its own, which the server takes first.           *)
(*                                                                         *)
(* The replay window is the word `received`: bit b is set when the         *)
(* datagram b before the newest one was opened.  It is modelled as the set *)
(* of its bits.  A key is the number of its connection.                    *)
(***************************************************************************)
EXTENDS Naturals, FiniteSets

CONSTANTS
    Window,             \* sizeof(received) * 8
    SendLimit,          \* UINT64_MAX
    Addresses, NoAddress,
    MaxConnections      \* bound on the number of connections

\* The module that instantiates this one assumes it of its constants.
DatagramAssumption ==
    /\ Window \in Nat \ {0} /\ SendLimit \in Nat
    /\ MaxConnections \in Nat \ {0}

VARIABLES
    sendKey, sendCount, address,                        \* the client
    receiveKey, receiveCount, received, udpAddress,     \* the server
    wire,               \* the datagrams sent so far, each with its source
    accepted,           \* history: <<key, sequence>> of the opened ones
    opened,             \* history: how many times a datagram was opened
    newest              \* history: where the newest opened one came from

clientVars == <<sendKey, sendCount, address>>
serverVars == <<receiveKey, receiveCount, received, udpAddress, accepted, opened, newest>>
vars == <<clientVars, serverVars, wire>>

-----------------------------------------------------------------------------
\* Send_Datagram and Seal
Send ==
    /\ sendCount < SendLimit
    /\ wire' = wire \cup {[key |-> sendKey, sequence |-> sendCount, from |-> address]}
    /\ sendCount' = sendCount + 1
    /\ UNCHANGED <<sendKey, address, serverVars>>

\* The NAT between the two gives the client another address.
Remap ==
    /\ address' \in Addresses \ {address}
    /\ UNCHANGED <<sendKey, sendCount, serverVars, wire>>

\* Open refuses what was seen, or is too old to tell.
Seen(s) ==
    /\ received # {} /\ s <= receiveCount
    /\ receiveCount - s >= Window \/ receiveCount - s \in received

ForgetsOlder(distance) == {0}               \* mutant: the window starts again

\* received << distance | 1, or 1 where the shift is as wide as the word.
Shifted(distance) ==
    {0} \cup {b + distance : b \in {x \in received : x + distance < Window}}

Ahead(s) == received = {} \/ s > receiveCount

\* Open commits after authentication; Handle_Datagrams takes the address of the
\* datagram that is the newest one.
Open(d) ==
    /\ d \in wire
    /\ ~ Seen(d.sequence)
    /\ d.key = receiveKey
    /\ received' = IF Ahead(d.sequence) THEN Shifted(d.sequence - receiveCount)
                   ELSE received \cup {receiveCount - d.sequence}
    /\ receiveCount' = IF Ahead(d.sequence) THEN d.sequence ELSE receiveCount
    /\ udpAddress' = IF d.sequence = receiveCount' THEN d.from ELSE udpAddress
    /\ newest' = IF \A s \in {a[2] : a \in {x \in accepted : x[1] = receiveKey}} : s < d.sequence
                 THEN d.from ELSE newest
    /\ accepted' = accepted \cup {<<d.key, d.sequence>>}
    /\ opened' = opened + 1
    /\ UNCHANGED <<receiveKey, clientVars, wire>>

\* A new connection is ready at the server, with a channel of its own.
\* MODEL BOUND: no more than MaxConnections.
Reconnect ==
    /\ receiveKey < MaxConnections
    /\ receiveKey' = receiveKey + 1
    /\ receiveCount' = 0 /\ received' = {}
    /\ udpAddress' = NoAddress /\ newest' = NoAddress
    /\ UNCHANGED <<accepted, opened, clientVars, wire>>

\* The client reads the welcome of that connection.
Welcome ==
    /\ sendKey < receiveKey
    /\ sendKey' = receiveKey
    /\ sendCount' = 0
    /\ UNCHANGED <<address, serverVars, wire>>

-----------------------------------------------------------------------------
Init ==
    /\ sendKey = 1 /\ sendCount = 0 /\ address \in Addresses
    /\ receiveKey = 1 /\ receiveCount = 0 /\ received = {} /\ udpAddress = NoAddress
    /\ wire = {} /\ accepted = {} /\ opened = 0 /\ newest = NoAddress

Next ==
    \/ Send
    \/ Remap
    \/ \E d \in wire : Open(d)
    \/ Reconnect
    \/ Welcome

Spec == Init /\ [][Next]_vars

-----------------------------------------------------------------------------
TypeOK ==
    /\ sendKey \in Nat /\ sendCount \in Nat
    /\ receiveKey \in Nat /\ receiveCount \in Nat
    /\ received \subseteq 0..(Window - 1)
    /\ wire \subseteq [key : Nat, sequence : Nat, from : Addresses]
    /\ accepted \subseteq Nat \X Nat
    /\ opened \in Nat

\* The window is what was opened under the present key: bit 0 is the newest
\* datagram and bit b the one b before it.
WindowAgrees ==
    /\ received # {} => 0 \in received
    /\ \A s \in Nat : <<receiveKey, s>> \in accepted =>
          received # {} /\ s <= receiveCount
    /\ received # {} => \A b \in 0..(Window - 1) :
          b \in received <=> b <= receiveCount /\ <<receiveKey, receiveCount - b>> \in accepted

\* No datagram is opened twice, however often and late the network delivers it,
\* and none of an earlier connection.
OpenedOnce == opened = Cardinality(accepted)

\* A late datagram does not bring an old address of the client back.
AddressIsNewest == udpAddress = newest

\* Open refuses no datagram that is new and within the window.
RefusesOnlyTheOld ==
    \A d \in wire :
       (d.key = receiveKey /\ Seen(d.sequence)) =>
          <<d.key, d.sequence>> \in accepted \/ d.sequence + Window <= receiveCount

\* What a datagram channel promises: TypeOK, OpenedOnce, AddressIsNewest and
\* RefusesOnlyTheOld.
DatagramsSound == TypeOK /\ OpenedOnce /\ AddressIsNewest /\ RefusesOnlyTheOld

=============================================================================
