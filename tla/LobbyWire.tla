----------------------------- MODULE LobbyWire -----------------------------
(***************************************************************************)
(* What the lobby server and its clients share: one TCP connection for     *)
(* each run of a client (src/client/src/network/socket.cpp carries it,     *)
(* protocol.h names the messages). A connection delivers in order; either  *)
(* end may close it, and what the other end still sends is then lost.      *)
(*                                                                         *)
(* Encryption, framing and identity proofs are taken to work: a message is *)
(* a record. Every client asks for the same lobby name.                    *)
(***************************************************************************)
EXTENDS Integers, Sequences, FiniteSets, SequencesExt, Vectors

CONSTANTS
    Connections,        \* each is one run of a client: connected at most once
    IdentityOf,         \* the identity key a client proves
    MaxMessages,        \* bound: messages sent in the lobby, by members and the host
    MaxQuits,           \* bound: clients that give up, are stopped or are given up
    PasswordOf          \* the lobby password it was given

ASSUME WireAssumption == IsFiniteSet(Connections)

Identities == {IdentityOf[c] : c \in Connections}
Passwords == {PasswordOf[c] : c \in Connections}

VARIABLES
    link,               \* "none", "open", or the end that closed it
    toServer,           \* messages sent and not yet received
    toClient,
    said,               \* messages sent in the lobby
    quits               \* connections given up

wire == <<link, toServer, toClient, said, quits>>

WireInit ==
    /\ link = [c \in Connections |-> "none"]
    /\ toServer = [c \in Connections |-> <<>>]
    /\ toClient = [c \in Connections |-> <<>>]
    /\ said = 0
    /\ quits = 0

Speak == said < MaxMessages /\ said' = said + 1
Quit == quits < MaxQuits /\ quits' = quits + 1

\* Messages of one field or none; protocol.h, Protocol_Message.
Plain(kind) == [kind |-> kind]
About(kind, what) == [kind |-> kind, what |-> what]

=============================================================================
