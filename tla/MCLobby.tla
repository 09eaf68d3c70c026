------------------------------ MODULE MCLobby ------------------------------
(* Three runs of the client: two of one identity, one of another, which may *)
(* have the wrong password.                                                 *)
EXTENDS Lobby

CONSTANTS a, b, right, wrong

MCConnections == 1 .. 3
MCIdentityOf == <<a, a, b>>
MCPasswordOf == <<right, wrong, right>>
=============================================================================
