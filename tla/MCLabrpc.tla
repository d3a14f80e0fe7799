------------------------------ MODULE MCLabrpc ------------------------------
(* An instance of Labrpc for TLC: one server, which a clerk and another    *)
(* server call.                                                            *)
EXTENDS Labrpc

MCconnections == [c \in Call |-> CHOOSE n \in Server : TRUE]
=============================================================================
