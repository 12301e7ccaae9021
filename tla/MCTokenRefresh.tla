--------------------------- MODULE MCTokenRefresh ---------------------------
(* Instance of TokenRefresh for TLC. *)
EXTENDS TokenRefresh, TLC

CONSTANT t1

(* One agent, created with the pair t1. *)
MCFirst == [h \in Agent |-> t1]

(* Clients, and the tokens still to be drawn, are interchangeable. *)
Symmetry == Permutations(Client) \cup Permutations(Token \ {t1})
=============================================================================
