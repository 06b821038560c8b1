----------------------------- MODULE MCContacts -----------------------------
(* Two users whose numbers look alike, and requests that may be exchanged. *)
EXTENDS Contacts, TLC

MCUsers == {1, 2}
MCNumber == <<100005, 100105>>

Symmetry == Permutations(Handlers)
=============================================================================
