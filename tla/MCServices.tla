----------------------------- MODULE MCServices -----------------------------
(* A small instance of Services for TLC: three texts, the middle one of     *)
(* which resembles the others; three callers, two tasks and two users.      *)
EXTENDS Services

CONSTANTS a, b, c  \* texts

MCText == {a, b, c}
MCKeyworded == {a}

(* a resembles b and b resembles c: similarity is not transitive. *)
MCSimilar == {p \in MCText \X MCText : p[1] = p[2] \/ {p[1], p[2]} \in {{a, b}, {b, c}}}
Symmetry == Permutations(Request) \cup Permutations(Caller)
=============================================================================
