----------------------------- MODULE MCResolver -----------------------------
(* Values for the constants of Resolver in TLC's runs. *)
EXTENDS Resolver, TLC

\* One name: what differs is whether the client checks for itself.
OneQuestion  == {[name |-> "n", do |-> FALSE, cd |-> FALSE]}
TwoQuestions == OneQuestion \cup {[name |-> "n", do |-> FALSE, cd |-> TRUE]}

QuerySymmetry == Permutations(Queries)
=============================================================================
