---------------------------- MODULE MCRecursion ----------------------------
(***************************************************************************)
(* A world in which one server serves a zone and the zone below it, as the *)
(* servers of many registries do (uk and couk are both nuk's), so that not *)
(* OneZoneEach holds but OldHaveNoDS does.                                 *)
(***************************************************************************)
EXTENDS Recursion

SharedUp ==
    [root |-> "root", uk |-> "root", nroot |-> "root", couk |-> "uk", nuk |-> "uk",
     www |-> "couk", ghost |-> "uk"]
SharedTree == DOMAIN SharedUp
SharedAbove[n \in SharedTree] ==
    IF n = "root" THEN {n} ELSE {n} \cup SharedAbove[SharedUp[n]]
SharedHeld == [owner : {"www", "nroot", "nuk"}, type : {"A"}]
NoAlias == [n \in {} |-> Root]
SharedNameservers == [root |-> {"nroot"}, uk |-> {"nuk"}, couk |-> {"nuk"}]
SharedQuestions == [owner : {"www", "nuk", "ghost"}, type : {"A"}]
=============================================================================
