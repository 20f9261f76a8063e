----------------------------- MODULE BlockIndex -----------------------------
(***************************************************************************)
(* What the feed manager promises of the blocklist, whatever its steps:    *)
(* for each feed the index holds its latest committed copy or nothing.  It *)
(* never goes back to an older copy, never serves one that was refused and *)
(* loses everything only when the process stops.                           *)
(***************************************************************************)
EXTENDS Naturals

CONSTANTS Feeds, Content, None

VARIABLES
    committed,   \* the last copy committed of each feed, or None
    served       \* the copy the index was built from, or None

bivars == <<committed, served>>

Empty == [f \in Feeds |-> None]

Init ==
    /\ committed \in [Feeds -> Content \cup {None}]
    /\ served = Empty

\* An index made of the latest copies of some feeds.
MadeOf(ix, copies) ==
    /\ DOMAIN ix = Feeds
    /\ \A f \in Feeds : ix[f] \in {None, copies[f]}

\* A new copy of one feed replaces the old one, and the index with it.
Commit ==
    \E f \in Feeds, c \in Content :
        /\ committed' = [committed EXCEPT ![f] = c]
        /\ MadeOf(served', committed')

\* The index is built again from what is committed.
Rebuild ==
    /\ MadeOf(served', committed)
    /\ UNCHANGED committed

\* The process stops; the copies stay.
Stop ==
    /\ served' = Empty
    /\ UNCHANGED committed

Next == Commit \/ Rebuild \/ Stop

Spec == Init /\ [][Next]_bivars
=============================================================================
