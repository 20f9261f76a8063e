--------------------------- MODULE MCAnswerCache ---------------------------
(* Values for the constants of AnswerCache in TLC's runs. *)
EXTENDS AnswerCache, TLC

Message(rcode, answer, authority, additional) ==
    [rcode |-> rcode, truncated |-> FALSE, answer |-> answer,
     authority |-> authority, additional |-> additional]

\* An answer with a shorter TTL in the authority section and in the additional one a
\* shorter still and a longer, an NXDOMAIN not to be kept, and two the cache refuses.
UsualMessages ==
    {Message("NOERROR", {2}, {1}, {0, 2}), Message("NXDOMAIN", {}, {0}, {}),
     Message("SERVFAIL", {1}, {}, {}),
     [Message("NOERROR", {1}, {}, {}) EXCEPT !.truncated = TRUE]}

KeySymmetry == Permutations(Keys)

\* A name whose owner asks that its answer not be kept.
ZeroTTLMessages == {Message("NOERROR", {0}, {}, {})}
=============================================================================
