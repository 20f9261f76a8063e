--------------------------- MODULE MCFeedManager ---------------------------
(* Values for the constants of FeedManager in the run with a changed URL. *)
EXTENDS FeedManager

CONSTANTS u1, u2
StartUrls == [f \in Feeds |-> u1]
Published == [u \in Urls |-> 1]
=============================================================================
