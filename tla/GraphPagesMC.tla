---------------------------- MODULE GraphPagesMC ----------------------------
(* Instances of GraphPages for TLC.                                        *)
EXTENDS GraphPages

SomeTypes == [n \in Ids |-> IF n % 2 = 1 THEN "user" ELSE "subreddit"]
AllOrUsers == {{"user", "subreddit"}, {"user"}}
=============================================================================
