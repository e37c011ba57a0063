--------------------------- MODULE CommunitiesMC ---------------------------
(* Instances of Communities for TLC.                                       *)
EXTENDS Communities

\* A path of users and subreddits, two pairs tied by one link and a node
\* apart, a pair and a path of three that no link ties, a triangle of
\* subreddits related in both directions with a user.
SomeGraphs ==
  { {<<0, 1>>, <<1, 2>>, <<2, 3>>, <<3, 4>>},
    {<<0, 1>>, <<2, 3>>, <<1, 2>>},
    {<<0, 1>>, <<2, 3>>, <<3, 4>>},
    {<<0, 1>>, <<1, 0>>, <<1, 2>>, <<2, 1>>, <<3, 0>>, <<4, 2>>} }
=============================================================================
