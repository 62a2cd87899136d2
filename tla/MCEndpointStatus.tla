-------------------------- MODULE MCEndpointStatus --------------------------
EXTENDS EndpointStatus

Whole == [mode |-> "serves", excluded |-> FALSE, conflicted |-> FALSE, lost |-> 0, wildcards |-> 0,
          stripped |-> FALSE, schema |-> FALSE]

\* Served whole, served without one of two entries, and left out of a render
\* whose endpoints fail together.
MCRenders ==
  {Whole, [Whole EXCEPT !.conflicted = TRUE, !.lost = 1],
   [Whole EXCEPT !.mode = "combined", !.excluded = TRUE]}
=============================================================================
