---------------------------- MODULE MCGroupExpand -----------------------------
(* GroupExpand for TLC: every graph on three groups, memberships of a      *)
(* group in itself included, and the graphs on five groups that have a     *)
(* cycle through the expanded group, a diamond and ways of unlike length.  *)
EXTENDS GroupExpand

CONSTANTS a, b, c, d, e

E(m, p) == [member |-> m, parent |-> p]

SmallGraphs == SUBSET [member : {a, b, c}, parent : {a, b, c}]

(* Some of these memberships, on top of a chain from a to e. *)
ChainGraphs ==
  {{E(a, b), E(b, c), E(c, d), E(d, e)} \cup more :
     more \in SUBSET {E(a, c), E(b, d), E(b, e), E(c, a), E(d, b), E(e, a),
                      E(e, e)}}

MCGraphs == SmallGraphs \cup ChainGraphs
=============================================================================
