------------------------- MODULE CompositeReference -------------------------
(***************************************************************************)
(* What a graph of modules denotes, read off its edges without any order   *)
(* of execution: the reference Composite is checked against.               *)
(***************************************************************************)
EXTENDS Composite

(* The leaves of a composite at a place, by their places. *)
Leaves ==
  LET leaves[at \in [of : Composites, place : Seq(Nodes)]] ==
        UNION {IF Graph[at.of].kind[n] = "composite"
                 THEN leaves[[of |-> Graph[at.of].inner[n],
                              place |-> Append(at.place, n)]]
                 ELSE {Append(at.place, n)} : n \in NodeSet(Graph[at.of])}
  IN  leaves

(* What a node makes of its composite's input: the values along every way  *)
(* the edges lead to it.                                                   *)
Denotes ==
  LET denotes[at \in [of : Composites, node : Nodes, input : Seq(Scripts)]] ==
        LET g == Graph[at.of]
            inner == g.inner[at.node]
            above == {m \in Nodes : Edge(g, m, at.node)}
            inputs == IF above = {} THEN {at.input}
                      ELSE UNION {denotes[[of |-> at.of, node |-> m,
                                           input |-> at.input]] : m \in above}
        IN  IF g.kind[at.node] = "composite"
              THEN UNION {denotes[[of |-> inner, node |-> Graph[inner].output,
                                   input |-> v]] : v \in inputs}
              ELSE {Append(v, g.script[at.node]) : v \in inputs}
  IN  denotes

(* A PASS is a PASS of the whole graph: every leaf at every depth ran,     *)
(* exactly once, the data is the one value the edges say the output node   *)
(* makes of the input, and no node has two predecessors of which one was   *)
(* ignored (execute: last_conf is only the last node's verdict).           *)
PassIsWhole ==
  result.status = "PASS" =>
    /\ {ran[k].place : k \in DOMAIN ran} = Leaves[[of |-> top, place |-> <<>>]]
    /\ \A j, k \in DOMAIN ran : ran[j].place = ran[k].place => j = k
    /\ Denotes[[of |-> top, node |-> Graph[top].output, input |-> <<>>]]
         = {result.data}
    /\ \A n \in NodeSet(Graph[top]) :
         \A j, k \in Predecessors(Graph[top], n) : j = k
=============================================================================
