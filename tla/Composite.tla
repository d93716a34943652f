----------------------------- MODULE Composite ------------------------------
(***************************************************************************)
(* CompositeModule.execute: a graph of modules run node by node against    *)
(* one plan.lock (acid_engine/level3/module/composite.py) after a          *)
(* depth-first search for cycles (level3/graph/cycle.py), in the order of  *)
(* ranks (level3/graph/rank.py).  A node is a leaf, whose script goes      *)
(* through the gate of execute_plan, or a composite, which is executed in  *)
(* a frame of its own.                                                     *)
(*                                                                         *)
(* A value is the sequence of the scripts it went through.  What the gate  *)
(* and a body do in detail is the subject of Judge and Effects.            *)
(***************************************************************************)
EXTENDS Naturals, Sequences, FiniteSets

CONSTANTS
  Nodes,       \* node ids
  Scripts,     \* scripts of leaves
  ScriptName,  \* [Scripts -> names]: two scripts may share one
  Hash,        \* [Scripts -> content hashes]
  Local,       \* [Scripts -> sets of local files], what a script imports
  May,         \* [Scripts -> SUBSET Endings], what its body may do
  Breaks,      \* [Scripts -> SUBSET {"load", "seal"}], what raises of it
  Absent,      \* no value, no hash
  Composites,  \* ids of composites
  Graph,       \* [Composites -> a graph and its modules]
  Tops,        \* those that are executed from outside
  Calls,       \* the arguments execute may be given
  Shallow      \* calls within calls that Python's stack surely holds

(* What a body's run is judged to be; a body may end with an exception     *)
(* that is no Exception, which nobody catches.                             *)
Outcomes == {"PASS", "FAIL", "SKIPPED"}
Endings == Outcomes \cup {"raised"}

(* nodes is the dict's order; a node of no module has kind "missing",      *)
(* a module that is neither leaf nor composite "other".                    *)
Shape(g) ==
  /\ g.nodes \in Seq(Nodes)
  /\ g.edges \in Seq(Nodes \X Nodes)
  /\ g.kind \in [Nodes -> {"leaf", "async", "composite", "other", "missing"}]
  /\ g.script \in [Nodes -> Scripts]
  /\ g.inner \in [Nodes -> Composites]
  /\ g.output \in Nodes

ASSUME CompositeAssumption ==
  /\ \A c \in Composites : Shape(Graph[c])
  /\ May \in [Scripts -> SUBSET Endings]
  /\ Breaks \in [Scripts -> SUBSET {"load", "seal"}]
  /\ Shallow \in Nat
  /\ Absent \notin Scripts
  /\ Tops \subseteq Composites
  /\ \A a \in Calls : /\ a.given \subseteq {"plan", "iface"}
                      /\ {a.pinned, a.iface, a.canonical, a.loop} \subseteq BOOLEAN

VARIABLES
  top,           \* the composite that is executed
  call,          \* the arguments
  frames,        \* executions under way, the innermost last
  observations,  \* as the result will have them
  ran,           \* bodies run: [place, script, input, status]
  result         \* [status, data, cycle]

vars == <<top, call, frames, observations, ran, result>>
-----------------------------------------------------------------------------
(* The graph.  An edge is its position in the list, which may have one     *)
(* twice.                                                                  *)

NodeSet(g) == {g.nodes[k] : k \in DOMAIN g.nodes}
Successors(g, n) == {k \in DOMAIN g.edges : g.edges[k][1] = n}
Predecessors(g, n) == {k \in DOMAIN g.edges : g.edges[k][2] = n}
Least(S) == CHOOSE k \in S : \A j \in S : k <= j
Edge(g, m, n) == \E k \in DOMAIN g.edges : g.edges[k] = <<m, n>>

(* The nodes rank_of is called for: those of the graph, and whatever an    *)
(* edge into one of them comes from.                                       *)
Visited(g) ==
  {n \in Nodes : \A T \in SUBSET Nodes :
     /\ NodeSet(g) \subseteq T
     /\ \A e \in DOMAIN g.edges : g.edges[e][2] \in T => g.edges[e][1] \in T
     => n \in T}

(* Mutant of Rank: a node is ranked by how many predecessors it has. *)
RankByFanIn(g) == [n \in Visited(g) |-> Cardinality(Predecessors(g, n))]

(* compute_rank: 0 without predecessors, else 1 + the highest of theirs. *)
Rank(g) ==
  LET above(n) == {g.edges[e][1] : e \in Predecessors(g, n)}
      rank[n \in Visited(g)] ==
        IF above(n) = {} THEN 0
        ELSE 1 + CHOOSE r \in {rank[p] : p \in above(n)} :
                   \A p \in above(n) : rank[p] <= r
  IN  rank

(* The recursion of rank_of from a node of the graph does not end: among   *)
(* nodes that are not in the graph, which detect_cycle does not look at.   *)
Endless(g) ==
  \E S \in SUBSET Nodes : /\ S \cap NodeSet(g) # {}
                         /\ \A n \in S : \E m \in S : Edge(g, m, n)

(* The node that sorted() has first among those left: by rank, then by the *)
(* order of the dict.                                                      *)
At(g, n) == CHOOSE k \in DOMAIN g.nodes : g.nodes[k] = n
First(g, left) ==
  LET rank == Rank(g)
  IN  CHOOSE n \in left : \A m \in left \ {n} :
        rank[n] < rank[m] \/ (rank[n] = rank[m] /\ At(g, n) < At(g, m))

(* An execution of c: the search for a cycle, then the nodes left. *)
Frame(c, place, input) ==
  [of |-> c, place |-> place, input |-> input, phase |-> "search",
   path |-> <<>>, black |-> {}, left |-> NodeSet(Graph[c]),
   outputs |-> [n \in Nodes |-> <<Absent>>], last |-> Absent]

depth == Len(frames)
frame == frames[depth]
graph == Graph[frame.of]
current == First(graph, frame.left)

TypeOK ==
  /\ top \in Tops /\ call \in Calls
  /\ \A k \in DOMAIN frames :
       /\ frames[k].of \in Composites
       /\ frames[k].phase \in {"search", "gate", "run"}
       /\ frames[k].black \subseteq NodeSet(Graph[frames[k].of])
       /\ frames[k].left \subseteq NodeSet(Graph[frames[k].of])
       /\ frames[k].last \in Outcomes \cup {Absent}
  /\ \A k \in DOMAIN ran : ran[k].script \in Scripts /\ ran[k].status \in Endings
  /\ result.status \in Endings \cup {"none"}

Init ==
  /\ top \in Tops
  /\ call \in Calls
  /\ frames = <<Frame(top, <<>>, <<>>)>>
  /\ observations = <<>>
  /\ ran = <<>>
  /\ result = [status |-> "none", data |-> <<Absent>>, cycle |-> <<>>]

Becomes(f) ==
  /\ frames' = [frames EXCEPT ![depth] = f]
  /\ UNCHANGED result

(* A return or an exception of the outermost execute: those of the nested  *)
(* ones are handed on by every frame.                                      *)
Ends(status, data, cycle) ==
  /\ frames' = <<>>
  /\ result' = [status |-> status, data |-> data, cycle |-> cycle]

Raises == Ends("raised", <<Absent>>, <<>>) /\ UNCHANGED <<observations, ran>>

(* The searches and the ranks recurse along the nodes, execute into the    *)
(* nested composites: where there are more than the stack holds of them,   *)
(* it may end in a RecursionError.                                         *)
Deep == depth + Cardinality(Visited(graph)) > Shallow

Overflows ==
  /\ frames # <<>>
  /\ Deep
  /\ Raises
  /\ UNCHANGED <<top, call>>
-----------------------------------------------------------------------------
(* detect_cycle: path is the gray nodes, each with the edges it has left. *)

Searching == frames # <<>> /\ frame.phase = "search"
Gray == {frame.path[k].node : k \in DOMAIN frame.path}
Deepest == frame.path[Len(frame.path)]
Enter(n) == [node |-> n, edges |-> Successors(graph, n)]

(* for n in graph.nodes: the first white node, or no cycle at all. *)
SearchFrom ==
  LET white == {k \in DOMAIN graph.nodes : graph.nodes[k] \notin frame.black}
  IN  /\ Searching
      /\ frame.path = <<>>
      /\ Becomes(IF white = {} THEN [frame EXCEPT !.phase = "gate"]
                 ELSE [frame EXCEPT !.path =
                         <<Enter(graph.nodes[Least(white)])>>])
      /\ UNCHANGED <<top, call, observations, ran>>

(* Mutant of SearchEdge: a node seen before is a cycle, gray or not. *)
SearchEdgeSeen ==
  /\ Searching
  /\ frame.path # <<>>
  /\ Deepest.edges # {}
  /\ LET e == Least(Deepest.edges)
         v == graph.edges[e][2]
         rest == [frame.path EXCEPT ![Len(frame.path)].edges = @ \ {e}]
     IN  IF v \in Gray \cup frame.black
           THEN Ends("raised", <<Absent>>, <<v, v>>)
           ELSE Becomes([frame EXCEPT !.path = Append(rest, Enter(v))])
  /\ UNCHANGED <<top, call, observations, ran>>

(* One edge of the deepest node: to a gray node it closes a cycle, to a    *)
(* node the graph does not have it is a KeyError.                          *)
SearchEdge ==
  /\ Searching
  /\ frame.path # <<>>
  /\ Deepest.edges # {}
  /\ LET e == Least(Deepest.edges)
         v == graph.edges[e][2]
         rest == [frame.path EXCEPT ![Len(frame.path)].edges = @ \ {e}]
         names == [k \in DOMAIN frame.path |-> frame.path[k].node]
     IN  IF v \in Gray
           THEN LET k == CHOOSE k \in DOMAIN names : names[k] = v
                IN  Ends("raised", <<Absent>>,
                         Append(SubSeq(names, k, Len(names)), v))
         ELSE IF v \notin NodeSet(graph)
           THEN Ends("raised", <<Absent>>, <<>>)
         ELSE Becomes([frame EXCEPT !.path =
                         IF v \in frame.black THEN rest
                         ELSE Append(rest, Enter(v))])
  /\ UNCHANGED <<top, call, observations, ran>>

(* Mutant of SearchBack: the node left is not coloured black. *)
SearchBackWhite ==
  /\ Searching
  /\ frame.path # <<>>
  /\ Deepest.edges = {}
  /\ Becomes([frame EXCEPT !.path = SubSeq(@, 1, Len(@) - 1)])
  /\ UNCHANGED <<top, call, observations, ran>>

(* A node without edges left is black. *)
SearchBack ==
  /\ Searching
  /\ frame.path # <<>>
  /\ Deepest.edges = {}
  /\ Becomes([frame EXCEPT !.black = @ \cup {Deepest.node},
                           !.path = SubSeq(@, 1, Len(@) - 1)])
  /\ UNCHANGED <<top, call, observations, ran>>
-----------------------------------------------------------------------------
(* execute *)

(* plan and iface together, or SKIPPED before anything runs; and the       *)
(* ranks, a RecursionError where they have no end.                         *)
RequirePair ==
  /\ frames # <<>>
  /\ frame.phase = "gate"
  /\ IF call.given # {"plan", "iface"} THEN Ends("SKIPPED", <<Absent>>, <<>>)
     ELSE IF Endless(graph) THEN Ends("raised", <<Absent>>, <<>>)
     ELSE Becomes([frame EXCEPT !.phase = "run"])
  /\ UNCHANGED <<top, call, observations, ran>>

Executing == frames # <<>> /\ frame.phase = "run" /\ frame.left # {}

(* Mutant of Input: with several predecessors, the first one's output. *)
InputFirst(n) ==
  LET preds == Predecessors(graph, n)
  IN  IF preds = {} THEN frame.input
      ELSE frame.outputs[graph.edges[Least(preds)][1]]

(* The composite's input without predecessors, the output of the only one; *)
(* more than one raises, and so does one that the graph does not have.     *)
Input(n) ==
  LET preds == Predecessors(graph, n)
  IN  IF preds = {} THEN frame.input
      ELSE IF preds = {Least(preds)}
        THEN frame.outputs[graph.edges[Least(preds)][1]]
      ELSE <<Absent>>

NodeRaises ==
  /\ Executing
  /\ \/ graph.kind[current] \in {"missing", "other"}
     \/ Input(current) = <<Absent>>
  /\ Raises
  /\ UNCHANGED <<top, call>>

(* Mutant of Gate: a script the plan does not name is let through. *)
GateNamed(s) ==
  IF ~call.pinned THEN "SKIPPED"
  ELSE IF ~call.iface THEN "FAIL"
  ELSE IF call.hashes[ScriptName[s]] \notin {Absent, Hash[s]} THEN "FAIL"
  ELSE IF call.locals # Local[s] THEN "FAIL"
  ELSE "PASS"

(* _prepare_execution and the seal: the pin, the interface, the hash under *)
(* the script's name, and all dependencies of the plan, which are those of *)
(* every leaf or of none.                                                  *)
Gate(s) ==
  IF ~call.pinned THEN "SKIPPED"
  ELSE IF ~call.iface THEN "FAIL"
  ELSE IF call.hashes[ScriptName[s]] = Absent THEN "SKIPPED"
  ELSE IF call.hashes[ScriptName[s]] # Hash[s] THEN "FAIL"
  ELSE IF call.locals # Local[s] THEN "FAIL"
  ELSE "PASS"

(* What makes a leaf raise before its body runs: a module that exits while *)
(* it is loaded for the gate; once bound, a helper that raises while it is *)
(* sealed, an input without a canonical form, asyncio.run in a running     *)
(* loop.                                                                   *)
Breaking(n) ==
  LET s == graph.script[n] IN
  \/ call.pinned /\ "load" \in Breaks[s]
  \/ /\ Gate(s) = "PASS"
     /\ \/ "seal" \in Breaks[s]
        \/ ~call.canonical /\ Input(n) = <<>>
        \/ graph.kind[n] = "async" /\ call.loop

AtLeaf ==
  /\ Executing
  /\ graph.kind[current] \in {"leaf", "async"}
  /\ Input(current) # <<Absent>>

LeafBreaks ==
  /\ AtLeaf
  /\ Breaking(current)
  /\ Raises
  /\ UNCHANGED <<top, call>>

(* A leaf whose script is refused. *)
RefuseLeaf ==
  /\ AtLeaf
  /\ ~Breaking(current)
  /\ LET gate == Gate(graph.script[current])
     IN  gate # "PASS" /\ Ends(gate, <<Absent>>, <<>>)
  /\ UNCHANGED <<top, call, observations, ran>>

(* Mutant of Passes: the verdict on the leaf is not looked at. *)
PassesAny(n, status, data) ==
  Becomes([frame EXCEPT !.left = @ \ {n}, !.outputs[n] = data,
                        !.last = status])

(* A node that is not PASS is the result; its data is handed out by a sync *)
(* leaf and kept back by an async one.                                     *)
Passes(n, status, data) ==
  IF status = "PASS"
    THEN Becomes([frame EXCEPT !.left = @ \ {n}, !.outputs[n] = data,
                               !.last = status])
    ELSE Ends(status, IF graph.kind[n] = "async" THEN <<Absent>> ELSE data,
              <<>>)

(* The body of the current leaf runs, to an end. *)
Runs(status) ==
  LET s == graph.script[current] IN
  /\ AtLeaf
  /\ ~Breaking(current)
  /\ Gate(s) = "PASS"
  /\ status \in May[s]
  /\ ran' = Append(ran, [place |-> Append(frame.place, current), script |-> s,
                         input |-> Input(current), status |-> status])
  /\ UNCHANGED <<top, call>>

(* A leaf whose script is bound: the body runs and is judged. *)
RunLeaf ==
  \E status \in Outcomes :
    /\ Runs(status)
    /\ observations' = Append(observations, Append(frame.place, current))
    /\ Passes(current, status, Append(Input(current), graph.script[current]))

(* Its body exits, or raises what run_script does not catch. *)
BodyRaises ==
  /\ Runs("raised")
  /\ Ends("raised", <<Absent>>, <<>>)
  /\ UNCHANGED observations

(* A node that is a composite: the same plan, iface and toolchain. *)
EnterComposite ==
  /\ Executing
  /\ graph.kind[current] = "composite"
  /\ Input(current) # <<Absent>>
  /\ frames' = Append(frames, Frame(graph.inner[current],
                                    Append(frame.place, current),
                                    Input(current)))
  /\ UNCHANGED <<top, call, observations, ran, result>>

(* The end of the loop: the data of output_node, a KeyError without one;   *)
(* a nested result is the output of its node in the frame below.           *)
Return ==
  LET data == frame.outputs[graph.output] IN
  /\ frames # <<>>
  /\ frame.phase = "run"
  /\ frame.left = {}
  /\ IF data = <<Absent>> THEN Ends("raised", data, <<>>)
     ELSE IF depth = 1 THEN Ends(frame.last, data, <<>>)
     ELSE LET node == frame.place[Len(frame.place)]
          IN  /\ frames' = [SubSeq(frames, 1, depth - 1) EXCEPT
                   ![depth - 1].left = @ \ {node},
                   ![depth - 1].outputs[node] = data,
                   ![depth - 1].last = frame.last]
              /\ UNCHANGED result
  /\ UNCHANGED <<top, call, observations, ran>>

Next ==
  \/ SearchFrom \/ SearchEdge \/ SearchBack
  \/ RequirePair \/ NodeRaises \/ LeafBreaks \/ RefuseLeaf
  \/ RunLeaf \/ BodyRaises \/ EnterComposite \/ Return \/ Overflows

Spec == Init /\ [][Next]_vars
FairSpec == Spec /\ WF_vars(Next)
-----------------------------------------------------------------------------
(* Properties *)

(* A reference for the graph: cyclic is a set of nodes each with a         *)
(* successor in the set.                                                   *)
Cyclic(g) ==
  \E S \in SUBSET NodeSet(g) :
    S # {} /\ \A m \in S : \E n \in S : Edge(g, m, n)

(* The search is exact: no graph with a cycle is ever run, and what is     *)
(* reported as a cycle is a closed walk along its edges (detect_cycle).    *)
CycleIsExact ==
  [][/\ \A k \in DOMAIN frames' :
          frames'[k].phase # "search" => ~Cyclic(Graph[frames'[k].of])
     /\ LET c == result'.cycle IN
        result' # result /\ c # <<>> =>
          /\ c[1] = c[Len(c)] /\ Len(c) > 1
          /\ \A k \in 1..(Len(c) - 1) : Edge(graph, c[k], c[k + 1])]_vars

(* No body runs but through the gate: plan and iface were given together,  *)
(* the contour was pinned, and the plan has the hash of that very script   *)
(* under its name, however deep the leaf is nested and whatever ran before *)
(* (execute, _prepare_execution).                                          *)
BodiesBound ==
  \A k \in DOMAIN ran :
    /\ call.given = {"plan", "iface"} /\ call.pinned /\ call.iface
    /\ call.hashes[ScriptName[ran[k].script]] = Hash[ran[k].script]
    /\ call.locals = Local[ran[k].script]

(* The evidence is complete and in order: unless it raised, the result has *)
(* one observation per body that ran, and a body that was not PASS is the  *)
(* last one (execute: early returns).                                      *)
ObservationsTellAll ==
  result.status \notin {"none", "raised"} =>
    /\ observations = [k \in DOMAIN ran |-> ran[k].place]
    /\ \A k \in 1..(Len(ran) - 1) : ran[k].status = "PASS"

(* A forest of known modules. *)
Sound(g) ==
  /\ ~Cyclic(g)
  /\ g.output \in NodeSet(g)
  /\ \A e \in DOMAIN g.edges : {g.edges[e][1], g.edges[e][2]} \subseteq NodeSet(g)
  /\ \A n \in NodeSet(g) : /\ g.kind[n] \in {"leaf", "async", "composite"}
                           /\ \A j, k \in Predecessors(g, n) : j = k

(* execute raises for a fault of the graph or of a leaf only: where the    *)
(* graph under way is a forest of known modules that fits Python's stack,  *)
(* the order of the ranks has every predecessor's output ready and the     *)
(* output node's at the end, and what raises is the leaf at hand, before   *)
(* its body or in it (compute_rank, sorted, execute, execute_plan,         *)
(* seal_local_deps, run_script).                                           *)
SoundNeverRaises ==
  [][result'.status = "raised" /\ result.status # "raised" =>
       \/ ~Sound(graph) \/ Deep
       \/ AtLeaf /\ (Breaking(current) \/ Runs("raised"))]_vars

(* execute returns or raises, whatever the graph: neither the search nor   *)
(* the loop goes round.                                                    *)
ExecuteEnds == <>(result.status # "none")
=============================================================================
