---------------------------- MODULE MCComposite -----------------------------
(***************************************************************************)
(* Instances of Composite for TLC: every set of edges over three nodes,    *)
(* and graphs with nested composites, a doubled edge, edges to and from    *)
(* nodes that are not there and cycles among those, unknown and missing    *)
(* modules.                                                                *)
(***************************************************************************)
EXTENDS CompositeReference

ThreeNodes == {"a", "b", "c"}
SomeScripts == {"s", "t", "u", "v", "w"}
NameOf == [x \in Scripts |-> IF x = "u" THEN "s" ELSE x]
HashOf == [x \in Scripts |-> x]
LocalOf == [x \in Scripts |-> {}]
MayBe == [x \in Scripts |-> IF x = "t" THEN Endings ELSE {"PASS"}]
BreaksIn == [x \in Scripts |-> IF x = "v" THEN {"load"}
                               ELSE IF x = "w" THEN {"seal"} ELSE {}]

(* Node b is async and has a body that may fail or exit.  u has the name   *)
(* of s; v exits while it is loaded, w has a helper that raises.           *)
Plain == [n \in Nodes |-> IF n = "b" THEN "async" ELSE "leaf"]
Script == [n \in Nodes |-> IF n = "b" THEN "t" ELSE "s"]

(* A composite is named, or is the plain graph of a set of edges. *)
Named(name) == [name |-> name, edges |-> {}]
Ids ==
  {[name |-> "plain", edges |-> e] : e \in SUBSET (ThreeNodes \X ThreeNodes)}
  \cup {Named(n) : n \in
    {"chain", "nested", "twice", "deep", "double", "dangling", "unknown",
     "missing", "noOutput", "empty", "innerCycle", "twin", "looped",
     "stray", "endless", "aside", "exits", "broken"}}

G(nodes, edges, output) ==
  [nodes |-> nodes, edges |-> edges, kind |-> Plain, script |-> Script,
   inner |-> [n \in Nodes |-> Named("chain")], output |-> output]

(* The edges of a set in a fixed order. *)
Listed(edges) ==
  LET order == <<"a", "b", "c">>
      all == [k \in 0..8 |-> <<order[1 + (k \div 3)], order[1 + (k % 3)]>>]
      kept(e) == e \in edges
  IN  SelectSeq([k \in 1..9 |-> all[k - 1]], kept)

Chain == G(<<"b", "a">>, <<<<"a", "b">>>>, "b")
Nested == [G(<<"c", "b", "a">>, <<<<"a", "b">>, <<"b", "c">>>>, "c")
             EXCEPT !.kind["b"] = "composite"]

GraphOf ==
  [id \in Ids |->
     LET i == id.name IN
     CASE i = "plain" -> G(<<"c", "b", "a">>, Listed(id.edges), "c")
       [] i = "chain" -> Chain
       [] i = "nested" -> Nested
       [] i = "twice" -> [Nested EXCEPT !.kind["c"] = "composite"]
       [] i = "deep" -> [Nested EXCEPT !.inner["b"] = Named("nested")]
       [] i = "double" -> [Chain EXCEPT !.edges = Append(@, <<"a", "b">>)]
       [] i = "dangling" -> [Chain EXCEPT !.edges = <<<<"c", "b">>>>]
       [] i = "stray" -> [Chain EXCEPT !.edges = <<<<"a", "c">>>>]
       [] i = "endless" -> [Chain EXCEPT !.edges = <<<<"c", "c">>, <<"c", "b">>>>]
       [] i = "aside" -> [Chain EXCEPT !.edges = Append(@, <<"c", "c">>)]
       [] i = "unknown" -> [Chain EXCEPT !.kind["b"] = "other"]
       [] i = "exits" -> [Chain EXCEPT !.script["b"] = "v"]
       [] i = "broken" -> [Nested EXCEPT !.script["c"] = "w"]
       [] i = "missing" -> [Chain EXCEPT !.kind["b"] = "missing"]
       [] i = "noOutput" -> [Chain EXCEPT !.output = "c"]
       [] i = "empty" -> G(<<>>, <<>>, "a")
       [] i = "innerCycle" -> [Nested EXCEPT !.inner["b"] = Named("looped")]
       [] i = "looped" -> [Chain EXCEPT !.edges = Append(@, <<"b", "a">>)]
       [] i = "twin" -> [Nested EXCEPT !.kind["b"] = "leaf",
                                       !.script["c"] = "u"]]

Whole == [given |-> {"plan", "iface"}, pinned |-> TRUE, iface |-> TRUE,
          hashes |-> [n \in {"s", "t", "v", "w"} |-> n], locals |-> {},
          canonical |-> TRUE, loop |-> FALSE]
AllCalls ==
  {Whole, [Whole EXCEPT !.given = {"plan"}], [Whole EXCEPT !.given = {}],
   [Whole EXCEPT !.pinned = FALSE], [Whole EXCEPT !.iface = FALSE],
   [Whole EXCEPT !.hashes["t"] = Absent], [Whole EXCEPT !.hashes["t"] = "u"],
   [Whole EXCEPT !.locals = {"h"}], [Whole EXCEPT !.canonical = FALSE],
   [Whole EXCEPT !.loop = TRUE]}
=============================================================================
