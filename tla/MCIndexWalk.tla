---------------------------- MODULE MCIndexWalk -----------------------------
(***************************************************************************)
(* Instances of IndexWalk for TLC: two tools, ids of which two share a     *)
(* receipt file once the driver has made them safe, whole and broken       *)
(* indexes.                                                                *)
(***************************************************************************)
EXTENDS IndexWalk

Tools == {"s1", "s2"}
TwoBodies == {"b0", "b1"}
AllWalkers == {"bind", "locks", "driver", "ci", "hook"}
OneWalker == {"locks"}
ThreeIds == {"a/b", "a_b", "c"}

(* What the agent says agrees with itself, or does not.                    *)
Uses(name, id, file) == [name |-> name, id |-> id, file |-> file]
SomeEvents ==
  {Uses("c", Absent, Absent), Uses("c", Absent, "s1"), Uses("c", "a/b", "s2"),
   Uses("a_b", "s2", Absent), Uses("a_b", "c", "s1")}
NoEvents == {Uses("c", Absent, Absent)}

Safe == [id \in Ids |-> IF id = "a/b" THEN "a_b" ELSE id]
Files == [w \in Walkers |-> IF w = "driver" THEN Safe ELSE [id \in Ids |-> id]]

E(id, script, plan) ==
  [id |-> id, object |-> TRUE, script |-> script, plan |-> plan,
   locked |-> "b0"]
Whole == <<E("a/b", "s1", "ok"), E("c", "s2", "ok")>>
Pinned(entries) == [entries |-> entries, pinned |-> TRUE]

AllIndexes ==
  {Pinned(Whole), [entries |-> Whole, pinned |-> FALSE], Pinned(<<>>),
   Pinned(<<E("a/b", "s1", "ok"), E("a_b", "s2", "ok")>>),
   Pinned(<<E("c", "s1", "bad"), E("a_b", "s2", "missing")>>),
   Pinned(<<E("c", "s1", "ok"), E("a_b", "s2", "none")>>),
   Pinned(<<E("c", "s1", "ok"), E("a_b", Absent, "ok")>>),
   Pinned(<<E("c", "s1", "ok"), [E("a_b", "s2", "ok") EXCEPT !.object = FALSE]>>)}
WholeIndex == {Pinned(Whole)}
=============================================================================
