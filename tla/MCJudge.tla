------------------------------ MODULE MCJudge ------------------------------
(***************************************************************************)
(* Instances of Judge for TLC.  A tool t.py, a helper h.py it imports and, *)
(* where a scenario wants it, g.py that h imports; each file has one or    *)
(* two versions that may be saved.                                         *)
(***************************************************************************)
EXTENDS Judge

One == {"c1"}
Two == {"c1", "c2"}
OneDir == {"d1"}
TwoDirs == {"d1", "d2"}
OneHelper == {"t", "h"}
TwoHelpers == {"t", "h", "g"}
Bodies == {"b0", "b1"}
Declarations == {"k0"}
OneRuntime == {"r0"}
TwoRuntimes == {"r0", "r1"}
OnePython == {11}
FarPythons == {11, 13}
NearPythons == {11, 12}
R0 == [files |-> "r0", python |-> 11]
CLI == {"admit"}
Both == {"admit", "library"}

Module(id, canon, imports, eager) ==
  [id |-> id, canon |-> canon, contract |-> "k0", imports |-> imports,
   eager |-> eager, dynamic |-> FALSE, exec |-> "ok"]

(* t: two versions with the same body and different module-level code, and *)
(* a third with another body.                                              *)
T0 == Module(0, "b0", {"h"}, {})
T1 == Module(1, "b0", {"h"}, {})
T2 == Module(2, "b1", {"h"}, {})
TDyn == [T0 EXCEPT !.id = 3, !.dynamic = TRUE]
TEager == Module(4, "b0", {"h"}, {"h"})
H0 == Module(10, "b0", {"g"}, {})
H1 == Module(11, "b0", {}, {})
H2 == Module(12, "b0", {}, {})
HCyclic == Module(13, "b0", {"t"}, {})
HRaise == [H1 EXCEPT !.id = 14, !.exec = "raise"]
HExit == [H1 EXCEPT !.id = 15, !.exec = "exit"]
G0 == Module(20, "b0", {}, {})
G1 == Module(21, "b0", {}, {})
GCyclic == Module(22, "b0", {"h"}, {})

(* Saves from a set of versions per name, in every directory. *)
Versions(v) == [f \in Files |-> IF f[2] \in DOMAIN v THEN v[f[2]] ELSE {}]

(* The locks dump_script_lock writes for the disks one may save. *)
DumpedLocks(saves) ==
  {DumpLock(d, "t", [f \in Files |-> k[f[2]]],
            [files |-> "r0", python |-> p]) : d \in Dirs, p \in Pythons, k \in
     {j \in [Names -> Slot] :
        \A d \in Dirs, n \in Names :
          j[n] \in IF saves[<<d, n>>] = {} THEN {Absent} ELSE saves[<<d, n>>]}}

(* Locks that lack a fact, or pin another interface. *)
Lacking(l) == {[l EXCEPT !.source = Absent], [l EXCEPT !.body = Absent],
               [l EXCEPT !.complete = FALSE], [l EXCEPT !.iface = FALSE],
               [l EXCEPT !.contour = Absent]}

Any == [x \in Contexts |-> Locks]
AnyOfOwnDir == [x \in Contexts |->
                  {l \in Locks : l.dir = IF x = "c1" THEN "d1" ELSE "d2"}]

-----------------------------------------------------------------------------
(* cycle: helpers that import each other; helpers whose execution raises   *)
(* or exits; a tool that imports while it loads.                           *)
CycleContents == {T0, TEager, H0, HRaise, HExit, G0, GCyclic}
CycleSaves == Versions([t |-> {T0, TEager}, h |-> {H0, HRaise, HExit},
                        g |-> {G0, GCyclic}])
CycleLocks ==
  LET whole == DumpedLocks(CycleSaves)
  IN  whole \cup {[l EXCEPT !.complete = FALSE] : l \in whole}

(* back: the helper imports the tool's module. *)
BackContents == {T0, HCyclic}
BackSaves == Versions([t |-> {T0}, h |-> {HCyclic}])
BackLocks == DumpedLocks(BackSaves)

(* shared: two directories, each with its own helper of the same name.     *)
SharedContents == {TEager, H1, H2}
SharedSaves == [f \in Files |-> IF f[2] = "t" THEN {TEager}
                               ELSE IF f[1] = "d1" THEN {H1} ELSE {H2}]
SharedLocks ==
  {DumpLock(d, "t", [f \in Files |-> CHOOSE c \in SharedSaves[f] : TRUE], R0)
     : d \in Dirs}
=============================================================================
