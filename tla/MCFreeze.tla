------------------------------ MODULE MCFreeze ------------------------------
(***************************************************************************)
(* Instances of Freeze for TLC: the tree of MCJudge's edits, locked,       *)
(* compared and judged while it is saved.                                  *)
(***************************************************************************)
EXTENDS Freeze, MCJudge

(* A version of the tool whose declaration is another, without a name. *)
Declared == {"k0", "k1"}
Unnamed == {"k1"}
TDeclared == [T2 EXCEPT !.contract = "k1"]
FreezeContents == {T0, TDeclared, TDyn, H0, H1, G0}
FreezeSaves ==
  Versions([t |-> {T0, TDeclared, TDyn}, h |-> {H0, H1}, g |-> {G0}])

(* Every lock the readings can make. *)
TornLocks ==
  {[dir |-> "d1", tool |-> "t", source |-> t, body |-> <<b, k>>,
    deps |-> [n \in Names |-> CASE n = "t" -> Absent
                                [] n = "h" -> h [] OTHER -> g],
    contour |-> r, complete |-> TRUE, iface |-> TRUE, dynamic |-> FALSE] :
     t \in {T0, TDeclared, TDyn}, b \in Bodies, k \in Declared,
     h \in {H0, H1}, g \in {Absent, G0}, r \in Contours}

GivenLocks ==
  LET lockOf(t, h) ==
        DumpLock("d1", "t", [f \in Files |-> CASE f[2] = "t" -> t
                                               [] f[2] = "h" -> h
                                               [] OTHER -> G0], R0)
  IN  {[lockOf(TDyn, H1) EXCEPT !.dynamic = TRUE],
       [lockOf(T0, H1) EXCEPT !.contour.python = 13]}
        \cup Lacking(lockOf(T0, H1))
FreezeLocks == TornLocks \cup GivenLocks
=============================================================================
