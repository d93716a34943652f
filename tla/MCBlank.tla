------------------------------ MODULE MCBlank ------------------------------
(***************************************************************************)
(* Instances of Blank for TLC: two Python files, contents that share a     *)
(* canon, contents without the entry, with a default that is no literal,   *)
(* with two definitions of the entry or none, with a closure; blanks with  *)
(* and without claims.                                                     *)
(***************************************************************************)
EXTENDS Blank

TwoFiles == {"a", "b"}
TwoTexts == {"t0", "t1"}
TwoBindings == {"plain", "other"}

Canon(text, binds) == [text |-> text, binds |-> binds]
Def(text, literal) == [text |-> text, binds |-> "plain", literal |-> literal]
Content(id, defs, made) == [id |-> id, defs |-> defs, made |-> made]

B0 == Canon("t0", "plain")
B1 == Canon("t1", "plain")

C0 == Content(0, <<Def("t0", TRUE)>>, B0)
C1 == Content(1, <<Def("t0", TRUE)>>, B0)
C2 == Content(2, <<Def("t1", TRUE)>>, B1)
CNone == Content(3, <<>>, Absent)
CDefault == Content(4, <<Def("t1", FALSE)>>, Canon("t1", "other"))
CTwice == Content(5, <<Def("t0", TRUE), Def("t1", TRUE)>>, B1)
CCell == Content(6, <<Def("t1", TRUE)>>, Canon("t1", "other"))
CLambda == Content(7, <<>>, B1)
SomeContents == {C0, C1, C2, CNone, CDefault, CTwice, CCell, CLambda}

Claim(f, body, source) == [file |-> f, body |-> body, source |-> source]

SomeBlanks == {Claim("a", Absent, Absent), Claim("a", B0, C0),
               Claim("b", Absent, Absent), Claim("b", B1, Absent)}

SomeArtifacts == {Claim("a", Absent, C0), Claim("a", B0, C0),
                  Claim("b", B1, C2), Claim("b", B0, Absent),
                  Claim("a", CCell.made, CCell),
                  Claim("b", CDefault.made, CDefault)}

SomeLocks == {[source |-> C0, body |-> B0], [source |-> C2, body |-> B1],
              [source |-> CTwice, body |-> B1], [source |-> CLambda, body |-> B1],
              [source |-> CCell, body |-> CCell.made],
              [source |-> CDefault, body |-> CDefault.made],
              [source |-> Absent, body |-> B0]}
=============================================================================
