---------------------------- MODULE MCSupervisor ----------------------------
(***************************************************************************)
(* Instances of Supervisor for TLC: a tool t that imports h, which may     *)
(* import g, and a contour of worker.py and one hasher file.               *)
(***************************************************************************)
EXTENDS Supervisor

PinnedFiles == {"worker", "hasher"}
EngineFiles == PinnedFiles \cup {"other"}
StrayPaths == {"outside"}
OneVersion == {"v0"}
TwoVersions == {"v0", "v1"}
Modules == {"t", "h", "g"}
Bodies == {"b0", "b1"}

Module(id, canon, imports, eager) ==
  [id |-> id, canon |-> canon, imports |-> imports, eager |-> eager,
   dynamic |-> FALSE, fails |-> FALSE,
   contract |-> [type |-> "int", pure |-> TRUE, limit |-> 2]]
Declaring(c, type) == [c EXCEPT !.contract.type = type]

T0 == Module(0, "b0", {"h"}, {})
T1 == Module(1, "b0", {"h"}, {})
T2 == Module(2, "b1", {"h"}, {})
TDyn == [T0 EXCEPT !.id = 3, !.dynamic = TRUE]
TEager == Module(4, "b0", {"h"}, {"h"})
H0 == Module(10, "b0", {"g"}, {})
H1 == Module(11, "b0", {}, {})
HFails == [H1 EXCEPT !.id = 12, !.fails = TRUE]
G0 == Module(20, "b0", {}, {})
G1 == Module(21, "b0", {}, {})
GCyclic == Module(22, "b0", {"h"}, {})

Versioned(v) == [n \in Names |-> IF n \in DOMAIN v THEN v[n] ELSE {}]

(* The request the action driver makes of a lock of disk d. *)
Fresh(d) ==
  LET deps == [n \in Names |->
                 IF n = "h" \/ (n = "g" /\ "g" \in d["h"].imports) THEN d[n]
                 ELSE Absent]
  IN  [env |-> FALSE, worker |-> "v0",
       runtime |-> [f \in Paths |-> IF f \in Pinned THEN "v0" ELSE Absent],
       source |-> d["t"], body |-> d["t"].canon, claimed |-> Absent,
       deps |-> deps, modDeps |-> deps,
       dynamic |-> FALSE, limit |-> NoLimit]

FreshOf(saves) == {Fresh(d) : d \in {k \in [Names -> Contents] :
                                       \A n \in Names : k[n] \in saves[n]}}

(* Requests that lack, cut or contradict a fact. *)
Lacking(r) ==
  {[r EXCEPT !.worker = Absent], [r EXCEPT !.runtime["hasher"] = Absent],
   [r EXCEPT !.runtime["other"] = "v0"], [r EXCEPT !.runtime["other"] = "v1"],
   [r EXCEPT !.runtime["outside"] = "v0"],
   [r EXCEPT !.source = Absent], [r EXCEPT !.body = Absent],
   [r EXCEPT !.body = "b1"], [r EXCEPT !.claimed = "b1"],
   [r EXCEPT !.modDeps = Unsealed], [r EXCEPT !.deps = Unsealed],
   [r EXCEPT !.deps = Unsealed, !.modDeps = Unsealed],
   [r EXCEPT !.modDeps["g"] = Absent], [r EXCEPT !.deps["h"] = Empty],
   [r EXCEPT !.deps["g"] = Absent, !.modDeps["g"] = Absent],
   [r EXCEPT !.modDeps["h"] = Empty], [r EXCEPT !.dynamic = TRUE],
   [r EXCEPT !.env = TRUE]}

(* The engine is installed; it is in the working directory; another one is *)
(* there while ACID_ENGINE_ROOT has the right one.                         *)
Nowhere == [place \in Places |-> Absent]
OfVersion(v) == [f \in Contour |-> v]
In(place) == [Nowhere EXCEPT ![place] = OfVersion("v0")]
SomePlaces ==
  {In("site"), In("cwd"), [In("env") EXCEPT !["cwd"] = OfVersion("v1")]}
PackageOnly == {In("site")}

-----------------------------------------------------------------------------
(* swap: requests of every kind, whole ones and ones that lack or          *)
(* contradict a fact, on trees that are saved before, between and during   *)
(* the two processes.                                                      *)
SwapContents == {T0, T1, T2, TDyn, H0, H1, G0, G1}
SwapSaves ==
  Versioned([t |-> {T0, T1, T2, TDyn}, h |-> {H0, H1}, g |-> {G0, G1}])
SwapRequests ==
  LET whole == FreshOf(Versioned([t |-> {T0, TDyn}, h |-> {H0}, g |-> {G0}]))
  IN  whole \cup UNION {Lacking(r) : r \in whole}

(* moves: files come and go, the tool imports while it loads, the helpers  *)
(* import each other, one fails; limits of the tool and of the request.    *)
TUnlimited == [TEager EXCEPT !.id = 5, !.contract.limit = NoLimit]
MovesTools ==
  {TUnlimited} \cup
  {Declaring(TEager, type) : type \in OutputTypes \cup {"any"}}
MovesContents == MovesTools \cup {H0, HFails, G0, GCyclic}
MovesSaves ==
  Versioned([t |-> MovesTools, h |-> {H0, HFails}, g |-> {G0, GCyclic}])
MovesRequests ==
  LET whole == FreshOf([MovesSaves EXCEPT !["h"] = {H0}])
      failing == Fresh([t |-> TEager, h |-> HFails, g |-> G0])
      short == {r \in whole : /\ r.source.contract.type = "int"
                              /\ r.deps["g"] = G0}
  IN  whole \cup {failing} \cup {[r EXCEPT !.limit = 1] : r \in short}

(* A value of every kind, and each of the other reasons for a refusal.     *)
Returns(kind) ==
  [raises |-> FALSE, kind |-> kind, effects |-> FALSE, latency |-> 1]
EveryOutcome ==
  {Returns(kind) : kind \in Kinds} \cup
  {[Returns("int") EXCEPT !.raises = TRUE], [Returns("int") EXCEPT !.effects = TRUE],
   [Returns("int") EXCEPT !.latency = 2],
   [Returns("list") EXCEPT !.effects = TRUE, !.latency = 3],
   [Returns("dict") EXCEPT !.latency = 3]}
OneOutcome == {Returns("int")}
=============================================================================
