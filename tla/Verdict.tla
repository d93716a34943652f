------------------------------ MODULE Verdict ------------------------------
(***************************************************************************)
(* What becomes of the value a body returns: the observation of the run    *)
(* (python_runtime.py), the verdict of the judge in Python                 *)
(* (level2/conformance.py), and the one of the supervisor                  *)
(* (rust/acid-judge/src/lib.rs), to which the value comes as JSON.         *)
(*                                                                         *)
(* A value is its kind, as far as the two can tell kinds apart: a bigint   *)
(* needs more than 64 bits, a nan is any float JSON has no number for, an  *)
(* odict is of a subclass of dict, an object has attributes and a set has  *)
(* none.                                                                   *)
(***************************************************************************)
EXTENDS Integers

Kinds == {"None", "bool", "int", "bigint", "float", "nan", "str", "list",
          "tuple", "dict", "odict", "object", "set"}

OutputTypes == {"int", "bool", "float", "str", "list", "dict", "record", "None"}

(* max_latency_ms, which may be left out. *)
NoLimit == -1
Limits == Nat \cup {NoLimit}
Exceeds(latency, limit) == limit # NoLimit /\ latency > limit

(* What the tool declares. *)
Contract == [type : OutputTypes \cup {"any"}, pure : BOOLEAN, limit : Limits]

(* What a body does: it raises or returns a value, records effects, and    *)
(* takes its time.                                                         *)
Outcome == [raises : BOOLEAN, kind : Kinds, effects : BOOLEAN, latency : Nat]

(* _normalize and allow_nan=False of the snapshot's hash. *)
Canonical(kind) == kind \notin {"nan", "set"}

(* run_script: a value that cannot be hashed is a failed run without data. *)
Observed(outcome) ==
  LET completed == ~outcome.raises /\ Canonical(outcome.kind)
  IN  [status |-> IF completed THEN "completed" ELSE "failed",
       kind |-> IF completed THEN outcome.kind ELSE "None",
       effects |-> outcome.effects, latency |-> outcome.latency]

-----------------------------------------------------------------------------
Says(status, property) == [status |-> status, property |-> property]

(* type(value), by its name where it is an output type. *)
PythonType(kind) ==
  CASE kind \in {"int", "bigint"} -> "int"
    [] kind \in {"float", "nan"} -> "float"
    [] OTHER -> kind

TypeMatches(required, kind) ==
  \/ required = "record" /\ PythonType(kind) = "dict"
  \/ required = "float" /\ PythonType(kind) = "int"
  \/ required = PythonType(kind)

(* check_conformance without schema, rules and invariants, which no        *)
(* judgement passes to it.                                                 *)
CheckConformance(contract, obs) ==
  IF obs.status = "skipped" THEN Says("SKIPPED", "none")
  ELSE IF obs.status # "completed" THEN Says("FAIL", "status")
  ELSE IF contract.type \notin OutputTypes THEN Says("SKIPPED", "none")
  ELSE IF ~TypeMatches(contract.type, obs.kind) THEN Says("FAIL", "output_type")
  ELSE IF contract.pure /\ obs.effects THEN Says("FAIL", "pure")
  ELSE IF Exceeds(obs.latency, contract.limit)
    THEN Says("FAIL", "max_latency_ms")
  ELSE Says("PASS", "none")

-----------------------------------------------------------------------------
(* json.dumps of the worker's answer, which has no way to write an object. *)
Dumps(kind) == kind # "object"

(* What serde_json reads back: integers up to 64 bits, other numbers, ...  *)
Parsed(kind) ==
  CASE kind = "None" -> "null"
    [] kind = "int" -> "integer"
    [] kind \in {"bigint", "float"} -> "number"
    [] kind \in {"list", "tuple"} -> "array"
    [] kind \in {"dict", "odict"} -> "map"
    [] OTHER -> kind

(* Mutant of JsonMatches: a bool is a number there, too. *)
JsonMatchesBool(required, json) ==
  \/ required \in {"int", "float"} /\ json \in {"integer", "bool"}
  \/ required = "float" /\ json = "number"
  \/ required \in {"bool", "str"} /\ json = required
  \/ required = "list" /\ json = "array"
  \/ required \in {"dict", "record"} /\ json = "map"
  \/ required = "None" /\ json = "null"

(* type_matches *)
JsonMatches(required, json) ==
  \/ required = "int" /\ json = "integer"
  \/ required = "float" /\ json \in {"integer", "number"}
  \/ required \in {"bool", "str"} /\ json = required
  \/ required = "list" /\ json = "array"
  \/ required \in {"dict", "record"} /\ json = "map"
  \/ required = "None" /\ json = "null"

(* verdict: status, type, effects, latency.  The worker always measures    *)
(* the latency.                                                            *)
SupervisorVerdict(contract, obs) ==
  IF obs.status = "skipped" THEN Says("SKIPPED", "none")
  ELSE IF obs.status # "completed" THEN Says("FAIL", "status")
  ELSE IF contract.type \notin OutputTypes THEN Says("SKIPPED", "none")
  ELSE IF ~JsonMatches(contract.type, Parsed(obs.kind))
    THEN Says("FAIL", "output_type")
  ELSE IF contract.pure /\ obs.effects THEN Says("FAIL", "pure")
  ELSE IF Exceeds(obs.latency, contract.limit)
    THEN Says("FAIL", "max_latency_ms")
  ELSE Says("PASS", "none")
=============================================================================
