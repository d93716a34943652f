------------------------------ MODULE Contracts ------------------------------
(***************************************************************************)
(* A contract before anything runs under it: policies are declared one     *)
(* below the other and resolved to an effective policy (level2/resolver.py *)
(* and its strategies), interfaces are published under that policy and a   *)
(* plan says how one version becomes the next (level2/migration.py), and   *)
(* records are held against a schema (level3/container/types.py) or a      *)
(* json_schema rule (level2/semantic.py).                                  *)
(*                                                                         *)
(* A policy is a function from some field names to values.  Absent is      *)
(* Python's None: a field that is not there reads as None.                 *)
(***************************************************************************)
EXTENDS Verdict, Integers, Sequences

CONSTANTS
  Declarations, \* the policies contracts declare
  Roots,        \* those a resolution starts from, {} in the examples
  Defaults,     \* the policy given as defaults to resolve_policy
  Things,       \* names of domains and effects
  Provisions,   \* field -> what providers offer for it
  Interfaces,   \* what may be published: [inputs, outputs], names -> types
  Within,       \* the pairs of types of which one's name is in the other's
  Schemas,      \* record schemas: field names -> RecordField
  Records,      \* data held against them: field names -> Value
  Absent,       \* None
  MaxChain      \* bound: policies declared below a root

(* DEFAULT_STRATEGIES *)
LeastFields == {"max_latency_ms"}
GreatestFields == {"min_quality", "quality_gate"}
CommonFields == {"allowed_domains"}
JoinedFields == {"forbidden_effects"}
StrengthenedFields == {"pure"}
RankedFields == {"history", "network", "security"}

StrategyFields == LeastFields \cup GreatestFields \cup CommonFields \cup
                  JoinedFields \cup StrengthenedFields \cup RankedFields

(* What a policy or a provider may hold for a field: lists of names as     *)
(* sets, latencies and qualities as numbers, and for a ranked field any    *)
(* string, one without a rank too.                                         *)
IsValue(k, value) ==
  \/ value = Absent
  \/ k \in LeastFields \cup GreatestFields /\ value \in Int
  \/ k \in CommonFields \cup JoinedFields /\ value \subseteq Things
  \/ k \in StrengthenedFields /\ value \in BOOLEAN
  \/ k \in RankedFields /\ value \in STRING
  \/ k \notin StrategyFields

Get(policy, k) == IF k \in DOMAIN policy THEN policy[k] ELSE Absent

Typed(policy) == \A k \in DOMAIN policy : IsValue(k, policy[k])

(* StringEnumStrategy, weakest first: _rank.get(value, -1). *)
Ranks(k) ==
  CASE k = "history" -> [none |-> 0, compact |-> 1, full |-> 2]
    [] k = "network" -> [allowed |-> 0, forbidden |-> 1]
    [] OTHER -> [permissive |-> 0, restricted |-> 1]

Ranked(k, value) == value \in DOMAIN Ranks(k)
Rank(k, value) == IF Ranked(k, value) THEN Ranks(k)[value] ELSE -1

ASSUME ContractsAssumption ==
  /\ Absent \notin Int /\ Absent \notin BOOLEAN
  /\ \A k \in RankedFields : ~Ranked(k, Absent)
  /\ \A things \in SUBSET Things : Absent # things
  /\ \A policy \in Declarations \cup Roots \cup {Defaults} : Typed(policy)
  /\ StrategyFields \subseteq DOMAIN Provisions
  /\ \A k \in StrategyFields : \A v \in Provisions[k] : IsValue(k, v)
  /\ \A interface \in Interfaces, section \in {"inputs", "outputs"} :
       \A k \in DOMAIN interface[section] : interface[section][k] # Absent
  /\ \A old, new \in OutputTypes : old # new => <<old, new>> \notin Within
  /\ MaxChain \in Nat
-----------------------------------------------------------------------------
(* value or [] and bool(value) *)
Listed(value) == IF value = Absent THEN {} ELSE value
Truth(value) == value = TRUE

(* Mutant of Merge: the child overrides whatever it declares. *)
MergeChildWins(k, parent, child) == IF child # Absent THEN child ELSE parent

(* Mutant of Merge: no latency is a latency of zero. *)
MergeNoneIsZero(k, parent, child) ==
  LET number(v) == IF v = Absent THEN 0 ELSE v
  IN  IF k \in LeastFields
        THEN IF number(child) < number(parent) THEN number(child) ELSE number(parent)
        ELSE MergeChildWins(k, parent, child)

(* strategy.merge *)
Merge(k, parent, child) ==
  CASE k \in LeastFields ->
         IF parent = Absent THEN child
         ELSE IF child = Absent THEN parent
         ELSE IF child < parent THEN child ELSE parent
    [] k \in GreatestFields ->
         IF parent = Absent THEN child
         ELSE IF child = Absent THEN parent
         ELSE IF child > parent THEN child ELSE parent
    [] k \in CommonFields -> Listed(parent) \cap Listed(child)
    [] k \in JoinedFields -> Listed(parent) \cup Listed(child)
    [] k \in StrengthenedFields -> Truth(parent) \/ Truth(child)
    [] OTHER ->
         IF ~Ranked(k, parent) THEN IF Ranked(k, child) THEN child ELSE Absent
         ELSE IF Rank(k, parent) >= Rank(k, child) THEN parent ELSE child

(* BooleanStrengthenStrategy.detect_conflict: False and None differ. *)
DetectConflict(k, parent, child) ==
  k \in StrengthenedFields /\ parent = TRUE /\ child = FALSE

(* strategy.compare_provided_required *)
Meets(k, provided, required) ==
  CASE k \in LeastFields ->
         required # Absent => provided # Absent /\ provided <= required
    [] k \in GreatestFields ->
         required # Absent => provided # Absent /\ provided >= required
    [] k \in CommonFields -> Listed(required) \subseteq Listed(provided)
    [] k \in JoinedFields -> Listed(provided) \cap Listed(required) = {}
    [] k \in StrengthenedFields -> Truth(required) => Truth(provided)
    [] OTHER -> required # Absent =>
         provided # Absent /\ Rank(k, provided) >= Rank(k, required)

(* resolve_field, without a conflict: defaults stand where nothing is left *)
(* of parent and child, and a field without a strategy goes to the child.  *)
ResolveField(k, parent, child, default) ==
  LET merged == IF k \in StrategyFields THEN Merge(k, parent, child)
                ELSE IF child # Absent THEN child ELSE parent
  IN  IF merged = Absent THEN default ELSE merged

Conflicts(parent, child) ==
  \E k \in DOMAIN parent \cup DOMAIN child :
    DetectConflict(k, Get(parent, k), Get(child, k))

ResolvePolicy(parent, child, defaults) ==
  [k \in DOMAIN parent \cup DOMAIN child \cup DOMAIN defaults |->
     ResolveField(k, Get(parent, k), Get(child, k), Get(defaults, k))]
-----------------------------------------------------------------------------
(* Mutant of CompareTypes: the numbers are widened either way. *)
CompareTypesBothWays(old, new) ==
  CASE old = new -> "IDENTICAL"
    [] {old, new} = {"int", "float"} -> "BACKWARD_COMPATIBLE"
    [] <<old, new>> \in Within -> "BACKWARD_COMPATIBLE"
    [] OTHER -> "BREAKING"

(* compare_types: the last clause is `old in new` on the types' names. *)
CompareTypes(old, new) ==
  CASE old = new -> "IDENTICAL"
    [] old = "int" /\ new = "float" -> "BACKWARD_COMPATIBLE"
    [] old = "float" /\ new = "int" -> "BREAKING"
    [] <<old, new>> \in Within -> "BACKWARD_COMPATIBLE"
    [] OTHER -> "BREAKING"

Sections == {"inputs", "outputs", "constraints"}

(* One MigrationStep for each key whose values differ; a constraint that   *)
(* changes keeps the default, reversible.                                  *)
SectionSteps(section, old, new) ==
  LET keys == {k \in DOMAIN old \cup DOMAIN new : Get(old, k) # Get(new, k)}
      action(k) == CASE Get(old, k) = Absent -> "add_field"
                     [] Get(new, k) = Absent -> "remove_field"
                     [] OTHER -> "change_type"
      reversible(k) ==
        action(k) = "change_type" /\ section # "constraints" =>
          CompareTypes(Get(old, k), Get(new, k)) # "BREAKING"
  IN  {[action |-> action(k), section |-> section, key |-> k,
        reversible |-> reversible(k)] : k \in keys}

PlanMigration(old, new) ==
  UNION {SectionSteps(section, old[section], new[section]) :
           section \in Sections}
-----------------------------------------------------------------------------
(* A RecordField is [type, optional, default, fields], where fields is the *)
(* schema of a record inside or Absent.  A Value is its kind and, where    *)
(* the kind is a dict's, its data.                                         *)
IsDict(value) == value.kind \in {"dict", "odict"}

(* A field that is neither optional nor has a default. *)
Needed(field) == ~field.optional /\ field.default = Absent

(* _check_type *)
CheckType(value, field) ==
  field.type \in OutputTypes /\ TypeMatches(field.type, value.kind)

(* RecordSchema.validate, the verdict.  Inner judges a record inside. *)
ValidateWith(Inner(_, _), schema, value) ==
  /\ IsDict(value)
  /\ \A name \in DOMAIN schema :
       IF name \notin DOMAIN value.data THEN ~Needed(schema[name])
       ELSE /\ CheckType(value.data[name], schema[name])
            /\ schema[name].type = "record" /\ schema[name].fields # Absent =>
                 Inner(schema[name].fields, value.data[name])

ValidateFlat(schema, value) ==
  LET None(fields, inner) == TRUE IN ValidateWith(None, schema, value)

Validate(schema, value) == ValidateWith(ValidateFlat, schema, value)

(* Mutant of Filled: an optional field without a default is filled too. *)
FilledWithNone(schema, value) ==
  LET none == [kind |-> "None"]
      missing == {name \in DOMAIN schema : name \notin DOMAIN value.data}
  IN  [kind |-> "dict",
       data |-> [name \in DOMAIN value.data \cup missing |->
                   IF name \in DOMAIN value.data THEN value.data[name]
                   ELSE IF schema[name].default = Absent THEN none
                   ELSE schema[name].default]]

(* RecordSchema.validate, the filled dict: what a record inside is filled  *)
(* with is dropped.                                                        *)
Filled(schema, value) ==
  LET missing == {name \in DOMAIN schema : /\ name \notin DOMAIN value.data
                                          /\ schema[name].default # Absent}
  IN  [kind |-> "dict",
       data |-> [name \in DOMAIN value.data \cup missing |->
                   IF name \in missing THEN schema[name].default
                   ELSE value.data[name]]]

(* Mutant of IsInstance: type(value) instead of isinstance. *)
IsInstanceExact(tag, kind) ==
  CASE tag \in {"int", "float", "str", "bool"} -> PythonType(kind) = tag
    [] OTHER -> TRUE

(* isinstance, where bool is an int; other tags are not looked at. *)
IsInstance(tag, kind) ==
  CASE tag = "int" -> kind \in {"int", "bigint", "bool"}
    [] tag = "float" -> kind \in {"int", "bigint", "bool", "float", "nan"}
    [] tag \in {"str", "bool"} -> kind = tag
    [] OTHER -> TRUE

(* The json_schema predicate, with the rule that asks for the fields of    *)
(* the schema: {"type": type_tag, "required": Needed}.                     *)
JsonSchema(schema, value) ==
  /\ IsDict(value)
  /\ \A name \in DOMAIN schema :
       IF name \notin DOMAIN value.data THEN ~Needed(schema[name])
       ELSE IsInstance(schema[name].type, value.data[name].kind)
-----------------------------------------------------------------------------
VARIABLES
  chain,      \* the policies declared so far, the root first
  effective,  \* what they resolved to
  conflict,   \* resolve_policy raised ResolveConflict for this chain
  previous,   \* the interface before the last published one
  published,  \* the one last published
  plan,       \* the steps from previous to published
  checked     \* the last record held against a schema

vars == <<chain, effective, conflict, previous, published, plan, checked>>

Nothing == [inputs |-> <<>>, outputs |-> <<>>, constraints |-> <<>>]
NotChecked == [schema |-> <<>>, value |-> [kind |-> "None"],
               valid |-> FALSE, json |-> FALSE]

Init ==
  /\ chain = <<>>
  /\ effective = <<>>
  /\ conflict = FALSE
  /\ previous = Nothing
  /\ published = Nothing
  /\ plan = {}
  /\ checked = NotChecked

(* A contract, or its next version, starts over from a root. *)
Begin(root) ==
  /\ checked = NotChecked
  /\ chain' = <<root>>
  /\ effective' = root
  /\ conflict' = FALSE
  /\ UNCHANGED <<previous, published, plan, checked>>

(* resolve_policy(effective, policy, Defaults) for a contract below. *)
Inherit(policy) ==
  /\ chain # <<>>
  /\ ~conflict
  /\ Len(chain) <= MaxChain
  /\ IF Conflicts(effective, policy)
       THEN conflict' = TRUE /\ UNCHANGED <<chain, effective>>
       ELSE /\ chain' = Append(chain, policy)
            /\ effective' = ResolvePolicy(effective, policy, Defaults)
            /\ UNCHANGED conflict
  /\ UNCHANGED <<previous, published, plan, checked>>

(* An InterfaceContract whose constraints are the effective policy, and    *)
(* plan_migration from the one before it.                                  *)
Publish(interface) ==
  LET new == [inputs |-> interface.inputs, outputs |-> interface.outputs,
              constraints |-> effective]
  IN  /\ chain # <<>>
      /\ ~conflict
      /\ previous' = published
      /\ published' = new
      /\ plan' = PlanMigration(published, new)
      /\ UNCHANGED <<chain, effective, conflict, checked>>

(* One record by both validators.  They share no state with the rest and   *)
(* are looked at in behaviours of their own.                               *)
Check(schema, value) ==
  /\ chain = <<>>
  /\ checked = NotChecked
  /\ checked' = [schema |-> schema, value |-> value,
                 valid |-> Validate(schema, value),
                 json |-> JsonSchema(schema, value)]
  /\ UNCHANGED <<chain, effective, conflict, previous, published, plan>>

Next ==
  \/ \E root \in Roots : Begin(root)
  \/ \E policy \in Declarations : Inherit(policy)
  \/ \E interface \in Interfaces : Publish(interface)
  \/ \E schema \in Schemas, value \in Records : Check(schema, value)

Spec == Init /\ [][Next]_vars
-----------------------------------------------------------------------------
(* Whatever is declared, the chain and what it resolved to are policies.   *)
TypeOK ==
  /\ Typed(effective)
  /\ \A i \in DOMAIN chain : Typed(chain[i])
  /\ conflict \in BOOLEAN

(* A string without a rank is declared like any other and then dropped. *)
Counts(k, value) == k \in RankedFields => value = Absent \/ Ranked(k, value)

(* Whoever keeps the effective policy keeps every policy it was resolved   *)
(* from, however long the chain and whatever the defaults: what            *)
(* compare_provided_required grants under the effective value it grants    *)
(* under each declared one.  Allowed domains are left out: their merge     *)
(* narrows the set while the comparison asks the provider for all of it.   *)
Substitutable ==
  \A k \in StrategyFields \ CommonFields, i \in DOMAIN chain :
    \A provided \in Provisions[k] :
      Counts(k, Get(chain[i], k)) /\ Meets(k, provided, Get(effective, k)) =>
        Meets(k, provided, Get(chain[i], k))

(* The resolution asks for nothing nobody asked for: what keeps each       *)
(* declared policy and the defaults keeps the effective one.               *)
NothingInvented ==
  \A k \in StrategyFields : \A provided \in Provisions[k] :
    /\ chain # <<>>
    /\ Meets(k, provided, Get(Defaults, k))
    /\ \A i \in DOMAIN chain : Meets(k, provided, Get(chain[i], k))
    => Meets(k, provided, Get(effective, k))

Accepts(type, kind) == type \in OutputTypes /\ TypeMatches(type, kind)

(* A migration that loses something says so.  A key that comes or goes has *)
(* a step; a value that check_conformance accepted under the old type of a *)
(* key it accepts under the new one, or the step is irreversible, provided *)
(* that the new type is one the judge knows; and a provider that kept the  *)
(* old constraint keeps the new one, or a step adds or changes it.         *)
NoSilentBreak ==
  /\ \A section \in {"inputs", "outputs"} :
       LET old == previous[section]
           new == published[section]
           steps == {step \in plan : step.section = section}
       IN  \A k \in DOMAIN old \cup DOMAIN new :
             \/ \E step \in steps :
                  /\ step.key = k
                  /\ step.action # "change_type" \/ ~step.reversible
             \/ /\ k \in DOMAIN old \cap DOMAIN new
                /\ new[k] \in OutputTypes => \A kind \in Kinds :
                     Accepts(old[k], kind) => Accepts(new[k], kind)
  /\ \A k \in StrategyFields : \A provided \in Provisions[k] :
       \/ ~Meets(k, provided, Get(previous.constraints, k))
       \/ Meets(k, provided, Get(published.constraints, k))
       \/ \E step \in plan : /\ step.section = "constraints" /\ step.key = k
                            /\ step.action # "remove_field"

(* A field the two validators may judge differently: a bool where a number *)
(* is asked for, and a type json_schema does not look at.                  *)
Loose(field, value) ==
  \/ field.type \notin {"int", "float", "str", "bool"}
  \/ field.type \in {"int", "float"} /\ value.kind = "bool"

(* A record that its schema accepts passes the json_schema rule for the    *)
(* same fields, and the other way round but for the loose fields.          *)
ValidatorsAgree ==
  /\ checked.valid => checked.json
  /\ checked.json /\ ~checked.valid =>
       \E name \in DOMAIN checked.schema \cap DOMAIN checked.value.data :
         Loose(checked.schema[name], checked.value.data[name])

(* A default that would pass where it stands. *)
SoundDefaults(schema) ==
  \A name \in DOMAIN schema :
    schema[name].default # Absent =>
      Validate([n \in {name} |-> schema[n]],
               [kind |-> "dict", data |-> [n \in {name} |-> schema[n].default]])

(* What validate fills in is itself a valid record and is filled in with   *)
(* nothing more, where the defaults have the types of their fields; the    *)
(* code compares neither.                                                  *)
FillIsStable ==
  checked.valid /\ SoundDefaults(checked.schema) =>
    LET filled == Filled(checked.schema, checked.value)
    IN  /\ Validate(checked.schema, filled)
        /\ Filled(checked.schema, filled) = filled
=============================================================================
