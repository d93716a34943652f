---------------------------- MODULE MCContracts ----------------------------
(***************************************************************************)
(* Instances of Contracts for TLC: policies that loosen, tighten and leave *)
(* out each kind of field, interfaces whose types widen, narrow, come and  *)
(* go, and records with and without what their schema asks for.            *)
(***************************************************************************)
EXTENDS Contracts, TLC

NoPolicy == <<>>

Strict == [max_latency_ms |-> 1, min_quality |-> 2, pure |-> TRUE,
           allowed_domains |-> {"a"}, forbidden_effects |-> {"write"},
           history |-> "full"]
Lax == [max_latency_ms |-> 2, min_quality |-> 1, pure |-> FALSE,
        allowed_domains |-> {"a", "b"}, forbidden_effects |-> {"delete"},
        history |-> "compact", note |-> "lax"]
Silent == [max_latency_ms |-> Absent, min_quality |-> 0, pure |-> Absent,
           forbidden_effects |-> {}, history |-> "odd", note |-> Absent]
Online == [allowed_domains |-> {"b"}, network |-> "allowed", note |-> "online"]

SomeThings == {"a", "b", "write", "delete"}
SomeDeclarations == {Strict, Lax, Silent, Online}
SomeRoots == {NoPolicy, [Lax EXCEPT !.history = "odd"]}
SomeDefaults == [max_latency_ms |-> 3, network |-> "forbidden"]

SomeProvisions ==
  [k \in StrategyFields |->
     CASE k \in LeastFields \cup GreatestFields -> (0 .. 3) \cup {Absent}
       [] k \in CommonFields -> SUBSET {"a", "b"} \cup {Absent}
       [] k \in JoinedFields -> SUBSET {"write", "delete"} \cup {Absent}
       [] k \in StrengthenedFields -> BOOLEAN \cup {Absent}
       [] OTHER -> DOMAIN Ranks(k) \cup {"odd", Absent}]

Interface(inputs, outputs) == [inputs |-> inputs, outputs |-> outputs]

SomeInterfaces ==
  {Interface([x |-> "int"], [y |-> "float", z |-> "list"]),
   Interface([x |-> "float"], [y |-> "int", z |-> "list[int]"]),
   Interface([w |-> "bool"], [y |-> "dict", z |-> "record"])}

SomeWithin == {<<"int", "list[int]">>, <<"list", "list[int]">>}
-----------------------------------------------------------------------------
Of(kind) == [kind |-> kind]
Dict(data) == [kind |-> "dict", data |-> data]
Plain(type) == [type |-> type, optional |-> FALSE, default |-> Absent,
                fields |-> Absent]

Atoms == {Of(kind) : kind \in {"int", "bool", "float", "str", "None", "tuple"}}
FirstFields == {Plain(type) : type \in {"int", "float", "bool", "widget"}}
  \cup {[Plain("int") EXCEPT !.default = Of("int")],
        [Plain("int") EXCEPT !.default = Of("str")],
        [Plain("str") EXCEPT !.optional = TRUE]}
Inside == [v |-> [Plain("int") EXCEPT !.default = Of("int")],
           u |-> Plain("str")]
SecondFields == {[Plain("record") EXCEPT !.fields = Inside],
                 [Plain("record") EXCEPT !.optional = TRUE],
                 [Plain("record") EXCEPT !.fields = Inside,
                                         !.default = Dict([u |-> Of("str")])]}
SomeSchemas == [{"n"} -> FirstFields]
  \cup {[n |-> first, r |-> second] : first \in FirstFields, second \in SecondFields}

Insides == {Dict(<<>>), Dict([u |-> Of("str")]), Dict([u |-> Of("int")]),
            Dict([u |-> Of("str"), v |-> Of("bool")])}
SomeRecords == {Dict(<<>>), Of("list"), [Dict([n |-> Of("int")]) EXCEPT !.kind = "odict"]}
  \cup {Dict([n |-> atom]) : atom \in Atoms}
  \cup {Dict([n |-> atom, r |-> inside]) : atom \in Atoms, inside \in Insides}
  \cup {Dict([n |-> Of("int"), r |-> Of("str")]), Dict([r |-> Dict([u |-> Of("str")])])}
=============================================================================
