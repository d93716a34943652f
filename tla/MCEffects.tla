------------------------------ MODULE MCEffects -----------------------------
(***************************************************************************)
(* Instances of Effects for TLC: a key, two values, two tasks.               *)
(***************************************************************************)
EXTENDS Effects

OneKey == {"k"}
TwoValues == {"v", "w"}
TwoTasks == {"main", "child"}
SomeKinds == [pure : {TRUE}, light : BOOLEAN]
               \cup [pure : {FALSE}, light : {FALSE}]
=============================================================================
