----------------------------- MODULE DataPlane ------------------------------
(***************************************************************************)
(* What a DataPlane promises (acid_engine/level1/data_plane.py, the        *)
(* abstract class and the in-memory plane): a map from keys to bytes, of   *)
(* which load answers the last bytes stored.  Nothing is promised any more *)
(* once a write has failed or was cut short.                               *)
(***************************************************************************)
CONSTANTS Keys, Values, Absent

VARIABLES
  content,   \* [Keys -> Values \cup {Absent}]
  answer,    \* the key last asked for and what it had
  sound      \* no write was cut short so far

vars == <<content, answer, sound>>

Init == /\ content \in [Keys -> Values \cup {Absent}]
        /\ answer \in Keys \X (Values \cup {Absent})
        /\ sound = TRUE

Store(k, v) ==
  /\ content' = [content EXCEPT ![k] = v]
  /\ UNCHANGED answer

Load(k) ==
  /\ answer' = <<k, content[k]>>
  /\ UNCHANGED content

Next ==
  \/ /\ sound /\ sound'
     /\ \E k \in Keys : Load(k) \/ \E v \in Values : Store(k, v)
  \/ ~sound'

Spec == Init /\ [][Next]_vars
=============================================================================
