----------------------------- MODULE FilePlane ------------------------------
(***************************************************************************)
(* FileSystemDataPlane (acid_engine/level1/data_plane.py): a blob per key, *)
(* an index of keys in memory and in index.json.  store writes the blob,   *)
(* then the index in memory, then index.json, then records the effect; a   *)
(* write may fail or the process die between any two of these.             *)
(*                                                                         *)
(* A blob's file name is a hash of its key, so that a key stands for it.   *)
(* One plane at a time has the directory open.                             *)
(***************************************************************************)
CONSTANTS
  Keys,
  Values,
  Absent,   \* no blob
  Torn,     \* a blob whose writing was cut short
  Faults    \* TRUE: writes may fail and the process may die inside store

ASSUME PlaneAssumption ==
  /\ Absent \notin Values /\ Torn \notin Values /\ Absent # Torn
  /\ Faults \in BOOLEAN

VARIABLES
  blob,     \* the files of the blobs
  file,     \* index.json: its state and the keys it lists
  index,    \* the index in memory
  open,     \* a plane is there
  op,       \* where store stands, and what it stores
  answer,   \* the last answer of load
  sound     \* no write was cut short so far

planeVars == <<blob, file, index, open, op, answer, sound>>

File(keys) == [state |-> "saved", keys |-> keys]
NoFile == [state |-> "none", keys |-> {}]
TornFile == [state |-> "torn", keys |-> {}]

Idle == [at |-> "idle", key |-> Absent, value |-> Absent]

PlaneTypeOK ==
  /\ blob \in [Keys -> Values \cup {Absent, Torn}]
  /\ file \in {NoFile, TornFile} \cup {File(S) : S \in SUBSET Keys}
  /\ index \in SUBSET Keys
  /\ open \in BOOLEAN
  /\ \/ op = Idle
     \/ op \in [at : {"index", "save", "record"}, key : Keys, value : Values]
  /\ answer \in Keys \X (Values \cup {Absent, Torn})
  /\ sound \in BOOLEAN

(* A directory as other runs left it: blobs without an entry are possible. *)
PlaneInit ==
  /\ blob \in [Keys -> Values \cup {Absent}]
  /\ file \in {NoFile} \cup {File(S) : S \in SUBSET Keys}
  /\ \A k \in file.keys : blob[k] # Absent
  /\ index = file.keys
  /\ open = TRUE
  /\ op = Idle
  /\ answer \in Keys \X {Absent}
  /\ sound = TRUE

(* __init__: an index.json that does not parse raises, and no plane is     *)
(* there.                                                                  *)
Open ==
  /\ ~open
  /\ file # TornFile
  /\ open' = TRUE
  /\ index' = file.keys
  /\ UNCHANGED <<blob, file, op, answer, sound>>

(* The process ends between two calls. *)
Close ==
  /\ open
  /\ op = Idle
  /\ open' = FALSE
  /\ UNCHANGED <<blob, file, index, op, answer, sound>>

(* store, write by write. *)
WriteBlob(k, v) ==
  /\ open
  /\ op = Idle
  /\ blob' = [blob EXCEPT ![k] = v]
  /\ op' = [at |-> "index", key |-> k, value |-> v]
  /\ UNCHANGED <<file, index, open, answer, sound>>

IndexKey ==
  /\ op.at = "index"
  /\ index' = index \cup {op.key}
  /\ op' = [op EXCEPT !.at = "save"]
  /\ UNCHANGED <<blob, file, open, answer, sound>>

(* Mutant of SaveIndex: what is saved is the index as it was before. *)
SaveIndexStale ==
  /\ op.at = "save"
  /\ file' = File(file.keys)
  /\ op' = [op EXCEPT !.at = "record"]
  /\ UNCHANGED <<blob, index, open, answer, sound>>

(* _save_index *)
SaveIndex ==
  /\ op.at = "save"
  /\ file' = File(index)
  /\ op' = [op EXCEPT !.at = "record"]
  /\ UNCHANGED <<blob, index, open, answer, sound>>

(* record_effect, and store returns. *)
Recorded ==
  /\ op.at = "record"
  /\ op' = Idle
  /\ UNCHANGED <<blob, file, index, open, answer, sound>>

(* write_bytes or write_text raises, the file truncated or not; store      *)
(* raises to its caller, and the plane stays as it is.                     *)
WriteFails ==
  /\ Faults
  /\ open
  /\ op' = Idle
  /\ sound' = FALSE
  /\ \/ /\ op = Idle
        /\ \E k \in Keys : blob' \in {blob, [blob EXCEPT ![k] = Torn]}
        /\ UNCHANGED file
     \/ /\ op.at = "save"
        /\ file' \in {file, TornFile}
        /\ UNCHANGED blob
  /\ UNCHANGED <<index, open, answer>>

(* The process dies inside store. *)
Dies ==
  /\ Faults
  /\ open
  /\ op # Idle
  /\ file' \in {file} \cup IF op.at = "save" THEN {TornFile} ELSE {}
  /\ open' = FALSE
  /\ op' = Idle
  /\ sound' = FALSE
  /\ UNCHANGED <<blob, index, answer>>

(* load, with Absent for its KeyError, and exists, which is its success. *)
Load(k) ==
  /\ open
  /\ op = Idle
  /\ answer' = <<k, IF k \in index THEN blob[k] ELSE Absent>>
  /\ UNCHANGED <<blob, file, index, open, op, sound>>

PlaneNext ==
  \/ Open \/ Close \/ IndexKey \/ SaveIndex \/ Recorded \/ WriteFails \/ Dies
  \/ \E k \in Keys : Load(k) \/ \E v \in Values : WriteBlob(k, v)

PlaneSpec == PlaneInit /\ [][PlaneNext]_planeVars
-----------------------------------------------------------------------------
(* What the plane holds: the blobs of the keys its index lists. *)
Known == IF open THEN index ELSE file.keys
Content == [k \in Keys |-> IF k \in Known THEN blob[k] ELSE Absent]

Promise == INSTANCE DataPlane WITH content <- Content

(* The plane on files is the plane in memory: in spite of its three        *)
(* writes, each store takes effect at once, load answers the last bytes    *)
(* stored, and closing and opening the directory lose nothing, for as long *)
(* as no write is cut short (FileSystemDataPlane against DataPlane).       *)
IsDataPlane == Promise!Spec
=============================================================================
