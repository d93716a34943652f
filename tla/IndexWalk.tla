----------------------------- MODULE IndexWalk ------------------------------
(***************************************************************************)
(* The walks over locks/index.json: `locks --index` in one process         *)
(* (acid_engine/cli.py), the driver of the supervisor binary               *)
(* (acid_engine/action_driver.py) and the CI script that spawns one        *)
(* `judge` per entry (locks/ci_judge.py).  A walk counts failures, writes  *)
(* a receipt per judged entry and ends with an exit code; receipts stay on *)
(* disk for the next walk.  The hook that an agent runs before it uses a   *)
(* tool (examples/hooks/pre_tool_use.py) looks one entry up and binds it.  *)
(*                                                                         *)
(* One judgement is a step with any verdict that its entry allows: how it  *)
(* comes about is the subject of Judge and Supervisor.                     *)
(***************************************************************************)
EXTENDS Naturals, Sequences

CONSTANTS
  Walkers,     \* {"bind", "locks", "driver", "ci", "hook"} or some of them
  Scripts,     \* tool files
  Bodies,      \* hashes of a tool's body
  Dummy,       \* the hash of the body of dummy_script
  Absent,      \* no file, no field
  Ids,         \* ids of entries
  FileOf,      \* the receipt file of an id: [Walkers -> [Ids -> Receipts]]
  Receipts,    \* receipt files
  Indexes,     \* the indexes there are
  Events,      \* what an agent may be about to do
  MaxEdits,    \* bound: saves of a tool's file
  MaxWalks     \* bound: walks

(* plan: "none" is not named, "missing" not there, "bad" not JSON. *)
Entry == [id : Ids, object : BOOLEAN, script : Scripts \cup {Absent},
          plan : {"none", "missing", "bad", "ok"}, locked : Bodies]

(* An agent's event: the tool's name, the id and the file in its input.    *)
Event == [name : Ids, id : Ids \cup Scripts \cup {Absent},
          file : Scripts \cup {Absent}]

(* What a receipt file says, with the number of the walk that wrote it. *)
Receipt == [status : {"PASS", "FAIL", "SKIPPED"}, walk : Nat,
            script : Scripts, body : Bodies \cup {Dummy, Absent},
            locked : Bodies]

ASSUME WalkAssumption ==
  /\ Walkers \subseteq {"bind", "locks", "driver", "ci", "hook"}
  /\ Events \subseteq Event /\ Events # {}
  /\ FileOf \in [Walkers -> [Ids -> Receipts]]
  /\ \A index \in Indexes :
       index.entries \in Seq(Entry) /\ index.pinned \in BOOLEAN
  /\ Absent \notin Scripts /\ Absent \notin Bodies /\ Dummy \notin Bodies
  /\ Absent \notin Receipt
  /\ MaxEdits \in Nat /\ MaxWalks \in Nat

VARIABLES
  disk,       \* [Scripts -> Bodies \cup {Absent}]
  receipts,   \* [Receipts -> what the file says, or Absent]
  walker,     \* which walk is under way
  index,      \* its index
  event,      \* the hook's event
  pc,         \* "idle", "head", "entry", "judge" or "receipt"
  i,          \* the entry the loop is at
  failed,     \* the counter of the loop
  verdicts,   \* what was decided on each entry of this walk
  exit,       \* the exit code, Running before
  edits, walks

vars == <<disk, receipts, walker, index, event, pc, i, failed, verdicts, exit,
          edits, walks>>
state == <<disk, walker, index, event, edits, walks>>

Running == 3

TypeOK ==
  /\ disk \in [Scripts -> Bodies \cup {Absent}]
  /\ receipts \in [Receipts -> Receipt \cup {Absent}]
  /\ walker \in Walkers
  /\ index \in Indexes
  /\ event \in Events
  /\ pc \in {"idle", "head", "entry", "judge", "receipt"}
  /\ i \in 1..(Len(index.entries) + 1)
  /\ failed \in 0..Len(index.entries)
  /\ DOMAIN verdicts = DOMAIN index.entries
  /\ \A k \in DOMAIN verdicts :
       verdicts[k] \in {"none", "BOUND", "PASS", "FAIL", "SKIPPED"}
  /\ exit \in {Running, 0, 1, 2}
  /\ edits \in 0..MaxEdits
  /\ walks \in 0..MaxWalks

NoVerdicts(ix) == [k \in DOMAIN ix.entries |-> "none"]

Init ==
  /\ disk \in [Scripts -> Bodies]
  /\ receipts = [f \in Receipts |-> Absent]
  /\ walker \in Walkers
  /\ index \in Indexes
  /\ event = CHOOSE e \in Events : TRUE
  /\ pc = "idle"
  /\ i = 1
  /\ failed = 0
  /\ verdicts = NoVerdicts(index)
  /\ exit = Running
  /\ edits = 0
  /\ walks = 0

-----------------------------------------------------------------------------

entry == index.entries[i]

(* sys.exit, a return of the driver, or an exception nobody catches. *)
Exit(code) ==
  /\ pc' = "idle"
  /\ exit' = code

Start(w, ix) ==
  /\ pc = "idle"
  /\ walks < MaxWalks
  /\ walks' = walks + 1
  /\ walker' = w
  /\ index' = ix
  /\ event' \in IF w = "hook" THEN Events ELSE {event}
  /\ pc' = "head"
  /\ i' = 1
  /\ failed' = 0
  /\ verdicts' = NoVerdicts(ix)
  /\ exit' = Running
  /\ UNCHANGED <<disk, receipts, edits>>

(* The driver leaves the runtime pin to the supervisor. *)
RuntimeUnpinned == walker # "driver" /\ ~index.pinned

(* The CI script wants the fields of every entry before it judges one. *)
EntriesRefused ==
  \/ index.entries = <<>>
  \/ walker = "ci" /\ \E k \in DOMAIN index.entries :
       LET e == index.entries[k]
       IN  ~e.object \/ e.plan = "none" \/ e.script = Absent

(* The index as a whole, before its first entry. *)
OpenIndex ==
  /\ pc = "head"
  /\ walker # "hook"
  /\ IF RuntimeUnpinned \/ EntriesRefused
       THEN Exit(1)
       ELSE pc' = "entry" /\ UNCHANGED exit
  /\ UNCHANGED <<state, receipts, i, failed, verdicts>>

(* Mutant of Skip: the entry is passed over. *)
SkipUncounted(status) ==
  /\ verdicts' = [verdicts EXCEPT ![i] = status]
  /\ i' = i + 1
  /\ pc' = "entry"
  /\ UNCHANGED <<failed, exit>>

(* failed += 1 and continue; the CI script raises SystemExit instead. *)
Skip(status) ==
  /\ verdicts' = [verdicts EXCEPT ![i] = status]
  /\ IF walker = "ci"
       THEN Exit(1) /\ UNCHANGED <<i, failed>>
       ELSE /\ failed' = failed + 1
            /\ i' = i + 1
            /\ pc' = "entry"
            /\ UNCHANGED exit

(* The bytes the gate compares: what an earlier entry of this walk pinned  *)
(* for the file, or what is on disk now.                                   *)
Matches ==
  \/ disk[entry.script] = entry.locked
  \/ \E k \in 1..(i - 1) : /\ index.entries[k].script = entry.script
                           /\ index.entries[k].locked = entry.locked

(* Gate, load and bind_script_to_plan of the CLI: a refusal, an exception  *)
(* of the binding, which stands outside the try block, or a bound tool.    *)
BindEntry ==
  \/ \E status \in {"FAIL", "SKIPPED"} : Skip(status)
  \/ Exit(1) /\ UNCHANGED <<i, failed, verdicts>>
  \/ /\ Matches
     /\ IF walker = "bind"
          THEN /\ verdicts' = [verdicts EXCEPT ![i] = "BOUND"]
               /\ i' = i + 1
               /\ UNCHANGED pc
          ELSE pc' = "judge" /\ UNCHANGED <<i, verdicts>>
     /\ UNCHANGED <<failed, exit>>

(* The fields and the files of one entry.  The driver asks the supervisor  *)
(* whatever the script is.                                                 *)
CheckEntry ==
  /\ pc = "entry"
  /\ walker # "hook"
  /\ i <= Len(index.entries)
  /\ IF ~entry.object
       THEN /\ Exit(IF walker = "driver" THEN 2 ELSE 1)
            /\ UNCHANGED <<i, failed, verdicts>>
     ELSE IF entry.plan # "ok" \/ entry.script = Absent
       THEN Skip("FAIL")
     ELSE IF walker # "driver" /\ disk[entry.script] = Absent
       THEN Skip("FAIL")
     ELSE IF walker \in {"bind", "locks"}
       THEN BindEntry
     ELSE pc' = "judge" /\ UNCHANGED <<i, failed, verdicts, exit>>
  /\ UNCHANGED <<state, receipts>>

(* The judgement: a verdict, a PASS only of the locked body; an exception  *)
(* of the judge, or a supervisor that cannot be started, ends the walk; a  *)
(* supervisor that prints no JSON is a failed entry without a receipt.     *)
JudgeEntry ==
  /\ pc = "judge"
  /\ \/ \E status \in {"PASS", "FAIL", "SKIPPED"} :
          /\ status = "PASS" /\ walker # "locks"
               => disk[entry.script] = entry.locked
          /\ verdicts' = [verdicts EXCEPT ![i] = status]
          /\ pc' = "receipt"
          /\ UNCHANGED <<i, failed, exit>>
     \/ Exit(1) /\ UNCHANGED <<i, failed, verdicts>>
     \/ walker = "driver" /\ Skip("FAIL")
  /\ UNCHANGED <<state, receipts>>

(* build_receipt, after the run: the body's hash is that of the file as it *)
(* is now, in the driver that of dummy_script.                             *)
ReceiptNow ==
  [status |-> verdicts[i], walk |-> walks, script |-> entry.script,
   body |-> IF walker = "driver" THEN Dummy ELSE disk[entry.script],
   locked |-> entry.locked]

(* Mutant of WriteReceipt: a receipt that is there already is kept. *)
WriteReceiptOnce ==
  /\ pc = "receipt"
  /\ LET f == FileOf[walker][entry.id]
     IN  receipts' = [receipts EXCEPT ![f] = IF @ = Absent THEN ReceiptNow
                                             ELSE @]
  /\ IF verdicts[i] = "PASS"
       THEN /\ i' = i + 1
            /\ pc' = "entry"
            /\ UNCHANGED <<failed, verdicts, exit>>
       ELSE Skip(verdicts[i])
  /\ UNCHANGED state

(* write_receipt, then the verdict is counted.  An output that is not JSON *)
(* or a directory that is not there raises.                                *)
WriteReceipt ==
  /\ pc = "receipt"
  /\ \/ /\ receipts' = [receipts EXCEPT ![FileOf[walker][entry.id]] =
                          ReceiptNow]
        /\ IF verdicts[i] = "PASS"
             THEN /\ i' = i + 1
                  /\ pc' = "entry"
                  /\ UNCHANGED <<failed, verdicts, exit>>
             ELSE Skip(verdicts[i])
     \/ /\ Exit(1)
        /\ UNCHANGED <<receipts, i, failed, verdicts>>
  /\ UNCHANGED state

Summary ==
  /\ pc = "entry"
  /\ walker # "hook"
  /\ i > Len(index.entries)
  /\ Exit(IF failed > 0 THEN 1 ELSE 0)
  /\ UNCHANGED <<state, receipts, i, failed, verdicts>>

-----------------------------------------------------------------------------
(* The hook *)

Exists(s) == s # Absent /\ disk[s] # Absent

(* Mutant of Named: the file is one more name of the tool.                 *)
NamedAnyhow(e) ==
  \/ Exists(event.file) /\ event.file = e.script
  \/ e.id \in {event.name, event.id}

(* lookup: an event that names a file is about the entry of that very file *)
(* and no other; else the id or, for want of one, the name, which is asked *)
(* for in any case, decides.                                               *)
Named(e) ==
  IF event.file # Absent
    THEN Exists(event.file) /\ event.file = e.script
    ELSE \/ e.id \in {event.name, event.id}
         \/ e.script # Absent /\ e.script = event.id

(* The first entry that is named; no entry is a denial, an index that is   *)
(* not there or not JSON an exception and so no decision.                  *)
LookUp ==
  LET found == {k \in DOMAIN index.entries :
                  index.entries[k].object /\ Named(index.entries[k])}
  IN
  /\ pc = "head"
  /\ walker = "hook"
  /\ \/ Exit(1) /\ UNCHANGED i
     \/ found = {} /\ Exit(0) /\ UNCHANGED i
     \/ \E k \in found : /\ \A j \in found : k <= j
                        /\ i' = k
                        /\ pc' = "entry"
                        /\ UNCHANGED exit
  /\ UNCHANGED <<state, receipts, failed, verdicts>>

(* bind_entry: denied for a fact that is missing, a pin of the index that  *)
(* is violated, the gate, the load or the binding; an exception of the     *)
(* binding is no decision; else allowed.  Nothing is executed but the load.*)
AllowOrDeny ==
  /\ pc = "entry"
  /\ walker = "hook"
  /\ \/ Exit(1) /\ UNCHANGED verdicts
     \/ /\ Exit(0)
        /\ verdicts' = [verdicts EXCEPT ![i] = "FAIL"]
     \/ /\ entry.plan = "ok"
        /\ Exists(entry.script)
        /\ disk[entry.script] = entry.locked
        /\ Exit(0)
        /\ verdicts' = [verdicts EXCEPT ![i] = "BOUND"]
  /\ UNCHANGED <<state, receipts, i, failed>>

-----------------------------------------------------------------------------
(* Another program saves or unlinks a tool's file. *)
Save(s, b) ==
  /\ edits < MaxEdits
  /\ disk[s] # b
  /\ disk' = [disk EXCEPT ![s] = b]
  /\ edits' = edits + 1
  /\ UNCHANGED <<receipts, walker, index, event, pc, i, failed, verdicts, exit,
                 walks>>

(* The walk is killed. *)
Killed ==
  /\ pc # "idle"
  /\ Exit(1)
  /\ UNCHANGED <<state, receipts, i, failed, verdicts>>

Next ==
  \/ \E w \in Walkers, ix \in Indexes : Start(w, ix)
  \/ OpenIndex \/ CheckEntry \/ JudgeEntry \/ WriteReceipt \/ Summary
  \/ LookUp \/ AllowOrDeny \/ Killed
  \/ \E s \in Scripts, b \in Bodies \cup {Absent} : Save(s, b)

Spec == Init /\ [][Next]_vars
-----------------------------------------------------------------------------
(* Properties *)

(* A green walk is a walk without exceptions: exit code 0 means that every *)
(* entry of the index was decided PASS (BOUND when nothing is executed) in *)
(* this very walk, none was passed over, whatever was saved meanwhile.     *)
ZeroMeansAllPass ==
  exit = 0 /\ walker # "hook" =>
    \A k \in DOMAIN index.entries :
      verdicts[k] = IF walker = "bind" THEN "BOUND" ELSE "PASS"

(* A green walk leaves its evidence: when no two ids share a receipt file, *)
(* the receipt of every entry is a PASS of this walk for this script and   *)
(* not one that an earlier walk or another entry left there.               *)
OwnFiles ==
  \A j, k \in DOMAIN index.entries :
    FileOf[walker][index.entries[j].id] = FileOf[walker][index.entries[k].id]
      => j = k

GreenHasReceipts ==
  exit = 0 /\ walker \notin {"bind", "hook"} /\ OwnFiles =>
    \A k \in DOMAIN index.entries :
      LET e == index.entries[k]
          r == receipts[FileOf[walker][e.id]]
      IN  /\ r # Absent
          /\ r.status = "PASS" /\ r.walk = walks /\ r.script = e.script

(* The hook allows the tool the agent is about to use and no namesake: an  *)
(* event that names a file is allowed on the lock of that very file only,  *)
(* whatever id or tool name comes with it, and, as long as nothing was     *)
(* saved, only with the locked body in it (lookup, bind_entry).            *)
AllowIsForNamed ==
  walker = "hook" =>
    \A k \in DOMAIN verdicts :
      verdicts[k] = "BOUND" =>
        /\ event.file \in {Absent, index.entries[k].script}
        /\ edits = 0 => disk[index.entries[k].script] = index.entries[k].locked

(* A receipt of a PASS names the body that ran, which is the locked one    *)
(* (build_receipt: body_hash).                                             *)
ReceiptNamesBody ==
  \A f \in Receipts :
    receipts[f] # Absent /\ receipts[f].status = "PASS" =>
      receipts[f].body \in {receipts[f].locked, Dummy}
=============================================================================
