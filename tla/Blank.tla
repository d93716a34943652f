------------------------------- MODULE Blank -------------------------------
(***************************************************************************)
(* Tools that are not a Python object: a JSON blank that names a Python    *)
(* file (level2/blank_loader.py), judged by the CLI, and an ArtifactRef    *)
(* that names one (level3/script/resolve.py), judged by a host.  The gate  *)
(* and the loader each read the blank, then the file it names, through the *)
(* pins of the process (level2/local_deps.py), while both are saved.       *)
(*                                                                         *)
(* One process that judges one tool after another.  Dependencies, contour  *)
(* and interface are those of module Judge and are taken to match.         *)
(***************************************************************************)
EXTENDS Naturals, Sequences

CONSTANTS
  Files,      \* Python files a blank may name
  Contents,   \* [id, defs, made], of a file
  Texts,      \* texts of definitions, without their names
  Bindings,   \* defaults and closures, what a function is made with
  Blanks,     \* the claims of JSON files: body and source may be Absent
  Locks,      \* [source, body]
  Artifacts,  \* the claims of artifacts of hosts
  Absent,
  Bytecode,   \* in the place of the text, where none can be found
  MaxEdits,   \* bound: saves
  MaxRuns     \* bound: judgements

Slot == Contents \cup {Absent}

(* What canonical_implementation hashes of a function. *)
Canons == [text : Texts, binds : Bindings]
LiveCanons == [text : Texts \cup {Bytecode}, binds : Bindings]

(* The definitions of the entry in the text of a file, each with what its  *)
(* defaults are if they are literals; and the function, if any, that is    *)
(* the entry once the file is executed.                                    *)
Definitions == [text : Texts, binds : Bindings, literal : BOOLEAN]

(* What a blank, or an artifact of a host, says of the file it names. *)
Claims == [file : Files, body : Canons \cup {Absent}, source : Slot]

ASSUME BlankAssumption ==
  /\ Files # {}
  /\ \A c \in Contents : /\ c.defs \in Seq(Definitions)
                         /\ c.made \in Canons \cup {Absent}
  /\ Blanks \cup Artifacts \subseteq Claims
  /\ \A l \in Locks : l.source \in Slot
  /\ Absent \notin Contents /\ Absent \notin Canons /\ Absent \notin Blanks
  /\ Absent \notin LiveCanons /\ Bytecode \notin Texts
  /\ MaxEdits \in Nat /\ MaxRuns \in Nat

VARIABLES
  blank,    \* the JSON file on disk
  disk,     \* the Python files on disk
  pinned,   \* _PINNED_SOURCE of the Python files
  pinJson,  \* _PINNED_SOURCE of the blank, Absent for none
  job       \* the judgement under way, and its bounds

vars == <<blank, disk, pinned, pinJson, job>>

Stages == {"idle", "gate", "target", "compare", "load", "match", "exec",
           "canon", "bind"}
Reasons == {"none", "source_not_pinned", "source_hash", "raised",
            "broken_ref", "artifact_source", "artifact_body", "module_hash",
            "conformance"}

NoRef == [file |-> CHOOSE f \in Files : TRUE, body |-> Absent,
          source |-> Absent]
NoArtifact == [body |-> Absent, source |-> Absent]

TypeOK ==
  /\ blank \in Blanks
  /\ disk \in [Files -> Slot]
  /\ pinned \in [Files -> Slot]
  /\ pinJson \in Blanks \cup {Absent}
  /\ job \in [at : Stages, entry : {"none", "admit", "library"},
              lock : Locks, ref : Claims,
              code : Slot, made : [body : LiveCanons \cup {Absent},
                                   source : Slot],
              status : {"none", "PASS", "FAIL", "SKIPPED"}, why : Reasons,
              edits : 0..MaxEdits, runs : 0..MaxRuns]

Init ==
  /\ blank \in Blanks
  /\ disk \in [Files -> Contents]
  /\ pinned = [f \in Files |-> Absent]
  /\ pinJson = Absent
  /\ \E l \in Locks :
       job = [at |-> "idle", entry |-> "none", lock |-> l, ref |-> NoRef,
              code |-> Absent, made |-> NoArtifact, status |-> "none",
              why |-> "none", edits |-> 0, runs |-> 0]

(* read_source_bytes: the pin if there is one, else the file. *)
Read(f) == IF pinned[f] # Absent THEN pinned[f] ELSE disk[f]

(* Mutant of ReadBlank: the JSON file is read again. *)
ReadBlankDisk == blank

ReadBlank == IF pinJson # Absent THEN pinJson ELSE blank

Pin(f, c) == pinned' = [pinned EXCEPT ![f] = c]

Go(j) == job' = j
Return(status, why) ==
  job' = [job EXCEPT !.at = "idle", !.status = status, !.why = why]

(* An exception, which leaves the CLI without a verdict. *)
Raise == Return("none", "raised")

-----------------------------------------------------------------------------
(* The CLI: source_hash_gate, load_script_blank *)

Admit(l) ==
  /\ job.at = "idle"
  /\ job.runs < MaxRuns
  /\ job' = [job EXCEPT !.at = IF l.source = Absent THEN "idle" ELSE "gate",
                        !.entry = "admit", !.lock = l, !.code = Absent,
                        !.made = NoArtifact, !.runs = @ + 1,
                        !.status = IF l.source = Absent THEN "SKIPPED"
                                   ELSE "none",
                        !.why = IF l.source = Absent THEN "source_not_pinned"
                                ELSE "none"]
  /\ UNCHANGED <<blank, disk, pinned, pinJson>>

(* snapshot_exec_target pins the blank, ... *)
GateBlank ==
  /\ job.at = "gate"
  /\ pinJson' = ReadBlank
  /\ Go([job EXCEPT !.at = "target"])
  /\ UNCHANGED <<blank, disk, pinned>>

(* Mutant of GateTarget: the bytes hashed are those of the JSON file. *)
GateTargetJson ==
  /\ job.at = "target"
  /\ Return("FAIL", "source_hash")
  /\ UNCHANGED <<blank, disk, pinned, pinJson>>

(* ... finds the file it names, and reads and pins that.  A blank whose    *)
(* file is not there is hashed itself, which no source_hash matches.       *)
GateTarget ==
  LET f == ReadBlank.file IN
  /\ job.at = "target"
  /\ IF disk[f] = Absent
       THEN Return("FAIL", "source_hash") /\ UNCHANGED pinned
       ELSE /\ Pin(f, Read(f))
            /\ Go([job EXCEPT !.at = "compare", !.ref.file = f])
  /\ UNCHANGED <<blank, disk, pinJson>>

GateCompare ==
  /\ job.at = "compare"
  /\ IF Read(job.ref.file) = job.lock.source
       THEN Go([job EXCEPT !.at = "load"])
       ELSE Return("FAIL", "source_hash")
  /\ UNCHANGED <<blank, disk, pinned, pinJson>>

(* script_from_authoring_dict: the blank is read again, and its file.      *)
LoadBlank ==
  LET b == ReadBlank
      src == Read(b.file)
  IN
  /\ job.at = "load"
  /\ IF disk[b.file] = Absent \/ b.source \notin {Absent, src}
       THEN Raise /\ UNCHANGED pinned
       ELSE /\ Pin(b.file, src)
            /\ Go([job EXCEPT !.at = "match",
                     !.ref = [file |-> b.file, body |-> b.body,
                              source |-> IF b.source = Absent THEN src
                                         ELSE b.source]])
  /\ UNCHANGED <<blank, disk, pinJson>>
-----------------------------------------------------------------------------
(* A host: resolve_script of an artifact *)

JudgeArtifact(l, a) ==
  /\ job.at = "idle"
  /\ job.runs < MaxRuns
  /\ job' = [job EXCEPT !.at = "match", !.entry = "library", !.lock = l,
                        !.ref = a, !.code = Absent, !.made = NoArtifact,
                        !.runs = @ + 1, !.status = "none", !.why = "none"]
  /\ UNCHANGED <<blank, disk, pinned, pinJson>>

(* What resolve_script refuses before it loads anything. *)
Unresolved ==
  /\ job.entry = "library" /\ job.at = "match"
  /\ \/ disk[job.ref.file] = Absent /\ Return("FAIL", "broken_ref")
     \/ /\ disk[job.ref.file] # Absent
        /\ job.ref.source = Absent
        /\ Return("FAIL", "artifact_source")
  /\ UNCHANGED <<blank, disk, pinned, pinJson>>
-----------------------------------------------------------------------------
(* Both: _load_python_entry and what is made of its result *)

(* What a failed load is for a host, and for the CLI. *)
Refuse(why) == IF job.entry = "library" THEN Return("FAIL", why) ELSE Raise

(* The canons the loaded function may have: its defaults and closure are   *)
(* its own, its text is what inspect.getsource finds at its line of the    *)
(* file as it is now, which is anything once the file is another.          *)
Found(f) ==
  IF disk[f] = Absent THEN {Bytecode}
  ELSE IF disk[f] = job.code THEN {job.code.made.text}
  ELSE Texts \cup {Bytecode}
LiveCanon(f) == {[text |-> t, binds |-> job.code.made.binds] : t \in Found(f)}

(* The preview of the body, read from bytes: the first definition of the   *)
(* name, with literal defaults and no closure, or None.                    *)
Preview(c) ==
  IF c.defs = <<>> \/ ~c.defs[1].literal THEN Absent
  ELSE [text |-> c.defs[1].text, binds |-> c.defs[1].binds]

(* Mutant of BytesMatch: bytes are not looked at but for their hash. *)
BytesMatchSource(src) == src = job.ref.source

BytesMatch(src) ==
  src = job.ref.source /\ job.ref.body \in {Absent, Preview(src)}

LoadMatch ==
  LET f == job.ref.file
      src == Read(f)
  IN
  /\ job.at = "match"
  /\ job.entry = "library" => disk[f] # Absent /\ job.ref.source # Absent
  /\ src # Absent
  /\ IF BytesMatch(src)
       THEN /\ Pin(f, src)
            /\ Go([job EXCEPT !.at = "exec"])
       ELSE /\ UNCHANGED pinned
            /\ Refuse(IF src # job.ref.source THEN "artifact_source"
                      ELSE "artifact_body")
  /\ UNCHANGED <<blank, disk, pinJson>>

(* The pinned bytes are executed; a missing entry raises. *)
LoadExec ==
  LET src == Read(job.ref.file) IN
  /\ job.at = "exec"
  /\ IF src.made # Absent
       THEN Go([job EXCEPT !.at = "canon", !.code = src])
       ELSE Refuse("broken_ref")
  /\ UNCHANGED <<blank, disk, pinned, pinJson>>

(* The canon of the function that came of it is compared with the claim;   *)
(* a blank that claims none is given the hashes found.                     *)
LoadCanon ==
  /\ job.at = "canon"
  /\ \E live \in LiveCanon(job.ref.file) :
       IF job.ref.body \notin {Absent, live}
         THEN Refuse("artifact_body")
         ELSE Go([job EXCEPT !.at = "bind",
                    !.made = [body |-> live, source |-> Read(job.ref.file)]])
  /\ UNCHANGED <<blank, disk, pinned, pinJson>>

(* The module hash is that of the file now; then the body runs. *)
Bind ==
  /\ job.at = "bind"
  /\ \E live \in LiveCanon(job.ref.file) :
       IF live # job.lock.body
         THEN Return("FAIL", "module_hash")
         ELSE \E status \in {"PASS", "FAIL"} : Return(status, "conformance")
  /\ UNCHANGED <<blank, disk, pinned, pinJson>>
-----------------------------------------------------------------------------
(* Other programs *)

Edited == job.edits < MaxEdits /\ job' = [job EXCEPT !.edits = @ + 1]

SaveBlank(b) ==
  /\ Edited /\ b # blank /\ blank' = b
  /\ UNCHANGED <<disk, pinned, pinJson>>

Save(f, c) ==
  /\ Edited /\ c # disk[f] /\ disk' = [disk EXCEPT ![f] = c]
  /\ UNCHANGED <<blank, pinned, pinJson>>

Judge ==
  \/ \E l \in Locks : Admit(l) \/ \E a \in Artifacts : JudgeArtifact(l, a)
  \/ GateBlank \/ GateTarget \/ GateCompare \/ LoadBlank \/ Unresolved
  \/ LoadMatch \/ LoadExec \/ LoadCanon \/ Bind

Environment ==
  \/ \E b \in Blanks : SaveBlank(b)
  \/ \E f \in Files, c \in Slot : Save(f, c)

Next == Judge \/ Environment

Spec == Init /\ [][Next]_vars
-----------------------------------------------------------------------------
(* Properties *)

(* The bytes the CLI executes of a blank are those of the lock, whichever  *)
(* file the blank names by then and whatever is saved in it between the    *)
(* gate's two reads and the loader's three (snapshot_exec_target,          *)
(* load_script_blank, _load_python_entry).                                 *)
BlankBytesApproved ==
  job.entry = "admit" /\ job.code # Absent => job.code = job.lock.source

(* What an artifact claims is true of the bytes that were executed: their  *)
(* source hash, and with a claimed body hash the text of the first         *)
(* definition of the entry in them and the defaults and closure of the     *)
(* function called, though the text compared at the end is that of the     *)
(* file as it is then (_load_python_entry, resolve_script,                 *)
(* script_from_authoring_dict).                                            *)
ClaimsHold ==
  job.at = "bind" \/ job.status = "PASS" =>
    /\ job.made.source = job.code
    /\ job.ref.body # Absent => /\ Preview(job.code) = job.ref.body
                               /\ job.code.made.binds = job.ref.body.binds

(* While nothing is written, what is refused of a blank or an artifact     *)
(* whose claims and lock are those of the file as it is, is a body hash    *)
(* that cannot be read from the text: all others are judged by their       *)
(* output, the second time too (dump_script_lock against source_hash_gate, *)
(* load_script_blank, canonical_implementation_from_source and             *)
(* bind_script_to_plan).                                                   *)
NoFalseRefusal ==
  LET a == IF job.entry = "admit" THEN blank ELSE job.ref
      c == disk[a.file]
  IN  /\ job.edits = 0 /\ job.entry # "none" /\ job.at = "idle"
      /\ c.made # Absent /\ job.lock = [source |-> c, body |-> c.made]
      /\ a.body \in {Absent, c.made}
      /\ a.source \in {c} \cup IF job.entry = "admit" THEN {Absent} ELSE {}
      => (job.why = "conformance" <=> a.body \in {Absent, Preview(c)})
=============================================================================
